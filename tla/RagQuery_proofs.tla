--------------------------- MODULE RagQuery_proofs ---------------------------
(***************************************************************************)
(* For any records, policies and processes: what readers are told is       *)
(* published is whole and made from the records as they are, and a query   *)
(* answers from one archive, whatever jobs run while it reads.             *)
(*                                                                         *)
(* None of the properties is inductive alone. Between two writes of the    *)
(* manifest a job relies on what the lock keeps others from doing: Hidden  *)
(* says when nothing is published, ChunkJob, TopicJob and DocumentJob what *)
(* the job that holds the lock has staged, and DerivedSound that no table, *)
(* staged, published or set aside, mixes two versions of the records. The  *)
(* query holds no lock: what it has read is kept between two versions.     *)
(***************************************************************************)
EXTENDS RagQuery, FiniteSetTheorems, TLAPS

Hidden(j) ==
    \/ job[j].kind = "import" /\ job[j].pc # "locked"
    \/ job[j].kind = "semantic" /\ job[j].pc \in {"stage", "embed", "out", "in", "publish"}

\* A chunk table that is whole for a generation.
Whole(t, g) == t.gen = g /\ t.rows = Eligible(g.src)

ChunkJob(j) ==
    job[j].kind = "semantic" =>
        /\ job[j].pc # "merge" /\ job[j].policy \in Policies
        /\ job[j].pc # "locked" => job[j].gen \in Gens
        /\ job[j].pc \in {"embed", "out", "in"} => stage["chunks"].gen = job[j].gen
        /\ job[j].pc \in {"out", "in"} => Whole(stage["chunks"], job[j].gen) /\ job[j].tab = "chunks"
        /\ job[j].pc = "publish" => Whole(table["chunks"], job[j].gen)

TopicJob(j) ==
    job[j].kind = "topics" =>
        /\ job[j].pc \in {"locked", "stage", "out", "in", "publish"}
        /\ job[j].pc # "locked" => /\ manifest.topics = 0
                                   /\ job[j].gen \in Gens /\ manifest.gen = job[j].gen
        /\ job[j].pc \in {"out", "in"} => job[j].tab \in {"topics", "points"}
        /\ job[j].pc \in {"out", "in"} /\ job[j].tab = "topics" => stage["topics"].gen = job[j].gen /\ stage["topics"].k = job[j].k
        /\ job[j].pc \in {"out", "in"} => stage["points"].gen = job[j].gen /\ stage["points"].k = job[j].k
        /\ (job[j].pc \in {"out", "in"} /\ job[j].tab = "points") \/ job[j].pc = "publish" =>
               table["topics"].gen = job[j].gen /\ table["topics"].k = job[j].k
        /\ job[j].pc = "publish" => table["points"].gen = job[j].gen /\ table["points"].k = job[j].k

DocumentJob(j) ==
    job[j].kind = "retrieval" =>
        /\ job[j].pc \in {"locked", "stage", "out", "in", "publish"}
        /\ job[j].pc \in {"stage", "out", "in"} => job[j].tab = "docs"

ImportJob(j) == job[j].kind = "import" => job[j].pc \in {"locked", "merge"} /\ job[j].todo \in Canonical

Sound(j) ==
    /\ job[j].kind = "none" <=> job[j].pc = "idle"
    /\ Hidden(j) => manifest = Nothing
    /\ ChunkJob(j) /\ TopicJob(j) /\ DocumentJob(j) /\ ImportJob(j)

JobsSound == \A j \in Jobs : Sound(j)

\* Every table was made from the records of its generation.
SoundTable(x) == x.gen # NoGen => x \in Table /\ x.src = x.gen.src /\ x.rows \subseteq Eligible(x.gen.src)

DerivedSound == \A t \in Tables : SoundTable(table[t]) /\ SoundTable(stage[t]) /\ SoundTable(backup[t])

NothingAnnounced == manifest.gen = NoGen => manifest.topics = 0

IInv == TypeOK /\ ManifestCurrent /\ PublishedExact /\ TopicsExact /\ NothingAnnounced /\ JobsSound /\ DerivedSound

---------------------------------------------------------------------------
(* The steps                                                               *)

\* The lock is held by one job: beside a running job, all others are idle.
LEMMA Alone ==
    ASSUME IInv, NEW j \in Jobs, job[j].pc # "idle"
    PROVE  lock = j /\ \A i \in Jobs \ {j} : job[i].pc = "idle" /\ job[i].kind = "none"
BY DEF IInv, TypeOK, JobsSound, Sound

\* A step of a running job leaves all others idle, so it need only account for itself.
LEMMA OthersSound ==
    ASSUME IInv, NEW j \in Jobs, job[j].pc # "idle", \A i \in Jobs \ {j} : job'[i] = job[i], Sound(j)'
    PROVE  JobsSound'
<1>1. ASSUME NEW i \in Jobs \ {j} PROVE Sound(i)'
  <2>1. job'[i].pc = "idle" /\ job'[i].kind = "none" BY Alone
  <2> QED BY <2>1 DEF Sound, Hidden, ChunkJob, TopicJob, DocumentJob, ImportJob
<1> QED BY <1>1 DEF JobsSound

\* The end of a job, whatever the cause, keeps everything that is on disk.
LEMMA ReleaseStep ==
    ASSUME IInv, NEW j \in Jobs, job[j].pc # "idle", Releases(j), UNCHANGED <<records, table, stage, backup>>,
           ManifestCurrent', PublishedExact', TopicsExact', NothingAnnounced', manifest' \in [gen: Gens \cup {NoGen}, topics: 0..MaxTopics]
    PROVE  IInv'
<1> USE ArchiveAssumption DEF ArchiveAssumption
<1>1. TypeOK'
  <2>1. Idle \in JobStates
    BY DEF JobStates, Idle, Steps, Tables
  <2>2. \A i \in Jobs : job'[i].pc = "idle"
    BY Alone DEF Releases, Idle, IInv, TypeOK
  <2> QED BY <2>1, <2>2 DEF IInv, TypeOK, Releases
<1>2. Sound(j)'
  BY DEF Releases, Idle, IInv, TypeOK, JobStates, Sound, Hidden, ChunkJob, TopicJob, DocumentJob, ImportJob
<1>3. JobsSound'
  BY <1>2, OthersSound DEF Releases, IInv, TypeOK
<1>4. DerivedSound'
  BY DEF IInv, DerivedSound, SoundTable
<1> QED BY <1>1, <1>3, <1>4 DEF IInv

\* A job that ends without writing.
LEMMA QuietRelease ==
    ASSUME IInv, NEW j \in Jobs, job[j].pc # "idle", Releases(j), UNCHANGED disk
    PROVE  IInv'
<1>1. ManifestCurrent' /\ PublishedExact' /\ TopicsExact' /\ NothingAnnounced'
  BY DEF disk, IInv, ManifestCurrent, PublishedExact, TopicsExact, NothingAnnounced
<1> QED BY <1>1, ReleaseStep DEF disk, IInv, TypeOK

LEMMA StartStep == ASSUME IInv, NEW j \in Jobs, Start(j) PROVE IInv'
<1> USE ArchiveAssumption DEF ArchiveAssumption, JobKinds
<1>1. PICK kind \in JobKinds, p \in Policies \cup {NoGen}, x \in Canonical \cup {NoGen} :
          /\ Acquire(j, kind, p, x)
          /\ kind = "import" => x \in Canonical
          /\ kind # "import" => p \in Policies
  <2>1. CASE "import" \in Kinds /\ \E x \in Canonical : Newer(x) /\ Acquire(j, "import", NoGen, x)
    BY <2>1 DEF JobKinds
  <2>2. CASE \E kind \in Kinds \ {"import"}, p \in Policies : Acquire(j, kind, p, NoGen)
    <3>1. PICK kind \in Kinds \ {"import"}, p \in Policies : Acquire(j, kind, p, NoGen) BY <2>2
    <3>2. kind \in JobKinds BY DEF JobKinds
    <3> QED BY <3>1, <3>2
  <2> QED BY <2>1, <2>2 DEF Start
<1> DEFINE new == Begun(kind, p, x)
<1>2. job' = [job EXCEPT ![j] = new] /\ lock = NoJob /\ lock' = j /\ UNCHANGED disk
  BY <1>1 DEF Acquire
<1>3. new \in JobStates
  BY DEF JobStates, Begun, Steps, Tables
<1>4. TypeOK'
  BY <1>2, <1>3 DEF IInv, TypeOK, disk, Begun
<1>5. JobsSound'
  <2>1. ASSUME NEW i \in Jobs PROVE Sound(i)'
    <3>1. CASE i = j
      BY <1>1, <1>2, <3>1 DEF Begun, IInv, TypeOK, JobStates, Sound, Hidden, ChunkJob, TopicJob, DocumentJob, ImportJob, JobKinds
    <3>2. CASE i # j
      <4>1. job'[i].pc = "idle" /\ job'[i].kind = "none"
        BY <1>2, <3>2 DEF IInv, TypeOK, JobsSound, Sound
      <4> QED BY <4>1 DEF Sound, Hidden, ChunkJob, TopicJob, DocumentJob, ImportJob
    <3> QED BY <3>1, <3>2
  <2> QED BY <2>1 DEF JobsSound
<1> QED BY <1>2, <1>4, <1>5 DEF IInv, disk, ManifestCurrent, PublishedExact, TopicsExact, NothingAnnounced, DerivedSound, SoundTable

LEMMA HideStep == ASSUME IInv, NEW j \in Jobs, Hide(j) PROVE IInv'
<1>1. TypeOK'
  BY ArchiveAssumption DEF ArchiveAssumption, Hide, At, Goes, Nothing, IInv, TypeOK, JobStates, Steps
<1>2. Sound(j)'
  BY DEF Hide, At, Goes, Nothing, IInv, TypeOK, JobStates, JobsSound, Sound, Hidden, ChunkJob, TopicJob, DocumentJob, ImportJob
<1>3. JobsSound'
  BY <1>2, OthersSound DEF Hide, At, Goes, IInv, TypeOK
<1>4. DerivedSound'
  BY DEF Hide, IInv, DerivedSound, SoundTable
<1> QED BY <1>1, <1>3, <1>4 DEF Hide, Nothing, IInv, ManifestCurrent, PublishedExact, TopicsExact, NothingAnnounced

LEMMA MergeStep == ASSUME IInv, NEW j \in Jobs, MergeBatch(j) PROVE IInv'
<1>1. PICK B \in SUBSET Eligible(job[j].todo) :
          /\ records' = [r \in Records |-> IF r \in B THEN job[j].todo[r] ELSE records[r]]
          /\ job' = [job EXCEPT ![j].todo = [r \in Records |-> IF r \in B THEN 0 ELSE @[r]]]
  BY DEF MergeBatch
<1>2. job[j].todo \in Canonical /\ manifest = Nothing
  BY DEF MergeBatch, At, IInv, JobsSound, Sound, Hidden, ImportJob
<1> DEFINE rest == [r \in Records |-> IF r \in B THEN 0 ELSE job[j].todo[r]]
<1>3. rest \in Canonical /\ job' = [job EXCEPT ![j].todo = rest]
  <2>1. rest \in Canonical
    BY <1>2, ArchiveAssumption DEF ArchiveAssumption, Canonical, Versions
  <2> QED BY <1>1, <2>1
<1> HIDE DEF rest
<1>4. TypeOK'
  <2>1. records' \in Canonical
    BY <1>1, <1>2 DEF Canonical, IInv, TypeOK
  <2>2. UNCHANGED <<manifest, table, stage, backup, lock>> BY DEF MergeBatch
  <2>3. job' \in [Jobs -> JobStates]
    BY <1>3 DEF JobStates, IInv, TypeOK
  <2>4. \A i \in Jobs : job'[i].pc = job[i].pc
    BY <1>3 DEF IInv, TypeOK
  <2> QED BY <2>1, <2>2, <2>3, <2>4 DEF IInv, TypeOK
<1>5. Sound(j)'
  BY <1>3 DEF MergeBatch, At, IInv, TypeOK, JobStates, JobsSound, Sound, Hidden, ChunkJob, TopicJob, DocumentJob, ImportJob
<1>6. JobsSound'
  BY <1>3, <1>5, OthersSound DEF MergeBatch, At, IInv, TypeOK
<1>7. DerivedSound'
  BY DEF MergeBatch, IInv, DerivedSound, SoundTable
<1> QED BY <1>2, <1>4, <1>6, <1>7 DEF MergeBatch, Nothing, IInv, ManifestCurrent, PublishedExact, TopicsExact, NothingAnnounced

LEMMA ReadRecordsStep == ASSUME IInv, NEW j \in Jobs, ReadRecords(j) PROVE IInv'
<1>1. Generation(j) \in Gens
  BY DEF ReadRecords, At, Generation, Gens, IInv, TypeOK, JobsSound, Sound, ChunkJob
<1>2. TypeOK'
  <2>1. [job[j] EXCEPT !.pc = "unpublish", !.gen = Generation(j)] \in JobStates
    BY <1>1 DEF IInv, TypeOK, JobStates, Steps
  <2> QED BY <2>1 DEF ReadRecords, At, disk, IInv, TypeOK
<1>3. Sound(j)'
  BY <1>1 DEF ReadRecords, At, disk, IInv, TypeOK, JobStates, JobsSound, Sound, Hidden, ChunkJob, TopicJob, DocumentJob, ImportJob
<1>4. JobsSound'
  BY <1>3, OthersSound DEF ReadRecords, At, IInv, TypeOK
<1> QED BY <1>2, <1>4 DEF ReadRecords, disk, IInv, ManifestCurrent, PublishedExact, TopicsExact, NothingAnnounced, DerivedSound, SoundTable

LEMMA UnpublishStep == ASSUME IInv, NEW j \in Jobs, Unpublish(j) PROVE IInv'
<1>1. TypeOK'
  BY ArchiveAssumption DEF ArchiveAssumption, Unpublish, At, Goes, Nothing, IInv, TypeOK, JobStates, Steps
<1>2. Sound(j)'
  BY DEF Unpublish, At, Goes, Nothing, IInv, TypeOK, JobStates, JobsSound, Sound, Hidden, ChunkJob, TopicJob, DocumentJob, ImportJob
<1>3. JobsSound'
  BY <1>2, OthersSound DEF Unpublish, At, Goes, IInv, TypeOK
<1>4. DerivedSound'
  BY DEF Unpublish, IInv, DerivedSound, SoundTable
<1> QED BY <1>1, <1>3, <1>4 DEF Unpublish, Nothing, IInv, ManifestCurrent, PublishedExact, TopicsExact, NothingAnnounced

\* A staging table that is started over has no rows yet.
LEMMA EmptyStageSound == ASSUME NEW g \in Gens PROVE EmptyStage(g, 0) \in Table /\ SoundTable(EmptyStage(g, 0))
BY ArchiveAssumption DEF ArchiveAssumption, EmptyStage, Table, SoundTable, Gens

LEMMA OpenStageStep == ASSUME IInv, NEW j \in Jobs, OpenStage(j) PROVE IInv'
<1>1. job[j].gen \in Gens
  BY DEF OpenStage, At, IInv, JobsSound, Sound, ChunkJob
<1>2. EmptyStage(job[j].gen, 0) \in Table /\ SoundTable(EmptyStage(job[j].gen, 0)) /\ EmptyStage(job[j].gen, 0).gen = job[j].gen
  BY <1>1, EmptyStageSound DEF EmptyStage
<1>3. /\ stage' \in [Tables -> Table \cup {NoTable}]
      /\ stage'["chunks"].gen = job[j].gen
      /\ \A t \in Tables : SoundTable(stage'[t])
  BY <1>2 DEF OpenStage, Tables, IInv, TypeOK, DerivedSound
<1>4. TypeOK'
  BY <1>3 DEF OpenStage, At, Goes, IInv, TypeOK, JobStates, Steps
<1>5. Sound(j)'
  BY <1>1, <1>3 DEF OpenStage, At, Goes, IInv, TypeOK, JobStates, JobsSound, Sound, Hidden, ChunkJob, TopicJob, DocumentJob, ImportJob
<1>6. JobsSound'
  BY <1>5, OthersSound DEF OpenStage, At, Goes, IInv, TypeOK
<1>7. DerivedSound'
  BY <1>3 DEF OpenStage, IInv, DerivedSound, SoundTable
<1> QED BY <1>4, <1>6, <1>7 DEF OpenStage, IInv, ManifestCurrent, PublishedExact, TopicsExact, NothingAnnounced

LEMMA EmbedStep == ASSUME IInv, NEW j \in Jobs, Embed(j) PROVE IInv'
<1>1. PICK B \in SUBSET Eligible(job[j].gen.src) : stage' = [stage EXCEPT !["chunks"].rows = @ \cup B]
  BY DEF Embed
<1>2. job[j].gen \in Gens /\ stage["chunks"].gen = job[j].gen
  BY DEF Embed, At, IInv, JobsSound, Sound, ChunkJob
<1>3. stage["chunks"] \in Table /\ SoundTable(stage["chunks"])
  BY <1>2, ArchiveAssumption DEF ArchiveAssumption, IInv, DerivedSound, SoundTable, Tables
<1>4. /\ stage' \in [Tables -> Table \cup {NoTable}]
      /\ stage'["chunks"].gen = job[j].gen
      /\ \A t \in Tables : SoundTable(stage'[t])
  <2> DEFINE new == [stage["chunks"] EXCEPT !.rows = @ \cup B]
  <2>1. new \in Table /\ new.gen = job[j].gen /\ new.src = stage["chunks"].src /\ new.rows = stage["chunks"].rows \cup B
    BY <1>2, <1>3 DEF Table, Eligible
  <2>2. SoundTable(new)
    BY <1>2, <1>3, <2>1, ArchiveAssumption DEF ArchiveAssumption, SoundTable
  <2>3. stage' = [stage EXCEPT !["chunks"] = new]
    BY <1>1
  <2> HIDE DEF new
  <2> QED BY <2>1, <2>2, <2>3 DEF Tables, IInv, TypeOK, DerivedSound
<1>5. TypeOK'
  BY <1>4 DEF Embed, IInv, TypeOK
<1>6. Sound(j)'
  BY <1>4 DEF Embed, At, IInv, TypeOK, JobStates, JobsSound, Sound, Hidden, ChunkJob, TopicJob, DocumentJob, ImportJob
<1>7. JobsSound'
  BY <1>6, OthersSound DEF Embed, At, IInv, TypeOK
<1>8. DerivedSound'
  BY <1>4 DEF Embed, IInv, DerivedSound, SoundTable
<1> QED BY <1>5, <1>7, <1>8 DEF Embed, IInv, ManifestCurrent, PublishedExact, TopicsExact, NothingAnnounced

\* As many staged rows as records, all of them of records: every record has its row.
LEMMA StagedStep == ASSUME IInv, NEW j \in Jobs, Staged(j) PROVE IInv'
<1>1. job[j].gen \in Gens /\ stage["chunks"].gen = job[j].gen
  BY DEF Staged, At, IInv, JobsSound, Sound, ChunkJob
<1>2. stage["chunks"].rows \in SUBSET Eligible(job[j].gen.src)
  BY <1>1, ArchiveAssumption DEF ArchiveAssumption, IInv, DerivedSound, SoundTable, Tables
<1>3. IsFiniteSet(Eligible(job[j].gen.src))
  <2>1. Eligible(job[j].gen.src) \in SUBSET Records BY DEF Eligible
  <2>2. IsFiniteSet(Records) BY ArchiveAssumption DEF ArchiveAssumption
  <2> QED BY <2>1, <2>2, FS_Subset
<1>4. Whole(stage["chunks"], job[j].gen)
  BY <1>1, <1>2, <1>3, FS_Subset DEF Staged, Whole
<1>5. TypeOK'
  <2>1. "out" \in Steps /\ "chunks" \in Tables
    BY DEF Steps, Tables
  <2>2. [job[j] EXCEPT !.pc = "out", !.tab = "chunks"] \in JobStates
    BY <2>1 DEF IInv, TypeOK, JobStates
  <2> QED BY <2>2 DEF Staged, At, disk, IInv, TypeOK
<1>6. Sound(j)'
  BY <1>1, <1>4 DEF Staged, At, disk, IInv, TypeOK, JobStates, JobsSound, Sound, Hidden, ChunkJob, TopicJob, DocumentJob, ImportJob, Whole
<1>7. JobsSound'
  BY <1>6, OthersSound DEF Staged, At, IInv, TypeOK
<1> QED BY <1>5, <1>7 DEF Staged, disk, IInv, ManifestCurrent, PublishedExact, TopicsExact, NothingAnnounced, DerivedSound, SoundTable

LEMMA PublishChunksStep == ASSUME IInv, NEW j \in Jobs, PublishChunks(j) PROVE IInv'
<1>1. job[j].gen \in Gens /\ Whole(table["chunks"], job[j].gen) /\ job[j].pc # "idle"
  BY DEF PublishChunks, At, IInv, JobsSound, Sound, ChunkJob
<1>2. manifest' = [gen |-> job[j].gen, topics |-> 0] /\ UNCHANGED <<records, table, stage, backup>> /\ Releases(j) /\ records = job[j].gen.src
  BY DEF PublishChunks
<1>3. table["chunks"] # NoTable
  BY <1>1, ArchiveAssumption DEF ArchiveAssumption, Whole, NoTable
<1>4. ManifestCurrent' /\ PublishedExact' /\ TopicsExact' /\ NothingAnnounced'
  BY <1>1, <1>2, <1>3 DEF Whole, ManifestCurrent, PublishedExact, TopicsExact, NothingAnnounced
<1>5. manifest' \in [gen: Gens \cup {NoGen}, topics: 0..MaxTopics]
  BY <1>1, <1>2, ArchiveAssumption DEF ArchiveAssumption
<1> QED BY <1>1, <1>2, <1>4, <1>5, ReleaseStep

\* Which table a job that swaps is swapping.
LEMMA Swapping ==
    ASSUME IInv, NEW j \in Jobs, job[j].pc \in {"out", "in"}
    PROVE  /\ job[j].tab \in Tables
           /\ \/ job[j].kind = "semantic" /\ job[j].tab = "chunks" /\ manifest = Nothing
              \/ job[j].kind = "topics" /\ job[j].tab \in {"topics", "points"} /\ manifest.topics = 0
              \/ job[j].kind = "retrieval" /\ job[j].tab = "docs"
BY DEF IInv, TypeOK, JobStates, JobKinds, JobsSound, Sound, Hidden, ChunkJob, TopicJob, DocumentJob, ImportJob

\* What a swap does to its table cannot contradict what is published.
LEMMA SwapKeepsPublished ==
    ASSUME IInv, NEW j \in Jobs, job[j].pc \in {"out", "in"}, UNCHANGED <<records, manifest>>,
           \A t \in Tables \ {job[j].tab} : table'[t] = table[t]
    PROVE  ManifestCurrent' /\ PublishedExact' /\ TopicsExact' /\ NothingAnnounced'
<1>1. ManifestCurrent' /\ NothingAnnounced'
  BY DEF IInv, ManifestCurrent, NothingAnnounced
<1>2. CASE job[j].tab = "chunks"
  BY <1>1, <1>2, Swapping DEF Nothing, PublishedExact, TopicsExact
<1>3. CASE job[j].tab \in {"topics", "points"}
  <2>1. manifest.topics = 0 BY <1>3, Swapping
  <2>2. table'["chunks"] = table["chunks"] BY <1>3 DEF Tables
  <2> QED BY <1>1, <2>1, <2>2 DEF IInv, PublishedExact, TopicsExact
<1>4. CASE job[j].tab = "docs"
  <2>1. \A t \in {"chunks", "topics", "points"} : table'[t] = table[t] BY <1>4 DEF Tables
  <2> QED BY <1>1, <2>1 DEF IInv, PublishedExact, TopicsExact
<1> QED BY <1>2, <1>3, <1>4, Swapping DEF Tables

LEMMA SwapOutStep == ASSUME IInv, NEW j \in Jobs, SwapOut(j) PROVE IInv'
<1>1. job[j].tab \in Tables /\ job[j].pc = "out"
  BY Swapping DEF SwapOut
<1>2. NoTable \in Table \cup {NoTable} /\ SoundTable(NoTable)
  BY DEF SoundTable, NoTable
<1>3. TypeOK'
  <2>1. "in" \in Steps BY DEF Steps
  <2>2. job' \in [Jobs -> JobStates]
    BY <2>1 DEF SwapOut, Goes, IInv, TypeOK, JobStates
  <2>3. \A i \in Jobs : job'[i].pc # "idle" <=> job[i].pc # "idle"
    BY <1>1 DEF SwapOut, Goes, IInv, TypeOK
  <2> QED BY <1>1, <1>2, <2>2, <2>3 DEF SwapOut, IInv, TypeOK
<1>4. Sound(j)'
  BY <1>1, Swapping DEF SwapOut, Goes, IInv, TypeOK, JobStates, JobsSound, Sound, Hidden, ChunkJob, TopicJob, DocumentJob, ImportJob, Whole
<1>5. JobsSound'
  BY <1>1, <1>4, OthersSound DEF SwapOut, Goes, IInv, TypeOK
<1>6. DerivedSound'
  <2>1. ASSUME NEW t \in Tables PROVE SoundTable(table'[t]) /\ SoundTable(backup'[t])
    BY <1>1, <1>2 DEF SwapOut, IInv, TypeOK, DerivedSound
  <2> QED BY <2>1 DEF SwapOut, IInv, DerivedSound, SoundTable
<1>7. \A t \in Tables \ {job[j].tab} : table'[t] = table[t]
  BY DEF SwapOut, IInv, TypeOK
<1> QED BY <1>1, <1>3, <1>5, <1>6, <1>7, SwapKeepsPublished DEF SwapOut, IInv

LEMMA SwapInStep == ASSUME IInv, NEW j \in Jobs, SwapIn(j) PROVE IInv'
<1>1. job[j].tab \in Tables /\ job[j].pc = "in"
  BY Swapping DEF SwapIn
<1>2. NoTable \in Table \cup {NoTable} /\ SoundTable(NoTable)
  BY DEF SoundTable, NoTable
<1>3. /\ table' = [table EXCEPT ![job[j].tab] = stage[job[j].tab]]
      /\ stage' = [stage EXCEPT ![job[j].tab] = NoTable]
      /\ backup' = [backup EXCEPT ![job[j].tab] = NoTable]
      /\ UNCHANGED <<records, manifest, lock>>
  BY DEF SwapIn
<1> DEFINE next == [job[j] EXCEPT !.pc = IF job[j].tab = "topics" THEN "out" ELSE "publish",
                                  !.tab = IF job[j].tab = "topics" THEN "points" ELSE job[j].tab]
<1>4. next \in JobStates /\ job' = [job EXCEPT ![j] = next]
  <2>1. {"out", "publish"} \subseteq Steps /\ "points" \in Tables BY DEF Steps, Tables
  <2>2. job[j] \in JobStates BY DEF IInv, TypeOK
  <2>3. next \in JobStates BY <2>1, <2>2 DEF JobStates
  <2>4. CASE job[j].tab = "topics"
    BY <2>2, <2>3, <2>4 DEF SwapIn
  <2>5. CASE job[j].tab # "topics"
    <3>1. next = [job[j] EXCEPT !.pc = "publish"] BY <2>2, <2>5 DEF JobStates
    <3> QED BY <2>3, <2>5, <3>1 DEF SwapIn, Goes
  <2> QED BY <2>4, <2>5
<1>5. /\ next.kind = job[j].kind /\ next.gen = job[j].gen /\ next.k = job[j].k /\ next.policy = job[j].policy
      /\ next.pc = (IF job[j].tab = "topics" THEN "out" ELSE "publish")
      /\ next.tab = (IF job[j].tab = "topics" THEN "points" ELSE job[j].tab)
  BY DEF IInv, TypeOK, JobStates
<1> HIDE DEF next
<1>6. job'[j] = next /\ \A i \in Jobs \ {j} : job'[i] = job[i]
  BY <1>4 DEF IInv, TypeOK
<1>7. TypeOK'
  <2>1. \A i \in Jobs : job'[i].pc # "idle" <=> job[i].pc # "idle"
    BY <1>1, <1>5, <1>6
  <2>2. job' \in [Jobs -> JobStates]
    BY <1>4 DEF IInv, TypeOK
  <2> QED BY <1>1, <1>2, <1>3, <2>1, <2>2 DEF IInv, TypeOK
<1>8. Sound(j)'
  <2>1. CASE job[j].kind = "semantic"
    BY <1>1, <1>3, <1>5, <1>6, <2>1, Swapping DEF IInv, TypeOK, JobsSound, Sound, Hidden, ChunkJob, TopicJob, DocumentJob, ImportJob, Whole
  <2>2. CASE job[j].kind = "topics"
    <3>1. CASE job[j].tab = "topics"
      BY <1>1, <1>3, <1>5, <1>6, <2>2, <3>1, Swapping DEF IInv, TypeOK, Tables, JobsSound, Sound, Hidden, ChunkJob, TopicJob, DocumentJob, ImportJob
    <3>2. CASE job[j].tab = "points"
      BY <1>1, <1>3, <1>5, <1>6, <2>2, <3>2, Swapping DEF IInv, TypeOK, Tables, JobsSound, Sound, Hidden, ChunkJob, TopicJob, DocumentJob, ImportJob
    <3> QED BY <1>1, <2>2, <3>1, <3>2, Swapping
  <2>3. CASE job[j].kind = "retrieval"
    BY <1>1, <1>3, <1>5, <1>6, <2>3, Swapping DEF IInv, TypeOK, JobsSound, Sound, Hidden, ChunkJob, TopicJob, DocumentJob, ImportJob
  <2> QED BY <1>1, <2>1, <2>2, <2>3, Swapping
<1>9. JobsSound'
  BY <1>1, <1>6, <1>8, OthersSound
<1>10. DerivedSound'
  <2>1. ASSUME NEW t \in Tables PROVE SoundTable(table'[t]) /\ SoundTable(stage'[t]) /\ SoundTable(backup'[t])
    BY <1>1, <1>2, <1>3 DEF IInv, TypeOK, DerivedSound
  <2> QED BY <2>1 DEF DerivedSound, SoundTable
<1>11. \A t \in Tables \ {job[j].tab} : table'[t] = table[t]
  BY <1>3 DEF IInv, TypeOK
<1> QED BY <1>1, <1>3, <1>7, <1>9, <1>10, <1>11, SwapKeepsPublished DEF IInv

LEMMA SwapBackStep == ASSUME IInv, NEW j \in Jobs, SwapBack(j) PROVE IInv'
<1>1. job[j].tab \in Tables /\ job[j].pc = "in"
  BY Swapping DEF SwapBack
<1>2. NoTable \in Table \cup {NoTable} /\ SoundTable(NoTable)
  BY DEF SoundTable, NoTable
<1>3. \A i \in Jobs : job'[i].pc = "idle" /\ job'[i].kind = "none"
  BY <1>1, Alone DEF SwapBack, Releases, Idle, IInv, TypeOK
<1>4. TypeOK'
  <2>1. Idle \in JobStates
    BY ArchiveAssumption DEF ArchiveAssumption, JobStates, Idle, Steps, Tables
  <2>2. lock' \notin Jobs /\ lock' = NoJob
    BY ArchiveAssumption DEF ArchiveAssumption, SwapBack, Releases
  <2> QED BY <1>1, <1>2, <1>3, <2>1, <2>2 DEF SwapBack, Releases, IInv, TypeOK
<1>5. JobsSound'
  BY <1>3 DEF JobsSound, Sound, Hidden, ChunkJob, TopicJob, DocumentJob, ImportJob
<1>6. DerivedSound'
  <2>1. ASSUME NEW t \in Tables PROVE SoundTable(table'[t]) /\ SoundTable(backup'[t])
    BY <1>1, <1>2 DEF SwapBack, IInv, TypeOK, DerivedSound
  <2> QED BY <2>1 DEF SwapBack, IInv, DerivedSound, SoundTable
<1>7. \A t \in Tables \ {job[j].tab} : table'[t] = table[t]
  BY DEF SwapBack, IInv, TypeOK
<1> QED BY <1>1, <1>4, <1>5, <1>6, <1>7, SwapKeepsPublished DEF SwapBack, IInv

LEMMA BeginTopicsStep == ASSUME IInv, NEW j \in Jobs, BeginTopics(j) PROVE IInv'
<1>1. PICK k \in 1..MaxTopics : job' = [job EXCEPT ![j].pc = "stage", ![j].gen = manifest.gen, ![j].k = k]
  BY DEF BeginTopics
<1>2. manifest.gen \in Gens /\ k \in 0..MaxTopics
  BY ArchiveAssumption DEF ArchiveAssumption, BeginTopics, IInv, TypeOK
<1>3. /\ manifest' \in [gen: Gens \cup {NoGen}, topics: 0..MaxTopics]
      /\ manifest'.gen = manifest.gen /\ manifest'.topics = 0
  BY ArchiveAssumption DEF ArchiveAssumption, BeginTopics, IInv, TypeOK
<1>4. TypeOK'
  <2>1. "stage" \in Steps BY DEF Steps
  <2>2. [job[j] EXCEPT !.pc = "stage", !.gen = manifest.gen, !.k = k] \in JobStates
    BY <1>2, <2>1 DEF IInv, TypeOK, JobStates
  <2>3. job' \in [Jobs -> JobStates] /\ \A i \in Jobs : job'[i].pc # "idle" <=> job[i].pc # "idle"
    <3>1. job[j].pc # "idle" BY DEF BeginTopics, At
    <3> DEFINE next == [job[j] EXCEPT !.pc = "stage", !.gen = manifest.gen, !.k = k]
    <3>2. job' = [job EXCEPT ![j] = next] /\ next.pc = "stage" BY <1>1 DEF IInv, TypeOK, JobStates
    <3> HIDE DEF next
    <3> QED BY <2>2, <3>1, <3>2 DEF next, IInv, TypeOK
  <2> QED BY <1>3, <2>3 DEF BeginTopics, IInv, TypeOK
<1>5. Sound(j)'
  BY <1>1, <1>2, <1>3 DEF BeginTopics, At, IInv, TypeOK, JobStates, JobsSound, Sound, Hidden, ChunkJob, TopicJob, DocumentJob, ImportJob
<1>6. JobsSound'
  BY <1>1, <1>5, OthersSound DEF BeginTopics, At, IInv, TypeOK
<1>7. DerivedSound'
  BY DEF BeginTopics, IInv, DerivedSound, SoundTable
<1> QED BY <1>3, <1>4, <1>6, <1>7 DEF BeginTopics, IInv, ManifestCurrent, PublishedExact, TopicsExact, NothingAnnounced

LEMMA StageTopicsStep == ASSUME IInv, NEW j \in Jobs, StageTopics(j) PROVE IInv'
<1>1. job[j].gen \in Gens /\ manifest.gen = job[j].gen /\ manifest.topics = 0
  BY DEF StageTopics, At, IInv, JobsSound, Sound, TopicJob
<1>2. table["chunks"].rows = Eligible(job[j].gen.src)
  BY <1>1, ArchiveAssumption DEF ArchiveAssumption, IInv, PublishedExact
<1>3. Clustered(j) \in Table /\ SoundTable(Clustered(j)) /\ Clustered(j).gen = job[j].gen /\ Clustered(j).k = job[j].k
  BY <1>1, <1>2 DEF Clustered, Table, SoundTable, Gens, Eligible, IInv, TypeOK, JobStates
<1>4. /\ stage' \in [Tables -> Table \cup {NoTable}]
      /\ stage'["topics"] = Clustered(j) /\ stage'["points"] = Clustered(j)
      /\ \A t \in Tables : SoundTable(stage'[t])
  BY <1>3 DEF StageTopics, Tables, IInv, TypeOK, DerivedSound
<1>5. TypeOK'
  <2>1. "out" \in Steps /\ "topics" \in Tables
    BY DEF Steps, Tables
  <2>2. [job[j] EXCEPT !.pc = "out", !.tab = "topics"] \in JobStates
    BY <2>1 DEF IInv, TypeOK, JobStates
  <2> QED BY <1>4, <2>2 DEF StageTopics, At, IInv, TypeOK
<1>6. Sound(j)'
  BY <1>1, <1>3, <1>4 DEF StageTopics, At, IInv, TypeOK, JobStates, JobsSound, Sound, Hidden, ChunkJob, TopicJob, DocumentJob, ImportJob
<1>7. JobsSound'
  BY <1>6, OthersSound DEF StageTopics, At, IInv, TypeOK
<1>8. DerivedSound'
  BY <1>4 DEF StageTopics, IInv, DerivedSound, SoundTable
<1> QED BY <1>5, <1>7, <1>8 DEF StageTopics, IInv, ManifestCurrent, PublishedExact, TopicsExact, NothingAnnounced

LEMMA PublishTopicsStep == ASSUME IInv, NEW j \in Jobs, PublishTopics(j) PROVE IInv'
<1>1. /\ job[j].gen \in Gens /\ manifest.gen = job[j].gen /\ job[j].pc # "idle" /\ job[j].k \in 0..MaxTopics
      /\ \A t \in {"topics", "points"} : table[t].gen = job[j].gen /\ table[t].k = job[j].k
  BY DEF PublishTopics, At, IInv, TypeOK, JobStates, JobsSound, Sound, TopicJob
<1>2. manifest' = [gen |-> job[j].gen, topics |-> job[j].k] /\ UNCHANGED <<records, table, stage, backup>> /\ Releases(j)
  BY DEF PublishTopics
<1>3. ManifestCurrent' /\ PublishedExact' /\ TopicsExact' /\ NothingAnnounced'
  BY <1>1, <1>2, ArchiveAssumption DEF ArchiveAssumption, IInv, ManifestCurrent, PublishedExact, TopicsExact, NothingAnnounced
<1>4. manifest' \in [gen: Gens \cup {NoGen}, topics: 0..MaxTopics]
  BY <1>1, <1>2
<1> QED BY <1>1, <1>2, <1>3, <1>4, ReleaseStep

LEMMA StageDocumentsStep == ASSUME IInv, NEW j \in Jobs, StageDocuments(j) PROVE IInv'
<1>1. manifest.gen = CurrentGeneration /\ manifest.gen \in Gens /\ records = manifest.gen.src /\ records \in Canonical
  BY DEF StageDocuments, CurrentGeneration, IInv, TypeOK, ManifestCurrent
<1> DEFINE docs == Documents(CurrentGeneration)
<1>2. docs \in Table /\ SoundTable(docs)
  BY <1>1, ArchiveAssumption DEF ArchiveAssumption, Documents, Table, SoundTable, Eligible
<1>3. stage' = [stage EXCEPT !["docs"] = docs]
  BY DEF StageDocuments
<1> HIDE DEF docs
<1>4. TypeOK'
  <2>1. "stage" \in Steps /\ "docs" \in Tables
    BY DEF Steps, Tables
  <2>2. [job[j] EXCEPT !.pc = "stage", !.gen = CurrentGeneration, !.tab = "docs"] \in JobStates
    BY <1>1, <2>1 DEF IInv, TypeOK, JobStates
  <2>3. stage' \in [Tables -> Table \cup {NoTable}]
    BY <1>2, <1>3 DEF IInv, TypeOK
  <2>4. job' \in [Jobs -> JobStates] /\ \A i \in Jobs : job'[i].pc # "idle" <=> job[i].pc # "idle"
    BY <2>2 DEF StageDocuments, At, IInv, TypeOK
  <2> QED BY <2>3, <2>4 DEF StageDocuments, IInv, TypeOK
<1>5. Sound(j)'
  BY DEF StageDocuments, At, IInv, TypeOK, JobStates, JobsSound, Sound, Hidden, ChunkJob, TopicJob, DocumentJob, ImportJob
<1>6. JobsSound'
  BY <1>5, OthersSound DEF StageDocuments, At, IInv, TypeOK
<1>7. DerivedSound'
  BY <1>2, <1>3 DEF StageDocuments, IInv, TypeOK, DerivedSound, SoundTable
<1> QED BY <1>4, <1>6, <1>7 DEF StageDocuments, IInv, ManifestCurrent, PublishedExact, TopicsExact, NothingAnnounced

LEMMA RecheckStep == ASSUME IInv, NEW j \in Jobs, RecheckGeneration(j) PROVE IInv'
<1>1. TypeOK'
  BY DEF RecheckGeneration, At, Goes, disk, IInv, TypeOK, JobStates, Steps
<1>2. Sound(j)'
  BY DEF RecheckGeneration, At, Goes, disk, IInv, TypeOK, JobStates, JobsSound, Sound, Hidden, ChunkJob, TopicJob, DocumentJob, ImportJob
<1>3. JobsSound'
  BY <1>2, OthersSound DEF RecheckGeneration, At, Goes, IInv, TypeOK
<1> QED BY <1>1, <1>3 DEF RecheckGeneration, disk, IInv, ManifestCurrent, PublishedExact, TopicsExact, NothingAnnounced, DerivedSound, SoundTable

---------------------------------------------------------------------------

LEMMA InitHolds == Init => IInv
<1> SUFFICES ASSUME Init PROVE IInv OBVIOUS
<1> USE ArchiveAssumption DEF ArchiveAssumption
<1>1. TypeOK
  <2>1. Idle \in JobStates /\ Idle.pc = "idle"
    BY DEF JobStates, Idle, Steps, Tables
  <2>2. records \in Canonical
    BY DEF Init, Canonical, Versions
  <2> QED BY <2>1, <2>2 DEF Init, TypeOK, Nothing
<1>2. JobsSound
  BY DEF Init, Idle, JobsSound, Sound, Hidden, ChunkJob, TopicJob, DocumentJob, ImportJob
<1>3. DerivedSound
  BY DEF Init, NoTable, DerivedSound, SoundTable
<1> QED BY <1>1, <1>2, <1>3 DEF Init, IInv, Nothing, ManifestCurrent, PublishedExact, TopicsExact, NothingAnnounced

LEMMA StepHolds == IInv /\ [Next]_avars => IInv'
<1> SUFFICES ASSUME IInv, [Next]_avars PROVE IInv' OBVIOUS
<1>1. CASE UNCHANGED avars
  BY <1>1 DEF avars, IInv, TypeOK, ManifestCurrent, PublishedExact, TopicsExact, NothingAnnounced, DerivedSound, SoundTable,
              JobsSound, Sound, Hidden, ChunkJob, TopicJob, DocumentJob, ImportJob
<1>2. ASSUME NEW j \in Jobs, Start(j) \/ JobStep(j) \/ Crash(j) PROVE IInv'
  <2>1. CASE Start(j) BY <2>1, StartStep
  <2>2. CASE Import(j)
    <3>1. ImportEnds(j) => IInv' BY QuietRelease DEF ImportEnds, At
    <3> QED BY <2>2, <3>1, HideStep, MergeStep DEF Import
  <2>3. CASE Semantic(j)
    <3>1. SemanticCurrent(j) => IInv' BY QuietRelease DEF SemanticCurrent, At
    <3> QED BY <2>3, <3>1, ReadRecordsStep, UnpublishStep, OpenStageStep, EmbedStep, StagedStep, PublishChunksStep DEF Semantic
  <2>4. CASE Topics(j) BY <2>4, BeginTopicsStep, StageTopicsStep, PublishTopicsStep DEF Topics
  <2>5. CASE Retrieval(j)
    <3>1. DocumentsCurrent(j) => IInv' BY QuietRelease DEF DocumentsCurrent, At
    <3>2. DocumentsPublished(j) => IInv' BY QuietRelease DEF DocumentsPublished, At
    <3> QED BY <2>5, <3>1, <3>2, StageDocumentsStep, RecheckStep DEF Retrieval
  <2>6. CASE Swap(j) BY <2>6, SwapOutStep, SwapInStep, SwapBackStep DEF Swap
  <2>7. CASE JobFails(j) BY <2>7, QuietRelease DEF JobFails
  <2>8. CASE Crash(j) BY <2>8, QuietRelease DEF Crash
  <2> QED BY <1>2, <2>1, <2>2, <2>3, <2>4, <2>5, <2>6, <2>7, <2>8 DEF JobStep
<1> QED BY <1>1, <1>2 DEF Next

\* The inductive invariant holds in every reachable state of every archive,
\* whichever jobs run, fail or die.
THEOREM InvariantHolds == Spec => []IInv
BY InitHolds, StepHolds, PTL DEF Spec

\* The variables keep their types, and only the holder of the lock is running.
THEOREM TypeCorrect == Spec => []TypeOK
BY InvariantHolds, PTL DEF IInv

\* No published generation outlives a change of the records it was made from
\* (derived_state.py: an import hides the generation before it writes).
THEOREM ManifestIsCurrent == Spec => []ManifestCurrent
BY InvariantHolds, PTL DEF IInv

\* What is published has its whole chunk table, although build_semantic_index
\* counts the rows and never compares them.
THEOREM PublishedIsExact == Spec => []PublishedExact
BY InvariantHolds, PTL DEF IInv

\* Announced topics are one version of both tables, across the four renames
\* that replace them.
THEOREM TopicsAreExact == Spec => []TopicsExact
BY InvariantHolds, PTL DEF IInv

\* Documents that carry the published generation join the records as they are:
\* what rag.py lets a query read before it reads the records themselves.
THEOREM DocumentsAreExact == Spec => []DocumentsExact
<1>1. IInv => DocumentsExact
  BY DEF IInv, ManifestCurrent, DerivedSound, SoundTable, DocumentsExact, Tables
<1> QED BY <1>1, InvariantHolds, PTL

\* Embedded rows are given up only when another generation takes their place or
\* when they are published, whatever fails or dies in between.
THEOREM StagedIsKept == Spec => StagedKept
<1>1. IInv /\ [Next]_avars =>
        [ \/ stage["chunks"].rows \subseteq stage'["chunks"].rows
          \/ stage'["chunks"].gen \notin {stage["chunks"].gen, NoGen}
          \/ table'["chunks"] = stage["chunks"] ]_avars
  <2> SUFFICES ASSUME IInv, Next
               PROVE  \/ stage["chunks"].rows \subseteq stage'["chunks"].rows
                      \/ stage'["chunks"].gen \notin {stage["chunks"].gen, NoGen}
                      \/ table'["chunks"] = stage["chunks"]
    OBVIOUS
  <2>1. PICK j \in Jobs : Start(j) \/ JobStep(j) \/ Crash(j) BY DEF Next
  <2>2. CASE OpenStage(j)
    <3>1. job[j].gen \in Gens /\ job[j].gen # NoGen
      BY <2>2, ArchiveAssumption DEF ArchiveAssumption, OpenStage, At, IInv, JobsSound, Sound, ChunkJob
    <3>2. stage["chunks"].gen = job[j].gen => stage' = stage
      BY <2>2, <3>1 DEF OpenStage, IInv, DerivedSound, SoundTable, Tables
    <3>3. stage["chunks"].gen # job[j].gen => stage'["chunks"].gen = job[j].gen
      BY <2>2 DEF OpenStage, EmptyStage, IInv, TypeOK, Tables
    <3> QED BY <3>1, <3>2, <3>3
  <2>3. CASE Embed(j)
    <3>1. PICK B : stage' = [stage EXCEPT !["chunks"].rows = @ \cup B] BY <2>3 DEF Embed
    <3>2. stage["chunks"] \in Table \cup {NoTable} BY DEF IInv, TypeOK, Tables
    <3>3. stage'["chunks"].rows = stage["chunks"].rows \cup B BY <3>1, <3>2 DEF IInv, TypeOK, Tables, Table, NoTable
    <3> QED BY <3>3
  <2>4. CASE SwapIn(j)
    BY <2>4 DEF SwapIn, IInv, TypeOK, Tables
  <2>5. CASE StageTopics(j)
    BY <2>5 DEF StageTopics, IInv, TypeOK, Tables
  <2>6. CASE StageDocuments(j)
    BY <2>6 DEF StageDocuments, IInv, TypeOK, Tables
  <2>7. ~(OpenStage(j) \/ Embed(j) \/ SwapIn(j) \/ StageTopics(j) \/ StageDocuments(j)) => UNCHANGED stage
    BY <2>1 DEF Start, Acquire, Crash, JobStep, Import, Semantic, Topics, Retrieval, Swap, JobFails, Hide, MergeBatch, ImportEnds,
                SemanticCurrent, ReadRecords, Unpublish, Staged, PublishChunks, SwapOut, SwapBack, BeginTopics, PublishTopics,
                DocumentsCurrent, RecheckGeneration, DocumentsPublished, disk
  <2> QED BY <2>2, <2>3, <2>4, <2>5, <2>6, <2>7
<1> QED BY <1>1, InvariantHolds, PTL DEF Spec, StagedKept

\* What the manifest announces is there, whole and current.
THEOREM PublishedIsTrue == Spec => []PublishedTrue
BY ManifestIsCurrent, PublishedIsExact, TopicsAreExact, PTL DEF PublishedTrue

---------------------------------------------------------------------------
(* The query *)

\* An export is newer than the records it has yet to replace.
TodoNewer == \A j \in Jobs : job[j].kind = "import" => Newer(job[j].todo)

\* No record of a is newer than the one of b.
Older(a, b) == \A r \in Records : a[r] <= b[r]

QueryTypeOK == q \in [pc: QuerySteps, gen: Gens \cup {NoGen}, docs: Table \cup {NoTable}, hits: SUBSET Canonical, rows: Canonical \cup {NoGen}]

\* What the query has read lies, in the order of the archive's versions, between
\* the documents it began with and the generation it looked at last.
QueryOrdered ==
    /\ q.pc # "idle" => q.gen \in Gens /\ Older(q.gen.src, records)
    /\ q.pc \notin {"idle", "open", "documents"} =>
           q.docs \in Table /\ q.docs.src = q.docs.gen.src /\ Older(q.docs.src, q.gen.src)
    /\ q.pc \in {"idle", "open", "documents"} => q.hits = {}
    /\ \A h \in q.hits : Older(q.docs.src, h) /\ Older(h, records)
    /\ q.pc \in {"again", "again open", "again documents"} =>
           q.rows \in Canonical /\ Older(q.docs.src, q.rows) /\ Older(q.rows, records)
    /\ q.pc \in {"again open", "again documents"} =>
           Older(q.rows, q.gen.src) /\ \A h \in q.hits : Older(h, q.gen.src)

QueryInv == QueryTypeOK /\ QueryOrdered /\ AnswerCurrent /\ TodoNewer

\* Records of an archive are only replaced by newer ones.
LEMMA MergeForward ==
    ASSUME IInv, TodoNewer, NEW j \in Jobs, MergeBatch(j)
    PROVE  TodoNewer' /\ Older(records, records')
<1>1. job[j].kind = "import" /\ job[j].pc # "idle" /\ job[j].todo \in Canonical /\ Newer(job[j].todo) /\ records \in Canonical
  BY DEF MergeBatch, At, IInv, TypeOK, JobsSound, Sound, ImportJob, TodoNewer
<1>2. PICK B \in (SUBSET Eligible(job[j].todo)) \ {{}} :
          /\ records' = [r \in Records |-> IF r \in B THEN job[j].todo[r] ELSE records[r]]
          /\ job' = [job EXCEPT ![j].todo = [r \in Records |-> IF r \in B THEN 0 ELSE @[r]]]
  BY DEF MergeBatch
<1>3. \A r \in Records : records[r] \in Nat /\ job[j].todo[r] \in Nat
  BY <1>1, ArchiveAssumption DEF ArchiveAssumption, Canonical, Versions
<1>4. \A r \in Records : records'[r] = IF r \in B THEN job[j].todo[r] ELSE records[r]
  BY <1>2
<1>5. \A r \in B : job[j].todo[r] # 0 /\ r \in Records
  BY <1>2 DEF Eligible
<1>6. Older(records, records')
  BY <1>1, <1>3, <1>4, <1>5 DEF Older, Newer
<1>7. job'[j].todo = [r \in Records |-> IF r \in B THEN 0 ELSE job[j].todo[r]]
  BY <1>1, <1>2 DEF IInv, TypeOK, JobStates
<1>8. \A r \in Records : job'[j].todo[r] # 0 => job'[j].todo[r] >= records'[r]
  <2> SUFFICES ASSUME NEW r \in Records, job'[j].todo[r] # 0 PROVE job'[j].todo[r] >= records'[r]
    OBVIOUS
  <2>1. r \notin B /\ job'[j].todo[r] = job[j].todo[r] /\ records'[r] = records[r]
    BY <1>4, <1>7
  <2> QED BY <1>1, <2>1 DEF Newer
<1>9. \A i \in Jobs \ {j} : job'[i] = job[i] /\ job[i].kind = "none"
  BY <1>1, <1>2, Alone DEF IInv, TypeOK
<1> QED BY <1>6, <1>8, <1>9 DEF TodoNewer, Newer

LEMMA ForwardStep ==
    ASSUME IInv, TodoNewer, [Next]_avars
    PROVE  TodoNewer' /\ Older(records, records')
<1>1. records \in Canonical /\ \A r \in Records : records[r] \in Nat
  BY ArchiveAssumption DEF ArchiveAssumption, IInv, TypeOK, Canonical, Versions
<1>2. CASE records' = records /\ \A i \in Jobs : job'[i].kind = "import" => Newer(job'[i].todo)
  BY <1>1, <1>2 DEF TodoNewer, Newer, Older
<1>3. ASSUME NEW j \in Jobs, records' = records, NEW e, e.kind = "import" => Newer(e.todo), job' = [job EXCEPT ![j] = e]
      PROVE  TodoNewer' /\ Older(records, records')
  <2>1. \A i \in Jobs : job'[i].kind = "import" => Newer(job'[i].todo)
    BY <1>3 DEF IInv, TypeOK, TodoNewer
  <2> QED BY <1>2, <1>3, <2>1
<1>4. CASE UNCHANGED avars
  BY <1>2, <1>4 DEF avars, TodoNewer
<1>5. ASSUME NEW j \in Jobs, Start(j) PROVE TodoNewer' /\ Older(records, records')
  <2>1. ASSUME NEW kind, NEW p, NEW x, Acquire(j, kind, p, x), kind = "import" => Newer(x)
        PROVE  TodoNewer' /\ Older(records, records')
    <3>1. job' = [job EXCEPT ![j] = Begun(kind, p, x)] /\ records' = records
      BY <2>1 DEF Acquire, disk
    <3>2. Begun(kind, p, x).kind = kind /\ Begun(kind, p, x).todo = x
      BY DEF Begun
    <3> QED BY <1>3, <2>1, <3>1, <3>2
  <2> QED BY <1>5, <2>1 DEF Start
<1>6. ASSUME NEW j \in Jobs, Releases(j), records' = records PROVE TodoNewer' /\ Older(records, records')
  BY <1>3, <1>6 DEF Releases, Idle
<1>7. ASSUME NEW j \in Jobs, records' = records, \A i \in Jobs : job'[i].kind = job[i].kind /\ job'[i].todo = job[i].todo
      PROVE  TodoNewer' /\ Older(records, records')
  BY <1>2, <1>7 DEF TodoNewer
<1>8. ASSUME NEW j \in Jobs, JobStep(j), ~MergeBatch(j), ~Releases(j)
      PROVE  records' = records /\ \A i \in Jobs : job'[i].kind = job[i].kind /\ job'[i].todo = job[i].todo
  BY <1>8 DEF JobStep, Import, Semantic, Topics, Retrieval, Swap, JobFails, Hide, ImportEnds, SemanticCurrent, ReadRecords, Unpublish,
              OpenStage, Embed, Staged, PublishChunks, SwapOut, SwapIn, SwapBack, BeginTopics, StageTopics, PublishTopics,
              DocumentsCurrent, StageDocuments, RecheckGeneration, DocumentsPublished, disk, Goes, IInv, TypeOK, JobStates
<1>9. ASSUME NEW j \in Jobs, JobStep(j) \/ Crash(j), ~MergeBatch(j) PROVE records' = records
  BY <1>9 DEF JobStep, Import, Semantic, Topics, Retrieval, Swap, JobFails, Hide, ImportEnds, SemanticCurrent, ReadRecords, Unpublish,
              OpenStage, Embed, Staged, PublishChunks, SwapOut, SwapIn, SwapBack, BeginTopics, StageTopics, PublishTopics,
              DocumentsCurrent, StageDocuments, RecheckGeneration, DocumentsPublished, disk, Crash
<1>10. ASSUME NEW j \in Jobs, Start(j) \/ JobStep(j) \/ Crash(j) PROVE TodoNewer' /\ Older(records, records')
  <2>1. CASE Start(j) BY <1>5, <2>1
  <2>2. CASE MergeBatch(j) BY <2>2, MergeForward
  <2>3. CASE Crash(j)
    <3>1. Releases(j) /\ records' = records BY <2>3 DEF Crash, disk
    <3> QED BY <1>6, <3>1
  <2>4. CASE JobStep(j) /\ ~MergeBatch(j)
    BY <1>6, <1>7, <1>8, <1>9, <2>4
  <2> QED BY <1>10, <2>1, <2>2, <2>3, <2>4
<1> QED BY <1>4, <1>10 DEF Next

\* Versions are ordered.
LEMMA VersionsAreNumbers == \A a \in Canonical : \A r \in Records : a[r] \in Nat
BY ArchiveAssumption DEF ArchiveAssumption, Canonical, Versions

LEMMA OlderSame == ASSUME NEW a \in Canonical PROVE Older(a, a)
BY VersionsAreNumbers DEF Older

LEMMA OlderPasses ==
    ASSUME NEW a \in Canonical, NEW b \in Canonical, NEW c \in Canonical, Older(a, b), Older(b, c)
    PROVE  Older(a, c)
BY VersionsAreNumbers DEF Older

LEMMA OlderBothWays ==
    ASSUME NEW a \in Canonical, NEW b \in Canonical, Older(a, b), Older(b, a)
    PROVE  a = b
<1>1. \A r \in Records : a[r] = b[r] BY VersionsAreNumbers DEF Older
<1> QED BY <1>1 DEF Canonical

\* What the query may rely on at each of its reads.
LEMMA ReadFacts ==
    ASSUME IInv
    PROVE  /\ records \in Canonical /\ NoGen \notin Gens
           /\ manifest.gen # NoGen => manifest.gen \in Gens /\ manifest.gen.src = records
           /\ \A t \in Tables : table[t].gen # NoGen => table[t] \in Table /\ table[t].src = table[t].gen.src
           /\ "chunks" \in Tables /\ "docs" \in Tables
           /\ \A g \in Gens : g.src \in Canonical
BY ArchiveAssumption DEF ArchiveAssumption, IInv, TypeOK, ManifestCurrent, DerivedSound, SoundTable, Tables, Gens

LEMMA ReadsManifestStep ==
    ASSUME IInv, QueryInv, UNCHANGED avars,
           NEW from \in {"idle", "lexical", "semantic", "again"}, NEW to \in {"open", "lexical open", "semantic open", "again open"},
           ReadsManifest(from, to),
           from = "idle" <=> to = "open", from = "again" <=> to = "again open"
    PROVE  QueryInv'
<1>1. /\ q.pc = from /\ manifest.gen \in Gens /\ manifest.gen.src = records /\ records \in Canonical
      /\ q' = [q EXCEPT !.pc = to, !.gen = manifest.gen]
  BY ReadFacts DEF ReadsManifest
<1>2. /\ q'.pc = to /\ q'.gen = manifest.gen /\ q'.docs = q.docs /\ q'.hits = q.hits /\ q'.rows = q.rows
      /\ QueryTypeOK'
  BY <1>1 DEF QueryInv, QueryTypeOK, QuerySteps
<1>3. UNCHANGED <<records, job>> /\ TodoNewer'
  BY DEF avars, QueryInv, TodoNewer, Newer
<1>4. q.pc # "idle" => q.gen.src \in Canonical /\ Older(q.gen.src, records)
  BY ReadFacts DEF QueryInv, QueryOrdered
<1>5. q.pc \notin {"idle", "open", "documents"} => q.docs.src \in Canonical /\ Older(q.docs.src, records)
  <2> SUFFICES ASSUME q.pc \notin {"idle", "open", "documents"} PROVE q.docs.src \in Canonical /\ Older(q.docs.src, records)
    OBVIOUS
  <2>1. q.docs.src \in Canonical /\ Older(q.docs.src, q.gen.src) /\ q.pc # "idle" BY DEF QueryInv, QueryOrdered, Table
  <2>2. q.gen.src \in Canonical /\ Older(q.gen.src, records) /\ records \in Canonical BY <1>1, <1>4, <2>1
  <2> QED BY <2>1, <2>2, OlderPasses
<1>6. Older(records, records)
  BY <1>1, OlderSame
<1>7. QueryOrdered'
  BY <1>1, <1>2, <1>3, <1>5, <1>6 DEF QueryInv, QueryOrdered
<1>8. AnswerCurrent'
  BY <1>2 DEF AnswerCurrent
<1> QED BY <1>2, <1>3, <1>7, <1>8 DEF QueryInv

\* A step that only goes on, to a step at which no more is promised.
LEMMA GoesOn ==
    ASSUME QueryInv, UNCHANGED avars,
           NEW from \in QuerySteps, NEW to \in QuerySteps, q.pc = from, q' = [q EXCEPT !.pc = to],
           \/ from = "open" /\ to = "documents"
           \/ from = "lexical open" /\ to = "lexical search"
           \/ from = "semantic open" /\ to = "semantic search"
           \/ from = "again open" /\ to = "again documents"
           \/ from \in {"semantic", "semantic search"} /\ to = "rows"
    PROVE  QueryInv'
<1>1. /\ q'.pc = to /\ q'.gen = q.gen /\ q'.docs = q.docs /\ q'.hits = q.hits /\ q'.rows = q.rows
      /\ QueryTypeOK'
  BY DEF QueryInv, QueryTypeOK
<1>2. UNCHANGED <<records, job>> /\ TodoNewer'
  BY DEF avars, QueryInv, TodoNewer, Newer
<1>3. QueryOrdered'
  BY <1>1, <1>2 DEF QueryInv, QueryOrdered
<1> QED BY <1>1, <1>2, <1>3 DEF QueryInv, AnswerCurrent

LEMMA ReadsDocumentsStep ==
    ASSUME IInv, QueryInv, UNCHANGED avars, ReadsDocuments
    PROVE  QueryInv'
<1>1. /\ q.pc = "documents" /\ q.gen \in Gens /\ table["docs"].gen = q.gen /\ q.hits = {} /\ q.gen.src \in Canonical
      /\ q' = [q EXCEPT !.pc = "lexical", !.docs = table["docs"]]
  BY ReadFacts DEF ReadsDocuments, QueryInv, QueryOrdered
<1>2. table["docs"] \in Table /\ table["docs"].src = q.gen.src
  BY <1>1, ReadFacts
<1>3. /\ q'.pc = "lexical" /\ q'.gen = q.gen /\ q'.docs = table["docs"] /\ q'.hits = q.hits /\ q'.rows = q.rows
      /\ QueryTypeOK'
  BY <1>1, <1>2 DEF QueryInv, QueryTypeOK, QuerySteps
<1>4. UNCHANGED <<records, job>> /\ TodoNewer'
  BY DEF avars, QueryInv, TodoNewer, Newer
<1>5. Older(q.gen.src, q.gen.src)
  BY <1>1, OlderSame
<1>6. QueryOrdered'
  BY <1>1, <1>2, <1>3, <1>4, <1>5 DEF QueryInv, QueryOrdered
<1> QED BY <1>3, <1>4, <1>6 DEF QueryInv, AnswerCurrent

LEMMA SearchesStep ==
    ASSUME IInv, QueryInv, UNCHANGED avars,
           NEW from \in {"lexical search", "semantic search"}, NEW to \in {"semantic", "rows"}, Searches(from, to)
    PROVE  QueryInv'
<1>1. /\ q.pc = from /\ q.gen \in Gens /\ q.gen.src \in Canonical
      /\ Older(q.docs.src, q.gen.src) /\ Older(q.gen.src, records)
      /\ q' = [q EXCEPT !.pc = to, !.hits = IF table["chunks"].gen = q.gen THEN @ \cup {table["chunks"].src} ELSE @]
  BY ReadFacts DEF Searches, QueryInv, QueryOrdered
<1>2. PICK H : H = IF table["chunks"].gen = q.gen THEN q.hits \cup {table["chunks"].src} ELSE q.hits
  OBVIOUS
<1>3. H \subseteq q.hits \cup {q.gen.src} /\ q.hits \subseteq Canonical
  BY <1>1, <1>2, ReadFacts DEF QueryInv, QueryTypeOK
<1>4. /\ q'.pc = to /\ q'.gen = q.gen /\ q'.docs = q.docs /\ q'.hits = H /\ q'.rows = q.rows
      /\ QueryTypeOK'
  BY <1>1, <1>2, <1>3 DEF QueryInv, QueryTypeOK, QuerySteps
<1>5. UNCHANGED <<records, job>> /\ TodoNewer'
  BY DEF avars, QueryInv, TodoNewer, Newer
<1>6. \A h \in H : Older(q.docs.src, h) /\ Older(h, records)
  BY <1>1, <1>3 DEF QueryInv, QueryOrdered
<1>7. QueryOrdered'
  BY <1>1, <1>4, <1>5, <1>6 DEF QueryInv, QueryOrdered
<1> QED BY <1>4, <1>5, <1>7 DEF QueryInv, AnswerCurrent

LEMMA ReadsRowsStep ==
    ASSUME IInv, QueryInv, UNCHANGED avars, ReadsRows
    PROVE  QueryInv'
<1>1. /\ q.pc = "rows" /\ q.gen \in Gens /\ q.gen.src \in Canonical /\ records \in Canonical
      /\ q.docs \in Table /\ q.docs.src \in Canonical
      /\ Older(q.docs.src, q.gen.src) /\ Older(q.gen.src, records)
      /\ q' = [q EXCEPT !.pc = "again", !.rows = records]
  BY ReadFacts DEF ReadsRows, QueryInv, QueryOrdered, Table
<1>2. Older(q.docs.src, records) /\ Older(records, records)
  BY <1>1, OlderSame, OlderPasses
<1>3. /\ q'.pc = "again" /\ q'.gen = q.gen /\ q'.docs = q.docs /\ q'.hits = q.hits /\ q'.rows = records
      /\ QueryTypeOK'
  BY <1>1 DEF QueryInv, QueryTypeOK, QuerySteps
<1>4. UNCHANGED <<records, job>> /\ TodoNewer'
  BY DEF avars, QueryInv, TodoNewer, Newer
<1>5. QueryOrdered'
  BY <1>1, <1>2, <1>3, <1>4 DEF QueryInv, QueryOrdered
<1> QED BY <1>3, <1>4, <1>5 DEF QueryInv, AnswerCurrent

\* The documents of the start are those of the generation read last, so all that
\* was read in between is squeezed to one archive.
LEMMA ValidatesStep ==
    ASSUME IInv, QueryInv, UNCHANGED avars, Validates
    PROVE  QueryInv'
<1>1. /\ q.pc = "again documents" /\ table["docs"].gen = q.gen /\ table["docs"] = q.docs
      /\ q' = [q EXCEPT !.pc = "answered"]
  BY DEF Validates
<1>2. /\ q.docs \in Table /\ q.docs.src = q.docs.gen.src /\ q.docs.gen = q.gen /\ q.docs.src \in Canonical
      /\ q.rows \in Canonical /\ Older(q.docs.src, q.rows) /\ Older(q.rows, q.docs.src)
      /\ \A h \in q.hits : h \in Canonical /\ Older(q.docs.src, h) /\ Older(h, q.docs.src)
  BY <1>1 DEF QueryInv, QueryOrdered, QueryTypeOK, Table
<1>3. q.rows = q.docs.src /\ \A h \in q.hits : h = q.docs.src
  BY <1>2, OlderBothWays
<1>4. /\ q'.pc = "answered" /\ q'.gen = q.gen /\ q'.docs = q.docs /\ q'.hits = q.hits /\ q'.rows = q.rows
      /\ QueryTypeOK'
  BY <1>1 DEF QueryInv, QueryTypeOK, QuerySteps
<1>5. UNCHANGED <<records, job>> /\ TodoNewer'
  BY DEF avars, QueryInv, TodoNewer, Newer
<1>6. QueryOrdered'
  BY <1>1, <1>4, <1>5 DEF QueryInv, QueryOrdered
<1>7. AnswerCurrent'
  BY <1>3, <1>4 DEF AnswerCurrent
<1> QED BY <1>4, <1>5, <1>6, <1>7 DEF QueryInv

LEMMA QueryEndsStep ==
    ASSUME QueryInv, UNCHANGED avars, QueryEnds
    PROVE  QueryInv'
<1>1. q'.pc = "idle" /\ q'.hits = {} /\ QueryTypeOK'
  BY DEF QueryEnds, NoQuery, QueryTypeOK, QuerySteps
<1>2. TodoNewer'
  BY DEF avars, QueryInv, TodoNewer, Newer
<1> QED BY <1>1, <1>2 DEF QueryInv, QueryOrdered, AnswerCurrent

\* The jobs move the archive forward under the query.
LEMMA JobsBeside ==
    ASSUME IInv, QueryInv, [Next]_avars, UNCHANGED q
    PROVE  QueryInv'
<1>0. TodoNewer' /\ Older(records, records')
  BY ForwardStep DEF QueryInv
<1>1. records \in Canonical /\ records' \in Canonical
  <2>1. IInv' BY StepHolds
  <2> QED BY <2>1 DEF IInv, TypeOK
<1>2. ASSUME NEW a \in Canonical, Older(a, records) PROVE Older(a, records')
  BY <1>0, <1>1, <1>2, OlderPasses
<1>3. q.pc # "idle" => Older(q.gen.src, records')
  BY <1>2, ReadFacts DEF QueryInv, QueryOrdered
<1>4. \A h \in q.hits : Older(h, records')
  BY <1>2 DEF QueryInv, QueryOrdered, QueryTypeOK
<1>5. q.pc \in {"again", "again open", "again documents"} => Older(q.rows, records')
  BY <1>2 DEF QueryInv, QueryOrdered
<1>6. QueryOrdered'
  BY <1>3, <1>4, <1>5 DEF QueryInv, QueryOrdered
<1> QED BY <1>0, <1>6 DEF QueryInv, QueryTypeOK, AnswerCurrent

LEMMA QueryStep ==
    ASSUME IInv, QueryInv, Query, UNCHANGED avars
    PROVE  QueryInv'
<1> USE DEF QuerySteps
<1>1. CASE ReadsManifest("idle", "open") BY <1>1, ReadsManifestStep
<1>2. CASE ReadsManifest("lexical", "lexical open") BY <1>2, ReadsManifestStep
<1>3. CASE ReadsManifest("semantic", "semantic open") BY <1>3, ReadsManifestStep
<1>4. CASE ReadsManifest("again", "again open") BY <1>4, ReadsManifestStep
<1>5. CASE OpensChunks("open", "documents") BY <1>5, GoesOn DEF OpensChunks
<1>6. CASE OpensChunks("lexical open", "lexical search") BY <1>6, GoesOn DEF OpensChunks
<1>7. CASE OpensChunks("semantic open", "semantic search") BY <1>7, GoesOn DEF OpensChunks
<1>8. CASE OpensChunks("again open", "again documents") BY <1>8, GoesOn DEF OpensChunks
<1>9. CASE Searches("lexical search", "semantic") BY <1>9, SearchesStep
<1>10. CASE Searches("semantic search", "rows") BY <1>10, SearchesStep
<1>11. CASE LexicalOnly BY <1>11, GoesOn DEF LexicalOnly
<1> QED BY <1>1, <1>2, <1>3, <1>4, <1>5, <1>6, <1>7, <1>8, <1>9, <1>10, <1>11,
           ReadsDocumentsStep, ReadsRowsStep, ValidatesStep, QueryEndsStep DEF Query

\* Under the query the archive is what SemanticIndex specifies, and what the
\* query has read is in the order of its versions.
THEOREM QueryInvariant == QSpec => [](IInv /\ QueryInv)
<1>1. QInit => IInv /\ QueryInv
  <2> SUFFICES ASSUME QInit PROVE IInv /\ QueryInv OBVIOUS
  <2>1. IInv BY InitHolds DEF QInit
  <2>2. QueryTypeOK /\ QueryOrdered /\ AnswerCurrent
    BY DEF QInit, NoQuery, QueryTypeOK, QueryOrdered, AnswerCurrent, QuerySteps
  <2>3. TodoNewer BY DEF QInit, Init, Idle, TodoNewer
  <2> QED BY <2>1, <2>2, <2>3 DEF QueryInv
<1>2. IInv /\ QueryInv /\ [QNext]_qvars => IInv' /\ QueryInv'
  <2> SUFFICES ASSUME IInv, QueryInv, [QNext]_qvars PROVE IInv' /\ QueryInv' OBVIOUS
  <2>1. CASE Query /\ UNCHANGED avars
    <3>1. IInv' BY <2>1, StepHolds
    <3> QED BY <2>1, <3>1, QueryStep
  <2>2. CASE Next /\ UNCHANGED q
    <3>1. IInv' BY <2>2, StepHolds
    <3> QED BY <2>2, <3>1, JobsBeside
  <2>3. CASE UNCHANGED qvars
    <3>1. UNCHANGED avars /\ UNCHANGED q BY <2>3 DEF qvars
    <3>2. IInv' BY <3>1, StepHolds
    <3> QED BY <3>1, <3>2, JobsBeside
  <2> QED BY <2>1, <2>2, <2>3 DEF QNext
<1> QED BY <1>1, <1>2, PTL DEF QSpec

\* An answer is of one archive, whatever jobs run while the query reads.
THEOREM AnswersAreCurrent == QSpec => []AnswerCurrent
<1>1. QueryInv => AnswerCurrent BY DEF QueryInv
<1> QED BY <1>1, QueryInvariant, PTL
=============================================================================
