--------------------------- MODULE SemanticIndex ---------------------------
(***************************************************************************)
(* The derived tables of the Facebook archive (05-facebook_lance): four    *)
(* command-line jobs rewrite one local LanceDB directory, each under the   *)
(* advisory lock of derived_state.py.                                      *)
(*                                                                         *)
(*   import     hides the published generation, then upserts records       *)
(*   semantic   embeds the records into a staging table and swaps it in    *)
(*   topics     clusters the published chunks into two further tables      *)
(*   retrieval  derives the post/comment documents                         *)
(*                                                                         *)
(* A generation is the hash of all canonical rows and of the chunk policy, *)
(* so it is modelled by the rows and the policy themselves. A record is    *)
(* represented by the version of its text, 0 when it is absent, and yields *)
(* one chunk; an archive that was never imported is one without records.   *)
(* The manifest names the generation readers may use; a missing manifest   *)
(* and one that names no generation are read alike.                        *)
(* A job may fail at every step (an exception releases the lock) and its   *)
(* process may die at every step (the kernel releases it).                 *)
(***************************************************************************)
EXTENDS Naturals, FiniteSets

CONSTANTS
    Jobs,        \* processes that may run a job
    NoJob,       \* nobody holds the lock
    Kinds,       \* the jobs that are started: a subset of JobKinds
    Records,     \* canonical record ids
    MaxVersion,  \* versions of a record's text
    Policies,    \* chunk policies (chunk sizes, tokenizer version) jobs run with
    MaxTopics,   \* largest number of topics asked for
    NoGen        \* no generation

JobKinds == {"import", "semantic", "topics", "retrieval"}
Versions == 0..MaxVersion
Canonical == [Records -> Versions]
Gens == [src: Canonical, policy: Policies]

ASSUME ArchiveAssumption ==
    /\ IsFiniteSet(Records) /\ MaxVersion \in Nat /\ MaxTopics \in Nat
    /\ NoJob \notin Jobs /\ NoGen \notin Gens /\ Kinds \subseteq JobKinds

VARIABLES
    records,   \* the canonical table
    manifest,  \* semantic-generation.json: the generation and its number of topics
    table,     \* the published table directories
    stage,     \* the staging table of each, with the generation in its name
    backup,    \* the directory a swap moved aside
    lock,      \* the job that holds .facebook-lance-semantic.lock
    job        \* what each process is doing

avars == <<records, manifest, table, stage, backup, lock, job>>
disk == <<records, manifest, table, stage, backup>>

Tables == {"chunks", "topics", "points", "docs"}
\* A table: the generation its rows carry, the canonical rows they were made
\* from, the topic version (its number of topics) and the records it has rows for.
Table == [gen: Gens, src: Canonical, k: 0..MaxTopics, rows: SUBSET Records]
NoTable == [gen |-> NoGen, src |-> NoGen, k |-> 0, rows |-> {}]
Nothing == [gen |-> NoGen, topics |-> 0]
Idle == [kind |-> "none", pc |-> "idle", policy |-> NoGen, todo |-> NoGen, gen |-> NoGen, k |-> 0, tab |-> "chunks"]
Steps == {"idle", "locked", "merge", "unpublish", "stage", "embed", "out", "in", "publish"}

JobStates == [kind: JobKinds \cup {"none"}, pc: Steps, policy: Policies \cup {NoGen},
              todo: Canonical \cup {NoGen}, gen: Gens \cup {NoGen}, k: 0..MaxTopics, tab: Tables]

Eligible(rows) == {r \in Records : rows[r] # 0}

\* _published_table_matches: as many rows as the manifest says, all of the generation.
Matches(t, g, k) ==
    /\ t # NoTable
    /\ Cardinality(t.rows) = Cardinality(Eligible(g.src))
    /\ t.rows = {} \/ (t.gen = g /\ t.k = k)

TypeOK ==
    /\ records \in Canonical
    /\ manifest \in [gen: Gens \cup {NoGen}, topics: 0..MaxTopics]
    /\ table \in [Tables -> Table \cup {NoTable}]
    /\ stage \in [Tables -> Table \cup {NoTable}]
    /\ backup \in [Tables -> Table \cup {NoTable}]
    /\ lock \in Jobs \cup {NoJob}
    /\ job \in [Jobs -> JobStates]
    /\ \A j \in Jobs : job[j].pc # "idle" <=> lock = j

Init ==
    /\ records = [r \in Records |-> 0]
    /\ manifest = Nothing
    /\ table = [t \in Tables |-> NoTable]
    /\ stage = [t \in Tables |-> NoTable]
    /\ backup = [t \in Tables |-> NoTable]
    /\ lock = NoJob
    /\ job = [j \in Jobs |-> Idle]

---------------------------------------------------------------------------
(* The lock                                                                *)

At(j, kind, pc) == job[j].kind = kind /\ job[j].pc = pc
Goes(j, pc) == job' = [job EXCEPT ![j].pc = pc]
Releases(j) == lock' = NoJob /\ job' = [job EXCEPT ![j] = Idle]

Begun(kind, policy, export) ==
    [kind |-> kind, pc |-> "locked", policy |-> policy, todo |-> export, gen |-> NoGen, k |-> 0, tab |-> "chunks"]

\* semantic_write_lock: LOCK_NB, so a second job is refused and ends at once.
Acquire(j, kind, policy, export) ==
    /\ job[j].pc = "idle" /\ lock = NoJob
    /\ lock' = j
    /\ job' = [job EXCEPT ![j] = Begun(kind, policy, export)]
    /\ UNCHANGED disk

\* An archive is imported after the ones it is newer than: no record goes back
\* to a text it had before. Only the ids with a version are in the export.
Newer(export) == \A r \in Records : export[r] # 0 => export[r] >= records[r]

Start(j) ==
    \/ "import" \in Kinds /\ \E x \in Canonical : Newer(x) /\ Acquire(j, "import", NoGen, x)
    \/ \E kind \in Kinds \ {"import"}, p \in Policies : Acquire(j, kind, p, NoGen)

---------------------------------------------------------------------------
(* store.py import_zip                                                     *)

\* Mutant: the records are merged under the published generation.
HideNothing(j) ==
    /\ At(j, "import", "locked")
    /\ Goes(j, "merge")
    /\ UNCHANGED <<records, manifest, table, stage, backup, lock>>

\* invalidate_semantic_generation
Hide(j) ==
    /\ At(j, "import", "locked")
    /\ manifest' = Nothing
    /\ Goes(j, "merge")
    /\ UNCHANGED <<records, table, stage, backup, lock>>

\* _merge_batch: one upsert of the next records of the export.
MergeBatch(j) ==
    /\ At(j, "import", "merge")
    /\ \E B \in (SUBSET Eligible(job[j].todo)) \ {{}} :
          /\ records' = [r \in Records |-> IF r \in B THEN job[j].todo[r] ELSE records[r]]
          /\ job' = [job EXCEPT ![j].todo = [r \in Records |-> IF r \in B THEN 0 ELSE @[r]]]
    /\ UNCHANGED <<manifest, table, stage, backup, lock>>

ImportEnds(j) ==
    /\ At(j, "import", "merge") /\ Eligible(job[j].todo) = {}
    /\ Releases(j)
    /\ UNCHANGED disk

---------------------------------------------------------------------------
(* semantic.py build_semantic_index                                        *)

Generation(j) == [src |-> records, policy |-> job[j].policy]
Published(g) == manifest.gen = g /\ Matches(table["chunks"], g, 0)

\* The generation is published already: a true no-op.
SemanticCurrent(j) ==
    /\ At(j, "semantic", "locked") /\ Published(Generation(j))
    /\ Releases(j)
    /\ UNCHANGED disk

\* The rows are read and chunked, and the provider's preflight succeeds.
ReadRecords(j) ==
    /\ At(j, "semantic", "locked") /\ ~Published(Generation(j))
    /\ job' = [job EXCEPT ![j].pc = "unpublish", ![j].gen = Generation(j)]
    /\ UNCHANGED <<disk, lock>>

\* Mutant: the old generation stays published while the table is replaced.
UnpublishLater(j) ==
    /\ At(j, "semantic", "unpublish")
    /\ Goes(j, "stage")
    /\ UNCHANGED <<disk, lock>>

Unpublish(j) ==
    /\ At(j, "semantic", "unpublish")
    /\ manifest' = Nothing
    /\ Goes(j, "stage")
    /\ UNCHANGED <<records, table, stage, backup, lock>>

EmptyStage(g, k) == [gen |-> g, src |-> g.src, k |-> k, rows |-> {}]

\* Mutant: the staging table is always started over.
OpenNewStage(j) ==
    /\ At(j, "semantic", "stage")
    /\ stage' = [stage EXCEPT !["chunks"] = EmptyStage(job[j].gen, 0)]
    /\ Goes(j, "embed")
    /\ UNCHANGED <<records, manifest, table, backup, lock>>

\* _drop_other_stages and _open_resumable_stage: rows of this generation that an
\* earlier attempt embedded are kept, a staging table of another one is dropped.
OpenStage(j) ==
    /\ At(j, "semantic", "stage")
    /\ stage' = IF stage["chunks"].gen = job[j].gen /\ stage["chunks"].rows \subseteq Eligible(job[j].gen.src)
                THEN stage ELSE [stage EXCEPT !["chunks"] = EmptyStage(job[j].gen, 0)]
    /\ Goes(j, "embed")
    /\ UNCHANGED <<records, manifest, table, backup, lock>>

\* One batch goes through the provider and is added to the staging table.
Embed(j) ==
    /\ At(j, "semantic", "embed")
    /\ \E B \in (SUBSET (Eligible(job[j].gen.src) \ stage["chunks"].rows)) \ {{}} :
          stage' = [stage EXCEPT !["chunks"].rows = @ \cup B]
    /\ UNCHANGED <<records, manifest, table, backup, lock, job>>

\* All rows are staged and the records are still the ones that were read: the
\* two text indexes are built. Otherwise the build fails (JobFails).
Staged(j) ==
    /\ At(j, "semantic", "embed")
    /\ Cardinality(stage["chunks"].rows) = Cardinality(Eligible(job[j].gen.src))
    /\ records = job[j].gen.src
    /\ job' = [job EXCEPT ![j].pc = "out", ![j].tab = "chunks"]
    /\ UNCHANGED <<disk, lock>>

PublishChunks(j) ==
    /\ At(j, "semantic", "publish")
    /\ records = job[j].gen.src /\ Matches(table["chunks"], job[j].gen, 0)
    /\ manifest' = [gen |-> job[j].gen, topics |-> 0]
    /\ Releases(j)
    /\ UNCHANGED <<records, table, stage, backup>>

---------------------------------------------------------------------------
(* _swap_table: two directory renames, then the backup is deleted          *)

SwapOut(j) ==
    /\ job[j].pc = "out"
    /\ backup' = [backup EXCEPT ![job[j].tab] = table[job[j].tab]]
    /\ table' = [table EXCEPT ![job[j].tab] = NoTable]
    /\ Goes(j, "in")
    /\ UNCHANGED <<records, manifest, stage, lock>>

SwapIn(j) ==
    /\ job[j].pc = "in"
    /\ table' = [table EXCEPT ![job[j].tab] = stage[job[j].tab]]
    /\ stage' = [stage EXCEPT ![job[j].tab] = NoTable]
    /\ backup' = [backup EXCEPT ![job[j].tab] = NoTable]
    /\ IF job[j].tab = "topics" THEN job' = [job EXCEPT ![j].pc = "out", ![j].tab = "points"] ELSE Goes(j, "publish")
    /\ UNCHANGED <<records, manifest, lock>>

\* The second rename fails: the old directory is put back.
SwapBack(j) ==
    /\ job[j].pc = "in"
    /\ table' = [table EXCEPT ![job[j].tab] = backup[job[j].tab]]
    /\ backup' = [backup EXCEPT ![job[j].tab] = NoTable]
    /\ Releases(j)
    /\ UNCHANGED <<records, manifest, stage>>

---------------------------------------------------------------------------
(* semantic.py build_topics                                                *)

\* Mutant: the old topics stay announced while they are replaced.
BeginTopicsAnnounced(j) ==
    /\ At(j, "topics", "locked")
    /\ manifest.gen # NoGen /\ Matches(table["chunks"], manifest.gen, 0) /\ table["chunks"].rows # {}
    /\ \E k \in 1..MaxTopics :
          /\ k <= Cardinality(table["chunks"].rows)
          /\ job' = [job EXCEPT ![j].pc = "stage", ![j].gen = manifest.gen, ![j].k = k]
    /\ UNCHANGED <<disk, lock>>

\* The published chunks are read and the manifest stops announcing topics. The
\* number of clusters is at most the number asked for, of records and of
\* different vectors.
BeginTopics(j) ==
    /\ At(j, "topics", "locked")
    /\ manifest.gen # NoGen /\ Matches(table["chunks"], manifest.gen, 0) /\ table["chunks"].rows # {}
    /\ \E k \in 1..MaxTopics :
          /\ k <= Cardinality(table["chunks"].rows)
          /\ job' = [job EXCEPT ![j].pc = "stage", ![j].gen = manifest.gen, ![j].k = k]
    /\ manifest' = [manifest EXCEPT !.topics = 0]
    /\ UNCHANGED <<records, table, stage, backup, lock>>

Clustered(j) == [gen |-> job[j].gen, src |-> job[j].gen.src, k |-> job[j].k, rows |-> table["chunks"].rows]

\* Both staging tables are written afresh.
StageTopics(j) ==
    /\ At(j, "topics", "stage")
    /\ stage' = [stage EXCEPT !["topics"] = Clustered(j), !["points"] = Clustered(j)]
    /\ job' = [job EXCEPT ![j].pc = "out", ![j].tab = "topics"]
    /\ UNCHANGED <<records, manifest, table, backup, lock>>

PublishTopics(j) ==
    /\ At(j, "topics", "publish")
    /\ \A t \in {"topics", "points"} : Matches(table[t], job[j].gen, job[j].k)
    /\ manifest' = [gen |-> job[j].gen, topics |-> job[j].k]
    /\ Releases(j)
    /\ UNCHANGED <<records, table, stage, backup>>

---------------------------------------------------------------------------
(* rag.py build_retrieval_documents                                        *)

\* _current_semantic_generation
CurrentGeneration == IF manifest.gen # NoGen /\ Matches(table["chunks"], manifest.gen, 0) THEN manifest.gen ELSE NoGen
Documents(g) == [gen |-> g, src |-> records, k |-> 0, rows |-> Eligible(records)]

\* The documents of this generation are published already.
DocumentsCurrent(j) ==
    /\ At(j, "retrieval", "locked") /\ CurrentGeneration # NoGen
    /\ table["docs"] = Documents(CurrentGeneration)
    /\ Releases(j)
    /\ UNCHANGED disk

StageDocuments(j) ==
    /\ At(j, "retrieval", "locked") /\ CurrentGeneration # NoGen
    /\ table["docs"] # Documents(CurrentGeneration)
    /\ stage' = [stage EXCEPT !["docs"] = Documents(CurrentGeneration)]
    /\ job' = [job EXCEPT ![j].pc = "stage", ![j].gen = CurrentGeneration, ![j].tab = "docs"]
    /\ UNCHANGED <<records, manifest, table, backup, lock>>

\* "Recheck the generation immediately before publication"
RecheckGeneration(j) ==
    /\ At(j, "retrieval", "stage") /\ CurrentGeneration = job[j].gen
    /\ Goes(j, "out")
    /\ UNCHANGED <<disk, lock>>

DocumentsPublished(j) ==
    /\ At(j, "retrieval", "publish")
    /\ Releases(j)
    /\ UNCHANGED disk

---------------------------------------------------------------------------

\* An exception between two steps (the provider, the storage, a failed check):
\* the lock is released by the context manager. A rename that fails is SwapBack.
JobFails(j) ==
    /\ job[j].pc \notin {"idle", "in"}
    /\ Releases(j)
    /\ UNCHANGED disk

\* The process dies: nothing on disk changes and the kernel drops the lock.
Crash(j) ==
    /\ job[j].pc # "idle"
    /\ Releases(j)
    /\ UNCHANGED disk

Semantic(j) == SemanticCurrent(j) \/ ReadRecords(j) \/ Unpublish(j) \/ OpenStage(j) \/ Embed(j) \/ Staged(j) \/ PublishChunks(j)
Topics(j) == BeginTopics(j) \/ StageTopics(j) \/ PublishTopics(j)
Retrieval(j) == DocumentsCurrent(j) \/ StageDocuments(j) \/ RecheckGeneration(j) \/ DocumentsPublished(j)
Import(j) == Hide(j) \/ MergeBatch(j) \/ ImportEnds(j)
Swap(j) == SwapOut(j) \/ SwapIn(j) \/ SwapBack(j)
JobStep(j) == Import(j) \/ Semantic(j) \/ Topics(j) \/ Retrieval(j) \/ Swap(j) \/ JobFails(j)

Next == \E j \in Jobs : Start(j) \/ JobStep(j) \/ Crash(j)
Spec == Init /\ [][Next]_avars

---------------------------------------------------------------------------

\* A published generation is the one of the records as they are now: no search
\* index outlives a change of what it indexes (derived_state.py:58-59).
ManifestCurrent == manifest.gen # NoGen => manifest.gen.src = records

\* A published generation has its chunk table, whole and made from its records.
PublishedExact ==
    manifest.gen # NoGen =>
        /\ table["chunks"] # NoTable
        /\ table["chunks"].rows = Eligible(manifest.gen.src)
        /\ table["chunks"].gen = manifest.gen

\* Announced topics are there, both tables of the announced version: an
\* interrupted rebuild never leaves new topics beside the old points.
TopicsExact ==
    manifest.topics # 0 =>
        \A t \in {"topics", "points"} : table[t].gen = manifest.gen /\ table[t].k = manifest.topics

\* Documents a reader accepts, because they carry the published generation, join
\* the records as they are now.
DocumentsExact == manifest.gen # NoGen /\ table["docs"].gen = manifest.gen => table["docs"].src = records

\* Embedded rows are not paid for twice: until its table is published, the
\* staging table of a generation only grows, across failures and crashes, and
\* is given up only for another generation.
StagedKept ==
    [][stage["chunks"].rows \subseteq stage'["chunks"].rows
       \/ stage'["chunks"].gen \notin {stage["chunks"].gen, NoGen}
       \/ table'["chunks"] = stage["chunks"]]_avars

\* What is announced is there, whole and current: the generation, its chunks and
\* its topics (derived_state.py; build_semantic_index and build_topics, semantic.py).
PublishedTrue == ManifestCurrent /\ PublishedExact /\ TopicsExact

=============================================================================
