------------------------------ MODULE LineArchive ------------------------------
(***************************************************************************)
(* 04-line_lance/store.py: import_pages, which upserts the JSON pages that *)
(* changed since the manifest was written, and embed_messages, which       *)
(* embeds messages without a vector over a pool of endpoints.  Both are    *)
(* command-line runs over one LanceDB and may overlap.                     *)
(*                                                                         *)
(* A page holds one message, and its content is a version number, which    *)
(* stands for its mtime and size too; a batch of the pool is one message.  *)
(***************************************************************************)
EXTENDS Integers, FiniteSets, Sequences

CONSTANTS Pages,       \* page files under the source directory
          Urls,        \* embedding endpoints, each with its worker
          NoPage,      \* no page, no batch
          MaxVersion,  \* bound: times a page is written
          MaxFails,    \* bound: calls that fail
          MaxRuns      \* bound: imports and embeddings started

ASSUME LineAssumption ==
  /\ NoPage \notin Pages /\ IsFiniteSet(Pages)
  /\ MaxVersion \in Nat \ {0} /\ MaxFails \in Nat /\ MaxRuns \in Nat

VARIABLES file,      \* per page: the version on disk, 0 for none
          messages,  \* line_messages: per page, the version imported, 0 for none
          manifest,  \* import_files: per page, the version recorded
          imp,       \* the import: where it is, pages to do, content read, rows for the manifest
          vectors,   \* line_vectors: per page, the version embedded
          batches,   \* batches waiting
          texts,     \* per page: the version the embedding run read
          held,      \* per endpoint: the batch its worker holds
          embedder,  \* per endpoint: where its worker is
          pool,      \* off, running, finished, or stopped with batches pending
          fails, runs

ivars == <<messages, manifest, imp>>
pvars == <<vectors, batches, texts, held, embedder, pool>>
lvars == <<file, ivars, pvars, fails, runs>>

Versions == 0..MaxVersion
Import == [step: {"off", "pages", "upsert"}, todo: SUBSET Pages, page: Pages \cup {NoPage},
           content: Versions, rows: [Pages -> Versions]]
NoImport == [step |-> "off", todo |-> {}, page |-> NoPage, content |-> 0, rows |-> [p \in Pages |-> 0]]

LineTypeOK ==
  /\ file \in [Pages -> Versions] /\ messages \in [Pages -> Versions]
  /\ manifest \in [Pages -> Versions]
  /\ imp \in Import
  /\ vectors \in [Pages -> Versions] /\ texts \in [Pages -> Versions]
  /\ batches \in Seq(Pages)
  /\ held \in [Urls -> Pages \cup {NoPage}]
  /\ embedder \in [Urls -> {"off", "taking", "calling", "retired", "done"}]
  /\ \A u \in Urls : embedder[u] = "calling" <=> held[u] # NoPage
  /\ pool \in {"off", "running", "finished", "stopped"}
  /\ fails \in 0..MaxFails /\ runs \in 0..MaxRuns

LineInit ==
  /\ file \in [Pages -> {1}]
  /\ messages = [p \in Pages |-> 0] /\ manifest = [p \in Pages |-> 0]
  /\ imp = NoImport
  /\ vectors = [p \in Pages |-> 0] /\ texts = [p \in Pages |-> 0]
  /\ batches = <<>> /\ held = [u \in Urls |-> NoPage] /\ embedder = [u \in Urls |-> "off"]
  /\ pool = "off" /\ fails = 0 /\ runs = 0

\* The relay writes a page anew.
WritePage(p) ==
  /\ file[p] < MaxVersion
  /\ file' = [file EXCEPT ![p] = @ + 1]
  /\ UNCHANGED <<ivars, pvars, fails, runs>>

-----------------------------------------------------------------------------
\* import_pages compares every page with the manifest.
StartImport ==
  /\ imp.step = "off" /\ runs < MaxRuns
  /\ runs' = runs + 1
  /\ imp' = [NoImport EXCEPT !.step = "pages",
               !.todo = {p \in Pages : file[p] # 0 /\ manifest[p] # file[p]}]
  /\ UNCHANGED <<file, messages, manifest, pvars, fails>>

ReadPage(p) ==
  /\ imp.step = "pages" /\ p \in imp.todo
  /\ imp' = [imp EXCEPT !.step = "upsert", !.page = p, !.todo = @ \ {p}, !.content = file[p]]
  /\ UNCHANGED <<file, messages, manifest, pvars, fails, runs>>

\* The rows are upserted; only then is the file's stat taken for the manifest.
UpsertPage ==
  /\ imp.step = "upsert"
  /\ messages' = [messages EXCEPT ![imp.page] = imp.content]
  /\ imp' = [imp EXCEPT !.step = "pages", !.page = NoPage, !.content = 0, !.rows[imp.page] = file[imp.page]]
  /\ UNCHANGED <<file, manifest, pvars, fails, runs>>

\* A malformed page or a failed write ends the import; no manifest row is kept.
ImportFails ==
  /\ imp.step # "off" /\ fails < MaxFails
  /\ fails' = fails + 1
  /\ imp' = NoImport
  /\ UNCHANGED <<file, messages, manifest, pvars, runs>>

FinishImport ==
  /\ imp.step = "pages" /\ imp.todo = {}
  /\ manifest' = [p \in Pages |-> IF imp.rows[p] # 0 THEN imp.rows[p] ELSE manifest[p]]
  /\ imp' = NoImport
  /\ UNCHANGED <<file, messages, pvars, fails, runs>>

-----------------------------------------------------------------------------
\* embed_messages queues the messages that have no vector, in some order.
Orders(S) == {s \in [1..Cardinality(S) -> S] : \A i, j \in DOMAIN s : s[i] = s[j] => i = j}

StartEmbed ==
  /\ pool # "running" /\ runs < MaxRuns
  /\ runs' = runs + 1
  /\ LET todo == {p \in Pages : messages[p] # 0 /\ vectors[p] = 0}
     IN  /\ todo # {}
         /\ batches' \in Orders(todo)
  /\ texts' = messages
  /\ pool' = "running" /\ embedder' = [u \in Urls |-> "taking"]
  /\ UNCHANGED <<file, ivars, vectors, held, fails>>

TakeBatch(u) ==
  /\ embedder[u] = "taking" /\ batches # <<>>
  /\ held' = [held EXCEPT ![u] = Head(batches)]
  /\ batches' = Tail(batches)
  /\ embedder' = [embedder EXCEPT ![u] = "calling"]
  /\ UNCHANGED <<file, ivars, vectors, texts, pool, fails, runs>>

\* queue.Empty: the worker is done, whatever the others still hold.
Done(u) ==
  /\ embedder[u] = "taking" /\ batches = <<>>
  /\ embedder' = [embedder EXCEPT ![u] = "done"]
  /\ UNCHANGED <<file, ivars, vectors, batches, texts, held, pool, fails, runs>>

\* The endpoint answers and the batch is flushed under the write lock.
Flush(u) ==
  /\ embedder[u] = "calling"
  /\ vectors' = [vectors EXCEPT ![held[u]] = texts[held[u]]]
  /\ held' = [held EXCEPT ![u] = NoPage]
  /\ embedder' = [embedder EXCEPT ![u] = "taking"]
  /\ UNCHANGED <<file, ivars, batches, texts, pool, fails, runs>>

\* Mutants: the batch of a failed call is dropped, or the worker goes on.
RetireDropping(u) ==
  /\ embedder[u] = "calling" /\ fails < MaxFails
  /\ fails' = fails + 1
  /\ held' = [held EXCEPT ![u] = NoPage]
  /\ embedder' = [embedder EXCEPT ![u] = "retired"]
  /\ UNCHANGED <<file, ivars, vectors, batches, texts, pool, runs>>
RetireHolding(u) ==
  /\ embedder[u] = "calling" /\ fails < MaxFails
  /\ fails' = fails + 1
  /\ batches' = Append(batches, held[u])
  /\ UNCHANGED <<file, ivars, vectors, texts, held, embedder, pool, runs>>

\* The call or the write fails: the batch goes back and the worker retires.
Retire(u) ==
  /\ embedder[u] = "calling" /\ fails < MaxFails
  /\ fails' = fails + 1
  /\ batches' = Append(batches, held[u])
  /\ held' = [held EXCEPT ![u] = NoPage]
  /\ embedder' = [embedder EXCEPT ![u] = "retired"]
  /\ UNCHANGED <<file, ivars, vectors, texts, pool, runs>>

\* Mutant: a retired worker is waited for.
JoinAllDone ==
  /\ pool = "running"
  /\ \A u \in Urls : embedder[u] = "done"
  /\ pool' = IF batches = <<>> THEN "finished" ELSE "stopped"
  /\ UNCHANGED <<file, ivars, vectors, batches, texts, held, embedder, fails, runs>>

\* The pool is joined; what is left in the queue is an error.
Join ==
  /\ pool = "running"
  /\ \A u \in Urls : embedder[u] \in {"done", "retired"}
  /\ pool' = IF batches = <<>> THEN "finished" ELSE "stopped"
  /\ UNCHANGED <<file, ivars, vectors, batches, texts, held, embedder, fails, runs>>

LineNext ==
  \/ \E p \in Pages : WritePage(p) \/ ReadPage(p)
  \/ StartImport \/ UpsertPage \/ ImportFails \/ FinishImport
  \/ StartEmbed \/ Join
  \/ \E u \in Urls : TakeBatch(u) \/ Done(u) \/ Flush(u) \/ Retire(u)

LineSpec == LineInit /\ [][LineNext]_lvars

\* Every endpoint answers, or its call times out.
LineFairSpec == LineSpec /\ WF_lvars(Join) /\ \A u \in Urls : WF_lvars(TakeBatch(u) \/ Done(u) \/ Flush(u) \/ Retire(u))

-----------------------------------------------------------------------------
Waiting == {batches[i] : i \in DOMAIN batches}
InHand == {held[u] : u \in Urls} \ {NoPage}
Embedded == {p \in Pages : vectors[p] # 0}
Pool == INSTANCE EmbedPool
          WITH Batches <- Pages, left <- Waiting \cup InHand, embedded <- Embedded, state <- pool

\* The pool is an embedding run as EmbedPool promises it: over failing endpoints,
\* batches handed back and workers that leave while others still hold one, no
\* batch is lost or embedded twice, success means all of them, and the run ends
\* (embed_messages and its workers, store.py).
EmbedsAll == Pool!PoolSpec
=============================================================================
