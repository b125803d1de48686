----------------------------- MODULE RagQuery -----------------------------
(***************************************************************************)
(* One search of the Studio server (rag.py rag_query) over the archive     *)
(* whose jobs SemanticIndex models. The server takes no lock: it reads the *)
(* manifest, the tables and the records one after the other, twice over    *)
(* the chunk table (the lexical and the semantic channel, the second after *)
(* a call of the embedding service that may take minutes), while jobs      *)
(* replace what it reads. It accepts the answer only when the documents    *)
(* are the same, under the same published generation, as at the start.     *)
(***************************************************************************)
EXTENDS SemanticIndex

VARIABLE q  \* the query: its step and what it has read

qvars == <<avars, q>>

NoQuery == [pc |-> "idle", gen |-> NoGen, docs |-> NoTable, hits |-> {}, rows |-> NoGen]
QuerySteps == {"idle", "open", "documents", "lexical", "lexical open", "lexical search", "semantic", "semantic open",
               "semantic search", "rows", "again", "again open", "again documents", "answered"}

QTypeOK ==
    /\ q \in [pc: QuerySteps, gen: Gens \cup {NoGen}, docs: Table \cup {NoTable}, hits: SUBSET Canonical, rows: Canonical \cup {NoGen}]
    /\ q.pc \notin {"idle", "open", "documents"} => q.docs # NoTable

QInit == Init /\ q = NoQuery

\* The manifest is read; without a published generation the query fails.
ReadsManifest(from, to) ==
    /\ q.pc = from /\ manifest.gen # NoGen
    /\ q' = [q EXCEPT !.pc = to, !.gen = manifest.gen]

\* The chunk table is opened and found to be the one the manifest named.
OpensChunks(from, to) ==
    /\ q.pc = from /\ Matches(table["chunks"], q.gen, 0)
    /\ q' = [q EXCEPT !.pc = to]

\* _published_documents: documents of that generation, at least one.
ReadsDocuments ==
    /\ q.pc = "documents" /\ table["docs"].gen = q.gen /\ table["docs"].rows # {}
    /\ q' = [q EXCEPT !.pc = "lexical", !.docs = table["docs"]]

\* The chunk table is opened again and searched for rows of the generation.
Searches(from, to) ==
    /\ q.pc = from /\ table["chunks"] # NoTable
    /\ q' = [q EXCEPT !.pc = to, !.hits = IF table["chunks"].gen = q.gen THEN @ \cup {table["chunks"].src} ELSE @]

\* No embedding service is configured, or it is not available.
LexicalOnly == q.pc \in {"semantic", "semantic search"} /\ q' = [q EXCEPT !.pc = "rows"]

\* _canonical_text_rows: the text the citations quote.
ReadsRows == q.pc = "rows" /\ q' = [q EXCEPT !.pc = "again", !.rows = records]

\* Mutant: the published generation is looked at again, not the documents.
ValidatesGeneration ==
    /\ q.pc = "again documents" /\ table["docs"].gen = q.gen
    /\ q' = [q EXCEPT !.pc = "answered"]

\* The documents are validated once more and are the ones read at the start.
Validates ==
    /\ q.pc = "again documents" /\ table["docs"].gen = q.gen /\ table["docs"] = q.docs
    /\ q' = [q EXCEPT !.pc = "answered"]

\* An answer is sent, or a table is missing or does not match: the query ends.
QueryEnds == q.pc # "idle" /\ q' = NoQuery

Query ==
    \/ ReadsManifest("idle", "open") \/ OpensChunks("open", "documents") \/ ReadsDocuments
    \/ ReadsManifest("lexical", "lexical open") \/ OpensChunks("lexical open", "lexical search") \/ Searches("lexical search", "semantic")
    \/ ReadsManifest("semantic", "semantic open") \/ OpensChunks("semantic open", "semantic search") \/ Searches("semantic search", "rows")
    \/ LexicalOnly \/ ReadsRows
    \/ ReadsManifest("again", "again open") \/ OpensChunks("again open", "again documents") \/ Validates
    \/ QueryEnds

QNext ==
    \/ Query /\ UNCHANGED avars
    \/ Next /\ UNCHANGED q
QSpec == QInit /\ [][QNext]_qvars

\* An answer is of one archive: the text it cites, the rows its ranking comes
\* from and the documents it groups them by were made from the same records,
\* whatever jobs ran, failed or died while the query was reading.
AnswerCurrent == q.pc = "answered" => q.rows = q.docs.src /\ q.hits \subseteq {q.docs.src}
=============================================================================
