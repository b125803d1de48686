------------------------------ MODULE MCRagQuery ------------------------------
(* Two jobs that import, index and cluster under two chunk policies, without  *)
(* a query; or one job that imports, indexes and derives documents under one  *)
(* policy, and the query that reads them.                                     *)
EXTENDS RagQuery, TLC

CONSTANTS j1, p1

Derived == {table, stage, backup}
Without(names) == \A d \in Derived, t \in names : d[t] = NoTable
OnlyKinds(kinds) == \A j \in Jobs : job[j].kind \in kinds \cup {"none"}
OnePolicy ==
    /\ \A j \in Jobs : job[j].policy \in {NoGen, p1}
    /\ manifest.gen # NoGen => manifest.gen.policy = p1
    /\ \A d \in Derived, t \in Tables : d[t].gen # NoGen => d[t].gen.policy = p1

Small ==
    \/ q = NoQuery /\ OnlyKinds({"import", "semantic", "topics"}) /\ Without({"docs"})
    \/ OnlyKinds({"import", "semantic", "retrieval"}) /\ Without({"topics", "points"}) /\ OnePolicy
       /\ \A j \in Jobs \ {j1} : job[j].kind = "none"

MCNext == QNext /\ Small'
MCSpec == QInit /\ [][MCNext]_qvars
Symmetry == Permutations(Records)
=============================================================================
