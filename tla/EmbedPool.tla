------------------------------- MODULE EmbedPool -------------------------------
(***************************************************************************)
(* What embed_messages of 04-line_lance/store.py promises of a run,        *)
(* whatever endpoints it has: every batch is embedded once, a run that     *)
(* ends without an error has embedded all of them, and it ends.            *)
(***************************************************************************)
CONSTANT Batches

VARIABLES left,      \* batches of the run that are not embedded yet
          embedded,  \* batches with a vector
          state      \* of the last run

poolVars == <<left, embedded, state>>

PoolInit == left = {} /\ embedded = {} /\ state = "off"

\* A run takes batches that have no vector.
Begin ==
  /\ state # "running"
  /\ left' # {} /\ left' \subseteq Batches \ embedded
  /\ state' = "running" /\ UNCHANGED embedded

Embed(b) ==
  /\ state = "running" /\ b \in left
  /\ left' = left \ {b} /\ embedded' = embedded \cup {b}
  /\ UNCHANGED state

\* The run returns, or it raises "embed endpoints all failed with ... pending".
Finish == state = "running" /\ left = {} /\ state' = "finished" /\ UNCHANGED <<left, embedded>>
Stop == state = "running" /\ left # {} /\ state' = "stopped" /\ UNCHANGED <<left, embedded>>

Progress == Finish \/ Stop \/ \E b \in Batches : Embed(b)
PoolNext == Begin \/ Progress

PoolSafety == PoolInit /\ [][PoolNext]_poolVars
PoolSpec == PoolSafety /\ WF_poolVars(Progress)
=============================================================================
