------------------------------ MODULE MCBackfill ------------------------------
(* The environment of a behavior stays within one of three sizes: several     *)
(* pages in one channel, several requests for one channel, or two channels.   *)
EXTENDS Backfill

CONSTANTS a, b

Idle(c) == posted[c] = 0 /\ c \notin selected /\ request[c] = NoRequest
Small ==
  \/ Idle(b) /\ asked <= 1
  \/ Idle(b) /\ posted[a] <= 1
  \/ asked <= 1 /\ \A c \in Channels : posted[c] <= 1

MCInit == Init /\ Small
MCNext == Next /\ Small'
MCSpec ==
  /\ MCInit /\ [][MCNext]_bvars
  /\ Fairness
=============================================================================
