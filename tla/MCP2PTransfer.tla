----------------------------- MODULE MCP2PTransfer -----------------------------
(* Two runs of the sender with one file each and the same id, or one run with *)
(* two files that are empty, allowed or too large.                            *)
EXTENDS P2PTransfer

CONSTANTS c1, c2, i1, i2
MCNames == Channels \X (1..MaxFiles)
MCPayload == Channels \X (1..MaxFiles) \X (1..3)

File(i, s) == [id |-> i, size |-> s]
Both == [c \in Channels |-> <<File(i1, 1)>>]
One(s, t) == [c \in Channels |-> IF c = c1 THEN <<File(i1, s), File(i2, t)>> ELSE <<>>]
MCWorkloads == {Both} \cup {One(s, t) : s \in {0, 2, 3}, t \in {0, 2}}
=============================================================================
