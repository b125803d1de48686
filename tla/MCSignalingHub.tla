---------------------------- MODULE MCSignalingHub ----------------------------
(* Two rooms and two connections whose peers do what they like; or one room   *)
(* and three connections of receivers, which identify, ask for the list once  *)
(* they are welcome, and may lose a connection and come back with the next,   *)
(* and whose lost connections are noticed.  Connections and rooms are alike,   *)
(* so they are used in turn.                                                  *)
EXTENDS SignalingHub

CONSTANTS k1, k2, k3, r1, r2
VARIABLE side

At(s) == side = s
Unused(c) == sock[c] = "none"
InTurn == (Unused(k1) => Unused(k2)) /\ (Unused(k2) => Unused(k3))
Small == InTurn /\ (At("rooms") => Unused(k3))

Unread(c, kind) == \E i \in DOMAIN inbox[c] : inbox[c][i].type = kind
Receiver(c) ==
  \/ Connect(c) \/ CloseEvent(c) \/ Read(c)
  \/ Vanish(c) /\ sock'[c] = "closing"
  \/ c \notin identified /\ \E n \in Names : Identify(c, n) \/ IdentifyTaken(c, n)
  \/ c \notin listed /\ ~Unread(c, "welcome") /\ ~Unread(c, "list") /\ ListPeers(c)

MCInit ==
  /\ side \in {"rooms", "views"} /\ Init
  /\ room[k1] = r1 /\ room[k3] = r1 /\ (At("views") => room[k2] = r1)
MCNext ==
  /\ UNCHANGED side
  /\ \/ At("rooms") /\ Next
     \/ At("views") /\ \E c \in Conns : Receiver(c)
  /\ Small'
MCFairness ==
  /\ WF_vars(At("rooms") /\ Heartbeat)
  /\ \A c \in Conns : WF_vars(Read(c)) /\ WF_vars(At("views") /\ CloseEvent(c))
MCSpec == MCInit /\ [][MCNext]_<<side, vars>> /\ MCFairness
=============================================================================
