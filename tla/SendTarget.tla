------------------------------- MODULE SendTarget -------------------------------
(***************************************************************************)
(* One run of the command-line sender of the p2p dropbox (send.ts): it     *)
(* asks the hub who is in the room, picks the receiver by name, connects,  *)
(* sends its files and exits.  What a transfer does is P2PTransfer.        *)
(***************************************************************************)
EXTENDS Naturals

CONSTANTS Wanted,   \* targetName || DEFAULT_PEER
          Longer,   \* names of which Wanted is a proper part
          Unlike,   \* other names
          None,     \* no receiver, no exit code
          FileList, \* filePaths
          MaxJoins  \* bound: connections of peers to the hub

VARIABLES own,       \* PEER_NAME
          asked,     \* "send" or "list": the option --list
          online,    \* the room: who holds a name, by the number of the connection; 0: nobody
          joined,    \* connections so far
          stage,     \* what the run waits for
          listed,    \* the last peer-list: connections and their names
          chosen,      \* receiverId with its name
          dataChannel, \* the data channel
          limit,     \* connectionTimer is running
          counted,   \* files for which sendFile returned, and its value
          received,  \* <<file, connection>>: what receivers hold
          code       \* exit code

sendVars == <<own, asked, online, joined, stage, listed, chosen, dataChannel, limit, counted, received, code>>

PeerNames == {Wanted} \cup Longer \cup Unlike
Peer == [name: PeerNames, id: 0..MaxJoins]
Self == [name |-> own, id |-> 0]

ASSUME SendAssumption ==
  /\ Wanted \notin Longer \cup Unlike
  /\ MaxJoins \in Nat /\ None \notin Peer \cup (0..2)

SendTypeOK ==
  /\ own \in PeerNames /\ asked \in {"send", "list"}
  /\ online \in [PeerNames -> 0..MaxJoins] /\ joined \in 0..MaxJoins
  /\ stage \in {"start", "socket", "welcome", "list", "answer", "send", "exited"}
  /\ listed \subseteq Peer /\ chosen \in Peer \cup {None}
  /\ dataChannel \in {"none", "offered", "open", "broken"} /\ limit \in BOOLEAN
  /\ counted \in [FileList -> {"pending", "ok", "fail"}]
  /\ received \subseteq FileList \X Peer
  /\ code \in {None, 0, 1, 2}

SendInit ==
  /\ own \in PeerNames /\ asked \in {"send", "list"}
  /\ online = [n \in PeerNames |-> 0] /\ joined = 0
  /\ stage = "start" /\ listed = {} /\ chosen = None
  /\ dataChannel = "none" /\ limit = FALSE
  /\ counted = [f \in FileList |-> "pending"] /\ received = {} /\ code = None

Room == {[name |-> n, id |-> online[n]] : n \in {m \in PeerNames : online[m] # 0}}

-----------------------------------------------------------------------------
\* The peers.  The hub keeps a name for one connection at a time, the run's own
\* name among them.
PeerJoins(n) ==
  /\ online[n] = 0 /\ joined < MaxJoins
  /\ n = own => stage \in {"start", "socket", "exited"}
  /\ joined' = joined + 1 /\ online' = [online EXCEPT ![n] = joined']
  /\ UNCHANGED <<own, asked, stage, listed, chosen, dataChannel, limit, counted, received, code>>

\* A receiver that goes takes the channel with it.
PeerLeaves(n) ==
  /\ online[n] # 0
  /\ dataChannel' = IF chosen # None /\ chosen.id = online[n] /\ dataChannel # "none" THEN "broken" ELSE dataChannel
  /\ online' = [online EXCEPT ![n] = 0]
  /\ UNCHANGED <<own, asked, joined, stage, listed, chosen, limit, counted, received, code>>

-----------------------------------------------------------------------------
\* The run.

ExitWith(c) == stage # "exited" /\ stage' = "exited" /\ code' = c /\ limit' = FALSE
Kept == UNCHANGED <<own, asked, online, joined>>
Goes(from, to) == stage = from /\ stage' = to /\ UNCHANGED code

\* Every file is looked at first; then the connection timer starts.
FileMissing == stage = "start" /\ asked = "send" /\ ExitWith(1) /\ Kept /\ UNCHANGED <<listed, chosen, dataChannel, counted, received>>
Start ==
  /\ Goes("start", "socket") /\ limit' = TRUE
  /\ Kept /\ UNCHANGED <<listed, chosen, dataChannel, counted, received>>

\* The identify: the name is taken, or welcome.
NameTaken ==
  stage = "socket" /\ online[own] # 0 /\ ExitWith(1) /\ Kept /\ UNCHANGED <<listed, chosen, dataChannel, counted, received>>
Welcome ==
  /\ Goes("socket", "welcome") /\ online[own] = 0
  /\ Kept /\ UNCHANGED <<listed, chosen, dataChannel, limit, counted, received>>

\* The hub's answer to list-peers is taken when it sends it.
Snapshot ==
  /\ Goes("welcome", "list") /\ listed' = Room \cup {Self}
  /\ Kept /\ UNCHANGED <<chosen, dataChannel, limit, counted, received>>

Exact(S) == {p \in S : p.name = Wanted}
Containing(S) == {p \in S : p.name \in Longer \cup {Wanted}}
TheOne(S) == {p \in S : S = {p}}
\* Mutant: the first name that contains it.
ResolveFirst(peers) == Containing(peers \ {Self})
\* resolveTarget: an exact name wins; otherwise the only name that contains it.
Resolve(peers) ==
  LET others == peers \ {Self}
  IN  IF Exact(others) # {} THEN TheOne(Exact(others)) ELSE TheOne(Containing(others))

PrintList == stage = "list" /\ asked = "list" /\ ExitWith(0) /\ Kept /\ UNCHANGED <<listed, chosen, dataChannel, counted, received>>
NoTarget ==
  /\ stage = "list" /\ asked = "send" /\ Resolve(listed) = {} /\ ExitWith(1)
  /\ Kept /\ UNCHANGED <<listed, chosen, dataChannel, counted, received>>
\* initP2P.  The offer goes to the id, which may have left since.
Offer ==
  /\ Goes("list", "answer") /\ asked = "send"
  /\ \E p \in Resolve(listed) :
       chosen' = p /\ dataChannel' = IF online[p.name] = p.id THEN "offered" ELSE "broken"
  /\ Kept /\ UNCHANGED <<listed, limit, counted, received>>

\* The answer came and the channel opens: the timer is cleared.
ChannelOpen ==
  /\ Goes("answer", "send") /\ dataChannel = "offered" /\ dataChannel' = "open" /\ limit' = FALSE
  /\ Kept /\ UNCHANGED <<listed, chosen, counted, received>>
ChannelBreaks ==
  /\ dataChannel \in {"offered", "open"} /\ dataChannel' = "broken"
  /\ Kept /\ UNCHANGED <<stage, listed, chosen, limit, counted, received, code>>

\* sendFile and the count, the files in any order: a file may arrive without being confirmed.
SendFile(f, result) ==
  /\ stage = "send" /\ counted[f] = "pending" /\ counted' = [counted EXCEPT ![f] = result]
  /\ received' \in {received, received \cup {<<f, chosen>>}}
  /\ received' # received => dataChannel = "open"
  /\ result = "ok" => <<f, chosen>> \in received'
  /\ Kept /\ UNCHANGED <<stage, listed, chosen, dataChannel, limit, code>>
Done ==
  /\ stage = "send" /\ \A f \in FileList : counted[f] # "pending"
  /\ ExitWith(IF \E f \in FileList : counted[f] = "fail" THEN 2 ELSE 0)
  /\ Kept /\ UNCHANGED <<listed, chosen, dataChannel, counted, received>>

\* The timer ends the run whatever it waits for.
Timeout == limit /\ ExitWith(2) /\ Kept /\ UNCHANGED <<listed, chosen, dataChannel, counted, received>>

\* ws.onerror ends it at any time, ws.onclose until the channel is open; an error
\* of the peer connection is not caught.
SocketError ==
  stage # "start" /\ ExitWith(1) /\ Kept /\ UNCHANGED <<listed, chosen, dataChannel, counted, received>>
LinkError ==
  chosen # None /\ (ExitWith(1) \/ ExitWith(2)) /\ Kept /\ UNCHANGED <<listed, chosen, dataChannel, counted, received>>

RunStep ==
  \/ FileMissing \/ Start \/ NameTaken \/ Welcome \/ Snapshot
  \/ PrintList \/ NoTarget \/ Offer \/ ChannelOpen \/ Done

SendNext ==
  \/ \E n \in PeerNames : PeerJoins(n) \/ PeerLeaves(n)
  \/ \E f \in FileList, result \in {"ok", "fail"} : SendFile(f, result)
  \/ RunStep \/ ChannelBreaks \/ Timeout \/ SocketError \/ LinkError

SendSpec == SendInit /\ [][SendNext]_sendVars

-----------------------------------------------------------------------------
\* A file reaches nobody but the peer meant ("EXACT name wins ... substring only
\* when UNAMBIGUOUS", send.ts): it had the very name in the list, or it was the only
\* one with a name like it and none had the very name.
OnlyNamed ==
  \A r \in received :
    \/ r[2].name = Wanted
    \/ r[2].name \in Longer /\ \A p \in listed \ {Self} : p.name \in Unlike \/ p = r[2]

\* A run that exits with 0 had each of its files confirmed by one receiver.
ZeroIsDelivered ==
  code = 0 /\ asked = "send" => \E p \in Peer : \A f \in FileList : <<f, p>> \in received

\* A run sends to the peer it should and its exit code says what came of it
\* (resolveTarget, run, send.ts).
SentTrue == OnlyNamed /\ ZeroIsDelivered
=============================================================================
