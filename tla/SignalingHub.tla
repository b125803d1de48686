----------------------------- MODULE SignalingHub -----------------------------
(***************************************************************************)
(* The room-isolated WebRTC signaling of the p2p dropbox: SignalingHub in  *)
(* 10-p2p_dropbox/dropbox/signaling.ts with the websocket callbacks of     *)
(* server.ts, and the bookkeeping a peer (receiver.ts) derives from what   *)
(* the hub tells it.                                                       *)
(*                                                                         *)
(* A peer's process outlives its connections: receiver.ts connects again   *)
(* after a close and keeps its map of names, so view[c] is handed on from  *)
(* a lost connection to the one that follows it.                           *)
(*                                                                         *)
(* Time is counted in heartbeats: the hub beats every 30 s and drops a     *)
(* peer silent for more than 60 s, so at the third beat without a message. *)
(***************************************************************************)
EXTENDS Naturals, Sequences, FiniteSets

CONSTANTS Conns,      \* websocket connections, each with its random id
          Rooms,
          Names,      \* sanitized peer names
          Anonymous,  \* the name of a peer before identify
          MaxAge,     \* beats a silent peer survives: ZOMBIE_TIMEOUT / HEARTBEAT
          MaxInbox    \* bound: unread messages up to which peers go on sending

ASSUME HubAssumption ==
  /\ Anonymous \in Names
  /\ MaxAge \in Nat \ {0} /\ MaxInbox \in Nat

VARIABLES sock,        \* per connection: the server's socket
          room,        \* per connection: ws.data.room
          member,      \* connections with a PeerRecord in their room
          name,        \* per connection: PeerRecord.name
          identified,  \* connections whose PeerRecord is identified
          age,         \* per connection: beats since PeerRecord.lastSeen
          inbox,       \* per connection: messages sent to it, not yet read
          listed,      \* connections that have read a peer list
          view         \* per connection: peerNames of its process, as pairs

VARIABLE ghosts  \* history: per connection, the peers its process still had a
                 \* name for though they were not in the room when it connected

vars == <<sock, room, member, name, identified, age, inbox, listed, view, ghosts>>

\* "half": the peer is gone but the server's socket still looks open;
\* "closing": no longer open, close callback not yet run.
Sockets == {"none", "open", "half", "closing", "closed"}
Message ==
  [type: {"welcome"}] \cup [type: {"joined"}, id: Conns]
    \cup [type: {"identified"}, id: Conns, name: Names]
    \cup [type: {"left"}, ids: SUBSET Conns]
    \cup [type: {"relayed"}, from: Conns]
    \cup [type: {"list"}, peers: SUBSET (Conns \X Names)]

TypeOK ==
  /\ sock \in [Conns -> Sockets]
  /\ room \in [Conns -> Rooms]
  /\ member \subseteq Conns /\ identified \subseteq Conns /\ listed \subseteq Conns
  /\ name \in [Conns -> Names]
  /\ age \in [Conns -> 0..MaxAge]
  /\ inbox \in [Conns -> Seq(Message)]
  /\ view \in [Conns -> SUBSET (Conns \X Names)]
  /\ ghosts \in [Conns -> SUBSET Conns]

Init ==
  /\ sock = [c \in Conns |-> "none"]
  /\ room \in [Conns -> Rooms]
  /\ member = {} /\ identified = {} /\ listed = {}
  /\ name = [c \in Conns |-> Anonymous]
  /\ age = [c \in Conns |-> 0]
  /\ inbox = [c \in Conns |-> <<>>]
  /\ view = [c \in Conns |-> {}]
  /\ ghosts = [c \in Conns |-> {}]

\* Who reads what the hub sends: a socket that looks open to the server but has
\* lost its peer (readyState still 1) swallows it, any other is skipped.
Hears(d) == sock[d] = "open"
Roommates(c) == {d \in member : room[d] = room[c]}
\* Mutant: a broadcast that forgets the rooms.
OthersAnywhere(c) == {d \in member \ {c} : Hears(d)}
Others(c) == {d \in Roommates(c) \ {c} : Hears(d)}

Tell(D, m) == inbox' = [d \in Conns |-> IF d \in D THEN Append(inbox[d], m) ELSE inbox[d]]

\* The process of connection k, which it has lost, comes back with c.
HandOn(c, k) == view' = [view EXCEPT ![c] = view[k], ![k] = {}]

\* A message of a live peer arrives while the hub knows it: receive stamps
\* lastSeen before it looks at the message.
Arrives(c) ==
  /\ sock[c] = "open" /\ c \in member
  /\ \A d \in Conns : Len(inbox[d]) < MaxInbox
  /\ age' = [age EXCEPT ![c] = 0]

\* websocket open -> connect, of a new process or of one that connects again.
Connect(c) ==
  /\ sock[c] = "none"
  /\ sock' = [sock EXCEPT ![c] = "open"]
  /\ member' = member \cup {c}
  /\ age' = [age EXCEPT ![c] = 0]
  /\ inbox' = [d \in Conns |-> IF d = c THEN <<[type |-> "welcome"]>>
                               ELSE IF d \in Others(c) THEN Append(inbox[d], [type |-> "joined", id |-> c])
                               ELSE inbox[d]]
  /\ \/ UNCHANGED view
     \/ \E k \in Conns : /\ sock[k] \in {"half", "closing", "closed"} /\ room[k] = room[c]
                         /\ HandOn(c, k)
  /\ ghosts' = [ghosts EXCEPT ![c] = {e[1] : e \in view'[c]} \ Roommates(c)]
  /\ UNCHANGED <<room, name, identified, listed>>

\* Mutant: only peers whose socket is open defend their name.
OpenIncumbents(c, n) == {d \in Others(c) : d \in identified /\ name[d] = n}
Incumbents(c, n) == {d \in Roommates(c) \ {c} : d \in identified /\ name[d] = n}

Identify(c, n) ==
  /\ Arrives(c) /\ Incumbents(c, n) = {}
  /\ name' = [name EXCEPT ![c] = n]
  /\ identified' = identified \cup {c}
  /\ Tell(Others(c), [type |-> "identified", id |-> c, name |-> n])
  /\ UNCHANGED <<sock, room, member, listed, view, ghosts>>

\* Mutant: nobody is told of a departure.
LeaveUntold(C) ==
  /\ member' = member \ C
  /\ identified' = identified \ C
  /\ inbox' = [d \in Conns |-> IF d \in C THEN <<>> ELSE inbox[d]]

\* disconnect: the records go and every roommate is told.
Leave(C) ==
  /\ member' = member \ C
  /\ identified' = identified \ C
  /\ inbox' = [d \in Conns |->
       LET gone == {x \in C \cap member : room[x] = room[d]} IN
       IF d \in C THEN <<>>
       ELSE IF d \in member /\ Hears(d) /\ gone # {}
         THEN Append(inbox[d], [type |-> "left", ids |-> gone]) ELSE inbox[d]]

\* The name is taken: error, disconnect and close of the newcomer, whose
\* process exits.
IdentifyTaken(c, n) ==
  /\ Arrives(c) /\ Incumbents(c, n) # {}
  /\ Leave({c})
  /\ listed' = listed \ {c}
  /\ view' = [view EXCEPT ![c] = {}]
  /\ sock' = [sock EXCEPT ![c] = "closed"]
  /\ UNCHANGED <<room, name, ghosts>>

\* offer, answer, ice-candidate: only within the sender's room.
Relay(c, t) ==
  /\ Arrives(c)
  /\ IF t \in Roommates(c) /\ Hears(t)
       THEN Tell({t}, [type |-> "relayed", from |-> c])
       ELSE UNCHANGED inbox
  /\ UNCHANGED <<sock, room, member, name, identified, listed, view, ghosts>>

ListPeers(c) ==
  /\ Arrives(c)
  /\ Tell({c}, [type |-> "list", peers |-> {<<d, name[d]>> : d \in Roommates(c)}])
  /\ UNCHANGED <<sock, room, member, name, identified, listed, view, ghosts>>

\* pong, malformed or unknown: nothing but the fresh lastSeen.
Pong(c) ==
  /\ Arrives(c) /\ age[c] # 0
  /\ UNCHANGED <<sock, room, member, name, identified, inbox, listed, view, ghosts>>

\* The peer vanishes without a word, or its socket starts to close: what it had
\* not read is lost, its process may live on.
Vanish(c) ==
  /\ sock[c] = "open"
  /\ sock' \in {[sock EXCEPT ![c] = "half"], [sock EXCEPT ![c] = "closing"]}
  /\ listed' = listed \ {c}
  /\ inbox' = [inbox EXCEPT ![c] = <<>>]
  /\ UNCHANGED <<room, member, name, identified, age, view, ghosts>>

\* websocket close -> disconnect, which a second call leaves alone.
CloseEvent(c) ==
  /\ sock[c] \in {"half", "closing"}
  /\ sock' = [sock EXCEPT ![c] = "closed"]
  /\ Leave({c} \cap member)
  /\ UNCHANGED <<room, name, age, listed, view, ghosts>>

\* Mutant: a ping counts as a sign of life.
HeartbeatRefreshes ==
  /\ member # {}
  /\ \E failing \in SUBSET {c \in member : sock[c] = "closing"} :
       LET out == {c \in member : age[c] = MaxAge} \cup failing IN
       /\ Leave(out) /\ listed' = listed \ out
       /\ sock' = [c \in Conns |-> IF c \in out THEN "closed" ELSE sock[c]]
       /\ age' = [c \in Conns |-> 0]
  /\ UNCHANGED <<room, name, view, ghosts>>

\* heartbeat: silent peers and those whose ping throws are disconnected and
\* closed, the others pinged.
Heartbeat ==
  /\ member # {}
  /\ \E failing \in SUBSET {c \in member : sock[c] = "closing"} :
       LET out == {c \in member : age[c] = MaxAge} \cup failing IN
       /\ Leave(out) /\ listed' = listed \ out
       /\ sock' = [c \in Conns |-> IF c \in out THEN "closed" ELSE sock[c]]
       /\ age' = [c \in Conns |-> IF c \in member \ out THEN age[c] + 1 ELSE age[c]]
  /\ UNCHANGED <<room, name, view, ghosts>>

\* The peer reads a message: a list and an identification set names, a
\* departure deletes them (receiver.ts onmessage).
Without(v, ids) == {e \in v : e[1] \notin ids}
Read(c) ==
  /\ sock[c] = "open" /\ inbox[c] # <<>>
  /\ LET m == Head(inbox[c]) IN
     /\ view' = [view EXCEPT ![c] =
          IF m.type = "list" THEN Without(@, {e[1] : e \in m.peers}) \cup m.peers
          ELSE IF m.type = "identified" THEN Without(@, {m.id}) \cup {<<m.id, m.name>>}
          ELSE IF m.type = "left" THEN Without(@, m.ids)
          ELSE @]
     /\ listed' = IF m.type = "list" THEN listed \cup {c} ELSE listed
  /\ inbox' = [inbox EXCEPT ![c] = Tail(@)]
  /\ UNCHANGED <<sock, room, member, name, identified, age, ghosts>>

Next ==
  \/ \E c \in Conns :
       \/ Connect(c) \/ ListPeers(c) \/ Pong(c) \/ Vanish(c) \/ CloseEvent(c) \/ Read(c)
       \/ \E n \in Names : Identify(c, n) \/ IdentifyTaken(c, n)
       \/ \E t \in Conns : Relay(c, t)
  \/ Heartbeat

Spec == Init /\ [][Next]_vars

\* Callbacks and the interval timer run; peers may stay silent for ever.
FairSpec == Spec /\ WF_vars(Heartbeat) /\ \A c \in Conns : WF_vars(Read(c))

-----------------------------------------------------------------------------
\* Two identified peers of one room never share a name, whatever the order of
\* identify, rename, disconnect and eviction (the incumbent check of receive).
UniqueNames ==
  \A c, d \in identified : room[c] = room[d] /\ name[c] = name[d] => c = d

\* Nothing a peer is told is about a peer of another room.
Subjects(m) ==
  IF m.type \in {"joined", "identified"} THEN {m.id}
  ELSE IF m.type = "left" THEN m.ids
  ELSE IF m.type = "relayed" THEN {m.from}
  ELSE IF m.type = "list" THEN {e[1] : e \in m.peers}
  ELSE {}
RoomIsolation ==
  \A c \in Conns : \A i \in 1..Len(inbox[c]) : \A d \in Subjects(inbox[c][i]) : room[d] = room[c]

\* A connected peer that asked for the list and has read all it was sent knows
\* the name of every identified roommate, and keeps no departed one but those
\* that went while its process was not connected: no notification is missed
\* between the list and what follows it.
ViewsConverge ==
  \A c \in member \cap listed : sock[c] = "open" /\ inbox[c] = <<>> =>
    /\ \A d \in (Roommates(c) \cap identified) \ {c} : <<d, name[d]>> \in view[c]
    /\ \A e \in view[c] : e[1] \in Roommates(c) \cup ghosts[c]

\* A peer that fell silent does not keep its name for ever.
SilentEvicted ==
  \A c \in Conns : (c \in member /\ sock[c] \in {"half", "closing"}) ~> (c \notin member)

\* A name belongs to one peer of a room, and nobody hears of another room's peers
\* (SignalingHub.receive, SignalingHub.broadcast).
RoomsTrue == UniqueNames /\ RoomIsolation

=============================================================================
