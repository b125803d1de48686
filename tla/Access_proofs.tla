----------------------------- MODULE Access_proofs -----------------------------
(***************************************************************************)
(* Who is on the p2p dropbox, for any number of connections, rooms, names  *)
(* and attempts: the names, the rooms and the views of the signaling hub,  *)
(* then the session and the grants of the log-in through Home Assistant.   *)
(***************************************************************************)
EXTENDS SignalingHub, IngressSession, TLAPS

\* Only registered peers hold a name; a connection without one is told nothing.
IdentifiedAreMembers == identified \subseteq member

HubInv == TypeOK /\ IdentifiedAreMembers /\ UniqueNames /\ RoomIsolation

\* What may be written into the inbox of d: a message about d's own room.
Fits(d, m) == m \in Message /\ \A x \in Subjects(m) : room[x] = room[d]

\* Each inbox is kept, emptied, shortened or extended by a fitting message.
InboxStep ==
  /\ DOMAIN inbox' = Conns /\ inbox' = [d \in Conns |-> inbox'[d]]
  /\ \A d \in Conns :
       \/ inbox'[d] = inbox[d]
       \/ inbox'[d] = <<>>
       \/ inbox'[d] = <<[type |-> "welcome"]>>
       \/ inbox[d] # <<>> /\ inbox'[d] = Tail(inbox[d])
       \/ \E m : Fits(d, m) /\ inbox'[d] = Append(inbox[d], m)

LEMMA InboxKept ==
  ASSUME HubInv, InboxStep, room' = room
  PROVE  inbox' \in [Conns -> Seq(Message)] /\ RoomIsolation'
<1>1. ASSUME NEW d \in Conns
      PROVE  /\ inbox'[d] \in Seq(Message)
             /\ \A i \in 1..Len(inbox'[d]) : \A x \in Subjects(inbox'[d][i]) : room[x] = room[d]
  <2>0. /\ inbox[d] \in Seq(Message)
        /\ \A i \in 1..Len(inbox[d]) : \A x \in Subjects(inbox[d][i]) : room[x] = room[d]
    BY <1>1 DEF HubInv, TypeOK, RoomIsolation
  <2>1. CASE inbox'[d] = inbox[d]
    BY <2>0, <2>1
  <2>2. CASE inbox'[d] = <<>>
    BY <2>2
  <2>3. CASE inbox'[d] = <<[type |-> "welcome"]>>
    <3>1. [type |-> "welcome"] \in Message /\ Subjects([type |-> "welcome"]) = {}
      BY DEF Message, Subjects
    <3> QED
      BY <2>3, <3>1
  <2>4. CASE inbox[d] # <<>> /\ inbox'[d] = Tail(inbox[d])
    <3>1. \A i \in 1..Len(Tail(inbox[d])) : i + 1 \in 1..Len(inbox[d]) /\ Tail(inbox[d])[i] = inbox[d][i + 1]
      BY <2>0, <2>4
    <3> QED
      BY <2>0, <2>4, <3>1
  <2>5. CASE \E m : Fits(d, m) /\ inbox'[d] = Append(inbox[d], m)
    <3>1. PICK m : Fits(d, m) /\ inbox'[d] = Append(inbox[d], m)
      BY <2>5
    <3>2. m \in Message /\ \A x \in Subjects(m) : room[x] = room[d]
      BY <3>1 DEF Fits
    <3>3. ASSUME NEW i \in 1..Len(Append(inbox[d], m))
          PROVE  Append(inbox[d], m)[i] = m \/ (i \in 1..Len(inbox[d]) /\ Append(inbox[d], m)[i] = inbox[d][i])
      BY <2>0, <3>2
    <3> QED
      BY <2>0, <3>1, <3>2, <3>3
  <2> QED
    BY <1>1, <2>1, <2>2, <2>3, <2>4, <2>5 DEF InboxStep
<1>2. inbox' \in [Conns -> Seq(Message)]
  BY <1>1 DEF InboxStep
<1> QED
  BY <1>1, <1>2 DEF RoomIsolation

\* Telling a set of roommates something about one peer.
LEMMA TellStep ==
  ASSUME HubInv, NEW D \in SUBSET Conns, NEW m, \A d \in D : Fits(d, m), Tell(D, m)
  PROVE  InboxStep
BY DEF Tell, InboxStep, HubInv, TypeOK

LEMMA LeaveStep ==
  ASSUME HubInv, NEW C \in SUBSET Conns, Leave(C)
  PROVE  InboxStep
<1> DEFINE departed(d) == {x \in C \cap member : room[x] = room[d]}
           left(d) == [type |-> "left", ids |-> departed(d)]
<1>1. ASSUME NEW d \in Conns PROVE Fits(d, left(d))
  BY DEF Fits, Message, Subjects
<1>2. inbox' = [d \in Conns |-> IF d \in C THEN <<>>
        ELSE IF d \in member /\ Hears(d) /\ departed(d) # {} THEN Append(inbox[d], left(d)) ELSE inbox[d]]
  BY DEF Leave
<1> HIDE DEF left, departed
<1> QED
  BY <1>1, <1>2 DEF InboxStep

-----------------------------------------------------------------------------
LEMMA InitHub == Init => HubInv
BY HubAssumption DEF Init, HubInv, TypeOK, IdentifiedAreMembers, UniqueNames, RoomIsolation, Sockets, Message

LEMMA ArrivesTypes ==
  ASSUME HubInv, NEW c \in Conns, Arrives(c)
  PROVE  age' \in [Conns -> 0..MaxAge]
<1>1. 0 \in 0..MaxAge
  BY HubAssumption
<1> QED
  BY <1>1 DEF Arrives, HubInv, TypeOK

LEMMA ConnectKeeps ==
  ASSUME HubInv, NEW c \in Conns, Connect(c)
  PROVE  HubInv'
<1> USE DEF Connect
<1>1. Fits(c, [type |-> "welcome"]) /\ \A d \in Others(c) : Fits(d, [type |-> "joined", id |-> c])
  BY DEF Fits, Message, Subjects, Others, Roommates
<1>2. InboxStep
  BY <1>1 DEF InboxStep
<1>3. inbox' \in [Conns -> Seq(Message)] /\ RoomIsolation'
  BY <1>2, InboxKept
<1>4. view' \in [Conns -> SUBSET (Conns \X Names)] /\ ghosts' \in [Conns -> SUBSET Conns]
  <2>1. view' \in [Conns -> SUBSET (Conns \X Names)]
    BY DEF HandOn, HubInv, TypeOK
  <2>2. {e[1] : e \in view'[c]} \subseteq Conns
    BY <2>1
  <2> QED
    BY <2>1, <2>2 DEF HubInv, TypeOK
<1>5. TypeOK'
  <2>1. sock' \in [Conns -> Sockets] /\ age' \in [Conns -> 0..MaxAge] /\ member' \subseteq Conns
    BY HubAssumption DEF HubInv, TypeOK, Sockets
  <2>2. UNCHANGED <<room, name, identified, listed>>
    OBVIOUS
  <2> QED
    BY <1>3, <1>4, <2>1, <2>2 DEF HubInv, TypeOK
<1>6. IdentifiedAreMembers' /\ UniqueNames'
  BY DEF HubInv, IdentifiedAreMembers, UniqueNames
<1> QED
  BY <1>3, <1>5, <1>6 DEF HubInv

LEMMA IdentifyKeeps ==
  ASSUME HubInv, NEW c \in Conns, NEW n \in Names, Identify(c, n)
  PROVE  HubInv'
<1> USE DEF Identify
<1>1. \A d \in Others(c) : Fits(d, [type |-> "identified", id |-> c, name |-> n])
  BY DEF Fits, Message, Subjects, Others, Roommates
<1>2. Others(c) \subseteq Conns
  BY DEF Others, Roommates, HubInv, TypeOK
<1>3. inbox' \in [Conns -> Seq(Message)] /\ RoomIsolation'
  BY <1>1, <1>2, TellStep, InboxKept
<1>4. UniqueNames'
  BY DEF UniqueNames, Incumbents, Roommates, HubInv, IdentifiedAreMembers, TypeOK
<1>5. c \in member /\ age' \in [Conns -> 0..MaxAge]
  BY ArrivesTypes DEF Arrives
<1>6. TypeOK'
  BY <1>3, <1>5 DEF HubInv, TypeOK
<1>7. IdentifiedAreMembers'
  BY <1>5 DEF HubInv, IdentifiedAreMembers
<1> QED
  BY <1>3, <1>4, <1>6, <1>7 DEF HubInv

\* A departure, together with whatever its handler does to the sockets.
LEMMA LeaveKeeps ==
  ASSUME HubInv, NEW C \in SUBSET Conns, Leave(C), room' = room, name' = name,
         sock' \in [Conns -> Sockets], age' \in [Conns -> 0..MaxAge],
         view' \in [Conns -> SUBSET (Conns \X Names)], listed' \subseteq Conns, ghosts' = ghosts
  PROVE  HubInv'
<1>1. inbox' \in [Conns -> Seq(Message)] /\ RoomIsolation'
  BY LeaveStep, InboxKept
<1>2. member' = member \ C /\ identified' = identified \ C
  BY DEF Leave
<1> QED
  BY <1>1, <1>2 DEF HubInv, TypeOK, IdentifiedAreMembers, UniqueNames

LEMMA RelayKeeps ==
  ASSUME HubInv, NEW c \in Conns, NEW t \in Conns, Relay(c, t)
  PROVE  HubInv'
<1> USE DEF Relay
<1>0. age' \in [Conns -> 0..MaxAge]
  BY ArrivesTypes
<1>1. CASE t \in Roommates(c) /\ Hears(t)
  <2>1. Fits(t, [type |-> "relayed", from |-> c])
    BY <1>1 DEF Fits, Message, Subjects, Roommates
  <2>2. inbox' \in [Conns -> Seq(Message)] /\ RoomIsolation'
    BY <1>1, <2>1, TellStep, InboxKept
  <2> QED
    BY <1>0, <2>2 DEF HubInv, TypeOK, IdentifiedAreMembers, UniqueNames
<1>2. CASE ~(t \in Roommates(c) /\ Hears(t))
  BY <1>0, <1>2 DEF HubInv, TypeOK, IdentifiedAreMembers, UniqueNames, RoomIsolation
<1> QED
  BY <1>1, <1>2

LEMMA ListPeersKeeps ==
  ASSUME HubInv, NEW c \in Conns, ListPeers(c)
  PROVE  HubInv'
<1> DEFINE ps == {<<d, name[d]>> : d \in Roommates(c)}
<1> USE DEF ListPeers
<1>0. age' \in [Conns -> 0..MaxAge]
  BY ArrivesTypes
<1>1. ps \in SUBSET (Conns \X Names) /\ \A e \in ps : room[e[1]] = room[c]
  BY DEF Roommates, HubInv, TypeOK
<1>2. Fits(c, [type |-> "list", peers |-> ps])
  BY <1>1 DEF Fits, Message, Subjects
<1>3. Tell({c}, [type |-> "list", peers |-> ps])
  OBVIOUS
<1> HIDE DEF ps
<1>4. inbox' \in [Conns -> Seq(Message)] /\ RoomIsolation'
  BY <1>2, <1>3, TellStep, InboxKept
<1> QED
  BY <1>0, <1>4 DEF HubInv, TypeOK, IdentifiedAreMembers, UniqueNames

LEMMA ReadKeeps ==
  ASSUME HubInv, NEW c \in Conns, Read(c)
  PROVE  HubInv'
<1> USE DEF Read
<1>1. InboxStep
  BY DEF InboxStep, HubInv, TypeOK
<1>2. inbox' \in [Conns -> Seq(Message)] /\ RoomIsolation'
  BY <1>1, InboxKept
<1>3. Head(inbox[c]) \in Message
  BY DEF HubInv, TypeOK
<1>4. view' \in [Conns -> SUBSET (Conns \X Names)]
  <2> DEFINE m == Head(inbox[c])
  <2>1. m.type = "list" => m.peers \in SUBSET (Conns \X Names)
    BY <1>3 DEF Message
  <2>2. m.type = "identified" => m.id \in Conns /\ m.name \in Names
    BY <1>3 DEF Message
  <2>3. \A X : Without(view[c], X) \in SUBSET (Conns \X Names)
    BY DEF Without, HubInv, TypeOK
  <2> QED
    BY <2>1, <2>2, <2>3 DEF HubInv, TypeOK
<1>5. listed' \subseteq Conns
  BY DEF HubInv, TypeOK
<1> QED
  BY <1>2, <1>4, <1>5 DEF HubInv, TypeOK, IdentifiedAreMembers, UniqueNames

LEMMA DepartureKeeps ==
  ASSUME HubInv, NEW c \in Conns,
         Vanish(c) \/ CloseEvent(c) \/ \E n \in Names : IdentifyTaken(c, n)
  PROVE  HubInv'
<1>1. CASE Vanish(c)
  <2>1. InboxStep
    BY <1>1 DEF Vanish, InboxStep, HubInv, TypeOK
  <2>2. inbox' \in [Conns -> Seq(Message)] /\ RoomIsolation'
    BY <1>1, <2>1, InboxKept DEF Vanish
  <2>3. listed' \subseteq Conns
    BY <1>1 DEF Vanish, HubInv, TypeOK
  <2>4. sock' \in [Conns -> Sockets]
    BY <1>1 DEF Vanish, HubInv, TypeOK, Sockets
  <2> QED
    BY <1>1, <2>2, <2>3, <2>4 DEF Vanish, HubInv, TypeOK, IdentifiedAreMembers, UniqueNames
<1>2. CASE CloseEvent(c)
  BY <1>2, LeaveKeeps DEF CloseEvent, HubInv, TypeOK, Sockets
<1>3. ASSUME NEW n \in Names, IdentifyTaken(c, n) PROVE HubInv'
  <2>1. view' \in [Conns -> SUBSET (Conns \X Names)] /\ listed' \subseteq Conns
    BY <1>3 DEF IdentifyTaken, HubInv, TypeOK
  <2>2. sock' \in [Conns -> Sockets] /\ age' \in [Conns -> 0..MaxAge]
    BY <1>3, HubAssumption DEF IdentifyTaken, Arrives, HubInv, TypeOK, Sockets
  <2> QED
    BY <1>3, <2>1, <2>2, LeaveKeeps DEF IdentifyTaken
<1> QED
  BY <1>1, <1>2, <1>3

LEMMA HeartbeatKeeps ==
  ASSUME HubInv, Heartbeat
  PROVE  HubInv'
<1>1. PICK failing \in SUBSET {c \in member : sock[c] = "closing"} :
        LET out == {c \in member : age[c] = MaxAge} \cup failing IN
        /\ Leave(out) /\ listed' = listed \ out
        /\ sock' = [c \in Conns |-> IF c \in out THEN "closed" ELSE sock[c]]
        /\ age' = [c \in Conns |-> IF c \in member \ out THEN age[c] + 1 ELSE age[c]]
  BY DEF Heartbeat
<1> DEFINE out == {c \in member : age[c] = MaxAge} \cup failing
<1>2. out \in SUBSET Conns
  BY DEF HubInv, TypeOK
<1>3. sock' \in [Conns -> Sockets]
  BY <1>1 DEF HubInv, TypeOK, Sockets
<1>4. age' \in [Conns -> 0..MaxAge]
  BY <1>1, HubAssumption DEF HubInv, TypeOK
<1>5. view' \in [Conns -> SUBSET (Conns \X Names)] /\ listed' \subseteq Conns /\ ghosts' = ghosts
  BY <1>1 DEF Heartbeat, HubInv, TypeOK
<1> QED
  BY <1>1, <1>2, <1>3, <1>4, <1>5, LeaveKeeps DEF Heartbeat

LEMMA NextHub == HubInv /\ [Next]_vars => HubInv'
<1> SUFFICES ASSUME HubInv, [Next]_vars PROVE HubInv'
  OBVIOUS
<1>1. ASSUME NEW c \in Conns, Pong(c) PROVE HubInv'
  BY <1>1, HubAssumption DEF Pong, Arrives, HubInv, TypeOK, IdentifiedAreMembers, UniqueNames, RoomIsolation
<1>2. CASE UNCHANGED vars
  BY <1>2 DEF vars, HubInv, TypeOK, IdentifiedAreMembers, UniqueNames, RoomIsolation
<1> QED
  BY <1>1, <1>2, ConnectKeeps, IdentifyKeeps, RelayKeeps, ListPeersKeeps, ReadKeeps,
     DepartureKeeps, HeartbeatKeeps DEF Next

\* The hub keeps its invariant.
THEOREM HubInvariant == Spec => []HubInv
BY InitHub, NextHub, PTL DEF Spec

\* Two identified peers of a room never share a name.
THEOREM NamesAreUnique == Spec => []UniqueNames
<1>1. HubInv => UniqueNames
  BY DEF HubInv
<1> QED
  BY <1>1, HubInvariant, PTL

\* No message crosses from one room into another.
THEOREM RoomsAreIsolated == Spec => []RoomIsolation
<1>1. HubInv => RoomIsolation
  BY DEF HubInv
<1> QED
  BY <1>1, HubInvariant, PTL

\* A room's names are its own and its messages stay in it.
THEOREM RoomsAreTrue == Spec => []RoomsTrue
BY NamesAreUnique, RoomsAreIsolated, PTL DEF RoomsTrue
-----------------------------------------------------------------------------
(* What a peer knows of its room: its view, and the messages it has yet to read. *)

\* Messages that set or delete the name of d, and those that set it rightly.
Mentions(m, d) ==
  \/ m.type = "list" /\ \E n \in Names : <<d, n>> \in m.peers
  \/ m.type = "identified" /\ m.id = d
  \/ m.type = "left" /\ d \in m.ids
Tells(m, d) ==
  \/ m.type = "list" /\ <<d, name[d]>> \in m.peers
  \/ m.type = "identified" /\ m.id = d /\ m.name = name[d]

\* The view, or a message of the inbox after which nothing else is said of d,
\* has its name.
Known(c, d) ==
  \E i \in 0..Len(inbox[c]) :
    /\ IF i = 0 THEN <<d, name[d]>> \in view[c] ELSE Tells(inbox[c][i], d)
    /\ \A j \in 1..Len(inbox[c]) : j > i /\ Mentions(inbox[c][j], d) => Tells(inbox[c][j], d)
Asked(c) == c \in listed \/ \E i \in 1..Len(inbox[c]) : inbox[c][i].type = "list"

\* Whoever is named has not left, was gone before c came, or the notice of it is
\* still to be read.
Named(c, i, x) ==
  IF i = 0 THEN \E n \in Names : <<x, n>> \in view[c]
  ELSE inbox[c][i].type # "left" /\ Mentions(inbox[c][i], x)
Noticed(c, i, x) == \E j \in 1..Len(inbox[c]) : j > i /\ inbox[c][j].type = "left" /\ x \in inbox[c][j].ids
NobodyGone(c) ==
  \A x \in Conns : \A i \in 0..Len(inbox[c]) : Named(c, i, x) =>
    x \in Roommates(c) \cup ghosts[c] \/ Noticed(c, i, x)

EverybodyKnown(c) == Asked(c) => \A d \in (Roommates(c) \cap identified) \ {c} : Known(c, d)
ViewOf(c) == NobodyGone(c) /\ EverybodyKnown(c)

SocketsTrue ==
  /\ listed \subseteq {c \in Conns : sock[c] = "open"}
  /\ \A c \in member : sock[c] # "none"
  /\ \A c \in Conns : sock[c] # "open" => inbox[c] = <<>>
  /\ \A c \in Conns : sock[c] = "open" => c \in member

ViewInv == HubInv /\ SocketsTrue /\ \A c \in Conns : sock[c] = "open" => ViewOf(c)

LEMMA TailFacts ==
  ASSUME NEW S, NEW s \in Seq(S), s # <<>>
  PROVE  /\ Head(s) = s[1] /\ Head(s) \in S /\ Tail(s) \in Seq(S)
         /\ Len(s) \in Nat /\ Len(s) >= 1 /\ Len(Tail(s)) = Len(s) - 1
         /\ \A j \in 1..Len(Tail(s)) : j + 1 \in 1..Len(s) /\ Tail(s)[j] = s[j + 1]
OBVIOUS

LEMMA AppendFacts ==
  ASSUME NEW S, NEW s \in Seq(S), NEW m \in S
  PROVE  /\ Append(s, m) \in Seq(S) /\ Len(s) \in Nat /\ Len(Append(s, m)) = Len(s) + 1
         /\ Append(s, m)[Len(s) + 1] = m
         /\ \A j \in 1..Len(s) : Append(s, m)[j] = s[j]
OBVIOUS

-----------------------------------------------------------------------------
\* Nothing happens at c.
Same(c) ==
  /\ inbox'[c] = inbox[c] /\ view'[c] = view[c] /\ ghosts'[c] = ghosts[c] /\ (c \in listed' => c \in listed)
  /\ Roommates(c) \subseteq Roommates(c)'
  /\ \A d \in (Roommates(c)' \cap identified') \ {c} : d \in Roommates(c) \cap identified /\ name'[d] = name[d]

\* The hub sends m to c.
Hear(c, m) ==
  /\ inbox'[c] = Append(inbox[c], m) /\ view'[c] = view[c] /\ ghosts'[c] = ghosts[c] /\ (c \in listed' => c \in listed)
  /\ \A x \in Conns : m.type # "left" /\ Mentions(m, x) => x \in Roommates(c)'
  /\ \A x \in Roommates(c) : x \in Roommates(c)' \/ (m.type = "left" /\ x \in m.ids)
  /\ \A d \in (Roommates(c)' \cap identified') \ {c} :
       \/ Tells(m, d)'
       \/ m.type # "list" /\ d \in Roommates(c) \cap identified /\ name'[d] = name[d] /\ ~Mentions(m, d)

LEMMA SameKeeps ==
  ASSUME NEW c \in Conns, ViewOf(c), Same(c)
  PROVE  ViewOf(c)'
<1>1. NobodyGone(c)'
  <2> SUFFICES ASSUME NEW x \in Conns, NEW i \in 0..Len(inbox[c]), Named(c, i, x)'
               PROVE  x \in Roommates(c)' \cup ghosts'[c] \/ Noticed(c, i, x)'
    BY DEF NobodyGone, Same
  <2>1. Named(c, i, x)
    BY DEF Named, Same, Mentions
  <2>2. x \in Roommates(c) \cup ghosts[c] \/ Noticed(c, i, x)
    BY <2>1 DEF ViewOf, NobodyGone
  <2> QED
    BY <2>2 DEF Same, Noticed
<1>2. EverybodyKnown(c)'
  <2> SUFFICES ASSUME Asked(c)', NEW d \in (Roommates(c)' \cap identified') \ {c} PROVE Known(c, d)'
    BY DEF EverybodyKnown
  <2>1. Asked(c)
    BY DEF Asked, Same
  <2>2. Known(c, d) /\ name'[d] = name[d]
    BY <2>1 DEF ViewOf, EverybodyKnown, Same
  <2>3. PICK i \in 0..Len(inbox[c]) :
          /\ IF i = 0 THEN <<d, name[d]>> \in view[c] ELSE Tells(inbox[c][i], d)
          /\ \A j \in 1..Len(inbox[c]) : j > i /\ Mentions(inbox[c][j], d) => Tells(inbox[c][j], d)
    BY <2>2 DEF Known
  <2>4. IF i = 0 THEN <<d, name'[d]>> \in view'[c] ELSE Tells(inbox[c][i], d)'
    BY <2>2, <2>3 DEF Same, Tells
  <2>5. ASSUME NEW j \in 1..Len(inbox'[c]), j > i, Mentions(inbox'[c][j], d)
        PROVE  Tells(inbox[c][j], d)'
    BY <2>2, <2>3, <2>5 DEF Same, Tells
  <2>6. i \in 0..Len(inbox'[c])
    BY DEF Same
  <2> QED
    BY <2>4, <2>5, <2>6 DEF Known, Mentions
<1> QED
  BY <1>1, <1>2 DEF ViewOf

LEMMA HearKeeps ==
  ASSUME NEW c \in Conns, inbox[c] \in Seq(Message), ViewOf(c), NEW m \in Message, Hear(c, m)
  PROVE  ViewOf(c)'
<1>0. /\ Len(inbox[c]) \in Nat /\ Len(inbox'[c]) = Len(inbox[c]) + 1 /\ inbox'[c][Len(inbox[c]) + 1] = m
      /\ \A j \in 1..Len(inbox[c]) : inbox'[c][j] = inbox[c][j]
      /\ inbox'[c] = Append(inbox[c], m)
  BY AppendFacts DEF Hear
<1>1. NobodyGone(c)'
  <2> SUFFICES ASSUME NEW x \in Conns, NEW i \in 0..Len(inbox'[c]), Named(c, i, x)'
               PROVE  x \in Roommates(c)' \cup ghosts'[c] \/ Noticed(c, i, x)'
    BY DEF NobodyGone
  <2>1. CASE i = Len(inbox[c]) + 1
    <3>1. inbox'[c][i] = m /\ i # 0
      BY <1>0, <2>1
    <3>2. m.type # "left" /\ Mentions(m, x)
      BY <3>1 DEF Named, Mentions
    <3> QED
      BY <3>2 DEF Hear
  <2>2. CASE i # Len(inbox[c]) + 1
    <3>1. i \in 0..Len(inbox[c]) /\ (i # 0 => i \in 1..Len(inbox[c]))
      BY <1>0, <2>2
    <3>2. Named(c, i, x)
      BY <1>0, <3>1 DEF Named, Mentions, Hear
    <3>3. x \in Roommates(c) \cup ghosts[c] \/ Noticed(c, i, x)
      BY <3>1, <3>2 DEF ViewOf, NobodyGone
    <3>4. CASE Noticed(c, i, x)
      <4>1. PICK j \in 1..Len(inbox[c]) : j > i /\ inbox[c][j].type = "left" /\ x \in inbox[c][j].ids
        BY <3>4 DEF Noticed
      <4>2. j \in 1..Len(inbox'[c]) /\ inbox'[c][j] = inbox[c][j]
        BY <1>0
      <4> QED
        BY <4>1, <4>2 DEF Noticed
    <3>5. CASE x \in Roommates(c) /\ x \notin Roommates(c)'
      <4>1. m.type = "left" /\ x \in m.ids
        BY <3>5 DEF Hear
      <4>2. Len(inbox[c]) + 1 \in 1..Len(inbox'[c]) /\ Len(inbox[c]) + 1 > i
        BY <1>0, <3>1
      <4> QED
        BY <1>0, <4>1, <4>2 DEF Noticed
    <3> QED
      BY <3>3, <3>4, <3>5 DEF Hear
  <2> QED
    BY <2>1, <2>2
<1>2. EverybodyKnown(c)'
  <2> SUFFICES ASSUME Asked(c)', NEW d \in (Roommates(c)' \cap identified') \ {c} PROVE Known(c, d)'
    BY DEF EverybodyKnown
  <2>1. CASE Tells(m, d)'
    <3>1. PICK l \in Nat : l = Len(inbox'[c]) /\ l = Len(inbox[c]) + 1 /\ l > 0
      BY <1>0
    <3>2. l \in 0..Len(inbox'[c]) /\ l # 0 /\ \A j \in 1..Len(inbox'[c]) : ~(j > l)
      BY <1>0, <3>1
    <3>3. inbox'[c][l] = m
      BY <1>0, <3>1
    <3>4. Tells(inbox[c][l], d)'
      BY <2>1, <3>3 DEF Tells
    <3> QED
      BY <3>2, <3>4, Zenon DEF Known
  <2>2. CASE m.type # "list" /\ d \in Roommates(c) \cap identified /\ name'[d] = name[d] /\ ~Mentions(m, d)
    <3>1. Asked(c)
      <4>1. CASE c \in listed'
        BY <4>1 DEF Asked, Hear
      <4>2. CASE \E i \in 1..Len(inbox'[c]) : inbox'[c][i].type = "list"
        <5>1. PICK i \in 1..Len(inbox'[c]) : inbox'[c][i].type = "list"
          BY <4>2
        <5>2. i # Len(inbox[c]) + 1
          BY <1>0, <2>2, <5>1
        <5>3. i \in 1..Len(inbox[c])
          BY <1>0, <5>2
        <5> QED
          BY <1>0, <5>1, <5>3 DEF Asked
      <4> QED
        BY <4>1, <4>2 DEF Asked
    <3>2. Known(c, d)
      BY <2>2, <3>1 DEF ViewOf, EverybodyKnown
    <3>3. PICK i \in 0..Len(inbox[c]) :
            /\ IF i = 0 THEN <<d, name[d]>> \in view[c] ELSE Tells(inbox[c][i], d)
            /\ \A j \in 1..Len(inbox[c]) : j > i /\ Mentions(inbox[c][j], d) => Tells(inbox[c][j], d)
      BY <3>2 DEF Known
    <3>4. i \in 0..Len(inbox'[c]) /\ (i # 0 => i \in 1..Len(inbox[c]))
      BY <1>0
    <3>5. IF i = 0 THEN <<d, name'[d]>> \in view'[c] ELSE Tells(inbox[c][i], d)'
      <4>1. CASE i = 0
        BY <2>2, <3>3, <4>1 DEF Hear
      <4>2. CASE i # 0
        BY <1>0, <2>2, <3>3, <3>4, <4>2 DEF Tells
      <4> QED
        BY <4>1, <4>2
    <3>6. ASSUME NEW j \in 1..Len(inbox'[c]), j > i, Mentions(inbox'[c][j], d)
          PROVE  Tells(inbox[c][j], d)'
      <4>1. j # Len(inbox[c]) + 1
        BY <1>0, <2>2, <3>6
      <4>2. j \in 1..Len(inbox[c])
        BY <1>0, <4>1
      <4>3. Tells(inbox[c][j], d)
        BY <1>0, <3>3, <3>6, <4>2
      <4> QED
        BY <1>0, <2>2, <4>2, <4>3 DEF Tells
    <3> QED
      BY <3>4, <3>5, <3>6 DEF Known, Mentions
  <2> QED
    BY <2>1, <2>2 DEF Hear
<1> QED
  BY <1>1, <1>2 DEF ViewOf

\* c reads the first message of its inbox.
Reads(c, m) ==
  /\ inbox[c] # <<>> /\ m = inbox[c][1] /\ inbox'[c] = Tail(inbox[c])
  /\ view'[c] = (IF m.type = "list" THEN Without(view[c], {e[1] : e \in m.peers}) \cup m.peers
                 ELSE IF m.type = "identified" THEN Without(view[c], {m.id}) \cup {<<m.id, m.name>>}
                 ELSE IF m.type = "left" THEN Without(view[c], m.ids)
                 ELSE view[c])
  /\ c \in listed' => c \in listed \/ m.type = "list"
  /\ UNCHANGED <<room, member, name, identified, ghosts>>

LEMMA ReadFacts ==
  ASSUME NEW c \in Conns, view[c] \subseteq Conns \X Names, NEW m \in Message, Reads(c, m), NEW d \in Conns
  PROVE  /\ Tells(m, d) => <<d, name[d]>> \in view'[c]
         /\ <<d, name[d]>> \in view[c] /\ ~Mentions(m, d) => <<d, name[d]>> \in view'[c]
         /\ \A n \in Names : <<d, n>> \in view'[c] =>
              \/ m.type # "left" /\ Mentions(m, d)
              \/ <<d, n>> \in view[c] /\ ~(m.type = "left" /\ d \in m.ids)
<1>1. CASE m.type = "list"
  <2>0. m.peers \subseteq Conns \X Names
    BY <1>1 DEF Message
  <2>1. view'[c] = {e \in view[c] : e[1] \notin {q[1] : q \in m.peers}} \cup m.peers
    BY <1>1 DEF Reads, Without
  <2>2. Mentions(m, d) <=> \E n \in Names : <<d, n>> \in m.peers
    BY <1>1 DEF Mentions
  <2>3. d \in {q[1] : q \in m.peers} => Mentions(m, d)
    BY <2>0, <2>2
  <2>4. <<d, name[d]>>[1] = d
    OBVIOUS
  <2>5. <<d, name[d]>> \in view[c] /\ ~Mentions(m, d) => <<d, name[d]>> \in view'[c]
    BY <2>1, <2>3, <2>4
  <2>6. Tells(m, d) => <<d, name[d]>> \in view'[c]
    BY <1>1, <2>1 DEF Tells
  <2>7. \A n \in Names : <<d, n>> \in view'[c] => <<d, n>> \in view[c] \/ <<d, n>> \in m.peers
    BY <2>1
  <2> QED
    BY <1>1, <2>2, <2>5, <2>6, <2>7
<1>2. CASE m.type = "identified"
  <2>1. view'[c] = {e \in view[c] : e[1] \notin {m.id}} \cup {<<m.id, m.name>>}
    BY <1>2 DEF Reads, Without
  <2>2. Mentions(m, d) <=> m.id = d
    BY <1>2 DEF Mentions
  <2> QED
    BY <1>2, <2>1, <2>2 DEF Tells
<1>3. CASE m.type = "left"
  <2>1. view'[c] = {e \in view[c] : e[1] \notin m.ids}
    BY <1>3 DEF Reads, Without
  <2>2. Mentions(m, d) <=> d \in m.ids
    BY <1>3 DEF Mentions
  <2> QED
    BY <1>3, <2>1, <2>2 DEF Tells
<1>4. CASE m.type \notin {"list", "identified", "left"}
  BY <1>4 DEF Reads, Tells
<1> QED
  BY <1>1, <1>2, <1>3, <1>4

LEMMA ReadsKeeps ==
  ASSUME NEW c \in Conns, inbox[c] \in Seq(Message), view[c] \subseteq Conns \X Names, name \in [Conns -> Names],
         ViewOf(c), NEW m \in Message, Reads(c, m), Roommates(c) \subseteq Conns
  PROVE  ViewOf(c)'
<1>0. /\ Len(inbox[c]) \in Nat /\ Len(inbox[c]) >= 1 /\ Len(inbox'[c]) = Len(inbox[c]) - 1 /\ inbox[c][1] = m
      /\ \A j \in 1..Len(inbox'[c]) : j + 1 \in 1..Len(inbox[c]) /\ inbox'[c][j] = inbox[c][j + 1]
  BY TailFacts DEF Reads
<1>r. Roommates(c)' = Roommates(c) /\ name' = name /\ identified' = identified /\ ghosts' = ghosts
  BY DEF Reads, Roommates
<1>s. \A j \in 1..Len(inbox[c]) : j # 1 => /\ j - 1 \in 1..Len(inbox'[c]) /\ inbox'[c][j - 1] = inbox[c][j]
  <2> SUFFICES ASSUME NEW j \in 1..Len(inbox[c]), j # 1
               PROVE  j - 1 \in 1..Len(inbox'[c]) /\ inbox'[c][j - 1] = inbox[c][j]
    OBVIOUS
  <2>1. j - 1 \in 1..Len(inbox'[c]) /\ (j - 1) + 1 = j
    BY <1>0
  <2> QED
    BY <1>0, <2>1
<1>1. NobodyGone(c)'
  <2> SUFFICES ASSUME NEW x \in Conns, NEW i \in 0..Len(inbox'[c]), Named(c, i, x)'
               PROVE  x \in Roommates(c) \cup ghosts[c] \/ Noticed(c, i, x)'
    BY <1>r DEF NobodyGone
  <2>1. CASE i # 0
    <3>1. i \in 1..Len(inbox'[c]) /\ i + 1 \in 1..Len(inbox[c]) /\ i + 1 # 0 /\ inbox'[c][i] = inbox[c][i + 1]
      BY <1>0, <2>1
    <3>2. Named(c, i + 1, x)
      BY <2>1, <3>1 DEF Named, Mentions
    <3>3. x \in Roommates(c) \cup ghosts[c] \/ Noticed(c, i + 1, x)
      BY <3>1, <3>2 DEF ViewOf, NobodyGone
    <3>4. CASE Noticed(c, i + 1, x)
      <4>1. PICK j \in 1..Len(inbox[c]) : j > i + 1 /\ inbox[c][j].type = "left" /\ x \in inbox[c][j].ids
        BY <3>4 DEF Noticed
      <4>2. j # 1 /\ j - 1 > i
        BY <1>0, <3>1, <4>1
      <4> QED
        BY <1>s, <4>1, <4>2 DEF Noticed
    <3> QED
      BY <3>3, <3>4
  <2>2. CASE i = 0
    <3>1. PICK n \in Names : <<x, n>> \in view'[c]
      BY <2>2 DEF Named
    <3>2. \/ m.type # "left" /\ Mentions(m, x)
          \/ <<x, n>> \in view[c] /\ ~(m.type = "left" /\ x \in m.ids)
      BY <3>1, ReadFacts
    <3>3. PICK k \in {0, 1} : Named(c, k, x) /\ (k = 0 => ~(m.type = "left" /\ x \in m.ids))
      <4>1. CASE m.type # "left" /\ Mentions(m, x)
        <5>1. Named(c, 1, x)
          BY <1>0, <4>1 DEF Named
        <5> QED
          BY <5>1
      <4>2. CASE <<x, n>> \in view[c] /\ ~(m.type = "left" /\ x \in m.ids)
        <5>1. Named(c, 0, x)
          BY <4>2 DEF Named
        <5> QED
          BY <4>2, <5>1
      <4> QED
        BY <3>2, <4>1, <4>2
    <3>4. k \in 0..Len(inbox[c])
      BY <1>0
    <3>5. x \in Roommates(c) \cup ghosts[c] \/ Noticed(c, k, x)
      BY <3>3, <3>4 DEF ViewOf, NobodyGone
    <3>6. CASE Noticed(c, k, x)
      <4>1. PICK j \in 1..Len(inbox[c]) : j > k /\ inbox[c][j].type = "left" /\ x \in inbox[c][j].ids
        BY <3>6 DEF Noticed
      <4>2. j # 1
        <5>1. k = 1 => j # 1
          BY <4>1
        <5>2. k = 0 => j # 1
          BY <1>0, <3>3, <4>1
        <5> QED
          BY <5>1, <5>2
      <4>3. j - 1 > i
        BY <1>0, <2>2, <4>2
      <4> QED
        BY <1>s, <4>1, <4>2, <4>3 DEF Noticed
    <3> QED
      BY <3>5, <3>6
  <2> QED
    BY <2>1, <2>2
<1>2. EverybodyKnown(c)'
  <2> SUFFICES ASSUME Asked(c)', NEW d \in (Roommates(c) \cap identified) \ {c} PROVE Known(c, d)'
    BY <1>r DEF EverybodyKnown
  <2>1. Asked(c)
    <3>1. CASE c \in listed'
      <4>1. 1 \in 1..Len(inbox[c])
        BY <1>0
      <4> QED
        BY <1>0, <3>1, <4>1 DEF Reads, Asked
    <3>2. CASE \E j \in 1..Len(inbox'[c]) : inbox'[c][j].type = "list"
      BY <1>0, <3>2 DEF Asked
    <3> QED
      BY <3>1, <3>2 DEF Asked
  <2>2. PICK i \in 0..Len(inbox[c]) :
          /\ IF i = 0 THEN <<d, name[d]>> \in view[c] ELSE Tells(inbox[c][i], d)
          /\ \A j \in 1..Len(inbox[c]) : j > i /\ Mentions(inbox[c][j], d) => Tells(inbox[c][j], d)
    BY <2>1 DEF ViewOf, EverybodyKnown, Known
  <2>4. PICK k \in 0..Len(inbox'[c]) :
          /\ i <= k + 1
          /\ IF k = 0 THEN <<d, name[d]>> \in view'[c] ELSE Tells(inbox'[c][k], d)
    <3>1. CASE i \in {0, 1}
      <4>1. 1 \in 1..Len(inbox[c]) /\ 0 \in 0..Len(inbox'[c]) /\ i <= 0 + 1
        BY <1>0, <3>1
      <4>2. Tells(m, d) \/ (<<d, name[d]>> \in view[c] /\ ~Mentions(m, d))
        <5>1. CASE i = 0
          BY <1>0, <2>2, <4>1, <5>1
        <5>2. CASE i = 1
          BY <1>0, <2>2, <5>2
        <5> QED
          BY <3>1, <5>1, <5>2
      <4>3. <<d, name[d]>> \in view'[c]
        BY <4>2, ReadFacts
      <4> QED
        BY <4>1, <4>3
    <3>2. CASE i \notin {0, 1}
      <4>1. i \in 1..Len(inbox[c]) /\ i # 1 /\ i # 0
        BY <1>0, <3>2
      <4>2. i - 1 \in 0..Len(inbox'[c]) /\ i - 1 # 0 /\ i <= (i - 1) + 1 /\ inbox'[c][i - 1] = inbox[c][i]
        BY <1>0, <1>s, <4>1
      <4>3. Tells(inbox'[c][i - 1], d)
        BY <2>2, <4>1, <4>2
      <4> QED
        BY <4>2, <4>3
    <3> QED
      BY <3>1, <3>2
  <2>5. ASSUME NEW j \in 1..Len(inbox'[c]), j > k, Mentions(inbox'[c][j], d)
        PROVE  Tells(inbox'[c][j], d)
    <3>1. j + 1 \in 1..Len(inbox[c]) /\ j + 1 > i /\ inbox'[c][j] = inbox[c][j + 1]
      BY <1>0, <2>4, <2>5
    <3> QED
      BY <2>2, <2>5, <3>1
  <2> QED
    BY <1>r, <2>4, <2>5, Zenon DEF Known, Tells, Mentions
<1> QED
  BY <1>1, <1>2 DEF ViewOf

-----------------------------------------------------------------------------
(* What each operation of the hub is for a connection c that stays open. *)

\* A connection that has just come in has asked for nothing, and knows who is
\* there or was before.
LEMMA FreshView ==
  ASSUME NEW c \in Conns, \A e \in view'[c] : e[1] \in Roommates(c)' \cup ghosts'[c],
         c \notin listed', inbox'[c] = <<[type |-> "welcome"]>>
  PROVE  ViewOf(c)'
<1>1. /\ Len(inbox'[c]) = 1 /\ inbox'[c][1] = [type |-> "welcome"] /\ 1 \in 1..Len(inbox'[c])
      /\ \A i \in 1..Len(inbox'[c]) : inbox'[c][i].type = "welcome"
  OBVIOUS
<1>2. ~Asked(c)'
  BY <1>1 DEF Asked
<1>3. NobodyGone(c)'
  <2> SUFFICES ASSUME NEW x \in Conns, NEW i \in 0..Len(inbox'[c]), Named(c, i, x)'
               PROVE  x \in Roommates(c)' \cup ghosts'[c]
    BY DEF NobodyGone
  <2>1. CASE i = 0
    BY <2>1 DEF Named
  <2>2. CASE i # 0
    <3>1. i \in 1..Len(inbox'[c])
      BY <1>1, <2>2
    <3>2. inbox'[c][i].type = "welcome"
      BY <1>1, <3>1
    <3> QED
      BY <2>2, <3>2 DEF Named, Mentions
  <2> QED
    BY <2>1, <2>2
<1> QED
  BY <1>2, <1>3 DEF ViewOf, EverybodyKnown

LEMMA ViewFacts ==
  ASSUME ViewInv
  PROVE  /\ HubInv /\ SocketsTrue /\ identified \subseteq member /\ member \subseteq Conns
         /\ sock \in [Conns -> Sockets] /\ name \in [Conns -> Names] /\ room \in [Conns -> Rooms]
         /\ DOMAIN view = Conns /\ \A c \in Conns : view[c] \subseteq Conns \X Names /\ inbox[c] \in Seq(Message)
BY DEF ViewInv, HubInv, IdentifiedAreMembers, TypeOK

LEMMA ConnectViews ==
  ASSUME ViewInv, NEW k \in Conns, Connect(k)
  PROVE  SocketsTrue' /\ \A c \in Conns : sock'[c] = "open" => ViewOf(c)'
<1>0. /\ sock[k] = "none" /\ sock' = [sock EXCEPT ![k] = "open"] /\ member' = member \cup {k}
      /\ UNCHANGED <<room, name, identified, listed>>
  BY DEF Connect
<1>v. \A c \in Conns : c # k /\ sock[c] = "open" => view'[c] = view[c] /\ ghosts'[c] = ghosts[c]
  BY DEF Connect, HandOn, ViewInv, HubInv, TypeOK
<1>g. \A e \in view'[k] : e[1] \in Roommates(k)' \cup ghosts'[k]
  <2>1. ghosts'[k] = {e[1] : e \in view'[k]} \ Roommates(k)
    BY DEF Connect, ViewInv, HubInv, TypeOK
  <2>2. Roommates(k) \subseteq Roommates(k)'
    BY <1>0 DEF Roommates
  <2> QED
    BY <2>1, <2>2
<1>1. k \notin member /\ k \notin identified /\ k \notin listed
  BY <1>0, ViewFacts DEF SocketsTrue
<1>2. /\ inbox'[k] = <<[type |-> "welcome"]>>
      /\ \A d \in Conns \ {k} : inbox'[d] = IF d \in Others(k) THEN Append(inbox[d], [type |-> "joined", id |-> k]) ELSE inbox[d]
  BY DEF Connect
<1>3. SocketsTrue'
  <2>1. \A c \in Conns : c # k => sock'[c] = sock[c]
    BY <1>0, ViewFacts
  <2>2. sock'[k] = "open"
    BY <1>0, ViewFacts
  <2>3. \A c \in Conns : sock[c] # "open" => c \notin Others(k)
    BY DEF Others, Hears
  <2> QED
    BY <1>0, <1>1, <1>2, <2>1, <2>2, <2>3, ViewFacts DEF SocketsTrue
<1>4. ASSUME NEW c \in Conns, sock'[c] = "open" PROVE ViewOf(c)'
  <2>1. CASE c = k
    BY <1>0, <1>1, <1>2, <1>g, <2>1, FreshView
  <2>2. CASE c # k
    <3>1. sock[c] = "open" /\ ViewOf(c)
      BY <1>0, <1>4, <2>2, ViewFacts DEF ViewInv
    <3>2. Roommates(c) \subseteq Roommates(c)' /\ (Roommates(c)' \cap identified') = Roommates(c) \cap identified
      BY <1>0, <1>1 DEF Roommates
    <3>3. CASE c \in Others(k)
      <4>1. PICK m : m = [type |-> "joined", id |-> k]
        OBVIOUS
      <4>2. m \in Message /\ m.type = "joined"
        BY <4>1 DEF Message
      <4>3. \A x \in Conns : ~Mentions(m, x)
        BY <4>2 DEF Mentions
      <4>4. Hear(c, m)
        BY <1>0, <1>2, <1>v, <2>2, <3>1, <3>2, <3>3, <4>1, <4>2, <4>3, ViewFacts DEF Hear, Roommates
      <4> QED
        BY <3>1, <4>2, <4>4, HearKeeps, ViewFacts
    <3>4. CASE c \notin Others(k)
      <4>1. Same(c)
        BY <1>0, <1>2, <1>v, <2>2, <3>1, <3>2, <3>4 DEF Same
      <4> QED
        BY <3>1, <4>1, SameKeeps
    <3> QED
      BY <3>3, <3>4
  <2> QED
    BY <2>1, <2>2
<1> QED
  BY <1>3, <1>4

\* A message told to the connections of D: each hears it or nothing.
LEMMA ToldViews ==
  ASSUME ViewInv, NEW D \in SUBSET Conns, NEW m \in Message, Tell(D, m), \A d \in D : sock[d] = "open",
         UNCHANGED <<sock, room, member, listed, view, ghosts>>,
         \A c \in Conns : sock[c] = "open" => (c \in D => Hear(c, m)) /\ (c \notin D => Same(c))
  PROVE  SocketsTrue' /\ \A c \in Conns : sock'[c] = "open" => ViewOf(c)'
<1>1. \A c \in Conns : c \notin D => inbox'[c] = inbox[c]
  BY DEF Tell
<1>2. SocketsTrue'
  BY <1>1, ViewFacts DEF SocketsTrue
<1>3. ASSUME NEW c \in Conns, sock'[c] = "open" PROVE ViewOf(c)'
  <2>1. sock[c] = "open" /\ ViewOf(c)
    BY <1>3 DEF ViewInv
  <2> QED
    BY <2>1, HearKeeps, SameKeeps, ViewFacts
<1> QED
  BY <1>2, <1>3

LEMMA IdentifyViews ==
  ASSUME ViewInv, NEW k \in Conns, NEW n \in Names, Identify(k, n)
  PROVE  SocketsTrue' /\ \A c \in Conns : sock'[c] = "open" => ViewOf(c)'
<1>0. /\ k \in member /\ sock[k] = "open" /\ name' = [name EXCEPT ![k] = n] /\ identified' = identified \cup {k}
      /\ Tell(Others(k), [type |-> "identified", id |-> k, name |-> n])
      /\ UNCHANGED <<sock, room, member, listed, view, ghosts>>
  BY DEF Identify, Arrives
<1>1. PICK m : m = [type |-> "identified", id |-> k, name |-> n]
  OBVIOUS
<1>2. m \in Message /\ m.type = "identified" /\ m.id = k /\ m.name = n /\ Tell(Others(k), m)
  BY <1>0, <1>1 DEF Message
<1>3. Others(k) \in SUBSET Conns /\ \A d \in Others(k) : sock[d] = "open"
  BY ViewFacts DEF Others, Hears, Roommates
<1>4. name'[k] = n /\ \A d \in Conns : d # k => name'[d] = name[d]
  BY <1>0, ViewFacts
<1>5. \A x \in Conns : Mentions(m, x) <=> x = k
  BY <1>2 DEF Mentions
<1>6. ASSUME NEW c \in Conns, sock[c] = "open"
      PROVE  (c \in Others(k) => Hear(c, m)) /\ (c \notin Others(k) => Same(c))
  <2>1. Roommates(c)' = Roommates(c)
    BY <1>0 DEF Roommates
  <2>2. CASE c \in Others(k)
    <3>1. inbox'[c] = Append(inbox[c], m)
      BY <1>2, <2>2 DEF Tell
    <3>2. k \in Roommates(c)
      BY <1>0, <2>2 DEF Others, Roommates
    <3>3. ASSUME NEW d \in (Roommates(c)' \cap identified') \ {c}
          PROVE  \/ Tells(m, d)'
                 \/ m.type # "list" /\ d \in Roommates(c) \cap identified /\ name'[d] = name[d] /\ ~Mentions(m, d)
      <4>1. d \in Conns
        BY <2>1, ViewFacts DEF Roommates
      <4>2. CASE d = k
        BY <1>2, <1>4, <4>2 DEF Tells
      <4>3. CASE d # k
        BY <1>0, <1>2, <1>4, <1>5, <2>1, <4>1, <4>3
      <4> QED
        BY <4>2, <4>3
    <3> QED
      BY <1>0, <1>5, <2>1, <2>2, <3>1, <3>2, <3>3 DEF Hear
  <2>3. CASE c \notin Others(k)
    <3>1. inbox'[c] = inbox[c]
      BY <1>2, <2>3 DEF Tell
    <3>2. c = k \/ k \notin Roommates(c)
      <4>1. c \in member
        BY <1>6, ViewFacts DEF SocketsTrue
      <4> QED
        BY <1>6, <2>3, <4>1 DEF Others, Roommates, Hears
    <3>3. \A d \in (Roommates(c)' \cap identified') \ {c} : d \in Roommates(c) \cap identified /\ name'[d] = name[d]
      <4>1. Roommates(c) \subseteq Conns
        BY ViewFacts DEF Roommates
      <4> QED
        BY <1>0, <1>4, <2>1, <3>2, <4>1
    <3> QED
      BY <1>0, <2>1, <2>3, <3>1, <3>3 DEF Same
  <2> QED
    BY <2>2, <2>3
<1> QED
  BY <1>0, <1>2, <1>3, <1>6, ToldViews

LEMMA RelayViews ==
  ASSUME ViewInv, NEW k \in Conns, NEW t \in Conns, Relay(k, t)
  PROVE  SocketsTrue' /\ \A c \in Conns : sock'[c] = "open" => ViewOf(c)'
<1>0. UNCHANGED <<sock, room, member, name, identified, listed, view, ghosts>>
  BY DEF Relay
<1>s. \A c \in Conns : inbox'[c] = inbox[c] => Same(c)
  BY <1>0 DEF Same, Roommates
<1>1. CASE sock[t] = "open" /\ Tell({t}, [type |-> "relayed", from |-> k])
  <2>1. PICK m : m = [type |-> "relayed", from |-> k]
    OBVIOUS
  <2>2. m \in Message /\ m.type = "relayed"
    BY <2>1 DEF Message
  <2>3. \A x \in Conns : ~Mentions(m, x)
    BY <2>2 DEF Mentions
  <2>4. inbox'[t] = Append(inbox[t], m) /\ Tell({t}, m) /\ \A c \in Conns : c \notin {t} => inbox'[c] = inbox[c]
    BY <1>1, <2>1 DEF Tell
  <2>5. Hear(t, m)
    <3>1. Roommates(t)' = Roommates(t) /\ Roommates(t) \subseteq Conns
      BY <1>0, ViewFacts DEF Roommates
    <3> QED
      BY <1>0, <2>2, <2>3, <2>4, <3>1 DEF Hear
  <2> QED
    BY <1>0, <1>1, <1>s, <2>2, <2>4, <2>5, ToldViews
<1>2. CASE UNCHANGED inbox
  <2>1. SocketsTrue'
    BY <1>0, <1>2, ViewFacts DEF SocketsTrue
  <2> QED
    BY <1>0, <1>2, <1>s, <2>1, SameKeeps DEF ViewInv
<1> QED
  BY <1>1, <1>2 DEF Relay, Hears

LEMMA ListPeersViews ==
  ASSUME ViewInv, NEW k \in Conns, ListPeers(k)
  PROVE  SocketsTrue' /\ \A c \in Conns : sock'[c] = "open" => ViewOf(c)'
<1>0. UNCHANGED <<sock, room, member, name, identified, listed, view, ghosts>> /\ sock[k] = "open"
  BY DEF ListPeers, Arrives
<1>1. PICK ps : ps = {<<d, name[d]>> : d \in Roommates(k)}
  OBVIOUS
<1>2. PICK m : m = [type |-> "list", peers |-> ps]
  OBVIOUS
<1>3. m \in Message /\ m.type = "list" /\ m.peers = ps
  <2>1. ps \subseteq Conns \X Names
    BY <1>1, ViewFacts DEF Roommates
  <2> QED
    BY <1>2, <2>1 DEF Message
<1>4. Tell({k}, m) /\ inbox'[k] = Append(inbox[k], m) /\ \A c \in Conns : c \notin {k} => inbox'[c] = inbox[c]
  BY <1>1, <1>2 DEF ListPeers, Tell
<1>5. \A c \in Conns : Roommates(c)' = Roommates(c)
  BY <1>0 DEF Roommates
<1>6. \A d \in Roommates(k) : Tells(m, d)'
  BY <1>0, <1>1, <1>3 DEF Tells
<1>7. \A x \in Conns : Mentions(m, x) => x \in Roommates(k)
  BY <1>1, <1>3 DEF Mentions
<1>8. Hear(k, m)
  BY <1>0, <1>3, <1>4, <1>5, <1>6, <1>7 DEF Hear
<1>9. \A c \in Conns : inbox'[c] = inbox[c] => Same(c)
  BY <1>0, <1>5 DEF Same
<1> QED
  BY <1>0, <1>3, <1>4, <1>8, <1>9, ToldViews

\* The connections of C leave: a roommate that stays is told, one of another
\* room has none to miss.
LEMMA LeaveViews ==
  ASSUME ViewInv, NEW C \in SUBSET Conns, Leave(C), UNCHANGED <<room, name, ghosts>>,
         \A c \in Conns : sock'[c] = "open" => sock[c] = "open" /\ c \notin C /\ view'[c] = view[c],
         \A c \in Conns : sock'[c] # "open" /\ sock[c] = "open" => c \in C,
         \A c \in Conns : sock[c] # "none" => sock'[c] # "none",
         listed' \subseteq listed, \A c \in listed' : sock'[c] = "open"
  PROVE  SocketsTrue' /\ \A c \in Conns : sock'[c] = "open" => ViewOf(c)'
<1>0. member' = member \ C /\ identified' = identified \ C
  BY DEF Leave
<1>1. \A c \in C : inbox'[c] = <<>>
  BY DEF Leave
<1>2. ASSUME NEW c \in Conns, c \notin C, {x \in C \cap member : room[x] = room[c]} = {}
      PROVE  inbox'[c] = inbox[c]
  BY <1>2 DEF Leave
<1>3. ASSUME NEW c \in Conns, c \notin C, sock[c] # "open"
      PROVE  inbox'[c] = inbox[c]
  BY <1>3 DEF Leave, Hears
<1>4. ASSUME NEW c \in Conns, c \notin C, c \in member, sock[c] = "open", {x \in C \cap member : room[x] = room[c]} # {}
      PROVE  inbox'[c] = Append(inbox[c], [type |-> "left", ids |-> {x \in C \cap member : room[x] = room[c]}])
  BY <1>4 DEF Leave, Hears
<1>5. SocketsTrue'
  <2>1. listed' \subseteq {c \in Conns : sock'[c] = "open"}
    BY ViewFacts DEF SocketsTrue
  <2>2. \A c \in member' : sock'[c] # "none"
    BY <1>0, ViewFacts DEF SocketsTrue
  <2>3. \A c \in Conns : sock'[c] # "open" => inbox'[c] = <<>>
    BY <1>1, <1>3, ViewFacts DEF SocketsTrue
  <2>4. \A c \in Conns : sock'[c] = "open" => c \in member'
    BY <1>0, ViewFacts DEF SocketsTrue
  <2> QED
    BY <2>1, <2>2, <2>3, <2>4 DEF SocketsTrue
<1>6. ASSUME NEW c \in Conns, sock'[c] = "open" PROVE ViewOf(c)'
  <2>0. /\ sock[c] = "open" /\ c \notin C /\ view'[c] = view[c] /\ ghosts' = ghosts /\ c \in member /\ ViewOf(c)
        /\ (c \in listed' => c \in listed)
    BY <1>6, ViewFacts DEF SocketsTrue, ViewInv
  <2>1. /\ Roommates(c)' = Roommates(c) \ C
        /\ \A d \in (Roommates(c)' \cap identified') \ {c} :
             d \in Roommates(c) \cap identified /\ name'[d] = name[d] /\ d \notin C
    BY <1>0 DEF Roommates
  <2>2. PICK out : out = {x \in C \cap member : room[x] = room[c]}
    OBVIOUS
  <2>3. out \subseteq Conns /\ out \subseteq C /\ \A x \in Roommates(c) : x \in C => x \in out
    BY <2>2, ViewFacts DEF Roommates
  <2>4. CASE out = {}
    <3>1. inbox'[c] = inbox[c]
      BY <1>2, <2>0, <2>2, <2>4
    <3>2. Roommates(c) \subseteq Roommates(c)'
      BY <2>1, <2>3, <2>4
    <3>3. Same(c)
      BY <2>0, <2>1, <3>1, <3>2 DEF Same
    <3> QED
      BY <2>0, <3>3, SameKeeps
  <2>5. CASE out # {}
    <3>1. PICK m : m = [type |-> "left", ids |-> out]
      OBVIOUS
    <3>2. m \in Message /\ m.type = "left" /\ m.ids = out
      BY <2>3, <3>1 DEF Message
    <3>3. inbox'[c] = Append(inbox[c], m)
      BY <1>4, <2>0, <2>2, <2>5, <3>1
    <3>4. \A d : d \notin C => ~Mentions(m, d)
      BY <2>3, <3>2 DEF Mentions
    <3>5. Hear(c, m)
      BY <2>0, <2>1, <2>3, <3>2, <3>3, <3>4 DEF Hear
    <3> QED
      BY <2>0, <3>2, <3>5, HearKeeps, ViewFacts
  <2> QED
    BY <2>4, <2>5
<1> QED
  BY <1>5, <1>6

LEMMA DepartureViews ==
  ASSUME ViewInv, NEW k \in Conns, (\E n \in Names : IdentifyTaken(k, n)) \/ CloseEvent(k)
  PROVE  SocketsTrue' /\ \A c \in Conns : sock'[c] = "open" => ViewOf(c)'
<1>1. CASE \E n \in Names : IdentifyTaken(k, n)
  <2>1. /\ Leave({k}) /\ sock' = [sock EXCEPT ![k] = "closed"] /\ UNCHANGED <<room, name, ghosts>>
        /\ listed' = listed \ {k} /\ view' = [view EXCEPT ![k] = {}]
    BY <1>1 DEF IdentifyTaken
  <2>2. \A c \in Conns : sock'[c] = IF c = k THEN "closed" ELSE sock[c]
    BY <2>1, ViewFacts
  <2>3. listed' = listed \ {k} /\ \A c \in Conns : c # k => view'[c] = view[c]
    BY <2>1, ViewFacts
  <2>4. \A c \in Conns : sock'[c] # "open" /\ sock[c] = "open" => c \in {k}
    BY <2>2
  <2>5. \A c \in listed' : sock'[c] = "open"
    BY <2>2, <2>3, ViewFacts DEF SocketsTrue
  <2>6. \A c \in Conns : sock'[c] = "open" => sock[c] = "open" /\ c \notin {k} /\ view'[c] = view[c]
    BY <2>2, <2>3
  <2>7. listed' \subseteq listed /\ \A c \in Conns : sock[c] # "none" => sock'[c] # "none"
    BY <2>2, <2>3
  <2> QED
    BY <2>1, <2>4, <2>5, <2>6, <2>7, LeaveViews
<1>2. CASE CloseEvent(k)
  <2>1. /\ Leave({k} \cap member) /\ sock' = [sock EXCEPT ![k] = "closed"] /\ UNCHANGED <<room, name, listed, view, ghosts>>
        /\ sock[k] # "open"
    BY <1>2 DEF CloseEvent
  <2>2. \A c \in Conns : sock'[c] = IF c = k THEN "closed" ELSE sock[c]
    BY <2>1, ViewFacts
  <2>4. \A c \in Conns : sock'[c] # "open" /\ sock[c] = "open" => c \in {k} \cap member
    BY <2>1, <2>2, ViewFacts DEF SocketsTrue
  <2>5. \A c \in listed' : sock'[c] = "open"
    BY <2>1, <2>2, ViewFacts DEF SocketsTrue
  <2>6. \A c \in Conns : sock'[c] = "open" => sock[c] = "open" /\ c \notin {k} \cap member /\ view'[c] = view[c]
    BY <2>1, <2>2
  <2>7. listed' \subseteq listed /\ \A c \in Conns : sock[c] # "none" => sock'[c] # "none"
    BY <2>1, <2>2
  <2>8. {k} \cap member \in SUBSET Conns
    OBVIOUS
  <2> QED
    BY <2>1, <2>4, <2>5, <2>6, <2>7, <2>8, LeaveViews
<1> QED
  BY <1>1, <1>2

LEMMA HeartbeatViews ==
  ASSUME ViewInv, Heartbeat
  PROVE  SocketsTrue' /\ \A c \in Conns : sock'[c] = "open" => ViewOf(c)'
<1>1. PICK out \in SUBSET member :
        /\ Leave(out) /\ listed' = listed \ out
        /\ sock' = [c \in Conns |-> IF c \in out THEN "closed" ELSE sock[c]]
        /\ UNCHANGED <<room, name, view, ghosts>>
  <2>1. PICK failing \in SUBSET {c \in member : sock[c] = "closing"} :
          LET out == {c \in member : age[c] = MaxAge} \cup failing IN
          /\ Leave(out) /\ listed' = listed \ out
          /\ sock' = [c \in Conns |-> IF c \in out THEN "closed" ELSE sock[c]]
    BY DEF Heartbeat
  <2>2. {c \in member : age[c] = MaxAge} \cup failing \in SUBSET member
    OBVIOUS
  <2>3. UNCHANGED <<room, name, view, ghosts>>
    BY DEF Heartbeat
  <2> QED
    BY <2>1, <2>2, <2>3
<1>2. out \in SUBSET Conns
  BY <1>1, ViewFacts
<1>3. \A c \in Conns : sock'[c] = IF c \in out THEN "closed" ELSE sock[c]
  BY <1>1
<1>4. listed' = listed \ out /\ view' = view
  BY <1>1
<1>5. \A c \in Conns : sock'[c] # "open" /\ sock[c] = "open" => c \in out
  BY <1>3
<1>6. \A c \in listed' : sock'[c] = "open"
  BY <1>3, <1>4, ViewFacts DEF SocketsTrue
<1>7. \A c \in Conns : sock'[c] = "open" => sock[c] = "open" /\ c \notin out /\ view'[c] = view[c]
  BY <1>3, <1>4
<1>8. listed' \subseteq listed /\ \A c \in Conns : sock[c] # "none" => sock'[c] # "none"
  BY <1>3, <1>4
<1> QED
  BY <1>1, <1>2, <1>5, <1>6, <1>7, <1>8, LeaveViews

LEMMA VanishViews ==
  ASSUME ViewInv, NEW k \in Conns, Vanish(k)
  PROVE  SocketsTrue' /\ \A c \in Conns : sock'[c] = "open" => ViewOf(c)'
<1>1. listed' = listed \ {k} /\ UNCHANGED <<room, member, name, identified, view, ghosts>>
  BY DEF Vanish
<1>2. sock'[k] \in {"half", "closing"} /\ \A c \in Conns : c # k => sock'[c] = sock[c]
  BY ViewFacts DEF Vanish
<1>3. \A c \in Conns : inbox'[c] = IF c = k THEN <<>> ELSE inbox[c]
  BY ViewFacts DEF Vanish, HubInv, TypeOK
<1>4. SocketsTrue'
  BY <1>1, <1>2, <1>3, ViewFacts DEF SocketsTrue
<1>5. ASSUME NEW c \in Conns, sock'[c] = "open" PROVE ViewOf(c)'
  <2>1. c # k /\ sock[c] = "open" /\ ViewOf(c)
    BY <1>2, <1>5 DEF ViewInv
  <2>2. Same(c)
    BY <1>1, <1>3, <2>1 DEF Same, Roommates
  <2> QED
    BY <2>1, <2>2, SameKeeps
<1> QED
  BY <1>4, <1>5

LEMMA ReadViews ==
  ASSUME ViewInv, NEW k \in Conns, Read(k)
  PROVE  SocketsTrue' /\ \A c \in Conns : sock'[c] = "open" => ViewOf(c)'
<1>0. sock[k] = "open" /\ inbox[k] # <<>> /\ UNCHANGED <<sock, room, member, name, identified, ghosts>>
  BY DEF Read
<1>1. PICK m \in Message : m = Head(inbox[k]) /\ m = inbox[k][1]
  BY <1>0, ViewFacts, TailFacts
<1>2. /\ view' = [view EXCEPT ![k] =
           IF m.type = "list" THEN Without(@, {e[1] : e \in m.peers}) \cup m.peers
           ELSE IF m.type = "identified" THEN Without(@, {m.id}) \cup {<<m.id, m.name>>}
           ELSE IF m.type = "left" THEN Without(@, m.ids)
           ELSE @]
      /\ listed' = IF m.type = "list" THEN listed \cup {k} ELSE listed
      /\ inbox' = [inbox EXCEPT ![k] = Tail(@)]
  BY <1>1 DEF Read
<1>3. inbox'[k] = Tail(inbox[k]) /\ \A c \in Conns : c # k => inbox'[c] = inbox[c] /\ view'[c] = view[c]
  BY <1>2, ViewFacts DEF HubInv, TypeOK
<1>4. Reads(k, m)
  <2>1. view'[k] = (IF m.type = "list" THEN Without(view[k], {e[1] : e \in m.peers}) \cup m.peers
                    ELSE IF m.type = "identified" THEN Without(view[k], {m.id}) \cup {<<m.id, m.name>>}
                    ELSE IF m.type = "left" THEN Without(view[k], m.ids)
                    ELSE view[k])
    BY <1>2, ViewFacts
  <2>2. k \in listed' => k \in listed \/ m.type = "list"
    BY <1>2
  <2> QED
    BY <1>0, <1>1, <1>3, <2>1, <2>2 DEF Reads
<1>5. SocketsTrue'
  BY <1>0, <1>2, <1>3, ViewFacts DEF SocketsTrue
<1>6. ASSUME NEW c \in Conns, sock'[c] = "open" PROVE ViewOf(c)'
  <2>0. sock[c] = "open" /\ ViewOf(c)
    BY <1>0, <1>6 DEF ViewInv
  <2>1. CASE c = k
    <3>1. Roommates(c) \subseteq Conns
      BY ViewFacts DEF Roommates
    <3> QED
      BY <1>4, <2>0, <2>1, <3>1, ViewFacts, ReadsKeeps
  <2>2. CASE c # k
    <3>1. Same(c)
      BY <1>0, <1>2, <1>3, <2>2 DEF Same, Roommates
    <3> QED
      BY <2>0, <3>1, SameKeeps
  <2> QED
    BY <2>1, <2>2
<1> QED
  BY <1>5, <1>6

-----------------------------------------------------------------------------
LEMMA InitViews == Init => ViewInv
<1> SUFFICES ASSUME Init PROVE ViewInv
  OBVIOUS
<1>1. HubInv
  BY InitHub
<1>2. SocketsTrue /\ \A c \in Conns : sock[c] # "open"
  BY DEF Init, SocketsTrue
<1> QED
  BY <1>1, <1>2 DEF ViewInv

LEMMA NextViews == ViewInv /\ [Next]_vars => ViewInv'
<1> SUFFICES ASSUME ViewInv, [Next]_vars PROVE ViewInv'
  OBVIOUS
<1>0. HubInv'
  BY ViewFacts, NextHub
<1> SUFFICES SocketsTrue' /\ \A c \in Conns : sock'[c] = "open" => ViewOf(c)'
  BY <1>0 DEF ViewInv
<1>1. CASE UNCHANGED <<sock, room, member, name, identified, inbox, listed, view, ghosts>>
  <2>1. SocketsTrue'
    BY <1>1, ViewFacts DEF SocketsTrue
  <2>2. ASSUME NEW c \in Conns, sock'[c] = "open" PROVE ViewOf(c)'
    <3>1. ViewOf(c) /\ Same(c)
      BY <1>1, <2>2 DEF ViewInv, Same, Roommates
    <3> QED
      BY <3>1, SameKeeps
  <2> QED
    BY <2>1, <2>2
<1>2. ASSUME NEW c \in Conns, Pong(c) PROVE UNCHANGED <<sock, room, member, name, identified, inbox, listed, view, ghosts>>
  BY <1>2 DEF Pong
<1>3. CASE UNCHANGED vars
  BY <1>1, <1>3 DEF vars
<1> QED
  BY <1>1, <1>2, <1>3, ConnectViews, IdentifyViews, RelayViews, ListPeersViews, ReadViews, VanishViews,
     DepartureViews, HeartbeatViews DEF Next

\* The hub's notifications leave no peer behind: what a peer knows of its room
\* and what it is still told of it are the room.
THEOREM ViewInvariant == Spec => []ViewInv
BY InitViews, NextViews, PTL DEF Spec

\* A peer that asked for the list and has read everything knows every identified
\* roommate by its name, and no departed one but those gone before it came back.
THEOREM PeersViewsConverge == Spec => []ViewsConverge
<1>1. ViewInv => ViewsConverge
  <2> SUFFICES ASSUME ViewInv, NEW c \in member \cap listed, sock[c] = "open", inbox[c] = <<>>
               PROVE  /\ \A d \in (Roommates(c) \cap identified) \ {c} : <<d, name[d]>> \in view[c]
                      /\ \A e \in view[c] : e[1] \in Roommates(c) \cup ghosts[c]
    BY DEF ViewsConverge
  <2>1. c \in Conns /\ ViewOf(c) /\ Asked(c) /\ Len(inbox[c]) = 0 /\ view[c] \subseteq Conns \X Names
    BY ViewFacts DEF ViewInv, Asked
  <2>2. ASSUME NEW d \in (Roommates(c) \cap identified) \ {c} PROVE <<d, name[d]>> \in view[c]
    BY <2>1, <2>2 DEF ViewOf, EverybodyKnown, Known
  <2>3. ASSUME NEW e \in view[c] PROVE e[1] \in Roommates(c) \cup ghosts[c]
    <3>1. PICK x \in Conns, n \in Names : e = <<x, n>>
      BY <2>1, <2>3
    <3>2. Named(c, 0, x) /\ 0 \in 0..Len(inbox[c]) /\ ~Noticed(c, 0, x)
      BY <2>1, <2>3, <3>1 DEF Named, Noticed
    <3>3. x \in Roommates(c) \cup ghosts[c]
      BY <2>1, <3>2 DEF ViewOf, NobodyGone
    <3> QED
      BY <3>1, <3>3
  <2> QED
    BY <2>2, <2>3
<1> QED
  BY <1>1, ViewInvariant, PTL

-----------------------------------------------------------------------------
(* The log-in through Home Assistant. *)

\* The slots of the attempts to connect.
Tries == 1..MaxAttempts

\* What a slot may hold.
ReqType == [what : {"none", "auth", "api"}, cred : {"none", "token", "good", "bad"},
            stage : {"idle", "sent", "waiting", "ok", "denied", "error"},
            then : {"none", "config", "saved", "again"}, token : Times]
Shaped(r) ==
  /\ r.stage = "idle" => r = Idle
  /\ r.what = "none" => r.stage = "idle"
  /\ r.what = "auth" => r.then = "none" /\ (r.stage = "ok" => r.token # NoToken)
Shapes ==
  /\ \A s \in Slots : Shaped(req[s])
  /\ req[Other].then = "none" /\ req[Login].then = "none" /\ req[Login].cred # "token"

\* Only the current attempt can still change the page, the one of the page's
\* load is alone on it, and the token is the one that attempt was given.
Attempts ==
  /\ attempt >= 1
  /\ \A a \in Tries : a > attempt => req[a] = Idle
  /\ \A a \in Tries : req[a].then \in {"saved", "again"} => a = 1 /\ a = attempt
  /\ \A a \in Tries : req[a].what = "api" => req[a].then # "none"
  /\ req[attempt] # Idle => checking /\ ~gone
  /\ attempt = 1 /\ req[1] # Idle => config = "none" /\ expiry = NoToken /\ req[Login] = Idle /\ req[Other] = Idle
  /\ req[attempt].then = "config" => ingressSession # NoToken /\ ingressSession = req[attempt].token
  /\ req[attempt].then \in {"saved", "again"} => ingressSession = NoToken

\* What is granted from was read while the role was held.
Grants ==
  /\ lookup.value = "none" <=> lookup = NoLookup
  /\ lookup # NoLookup => lookup.since <= now /\ now <= lookup.since + LookupTtl
  /\ lookup.value = "yes" => lastAdmin >= lookup.since
  /\ lastAdmin <= now /\ (admin => lastAdmin = now)
  /\ ids /\ now < expires => expires <= lastAdmin + LookupTtl + CacheTtl

PageInv == StaysDisconnected /\ SessionShown /\ Shapes /\ Attempts
AccessInv == IngressTypeOK /\ PageInv /\ Grants

-----------------------------------------------------------------------------
LEMMA Bounds ==
  /\ TokenTtl \in Nat /\ CacheTtl \in Nat /\ RetryTtl \in Nat /\ LookupTtl \in Nat /\ RenewLead \in Nat
  /\ MaxNow \in Nat /\ MaxAttempts \in Nat /\ MaxChanges \in Nat /\ TokenTtl > 0 /\ MaxAttempts > 0
BY IngressAssumption

LEMMA SlotFacts ==
  /\ Other \in Slots /\ Login \in Slots /\ Tries \subseteq Slots /\ Other \notin Tries /\ Login \notin Tries
  /\ Other # Login /\ 1 \in Tries /\ 1 \in Slots /\ Slots \subseteq Int
  /\ \A s \in Slots : s = Other \/ s = Login \/ s \in Tries
  /\ \A s \in Tries : s < MaxAttempts => s + 1 \in Tries /\ s + 1 > s /\ s + 1 # 1 /\ s + 1 > 1
  /\ NoToken \in Times
BY Bounds DEF Other, Login, Slots, Tries, Times, NoToken

LEMMA IdleFields ==
  /\ Idle.what = "none" /\ Idle.cred = "none" /\ Idle.stage = "idle" /\ Idle.then = "none" /\ Idle.token = NoToken
  /\ Idle \in ReqType /\ Shaped(Idle)
BY SlotFacts DEF Idle, ReqType, Shaped

LEMMA RequestFields ==
  ASSUME NEW w \in {"auth", "api"}, NEW k \in {"none", "token", "good", "bad"}, NEW t \in Times,
         NEW h \in {"none", "config", "saved", "again"}, w = "auth" => h = "none"
  PROVE  /\ Request(w, k, t, h).what = w /\ Request(w, k, t, h).cred = k /\ Request(w, k, t, h).stage = "sent"
         /\ Request(w, k, t, h).then = h /\ Request(w, k, t, h).token = t
         /\ Request(w, k, t, h) \in ReqType /\ Request(w, k, t, h) # Idle /\ Shaped(Request(w, k, t, h))
<1>1. /\ Request(w, k, t, h).what = w /\ Request(w, k, t, h).cred = k /\ Request(w, k, t, h).stage = "sent"
      /\ Request(w, k, t, h).then = h /\ Request(w, k, t, h).token = t
      /\ Request(w, k, t, h) \in ReqType
  BY DEF Request, ReqType
<1> QED
  BY <1>1, IdleFields DEF Shaped

LEMMA ReqAt ==
  ASSUME IngressTypeOK, NEW s \in Slots, NEW r \in ReqType, req' = [req EXCEPT ![s] = r]
  PROVE  /\ req' \in [Slots -> ReqType] /\ req'[s] = r
         /\ \A q \in Slots : q # s => req'[q] = req[q]
BY DEF IngressTypeOK, ReqType

LEMMA AttemptType ==
  ASSUME IngressTypeOK, Attempts
  PROVE  attempt \in Tries /\ attempt \in Slots
BY Bounds DEF IngressTypeOK, Attempts, Tries, Slots, Login

\* What the type invariant says, without the sets it is written with.
Typed ==
  /\ now \in 0..MaxNow /\ expires \in Times /\ expiry \in Times /\ ingressSession \in Times /\ lastAdmin \in Times
  /\ admin \in BOOLEAN /\ ids \in BOOLEAN /\ known \in BOOLEAN /\ checking \in BOOLEAN /\ gone \in BOOLEAN
  /\ changes \in 0..MaxChanges /\ attempt \in 0..MaxAttempts
  /\ lookup \in [since : Times, value : {"none", "asked", "yes", "no"}]
  /\ config \in {"none", "ingress", "manual"} /\ saved \in {"none", "good", "bad"}
  /\ req \in [Slots -> ReqType]

LEMMA Types == IngressTypeOK <=> Typed
<1>1. ({expires, expiry, ingressSession, lastAdmin} \subseteq Times)
        <=> expires \in Times /\ expiry \in Times /\ ingressSession \in Times /\ lastAdmin \in Times
  OBVIOUS
<1>2. ({admin, ids, known, checking, gone} \subseteq BOOLEAN)
        <=> admin \in BOOLEAN /\ ids \in BOOLEAN /\ known \in BOOLEAN /\ checking \in BOOLEAN /\ gone \in BOOLEAN
  BY Zenon
<1>3. ([Slots -> [what : {"none", "auth", "api"}, cred : {"none", "token", "good", "bad"},
                  stage : {"idle", "sent", "waiting", "ok", "denied", "error"},
                  then : {"none", "config", "saved", "again"}, token : Times]]) = [Slots -> ReqType]
  BY DEF ReqType
<1> QED
  BY <1>1, <1>2, <1>3, Zenon DEF IngressTypeOK, Typed

LEMMA TypesNext == Typed' => IngressTypeOK'
BY Types, PTL

-----------------------------------------------------------------------------
(* The server's steps: requests only move on. *)

Moves(s) ==
  \/ req'[s] = req[s]
  \/ /\ req[s].stage \in {"sent", "waiting"} /\ req'[s].stage \in {"waiting", "ok", "denied", "error"}
     /\ req'[s].what = req[s].what /\ req'[s].cred = req[s].cred /\ req'[s].then = req[s].then
     /\ req[s].what # "auth" => req'[s].token = req[s].token
     /\ req'[s].what = "auth" /\ req'[s].stage = "ok" => req'[s].token # NoToken

LEMMA ServerKeepsPage ==
  ASSUME IngressTypeOK, PageInv, UNCHANGED page, \A s \in Slots : Moves(s)
  PROVE  PageInv'
<1>0. UNCHANGED <<attempt, ingressSession, config, expiry, known, checking, saved, gone>>
  BY DEF page
<1>a. attempt \in Tries /\ attempt \in Slots
  BY AttemptType DEF PageInv
<1>1. ASSUME NEW s \in Slots
      PROVE  /\ Shaped(req'[s]) /\ (req'[s] = Idle <=> req[s] = Idle)
             /\ req'[s].then = req[s].then /\ req'[s].what = req[s].what /\ req'[s].cred = req[s].cred
             /\ (req[s].then # "none" => req'[s].token = req[s].token)
  <2>1. Shaped(req[s]) /\ Moves(s)
    BY <1>1 DEF PageInv, Shapes
  <2>2. CASE req'[s] = req[s]
    BY <2>1, <2>2
  <2>3. CASE req'[s] # req[s]
    <3>1. req[s] # Idle /\ req'[s] # Idle
      BY <2>1, <2>3, IdleFields DEF Moves
    <3>2. req[s].what # "none"
      BY <2>1, <2>3 DEF Moves, Shaped
    <3> QED
      BY <2>1, <2>3, <3>1, <3>2 DEF Moves, Shaped
  <2> QED
    BY <2>2, <2>3
<1>2. Shapes'
  BY <1>1, SlotFacts DEF Shapes, PageInv
<1>3. Attempts'
  BY <1>0, <1>1, <1>a, SlotFacts DEF Attempts, PageInv
<1>4. StaysDisconnected' /\ SessionShown'
  BY <1>0, <1>1, <1>a DEF StaysDisconnected, SessionShown, PageInv
<1> QED
  BY <1>2, <1>3, <1>4 DEF PageInv

LEMMA VerdictMoves ==
  ASSUME IngressTypeOK, NEW s \in Slots, req[s].stage \in {"sent", "waiting"}, NEW g \in BOOLEAN,
         req'[s] = Verdict(req[s], g)
  PROVE  /\ Moves(s) /\ req'[s] \in ReqType
         /\ req'[s].stage = "ok" /\ req[s].cred # "good" => g
<1>0. req[s] \in ReqType /\ now \in 0..MaxNow
  BY Types DEF Typed
<1>1. now + TokenTtl \in Times /\ now + TokenTtl # NoToken
  BY <1>0, Bounds DEF Times, NoToken
<1>2. CASE req'[s] = [req[s] EXCEPT !.stage = "denied"]
  BY <1>0, <1>2 DEF ReqType, Moves
<1>3. CASE /\ req'[s] = [req[s] EXCEPT !.stage = "ok", !.token = IF req[s].what = "auth" THEN now + TokenTtl ELSE @]
           /\ (req[s].cred # "good" => g)
  BY <1>0, <1>1, <1>3 DEF ReqType, Moves
<1> QED
  BY <1>2, <1>3 DEF Verdict

LEMMA ReceiveInv ==
  ASSUME AccessInv, NEW s \in Slots, Receive(s)
  PROVE  AccessInv'
<1>0. /\ IngressTypeOK /\ PageInv /\ Grants /\ req[s].stage = "sent" /\ req[s] \in ReqType
      /\ now \in 0..MaxNow /\ ids \in BOOLEAN /\ lookup \in [since : Times, value : {"none", "asked", "yes", "no"}]
  <2>1. IngressTypeOK /\ PageInv /\ Grants /\ Typed
    BY Types DEF AccessInv
  <2>2. req[s].stage = "sent"
    BY DEF Receive
  <2> QED
    BY <2>1, <2>2 DEF Typed
<1>1. UNCHANGED <<now, admin, lastAdmin, changes, ids, expires>> /\ UNCHANGED page
  BY DEF Receive
<1>2. CASE now >= expires
  <2>1. /\ req' = [req EXCEPT ![s] = [req[s] EXCEPT !.stage = "waiting"]]
        /\ lookup' = IF lookup = NoLookup THEN [since |-> now, value |-> "asked"] ELSE lookup
    BY <1>0, <1>2, Types DEF Typed, Receive
  <2>2. [req[s] EXCEPT !.stage = "waiting"] \in ReqType
    BY <1>0 DEF ReqType
  <2>3. /\ req' \in [Slots -> ReqType] /\ req'[s] = [req[s] EXCEPT !.stage = "waiting"]
        /\ \A q \in Slots : q # s => req'[q] = req[q]
    BY <1>0, <2>1, <2>2, ReqAt
  <2>4. \A q \in Slots : Moves(q)
    BY <1>0, <2>3 DEF Moves, ReqType
  <2>5. /\ lookup' \in [since : Times, value : {"none", "asked", "yes", "no"}]
        /\ lookup' # lookup => lookup'.value = "asked" /\ lookup'.since = now /\ lookup' # NoLookup
    <3>1. now \in Times
      BY <1>0, Bounds DEF Times
    <3>2. [since |-> now, value |-> "asked"] # NoLookup
      <4>1. [since |-> now, value |-> "asked"].value = "asked" /\ NoLookup.value = "none"
        BY DEF NoLookup
      <4> QED
        BY <4>1
    <3> QED
      BY <1>0, <2>1, <3>1, <3>2
  <2>6. IngressTypeOK'
    BY <1>0, <1>1, <2>3, <2>5, Types, TypesNext DEF Typed, page
  <2>7. Grants'
    <3>1. now <= now + LookupTtl
      BY <1>0, Bounds
    <3> QED
      BY <1>0, <1>1, <2>5, <3>1 DEF Grants
  <2> QED
    BY <1>0, <1>1, <2>4, <2>6, <2>7, ServerKeepsPage DEF AccessInv
<1>3. CASE ~(now >= expires)
  <2>1. req' = [req EXCEPT ![s] = Verdict(req[s], ids)] /\ lookup' = lookup
    BY <1>3 DEF Receive
  <2>2. req'[s] = Verdict(req[s], ids)
    BY <1>0, <2>1, Types DEF Typed
  <2>3. Moves(s) /\ req'[s] \in ReqType
    BY <1>0, <2>2, VerdictMoves
  <2>4. /\ req' \in [Slots -> ReqType] /\ \A q \in Slots : q # s => req'[q] = req[q]
    BY <1>0, <2>1, <2>2, <2>3, ReqAt
  <2>5. \A q \in Slots : Moves(q)
    BY <2>3, <2>4 DEF Moves
  <2>6. IngressTypeOK'
    BY <1>0, <1>1, <2>1, <2>4, Types, TypesNext DEF Typed, page
  <2>7. Grants'
    BY <1>0, <1>1, <2>1 DEF Grants
  <2> QED
    BY <1>0, <1>1, <2>5, <2>6, <2>7, ServerKeepsPage DEF AccessInv
<1> QED
  BY <1>2, <1>3

LEMMA RequestLostInv ==
  ASSUME AccessInv, NEW s \in Slots, RequestLost(s)
  PROVE  AccessInv'
<1>0. /\ IngressTypeOK /\ PageInv /\ Grants /\ req[s].stage \in {"sent", "waiting"} /\ req[s] \in ReqType
      /\ UNCHANGED <<now, admin, lastAdmin, changes, ids, expires, lookup>> /\ UNCHANGED page
  BY Types DEF Typed, AccessInv, RequestLost, server
<1>1. req' = [req EXCEPT ![s] = [req[s] EXCEPT !.stage = "error"]] /\ [req[s] EXCEPT !.stage = "error"] \in ReqType
  BY <1>0, Types DEF Typed, RequestLost, ReqType
<1>2. /\ req' \in [Slots -> ReqType] /\ req'[s] = [req[s] EXCEPT !.stage = "error"]
      /\ \A q \in Slots : q # s => req'[q] = req[q]
  BY <1>0, <1>1, ReqAt
<1>3. \A q \in Slots : Moves(q)
  BY <1>0, <1>2 DEF Moves, ReqType
<1>4. IngressTypeOK' /\ Grants'
  BY <1>0, <1>2, Types, TypesNext DEF Typed, page, Grants
<1> QED
  BY <1>0, <1>3, <1>4, ServerKeepsPage DEF AccessInv

LEMMA LookupEndsInv ==
  ASSUME AccessInv, NEW ok \in BOOLEAN, LookupEnds(ok)
  PROVE  /\ AccessInv'
         /\ ids' => lastAdmin + CacheTtl + LookupTtl >= now
<1>0. /\ IngressTypeOK /\ PageInv /\ Grants /\ now \in Nat /\ now \in 0..MaxNow /\ expires \in Times /\ lastAdmin \in Nat
      /\ UNCHANGED <<now, admin, lastAdmin, changes>> /\ UNCHANGED page /\ lookup' = NoLookup
      /\ lookup # NoLookup /\ lookup.since \in Nat
  BY Types DEF Typed, AccessInv, LookupEnds, Times
<1>1. /\ ids' = (ok /\ lookup.value = "yes") /\ expires' = now + (IF ok THEN CacheTtl ELSE RetryTtl)
      /\ req' = [s \in Slots |-> IF req[s].stage = "waiting" THEN Verdict(req[s], ids') ELSE req[s]]
  BY DEF LookupEnds, GrantLoaded
<1>2. ids' \in BOOLEAN /\ expires' \in Times
  <2>1. ids' \in BOOLEAN
    BY <1>1
  <2>2. expires' \in Times
    BY <1>0, <1>1, Bounds DEF Times
  <2> QED
    BY <2>1, <2>2
<1>3. PICK g \in BOOLEAN : g = ids'
  BY <1>2
<1>4. \A s \in Slots : Moves(s) /\ req'[s] \in ReqType
  <2> SUFFICES ASSUME NEW s \in Slots PROVE Moves(s) /\ req'[s] \in ReqType
    OBVIOUS
  <2>1. CASE req[s].stage = "waiting"
    <3>1. req'[s] = Verdict(req[s], g)
      BY <1>1, <1>3, <2>1
    <3> QED
      BY <1>0, <2>1, <3>1, VerdictMoves
  <2>2. CASE req[s].stage # "waiting"
    BY <1>0, <1>1, <2>2, Types DEF Typed, Moves
  <2> QED
    BY <2>1, <2>2
<1>5. req' \in [Slots -> ReqType]
  BY <1>1, <1>4
<1>6. NoLookup \in [since : Times, value : {"none", "asked", "yes", "no"}] /\ NoLookup.value = "none"
  BY Bounds DEF NoLookup, Times
<1>7. IngressTypeOK'
  BY <1>0, <1>2, <1>5, <1>6, Types, TypesNext DEF Typed, page
<1>8. ids' => lookup.value = "yes" /\ ok
  BY <1>1
<1>9. ids' => lastAdmin >= lookup.since /\ now <= lookup.since + LookupTtl /\ expires' = now + CacheTtl
  BY <1>0, <1>1, <1>8 DEF Grants
<1>10. ids' => expires' <= lastAdmin + LookupTtl + CacheTtl /\ lastAdmin + CacheTtl + LookupTtl >= now
  BY <1>0, <1>9, Bounds
<1>11. Grants'
  BY <1>0, <1>6, <1>10 DEF Grants
<1> QED
  BY <1>0, <1>4, <1>7, <1>10, <1>11, ServerKeepsPage DEF AccessInv

LEMMA WorldInv ==
  ASSUME AccessInv, RoleChanges \/ Tick \/ DirectoryRead
  PROVE  AccessInv'
<1>0. /\ IngressTypeOK /\ PageInv /\ Grants /\ UNCHANGED <<ids, expires, req>> /\ UNCHANGED page
      /\ now \in 0..MaxNow /\ lastAdmin \in Times /\ expires \in Times
      /\ lookup \in [since : Times, value : {"none", "asked", "yes", "no"}] /\ changes \in 0..MaxChanges
      /\ admin \in BOOLEAN
  BY Types DEF Typed, AccessInv, RoleChanges, Tick, DirectoryRead
<1>n. now \in Nat /\ lookup.since \in Nat /\ expires \in Nat /\ lastAdmin \in Nat /\ now \in Times
  BY <1>0, Bounds DEF Times
<1>1. PageInv'
  BY <1>0, ServerKeepsPage DEF Moves
<1>2. CASE RoleChanges
  <2>1. UNCHANGED <<now, lookup>> /\ lastAdmin' = now /\ changes' = changes + 1 /\ changes < MaxChanges /\ admin' = ~admin
    BY <1>2 DEF RoleChanges
  <2>2. changes' \in 0..MaxChanges
    BY <1>0, <2>1, Bounds
  <2>3. IngressTypeOK'
    BY <1>0, <1>n, <2>1, <2>2, Types, TypesNext DEF Typed, page
  <2>4. lookup.value = "yes" => now >= lookup.since
    BY <1>0 DEF Grants, NoLookup
  <2>5. ids /\ now < expires => expires <= now + LookupTtl + CacheTtl
    <3> SUFFICES ASSUME ids, now < expires PROVE expires <= now + LookupTtl + CacheTtl
      OBVIOUS
    <3>1. expires <= lastAdmin + LookupTtl + CacheTtl /\ lastAdmin <= now
      BY <1>0 DEF Grants
    <3> QED
      BY <1>n, <3>1, Bounds
  <2> QED
    BY <1>0, <1>1, <2>1, <2>3, <2>4, <2>5 DEF AccessInv, Grants
<1>3. CASE Tick
  <2>1. /\ now < MaxNow /\ now' = now + 1 /\ lastAdmin' = (IF admin THEN now + 1 ELSE lastAdmin)
        /\ UNCHANGED <<admin, changes, lookup>> /\ (lookup # NoLookup => now < lookup.since + LookupTtl)
    BY <1>3 DEF Tick
  <2>2. now' \in 0..MaxNow /\ lastAdmin' \in Times
    BY <1>0, <1>n, <2>1, Bounds DEF Times
  <2>3. IngressTypeOK'
    BY <1>0, <2>1, <2>2, Types, TypesNext DEF Typed, page
  <2>4. lookup # NoLookup => lookup.since <= now' /\ now' <= lookup.since + LookupTtl
    BY <1>0, <1>n, <2>1, Bounds DEF Grants
  <2>5. lastAdmin' \in Nat /\ lastAdmin <= lastAdmin'
    BY <1>0, <1>n, <2>1 DEF Grants
  <2>6. lookup.value = "yes" => lastAdmin' >= lookup.since
    BY <1>0, <1>n, <2>5 DEF Grants
  <2>a. expires <= lastAdmin + LookupTtl + CacheTtl => expires <= lastAdmin' + LookupTtl + CacheTtl
    <3>1. \A e, a, b, l, c \in Nat : a <= b /\ e <= a + l + c => e <= b + l + c
      OBVIOUS
    <3>2. expires \in Nat /\ lastAdmin \in Nat /\ lastAdmin' \in Nat /\ LookupTtl \in Nat /\ CacheTtl \in Nat
      BY <1>n, <2>5, Bounds
    <3> QED
      BY <2>5, <3>1, <3>2, Zenon
  <2>7. ids /\ now' < expires => expires <= lastAdmin' + LookupTtl + CacheTtl
    <3> SUFFICES ASSUME ids, now' < expires PROVE expires <= lastAdmin' + LookupTtl + CacheTtl
      OBVIOUS
    <3>1. now < expires
      BY <1>n, <2>1
    <3>2. expires <= lastAdmin + LookupTtl + CacheTtl
      BY <1>0, <3>1 DEF Grants
    <3> QED
      BY <2>a, <3>2
  <2>8. (admin' => lastAdmin' = now') /\ lastAdmin' <= now'
    <3>1. CASE admin
      BY <1>n, <2>1, <3>1
    <3>2. CASE ~admin
      <4>1. lastAdmin' = lastAdmin /\ ~admin'
        BY <2>1, <3>2
      <4>2. lastAdmin <= now
        BY <1>0 DEF Grants
      <4>3. lastAdmin' <= now'
        BY <1>n, <2>1, <4>1, <4>2
      <4> QED
        BY <4>1, <4>3
    <3> QED
      BY <3>1, <3>2
  <2>9. (lookup'.value = "none" <=> lookup' = NoLookup) /\ lookup' = lookup /\ ids' = ids /\ expires' = expires
    BY <1>0, <2>1 DEF Grants
  <2>10. Grants'
    BY <2>4, <2>6, <2>7, <2>8, <2>9, Zenon DEF Grants
  <2> QED
    BY <1>1, <2>3, <2>10 DEF AccessInv
<1>4. CASE DirectoryRead
  <2>1. /\ lookup.value = "asked" /\ lookup' = [lookup EXCEPT !.value = IF admin THEN "yes" ELSE "no"]
        /\ UNCHANGED <<now, admin, lastAdmin, changes>>
    BY <1>4 DEF DirectoryRead
  <2>2. /\ lookup' \in [since : Times, value : {"none", "asked", "yes", "no"}] /\ lookup'.since = lookup.since
        /\ lookup'.value # "none" /\ (lookup'.value = "yes" => admin) /\ lookup' # NoLookup
    <3>1. /\ lookup' \in [since : Times, value : {"none", "asked", "yes", "no"}] /\ lookup'.since = lookup.since
          /\ lookup'.value = IF admin THEN "yes" ELSE "no"
      BY <1>0, <2>1
    <3>2. NoLookup.value = "none"
      BY DEF NoLookup
    <3> QED
      BY <1>0, <3>1, <3>2
  <2>3. IngressTypeOK'
    BY <1>0, <2>1, <2>2, Types, TypesNext DEF Typed, page
  <2>4. lookup # NoLookup
    BY <1>0, <2>1 DEF Grants
  <2> QED
    BY <1>0, <1>1, <1>n, <2>1, <2>2, <2>3, <2>4 DEF AccessInv, Grants
<1> QED
  BY <1>2, <1>3, <1>4


-----------------------------------------------------------------------------
(* The page's steps leave the server alone. *)

PageTyped ==
  /\ expiry \in Times /\ ingressSession \in Times
  /\ known \in BOOLEAN /\ checking \in BOOLEAN /\ gone \in BOOLEAN
  /\ attempt \in 0..MaxAttempts
  /\ config \in {"none", "ingress", "manual"} /\ saved \in {"none", "good", "bad"}

LEMMA PageStep ==
  ASSUME AccessInv, UNCHANGED <<now, server>>, PageTyped', req' \in [Slots -> ReqType], PageInv'
  PROVE  AccessInv'
<1>1. Typed /\ Grants /\ UNCHANGED <<now, admin, lastAdmin, changes, ids, expires, lookup>>
  BY Types DEF AccessInv, server
<1>2. Typed'
  BY <1>1, Zenon DEF Typed, PageTyped
<1>3. Grants'
  BY <1>1, Zenon DEF Grants
<1> QED
  BY <1>2, <1>3, TypesNext DEF AccessInv

LEMMA PageFacts ==
  ASSUME AccessInv
  PROVE  /\ IngressTypeOK /\ PageTyped /\ req \in [Slots -> ReqType] /\ attempt \in Tries /\ attempt \in Slots
         /\ StaysDisconnected /\ SessionShown /\ Shapes /\ Attempts /\ attempt \in Nat
         /\ \A s \in Slots : req[s].stage = "idle" <=> req[s] = Idle
<1>1. IngressTypeOK /\ Typed /\ StaysDisconnected /\ SessionShown /\ Shapes /\ Attempts
  BY Types DEF AccessInv, PageInv
<1>2. attempt \in Tries /\ attempt \in Slots
  BY <1>1, AttemptType
<1>3. attempt \in Nat
  BY <1>2, Bounds DEF Tries
<1>4. \A s \in Slots : req[s].stage = "idle" <=> req[s] = Idle
  BY <1>1, IdleFields DEF Shapes, Shaped
<1>5. PageTyped /\ req \in [Slots -> ReqType]
  BY <1>1, Zenon DEF Typed, PageTyped
<1> QED
  BY <1>1, <1>2, <1>3, <1>4, <1>5

LEMMA DropFormer ==
  ASSUME AccessInv, UNCHANGED <<now, server>>, UNCHANGED page, NEW s \in Slots, s # attempt,
         req' = [req EXCEPT ![s] = Idle]
  PROVE  AccessInv'
<1>0. UNCHANGED <<attempt, ingressSession, config, expiry, known, checking, saved, gone>>
  BY DEF page
<1>1. /\ req' \in [Slots -> ReqType] /\ req'[s] = Idle
      /\ \A q \in Slots : q # s => req'[q] = req[q]
  BY PageFacts, IdleFields, ReqAt
<1>2. PageTyped'
  BY <1>0, PageFacts, Zenon DEF PageTyped
<1>3. Shapes'
  BY <1>1, PageFacts, IdleFields, SlotFacts DEF Shapes
<1>4. req'[attempt] = req[attempt]
  BY <1>1, PageFacts
<1>5. \A q \in Slots : req'[q] = req[q] \/ req'[q] = Idle
  BY <1>1
<1>6. Attempts'
  BY <1>0, <1>4, <1>5, PageFacts, IdleFields, SlotFacts DEF Attempts
<1>7. StaysDisconnected' /\ SessionShown'
  BY <1>0, <1>4, PageFacts, Zenon DEF StaysDisconnected, SessionShown
<1> QED
  BY <1>1, <1>2, <1>3, <1>6, <1>7, PageStep DEF PageInv

\* The attempt under way is called off: log-out, log-in by a key, a refusal.
LEMMA CalledOff ==
  ASSUME AccessInv, UNCHANGED <<now, server>>, PageTyped', attempt < MaxAttempts, attempt' = attempt + 1,
         req' \in [Slots -> ReqType], \A q \in Slots : req'[q] = req[q] \/ req'[q] = Idle,
         attempt = 1 => req'[1] = Idle,
         ingressSession' = NoToken, config' # "ingress", gone' => config' = "none" /\ ~checking'
  PROVE  AccessInv'
<1>1. attempt' \in Tries /\ attempt' # 1 /\ attempt' \in Slots /\ attempt' >= 1
      /\ \A a \in Tries : a > attempt' => a > attempt
  <2>1. attempt' \in Tries /\ attempt' # 1 /\ attempt' \in Slots
    BY PageFacts, SlotFacts
  <2>2. \A a \in Tries : a > attempt' => a > attempt
    BY PageFacts, SlotFacts DEF Tries
  <2> QED
    BY <2>1, <2>2 DEF Tries
<1>2. req[attempt'] = Idle /\ req'[attempt'] = Idle
  <2>1. attempt' > attempt
    BY PageFacts
  <2>2. req[attempt'] = Idle
    BY <1>1, <2>1, PageFacts DEF Attempts
  <2> QED
    BY <1>1, <2>2
<1>3. Shapes'
  BY PageFacts, IdleFields, SlotFacts DEF Shapes
<1>4. Attempts'
  <2>1. \A a \in Tries : a > attempt' => req'[a] = Idle
    BY <1>1, PageFacts, SlotFacts DEF Attempts
  <2>2. \A a \in Tries : req'[a].then \notin {"saved", "again"}
    <3> SUFFICES ASSUME NEW a \in Tries, req'[a].then \in {"saved", "again"} PROVE FALSE
      OBVIOUS
    <3>1. req'[a] = req[a] /\ req'[a] # Idle
      BY IdleFields, SlotFacts
    <3>2. a = 1 /\ attempt = 1
      BY <3>1, PageFacts DEF Attempts
    <3> QED
      BY <3>1, <3>2
  <2>3. \A a \in Tries : req'[a].what = "api" => req'[a].then # "none"
    BY PageFacts, IdleFields, SlotFacts DEF Attempts
  <2> QED
    BY <1>1, <1>2, <2>1, <2>2, <2>3, IdleFields DEF Attempts
<1>5. StaysDisconnected' /\ SessionShown'
  BY Zenon DEF StaysDisconnected, SessionShown
<1> QED
  BY <1>3, <1>4, <1>5, PageStep DEF PageInv

\* The attempt under way ends, and the page has what it ends in.
LEMMA Settled ==
  ASSUME AccessInv, UNCHANGED <<now, server>>, PageTyped', UNCHANGED attempt,
         req' = [req EXCEPT ![attempt] = Idle], SessionShown', StaysDisconnected'
  PROVE  AccessInv'
<1>1. /\ req' \in [Slots -> ReqType] /\ req'[attempt] = Idle
      /\ \A q \in Slots : q # attempt => req'[q] = req[q]
  BY PageFacts, IdleFields, ReqAt
<1>3. Shapes'
  BY <1>1, PageFacts, IdleFields, SlotFacts DEF Shapes
<1>5. \A q \in Slots : req'[q] = req[q] \/ req'[q] = Idle
  BY <1>1
<1>6. Attempts'
  <2>1. \A a \in Tries : a > attempt' => req'[a] = Idle
    BY <1>5, PageFacts, SlotFacts DEF Attempts
  <2>2. \A a \in Tries : req'[a].then \in {"saved", "again"} => a = 1 /\ a = attempt'
    BY <1>5, PageFacts, IdleFields, SlotFacts DEF Attempts
  <2>3. \A a \in Tries : req'[a].what = "api" => req'[a].then # "none"
    BY <1>5, PageFacts, IdleFields, SlotFacts DEF Attempts
  <2>4. attempt' >= 1
    BY PageFacts DEF Attempts
  <2>5. req'[attempt'] = Idle
    BY <1>1
  <2> QED
    BY <2>1, <2>2, <2>3, <2>4, <2>5, IdleFields DEF Attempts
<1> QED
  BY <1>1, <1>3, <1>6, PageStep DEF PageInv

\* The attempt under way ends without a session.
LEMMA GivenUp ==
  ASSUME AccessInv, UNCHANGED <<now, server>>, PageTyped', UNCHANGED <<attempt, gone>>,
         req' = [req EXCEPT ![attempt] = Idle], ingressSession' = NoToken, GiveUp
  PROVE  AccessInv'
<1>1. StaysDisconnected' /\ SessionShown'
  BY Zenon DEF StaysDisconnected, SessionShown, GiveUp
<1> QED
  BY <1>1, Settled

\* The attempt of the page's load tries the key it finds saved.
LEMMA FallenBack ==
  ASSUME AccessInv, UNCHANGED <<now, server>>, PageTyped', UNCHANGED <<attempt, config, checking, gone>>,
         expiry' \in {expiry, NoToken}, attempt = 1, req[1] # Idle, NEW h \in {"saved", "again"},
         req' = [req EXCEPT ![1] = Request("api", saved, NoToken, h)], ingressSession' = NoToken
  PROVE  AccessInv'
<1>0. PICK k \in {"none", "good", "bad"} : k = saved
  BY PageFacts DEF PageTyped
<1>1. PICK r : r = Request("api", k, NoToken, h)
  OBVIOUS
<1>2. r \in ReqType /\ r.what = "api" /\ r.then = h /\ r # Idle /\ Shaped(r)
  <2>1. k \in {"none", "token", "good", "bad"} /\ h \in {"none", "config", "saved", "again"} /\ NoToken \in Times
    BY SlotFacts
  <2> QED
    BY <1>1, <2>1, RequestFields
<1>3. /\ req' \in [Slots -> ReqType] /\ req'[1] = r
      /\ \A q \in Slots : q # 1 => req'[q] = req[q]
  BY <1>0, <1>1, <1>2, PageFacts, ReqAt, SlotFacts
<1>4. Shapes'
  <2>1. \A q \in Slots : Shaped(req'[q])
    BY <1>2, <1>3, PageFacts DEF Shapes
  <2> QED
    BY <2>1, <1>3, PageFacts, SlotFacts DEF Shapes
<1>5. Attempts'
  <2>1. \A a \in Tries : a > attempt' => req'[a] = Idle
    BY <1>3, PageFacts, SlotFacts DEF Attempts
  <2>2. \A a \in Tries : req'[a].then \in {"saved", "again"} => a = 1 /\ a = attempt'
    BY <1>3, PageFacts, IdleFields, SlotFacts DEF Attempts
  <2>3. \A a \in Tries : req'[a].what = "api" => req'[a].then # "none"
    BY <1>2, <1>3, PageFacts, IdleFields, SlotFacts DEF Attempts
  <2>4. attempt' >= 1
    BY PageFacts DEF Attempts
  <2>5. checking' /\ ~gone'
    BY PageFacts, Zenon DEF Attempts
  <2>6. config' = "none" /\ expiry' = NoToken /\ req'[Login] = Idle /\ req'[Other] = Idle
    BY <1>3, PageFacts, SlotFacts DEF Attempts
  <2> QED
    BY <1>2, <1>3, <2>1, <2>2, <2>3, <2>4, <2>5, <2>6, Zenon DEF Attempts
<1>6. StaysDisconnected' /\ SessionShown'
  <2>1. ~gone' /\ config' = "none"
    BY PageFacts, Zenon DEF Attempts
  <2> QED
    BY <2>1, Zenon DEF StaysDisconnected, SessionShown
<1> QED
  BY <1>3, <1>4, <1>5, <1>6, PageStep DEF PageInv

LEMMA StartInv ==
  ASSUME AccessInv, Button \/ Timer
  PROVE  AccessInv'
<1>0. /\ UNCHANGED <<now, server>> /\ UNCHANGED <<ingressSession, config, expiry, known, saved>>
      /\ attempt < MaxAttempts /\ attempt' = attempt + 1 /\ checking' = TRUE /\ req' = Started(attempt + 1)
  BY DEF Button, Timer, Start
<1>1. gone' = FALSE /\ req[attempt] = Idle
  <2>1. CASE Button
    BY <2>1, PageFacts, Zenon DEF Button, Attempts
  <2>2. CASE Timer
    <3>1. ingressSession # NoToken /\ gone' = gone /\ req[attempt].stage = "idle"
      BY <2>2 DEF Timer
    <3>2. gone' = FALSE
      BY <3>1, PageFacts, Zenon DEF StaysDisconnected, PageTyped
    <3> QED
      BY <3>1, <3>2, PageFacts
  <2> QED
    BY <2>1, <2>2
<1>2. attempt' \in Tries /\ attempt' # 1 /\ attempt' \in Slots /\ attempt' > attempt /\ attempt' >= 1
      /\ \A a \in Tries : a > attempt' => a > attempt /\ a # attempt'
  <2>1. attempt' \in Tries /\ attempt' # 1 /\ attempt' \in Slots
    BY <1>0, PageFacts, SlotFacts
  <2>2. \A a \in Tries : a > attempt' => a > attempt /\ a # attempt'
    BY <1>0, PageFacts, SlotFacts DEF Tries
  <2> QED
    BY <1>0, <2>1, <2>2, PageFacts DEF Tries
<1>3. PICK r : r = Request("auth", "none", NoToken, "none")
  OBVIOUS
<1>4. r \in ReqType /\ r.what = "auth" /\ r.then = "none" /\ r # Idle /\ Shaped(r)
  <2>1. NoToken \in Times
    BY SlotFacts
  <2> QED
    BY <1>3, <2>1, RequestFields
<1>5. /\ req' \in [Slots -> ReqType] /\ req'[attempt'] = r
      /\ \A q \in Slots : q # attempt' => req'[q] = req[q]
  BY <1>0, <1>2, <1>3, <1>4, PageFacts, ReqAt DEF Started
<1>6. Shapes'
  <2>1. \A q \in Slots : Shaped(req'[q])
    BY <1>4, <1>5, PageFacts DEF Shapes
  <2> QED
    BY <2>1, <1>2, <1>5, PageFacts, SlotFacts DEF Shapes
<1>7. Attempts'
  <2>1. \A a \in Tries : a > attempt' => req'[a] = Idle
    BY <1>2, <1>5, PageFacts, SlotFacts DEF Attempts
  <2>2. \A a \in Tries : req'[a].then \notin {"saved", "again"}
    <3> SUFFICES ASSUME NEW a \in Tries, req'[a].then \in {"saved", "again"} PROVE FALSE
      OBVIOUS
    <3>1. a # attempt' /\ req'[a] = req[a]
      BY <1>4, <1>5, SlotFacts
    <3>2. a = attempt
      BY <3>1, PageFacts DEF Attempts
    <3> QED
      BY <1>1, <3>1, <3>2, IdleFields
  <2>3. \A a \in Tries : req'[a].what = "api" => req'[a].then # "none"
    BY <1>4, <1>5, PageFacts, SlotFacts DEF Attempts
  <2>5. checking' /\ ~gone'
    BY <1>0, <1>1, Zenon
  <2> QED
    BY <1>2, <1>4, <1>5, <2>1, <2>2, <2>3, <2>5, Zenon DEF Attempts
<1>8. StaysDisconnected' /\ SessionShown'
  <2>1. ingressSession # NoToken => config = "ingress"
    BY <1>1, IdleFields, PageFacts DEF SessionShown
  <2> QED
    BY <1>0, <1>1, <2>1, PageFacts, Zenon DEF StaysDisconnected, SessionShown
<1>9. PageTyped'
  <2>1. attempt' \in 0..MaxAttempts
    BY <1>2, Bounds DEF Tries
  <2> QED
    BY <1>0, <1>1, <2>1, PageFacts, Zenon DEF PageTyped
<1> QED
  BY <1>0, <1>5, <1>6, <1>7, <1>8, <1>9, PageStep DEF PageInv

\* A call, and a key typed into the form, are requests beside the attempts.
LEMMA AskedBeside ==
  ASSUME AccessInv, UNCHANGED <<now, server>>, UNCHANGED page, NEW s \in {Other, Login},
         NEW r \in ReqType, Shaped(r), r.then = "none",
         s = Login => r.cred # "token", req' = [req EXCEPT ![s] = r],
         attempt = 1 /\ req[1] # Idle => FALSE
  PROVE  AccessInv'
<1>0. UNCHANGED <<attempt, ingressSession, config, expiry, known, checking, saved, gone>>
  BY DEF page
<1>1. s \in Slots /\ s \notin Tries /\ s # 1 /\ s # attempt
  BY SlotFacts, PageFacts
<1>2. /\ req' \in [Slots -> ReqType] /\ req'[s] = r
      /\ \A q \in Slots : q # s => req'[q] = req[q]
  BY <1>1, PageFacts, ReqAt
<1>3. PageTyped'
  BY <1>0, PageFacts, Zenon DEF PageTyped
<1>4. Shapes'
  <2>1. \A q \in Slots : Shaped(req'[q])
    BY <1>2, PageFacts DEF Shapes
  <2> QED
    BY <2>1, <1>2, PageFacts, SlotFacts DEF Shapes
<1>5. \A a \in Tries : req'[a] = req[a]
  BY <1>1, <1>2, SlotFacts
<1>6. Attempts'
  BY <1>0, <1>5, PageFacts, SlotFacts DEF Attempts
<1>7. StaysDisconnected' /\ SessionShown'
  BY <1>0, <1>5, PageFacts, Zenon DEF StaysDisconnected, SessionShown
<1> QED
  BY <1>2, <1>3, <1>4, <1>6, <1>7, PageStep DEF PageInv

LEMMA AskInv ==
  ASSUME AccessInv, Call \/ Submit
  PROVE  AccessInv'
<1>1. CASE Call
  <2>0. config # "none" /\ UNCHANGED <<now, server>> /\ UNCHANGED page
    BY <1>1 DEF Call
  <2>1. ~(attempt = 1 /\ req[1] # Idle)
    BY <2>0, PageFacts, Zenon DEF Attempts
  <2>2. PICK k \in {"none", "token", "good", "bad"} : \E t \in Times :
          req' = [req EXCEPT ![Other] = Request("api", k, t, "none")]
    <3>1. ingressSession \in Times /\ NoToken \in Times /\ saved \in {"none", "token", "good", "bad"}
      BY PageFacts, SlotFacts DEF PageTyped
    <3>2. CASE ingressSession # NoToken
      <4>1. req' = [req EXCEPT ![Other] = Request("api", "token", ingressSession, "none")]
        BY <1>1, <3>2 DEF Call
      <4> QED
        BY <3>1, <4>1
    <3>3. CASE ingressSession = NoToken
      <4>1. req' = [req EXCEPT ![Other] = Request("api", saved, NoToken, "none")]
        BY <1>1, <3>3 DEF Call
      <4> QED
        BY <3>1, <4>1
    <3> QED
      BY <3>2, <3>3
  <2>3. PICK t \in Times : req' = [req EXCEPT ![Other] = Request("api", k, t, "none")]
    BY <2>2
  <2>4. PICK r : r = Request("api", k, t, "none")
    OBVIOUS
  <2>5. r \in ReqType /\ Shaped(r) /\ r.then = "none"
    BY <2>4, RequestFields
  <2> QED
    BY <2>0, <2>1, <2>3, <2>4, <2>5, SlotFacts, AskedBeside
<1>2. CASE Submit
  <2>0. config = "none" /\ ~checking /\ UNCHANGED <<now, server>> /\ UNCHANGED page
        /\ req' = [req EXCEPT ![Login] = Request("api", "good", NoToken, "none")]
    BY <1>2 DEF Submit
  <2>1. req[attempt] = Idle
    BY <2>0, PageFacts, Zenon DEF Attempts
  <2>2. ~(attempt = 1 /\ req[1] # Idle)
    BY <2>1
  <2>4. PICK r : r = Request("api", "good", NoToken, "none")
    OBVIOUS
  <2>5. r \in ReqType /\ Shaped(r) /\ r.then = "none" /\ r.cred # "token"
    <3>1. NoToken \in Times /\ "good" \in {"none", "token", "good", "bad"}
      BY SlotFacts
    <3> QED
      BY <2>4, <3>1, RequestFields
  <2> QED
    BY <2>0, <2>2, <2>4, <2>5, AskedBeside
<1> QED
  BY <1>1, <1>2

\* handleAuthFailed, with the request that brought it about or without one.
LEMMA AuthFailedInv ==
  ASSUME AccessInv, UNCHANGED <<now, server>>, NEW id, AuthFailed(id),
         req' \in [Slots -> ReqType], \A q \in Slots : req'[q] = req[q] \/ req'[q] = Idle,
         attempt = 1 => req'[1] = Idle
  PROVE  AccessInv'
<1>1. /\ attempt < MaxAttempts /\ attempt' = attempt + 1 /\ ingressSession' = NoToken /\ expiry' = NoToken
      /\ config' = "none" /\ checking' = FALSE /\ saved' \in {saved, "none"} /\ UNCHANGED <<known, gone>>
  BY DEF AuthFailed
<1>2. attempt' \in 0..MaxAttempts
  BY <1>1, PageFacts, Bounds
<1>3. PageTyped'
  <2>1. saved' \in {"none", "good", "bad"} /\ NoToken \in Times
    BY <1>1, PageFacts, SlotFacts, Zenon DEF PageTyped
  <2> QED
    BY <1>1, <1>2, <2>1, PageFacts, Zenon DEF PageTyped
<1> QED
  BY <1>1, <1>3, CalledOff

LEMMA CallEndsInv ==
  ASSUME AccessInv, CallEnds
  PROVE  AccessInv'
<1>0. /\ UNCHANGED <<now, server>> /\ req' = [req EXCEPT ![Other] = Idle] /\ req[Other].stage # "idle"
      /\ Other \in Slots /\ Other # attempt /\ Other # 1
  BY PageFacts, SlotFacts DEF CallEnds
<1>1. CASE UNCHANGED page
  BY <1>0, <1>1, DropFormer
<1>2. CASE AuthFailed(FALSE)
  <2>1. req[Other] # Idle
    BY <1>0, IdleFields
  <2>2. /\ req' \in [Slots -> ReqType] /\ req'[Other] = Idle
        /\ \A q \in Slots : q # Other => req'[q] = req[q]
    BY <1>0, PageFacts, IdleFields, ReqAt
  <2>3. attempt = 1 => req'[1] = Idle
    BY <1>0, <2>1, <2>2, PageFacts, SlotFacts DEF Attempts
  <2>4. PICK id : id = FALSE
    OBVIOUS
  <2>5. AuthFailed(id)
    BY <1>2, <2>4
  <2>6. \A q \in Slots : req'[q] = req[q] \/ req'[q] = Idle
    BY <2>2
  <2> QED
    BY <1>0, <2>2, <2>3, <2>5, <2>6, AuthFailedInv
<1> QED
  BY <1>1, <1>2 DEF CallEnds

LEMMA SignalingRejectedInv ==
  ASSUME AccessInv, SignalingRejected
  PROVE  AccessInv'
<1>1. PICK id : id = (ingressSession # NoToken)
  OBVIOUS
<1>2. AuthFailed(id) /\ UNCHANGED <<now, server, req>> /\ config # "none"
  BY <1>1 DEF SignalingRejected
<1>3. attempt = 1 => req'[1] = Idle
  BY <1>2, PageFacts DEF Attempts
<1>4. req' \in [Slots -> ReqType] /\ \A q \in Slots : req'[q] = req[q] \/ req'[q] = Idle
  BY <1>2, PageFacts
<1> QED
  BY <1>2, <1>3, <1>4, AuthFailedInv

LEMMA LogoutInv ==
  ASSUME AccessInv, Logout
  PROVE  AccessInv'
<1>1. /\ config # "none" /\ attempt < MaxAttempts /\ attempt' = attempt + 1
      /\ saved' = "none" /\ ingressSession' = NoToken /\ known' = FALSE
      /\ config' = "none" /\ expiry' = NoToken /\ checking' = FALSE /\ gone' = TRUE
      /\ UNCHANGED <<now, server>> /\ req' = req
  BY DEF Logout
<1>2. attempt' \in 0..MaxAttempts /\ NoToken \in Times
  BY <1>1, PageFacts, Bounds, SlotFacts
<1>3. PageTyped'
  BY <1>1, <1>2, Zenon DEF PageTyped
<1>4. attempt = 1 => req'[1] = Idle
  BY <1>1, PageFacts DEF Attempts
<1>5. req' \in [Slots -> ReqType] /\ \A q \in Slots : req'[q] = req[q] \/ req'[q] = Idle
  BY <1>1, PageFacts
<1> QED
  BY <1>1, <1>3, <1>4, <1>5, CalledOff

LEMMA SubmitEndsInv ==
  ASSUME AccessInv, SubmitEnds
  PROVE  AccessInv'
<1>0. /\ UNCHANGED <<now, server>> /\ req' = [req EXCEPT ![Login] = Idle] /\ req[Login].stage # "idle"
      /\ Login \in Slots /\ Login # attempt /\ Login # 1
  BY PageFacts, SlotFacts DEF SubmitEnds
<1>1. CASE req[Login].stage # "ok"
  BY <1>0, <1>1, DropFormer DEF SubmitEnds
<1>2. CASE req[Login].stage = "ok"
  <2>0. /\ attempt < MaxAttempts /\ attempt' = attempt + 1 /\ ingressSession' = NoToken /\ known' = FALSE
        /\ saved' = req[Login].cred /\ config' = "manual" /\ expiry' = NoToken /\ gone' = FALSE /\ checking' = checking
    BY <1>2 DEF SubmitEnds
  <2>1. req[Login] # Idle
    BY <1>0, IdleFields
  <2>2. /\ req' \in [Slots -> ReqType] /\ req'[Login] = Idle
        /\ \A q \in Slots : q # Login => req'[q] = req[q]
    BY <1>0, PageFacts, IdleFields, ReqAt
  <2>3. attempt = 1 => req'[1] = Idle
    BY <1>0, <2>1, <2>2, PageFacts, SlotFacts DEF Attempts
  <2>4. attempt' \in 0..MaxAttempts /\ NoToken \in Times
    BY <2>0, PageFacts, Bounds, SlotFacts
  <2>5. saved' \in {"none", "good", "bad"}
    <3>1. req[Login] \in ReqType /\ req[Login].cred # "token"
      BY <1>0, PageFacts DEF Shapes
    <3> QED
      BY <2>0, <3>1 DEF ReqType
  <2>6. PageTyped'
    BY <2>0, <2>4, <2>5, PageFacts, Zenon DEF PageTyped
  <2>7. config' # "ingress" /\ ~gone'
    BY <2>0
  <2>8. \A q \in Slots : req'[q] = req[q] \/ req'[q] = Idle
    BY <2>2
  <2> QED
    BY <1>0, <2>0, <2>2, <2>3, <2>6, <2>7, <2>8, CalledOff
<1> QED
  BY <1>1, <1>2

LEMMA CaughtInv ==
  ASSUME AccessInv, UNCHANGED <<now, server>>, NEW a \in Tries, req[a] # Idle, Caught(a)
  PROVE  AccessInv'
<1>0. a \in Slots /\ UNCHANGED <<attempt, known, saved, gone>>
  BY SlotFacts DEF Caught
<1>1. CASE ~Current(a)
  <2>1. UNCHANGED page /\ req' = [req EXCEPT ![a] = Idle] /\ a # attempt
    BY <1>0, <1>1 DEF Caught, Current, page
  <2> QED
    BY <1>0, <2>1, DropFormer
<1>2. CASE Current(a) /\ Fallback(a)
  <2>1. /\ a = attempt /\ a = 1 /\ saved # "none" /\ ingressSession' = NoToken
        /\ req' = [req EXCEPT ![1] = Request("api", saved, NoToken, "again")] /\ UNCHANGED <<config, expiry, checking>>
    BY <1>2 DEF Caught, Current, Fallback
  <2>2. PageTyped'
    <3>1. NoToken \in Times
      BY SlotFacts
    <3> QED
      BY <1>0, <2>1, <3>1, PageFacts, Zenon DEF PageTyped
  <2>3. PICK h \in {"saved", "again"} : h = "again"
    OBVIOUS
  <2>4. req' = [req EXCEPT ![1] = Request("api", saved, NoToken, h)]
    BY <2>1, <2>3
  <2> QED
    BY <1>0, <2>1, <2>2, <2>4, FallenBack
<1>3. CASE Current(a) /\ ~Fallback(a)
  <2>1. /\ a = attempt /\ ingressSession' = NoToken /\ req' = [req EXCEPT ![attempt] = Idle]
        /\ GiveUp
    BY <1>3 DEF Caught, Current
  <2>2. PageTyped'
    <3>1. NoToken \in Times
      BY SlotFacts
    <3> QED
      BY <1>0, <2>1, <3>1, PageFacts, Zenon DEF PageTyped, GiveUp
  <2> QED
    BY <1>0, <2>1, <2>2, GivenUp
<1> QED
  BY <1>1, <1>2, <1>3

LEMMA HandleAuthInv ==
  ASSUME AccessInv, NEW a \in Tries, HandleAuth(a)
  PROVE  AccessInv'
<1>0. /\ UNCHANGED <<now, server>> /\ a \in Slots /\ req[a].what = "auth" /\ req[a].stage \in {"ok", "denied", "error"}
      /\ req[a] # Idle /\ req[a] \in ReqType /\ Shaped(req[a])
  BY SlotFacts, PageFacts, IdleFields DEF HandleAuth, Shapes
<1>1. CASE Caught(a)
  BY <1>0, <1>1, CaughtInv
<1>2. CASE a # attempt /\ req' = [req EXCEPT ![a] = Idle] /\ UNCHANGED page
  BY <1>0, <1>2, DropFormer
<1>3. CASE /\ req[a].stage = "ok" /\ a = attempt /\ ingressSession' = req[a].token
           /\ req' = [req EXCEPT ![a] = Request("api", "token", req[a].token, "config")]
           /\ UNCHANGED <<attempt, config, expiry, known, checking, saved, gone>>
  <2>1. PICK t \in Times : t = req[a].token
    BY <1>0 DEF ReqType
  <2>2. PICK r : r = Request("api", "token", t, "config")
    OBVIOUS
  <2>3. t # NoToken
    BY <1>0, <1>3, <2>1 DEF Shaped
  <2>4. r \in ReqType /\ r.what = "api" /\ r.then = "config" /\ r.token = t /\ r # Idle /\ Shaped(r)
    BY <2>2, RequestFields
  <2>5. /\ req' \in [Slots -> ReqType] /\ req'[a] = r
        /\ \A q \in Slots : q # a => req'[q] = req[q]
    BY <1>0, <1>3, <2>1, <2>2, <2>4, PageFacts, ReqAt
  <2>6. PageTyped'
    BY <1>3, <2>1, PageFacts, Zenon DEF PageTyped
  <2>7. Shapes'
    <3>1. \A q \in Slots : Shaped(req'[q])
      BY <2>4, <2>5, PageFacts DEF Shapes
    <3> QED
      BY <3>1, <2>5, PageFacts, SlotFacts DEF Shapes
  <2>8. checking' /\ ~gone'
    BY <1>0, <1>3, PageFacts, Zenon DEF Attempts
  <2>9. Attempts'
    <3>1. \A q \in Tries : q > attempt' => req'[q] = Idle
      BY <1>0, <1>3, <2>5, PageFacts, SlotFacts DEF Attempts
    <3>2. \A q \in Tries : req'[q].then \in {"saved", "again"} => q = 1 /\ q = attempt'
      BY <1>3, <2>4, <2>5, PageFacts, SlotFacts DEF Attempts
    <3>3. \A q \in Tries : req'[q].what = "api" => req'[q].then # "none"
      BY <2>4, <2>5, PageFacts, SlotFacts DEF Attempts
    <3>4. attempt' >= 1 /\ req'[attempt'] = r /\ ingressSession' = t
      BY <1>3, <2>1, <2>5, PageFacts DEF Attempts
    <3>5. attempt' = 1 => config' = "none" /\ expiry' = NoToken /\ req'[Login] = Idle /\ req'[Other] = Idle
      BY <1>0, <1>3, <2>5, PageFacts, SlotFacts DEF Attempts
    <3> QED
      BY <2>3, <2>4, <2>8, <3>1, <3>2, <3>3, <3>4, <3>5, Zenon DEF Attempts
  <2>10. StaysDisconnected' /\ SessionShown'
    <3>1. req'[attempt'].then = "config" /\ ingressSession' # NoToken
      BY <1>3, <2>1, <2>3, <2>4, <2>5
    <3> QED
      BY <2>8, <3>1, Zenon DEF StaysDisconnected, SessionShown
  <2> QED
    BY <1>0, <2>5, <2>6, <2>7, <2>9, <2>10, PageStep DEF PageInv
<1>4. CASE /\ a = attempt /\ ingressSession' = NoToken /\ Fallback(a) /\ expiry' = NoToken
           /\ UNCHANGED <<config, checking>> /\ UNCHANGED <<attempt, known, saved, gone>>
           /\ req' = [req EXCEPT ![a] = Request("api", saved, NoToken, "saved")]
  <2>1. PageTyped'
    <3>1. NoToken \in Times
      BY SlotFacts
    <3> QED
      BY <1>4, <3>1, PageFacts, Zenon DEF PageTyped
  <2>2. a = 1
    BY <1>4 DEF Fallback
  <2>3. PICK h \in {"saved", "again"} : h = "saved"
    OBVIOUS
  <2>4. req' = [req EXCEPT ![1] = Request("api", saved, NoToken, h)]
    BY <1>4, <2>2, <2>3
  <2> QED
    BY <1>0, <1>4, <2>1, <2>2, <2>4, FallenBack
<1>5. CASE /\ a = attempt /\ ingressSession' = NoToken /\ GiveUp
           /\ UNCHANGED <<attempt, known, saved, gone>> /\ req' = [req EXCEPT ![a] = Idle]
  <2>1. PageTyped'
    <3>1. NoToken \in Times
      BY SlotFacts
    <3> QED
      BY <1>5, <3>1, PageFacts, Zenon DEF PageTyped, GiveUp
  <2> QED
    BY <1>0, <1>5, <2>1, GivenUp
<1> QED
  BY <1>0, <1>1, <1>2, <1>3, <1>4, <1>5 DEF HandleAuth, Current

LEMMA HandleConfigInv ==
  ASSUME AccessInv, NEW a \in Tries, HandleConfig(a)
  PROVE  AccessInv'
<1>0. /\ UNCHANGED <<now, server>> /\ a \in Slots /\ req[a].what = "api" /\ req[a].stage \in {"ok", "denied", "error"}
      /\ req[a] # Idle /\ req[a] \in ReqType /\ Shaped(req[a])
  BY SlotFacts, PageFacts, IdleFields DEF HandleConfig, Shapes
<1>c. req[a].then \in {"config", "saved", "again"} /\ (req[a].then # "config" => a = 1 /\ a = attempt)
  BY <1>0, PageFacts DEF Attempts, ReqType
<1>d. ASSUME req' = [req EXCEPT ![a] = Idle]
      PROVE  /\ req' \in [Slots -> ReqType] /\ req'[a] = Idle
             /\ \A q \in Slots : q # a => req'[q] = req[q]
             /\ \A q \in Slots : req'[q] = req[q] \/ req'[q] = Idle
  BY <1>0, <1>d, PageFacts, IdleFields, ReqAt
<1>1. CASE a # attempt /\ req' = [req EXCEPT ![a] = Idle] /\ UNCHANGED page
  BY <1>0, <1>1, DropFormer
<1>2. CASE /\ a = attempt /\ req[a].then = "config"
           /\ config' = "ingress" /\ expiry' = req[a].token /\ known' = TRUE /\ checking' = FALSE
           /\ req' = [req EXCEPT ![a] = Idle] /\ UNCHANGED <<attempt, ingressSession, saved, gone>>
  <2>1. ingressSession # NoToken /\ gone' = FALSE
    BY <1>0, <1>2, PageFacts, Zenon DEF Attempts, PageTyped
  <2>2. PageTyped'
    <3>1. req[a].token \in Times
      BY <1>0 DEF ReqType
    <3> QED
      BY <1>2, <3>1, PageFacts, Zenon DEF PageTyped
  <2>3. SessionShown' /\ StaysDisconnected'
    BY <1>2, <2>1, Zenon DEF SessionShown, StaysDisconnected
  <2> QED
    BY <1>0, <1>2, <1>d, <2>2, <2>3, Settled
<1>3. CASE /\ a = attempt /\ req[a].then # "config" /\ config' = "manual" /\ checking' = FALSE
           /\ req' = [req EXCEPT ![a] = Idle] /\ UNCHANGED <<attempt, ingressSession, expiry, known, saved, gone>>
  <2>1. ingressSession = NoToken /\ gone' = FALSE
    BY <1>0, <1>c, <1>3, PageFacts, Zenon DEF Attempts, PageTyped
  <2>2. PageTyped'
    BY <1>3, PageFacts, Zenon DEF PageTyped
  <2>3. SessionShown' /\ StaysDisconnected'
    BY <1>3, <2>1, Zenon DEF SessionShown, StaysDisconnected
  <2> QED
    BY <1>0, <1>3, <1>d, <2>2, <2>3, Settled
<1>4. CASE AuthFailed(FALSE) /\ req' = [req EXCEPT ![a] = Idle]
  <2>1. PICK id : id = FALSE
    OBVIOUS
  <2>2. AuthFailed(id)
    BY <1>4, <2>1
  <2>3. attempt = 1 => a = 1
    BY <1>0, PageFacts, SlotFacts DEF Attempts, Tries
  <2> QED
    BY <1>0, <1>4, <1>d, <2>2, <2>3, AuthFailedInv
<1>5. CASE Caught(a)
  BY <1>0, <1>5, CaughtInv
<1>6. CASE /\ req[a].then = "again" /\ saved' = "none" /\ config' = "none" /\ expiry' = NoToken
           /\ checking' = (IF Current(a) THEN FALSE ELSE checking)
           /\ req' = [req EXCEPT ![a] = Idle] /\ UNCHANGED <<attempt, ingressSession, known, gone>>
  <2>1. a = attempt /\ ingressSession = NoToken /\ checking' = FALSE
    BY <1>c, <1>6, PageFacts DEF Attempts, Current
  <2>2. GiveUp
    BY <1>6, <2>1 DEF GiveUp
  <2>3. PageTyped'
    <3>1. NoToken \in Times
      BY SlotFacts
    <3> QED
      BY <1>6, <2>1, <3>1, PageFacts, Zenon DEF PageTyped
  <2>4. ingressSession' = NoToken /\ req' = [req EXCEPT ![attempt] = Idle] /\ UNCHANGED <<attempt, gone>>
    BY <1>6, <2>1
  <2> QED
    BY <1>0, <2>2, <2>3, <2>4, GivenUp
<1> QED
  BY <1>0, <1>1, <1>2, <1>3, <1>4, <1>5, <1>6 DEF HandleConfig, Current

-----------------------------------------------------------------------------
LEMMA InitAccess == IngressInit => AccessInv
<1> SUFFICES ASSUME IngressInit PROVE AccessInv
  OBVIOUS
<1>1. PICK r : r = Request("auth", "none", NoToken, "none")
  OBVIOUS
<1>2. r \in ReqType /\ r.what = "auth" /\ r.then = "none" /\ r.cred = "none" /\ r # Idle /\ Shaped(r)
  <2>1. NoToken \in Times
    BY SlotFacts
  <2> QED
    BY <1>1, <2>1, RequestFields
<1>3. /\ req \in [Slots -> ReqType] /\ req[1] = r /\ \A s \in Slots : s # 1 => req[s] = Idle
  <2>1. req = [s \in Slots |-> IF s = 1 THEN r ELSE Idle]
    BY <1>1 DEF IngressInit
  <2> QED
    BY <1>2, <2>1, IdleFields, SlotFacts
<1>4. /\ attempt = 1 /\ ingressSession = NoToken /\ config = "none" /\ expiry = NoToken /\ checking = TRUE /\ gone = FALSE
      /\ now = 0 /\ expires = 0 /\ lastAdmin = 0 /\ ids = FALSE /\ lookup = NoLookup /\ changes = 0 /\ known = FALSE
      /\ admin \in BOOLEAN /\ saved \in {"none", "good", "bad"}
  BY DEF IngressInit
<1>5. IngressTypeOK
  <2>1. 0 \in Times /\ NoToken \in Times /\ 0 \in 0..MaxNow /\ 0 \in 0..MaxChanges /\ 1 \in 0..MaxAttempts
    BY Bounds, SlotFacts DEF Times
  <2>2. NoLookup \in [since : Times, value : {"none", "asked", "yes", "no"}]
    BY <2>1 DEF NoLookup
  <2>3. Typed
    BY <1>3, <1>4, <2>1, <2>2, Zenon DEF Typed
  <2> QED
    BY <2>3, Types
<1>6. Shapes
  <2>1. \A s \in Slots : Shaped(req[s])
    BY <1>2, <1>3, IdleFields
  <2> QED
    BY <2>1, <1>3, IdleFields, SlotFacts DEF Shapes
<1>7. Attempts
  <2>1. \A a \in Tries : a > attempt => req[a] = Idle
    BY <1>3, <1>4, SlotFacts
  <2>2. \A a \in Tries : req[a].then \in {"saved", "again"} => a = 1 /\ a = attempt
    BY <1>2, <1>3, IdleFields, SlotFacts
  <2>3. \A a \in Tries : req[a].what = "api" => req[a].then # "none"
    BY <1>2, <1>3, IdleFields, SlotFacts
  <2>4. attempt >= 1 /\ req[attempt] = r /\ req[Login] = Idle /\ req[Other] = Idle
    BY <1>3, <1>4, SlotFacts
  <2> QED
    BY <1>2, <1>4, <2>1, <2>2, <2>3, <2>4, Zenon DEF Attempts
<1>8. StaysDisconnected /\ SessionShown
  BY <1>4 DEF StaysDisconnected, SessionShown
<1>9. Grants
  <2>1. NoLookup.value = "none"
    BY DEF NoLookup
  <2> QED
    BY <1>4, <2>1 DEF Grants
<1> QED
  BY <1>5, <1>6, <1>7, <1>8, <1>9 DEF AccessInv, PageInv

LEMMA StutterAccess ==
  ASSUME AccessInv, UNCHANGED ivars
  PROVE  AccessInv'
<1>1. /\ UNCHANGED <<now, server>> /\ UNCHANGED req
      /\ UNCHANGED <<attempt, ingressSession, config, expiry, known, checking, saved, gone>> /\ UNCHANGED page
  BY DEF ivars, page
<1>2. PageTyped' /\ req' \in [Slots -> ReqType]
  BY <1>1, PageFacts, Zenon DEF PageTyped
<1>3. PageInv'
  BY <1>1, PageFacts, ServerKeepsPage DEF Moves, AccessInv
<1> QED
  BY <1>1, <1>2, <1>3, PageStep

LEMMA NextAccess ==
  ASSUME AccessInv, [IngressNext]_ivars
  PROVE  AccessInv'
<1>1. CASE RoleChanges \/ Tick \/ DirectoryRead
  BY <1>1, WorldInv
<1>2. CASE \E ok \in BOOLEAN : LookupEnds(ok)
  BY <1>2, LookupEndsInv
<1>3. CASE \E s \in Slots : Receive(s) \/ RequestLost(s)
  BY <1>3, ReceiveInv, RequestLostInv
<1>4. CASE \E a \in Tries : HandleAuth(a) \/ HandleConfig(a)
  BY <1>4, HandleAuthInv, HandleConfigInv
<1>5. CASE Button \/ Timer
  BY <1>5, StartInv
<1>6. CASE Call \/ Submit
  BY <1>6, AskInv
<1>7. CASE CallEnds
  BY <1>7, CallEndsInv
<1>8. CASE SignalingRejected
  BY <1>8, SignalingRejectedInv
<1>9. CASE Logout
  BY <1>9, LogoutInv
<1>10. CASE SubmitEnds
  BY <1>10, SubmitEndsInv
<1>11. CASE UNCHANGED ivars
  BY <1>11, StutterAccess
<1> QED
  BY <1>1, <1>2, <1>3, <1>4, <1>5, <1>6, <1>7, <1>8, <1>9, <1>10, <1>11 DEF IngressNext, Tries

\* The page and the server keep what they are to keep: each slot has a request of
\* its shape, only the current attempt can still change the page, and what is
\* granted from was read while the role was held.
THEOREM AccessInvariant == IngressSpec => []AccessInv
<1>1. IngressInit => AccessInv
  BY InitAccess
<1>2. AccessInv /\ [IngressNext]_ivars => AccessInv'
  BY NextAccess
<1> QED
  BY <1>1, <1>2, PTL DEF IngressSpec

\* A view through Home Assistant has its session, a session its view or the
\* attempt that is about to open it, and Disconnect ends both.
THEOREM SessionIsTrue == IngressSpec => []SessionTrue
<1>1. AccessInv => SessionTrue
  BY DEF AccessInv, PageInv, SessionTrue
<1> QED
  BY <1>1, AccessInvariant, PTL

-----------------------------------------------------------------------------
\* What GrantFresh says of one slot.
Fresh(s) == (req[s].stage \in {"sent", "waiting"} /\ req'[s].stage = "ok" /\ req[s].cred # "good")
              => admin \/ lastAdmin + CacheTtl + LookupTtl >= now

LEMMA ReceiveFresh ==
  ASSUME AccessInv, NEW q \in Slots, Receive(q), NEW s \in Slots
  PROVE  Fresh(s)
<1> SUFFICES ASSUME req[s].stage \in {"sent", "waiting"}, req'[s].stage = "ok", req[s].cred # "good"
             PROVE  lastAdmin + CacheTtl + LookupTtl >= now
  BY DEF Fresh
<1>0. /\ IngressTypeOK /\ Grants /\ req \in [Slots -> ReqType] /\ ids \in BOOLEAN
      /\ now \in Nat /\ lastAdmin \in Nat /\ expires \in Nat
  <2>1. Typed /\ IngressTypeOK /\ Grants
    BY Types DEF AccessInv
  <2>2. now \in Nat /\ lastAdmin \in Nat /\ expires \in Nat
    BY <2>1, Bounds DEF Typed, Times
  <2> QED
    BY <2>1, <2>2 DEF Typed
<1>1. CASE now >= expires
  <2>1. req' = [req EXCEPT ![q] = [req[q] EXCEPT !.stage = "waiting"]]
    BY <1>0, <1>1 DEF Receive
  <2>2. req[q] \in ReqType
    BY <1>0
  <2>3. [req[q] EXCEPT !.stage = "waiting"].stage = "waiting"
    BY <2>2 DEF ReqType
  <2> QED
    BY <1>0, <2>1, <2>3
<1>2. CASE ~(now >= expires)
  <2>1. req' = [req EXCEPT ![q] = Verdict(req[q], ids)]
    BY <1>2 DEF Receive
  <2>2. s = q /\ req'[s] = Verdict(req[s], ids)
    BY <1>0, <2>1
  <2>3. ids
    BY <1>0, <2>2, VerdictMoves
  <2>4. now < expires
    BY <1>0, <1>2
  <2>5. expires <= lastAdmin + LookupTtl + CacheTtl
    BY <1>0, <2>3, <2>4 DEF Grants
  <2>6. \A n, e, l, t, c \in Nat : n < e /\ e <= l + t + c => l + c + t >= n
    OBVIOUS
  <2> QED
    BY <1>0, <2>4, <2>5, <2>6, Bounds, Zenon
<1> QED
  BY <1>1, <1>2

LEMMA LookupEndsFresh ==
  ASSUME AccessInv, NEW ok \in BOOLEAN, LookupEnds(ok), NEW s \in Slots
  PROVE  Fresh(s)
<1> SUFFICES ASSUME req[s].stage \in {"sent", "waiting"}, req'[s].stage = "ok", req[s].cred # "good"
             PROVE  lastAdmin + CacheTtl + LookupTtl >= now
  BY DEF Fresh
<1>1. /\ ids' = (ok /\ lookup.value = "yes")
      /\ req' = [q \in Slots |-> IF req[q].stage = "waiting" THEN Verdict(req[q], ids') ELSE req[q]]
  BY DEF LookupEnds, GrantLoaded
<1>2. PICK g \in BOOLEAN : g = ids'
  BY <1>1
<1>3. req'[s] = Verdict(req[s], g)
  BY <1>1, <1>2
<1>4. g
  BY <1>3, VerdictMoves, PageFacts
<1> QED
  BY <1>2, <1>4, LookupEndsInv

LEMMA PageFresh ==
  ASSUME AccessInv, NEW s \in Slots,
         \/ RoleChanges \/ Tick \/ DirectoryRead \/ (\E q \in Slots : RequestLost(q))
         \/ Button \/ Timer \/ Call \/ CallEnds \/ SignalingRejected \/ Logout \/ Submit \/ SubmitEnds
         \/ (\E a \in Tries : HandleAuth(a) \/ HandleConfig(a))
         \/ UNCHANGED ivars
  PROVE  Fresh(s)
<1>1. \A w, k, t, h : Request(w, k, t, h).stage # "ok"
  BY DEF Request
<1>2. Idle.stage # "ok"
  BY IdleFields
<1>3. \A q \in Slots : [req[q] EXCEPT !.stage = "error"].stage # "ok"
  BY PageFacts DEF ReqType
<1>4. \/ req' = req
      \/ \E p \in Slots : \E r : r.stage # "ok" /\ req' = [req EXCEPT ![p] = r]
  <2>1. CASE RoleChanges \/ Tick \/ DirectoryRead \/ SignalingRejected \/ Logout \/ UNCHANGED ivars
    BY <2>1 DEF RoleChanges, Tick, DirectoryRead, SignalingRejected, Logout, ivars
  <2>2. CASE \E q \in Slots : RequestLost(q)
    BY <2>2, <1>3 DEF RequestLost
  <2>3. CASE Button \/ Timer
    <3>1. req' = Started(attempt + 1) /\ attempt + 1 \in Slots
      BY <2>3, PageFacts, SlotFacts DEF Button, Timer, Start
    <3> QED
      BY <3>1, <1>1 DEF Started
  <2>4. CASE Call
    BY <2>4, <1>1, SlotFacts DEF Call
  <2>5. CASE CallEnds \/ Submit \/ SubmitEnds
    BY <2>5, <1>1, <1>2, SlotFacts DEF CallEnds, Submit, SubmitEnds
  <2>6. ASSUME NEW a \in Tries, Caught(a)
        PROVE  \E p \in Slots : \E r : r.stage # "ok" /\ req' = [req EXCEPT ![p] = r]
    BY <2>6, <1>1, <1>2, SlotFacts DEF Caught
  <2>7. ASSUME NEW a \in Tries, HandleAuth(a)
        PROVE  \E p \in Slots : \E r : r.stage # "ok" /\ req' = [req EXCEPT ![p] = r]
    <3>1. \/ Caught(a)
          \/ req' = [req EXCEPT ![a] = Idle]
          \/ req' = [req EXCEPT ![a] = Request("api", "token", req[a].token, "config")]
          \/ req' = [req EXCEPT ![a] = Request("api", saved, NoToken, "saved")]
      BY <2>7 DEF HandleAuth
    <3> QED
      BY <2>6, <3>1, <1>1, <1>2, SlotFacts
  <2>8. ASSUME NEW a \in Tries, HandleConfig(a)
        PROVE  \E p \in Slots : \E r : r.stage # "ok" /\ req' = [req EXCEPT ![p] = r]
    BY <2>8, <2>6, <1>1, <1>2, SlotFacts DEF HandleConfig
  <2> QED
    BY <2>1, <2>2, <2>3, <2>4, <2>5, <2>7, <2>8
<1>5. req[s].stage \in {"sent", "waiting"} => req'[s].stage # "ok"
  <2>1. CASE req' = req
    BY <2>1
  <2>2. ASSUME NEW p \in Slots, NEW r, r.stage # "ok", req' = [req EXCEPT ![p] = r], req[s].stage \in {"sent", "waiting"}
        PROVE  req'[s].stage # "ok"
    BY <2>2, PageFacts
  <2> QED
    BY <1>4, <2>1, <2>2
<1> QED
  BY <1>5 DEF Fresh

\* Nothing is granted on a role that was lost longer ago than the cache's time
\* and a lookup take.
THEOREM GrantsAreFresh == IngressSpec => GrantFresh
<1>1. AccessInv /\ [IngressNext]_ivars => [\A s \in Slots : Fresh(s)]_ivars
  <2> SUFFICES ASSUME AccessInv, [IngressNext]_ivars, NEW s \in Slots PROVE Fresh(s)
    OBVIOUS
  <2>1. CASE \E ok \in BOOLEAN : LookupEnds(ok)
    BY <2>1, LookupEndsFresh
  <2>2. CASE \E q \in Slots : Receive(q)
    BY <2>2, ReceiveFresh
  <2> QED
    BY <2>1, <2>2, PageFresh DEF IngressNext, Tries
<1>2. [\A s \in Slots : Fresh(s)]_ivars
        => [\A s \in Slots :
              (req[s].stage \in {"sent", "waiting"} /\ req'[s].stage = "ok" /\ req[s].cred # "good")
                => admin \/ lastAdmin + CacheTtl + LookupTtl >= now]_ivars
  BY DEF Fresh
<1> QED
  BY <1>1, <1>2, AccessInvariant, PTL DEF IngressSpec, GrantFresh

=============================================================================
