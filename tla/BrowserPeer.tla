------------------------------ MODULE BrowserPeer ------------------------------
(***************************************************************************)
(* How the dropbox page finds the receiver and opens a channel to it:      *)
(* SignalingClient of web/src/lib/signaling.ts with the pending candidates *)
(* of ice.ts, the target selection of web/src/pages/Dropbox.tsx, and the   *)
(* answering side of receiver.ts, over the hub's ordered sockets.          *)
(*                                                                         *)
(* A hub connection is the number of its id, a peer connection the number  *)
(* of its offer; the candidates of one side of a connection are one        *)
(* message.  Only peers with the receiver's name are kept in peers: the    *)
(* page shows no others.  The ICE and DTLS machinery is the environment.   *)
(***************************************************************************)
EXTENDS Integers, Sequences, FiniteSets

CONSTANTS MaxConns,    \* bound: hub connections made by both sides
          MaxConnects  \* bound: times connectToPeer starts anew

ASSUME BrowserAssumption == MaxConns \in Nat /\ MaxConnects \in Nat

Ids == 1..MaxConns
Offers == 1..(MaxConns + MaxConnects)
Nobody == 0

VARIABLES nextId, nextOffer,
          receiver,   \* the receiver's identified id at the hub, None when away
          me,         \* the page's id at the hub, None while its socket is down
          zombie,     \* a record the hub still holds of the page's dead socket
          page,       \* "on", or "off" after disconnect() or failed authorization
          failures,   \* authFailCount
          toPage, toReceiver,  \* messages on the two sockets
          peers, pcs, dcs,     \* the maps of SignalingClient
          link,       \* per offer: the page's RTCPeerConnection and its channel
          sent,       \* descriptionSent
          outgoing,   \* outgoingIce: per peer, offers whose candidates wait
          incoming,   \* incomingIce: per peer, offers whose answerer's candidates wait
          shown,      \* peerList: per peer, the status last emitted
          target,     \* targetPeerId
          dirty,      \* the target effect has to run
          connects,
          rpcs,       \* receiver: per page id, the offer of peerConnections
          answering,  \* receiver: offers inside handleOffer
          alive       \* receiver: offers whose connection is not closed

hub == <<nextId, receiver, me, zombie>>
client == <<peers, pcs, dcs, link, sent, outgoing, incoming, nextOffer>>
ui == <<shown, target, dirty, connects>>
recv == <<rpcs, answering, alive>>
bvars == <<hub, page, failures, toPage, toReceiver, client, ui, recv>>

NoLink == [peer |-> Nobody, conn |-> Nobody, state |-> "none", answer |-> Nobody,
           cands |-> {}, told |-> FALSE, ice |-> "new", dc |-> "none"]
Link == [peer: Ids \cup {Nobody}, conn: Ids \cup {Nobody},
         state: {"none", "offering", "offered", "stable", "closed"},
         answer: Offers \cup {Nobody}, cands: SUBSET Offers, told: BOOLEAN,
         ice: {"new", "connected", "failed"}, dc: {"none", "connecting", "open", "closed"}]
Msg == [type: {"welcome"}] \cup [type: {"receivers"}, ids: SUBSET Ids]
         \cup [type: {"left"}, id: Ids]
         \cup [type: {"offer", "answer", "ice"}, from: Ids, offer: Offers]

BrowserTypeOK ==
  /\ nextId \in 1..(MaxConns + 1) /\ nextOffer \in 1..(MaxConns + MaxConnects + 1)
  /\ {receiver, me, zombie, target} \subseteq Ids \cup {Nobody}
  /\ page \in {"on", "off"} /\ failures \in 0..1
  /\ toPage \in Seq(Msg) /\ toReceiver \in Seq(Msg)
  /\ peers \subseteq Ids /\ sent \subseteq Ids
  /\ pcs \in [Ids -> Offers \cup {Nobody}] /\ dcs \in [Ids -> Offers \cup {Nobody}]
  /\ link \in [Offers -> Link]
  /\ outgoing \in [Ids -> SUBSET Offers] /\ incoming \in [Ids -> SUBSET Offers]
  /\ shown \in [Ids -> {"absent", "online", "connecting", "p2p", "failed"}]
  /\ dirty \in BOOLEAN /\ connects \in 0..MaxConnects
  /\ rpcs \in [Ids -> Offers \cup {Nobody}]
  /\ answering \subseteq Offers /\ alive \subseteq Offers

BrowserInit ==
  /\ nextId = 1 /\ nextOffer = 1
  /\ receiver = Nobody /\ me = Nobody /\ zombie = Nobody
  /\ page = "on" /\ failures = 0
  /\ toPage = <<>> /\ toReceiver = <<>>
  /\ peers = {} /\ sent = {}
  /\ pcs = [p \in Ids |-> Nobody] /\ dcs = [p \in Ids |-> Nobody]
  /\ link = [g \in Offers |-> NoLink]
  /\ outgoing = [p \in Ids |-> {}] /\ incoming = [p \in Ids |-> {}]
  /\ shown = [p \in Ids |-> "absent"] /\ target = Nobody /\ dirty = FALSE /\ connects = 0
  /\ rpcs = [p \in Ids |-> Nobody] /\ answering = {} /\ alive = {}

-----------------------------------------------------------------------------
\* getPeerStatus
Status(p) ==
  IF dcs[p] # Nobody /\ link[dcs[p]].dc = "open" THEN "p2p"
  ELSE IF pcs[p] = Nobody THEN "online"
  ELSE IF link[pcs[p]].ice = "failed" THEN "failed"
  ELSE IF link[pcs[p]].ice = "new" THEN "connecting"
  ELSE "online"

\* emitPeersUpdated: the page keeps the list, and its effect on it is due.
Emit ==
  /\ shown' = [p \in Ids |-> IF p \in peers' THEN Status(p)' ELSE "absent"]
  /\ dirty' = TRUE

\* Close(L, D): the connections of D closed in L, and their channels with them;
\* of a closed one only whom it was with still matters.
CloseLinks(L, D) ==
  [g \in Offers |-> IF g \in D
     THEN [NoLink EXCEPT !.peer = L[g].peer, !.conn = L[g].conn, !.state = "closed", !.dc = "closed"]
     ELSE L[g]]

\* Mutant: the channel of a peer that is cleaned up stays in the map.
CleanupKeepsChannel(p) ==
  [link |-> CloseLinks(link, {pcs[p]} \ {Nobody}), pcs |-> [pcs EXCEPT ![p] = Nobody], dcs |-> dcs,
   sent |-> sent \ {p}, out |-> [outgoing EXCEPT ![p] = {}], in |-> [incoming EXCEPT ![p] = {}],
   next |-> nextOffer]

\* cleanupPeer, as the maps it leaves.
Cleanup(p) ==
  [link |-> CloseLinks(link, {pcs[p]} \ {Nobody}), pcs |-> [pcs EXCEPT ![p] = Nobody],
   dcs |-> [dcs EXCEPT ![p] = Nobody],
   sent |-> sent \ {p}, out |-> [outgoing EXCEPT ![p] = {}], in |-> [incoming EXCEPT ![p] = {}],
   next |-> nextOffer]

\* initP2P(p, true) on maps m: nothing if p has a connection, otherwise a new
\* one with its channel; the offer is created asynchronously.
Init2(m, p) ==
  IF m.pcs[p] # Nobody THEN m
  ELSE [m EXCEPT !.pcs[p] = m.next, !.dcs[p] = m.next, !.next = @ + 1,
          !.link[m.next] = [NoLink EXCEPT !.peer = p, !.state = "offering", !.dc = "connecting"]]

Maps == [link |-> link, pcs |-> pcs, dcs |-> dcs, sent |-> sent, out |-> outgoing, in |-> incoming,
         next |-> nextOffer]
Become(m) ==
  /\ link' = m.link /\ pcs' = m.pcs /\ dcs' = m.dcs
  /\ sent' = m.sent /\ outgoing' = m.out /\ incoming' = m.in
  /\ nextOffer' = m.next

\* The hub hands a message to the receiver it is addressed to, if it is there.
Relay(p, m) == toReceiver' = IF p = receiver /\ me # Nobody THEN Append(toReceiver, m) ELSE toReceiver

-----------------------------------------------------------------------------
\* connect: the hub takes the page in and welcomes it.
PageConnects ==
  /\ page = "on" /\ me = Nobody /\ zombie = Nobody /\ nextId \in Ids
  /\ me' = nextId /\ nextId' = nextId + 1
  /\ toPage' = <<[type |-> "welcome"]>>
  /\ UNCHANGED <<receiver, zombie, page, failures, toReceiver, client, ui, recv>>

\* disconnect(): no further attempt, every connection closed, both maps empty.
Disconnect ==
  /\ page' = "off"
  /\ link' = CloseLinks(link, {pcs[p] : p \in Ids} \ {Nobody})
  /\ pcs' = [p \in Ids |-> Nobody] /\ dcs' = [p \in Ids |-> Nobody]
  /\ UNCHANGED <<peers, sent, outgoing, incoming, nextOffer>>

\* The hub still holds the name for the dead socket: ID-TAKEN, and the page
\* gives up for good.
PageRefused ==
  /\ page = "on" /\ me = Nobody /\ zombie # Nobody
  /\ Disconnect
  /\ UNCHANGED <<hub, failures, toPage, toReceiver, ui, recv>>

\* The socket closes before a welcome: the second time in a row counts as a
\* rejected key, and the page logs out.
PageRejected ==
  /\ page = "on" /\ me = Nobody
  /\ IF failures = 1
       THEN Disconnect /\ UNCHANGED failures
       ELSE failures' = 1 /\ UNCHANGED <<page, client>>
  /\ UNCHANGED <<hub, toPage, toReceiver, ui, recv>>

\* welcome: list-peers is asked for and answered.
ReadWelcome ==
  /\ toPage # <<>> /\ Head(toPage).type = "welcome"
  /\ failures' = 0
  /\ toPage' = Append(Tail(toPage), [type |-> "receivers", ids |-> {receiver} \ {Nobody}])
  /\ UNCHANGED <<hub, page, toReceiver, client, ui, recv>>

\* peer-list and peer-identified: a receiver is noted and connected to.
ReadReceivers ==
  /\ toPage # <<>> /\ Head(toPage).type = "receivers"
  /\ toPage' = Tail(toPage)
  /\ LET ids == Head(toPage).ids IN
       /\ peers' = peers \cup ids
       /\ Become(IF ids = {} THEN Maps ELSE Init2(Maps, CHOOSE p \in ids : TRUE))
  /\ UNCHANGED <<hub, page, failures, toReceiver, target, connects, recv>>
  /\ Emit

ReadLeft ==
  /\ toPage # <<>> /\ Head(toPage).type = "left"
  /\ toPage' = Tail(toPage)
  /\ peers' = peers \ {Head(toPage).id}
  /\ Become(Cleanup(Head(toPage).id))
  /\ UNCHANGED <<hub, page, failures, toReceiver, target, connects, recv>>
  /\ Emit

\* Mutant: the signaling state that waits for an answer is mistaken.
AwaitsAnswerStable(g) == link[g].state = "stable"
\* signalingState "have-local-offer".
AwaitsAnswer(g) == link[g].state = "offered"

\* handleAnswer: only a connection that waits for one takes it, and then the
\* candidates that came before it.
ReadAnswer ==
  /\ toPage # <<>> /\ Head(toPage).type = "answer"
  /\ toPage' = Tail(toPage)
  /\ LET m == Head(toPage)
         g == pcs[m.from]
     IN  IF g # Nobody /\ AwaitsAnswer(g)
           THEN /\ link' = [link EXCEPT ![g].state = "stable", ![g].answer = m.offer,
                                        ![g].cands = incoming[m.from]]
                /\ incoming' = [incoming EXCEPT ![m.from] = {}]
           ELSE UNCHANGED <<link, incoming>>
  /\ UNCHANGED <<hub, page, failures, toReceiver, peers, pcs, dcs, sent, outgoing, nextOffer, ui, recv>>

\* handleIce with addOrQueue.
ReadIce ==
  /\ toPage # <<>> /\ Head(toPage).type = "ice"
  /\ toPage' = Tail(toPage)
  /\ LET m == Head(toPage)
         g == pcs[m.from]
     IN  IF g = Nobody THEN UNCHANGED <<link, incoming>>
         ELSE IF link[g].answer = Nobody
           THEN incoming' = [incoming EXCEPT ![m.from] = @ \cup {m.offer}] /\ UNCHANGED link
           ELSE link' = [link EXCEPT ![g].cands = @ \cup {m.offer}] /\ UNCHANGED incoming
  /\ UNCHANGED <<hub, page, failures, toReceiver, peers, pcs, dcs, sent, outgoing, nextOffer, ui, recv>>

ReadMessage == ReadWelcome \/ ReadReceivers \/ ReadLeft \/ ReadAnswer \/ ReadIce

\* createOffer has resolved: the offer goes out over whatever socket there is
\* (over none it is lost), then the candidates that were held back.
SendOffer(g) ==
  LET p == link[g].peer IN
  /\ link[g].state = "offering"
  /\ link' = [link EXCEPT ![g].state = "offered", ![g].conn = me]
  /\ sent' = sent \cup {p}
  /\ outgoing' = [outgoing EXCEPT ![p] = {}]
  /\ toReceiver' = IF p = receiver /\ me # Nobody
       THEN toReceiver \o <<[type |-> "offer", from |-> me, offer |-> g]>>
              \o (IF g \in outgoing[p] THEN <<[type |-> "ice", from |-> me, offer |-> g]>> ELSE <<>>)
       ELSE toReceiver
  /\ UNCHANGED <<hub, page, failures, toPage, peers, pcs, dcs, incoming, nextOffer, ui, recv>>

\* onicecandidate: sent at once if the offer has been, held back otherwise.
Candidate(g) ==
  LET p == link[g].peer IN
  /\ link[g].state \in {"offering", "offered"} /\ ~link[g].told
  /\ link' = [link EXCEPT ![g].told = TRUE]
  /\ IF p \in sent
       THEN Relay(p, [type |-> "ice", from |-> me, offer |-> g]) /\ UNCHANGED outgoing
       ELSE outgoing' = [outgoing EXCEPT ![p] = @ \cup {g}] /\ UNCHANGED toReceiver
  /\ UNCHANGED <<hub, page, failures, toPage, peers, pcs, dcs, sent, incoming, nextOffer, ui, recv>>

-----------------------------------------------------------------------------
\* connectToPeer: unless the channel is open, start again from nothing.
ConnectToPeer(p) ==
  IF dcs[p] # Nobody /\ link[dcs[p]].dc = "open"
    THEN UNCHANGED <<client, shown, connects>> /\ dirty' = FALSE
    ELSE /\ connects < MaxConnects
         /\ connects' = connects + 1
         /\ Become(Init2(Cleanup(p), p))
         /\ UNCHANGED peers
         /\ Emit

\* The effect on the list and the target: a target that is still listed stays,
\* otherwise the receiver becomes it if there is exactly one.
Receivers == {p \in Ids : shown[p] # "absent"}
Retarget ==
  /\ dirty /\ page = "on"
  /\ IF target \in Receivers
       THEN target' = target /\ dirty' = FALSE /\ UNCHANGED <<client, shown, connects>>
     ELSE IF Cardinality(Receivers) # 1
       THEN target' = Nobody /\ dirty' = FALSE /\ UNCHANGED <<client, shown, connects>>
     ELSE \E p \in Receivers :
            /\ target' = p
            /\ IF shown[p] = "online" THEN ConnectToPeer(p)
               ELSE dirty' = FALSE /\ UNCHANGED <<client, shown, connects>>
  /\ UNCHANGED <<hub, page, failures, toPage, toReceiver, recv>>

\* Mutant: a click connects whatever the status shown.
SelectAlways(p) ==
  /\ page = "on" /\ p \in Receivers
  /\ target' = p
  /\ ConnectToPeer(p)
  /\ UNCHANGED <<hub, page, failures, toPage, toReceiver, recv>>

\* handleSelectPeer: a click selects, and connects only what is shown online.
Select(p) ==
  /\ page = "on" /\ p \in Receivers
  /\ target' = p
  /\ IF shown[p] = "online" THEN ConnectToPeer(p)
     ELSE target # p /\ UNCHANGED <<client, shown, dirty, connects>>
  /\ UNCHANGED <<hub, page, failures, toPage, toReceiver, recv>>

-----------------------------------------------------------------------------
\* receiver.ts handleOffer: a connection of its own for every offer; one that
\* was there before is replaced in the map, not closed.
ReadOffer ==
  /\ toReceiver # <<>> /\ Head(toReceiver).type = "offer"
  /\ toReceiver' = Tail(toReceiver)
  /\ LET m == Head(toReceiver) IN
       /\ rpcs' = [rpcs EXCEPT ![m.from] = m.offer]
       /\ answering' = answering \cup {m.offer}
       /\ alive' = alive \cup {m.offer}
  /\ UNCHANGED <<hub, page, failures, toPage, client, ui>>

\* handleIce of the receiver; the candidate changes nothing that is modelled.
ReadCandidate ==
  /\ toReceiver # <<>> /\ Head(toReceiver).type = "ice"
  /\ toReceiver' = Tail(toReceiver)
  /\ UNCHANGED <<hub, page, failures, toPage, client, ui, recv>>

\* peer-left at the receiver: the connection of that id is closed and dropped.
ReadPageLeft ==
  /\ toReceiver # <<>> /\ Head(toReceiver).type = "left"
  /\ toReceiver' = Tail(toReceiver)
  /\ LET f == Head(toReceiver).id IN
       /\ alive' = alive \ {rpcs[f]}
       /\ rpcs' = [rpcs EXCEPT ![f] = Nobody]
  /\ UNCHANGED <<hub, page, failures, toPage, client, ui, answering>>

\* gatheredLocalDescription: candidates are gathered, and told, before the answer.
Answer(g, from) ==
  <<[type |-> "ice", from |-> from, offer |-> g], [type |-> "answer", from |-> from, offer |-> g]>>

\* handleOffer goes on; the hub relays to the id the offer came from.
SendAnswer(g) ==
  /\ g \in answering
  /\ answering' = answering \ {g}
  /\ toPage' = IF g \in alive /\ receiver # Nobody /\ me # Nobody /\ link[g].conn = me
                 THEN toPage \o Answer(g, receiver) ELSE toPage
  /\ UNCHANGED <<hub, page, failures, toReceiver, client, ui, rpcs, alive>>

-----------------------------------------------------------------------------
\* The connection gets through if both ends hold the halves of one handshake.
IceConnects(g) ==
  /\ link[g].state = "stable" /\ link[g].ice = "new" /\ link[g].answer = g /\ g \in alive
  /\ link' = [link EXCEPT ![g].ice = "connected"]
  /\ UNCHANGED <<hub, page, failures, toPage, toReceiver, peers, pcs, dcs, sent, outgoing,
                 incoming, nextOffer, target, connects, recv>>
  /\ Emit

IceFails(g) ==
  /\ link[g].state = "stable" /\ link[g].ice # "failed" /\ (link[g].answer # g \/ g \notin alive)
  /\ link' = [link EXCEPT ![g].ice = "failed"]
  /\ UNCHANGED <<hub, page, failures, toPage, toReceiver, peers, pcs, dcs, sent, outgoing,
                 incoming, nextOffer, target, connects, recv>>
  /\ Emit

ChannelOpens(g) ==
  /\ link[g].ice = "connected" /\ link[g].dc = "connecting" /\ g \in alive
  /\ link' = [link EXCEPT ![g].dc = "open"]
  /\ UNCHANGED <<hub, page, failures, toPage, toReceiver, peers, pcs, dcs, sent, outgoing,
                 incoming, nextOffer, target, connects, recv>>
  /\ Emit

\* The other end is gone: dc.onclose, whatever channel the map holds by now.
ChannelCloses(g) ==
  /\ link[g].dc \in {"connecting", "open"} /\ link[g].state = "stable" /\ g \notin alive
  /\ link' = [link EXCEPT ![g].dc = "closed"]
  /\ dcs' = [dcs EXCEPT ![link[g].peer] = Nobody]
  /\ UNCHANGED <<hub, page, failures, toPage, toReceiver, peers, pcs, sent, outgoing,
                 incoming, nextOffer, target, connects, recv>>
  /\ Emit

\* The page's socket is lost: the hub notices at once or holds a zombie.
PageDrops ==
  /\ me # Nobody
  /\ me' = Nobody /\ toPage' = <<>>
  /\ \/ /\ zombie' = me /\ UNCHANGED toReceiver
     \/ /\ toReceiver' = IF receiver = Nobody THEN toReceiver
                         ELSE Append(toReceiver, [type |-> "left", id |-> me])
        /\ UNCHANGED zombie
  /\ UNCHANGED <<nextId, receiver, page, failures, client, ui, recv>>

\* heartbeat: the zombie is disconnected.
ZombieEvicted ==
  /\ zombie # Nobody /\ zombie' = Nobody
  /\ toReceiver' = IF receiver = Nobody THEN toReceiver
                   ELSE Append(toReceiver, [type |-> "left", id |-> zombie])
  /\ UNCHANGED <<nextId, receiver, me, page, failures, toPage, client, ui, recv>>

ReceiverJoins ==
  /\ receiver = Nobody /\ nextId \in Ids
  /\ receiver' = nextId /\ nextId' = nextId + 1
  /\ toPage' = IF me = Nobody THEN toPage ELSE Append(toPage, [type |-> "receivers", ids |-> {nextId}])
  /\ UNCHANGED <<me, zombie, page, failures, toReceiver, client, ui, recv>>

\* The receiver loses its socket, or its process ends with all its connections.
ReceiverLeaves ==
  /\ receiver # Nobody
  /\ receiver' = Nobody /\ toReceiver' = <<>>
  /\ toPage' = IF me = Nobody THEN toPage ELSE Append(toPage, [type |-> "left", id |-> receiver])
  /\ \/ UNCHANGED recv
     \/ rpcs' = [p \in Ids |-> Nobody] /\ answering' = {} /\ alive' = {}
  /\ UNCHANGED <<nextId, me, zombie, page, failures, client, ui>>

ReadAtReceiver == ReadOffer \/ ReadCandidate \/ ReadPageLeft
Progress(g) == SendOffer(g) \/ SendAnswer(g)

BrowserNext ==
  \/ PageConnects \/ PageRefused \/ PageRejected \/ PageDrops \/ ZombieEvicted
  \/ ReceiverJoins \/ ReceiverLeaves \/ Retarget
  \/ ReadMessage \/ ReadAtReceiver
  \/ \E g \in Offers : Progress(g) \/ Candidate(g) \/ IceConnects(g) \/ IceFails(g)
                         \/ ChannelOpens(g) \/ ChannelCloses(g)
  \/ \E p \in Ids : Select(p)

\* Messages are read and asynchronous calls resolve; nobody has to click, and
\* no socket has to stay.
BrowserFairness ==
  /\ WF_bvars(ReadMessage) /\ WF_bvars(ReadAtReceiver) /\ WF_bvars(Retarget)
  /\ \A g \in Offers : WF_bvars(SendOffer(g)) /\ WF_bvars(SendAnswer(g))

BrowserSpec == BrowserInit /\ [][BrowserNext]_bvars /\ BrowserFairness

-----------------------------------------------------------------------------
\* Answers and candidates name the peer, not the offer, and the page takes them
\* for whatever connection it has with that peer (handleAnswer, handleIce).
\* Still no connection takes those of another one with the same peer: only an
\* answer that outlives a reconnection of the receiver can go astray, because
\* it leaves under the new id.
HandshakesApart ==
  \A g \in Offers : \A h \in (link[g].cands \cup {link[g].answer}) \ {Nobody, g} :
    link[h].peer # link[g].peer

\* The channel a drop would be sent over is that of the peer's present
\* connection, and a channel that is open there is the one the map holds, so
\* hasP2PWith sees it: no close event of a former channel has removed it.
ChannelCurrent ==
  \A p \in Ids :
    /\ dcs[p] # Nobody => dcs[p] = pcs[p]
    /\ pcs[p] # Nobody /\ link[pcs[p]].dc = "open" => dcs[p] = pcs[p]

\* The offer of a connection that is in use, over sockets that are up.
Waiting(g) ==
  /\ link[g].state = "offered" /\ pcs[link[g].peer] = g
  /\ me # Nobody /\ link[g].conn = me /\ link[g].peer = receiver

\* An offer is answered or given up: a handshake does not hang as long as both
\* sockets it went over stay up (connectToPeer and handleAnswer, signaling.ts).
HandshakeEnds == \A g \in Offers : Waiting(g) ~> ~Waiting(g)

\* Connections of the page do not take each other's messages or channels
\* (handleAnswer, handleIce, setupDataChannel and cleanup, signaling.ts).
PeersApart == BrowserTypeOK /\ HandshakesApart /\ ChannelCurrent

=============================================================================
