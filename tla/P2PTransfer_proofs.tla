-------------------------- MODULE P2PTransfer_proofs --------------------------
(***************************************************************************)
(* The receiver of the p2p dropbox keeps its invariants whatever its peers *)
(* send, and behind command-line senders everything they report is true:   *)
(* for every set of channels, ids, files and sizes and every workload.     *)
(*                                                                         *)
(* First the receiver alone.  None of its invariants is inductive alone.   *)
(* They lean on paths being taken in order (a path from nextPath on was    *)
(* never used), on a transfer being flushed only when complete, and on     *)
(* files on disk belonging to transfers in the right phase of their life.  *)
(*                                                                         *)
(* Then the senders.  What ties an outcome to the disk is the queue that   *)
(* lies between.  PInv says that the messages in flight are, file by file, *)
(* the ones send.ts sends and in that order, that a file is started and    *)
(* ended once, and that an answer on its way speaks of a file that was     *)
(* sent.  Behind is what any step of the receiver may do to a queue (keep  *)
(* it, cut it, take its head); each part of PInv follows from it once.     *)
(***************************************************************************)
EXTENDS P2PTransfer, TLAPS

\* Supporting facts about paths, used to make the invariants inductive.
PathsInOrder ==
  /\ \A p \in Paths : p < nextPath <=> phase[p] # "free"
  /\ \A p \in Paths : phase[p] \in {"flushing", "renamed"} => Received(p) = info[p].size
  /\ \A p \in Paths : phase[p] = "renamed" => p \in finals \ parts
  /\ \A p \in finals : phase[p] \in {"renamed", "published", "lost"}
  /\ \A p \in ledger : phase[p] \in {"published", "dropped", "lost"}
  /\ \A p \in parts : phase[p] # "free"

IInv ==
  /\ TypeOK /\ PathsInOrder
  /\ ClaimsExact /\ OneReceiver /\ PublishedWhole /\ NoStrayParts

LEMMA InitIInv == Init => IInv
<1> SUFFICES ASSUME Init PROVE IInv
  OBVIOUS
<1> USE ReceiverAssumption DEF Init, Paths, NoPath, Phases, Live, LivePaths
<1>1. TypeOK
  BY DEF TypeOK
<1>2. PathsInOrder
  BY DEF PathsInOrder
<1>3. ClaimsExact
  BY DEF ClaimsExact
<1>4. OneReceiver /\ PublishedWhole /\ NoStrayParts
  BY DEF OneReceiver, PublishedWhole, NoStrayParts
<1> QED
  BY <1>1, <1>2, <1>3, <1>4 DEF IInv

-----------------------------------------------------------------------------
(* What one ending of a transfer does to the invariants, whoever calls it. *)

\* The fields every path but p keeps.
Kept == UNCHANGED <<info, errored, nextPath>>

LEMMA AckTypes ==
  ASSUME TypeOK, NEW c \in Channels, NEW id \in Ids \cup {NoId}, NEW n \in Nat, NEW ok \in BOOLEAN,
         Emit(c, id, n, ok)
  PROVE  acks' \in [Channels -> Seq(Ack)]
<1> DEFINE a == [id |-> id, size |-> n, ok |-> ok]
<1>1. a \in Ack
  BY DEF Ack
<1>2. acks \in [Channels -> Seq(Ack)]
  BY DEF TypeOK
<1>3. Append(acks[c], a) \in Seq(Ack)
  BY <1>1, <1>2
<1>4. acks' = [acks EXCEPT ![c] = Append(acks[c], a)]
  BY DEF Emit
<1> QED
  BY <1>2, <1>3, <1>4

LEMMA AnswerTypes ==
  ASSUME TypeOK, NEW p \in Paths, phase[p] # "free", NEW ok \in BOOLEAN, Answer(p, ok)
  PROVE  acks' \in [Channels -> Seq(Ack)]
<1>1. info[p] \in Transfer
  BY DEF TypeOK
<1>2. info[p].chan \in Channels /\ info[p].id \in Ids /\ Received(p) \in Nat
  BY <1>1 DEF Transfer, Received
<1>3. CASE session[info[p].chan] = "open"
  BY <1>2, <1>3, AckTypes DEF Answer
<1>4. CASE session[info[p].chan] # "open"
  BY <1>4 DEF Answer, TypeOK
<1> QED
  BY <1>3, <1>4

\* Discarding a live transfer keeps every invariant, provided its channel no
\* longer has it active.
LEMMA DiscardKeeps ==
  ASSUME IInv, NEW p \in Paths, phase[p] \in Live \ {"renamed"}, Discard(p), Kept,
         active' \in [Channels -> Paths \cup {NoPath}],
         \A c \in Channels : active'[c] = (IF active[c] = p THEN NoPath ELSE active[c]),
         session' \in [Channels -> {"new", "open", "closed"}],
         acks' \in [Channels -> Seq(Ack)], crashes' \in 0..MaxCrashes
  PROVE  IInv'
<1> USE DEF IInv, Discard, Kept
<1>1. TypeOK'
  BY DEF TypeOK, Phases, Live
<1>2. PathsInOrder'
  BY DEF PathsInOrder, TypeOK, Received, Live, Paths
<1>3. ClaimsExact'
  BY DEF ClaimsExact, LivePaths, TypeOK, Live
<1>4. OneReceiver'
  BY DEF OneReceiver, TypeOK, Live, Paths, NoPath, Transfer
<1>5. PublishedWhole'
  BY DEF PublishedWhole, PathsInOrder, TypeOK, Live, Received
<1>6. NoStrayParts'
  BY DEF NoStrayParts, TypeOK, Live
<1> QED
  BY <1>1, <1>2, <1>3, <1>4, <1>5, <1>6

-----------------------------------------------------------------------------
(* One lemma for each group of steps. *)

\* Steps that touch only the session, the answers or the crash counter.
LEMMA QuietKeeps ==
  ASSUME IInv, UNCHANGED <<active, phase, info, errored, nextPath, claimed, disk>>,
         session' \in [Channels -> {"new", "open", "closed"}],
         acks' \in [Channels -> Seq(Ack)], crashes' \in 0..MaxCrashes
  PROVE  IInv'
BY DEF IInv, TypeOK, PathsInOrder, ClaimsExact, OneReceiver, PublishedWhole, NoStrayParts,
       LivePaths, Received, disk

\* The active transfer of c is discarded.
LEMMA AbortActiveKeeps ==
  ASSUME IInv, NEW c \in Channels, active[c] # NoPath, AbortActive(c), Kept,
         session' \in [Channels -> {"new", "open", "closed"}],
         acks' \in [Channels -> Seq(Ack)], crashes' \in 0..MaxCrashes
  PROVE  IInv'
<1>1. active[c] \in Paths /\ phase[active[c]] = "receiving" /\ info[active[c]].chan = c
  BY DEF IInv, TypeOK, OneReceiver
<1>2. active' = [active EXCEPT ![c] = NoPath] /\ Discard(active[c])
  BY DEF AbortActive
<1>3. \A d \in Channels : active[d] = active[c] => d = c
  BY <1>1 DEF IInv, OneReceiver
<1>4. /\ active' \in [Channels -> Paths \cup {NoPath}]
      /\ \A d \in Channels : active'[d] = (IF active[d] = active[c] THEN NoPath ELSE active[d])
  BY <1>2, <1>3 DEF IInv, TypeOK
<1> QED
  BY <1>1, <1>2, <1>4, DiscardKeeps DEF Live

LEMMA ActiveTypes ==
  ASSUME IInv, NEW c \in Channels, active[c] # NoPath
  PROVE  /\ active[c] \in Paths /\ phase[active[c]] = "receiving"
         /\ info[active[c]] \in Transfer /\ info[active[c]].chan = c
         /\ info[active[c]].id \in Ids /\ Received(active[c]) \in Nat
BY DEF IInv, TypeOK, OneReceiver, Transfer, Received

LEMMA StartAcceptedKeeps ==
  ASSUME IInv, NEW c \in Channels, NEW m \in Message, StartAccepted(c, m)
  PROVE  IInv'
<1> USE DEF IInv, StartAccepted
<1>1. m.type = "start" /\ m.id \in Ids /\ m.name \in Names /\ m.size \in Nat
  BY ReceiverAssumption DEF Message, Acceptable
<1>2. nextPath \in Paths /\ phase[nextPath] = "free"
  BY DEF PathsInOrder, Paths
<1>3. TypeOK'
  <2>1. [chan |-> c, id |-> m.id, name |-> m.name, size |-> m.size, content |-> <<>>] \in Transfer
    BY <1>1 DEF Transfer
  <2>2. DOMAIN info' = Paths /\ \A p \in Paths : phase'[p] # "free" => info'[p] \in Transfer
    BY <1>2, <2>1 DEF TypeOK
  <2> QED
    BY <1>1, <1>2, <2>2, ReceiverAssumption DEF TypeOK, Phases, Live, Paths, NoPath
<1>4. PathsInOrder'
  BY <1>2, ReceiverAssumption DEF PathsInOrder, TypeOK, Paths, Received
<1>5. ClaimsExact'
  BY <1>1, <1>2 DEF ClaimsExact, LivePaths, TypeOK, Live, PathsInOrder
<1>6. OneReceiver'
  BY <1>2 DEF OneReceiver, TypeOK, Paths, NoPath
<1>7. PublishedWhole'
  BY <1>2 DEF PublishedWhole, Received, PathsInOrder, TypeOK
<1>8. NoStrayParts'
  BY <1>2 DEF NoStrayParts, TypeOK, Live
<1> QED
  BY <1>3, <1>4, <1>5, <1>6, <1>7, <1>8

LEMMA ContentUpdate ==
  ASSUME NEW r \in Transfer, NEW s \in Seq(Payload)
  PROVE  LET u == [r EXCEPT !.content = s] IN u \in Transfer /\ u.chan = r.chan /\ u.id = r.id
BY DEF Transfer

LEMMA ChunkWrittenKeeps ==
  ASSUME IInv, NEW c \in Channels, NEW m \in Message, ChunkWritten(c, m)
  PROVE  IInv'
<1> DEFINE p == active[c]
<1> USE DEF ChunkWritten
<1>1. p \in Paths /\ phase[p] = "receiving" /\ info[p] \in Transfer /\ m.data \in Payload
  BY ActiveTypes DEF Message
<1>2. info' = [info EXCEPT ![p].content = Append(info[p].content, m.data)]
  OBVIOUS
<1>3. info'[p] \in Transfer /\ info'[p].chan = info[p].chan /\ info'[p].id = info[p].id
  <2>1. info'[p] = [info[p] EXCEPT !.content = Append(info[p].content, m.data)]
    BY <1>1, <1>2 DEF IInv, TypeOK
  <2>2. Append(info[p].content, m.data) \in Seq(Payload)
    BY <1>1 DEF Transfer
  <2> QED
    BY <1>1, <2>1, <2>2, ContentUpdate
<1>4. DOMAIN info' = Paths /\ \A q \in Paths : q # p => info'[q] = info[q]
  BY <1>1, <1>2 DEF IInv, TypeOK
<1>5. \A q \in Paths : phase[q] # "free" => info'[q].id = info[q].id /\ info'[q].chan = info[q].chan
  BY <1>3, <1>4
<1>6. \A q \in Paths : phase[q] # "receiving" => info'[q] = info[q]
  BY <1>1, <1>4
<1> HIDE DEF p
<1>7. TypeOK'
  BY <1>1, <1>3, <1>4 DEF IInv, TypeOK, disk
<1>8. PathsInOrder'
  BY <1>6 DEF IInv, PathsInOrder, Received, disk
<1>9. ClaimsExact'
  BY <1>5 DEF IInv, ClaimsExact, LivePaths, Live, disk
<1>10. OneReceiver'
  <2>1. \A d \in Channels : active[d] # NoPath => active[d] \in Paths /\ phase[active[d]] # "free"
    BY DEF IInv, OneReceiver, TypeOK
  <2> QED
    BY <1>5, <2>1 DEF IInv, OneReceiver
<1>11. PublishedWhole' /\ NoStrayParts'
  BY <1>6 DEF IInv, PublishedWhole, NoStrayParts, PathsInOrder, Received, TypeOK, disk
<1> QED
  BY <1>7, <1>8, <1>9, <1>10, <1>11 DEF IInv

LEMMA EndQueuedKeeps ==
  ASSUME IInv, NEW c \in Channels, NEW m \in Message, EndQueued(c, m)
  PROVE  IInv'
<1> USE DEF IInv, EndQueued
<1>1. active[c] \in Paths /\ phase[active[c]] = "receiving" /\ info[active[c]].chan = c
  BY ActiveTypes
<1>2. TypeOK' /\ PathsInOrder'
  BY <1>1 DEF TypeOK, PathsInOrder, Phases, Live, Received, disk
<1>3. ClaimsExact'
  <2>1. LivePaths' = LivePaths
    BY <1>1 DEF LivePaths, Live, TypeOK
  <2> QED
    BY <2>1 DEF ClaimsExact
<1>4. OneReceiver'
  <2>1. active'[c] = NoPath /\ \A d \in Channels : d # c => active'[d] = active[d]
    BY DEF TypeOK
  <2>2. phase'[active[c]] = "queued" /\ \A p \in Paths : p # active[c] => phase'[p] = phase[p]
    BY <1>1 DEF TypeOK
  <2>3. \A d \in Channels : active'[d] # NoPath =>
          phase'[active'[d]] = "receiving" /\ info'[active'[d]].chan = d
    <3> SUFFICES ASSUME NEW d \in Channels, active'[d] # NoPath
                 PROVE  phase'[active'[d]] = "receiving" /\ info'[active'[d]].chan = d
      OBVIOUS
    <3>1. d # c /\ active'[d] = active[d]
      BY <2>1
    <3>2. active[d] \in Paths /\ phase[active[d]] = "receiving" /\ info[active[d]].chan = d
      BY <3>1, ActiveTypes
    <3>3. active[d] # active[c]
      BY <1>1, <3>1, <3>2
    <3> QED
      BY <2>2, <3>1, <3>2, <3>3
  <2>4. \A p \in Paths : phase'[p] = "receiving" => active'[info'[p].chan] = p
    <3> SUFFICES ASSUME NEW p \in Paths, phase'[p] = "receiving"
                 PROVE  active'[info'[p].chan] = p
      OBVIOUS
    <3>1. p # active[c] /\ phase[p] = "receiving"
      BY <2>2
    <3>2. active[info[p].chan] = p /\ info[p].chan \in Channels
      BY <3>1 DEF OneReceiver, TypeOK, Transfer
    <3> QED
      BY <2>1, <3>1, <3>2
  <2> QED
    BY <2>3, <2>4 DEF OneReceiver
<1>5. PublishedWhole' /\ NoStrayParts'
  BY <1>1 DEF PublishedWhole, NoStrayParts, Received, TypeOK, Live, disk
<1> QED
  BY <1>2, <1>3, <1>4, <1>5

LEMMA FinalizeFlushKeeps ==
  ASSUME IInv, NEW p \in Paths, FinalizeFlush(p)
  PROVE  IInv'
<1> USE DEF IInv, FinalizeFlush, First
<1>1. TypeOK' /\ PathsInOrder'
  BY DEF TypeOK, PathsInOrder, Phases, Live, Received, disk
<1>2. ClaimsExact'
  <2>1. LivePaths' = LivePaths
    BY DEF LivePaths, Live, TypeOK
  <2> QED
    BY <2>1 DEF ClaimsExact
<1>3. OneReceiver'
  BY DEF OneReceiver, TypeOK
<1>4. PublishedWhole' /\ NoStrayParts'
  BY DEF PublishedWhole, NoStrayParts, Received, TypeOK, Live, disk
<1> QED
  BY <1>1, <1>2, <1>3, <1>4

LEMMA RenameKeeps ==
  ASSUME IInv, NEW p \in Paths, Rename(p)
  PROVE  IInv'
<1> USE DEF IInv, Rename
<1>1. TypeOK' /\ PathsInOrder'
  BY DEF TypeOK, PathsInOrder, Phases, Live, Received
<1>2. ClaimsExact'
  <2>1. LivePaths' = LivePaths
    BY DEF LivePaths, Live, TypeOK
  <2> QED
    BY <2>1 DEF ClaimsExact
<1>3. OneReceiver'
  BY DEF OneReceiver, TypeOK
<1>4. PublishedWhole' /\ NoStrayParts'
  BY DEF PublishedWhole, NoStrayParts, PathsInOrder, Received, TypeOK, Live
<1> QED
  BY <1>1, <1>2, <1>3, <1>4

LEMMA PublishKeeps ==
  ASSUME IInv, NEW p \in Paths, Publish(p)
  PROVE  IInv'
<1> USE DEF IInv, Publish
<1>0. phase[p] = "renamed" /\ p \in finals \ parts
  BY DEF PathsInOrder
<1>1. acks' \in [Channels -> Seq(Ack)]
  BY AnswerTypes
<1>2. TypeOK' /\ PathsInOrder'
  BY <1>0, <1>1 DEF TypeOK, PathsInOrder, Phases, Live, Received
<1>3. ClaimsExact'
  BY DEF ClaimsExact, LivePaths, TypeOK, Live
<1>4. OneReceiver'
  BY DEF OneReceiver, TypeOK
<1>5. PublishedWhole' /\ NoStrayParts'
  BY <1>0 DEF PublishedWhole, NoStrayParts, PathsInOrder, Received, TypeOK, Live
<1> QED
  BY <1>2, <1>3, <1>4, <1>5

LEMMA RecordFailsKeeps ==
  ASSUME IInv, NEW p \in Paths, RecordFails(p)
  PROVE  IInv'
<1> USE DEF IInv, RecordFails
<1>0. phase[p] = "renamed" /\ p \in finals \ parts
  BY DEF PathsInOrder
<1>1. acks' \in [Channels -> Seq(Ack)]
  BY AnswerTypes
<1>2. TypeOK' /\ PathsInOrder'
  BY <1>0, <1>1 DEF TypeOK, PathsInOrder, Phases, Live, Received
<1>3. ClaimsExact'
  BY DEF ClaimsExact, LivePaths, TypeOK, Live
<1>4. OneReceiver'
  BY DEF OneReceiver, TypeOK
<1>5. PublishedWhole' /\ NoStrayParts'
  BY <1>0 DEF PublishedWhole, NoStrayParts, PathsInOrder, Received, TypeOK, Live
<1> QED
  BY <1>2, <1>3, <1>4, <1>5

LEMMA StreamFailsKeeps ==
  ASSUME IInv, NEW p \in Paths, StreamFails(p)
  PROVE  IInv'
BY DEF StreamFails, IInv, TypeOK, PathsInOrder, ClaimsExact, OneReceiver, PublishedWhole,
       NoStrayParts, LivePaths, Received

LEMMA CrashKeeps ==
  ASSUME IInv, Crash
  PROVE  IInv'
<1> USE DEF IInv, Crash
<1>1. ledger \subseteq ledger' /\ \A q \in ledger' \ ledger : q \in Paths /\ phase[q] = "renamed"
  OBVIOUS
<1>2. TypeOK'
  BY <1>1, ReceiverAssumption DEF TypeOK, Phases, Live, NoPath
<1>3. PathsInOrder'
  BY <1>1 DEF PathsInOrder, TypeOK, Live, Received
<1>4. ClaimsExact' /\ OneReceiver'
  <2>1. \A p \in Paths : phase'[p] \notin Live
    BY DEF TypeOK, Live
  <2>2. LivePaths' = {}
    BY <2>1 DEF LivePaths
  <2> QED
    BY <2>1, <2>2 DEF ClaimsExact, OneReceiver, Live
<1>5. PublishedWhole' /\ NoStrayParts'
  BY <1>1 DEF PublishedWhole, NoStrayParts, PathsInOrder, Received, TypeOK, Live
<1> QED
  BY <1>2, <1>3, <1>4, <1>5

-----------------------------------------------------------------------------
LEMMA HandleMessageKeeps ==
  ASSUME IInv, NEW c \in Channels, NEW m \in Message, HandleMessage(c, m)
  PROVE  IInv'
<1>0. TypeOK /\ session \in [Channels -> {"new", "open", "closed"}] /\ crashes \in 0..MaxCrashes
      /\ acks \in [Channels -> Seq(Ack)] /\ 0 \in Nat
  BY DEF IInv, TypeOK
<1>1. CASE StartOverlapping(c, m)
  <2>1. active[c] # NoPath /\ AbortActive(c) /\ Kept /\ session' = session /\ crashes' = crashes
    BY <1>1 DEF StartOverlapping, Kept
  <2> DEFINE a == [id |-> info[active[c]].id, size |-> Received(active[c]), ok |-> FALSE]
             b == [id |-> m.id, size |-> 0, ok |-> FALSE]
  <2>2. a \in Ack /\ b \in Ack
    BY <1>1, <2>1, ActiveTypes DEF Ack, Message, StartOverlapping
  <2>3. acks' = [acks EXCEPT ![c] = Append(Append(acks[c], a), b)]
    BY <1>1 DEF StartOverlapping
  <2>4. Append(acks[c], a) \in Seq(Ack)
    BY <1>0, <2>2
  <2>5. acks' \in [Channels -> Seq(Ack)]
    BY <1>0, <2>2, <2>3, <2>4
  <2> QED
    BY <1>0, <2>1, <2>5, AbortActiveKeeps
<1>2. CASE StartRefused(c, m)
  <2>1. Emit(c, m.id, 0, FALSE) /\ m.id \in Ids \cup {NoId}
    BY <1>2 DEF StartRefused, Reject, Message
  <2> QED
    BY <1>0, <1>2, <2>1, AckTypes, QuietKeeps DEF StartRefused
<1>3. CASE StartAccepted(c, m)
  BY <1>3, StartAcceptedKeeps
<1>4. CASE ChunkIgnored(c, m)
  BY <1>0, <1>4, QuietKeeps DEF ChunkIgnored, rvars, disk
<1>5. CASE ChunkOverflows(c, m)
  <2>1. active[c] # NoPath /\ AbortActive(c) /\ Kept /\ session' = session /\ crashes' = crashes
    BY <1>5 DEF ChunkOverflows, Kept
  <2>2. acks' \in [Channels -> Seq(Ack)]
    BY <1>0, <1>5, <2>1, ActiveTypes, AckTypes DEF ChunkOverflows, Reject
  <2> QED
    BY <1>0, <2>1, <2>2, AbortActiveKeeps
<1>6. CASE ChunkWritten(c, m)
  BY <1>6, ChunkWrittenKeeps
<1>7. CASE EndUnknown(c, m)
  <2>1. acks' \in [Channels -> Seq(Ack)]
    BY <1>0, <1>7, AckTypes DEF EndUnknown, Reject
  <2> QED
    BY <1>0, <1>7, <2>1, QuietKeeps DEF EndUnknown
<1>8. CASE EndQueued(c, m)
  BY <1>8, EndQueuedKeeps
<1> QED
  BY <1>1, <1>2, <1>3, <1>4, <1>5, <1>6, <1>7, <1>8 DEF HandleMessage

LEMMA ChannelKeeps ==
  ASSUME IInv, NEW c \in Channels, Open(c) \/ Close(c) \/ ErrorEvent(c) \/ TakeAck(c)
  PROVE  IInv'
<1>0. TypeOK /\ session \in [Channels -> {"new", "open", "closed"}] /\ crashes \in 0..MaxCrashes
      /\ acks \in [Channels -> Seq(Ack)]
  BY DEF IInv, TypeOK
<1>1. CASE Open(c)
  BY <1>0, <1>1, QuietKeeps DEF Open
<1>2. CASE Close(c)
  <2>1. /\ session' \in [Channels -> {"new", "open", "closed"}] /\ crashes' = crashes
        /\ acks' \in [Channels -> Seq(Ack)] /\ Kept
    BY <1>0, <1>2 DEF Close, Kept
  <2>2. CASE active[c] = NoPath
    BY <1>0, <1>2, <2>1, <2>2, QuietKeeps DEF Close, Kept
  <2>3. CASE active[c] # NoPath
    BY <1>0, <1>2, <2>1, <2>3, AbortActiveKeeps DEF Close
  <2> QED
    BY <2>2, <2>3
<1>3. CASE ErrorEvent(c)
  <2>1. AbortActive(c) /\ Kept /\ session' = session /\ crashes' = crashes
    BY <1>3 DEF ErrorEvent, Kept
  <2>2. active[c] # NoPath
    BY <1>0, <1>3, ReceiverAssumption DEF ErrorEvent, TypeOK, Paths, NoPath
  <2>3. acks' \in [Channels -> Seq(Ack)]
    BY <1>0, <1>3, <2>2, ActiveTypes, AckTypes DEF ErrorEvent, Reject
  <2> QED
    BY <1>0, <2>1, <2>2, <2>3, AbortActiveKeeps
<1>4. CASE TakeAck(c)
  <2>1. acks' \in [Channels -> Seq(Ack)]
    BY <1>0, <1>4 DEF TakeAck
  <2> QED
    BY <1>0, <1>4, <2>1, QuietKeeps DEF TakeAck
<1> QED
  BY <1>1, <1>2, <1>3, <1>4

LEMMA FinalizeKeeps ==
  ASSUME IInv, NEW p \in Paths, Finalize(p)
  PROVE  IInv'
<1>0. TypeOK /\ session \in [Channels -> {"new", "open", "closed"}] /\ crashes \in 0..MaxCrashes
  BY DEF IInv, TypeOK
<1>1. CASE FinalizeShort(p) \/ FlushFails(p)
  <2>1. /\ phase[p] \in {"queued", "flushing"} /\ Discard(p) /\ Answer(p, FALSE) /\ Kept
        /\ active' = active /\ session' = session /\ crashes' = crashes
    BY <1>1 DEF FinalizeShort, FlushFails, First, Kept
  <2>2. \A c \in Channels : active[c] # p
    BY <2>1 DEF IInv, OneReceiver, NoPath, Paths
  <2>3. acks' \in [Channels -> Seq(Ack)]
    BY <1>0, <2>1, AnswerTypes
  <2>4. /\ active' \in [Channels -> Paths \cup {NoPath}]
        /\ \A c \in Channels : active'[c] = (IF active[c] = p THEN NoPath ELSE active[c])
    BY <1>0, <2>1, <2>2 DEF TypeOK
  <2> QED
    BY <1>0, <2>1, <2>3, <2>4, DiscardKeeps DEF Live
<1>2. CASE FinalizeFlush(p)
  BY <1>2, FinalizeFlushKeeps
<1>3. CASE Rename(p)
  BY <1>3, RenameKeeps
<1>4. CASE Publish(p) \/ RecordFails(p)
  BY <1>4, PublishKeeps, RecordFailsKeeps
<1> QED
  BY <1>1, <1>2, <1>3, <1>4 DEF Finalize

LEMMA NextIInv == IInv /\ [Next]_rvars => IInv'
<1> SUFFICES ASSUME IInv, [Next]_rvars PROVE IInv'
  OBVIOUS
<1>1. ASSUME NEW c \in Channels, Open(c) \/ Close(c) \/ ErrorEvent(c) \/ TakeAck(c) PROVE IInv'
  BY <1>1, ChannelKeeps
<1>2. ASSUME NEW c \in Channels, NEW m \in Message, HandleMessage(c, m) PROVE IInv'
  BY <1>2, HandleMessageKeeps
<1>3. ASSUME NEW p \in Paths, Finalize(p) \/ StreamFails(p) PROVE IInv'
  BY <1>3, FinalizeKeeps, StreamFailsKeeps
<1>4. CASE Crash
  BY <1>4, CrashKeeps
<1>5. CASE UNCHANGED rvars
  BY <1>5, QuietKeeps DEF rvars, disk, IInv, TypeOK
<1> QED
  BY <1>1, <1>2, <1>3, <1>4, <1>5 DEF Next

\* The receiver keeps its invariant whatever the peers send.
THEOREM InvariantHolds == Spec => []IInv
BY InitIInv, NextIInv, PTL DEF Spec

\* Every variable of the receiver keeps its type, whatever the peers send.
THEOREM TypeCorrect == Spec => []TypeOK
<1>1. IInv => TypeOK
  BY DEF IInv
<1> QED
  BY <1>1, InvariantHolds, PTL

\* No claim leaks and no two live transfers share an id, for any number of
\* channels and ids.
THEOREM ClaimsAreExact == Spec => []ClaimsExact
<1>1. IInv => ClaimsExact
  BY DEF IInv
<1> QED
  BY <1>1, InvariantHolds, PTL

\* A file has its final name only with every byte; a ledger line without its
\* file is of a commit that failed in log(), after its line was written.
THEOREM PublishedAreWhole == Spec => []PublishedWhole
<1>1. IInv => PublishedWhole
  BY DEF IInv
<1> QED
  BY <1>1, InvariantHolds, PTL

\* A channel receives into at most one transfer, its own.
THEOREM OneReceiverAlways == Spec => []OneReceiver
<1>1. IInv => OneReceiver
  BY DEF IInv
<1> QED
  BY <1>1, InvariantHolds, PTL

\* No abort, short end or failed commit leaves its part file behind.
THEOREM NoStrayPartsAlways == Spec => []NoStrayParts
<1>1. IInv => NoStrayParts
  BY DEF IInv
<1> QED
  BY <1>1, InvariantHolds, PTL

\* Only the commit that gave a file its final name may take it back, before it
\* answers; what stood before, published or left by a crash, stays.
THEOREM PublicationsStandAlways == Spec => PublicationsStand
<1> DEFINE Stand == /\ ledger \subseteq ledger'
                    /\ \A p \in finals \ finals' : phase[p] = "renamed" /\ phase'[p] = "dropped"
<1>1. IInv /\ [Next]_rvars => [Stand]_rvars
  <2> SUFFICES ASSUME IInv, Next PROVE Stand
    BY DEF rvars
  <2>1. ASSUME NEW c \in Channels, Open(c) \/ Close(c) \/ ErrorEvent(c) \/ TakeAck(c) PROVE Stand
    BY <2>1 DEF Open, Close, ErrorEvent, TakeAck, AbortActive, Discard, disk
  <2>2. ASSUME NEW c \in Channels, NEW m \in Message, HandleMessage(c, m) PROVE Stand
    BY <2>2 DEF HandleMessage, StartOverlapping, StartRefused, StartAccepted, ChunkIgnored,
                ChunkOverflows, ChunkWritten, EndUnknown, EndQueued, AbortActive, Discard, disk, rvars
  <2>3. ASSUME NEW p \in Paths, Finalize(p) \/ StreamFails(p) PROVE Stand
    <3>1. CASE RecordFails(p)
      BY <3>1 DEF RecordFails, IInv, TypeOK
    <3> QED
      BY <2>3, <3>1 DEF Finalize, FinalizeShort, FinalizeFlush, Rename, FlushFails, Publish, StreamFails,
                        Discard, disk
  <2>4. CASE Crash
    BY <2>4 DEF Crash
  <2> QED
    BY <2>1, <2>2, <2>3, <2>4 DEF Next
<1>2. Spec => [][Stand]_rvars
  BY <1>1, InvariantHolds, PTL DEF Spec
<1> QED
  BY <1>2 DEF PublicationsStand

\* No id stays claimed and no part file stays behind, whatever ends a transfer.
THEOREM ClaimsAreTrue == Spec => []ClaimsTrue
BY ClaimsAreExact, NoStrayPartsAlways, PTL DEF ClaimsTrue

-----------------------------------------------------------------------------
(* The receiver behind its senders: what holds of a queue and its file.    *)

\* The k-th message of the n-th file of channel c, its start for 0, and its end.
Nth(c, n, k) ==
  IF k = 0 THEN [type |-> "start", id |-> plan[c][n].id, name |-> <<c, n>>, size |-> plan[c][n].size]
           ELSE [type |-> "chunk", data |-> <<c, n, k>>]
EndOf(c, n) == [type |-> "end", id |-> plan[c][n].id]
Started(c) == 1..fileNo[c]
PathOf(p, c, n) == phase[p] # "free" /\ info[p].name = <<c, n>>

\* When the i-th message in flight is handled, a transfer that is then active
\* on c is of file n and has its first k chunks.
Ready(c, i, n, k) ==
  IF i = 1 THEN active[c] # NoPath => info[active[c]].name = <<c, n>> /\ Received(active[c]) = k
           ELSE toRecv[c][i - 1] = Nth(c, n, k)

\* The sender's own account of the file in hand.
InHand ==
  /\ \A c \in Channels : sender[c] \in {"sending", "awaiting"} =>
       /\ fileNo[c] >= 1
       /\ sending[c].id = plan[c][fileNo[c]].id /\ sending[c].size = plan[c][fileNo[c]].size
  /\ \A c \in Channels : sender[c] = "sending" =>
       Ready(c, Len(toRecv[c]) + 1, fileNo[c], sending[c].sent)

\* Nothing is under way on a channel that is not open.
Shut == \A c \in Channels : session[c] # "open" =>
          toRecv[c] = <<>> /\ acks[c] = <<>> /\ active[c] = NoPath

\* Every message in flight is of a file that was started, and follows the one
\* before it in that file.
QueueOrdered ==
  \A c \in Channels : \A i \in DOMAIN toRecv[c] : \E n \in Started(c) :
    \/ toRecv[c][i] = Nth(c, n, 0)
    \/ \E k \in 1..plan[c][n].size : toRecv[c][i] = Nth(c, n, k) /\ Ready(c, i, n, k - 1)
    \/ \E k \in 0..plan[c][n].size : k = plan[c][n].size /\ toRecv[c][i] = EndOf(c, n) /\ Ready(c, i, n, k)

\* A file is started once, and its transfer is complete only after its end.
StartsFresh ==
  \A c \in Channels : \A n \in Started(c) : \A i \in DOMAIN toRecv[c] : toRecv[c][i] = Nth(c, n, 0) =>
    /\ \A p \in Paths : ~PathOf(p, c, n)
    /\ \A j \in DOMAIN toRecv[c] : toRecv[c][j] = Nth(c, n, 0) => i = j

Incomplete(c, n) == \A p \in Paths : PathOf(p, c, n) => phase[p] \in {"receiving", "dropped"}
EndsOnce ==
  /\ \A c \in Channels : \A n \in Started(c) : \A i \in DOMAIN toRecv[c] : toRecv[c][i] = EndOf(c, n) =>
       /\ Incomplete(c, n)
       /\ \A j \in DOMAIN toRecv[c] : /\ toRecv[c][j] = EndOf(c, n) => i = j
                                      /\ toRecv[c][j] = Nth(c, n, 0) => j < i
  /\ \A c \in Channels : sender[c] = "sending" /\ session[c] = "open" =>
       /\ Incomplete(c, fileNo[c])
       /\ \A i \in DOMAIN toRecv[c] : toRecv[c][i] # EndOf(c, fileNo[c])

\* What a transfer holds is a beginning of one file of its channel, and no two
\* transfers are of one file.
FileOf(p, n) ==
  LET c == info[p].chan IN
    /\ info[p].name = <<c, n>>
    /\ info[p].id = plan[c][n].id /\ info[p].size = plan[c][n].size
    /\ info[p].content = Whole(info[p].name, Received(p))
FilesFaithful ==
  /\ \A p \in Paths : phase[p] # "free" => \E n \in Started(info[p].chan) : FileOf(p, n)
  /\ \A p, q \in Paths : (phase[p] # "free" /\ phase[q] # "free" /\ info[p].name = info[q].name) => p = q

\* A refused file is not there, and nothing that could still bring it.
Rejected(c, n) ==
  /\ \A p \in Paths : PathOf(p, c, n) => phase[p] = "dropped"
  /\ \A i \in DOMAIN toRecv[c] : toRecv[c][i] # Nth(c, n, 0)
Delivered(c, n) == \E p \in ledger \cap finals : info[p].name = <<c, n>>

AcksTrue ==
  \A c \in Channels : \A i \in DOMAIN acks[c] : \E n \in Started(c) :
    /\ acks[c][i].id = plan[c][n].id
    /\ IF acks[c][i].ok THEN Delivered(c, n) /\ acks[c][i].size = plan[c][n].size ELSE Rejected(c, n)

ConclusionsTrue ==
  \A c \in Channels, n \in FileNo :
    /\ outcome[c][n] # "none" => n \in Started(c)
    /\ outcome[c][n] = "delivered" => Delivered(c, n)
    /\ outcome[c][n] = "refused" => Rejected(c, n)

PInv == /\ IInv /\ SenderTypeOK /\ InHand /\ Shut /\ QueueOrdered /\ StartsFresh /\ EndsOnce
        /\ FilesFaithful /\ AcksTrue /\ ConclusionsTrue
-----------------------------------------------------------------------------
(* The plan and the messages made of it. *)

LEMMA InSeq ==
  ASSUME NEW S, NEW s \in Seq(S), NEW n \in 1..Len(s)
  PROVE  s[n] \in S
OBVIOUS

LEMMA PlanTypes ==
  ASSUME plan \in Workloads, NEW c \in Channels
  PROVE  /\ Len(plan[c]) \in Nat /\ Len(plan[c]) <= MaxFiles
         /\ \A n \in 1..Len(plan[c]) :
              /\ n \in FileNo /\ <<c, n>> \in Names
              /\ plan[c][n] \in [id : Ids, size : Sizes \cap Nat]
              /\ plan[c][n].id \in Ids /\ plan[c][n].size \in Sizes /\ plan[c][n].size \in Nat
         /\ \A m, n \in 1..Len(plan[c]) : plan[c][m].id = plan[c][n].id => m = n
<1>1. /\ plan[c] \in Seq([id : Ids, size : Sizes \cap Nat]) /\ Len(plan[c]) <= MaxFiles
      /\ \A m, n \in DOMAIN plan[c] : plan[c][m].id = plan[c][n].id => m = n
  BY SenderAssumption
<1>2. Len(plan[c]) \in Nat /\ DOMAIN plan[c] = 1..Len(plan[c])
  BY <1>1
<1>3. ASSUME NEW n \in 1..Len(plan[c])
      PROVE  /\ n \in FileNo /\ <<c, n>> \in Names
             /\ plan[c][n] \in [id : Ids, size : Sizes \cap Nat]
  <2>1. n \in FileNo
    BY <1>1, <1>2, <1>3, SenderAssumption DEF FileNo
  <2>2. Channels \X FileNo = Names
    BY SenderAssumption DEF FileNo
  <2>3. <<c, n>> \in Channels \X FileNo
    BY <2>1
  <2>4. <<c, n>> \in Names
    BY <2>2, <2>3
  <2>5. plan[c][n] \in [id : Ids, size : Sizes \cap Nat]
    BY <1>1, InSeq
  <2> QED
    BY <2>1, <2>4, <2>5
<1> QED
  BY <1>1, <1>2, <1>3

LEMMA ChunkTypes ==
  ASSUME NEW c \in Channels, NEW n \in FileNo, NEW s \in Sizes, s \in Nat, NEW k \in 1..s
  PROVE  <<c, n, k>> \in Payload /\ [type |-> "chunk", data |-> <<c, n, k>>] \in Message
<1>1. <<c, n, k>> \in Payload
  BY SenderAssumption DEF FileNo
<1> QED
  BY <1>1 DEF Message

LEMMA SendTypes ==
  ASSUME SenderTypeOK, NEW c \in Channels, NEW m \in Message, Send(c, m)
  PROVE  /\ toRecv' \in [Channels -> Seq(Message)]
         /\ toRecv'[c] = Append(toRecv[c], m) /\ toRecv[c] \in Seq(Message)
         /\ \A d \in Channels : d # c => toRecv'[d] = toRecv[d]
BY DEF SenderTypeOK, Send

LEMMA ConcludeTypes ==
  ASSUME SenderTypeOK, NEW c \in Channels, NEW r \in Outcomes, Conclude(c, r), fileNo[c] \in FileNo
  PROVE  /\ outcome' \in [Channels -> [FileNo -> Outcomes]] /\ sender' \in [Channels -> SenderPhases]
         /\ outcome'[c] = [outcome[c] EXCEPT ![fileNo[c]] = r]
         /\ \A d \in Channels : d # c => outcome'[d] = outcome[d] /\ sender'[d] = sender[d]
         /\ sender'[c] = "next"
<1>1. outcome[c] \in [FileNo -> Outcomes] /\ "next" \in SenderPhases
  BY DEF SenderTypeOK, SenderPhases
<1>2. outcome' = [outcome EXCEPT ![c] = [outcome[c] EXCEPT ![fileNo[c]] = r]]
  BY DEF Conclude
<1>3. [outcome[c] EXCEPT ![fileNo[c]] = r] \in [FileNo -> Outcomes]
  BY <1>1
<1> QED
  BY <1>1, <1>2, <1>3 DEF SenderTypeOK, Conclude

-----------------------------------------------------------------------------
(* The receiver behind the senders is the receiver of TransferReceiver. *)

LEMMA HeadIsMessage ==
  ASSUME SenderTypeOK, NEW c \in Channels, toRecv[c] # <<>>
  PROVE  /\ Head(toRecv[c]) \in Message /\ Head(toRecv[c]) = toRecv[c][1]
         /\ Tail(toRecv[c]) \in Seq(Message) /\ Len(Tail(toRecv[c])) = Len(toRecv[c]) - 1
         /\ Len(toRecv[c]) \in Nat /\ Len(toRecv[c]) >= 1
         /\ \A i \in 1..(Len(toRecv[c]) - 1) : Tail(toRecv[c])[i] = toRecv[c][i + 1]
<1>1. toRecv[c] \in Seq(Message)
  BY DEF SenderTypeOK
<1> QED
  BY <1>1

LEMMA StepRefines ==
  ASSUME SenderTypeOK, [PNext]_vars
  PROVE  [Next]_rvars
<1>1. ASSUME NEW c \in Channels, SenderStep(c) PROVE [Next]_rvars
  BY <1>1 DEF SenderStep, Connect, SendStart, SendChunk, SendEnd, Stall, AckTimeout, SendFails, Exit,
              ReceiveAck, Next
<1>2. ASSUME NEW c \in Channels, Deliver(c) PROVE [Next]_rvars
  BY <1>2, HeadIsMessage DEF Deliver, Next
<1>3. ASSUME NEW c \in Channels, Lose(c) PROVE [Next]_rvars
  BY <1>3 DEF Lose, Next
<1>4. CASE ReceiverCrash
  BY <1>4 DEF ReceiverCrash, Next
<1>5. CASE ReceiverStep
  BY <1>5 DEF ReceiverStep, Next
<1>6. CASE Quiet \/ UNCHANGED vars
  BY <1>6 DEF Quiet, vars
<1> QED
  BY <1>1, <1>2, <1>3, <1>4, <1>5, <1>6 DEF PNext

LEMMA InHandTypes ==
  ASSUME SenderTypeOK, InHand, NEW c \in Channels, sender[c] \in {"sending", "awaiting"}
  PROVE  /\ fileNo[c] \in 1..Len(plan[c]) /\ fileNo[c] \in FileNo
         /\ sending[c].id = plan[c][fileNo[c]].id /\ sending[c].size = plan[c][fileNo[c]].size
         /\ sending[c].id \in Ids /\ sending[c].size \in Sizes /\ sending[c].size \in Nat
         /\ sending[c].sent \in Nat
<1>1. fileNo[c] \in 0..Len(plan[c]) /\ fileNo[c] >= 1
      /\ sending[c].id = plan[c][fileNo[c]].id /\ sending[c].size = plan[c][fileNo[c]].size
  BY DEF SenderTypeOK, InHand
<1>2. plan \in Workloads
  BY DEF SenderTypeOK
<1>3. Len(plan[c]) \in Nat
  BY <1>2, PlanTypes
<1>4. fileNo[c] \in 1..Len(plan[c])
  BY <1>1, <1>3
<1>5. sending[c].sent \in Nat
  BY DEF SenderTypeOK
<1> QED
  BY <1>1, <1>2, <1>4, <1>5, PlanTypes
-----------------------------------------------------------------------------
(* The messages of a channel are told apart by their file and their place. *)

LEMMA NthFields ==
  ASSUME NEW c, NEW n, NEW k
  PROVE  /\ k = 0 => /\ Nth(c, n, k).type = "start" /\ Nth(c, n, k).name = <<c, n>>
                     /\ Nth(c, n, k).id = plan[c][n].id /\ Nth(c, n, k).size = plan[c][n].size
         /\ k # 0 => Nth(c, n, k).type = "chunk" /\ Nth(c, n, k).data = <<c, n, k>>
BY DEF Nth

LEMMA EndFields ==
  ASSUME NEW c, NEW n
  PROVE  EndOf(c, n).type = "end" /\ EndOf(c, n).id = plan[c][n].id
BY DEF EndOf

LEMMA Distinct ==
  ASSUME plan \in Workloads, NEW c \in Channels, NEW m, NEW n, NEW k, NEW l
  PROVE  /\ Nth(c, n, k) = Nth(c, m, l) => n = m /\ k = l
         /\ Nth(c, n, k) # EndOf(c, m)
         /\ (n \in 1..Len(plan[c]) /\ m \in 1..Len(plan[c]) /\ EndOf(c, n) = EndOf(c, m)) => n = m
<1>1. Nth(c, n, k) = Nth(c, m, l) => n = m /\ k = l
  <2> SUFFICES ASSUME Nth(c, n, k) = Nth(c, m, l) PROVE n = m /\ k = l
    OBVIOUS
  <2>1. CASE k = 0
    <3>1. l = 0
      BY <2>1, NthFields
    <3>2. <<c, n>> = <<c, m>>
      BY <2>1, <3>1, NthFields
    <3> QED
      BY <2>1, <3>1, <3>2
  <2>2. CASE k # 0
    <3>1. l # 0
      BY <2>2, NthFields
    <3>2. <<c, n, k>> = <<c, m, l>>
      BY <2>2, <3>1, NthFields
    <3> QED
      BY <3>2
  <2> QED
    BY <2>1, <2>2
<1>2. Nth(c, n, k) # EndOf(c, m)
  <2>1. Nth(c, n, k).type \in {"start", "chunk"} /\ EndOf(c, m).type = "end"
    BY NthFields, EndFields
  <2> QED
    BY <2>1
<1>3. (n \in 1..Len(plan[c]) /\ m \in 1..Len(plan[c]) /\ EndOf(c, n) = EndOf(c, m)) => n = m
  <2>1. EndOf(c, n).id = plan[c][n].id /\ EndOf(c, m).id = plan[c][m].id
    BY EndFields
  <2> QED
    BY <2>1, PlanTypes
<1> QED
  BY <1>1, <1>2, <1>3

LEMMA StartedTypes ==
  ASSUME SenderTypeOK, NEW c \in Channels, NEW n \in Started(c)
  PROVE  /\ n \in 1..Len(plan[c]) /\ n \in FileNo /\ <<c, n>> \in Names /\ n \in Nat
         /\ plan[c][n].id \in Ids /\ plan[c][n].size \in Sizes /\ plan[c][n].size \in Nat
         /\ fileNo[c] \in Nat
<1>1. plan \in Workloads /\ fileNo[c] \in 0..Len(plan[c])
  BY DEF SenderTypeOK
<1>2. n \in 1..Len(plan[c]) /\ fileNo[c] \in Nat
  BY <1>1, PlanTypes DEF Started
<1> QED
  BY <1>1, <1>2, PlanTypes

-----------------------------------------------------------------------------
(* What a step behind the senders may do: on every channel, take the first *)
(* message, lose all of them or leave them.                                *)

KeptOn(c) ==
  /\ toRecv'[c] = toRecv[c]
  /\ active'[c] # NoPath => active'[c] = active[c] /\ info'[active[c]] = info[active[c]]
CutOn(c) == toRecv'[c] = <<>> /\ active'[c] = NoPath /\ session'[c] # "open"
ShiftOn(c) ==
  /\ toRecv[c] # <<>> /\ toRecv'[c] = Tail(toRecv[c])
  /\ \A n \in Started(c) : \A k \in 0..plan[c][n].size :
       (toRecv[c][1] = Nth(c, n, k) /\ active'[c] # NoPath)
         => info'[active'[c]].name = <<c, n>> /\ Len(info'[active'[c]].content) = k
Takes(c, m) == toRecv[c] # <<>> /\ toRecv'[c] = Tail(toRecv[c]) /\ toRecv[c][1] = m

PathKept(p) ==
  /\ phase'[p] # "free"
  /\ info'[p].chan = info[p].chan /\ info'[p].name = info[p].name
  /\ info'[p].id = info[p].id /\ info'[p].size = info[p].size
  /\ phase[p] = "dropped" => phase'[p] = "dropped"
  /\ p \in finals => info'[p] = info[p]
  /\ phase[p] \in {"receiving", "dropped"} =>
       \/ phase'[p] \in {"receiving", "dropped"}
       \/ session'[info[p].chan] # "open" /\ toRecv'[info[p].chan] = <<>>
       \/ \E n \in Started(info[p].chan) :
            info[p].name = <<info[p].chan, n>> /\ Takes(info[p].chan, EndOf(info[p].chan, n))
PathNew(p) ==
  /\ phase'[p] = "receiving"
  /\ \E c \in Channels : \E n \in Started(c) : info'[p].name = <<c, n>> /\ Takes(c, Nth(c, n, 0))

Behind ==
  /\ UNCHANGED <<plan, sender, fileNo, sending, outcome>>
  /\ \A c \in Channels : KeptOn(c) \/ CutOn(c) \/ ShiftOn(c)
  /\ \A c \in Channels : session'[c] = "open" => session[c] = "open"
  /\ \A p \in Paths : phase[p] # "free" => PathKept(p)
  /\ \A p \in Paths : (phase[p] = "free" /\ phase'[p] # "free") => PathNew(p)
  /\ ledger \cap finals \subseteq ledger' \cap finals'

LEMMA QueueTypes ==
  ASSUME SenderTypeOK, NEW c \in Channels
  PROVE  Len(toRecv[c]) \in Nat /\ DOMAIN toRecv[c] = 1..Len(toRecv[c])
BY DEF SenderTypeOK

\* The messages left after a step, with the place they had before it.
LEMMA Remaining ==
  ASSUME SenderTypeOK, NEW c \in Channels, KeptOn(c) \/ CutOn(c) \/ ShiftOn(c),
         NEW i \in DOMAIN toRecv'[c]
  PROVE  \/ KeptOn(c) /\ i \in DOMAIN toRecv[c] /\ toRecv'[c][i] = toRecv[c][i]
         \/ /\ ShiftOn(c) /\ i \in Nat /\ i >= 1 /\ i + 1 \in DOMAIN toRecv[c] /\ 1 \in DOMAIN toRecv[c]
            /\ toRecv'[c][i] = toRecv[c][i + 1] /\ (i > 1 => toRecv'[c][i - 1] = toRecv[c][i])
<1>1. CASE KeptOn(c)
  BY <1>1 DEF KeptOn
<1>2. CASE CutOn(c)
  BY <1>2 DEF CutOn
<1>3. CASE ShiftOn(c)
  <2>1. /\ toRecv'[c] = Tail(toRecv[c]) /\ toRecv[c] # <<>> /\ toRecv[c] \in Seq(Message)
    BY <1>3 DEF ShiftOn, SenderTypeOK
  <2>2. /\ Len(toRecv[c]) \in Nat /\ DOMAIN toRecv[c] = 1..Len(toRecv[c]) /\ Len(toRecv[c]) >= 1
        /\ DOMAIN toRecv'[c] = 1..(Len(toRecv[c]) - 1)
        /\ \A j \in 1..(Len(toRecv[c]) - 1) : toRecv'[c][j] = toRecv[c][j + 1]
    BY <2>1
  <2>3. /\ i \in Nat /\ i >= 1 /\ i + 1 \in DOMAIN toRecv[c] /\ 1 \in DOMAIN toRecv[c]
        /\ toRecv'[c][i] = toRecv[c][i + 1]
    BY <2>2
  <2>4. i > 1 => toRecv'[c][i - 1] = toRecv[c][i]
    <3> SUFFICES ASSUME i > 1 PROVE toRecv'[c][i - 1] = toRecv[c][i]
      OBVIOUS
    <3>1. i - 1 \in 1..(Len(toRecv[c]) - 1) /\ (i - 1) + 1 = i
      BY <2>2
    <3>2. toRecv'[c][i - 1] = toRecv[c][(i - 1) + 1]
      BY <2>2, <3>1
    <3> QED
      BY <3>1, <3>2
  <2> QED
    BY <1>3, <2>3, <2>4
<1> QED
  BY <1>1, <1>2, <1>3

\* The place of the receiver in a file, carried over a step.
LEMMA ReadyKept ==
  ASSUME SenderTypeOK, Behind, NEW c \in Channels, KeptOn(c), NEW i, NEW n, NEW k, Ready(c, i, n, k)
  PROVE  Ready(c, i, n, k)'
<1>1. CASE i = 1
  BY <1>1 DEF Ready, KeptOn, Received
<1>2. CASE i # 1
  BY <1>2 DEF Ready, KeptOn, Nth, Behind
<1> QED
  BY <1>1, <1>2

LEMMA ReadyShifted ==
  ASSUME SenderTypeOK, Behind, NEW c \in Channels, ShiftOn(c), NEW i \in 1..Len(toRecv[c]),
         NEW n \in Started(c), NEW k \in 0..plan[c][n].size, Ready(c, i + 1, n, k)
  PROVE  Ready(c, i, n, k)'
<1>1. toRecv[c][i] = Nth(c, n, k) /\ i \in Nat /\ i >= 1
  BY QueueTypes DEF Ready
<1>2. CASE i = 1
  <2>1. active'[c] # NoPath => info'[active'[c]].name = <<c, n>> /\ Len(info'[active'[c]].content) = k
    BY <1>1, <1>2 DEF ShiftOn
  <2> QED
    BY <1>2, <2>1 DEF Ready, Received
<1>3. CASE i # 1
  <2>1. i - 1 \in DOMAIN toRecv'[c] /\ toRecv'[c][i - 1] = toRecv[c][i]
    <3>1. toRecv[c] \in Seq(Message) /\ toRecv'[c] = Tail(toRecv[c]) /\ toRecv[c] # <<>>
      BY DEF SenderTypeOK, ShiftOn
    <3>2. Len(toRecv[c]) \in Nat /\ DOMAIN toRecv'[c] = 1..(Len(toRecv[c]) - 1)
          /\ \A j \in 1..(Len(toRecv[c]) - 1) : toRecv'[c][j] = toRecv[c][j + 1]
      BY <3>1
    <3>3. i - 1 \in 1..(Len(toRecv[c]) - 1) /\ (i - 1) + 1 = i
      BY <1>1, <1>3, <3>2
    <3> QED
      BY <3>2, <3>3
  <2>2. toRecv'[c][i - 1] = Nth(c, n, k)'
    BY <1>1, <2>1 DEF Nth, Behind
  <2> QED
    BY <1>3, <2>2 DEF Ready
<1> QED
  BY <1>2, <1>3
LEMMA BehindQueue ==
  ASSUME SenderTypeOK, QueueOrdered, Behind
  PROVE  QueueOrdered'
<1> SUFFICES ASSUME NEW c \in Channels, NEW i \in DOMAIN toRecv'[c]
             PROVE  \E n \in Started(c) :
                      \/ toRecv'[c][i] = Nth(c, n, 0)
                      \/ \E k \in 1..plan[c][n].size : toRecv'[c][i] = Nth(c, n, k) /\ Ready(c, i, n, k - 1)'
                      \/ \E k \in 0..plan[c][n].size : k = plan[c][n].size /\ toRecv'[c][i] = EndOf(c, n) /\ Ready(c, i, n, k)'
  <2>1. /\ plan' = plan /\ fileNo' = fileNo
        /\ \A d, n, k : Nth(d, n, k)' = Nth(d, n, k) /\ EndOf(d, n)' = EndOf(d, n)
    BY DEF Behind, Nth, EndOf
  <2> QED
    BY <2>1 DEF QueueOrdered, Started
<1>1. KeptOn(c) \/ CutOn(c) \/ ShiftOn(c)
  BY DEF Behind
<1>2. CASE KeptOn(c) /\ i \in DOMAIN toRecv[c] /\ toRecv'[c][i] = toRecv[c][i]
  <2>1. PICK n \in Started(c) :
          \/ toRecv[c][i] = Nth(c, n, 0)
          \/ \E k \in 1..plan[c][n].size : toRecv[c][i] = Nth(c, n, k) /\ Ready(c, i, n, k - 1)
          \/ \E k \in 0..plan[c][n].size : k = plan[c][n].size /\ toRecv[c][i] = EndOf(c, n) /\ Ready(c, i, n, k)
    BY <1>2 DEF QueueOrdered
  <2>2. CASE toRecv[c][i] = Nth(c, n, 0)
    BY <1>2, <2>2
  <2>3. ASSUME NEW k \in 1..plan[c][n].size, toRecv[c][i] = Nth(c, n, k), Ready(c, i, n, k - 1)
        PROVE  toRecv'[c][i] = Nth(c, n, k) /\ Ready(c, i, n, k - 1)'
    BY <1>2, <2>3, ReadyKept
  <2>4. ASSUME NEW k \in 0..plan[c][n].size, k = plan[c][n].size, toRecv[c][i] = EndOf(c, n), Ready(c, i, n, k)
        PROVE  k = plan[c][n].size /\ toRecv'[c][i] = EndOf(c, n) /\ Ready(c, i, n, k)'
    BY <1>2, <2>4, ReadyKept
  <2> QED
    BY <2>1, <2>2, <2>3, <2>4
<1>3. CASE /\ ShiftOn(c) /\ i \in Nat /\ i >= 1 /\ i + 1 \in DOMAIN toRecv[c]
           /\ toRecv'[c][i] = toRecv[c][i + 1]
  <2>0. i \in 1..Len(toRecv[c])
    BY <1>3, QueueTypes
  <2>1. PICK n \in Started(c) :
          \/ toRecv[c][i + 1] = Nth(c, n, 0)
          \/ \E k \in 1..plan[c][n].size : toRecv[c][i + 1] = Nth(c, n, k) /\ Ready(c, i + 1, n, k - 1)
          \/ \E k \in 0..plan[c][n].size : k = plan[c][n].size /\ toRecv[c][i + 1] = EndOf(c, n) /\ Ready(c, i + 1, n, k)
    BY <1>3 DEF QueueOrdered
  <2>s. plan[c][n].size \in Nat
    BY StartedTypes
  <2>2. CASE toRecv[c][i + 1] = Nth(c, n, 0)
    BY <1>3, <2>2
  <2>3. ASSUME NEW k \in 1..plan[c][n].size, toRecv[c][i + 1] = Nth(c, n, k), Ready(c, i + 1, n, k - 1)
        PROVE  toRecv'[c][i] = Nth(c, n, k) /\ Ready(c, i, n, k - 1)'
    <3>1. k - 1 \in 0..plan[c][n].size
      BY <2>s
    <3> QED
      BY <1>3, <2>0, <2>3, <3>1, ReadyShifted
  <2>4. ASSUME NEW k \in 0..plan[c][n].size, k = plan[c][n].size, toRecv[c][i + 1] = EndOf(c, n), Ready(c, i + 1, n, k)
        PROVE  k = plan[c][n].size /\ toRecv'[c][i] = EndOf(c, n) /\ Ready(c, i, n, k)'
    <3>1. k \in 0..plan[c][n].size
      BY <2>s, <2>4
    <3> QED
      BY <1>3, <2>0, <2>4, <3>1, ReadyShifted
  <2> QED
    BY <2>1, <2>2, <2>3, <2>4
<1> QED
  BY <1>1, <1>2, <1>3, Remaining

LEMMA BehindInHand ==
  ASSUME SenderTypeOK, InHand, Behind
  PROVE  InHand'
<1> SUFFICES ASSUME NEW c \in Channels, sender[c] = "sending"
             PROVE  Ready(c, Len(toRecv[c]) + 1, fileNo[c], sending[c].sent)'
  BY DEF InHand, Behind
<1>1. Ready(c, Len(toRecv[c]) + 1, fileNo[c], sending[c].sent)
  BY DEF InHand
<1>2. Len(toRecv[c]) \in Nat /\ toRecv[c] \in Seq(Message)
  BY DEF SenderTypeOK
<1>3. CASE KeptOn(c)
  <2>1. Ready(c, Len(toRecv[c]) + 1, fileNo[c], sending[c].sent)
    BY <1>1
  <2>2. toRecv'[c] = toRecv[c] /\ fileNo'[c] = fileNo[c] /\ sending'[c] = sending[c] /\ plan' = plan
    BY <1>3 DEF KeptOn, Behind
  <2>3. CASE Len(toRecv[c]) = 0
    BY <1>3, <2>1, <2>2, <2>3 DEF Ready, KeptOn, Received
  <2>4. CASE Len(toRecv[c]) # 0
    <3>1. Len(toRecv[c]) + 1 # 1
      BY <1>2, <2>4
    <3> QED
      BY <2>1, <2>2, <3>1 DEF Ready, Nth
  <2> QED
    BY <2>3, <2>4
<1>4. CASE CutOn(c)
  <2>1. Len(toRecv'[c]) + 1 = 1 /\ active'[c] = NoPath
    BY <1>4 DEF CutOn
  <2> QED
    BY <2>1 DEF Ready
<1>5. CASE ShiftOn(c)
  <2>1. toRecv[c] # <<>> /\ toRecv'[c] = Tail(toRecv[c])
    BY <1>5 DEF ShiftOn
  <2>2. Len(toRecv[c]) >= 1 /\ Len(toRecv'[c]) = Len(toRecv[c]) - 1
    BY <1>2, <2>1
  <2>3. Len(toRecv'[c]) + 1 = Len(toRecv[c]) /\ Len(toRecv[c]) \in 1..Len(toRecv[c])
    BY <1>2, <2>2
  <2>4. /\ fileNo[c] \in Started(c) /\ sending[c].sent \in 0..plan[c][fileNo[c]].size
    <3>1. fileNo[c] \in 1..Len(plan[c]) /\ sending[c].size = plan[c][fileNo[c]].size
          /\ sending[c].size \in Nat /\ sending[c].sent \in Nat
      BY InHandTypes
    <3>2. sending[c].sent <= sending[c].size /\ Len(plan[c]) \in Nat
      BY PlanTypes DEF SenderTypeOK
    <3> QED
      BY <3>1, <3>2 DEF Started
  <2>6. (Ready(c, Len(toRecv[c]) + 1, fileNo[c], sending[c].sent))'
        <=> IF Len(toRecv'[c]) + 1 = 1
              THEN active'[c] # NoPath => info'[active'[c]].name = <<c, fileNo[c]>>
                                          /\ Len(info'[active'[c]].content) = sending[c].sent
              ELSE toRecv'[c][Len(toRecv'[c]) + 1 - 1] = Nth(c, fileNo[c], sending[c].sent)
    BY DEF Ready, Received, Nth, Behind
  <2>7. CASE Len(toRecv[c]) = 1
    <3>1. toRecv[c][1] = Nth(c, fileNo[c], sending[c].sent)
      BY <1>1, <2>7 DEF Ready
    <3>2. active'[c] # NoPath => info'[active'[c]].name = <<c, fileNo[c]>>
                                 /\ Len(info'[active'[c]].content) = sending[c].sent
      BY <1>5, <2>4, <3>1 DEF ShiftOn
    <3> QED
      BY <2>3, <2>6, <2>7, <3>2
  <2>8. CASE Len(toRecv[c]) # 1
    <3>1. toRecv[c][Len(toRecv[c])] = Nth(c, fileNo[c], sending[c].sent)
      BY <1>1, <1>2, <2>3 DEF Ready
    <3>2. toRecv'[c][Len(toRecv[c]) - 1] = toRecv[c][(Len(toRecv[c]) - 1) + 1]
      <4>1. \A j \in 1..(Len(toRecv[c]) - 1) : Tail(toRecv[c])[j] = toRecv[c][j + 1]
        BY <2>1, HeadIsMessage
      <4>2. Len(toRecv[c]) - 1 \in 1..(Len(toRecv[c]) - 1)
        <5>1. \A l \in Nat : l >= 1 /\ l # 1 => l - 1 \in 1..(l - 1)
          OBVIOUS
        <5> QED
          BY <1>2, <2>2, <2>8, <5>1, Zenon
      <4> QED
        BY <2>1, <4>1, <4>2
    <3>3. (Len(toRecv[c]) - 1) + 1 = Len(toRecv[c]) /\ Len(toRecv'[c]) + 1 - 1 = Len(toRecv[c]) - 1
          /\ Len(toRecv'[c]) + 1 # 1
      BY <1>2, <2>2, <2>3, <2>8
    <3>4. toRecv'[c][Len(toRecv'[c]) + 1 - 1] = Nth(c, fileNo[c], sending[c].sent)
      BY <3>1, <3>2, <3>3
    <3> QED
      BY <2>6, <3>3, <3>4
  <2> QED
    BY <2>7, <2>8
<1> QED
  BY <1>3, <1>4, <1>5 DEF Behind
\* The plan, and so the messages made of it, never change.
LEMMA SamePlan ==
  ASSUME plan' = plan
  PROVE  \A c, n, k : Nth(c, n, k)' = Nth(c, n, k) /\ EndOf(c, n)' = EndOf(c, n)
BY DEF Nth, EndOf

\* A path of a file after the step was one before, unless its start was taken.
LEMMA PathOrigin ==
  ASSUME PInv, Behind, NEW p \in Paths, NEW c \in Channels, NEW n, PathOf(p, c, n)'
  PROVE  \/ PathOf(p, c, n) /\ PathKept(p) /\ n \in Started(c) /\ info[p].chan = c
         \/ phase[p] = "free" /\ phase'[p] = "receiving" /\ n \in Started(c) /\ Takes(c, Nth(c, n, 0))
<1>1. phase'[p] # "free" /\ info'[p].name = <<c, n>>
  BY DEF PathOf
<1>2. CASE phase[p] # "free"
  <2>1. PathKept(p) /\ info[p].name = <<c, n>>
    BY <1>1, <1>2 DEF Behind, PathKept
  <2>2. PICK m \in Started(info[p].chan) : FileOf(p, m)
    BY <1>2 DEF PInv, FilesFaithful
  <2>3. info[p].chan = c /\ m = n
    BY <2>1, <2>2 DEF FileOf
  <2> QED
    BY <1>2, <2>1, <2>2, <2>3 DEF PathOf
<1>3. CASE phase[p] = "free"
  <2>1. phase'[p] = "receiving" /\ \E d \in Channels : \E m \in Started(d) :
          info'[p].name = <<d, m>> /\ Takes(d, Nth(d, m, 0))
    BY <1>1, <1>3 DEF Behind, PathNew
  <2> QED
    BY <1>1, <1>3, <2>1
<1> QED
  BY <1>2, <1>3

\* A message that was taken is the first one, and the others have moved up.
LEMMA TakenIsFirst ==
  ASSUME SenderTypeOK, Behind, NEW c \in Channels, NEW m, Takes(c, m), NEW i \in DOMAIN toRecv'[c]
  PROVE  /\ i + 1 \in DOMAIN toRecv[c] /\ toRecv'[c][i] = toRecv[c][i + 1]
         /\ 1 \in DOMAIN toRecv[c] /\ toRecv[c][1] = m /\ i + 1 # 1
<1>1. toRecv[c] \in Seq(Message) /\ toRecv[c] # <<>> /\ toRecv'[c] = Tail(toRecv[c]) /\ toRecv[c][1] = m
  BY DEF SenderTypeOK, Takes
<1> QED
  BY <1>1

\* The messages left were there before.
LEMMA LeftOver ==
  ASSUME SenderTypeOK, Behind, NEW c \in Channels, NEW i \in DOMAIN toRecv'[c]
  PROVE  \E j \in DOMAIN toRecv[c] : toRecv'[c][i] = toRecv[c][j]
<1>1. KeptOn(c) \/ CutOn(c) \/ ShiftOn(c)
  BY DEF Behind
<1> QED
  BY <1>1, Remaining

\* Two messages left that are equal were equal before, at places as far apart.
LEMMA LeftOverTwo ==
  ASSUME SenderTypeOK, Behind, NEW c \in Channels, NEW i \in DOMAIN toRecv'[c], NEW j \in DOMAIN toRecv'[c]
  PROVE  \E k, l \in DOMAIN toRecv[c] :
           /\ toRecv'[c][i] = toRecv[c][k] /\ toRecv'[c][j] = toRecv[c][l]
           /\ (k = l => i = j) /\ (l < k => j < i)
<1>1. KeptOn(c) \/ CutOn(c) \/ ShiftOn(c)
  BY DEF Behind
<1>2. CASE KeptOn(c)
  BY <1>2 DEF KeptOn
<1>3. CASE CutOn(c)
  BY <1>3 DEF CutOn
<1>4. CASE ShiftOn(c)
  <2>1. toRecv[c] \in Seq(Message) /\ toRecv[c] # <<>> /\ toRecv'[c] = Tail(toRecv[c])
    BY <1>4 DEF SenderTypeOK, ShiftOn
  <2>2. /\ i \in Nat /\ j \in Nat /\ i + 1 \in DOMAIN toRecv[c] /\ j + 1 \in DOMAIN toRecv[c]
        /\ toRecv'[c][i] = toRecv[c][i + 1] /\ toRecv'[c][j] = toRecv[c][j + 1]
    BY <2>1
  <2>3. (i + 1 = j + 1 => i = j) /\ (j + 1 < i + 1 => j < i)
    BY <2>2
  <2> QED
    BY <2>2, <2>3
<1> QED
  BY <1>1, <1>2, <1>3, <1>4

LEMMA BehindStarts ==
  ASSUME PInv, Behind
  PROVE  StartsFresh'
<1> SUFFICES ASSUME NEW c \in Channels, NEW n \in Started(c), NEW i \in DOMAIN toRecv'[c],
                    toRecv'[c][i] = Nth(c, n, 0)
             PROVE  /\ \A p \in Paths : ~PathOf(p, c, n)'
                    /\ \A j \in DOMAIN toRecv'[c] : toRecv'[c][j] = Nth(c, n, 0) => i = j
  <2>1. plan' = plan /\ fileNo' = fileNo
    BY DEF Behind
  <2>2. \A d, m, k : Nth(d, m, k)' = Nth(d, m, k)
    BY <2>1, SamePlan
  <2> QED
    BY <2>1, <2>2 DEF StartsFresh, Started
<1>0. SenderTypeOK
  BY DEF PInv
<1>1. \A j \in DOMAIN toRecv'[c] : toRecv'[c][j] = Nth(c, n, 0) => i = j
  BY <1>0, LeftOverTwo DEF PInv, StartsFresh
<1>2. ASSUME NEW p \in Paths, PathOf(p, c, n)' PROVE FALSE
  <2>1. CASE PathOf(p, c, n)
    BY <1>0, <2>1, LeftOver DEF PInv, StartsFresh
  <2>2. CASE Takes(c, Nth(c, n, 0))
    BY <1>0, <2>2, TakenIsFirst DEF PInv, StartsFresh
  <2> QED
    BY <1>2, <2>1, <2>2, PathOrigin
<1> QED
  BY <1>1, <1>2

LEMMA IncompleteKept ==
  ASSUME PInv, Behind, NEW c \in Channels, NEW n \in Started(c), Incomplete(c, n),
         ~Takes(c, EndOf(c, n)), session'[c] = "open" \/ toRecv'[c] # <<>>
  PROVE  Incomplete(c, n)'
<1> SUFFICES ASSUME NEW p \in Paths, PathOf(p, c, n)' PROVE phase'[p] \in {"receiving", "dropped"}
  BY DEF Incomplete
<1>1. CASE PathOf(p, c, n) /\ PathKept(p) /\ info[p].chan = c
  <2>1. phase[p] \in {"receiving", "dropped"} /\ info[p].name = <<c, n>>
    BY <1>1 DEF Incomplete, PathOf
  <2> QED
    BY <1>1, <2>1 DEF PathKept
<1>2. CASE phase'[p] = "receiving"
  BY <1>2
<1> QED
  BY <1>1, <1>2, PathOrigin

LEMMA BehindEnds ==
  ASSUME PInv, Behind
  PROVE  EndsOnce'
<1>0. SenderTypeOK /\ plan' = plan /\ fileNo' = fileNo /\ sender' = sender
  BY DEF PInv, Behind
<1>e. \A d, m, k : EndOf(d, m)' = EndOf(d, m) /\ Nth(d, m, k)' = Nth(d, m, k)
  BY <1>0, SamePlan
<1>1. ASSUME NEW c \in Channels, NEW n \in Started(c), NEW i \in DOMAIN toRecv'[c],
             toRecv'[c][i] = EndOf(c, n)
      PROVE  /\ Incomplete(c, n)'
             /\ \A j \in DOMAIN toRecv'[c] : /\ toRecv'[c][j] = EndOf(c, n) => i = j
                                             /\ toRecv'[c][j] = Nth(c, n, 0) => j < i
  <2>1. \A j \in DOMAIN toRecv'[c] : /\ toRecv'[c][j] = EndOf(c, n) => i = j
                                     /\ toRecv'[c][j] = Nth(c, n, 0) => j < i
    BY <1>0, <1>1, LeftOverTwo DEF PInv, EndsOnce
  <2>2. Incomplete(c, n)
    BY <1>0, <1>1, LeftOver DEF PInv, EndsOnce
  <2>3. ~Takes(c, EndOf(c, n))
    BY <1>0, <1>1, TakenIsFirst DEF PInv, EndsOnce
  <2>4. toRecv'[c] # <<>>
    BY <1>1
  <2> QED
    BY <2>1, <2>2, <2>3, <2>4, IncompleteKept
<1>2. ASSUME NEW c \in Channels, sender[c] = "sending", session'[c] = "open"
      PROVE  /\ Incomplete(c, fileNo[c])'
             /\ \A i \in DOMAIN toRecv'[c] : toRecv'[c][i] # EndOf(c, fileNo[c])
  <2>1. session[c] = "open" /\ fileNo[c] \in Started(c)
    <3>1. fileNo[c] \in 1..Len(plan[c])
      BY <1>0, <1>2, InHandTypes DEF PInv
    <3> QED
      BY <1>2, <3>1 DEF Behind, Started
  <2>2. Incomplete(c, fileNo[c]) /\ \A i \in DOMAIN toRecv[c] : toRecv[c][i] # EndOf(c, fileNo[c])
    BY <1>2, <2>1 DEF PInv, EndsOnce
  <2>3. ~Takes(c, EndOf(c, fileNo[c]))
    <3>1. toRecv[c] # <<>> => 1 \in DOMAIN toRecv[c]
      BY <1>0 DEF SenderTypeOK
    <3> QED
      BY <2>2, <3>1 DEF Takes
  <2>4. PICK n \in Started(c) : n = fileNo[c]
    BY <2>1
  <2>5. Incomplete(c, n)'
    BY <1>2, <2>2, <2>3, <2>4, IncompleteKept
  <2>6. Incomplete(c, fileNo[c])'
    BY <1>0, <2>4, <2>5 DEF Incomplete, PathOf
  <2> QED
    BY <1>0, <2>2, <2>6, LeftOver
<1> QED
  BY <1>0, <1>e, <1>1, <1>2 DEF EndsOnce, Started

LEMMA RejectedKept ==
  ASSUME PInv, Behind, NEW c \in Channels, NEW n \in Started(c), Rejected(c, n)
  PROVE  Rejected(c, n)'
<1>0. SenderTypeOK /\ \A m, k : Nth(c, m, k)' = Nth(c, m, k)
  BY SamePlan DEF PInv, Behind
<1>1. \A i \in DOMAIN toRecv'[c] : toRecv'[c][i] # Nth(c, n, 0)
  BY <1>0, LeftOver DEF Rejected
<1>2. ASSUME NEW p \in Paths, PathOf(p, c, n)' PROVE phase'[p] = "dropped"
  <2>1. CASE PathOf(p, c, n) /\ PathKept(p)
    BY <2>1 DEF Rejected, PathKept
  <2>2. CASE Takes(c, Nth(c, n, 0))
    <3>1. 1 \in DOMAIN toRecv[c] /\ toRecv[c][1] = Nth(c, n, 0)
      BY <1>0, <2>2 DEF Takes, SenderTypeOK
    <3> QED
      BY <3>1 DEF Rejected
  <2> QED
    BY <1>2, <2>1, <2>2, PathOrigin
<1> QED
  BY <1>0, <1>1, <1>2 DEF Rejected

LEMMA DeliveredKept ==
  ASSUME PInv, Behind, NEW c \in Channels, NEW n, Delivered(c, n)
  PROVE  Delivered(c, n)'
<1>1. PICK p \in ledger \cap finals : info[p].name = <<c, n>>
  BY DEF Delivered
<1>2. p \in Paths /\ phase[p] # "free"
  BY <1>1 DEF PInv, IInv, TypeOK, PathsInOrder
<1>3. info'[p].name = <<c, n>> /\ p \in ledger' \cap finals'
  BY <1>1, <1>2 DEF Behind, PathKept
<1> QED
  BY <1>3 DEF Delivered

LEMMA BehindConclusions ==
  ASSUME PInv, Behind
  PROVE  ConclusionsTrue'
<1>1. outcome' = outcome /\ fileNo' = fileNo
  BY DEF Behind
<1> SUFFICES ASSUME NEW c \in Channels, NEW n \in FileNo
             PROVE  /\ outcome[c][n] # "none" => n \in Started(c)
                    /\ outcome[c][n] = "delivered" => Delivered(c, n)'
                    /\ outcome[c][n] = "refused" => Rejected(c, n)'
  BY <1>1 DEF ConclusionsTrue, Started
<1> QED
  BY RejectedKept, DeliveredKept DEF PInv, ConclusionsTrue

\* An answer that was true stays true.
AckTrue(c, a) ==
  \E n \in Started(c) :
    /\ a.id = plan[c][n].id
    /\ IF a.ok THEN Delivered(c, n) /\ a.size = plan[c][n].size ELSE Rejected(c, n)

LEMMA AckKept ==
  ASSUME PInv, Behind, NEW c \in Channels, NEW a, AckTrue(c, a)
  PROVE  AckTrue(c, a)'
<1>1. PICK n \in Started(c) :
        /\ a.id = plan[c][n].id
        /\ IF a.ok THEN Delivered(c, n) /\ a.size = plan[c][n].size ELSE Rejected(c, n)
  BY DEF AckTrue
<1>2. plan' = plan /\ fileNo' = fileNo
  BY DEF Behind
<1>3. IF a.ok THEN Delivered(c, n)' ELSE Rejected(c, n)'
  BY <1>1, RejectedKept, DeliveredKept
<1> QED
  BY <1>1, <1>2, <1>3 DEF AckTrue, Started

\* One answer more, or fewer, on each channel.
LEMMA AcksKept ==
  ASSUME PInv, Behind,
         \A c \in Channels : \A i \in DOMAIN acks'[c] :
           \/ \E j \in DOMAIN acks[c] : acks'[c][i] = acks[c][j]
           \/ \E a : a = acks'[c][i] /\ AckTrue(c, a)'
  PROVE  AcksTrue'
<1>1. ASSUME NEW c \in Channels, NEW i \in DOMAIN acks'[c]
      PROVE  \E a : a = acks'[c][i] /\ AckTrue(c, a)'
  <2>1. ASSUME NEW j \in DOMAIN acks[c], acks'[c][i] = acks[c][j]
        PROVE  \E a : a = acks'[c][i] /\ AckTrue(c, a)'
    <3>1. PICK a : a = acks[c][j]
      OBVIOUS
    <3>2. AckTrue(c, a)
      BY <3>1 DEF PInv, AcksTrue, AckTrue
    <3>3. AckTrue(c, a)'
      BY <3>2, AckKept
    <3> QED
      BY <2>1, <3>1, <3>3
  <2> QED
    BY <2>1
<1> QED
  BY <1>1 DEF AcksTrue, AckTrue
-----------------------------------------------------------------------------
(* Answers a step may add. *)

\* What is appended is the only new answer.
LEMMA AppendShape ==
  ASSUME TypeOK, NEW c \in Channels, NEW a, acks' = [acks EXCEPT ![c] = Append(@, a)]
  PROVE  /\ acks'[c] = Append(acks[c], a) /\ \A d \in Channels : d # c => acks'[d] = acks[d]
         /\ \A d \in Channels : \A i \in DOMAIN acks'[d] :
              (\E j \in DOMAIN acks[d] : acks'[d][i] = acks[d][j]) \/ (d = c /\ acks'[d][i] = a)
<1>1. acks \in [Channels -> Seq(Ack)] /\ acks' = [acks EXCEPT ![c] = Append(acks[c], a)]
  BY DEF TypeOK
<1>2. acks'[c] = Append(acks[c], a) /\ \A d \in Channels : d # c => acks'[d] = acks[d]
  BY <1>1
<1>3. acks[c] \in Seq(Ack)
  BY <1>1
<1>4. \A i \in DOMAIN acks'[c] : acks'[c][i] = a \/ \E j \in DOMAIN acks[c] : acks'[c][i] = acks[c][j]
  <2> SUFFICES ASSUME NEW i \in DOMAIN acks'[c]
               PROVE  acks'[c][i] = a \/ \E j \in DOMAIN acks[c] : acks'[c][i] = acks[c][j]
    OBVIOUS
  <2>1. /\ Len(acks[c]) \in Nat /\ DOMAIN acks[c] = 1..Len(acks[c])
        /\ i \in 1..(Len(acks[c]) + 1)
        /\ acks'[c][i] = IF i <= Len(acks[c]) THEN acks[c][i] ELSE a
    BY <1>2, <1>3
  <2>2. CASE i <= Len(acks[c])
    <3>1. i \in DOMAIN acks[c]
      BY <2>1, <2>2
    <3> QED
      BY <2>1, <2>2, <3>1
  <2>3. CASE ~(i <= Len(acks[c]))
    BY <2>1, <2>3
  <2> QED
    BY <2>2, <2>3
<1> QED
  BY <1>2, <1>4

\* The fields of the answer a step emits.
LEMMA RejectShape ==
  ASSUME TypeOK, NEW c \in Channels, NEW id, NEW n, Reject(c, id, n)
  PROVE  /\ \A d \in Channels : d # c => acks'[d] = acks[d]
         /\ \A d \in Channels : \A i \in DOMAIN acks'[d] :
              \/ \E j \in DOMAIN acks[d] : acks'[d][i] = acks[d][j]
              \/ d = c /\ acks'[d][i].id = id /\ acks'[d][i].size = n /\ ~acks'[d][i].ok
<1> DEFINE a == [id |-> id, size |-> n, ok |-> FALSE]
<1>1. acks' = [acks EXCEPT ![c] = Append(@, a)]
  BY DEF Reject, Emit
<1>2. a.id = id /\ a.size = n /\ ~a.ok
  OBVIOUS
<1> HIDE DEF a
<1> QED
  BY <1>1, <1>2, AppendShape

LEMMA AcceptShape ==
  ASSUME TypeOK, NEW c \in Channels, NEW id, NEW n,
         acks' = [acks EXCEPT ![c] = Append(@, [id |-> id, size |-> n, ok |-> TRUE])]
  PROVE  /\ \A d \in Channels : d # c => acks'[d] = acks[d]
         /\ \A d \in Channels : \A i \in DOMAIN acks'[d] :
              \/ \E j \in DOMAIN acks[d] : acks'[d][i] = acks[d][j]
              \/ d = c /\ acks'[d][i].id = id /\ acks'[d][i].size = n /\ acks'[d][i].ok
<1> DEFINE a == [id |-> id, size |-> n, ok |-> TRUE]
<1>1. acks' = [acks EXCEPT ![c] = Append(@, a)]
  OBVIOUS
<1>2. a.id = id /\ a.size = n /\ a.ok
  OBVIOUS
<1> HIDE DEF a
<1> QED
  BY <1>1, <1>2, AppendShape

\* A transfer that is dropped was refused for good.
LEMMA DroppedRejected ==
  ASSUME PInv, Behind, NEW p \in Paths, phase[p] # "free", phase'[p] = "dropped",
         NEW c \in Channels, NEW n \in Started(c), info[p].name = <<c, n>>
  PROVE  Rejected(c, n)'
<1>0. SenderTypeOK /\ PathOf(p, c, n) /\ \A m, k : Nth(c, m, k)' = Nth(c, m, k)
  BY SamePlan DEF PInv, Behind, PathOf
<1>2. \A i \in DOMAIN toRecv[c] : toRecv[c][i] # Nth(c, n, 0)
  BY <1>0 DEF PInv, StartsFresh
<1>3. \A i \in DOMAIN toRecv'[c] : toRecv'[c][i] # Nth(c, n, 0)
  BY <1>0, <1>2, LeftOver
<1>4. ASSUME NEW q \in Paths, PathOf(q, c, n)' PROVE phase'[q] = "dropped"
  <2>1. CASE PathOf(q, c, n)
    <3>1. q = p
      BY <2>1 DEF PInv, FilesFaithful, PathOf
    <3> QED
      BY <3>1
  <2>2. CASE Takes(c, Nth(c, n, 0))
    <3>1. 1 \in DOMAIN toRecv[c]
      BY <1>0, <2>2 DEF Takes, SenderTypeOK
    <3> QED
      BY <1>2, <2>2, <3>1 DEF Takes
  <2> QED
    BY <1>4, <2>1, <2>2, PathOrigin
<1> QED
  BY <1>0, <1>3, <1>4 DEF Rejected

\* The answer given when a transfer is dropped.
LEMMA DropAckTrue ==
  ASSUME PInv, Behind, NEW p \in Paths, phase[p] # "free", phase'[p] = "dropped",
         NEW c \in Channels, c = info[p].chan, NEW a, a.id = info[p].id, ~a.ok
  PROVE  AckTrue(c, a)'
<1>1. PICK n \in Started(c) : FileOf(p, n)
  BY DEF PInv, FilesFaithful
<1>2. info[p].name = <<c, n>> /\ info[p].id = plan[c][n].id
  BY <1>1 DEF FileOf
<1>3. Rejected(c, n)'
  BY <1>2, DroppedRejected
<1>4. plan' = plan /\ fileNo' = fileNo
  BY DEF Behind
<1> QED
  BY <1>2, <1>3, <1>4 DEF AckTrue, Started

\* The answer given when a transfer is published.
LEMMA PublishAckTrue ==
  ASSUME PInv, Behind, NEW p \in Paths, phase[p] # "free", p \in finals', p \in ledger', info' = info,
         Received(p) = info[p].size,
         NEW c \in Channels, c = info[p].chan, NEW a, a.id = info[p].id, a.size = Received(p), a.ok
  PROVE  AckTrue(c, a)'
<1>1. PICK n \in Started(c) : FileOf(p, n)
  BY DEF PInv, FilesFaithful
<1>2. info[p].name = <<c, n>> /\ info[p].id = plan[c][n].id /\ a.size = plan[c][n].size
  BY <1>1 DEF FileOf
<1>3. Delivered(c, n)'
  BY <1>2 DEF Delivered
<1>4. plan' = plan /\ fileNo' = fileNo
  BY DEF Behind
<1> QED
  BY <1>2, <1>3, <1>4 DEF AckTrue, Started

\* A step that starts no transfer and writes nothing.
LEMMA FilesKept ==
  ASSUME PInv, UNCHANGED <<info, plan, fileNo>>, \A p \in Paths : phase'[p] # "free" => phase[p] # "free"
  PROVE  FilesFaithful'
BY DEF PInv, FilesFaithful, FileOf, Started, Received, Whole

\* All that is left to show of a step behind the senders.
LEMMA BehindKeeps ==
  ASSUME PInv, Behind, IInv', SenderTypeOK', Shut', FilesFaithful', AcksTrue'
  PROVE  PInv'
BY BehindQueue, BehindInHand, BehindStarts, BehindEnds, BehindConclusions DEF PInv
-----------------------------------------------------------------------------
(* The receiver's own steps: the stream's error, the finalizations. *)

\* A path that changes neither its fields nor leaves the phases of an
\* unfinished transfer.
LEMMA PathsQuiet ==
  ASSUME info' = info,
         NEW p \in Paths, phase[p] # "free", phase'[p] = phase[p] \/ phase'[p] = "dropped"
         \/ (phase[p] \notin {"receiving", "dropped"} /\ phase'[p] # "free")
  PROVE  PathKept(p)
BY DEF PathKept

LEMMA SenderTypesKept ==
  ASSUME SenderTypeOK, UNCHANGED <<plan, sender, fileNo, sending, outcome>>, toRecv' \in [Channels -> Seq(Message)]
  PROVE  SenderTypeOK'
BY DEF SenderTypeOK

\* A transfer ends, or a write fails: the senders and the queues stay.
LEMMA PathStep ==
  ASSUME PInv, IInv', UNCHANGED svars, info' = info, session' = session,
         NEW p \in Paths, phase[p] # "free", \A q \in Paths : q # p => phase'[q] = phase[q],
         phase'[p] = phase[p] \/ phase'[p] = "dropped"
         \/ (phase[p] \notin {"receiving", "dropped"} /\ phase'[p] # "free"),
         \A c \in Channels : active'[c] = active[c] \/ active'[c] = NoPath,
         ledger \cap finals \subseteq ledger' \cap finals'
  PROVE  /\ Behind /\ SenderTypeOK' /\ FilesFaithful'
         /\ (\A c \in Channels : session[c] # "open" => acks'[c] = acks[c]) => Shut'
<1>1. UNCHANGED <<plan, sender, fileNo, sending, outcome, toRecv>>
  BY DEF svars
<1>2. \A c \in Channels : KeptOn(c)
  BY <1>1 DEF KeptOn
<1>3. \A q \in Paths : phase[q] # "free" => PathKept(q)
  BY PathsQuiet
<1>4. \A q \in Paths : phase'[q] # "free" => phase[q] # "free"
  OBVIOUS
<1>5. Behind
  BY <1>1, <1>2, <1>3, <1>4 DEF Behind
<1>6. SenderTypeOK'
  BY <1>1, SenderTypesKept DEF PInv, SenderTypeOK
<1>7. (\A c \in Channels : session[c] # "open" => acks'[c] = acks[c]) => Shut'
  BY <1>1 DEF PInv, Shut
<1> QED
  BY <1>1, <1>4, <1>5, <1>6, <1>7, FilesKept

\* The phase function of a step that moves one path.
LEMMA PhaseStep ==
  ASSUME TypeOK, NEW p \in Paths, NEW f, phase' = [phase EXCEPT ![p] = f]
  PROVE  phase'[p] = f /\ \A q \in Paths : q # p => phase'[q] = phase[q]
BY DEF TypeOK

LEMMA TypesFromPInv ==
  ASSUME PInv
  PROVE  IInv /\ TypeOK /\ SenderTypeOK /\ plan \in Workloads
BY DEF PInv, IInv, SenderTypeOK

LEMMA NonfreeTypes ==
  ASSUME PInv, NEW p \in Paths, phase[p] # "free"
  PROVE  /\ info[p] \in Transfer /\ info[p].chan \in Channels /\ info[p].id \in Ids
         /\ Received(p) \in Nat /\ info[p].size \in Nat /\ info[p].content \in Seq(Payload)
BY DEF PInv, IInv, TypeOK, Transfer, Received

\* A transfer is dropped and its refusal sent, if there is still a channel.
LEMMA DropStep ==
  ASSUME PInv, IInv', UNCHANGED svars, info' = info, session' = session,
         NEW p \in Paths, phase[p] # "free", phase' = [phase EXCEPT ![p] = "dropped"],
         \A c \in Channels : active'[c] = active[c] \/ active'[c] = NoPath,
         ledger \cap finals \subseteq ledger' \cap finals', Answer(p, FALSE)
  PROVE  PInv'
<1>1. phase'[p] = "dropped" /\ \A q \in Paths : q # p => phase'[q] = phase[q]
  BY PhaseStep, TypesFromPInv
<1>2. /\ Behind /\ SenderTypeOK' /\ FilesFaithful'
      /\ (\A c \in Channels : session[c] # "open" => acks'[c] = acks[c]) => Shut'
  BY <1>1, PathStep
<1>3. PICK c \in Channels : c = info[p].chan
  BY NonfreeTypes
<1>4. CASE session[c] = "open"
  <2>1. Reject(c, info[p].id, Received(p))
    BY <1>3, <1>4 DEF Answer, Reject
  <2>2. /\ \A d \in Channels : session[d] # "open" => acks'[d] = acks[d]
        /\ \A d \in Channels : \A i \in DOMAIN acks'[d] :
             \/ \E j \in DOMAIN acks[d] : acks'[d][i] = acks[d][j]
             \/ d = c /\ acks'[d][i].id = info[p].id /\ acks'[d][i].size = Received(p) /\ ~acks'[d][i].ok
    BY <1>4, <2>1, RejectShape, TypesFromPInv
  <2>3. ASSUME NEW d \in Channels, NEW i \in DOMAIN acks'[d]
        PROVE  \/ \E j \in DOMAIN acks[d] : acks'[d][i] = acks[d][j]
               \/ \E a : a = acks'[d][i] /\ AckTrue(d, a)'
    <3>1. CASE d = c /\ acks'[d][i].id = info[p].id /\ acks'[d][i].size = Received(p) /\ ~acks'[d][i].ok
      <4>1. PICK a : a = acks'[d][i]
        OBVIOUS
      <4> QED
        BY <1>1, <1>2, <1>3, DropAckTrue, <3>1, <4>1
    <3> QED
      BY <2>2, <3>1
  <2>4. AcksTrue'
    BY <1>2, <2>3, AcksKept
  <2> QED
    BY <1>2, <2>2, <2>4, BehindKeeps
<1>5. CASE session[c] # "open"
  <2>1. acks' = acks
    BY <1>3, <1>5 DEF Answer
  <2>2. AcksTrue'
    BY <1>2, <2>1, AcksKept
  <2> QED
    BY <1>2, <2>1, <2>2, BehindKeeps
<1> QED
  BY <1>4, <1>5

LEMMA PublishPInv ==
  ASSUME PInv, IInv', UNCHANGED svars, NEW p \in Paths, Publish(p)
  PROVE  PInv'
<1>1. phase'[p] = "published" /\ \A q \in Paths : q # p => phase'[q] = phase[q]
  BY PhaseStep, TypesFromPInv DEF Publish
<1>2. /\ phase[p] = "renamed" /\ info' = info /\ session' = session /\ active' = active
      /\ ledger \cap finals \subseteq ledger' \cap finals' /\ p \in finals' /\ p \in ledger'
      /\ Answer(p, TRUE)
  BY TypesFromPInv DEF Publish, IInv, PathsInOrder
<1>3. Received(p) = info[p].size
  BY <1>2, TypesFromPInv DEF IInv, PathsInOrder
<1>4. /\ Behind /\ SenderTypeOK' /\ FilesFaithful'
      /\ (\A c \in Channels : session[c] # "open" => acks'[c] = acks[c]) => Shut'
  BY <1>1, <1>2, PathStep
<1>5. PICK c \in Channels : c = info[p].chan
  BY <1>2, NonfreeTypes
<1>6. CASE session[c] = "open"
  <2>1. acks' = [acks EXCEPT ![c] = Append(@, [id |-> info[p].id, size |-> Received(p), ok |-> TRUE])]
    BY <1>2, <1>5, <1>6 DEF Answer, Emit
  <2>2. /\ \A d \in Channels : session[d] # "open" => acks'[d] = acks[d]
        /\ \A d \in Channels : \A i \in DOMAIN acks'[d] :
             \/ \E j \in DOMAIN acks[d] : acks'[d][i] = acks[d][j]
             \/ d = c /\ acks'[d][i].id = info[p].id /\ acks'[d][i].size = Received(p) /\ acks'[d][i].ok
    BY <1>6, <2>1, AcceptShape, TypesFromPInv
  <2>3. ASSUME NEW d \in Channels, NEW i \in DOMAIN acks'[d]
        PROVE  \/ \E j \in DOMAIN acks[d] : acks'[d][i] = acks[d][j]
               \/ \E a : a = acks'[d][i] /\ AckTrue(d, a)'
    <3>1. CASE d = c /\ acks'[d][i].id = info[p].id /\ acks'[d][i].size = Received(p) /\ acks'[d][i].ok
      <4>1. PICK a : a = acks'[d][i]
        OBVIOUS
      <4> QED
        BY <1>2, <1>3, <1>4, <1>5, PublishAckTrue, <3>1, <4>1
    <3> QED
      BY <2>2, <3>1
  <2>4. AcksTrue'
    BY <1>4, <2>3, AcksKept
  <2> QED
    BY <1>4, <2>2, <2>4, BehindKeeps
<1>7. CASE session[c] # "open"
  <2>1. acks' = acks
    BY <1>2, <1>5, <1>7 DEF Answer
  <2>2. AcksTrue'
    BY <1>4, <2>1, AcksKept
  <2> QED
    BY <1>4, <2>1, <2>2, BehindKeeps
<1> QED
  BY <1>6, <1>7

LEMMA ReceiverStepPInv ==
  ASSUME PInv, IInv', ReceiverStep
  PROVE  PInv'
<1>0. UNCHANGED svars
  BY DEF ReceiverStep
<1>1. ASSUME NEW c \in Channels, ErrorEvent(c) PROVE PInv'
  <2>1. /\ AbortActive(c) /\ Reject(c, info[active[c]].id, Received(active[c]))
        /\ info' = info /\ session' = session
    BY <1>1 DEF ErrorEvent
  <2>2. active[c] # NoPath
    BY <1>1, TypesFromPInv, ReceiverAssumption DEF ErrorEvent, TypeOK, Paths, NoPath
  <2>3. active[c] \in Paths /\ phase[active[c]] = "receiving" /\ info[active[c]].chan = c
    BY <2>2, ActiveTypes, TypesFromPInv
  <2>4. session[c] = "open"
    BY <2>2 DEF PInv, Shut
  <2>5. Answer(active[c], FALSE)
    BY <2>1, <2>3, <2>4 DEF Answer, Reject
  <2>6. phase' = [phase EXCEPT ![active[c]] = "dropped"] /\ UNCHANGED <<finals, ledger>>
        /\ \A d \in Channels : active'[d] = active[d] \/ active'[d] = NoPath
    BY <2>1, TypesFromPInv DEF AbortActive, Discard, TypeOK
  <2> QED
    BY <1>0, <2>1, <2>3, <2>5, <2>6, DropStep
<1>2. ASSUME NEW p \in Paths, FinalizeShort(p) \/ FlushFails(p) \/ RecordFails(p) PROVE PInv'
  <2>1. /\ phase[p] # "free" /\ phase' = [phase EXCEPT ![p] = "dropped"] /\ Answer(p, FALSE)
        /\ info' = info /\ session' = session /\ active' = active
    BY <1>2 DEF FinalizeShort, FlushFails, RecordFails, Discard, First
  <2>2. ledger \cap finals \subseteq ledger' \cap finals'
    <3>1. CASE RecordFails(p)
      <4>1. p \notin ledger
        BY <3>1, TypesFromPInv DEF RecordFails, IInv, PathsInOrder
      <4> QED
        BY <3>1, <4>1 DEF RecordFails
    <3> QED
      BY <1>2, <3>1 DEF FinalizeShort, FlushFails, Discard
  <2> QED
    BY <1>0, <2>1, <2>2, DropStep
<1>3. ASSUME NEW p \in Paths, FinalizeFlush(p) \/ Rename(p) PROVE PInv'
  <2>1. /\ phase[p] \in {"queued", "flushing"} /\ info' = info
        /\ \E f \in {"flushing", "renamed"} : phase' = [phase EXCEPT ![p] = f]
        /\ session' = session /\ active' = active /\ acks' = acks
        /\ ledger \cap finals \subseteq ledger' \cap finals'
    BY <1>3 DEF FinalizeFlush, Rename, First, disk
  <2>2. phase'[p] \in {"flushing", "renamed"} /\ \A q \in Paths : q # p => phase'[q] = phase[q]
    BY <2>1, PhaseStep, TypesFromPInv
  <2>3. Behind /\ SenderTypeOK' /\ FilesFaithful' /\ Shut'
    BY <1>0, <2>1, <2>2, PathStep
  <2>4. AcksTrue'
    BY <2>1, <2>3, AcksKept
  <2> QED
    BY <2>3, <2>4, BehindKeeps
<1>4. ASSUME NEW p \in Paths, Publish(p) PROVE PInv'
  BY <1>0, <1>4, PublishPInv
<1>5. ASSUME NEW p \in Paths, StreamFails(p) PROVE PInv'
  <2>1. /\ phase[p] # "free" /\ phase' = phase /\ info' = info
        /\ session' = session /\ active' = active /\ acks' = acks
        /\ ledger \cap finals \subseteq ledger' \cap finals'
    BY <1>5 DEF StreamFails, Live
  <2>2. Behind /\ SenderTypeOK' /\ FilesFaithful' /\ Shut'
    BY <1>0, <2>1, PathStep
  <2>3. AcksTrue'
    BY <2>1, <2>2, AcksKept
  <2> QED
    BY <2>2, <2>3, BehindKeeps
<1> QED
  BY <1>1, <1>2, <1>3, <1>4, <1>5 DEF ReceiverStep, Finalize
-----------------------------------------------------------------------------
(* The next message of a channel is handled. *)

LEMMA HeadKnown ==
  ASSUME PInv, NEW c \in Channels, toRecv[c] # <<>>
  PROVE  LET m == Head(toRecv[c]) IN
         \E n \in Started(c) :
           \/ m.type = "start" /\ m = Nth(c, n, 0) /\ m.id = plan[c][n].id /\ m.name = <<c, n>>
              /\ m.size = plan[c][n].size
           \/ m.type = "chunk" /\ \E k \in 1..plan[c][n].size :
                m = Nth(c, n, k) /\ m.data = <<c, n, k>> /\ Ready(c, 1, n, k - 1)
           \/ m.type = "end" /\ m = EndOf(c, n) /\ m.id = plan[c][n].id
              /\ \E k \in 0..plan[c][n].size : k = plan[c][n].size /\ Ready(c, 1, n, k)
<1>1. Head(toRecv[c]) = toRecv[c][1] /\ 1 \in DOMAIN toRecv[c]
  BY HeadIsMessage, QueueTypes, TypesFromPInv
<1>2. PICK n \in Started(c) :
        \/ toRecv[c][1] = Nth(c, n, 0)
        \/ \E k \in 1..plan[c][n].size : toRecv[c][1] = Nth(c, n, k) /\ Ready(c, 1, n, k - 1)
        \/ \E k \in 0..plan[c][n].size : k = plan[c][n].size /\ toRecv[c][1] = EndOf(c, n) /\ Ready(c, 1, n, k)
  BY <1>1 DEF PInv, QueueOrdered
<1>3. CASE toRecv[c][1] = Nth(c, n, 0)
  BY <1>1, <1>3, NthFields
<1>4. ASSUME NEW k \in 1..plan[c][n].size, toRecv[c][1] = Nth(c, n, k), Ready(c, 1, n, k - 1)
      PROVE  /\ toRecv[c][1].type = "chunk" /\ toRecv[c][1].data = <<c, n, k>>
  <2>1. k # 0
    BY TypesFromPInv, StartedTypes
  <2> QED
    BY <1>4, <2>1, NthFields
<1>5. CASE \E k \in 0..plan[c][n].size : k = plan[c][n].size /\ toRecv[c][1] = EndOf(c, n) /\ Ready(c, 1, n, k)
  BY <1>1, <1>5, EndFields
<1> QED
  BY <1>1, <1>2, <1>3, <1>4, <1>5

\* The senders' part of a delivery.
Handled(c) ==
  /\ toRecv[c] # <<>> /\ toRecv' = [toRecv EXCEPT ![c] = Tail(toRecv[c])]
  /\ UNCHANGED <<plan, sender, fileNo, sending, outcome>>
  /\ session[c] = "open" /\ session' = session

LEMMA HandledTypes ==
  ASSUME PInv, NEW c \in Channels, Handled(c)
  PROVE  /\ SenderTypeOK' /\ toRecv'[c] = Tail(toRecv[c]) /\ Head(toRecv[c]) = toRecv[c][1]
         /\ \A d \in Channels : d # c => toRecv'[d] = toRecv[d]
         /\ Takes(c, toRecv[c][1])
<1>1. SenderTypeOK /\ toRecv \in [Channels -> Seq(Message)]
  BY TypesFromPInv DEF SenderTypeOK
<1>2. Tail(toRecv[c]) \in Seq(Message) /\ Head(toRecv[c]) = toRecv[c][1]
  BY <1>1, HeadIsMessage DEF Handled
<1>3. toRecv' \in [Channels -> Seq(Message)] /\ toRecv'[c] = Tail(toRecv[c])
      /\ \A d \in Channels : d # c => toRecv'[d] = toRecv[d]
  BY <1>1, <1>2 DEF Handled
<1>4. SenderTypeOK'
  BY <1>1, <1>3, SenderTypesKept DEF Handled
<1> QED
  BY <1>2, <1>3, <1>4 DEF Takes, Handled

\* A message is taken that writes nothing; its channel then receives nothing.
LEMMA TakeStep ==
  ASSUME PInv, NEW c \in Channels, Handled(c), info' = info,
         active'[c] = NoPath, \A d \in Channels : d # c => active'[d] = active[d] /\ acks'[d] = acks[d],
         \A p \in Paths :
           \/ phase'[p] = phase[p]
           \/ phase'[p] = "dropped" /\ phase[p] # "free"
           \/ /\ phase[p] = "receiving" /\ phase'[p] = "queued" /\ info[p].chan = c
              /\ \E n \in Started(c) : info[p].name = <<c, n>> /\ toRecv[c][1] = EndOf(c, n),
         UNCHANGED <<finals, ledger>>
  PROVE  Behind /\ SenderTypeOK' /\ FilesFaithful' /\ Shut'
<1>1. /\ SenderTypeOK' /\ toRecv'[c] = Tail(toRecv[c]) /\ toRecv[c] # <<>>
      /\ \A d \in Channels : d # c => toRecv'[d] = toRecv[d]
      /\ Takes(c, toRecv[c][1]) /\ session' = session /\ session[c] = "open"
  BY HandledTypes DEF Handled
<1>2. ShiftOn(c) /\ \A d \in Channels : d # c => KeptOn(d)
  BY <1>1 DEF ShiftOn, KeptOn
<1>3. \A p \in Paths : phase[p] # "free" => PathKept(p)
  <2> SUFFICES ASSUME NEW p \in Paths, phase[p] # "free" PROVE PathKept(p)
    OBVIOUS
  <2>1. CASE phase'[p] = phase[p] \/ phase'[p] = "dropped"
    BY <2>1 DEF PathKept
  <2>2. CASE /\ phase[p] = "receiving" /\ phase'[p] = "queued" /\ info[p].chan = c
             /\ \E n \in Started(c) : info[p].name = <<c, n>> /\ toRecv[c][1] = EndOf(c, n)
    <3>1. PICK n \in Started(c) : info[p].name = <<c, n>> /\ toRecv[c][1] = EndOf(c, n)
      BY <2>2
    <3>2. Takes(c, EndOf(c, n))
      BY <1>1, <3>1
    <3> QED
      BY <2>2, <3>1, <3>2 DEF PathKept
  <2> QED
    BY <2>1, <2>2
<1>4. \A p \in Paths : phase'[p] # "free" => phase[p] # "free"
  OBVIOUS
<1>5. Behind
  BY <1>1, <1>2, <1>3, <1>4 DEF Behind, Handled
<1>6. FilesFaithful'
  BY <1>4, FilesKept DEF Handled
<1>7. Shut'
  BY <1>1 DEF PInv, Shut
<1> QED
  BY <1>1, <1>5, <1>6, <1>7

\* A start that opened no transfer will never open one.
LEMMA RefuseAckTrue ==
  ASSUME PInv, Behind, NEW c \in Channels, NEW n \in Started(c), Takes(c, Nth(c, n, 0)),
         \A p \in Paths : phase'[p] # "free" => phase[p] # "free",
         NEW a, a.id = plan[c][n].id, ~a.ok
  PROVE  AckTrue(c, a)'
<1>0. SenderTypeOK /\ plan' = plan /\ fileNo' = fileNo
  BY TypesFromPInv DEF Behind
<1>1. 1 \in DOMAIN toRecv[c] /\ toRecv[c][1] = Nth(c, n, 0)
  BY <1>0 DEF Takes, SenderTypeOK
<1>2. \A p \in Paths : ~PathOf(p, c, n)
  BY <1>1 DEF PInv, StartsFresh
<1>3. \A p \in Paths : ~PathOf(p, c, n)'
  <2> SUFFICES ASSUME NEW p \in Paths, PathOf(p, c, n)' PROVE FALSE
    OBVIOUS
  <2>1. phase[p] # "free"
    BY DEF PathOf
  <2> QED
    BY <1>2, <2>1, PathOrigin
<1>4. \A i \in DOMAIN toRecv'[c] : toRecv'[c][i] # Nth(c, n, 0)
  <2> SUFFICES ASSUME NEW i \in DOMAIN toRecv'[c], toRecv'[c][i] = Nth(c, n, 0) PROVE FALSE
    OBVIOUS
  <2>1. /\ i + 1 \in DOMAIN toRecv[c] /\ toRecv[c][i + 1] = Nth(c, n, 0) /\ i + 1 # 1
    BY <1>0, TakenIsFirst
  <2> QED
    BY <1>1, <2>1 DEF PInv, StartsFresh
<1>5. \A k : Nth(c, n, k)' = Nth(c, n, k)
  BY <1>0, SamePlan
<1>6. Rejected(c, n)'
  BY <1>3, <1>4, <1>5 DEF Rejected
<1> QED
  BY <1>0, <1>6 DEF AckTrue, Started

\* An end that finds no transfer is of a file that is gone.
LEMMA UnknownAckTrue ==
  ASSUME PInv, Behind, NEW c \in Channels, NEW n \in Started(c), Takes(c, EndOf(c, n)), active[c] = NoPath,
         phase' = phase, NEW a, a.id = plan[c][n].id, ~a.ok
  PROVE  AckTrue(c, a)'
<1>0. SenderTypeOK /\ plan' = plan /\ fileNo' = fileNo /\ IInv
  BY TypesFromPInv DEF Behind
<1>1. 1 \in DOMAIN toRecv[c] /\ toRecv[c][1] = EndOf(c, n)
  BY <1>0 DEF Takes, SenderTypeOK
<1>2. Incomplete(c, n) /\ \A j \in DOMAIN toRecv[c] : toRecv[c][j] = Nth(c, n, 0) => j < 1
  BY <1>1 DEF PInv, EndsOnce
<1>3. \A i \in DOMAIN toRecv'[c] : toRecv'[c][i] # Nth(c, n, 0)
  <2> SUFFICES ASSUME NEW i \in DOMAIN toRecv'[c], toRecv'[c][i] = Nth(c, n, 0) PROVE FALSE
    OBVIOUS
  <2>1. /\ i + 1 \in DOMAIN toRecv[c] /\ toRecv[c][i + 1] = Nth(c, n, 0) /\ i + 1 # 1
    BY <1>0, TakenIsFirst
  <2> QED
    BY <1>0, <1>2, <2>1, QueueTypes
<1>4. ASSUME NEW p \in Paths, PathOf(p, c, n)' PROVE phase'[p] = "dropped"
  <2>1. PathOf(p, c, n) /\ info[p].chan = c
    <3>1. ~Takes(c, Nth(c, n, 0))
      BY <1>0, Distinct DEF Takes, SenderTypeOK
    <3> QED
      BY <1>4, <3>1, PathOrigin
  <2>2. phase[p] # "receiving"
    BY <1>0, <2>1 DEF IInv, OneReceiver, NoPath, Paths
  <2> QED
    BY <1>2, <2>1, <2>2 DEF Incomplete
<1>5. \A k : Nth(c, n, k)' = Nth(c, n, k)
  BY <1>0, SamePlan
<1>6. Rejected(c, n)'
  BY <1>3, <1>4, <1>5 DEF Rejected
<1> QED
  BY <1>0, <1>6 DEF AckTrue, Started
LEMMA WholeEmpty ==
  ASSUME NEW a
  PROVE  Whole(a, 0) = <<>>
BY DEF Whole

LEMMA WholeGrows ==
  ASSUME NEW a, NEW k \in Nat, k >= 1
  PROVE  Append(Whole(a, k - 1), <<a[1], a[2], k>>) = Whole(a, k)
<1> DEFINE w == Whole(a, k - 1)
           e == <<a[1], a[2], k>>
<1>1. w \in Seq({<<a[1], a[2], j>> : j \in Nat}) /\ Len(w) = k - 1
      /\ \A j \in 1..(k - 1) : w[j] = <<a[1], a[2], j>>
  BY DEF Whole
<1> HIDE DEF w
<1>2. /\ DOMAIN Append(w, e) = 1..k /\ Append(w, e) = [j \in 1..k |-> Append(w, e)[j]]
      /\ \A j \in 1..k : Append(w, e)[j] = IF j <= k - 1 THEN w[j] ELSE e
  BY <1>1
<1>3. \A j \in 1..k : Append(w, e)[j] = <<a[1], a[2], j>>
  <2> SUFFICES ASSUME NEW j \in 1..k PROVE Append(w, e)[j] = <<a[1], a[2], j>>
    OBVIOUS
  <2>1. CASE j <= k - 1
    BY <1>1, <1>2, <2>1
  <2>2. CASE ~(j <= k - 1)
    <3>1. j = k
      BY <2>2
    <3> QED
      BY <1>2, <2>2, <3>1
  <2> QED
    BY <2>1, <2>2
<1>4. Append(w, e) = [j \in 1..k |-> <<a[1], a[2], j>>]
  BY <1>2, <1>3
<1> QED
  BY <1>4 DEF Whole, w

LEMMA ChunkWrittenPInv ==
  ASSUME PInv, IInv', NEW c \in Channels, Handled(c), ChunkWritten(c, Head(toRecv[c]))
  PROVE  PInv'
<1> DEFINE m == Head(toRecv[c])
<1>0. SenderTypeOK /\ plan \in Workloads /\ TypeOK /\ IInv /\ active[c] # NoPath /\ m.type = "chunk"
  BY TypesFromPInv DEF ChunkWritten
<1>1. PICK p \in Paths : p = active[c] /\ phase[p] = "receiving" /\ info[p] \in Transfer /\ info[p].chan = c
  BY <1>0, ActiveTypes
<1>n. PICK n \in Started(c) : \E k \in 1..plan[c][n].size :
        m = Nth(c, n, k) /\ m.data = <<c, n, k>> /\ Ready(c, 1, n, k - 1)
  BY <1>0, HeadKnown DEF Handled
<1>2. PICK k \in 1..plan[c][n].size :
        m = Nth(c, n, k) /\ m.data = <<c, n, k>> /\ Ready(c, 1, n, k - 1)
  BY <1>n
<1>3. info[p].name = <<c, n>> /\ Received(p) = k - 1 /\ k \in Nat /\ k >= 1
  BY <1>0, <1>1, <1>2, StartedTypes DEF Ready
<1>4. /\ info'[p] = [info[p] EXCEPT !.content = Append(info[p].content, <<c, n, k>>)]
      /\ \A q \in Paths : q # p => info'[q] = info[q]
      /\ UNCHANGED <<session, active, phase, finals, ledger, acks>>
  BY <1>0, <1>1, <1>2 DEF ChunkWritten, TypeOK, disk
<1>5. /\ info'[p].chan = c /\ info'[p].name = <<c, n>> /\ info'[p].id = info[p].id
      /\ info'[p].size = info[p].size /\ info'[p].content = Append(info[p].content, <<c, n, k>>)
  BY <1>1, <1>3, <1>4 DEF Transfer
<1>6. Len(info'[p].content) = k
  <2>1. Len(info[p].content) = k - 1 /\ info[p].content \in Seq(Payload)
    BY <1>1, <1>3 DEF Received, Transfer
  <2> QED
    BY <1>3, <1>5, <2>1
<1> HIDE DEF m
<1>7. /\ SenderTypeOK' /\ toRecv'[c] = Tail(toRecv[c]) /\ toRecv[c] # <<>> /\ m = toRecv[c][1]
      /\ \A d \in Channels : d # c => toRecv'[d] = toRecv[d]
      /\ session' = session /\ session[c] = "open"
  BY HandledTypes DEF Handled, m
<1>8. ShiftOn(c)
  <2> SUFFICES ASSUME NEW i \in Started(c), NEW j \in 0..plan[c][i].size, m = Nth(c, i, j)
               PROVE  info'[active'[c]].name = <<c, i>> /\ Len(info'[active'[c]].content) = j
    BY <1>7 DEF ShiftOn
  <2>1. i = n /\ j = k
    <3>1. Nth(c, i, j) = Nth(c, n, k)
      BY <1>2
    <3> QED
      BY <1>0, <3>1, Distinct
  <2> QED
    BY <1>1, <1>4, <1>5, <1>6, <2>1
<1>9. \A d \in Channels : d # c => KeptOn(d)
  <2> SUFFICES ASSUME NEW d \in Channels, d # c, active[d] # NoPath PROVE info'[active[d]] = info[active[d]]
    BY <1>4, <1>7 DEF KeptOn
  <2>1. active[d] \in Paths /\ info[active[d]].chan = d
    BY <1>0, ActiveTypes
  <2> QED
    BY <1>1, <1>4, <2>1
<1>10. \A q \in Paths : phase[q] # "free" => PathKept(q)
  <2>1. p \notin finals
    BY <1>0, <1>1 DEF IInv, PathsInOrder
  <2> QED
    BY <1>1, <1>3, <1>4, <1>5, <2>1 DEF PathKept
<1>11. Behind
  BY <1>4, <1>7, <1>8, <1>9, <1>10 DEF Behind, Handled
<1>12. FilesFaithful'
  <2>1. ASSUME NEW q \in Paths, phase'[q] # "free"
        PROVE  \E i \in Started(info[q].chan) : FileOf(q, i)'
    <3>1. CASE q # p
      <4>1. info'[q] = info[q] /\ phase[q] # "free" /\ plan' = plan
        BY <1>4, <2>1, <3>1 DEF Handled
      <4>2. PICK i \in Started(info[q].chan) : FileOf(q, i)
        BY <4>1 DEF PInv, FilesFaithful
      <4> QED
        BY <4>1, <4>2 DEF FileOf, Received
    <3>2. CASE q = p
      <4>1. PICK i \in Started(c) : FileOf(p, i)
        BY <1>1 DEF PInv, FilesFaithful
      <4>2. /\ i = n /\ info[p].id = plan[c][n].id /\ info[p].size = plan[c][n].size
            /\ info[p].content = Whole(<<c, n>>, k - 1)
        BY <1>1, <1>3, <4>1 DEF FileOf
      <4>3. info'[p].content = Whole(<<c, n>>, k)
        BY <1>3, <1>5, <4>2, WholeGrows
      <4>4. FileOf(p, n)'
        BY <1>5, <1>6, <4>2, <4>3 DEF FileOf, Received, Handled, Whole
      <4> QED
        BY <1>1, <3>2, <4>4
    <3> QED
      BY <3>1, <3>2
  <2>2. \A q \in Paths : phase'[q] # "free" =>
          phase[q] # "free" /\ info'[q].chan = info[q].chan /\ info'[q].name = info[q].name
    BY <1>1, <1>3, <1>4, <1>5
  <2> QED
    BY <2>1, <2>2 DEF PInv, FilesFaithful, Started, Handled
<1>13. Shut'
  BY <1>4, <1>7 DEF PInv, Shut
<1>14. AcksTrue'
  BY <1>4, <1>11, AcksKept
<1> QED
  BY <1>7, <1>11, <1>12, <1>13, <1>14, BehindKeeps

LEMMA StartAcceptedPInv ==
  ASSUME PInv, IInv', NEW c \in Channels, Handled(c), StartAccepted(c, Head(toRecv[c]))
  PROVE  PInv'
<1> DEFINE m == Head(toRecv[c])
<1>0. SenderTypeOK /\ plan \in Workloads /\ TypeOK /\ IInv /\ m.type = "start"
  BY TypesFromPInv DEF StartAccepted
<1>1. PICK p \in Paths : p = nextPath /\ phase[p] = "free"
  BY <1>0 DEF StartAccepted, IInv, PathsInOrder, Paths
<1>2. PICK n \in Started(c) : /\ m = Nth(c, n, 0) /\ m.id = plan[c][n].id /\ m.name = <<c, n>>
                              /\ m.size = plan[c][n].size
  BY <1>0, HeadKnown DEF Handled
<1>3. /\ info'[p] = [chan |-> c, id |-> m.id, name |-> m.name, size |-> m.size, content |-> <<>>]
      /\ \A q \in Paths : q # p => info'[q] = info[q]
      /\ phase'[p] = "receiving" /\ \A q \in Paths : q # p => phase'[q] = phase[q]
      /\ active'[c] = p /\ \A d \in Channels : d # c => active'[d] = active[d]
      /\ UNCHANGED <<finals, ledger, acks>>
  BY <1>0, <1>1 DEF StartAccepted, TypeOK
<1>4. /\ info'[p].chan = c /\ info'[p].name = <<c, n>> /\ info'[p].id = plan[c][n].id
      /\ info'[p].size = plan[c][n].size /\ info'[p].content = <<>>
  BY <1>2, <1>3
<1> HIDE DEF m
<1>5. /\ SenderTypeOK' /\ toRecv'[c] = Tail(toRecv[c]) /\ toRecv[c] # <<>> /\ m = toRecv[c][1]
      /\ \A d \in Channels : d # c => toRecv'[d] = toRecv[d]
      /\ session' = session /\ session[c] = "open" /\ Takes(c, m)
  BY HandledTypes DEF Handled, m
<1>6. ShiftOn(c)
  <2> SUFFICES ASSUME NEW i \in Started(c), NEW j \in 0..plan[c][i].size, m = Nth(c, i, j)
               PROVE  info'[active'[c]].name = <<c, i>> /\ Len(info'[active'[c]].content) = j
    BY <1>5 DEF ShiftOn
  <2>1. i = n /\ j = 0
    <3>1. Nth(c, i, j) = Nth(c, n, 0)
      BY <1>2
    <3> QED
      BY <1>0, <3>1, Distinct
  <2> QED
    BY <1>3, <1>4, <2>1
<1>7. \A d \in Channels : d # c => KeptOn(d)
  <2> SUFFICES ASSUME NEW d \in Channels, d # c, active[d] # NoPath PROVE info'[active[d]] = info[active[d]]
    BY <1>3, <1>5 DEF KeptOn
  <2>1. active[d] \in Paths /\ phase[active[d]] = "receiving"
    BY <1>0, ActiveTypes
  <2> QED
    BY <1>1, <1>3, <2>1
<1>8. \A q \in Paths : phase[q] # "free" => PathKept(q)
  BY <1>1, <1>3 DEF PathKept
<1>9. \A q \in Paths : (phase[q] = "free" /\ phase'[q] # "free") => PathNew(q)
  BY <1>2, <1>3, <1>4, <1>5 DEF PathNew
<1>10. Behind
  BY <1>3, <1>5, <1>6, <1>7, <1>8, <1>9 DEF Behind, Handled
<1>11. FilesFaithful'
  <2>1. ASSUME NEW q \in Paths, phase'[q] # "free"
        PROVE  \E i \in Started(info'[q].chan) : FileOf(q, i)'
    <3>1. CASE q # p
      <4>1. info'[q] = info[q] /\ phase[q] # "free" /\ plan' = plan
        BY <1>3, <2>1, <3>1 DEF Handled
      <4>2. PICK i \in Started(info[q].chan) : FileOf(q, i)
        BY <4>1 DEF PInv, FilesFaithful
      <4> QED
        BY <4>1, <4>2 DEF FileOf, Received
    <3>2. CASE q = p
      <4>1. Len(info'[p].content) = 0 /\ info'[p].content = Whole(<<c, n>>, 0)
        BY <1>4, WholeEmpty
      <4>2. FileOf(p, n)'
        BY <1>4, <4>1 DEF FileOf, Received, Handled, Whole
      <4> QED
        BY <1>4, <3>2, <4>2
    <3> QED
      BY <3>1, <3>2
  <2>2. \A q \in Paths : ~PathOf(q, c, n)
    <3>1. 1 \in DOMAIN toRecv[c]
      BY <1>0, <1>5, HeadIsMessage, QueueTypes
    <3> QED
      BY <1>2, <1>5, <3>1 DEF PInv, StartsFresh
  <2>3. ASSUME NEW q \in Paths, NEW r \in Paths, phase'[q] # "free", phase'[r] # "free",
               info'[q].name = info'[r].name
        PROVE  q = r
    <3>1. CASE q # p /\ r # p
      BY <1>3, <2>3, <3>1 DEF PInv, FilesFaithful
    <3>2. CASE q = p /\ r # p
      BY <1>3, <1>4, <2>2, <2>3, <3>2 DEF PathOf
    <3>3. CASE q # p /\ r = p
      BY <1>3, <1>4, <2>2, <2>3, <3>3 DEF PathOf
    <3> QED
      BY <3>1, <3>2, <3>3
  <2> QED
    BY <2>1, <2>3 DEF FilesFaithful, Started, Handled
<1>12. Shut'
  BY <1>3, <1>5 DEF PInv, Shut
<1>13. AcksTrue'
  BY <1>3, <1>10, AcksKept
<1> QED
  BY <1>5, <1>10, <1>11, <1>12, <1>13, BehindKeeps
\* The active transfer of the channel is dropped by the message at its head.
LEMMA AbortTakes ==
  ASSUME PInv, NEW c \in Channels, Handled(c), active[c] # NoPath, AbortActive(c), info' = info,
         \A d \in Channels : d # c => acks'[d] = acks[d]
  PROVE  /\ Behind /\ SenderTypeOK' /\ FilesFaithful' /\ Shut'
         /\ active[c] \in Paths /\ info[active[c]].chan = c
         /\ phase[active[c]] # "free" /\ phase'[active[c]] = "dropped"
         /\ \A p \in Paths : phase'[p] # "free" => phase[p] # "free"
<1>1. /\ active[c] \in Paths /\ phase[active[c]] = "receiving" /\ info[active[c]].chan = c
  BY ActiveTypes, TypesFromPInv
<1>2. /\ phase'[active[c]] = "dropped" /\ \A q \in Paths : q # active[c] => phase'[q] = phase[q]
      /\ active'[c] = NoPath /\ \A d \in Channels : d # c => active'[d] = active[d]
      /\ UNCHANGED <<finals, ledger>>
  BY <1>1, TypesFromPInv DEF AbortActive, Discard, TypeOK
<1>3. \A p \in Paths : phase'[p] = phase[p] \/ (phase'[p] = "dropped" /\ phase[p] # "free")
  BY <1>1, <1>2
<1> QED
  BY <1>1, <1>2, <1>3, TakeStep

LEMMA StartOverlappingPInv ==
  ASSUME PInv, IInv', NEW c \in Channels, Handled(c), StartOverlapping(c, Head(toRecv[c]))
  PROVE  PInv'
<1> DEFINE m == Head(toRecv[c])
           p == active[c]
           a == [id |-> info[p].id, size |-> Received(p), ok |-> FALSE]
           b == [id |-> m.id, size |-> 0, ok |-> FALSE]
<1>1. /\ m.type = "start" /\ p # NoPath /\ AbortActive(c) /\ info' = info
      /\ acks' = [acks EXCEPT ![c] = Append(Append(@, a), b)]
  BY DEF StartOverlapping
<1>2. a.id = info[p].id /\ ~a.ok /\ b.id = m.id /\ ~b.ok
  OBVIOUS
<1> HIDE DEF a, b
<1>3. acks \in [Channels -> Seq(Ack)]
  BY TypesFromPInv DEF TypeOK
<1>4. /\ acks'[c] = Append(Append(acks[c], a), b)
      /\ \A d \in Channels : d # c => acks'[d] = acks[d]
  BY <1>1, <1>3
<1>5. \A i \in DOMAIN acks'[c] :
        acks'[c][i] = a \/ acks'[c][i] = b \/ \E j \in DOMAIN acks[c] : acks'[c][i] = acks[c][j]
  <2>1. acks[c] \in Seq(Ack)
    BY <1>3
  <2> SUFFICES ASSUME NEW i \in DOMAIN acks'[c]
               PROVE  acks'[c][i] = a \/ acks'[c][i] = b \/ \E j \in DOMAIN acks[c] : acks'[c][i] = acks[c][j]
    OBVIOUS
  <2>2. /\ Len(acks[c]) \in Nat /\ DOMAIN acks[c] = 1..Len(acks[c])
        /\ i \in 1..(Len(acks[c]) + 2)
        /\ acks'[c][i] = IF i <= Len(acks[c]) THEN acks[c][i]
                         ELSE IF i <= Len(acks[c]) + 1 THEN a ELSE b
    BY <1>4, <2>1
  <2>3. CASE i <= Len(acks[c])
    <3>1. i \in DOMAIN acks[c]
      BY <2>2, <2>3
    <3> QED
      BY <2>2, <2>3, <3>1
  <2>4. CASE ~(i <= Len(acks[c]))
    BY <2>2, <2>4
  <2> QED
    BY <2>3, <2>4
<1>6. /\ Behind /\ SenderTypeOK' /\ FilesFaithful' /\ Shut'
      /\ p \in Paths /\ info[p].chan = c /\ phase[p] # "free" /\ phase'[p] = "dropped"
      /\ \A q \in Paths : phase'[q] # "free" => phase[q] # "free"
  BY <1>1, <1>4, AbortTakes
<1>7. PICK n \in Started(c) : m = Nth(c, n, 0) /\ m.id = plan[c][n].id
  BY <1>1, HeadKnown DEF Handled
<1>8. Takes(c, Nth(c, n, 0))
  BY <1>7, HandledTypes
<1>9. PICK x : x = a
  OBVIOUS
<1>10. PICK y : y = b
  OBVIOUS
<1>11. AckTrue(c, x)'
  BY <1>2, <1>6, <1>9, DropAckTrue
<1>12. AckTrue(c, y)'
  BY <1>2, <1>6, <1>7, <1>8, <1>10, RefuseAckTrue
<1>13. AcksTrue'
  <2>1. \A d \in Channels : \A i \in DOMAIN acks'[d] :
          \/ \E j \in DOMAIN acks[d] : acks'[d][i] = acks[d][j]
          \/ d = c /\ (acks'[d][i] = x \/ acks'[d][i] = y)
    BY <1>4, <1>5, <1>9, <1>10
  <2> QED
    BY <1>6, <1>11, <1>12, <2>1, AcksKept
<1> QED
  BY <1>6, <1>13, BehindKeeps

LEMMA ChunkOverflowsPInv ==
  ASSUME PInv, IInv', NEW c \in Channels, Handled(c), ChunkOverflows(c, Head(toRecv[c]))
  PROVE  PInv'
<1>1. /\ active[c] # NoPath /\ AbortActive(c) /\ info' = info
      /\ Reject(c, info[active[c]].id, Received(active[c]))
  BY DEF ChunkOverflows
<1>2. /\ \A d \in Channels : d # c => acks'[d] = acks[d]
      /\ \A d \in Channels : \A i \in DOMAIN acks'[d] :
           \/ \E j \in DOMAIN acks[d] : acks'[d][i] = acks[d][j]
           \/ d = c /\ acks'[d][i].id = info[active[c]].id /\ ~acks'[d][i].ok
  BY <1>1, RejectShape, TypesFromPInv
<1>3. /\ Behind /\ SenderTypeOK' /\ FilesFaithful' /\ Shut'
      /\ active[c] \in Paths /\ info[active[c]].chan = c
      /\ phase[active[c]] # "free" /\ phase'[active[c]] = "dropped"
  BY <1>1, <1>2, AbortTakes
<1>4. ASSUME NEW d \in Channels, NEW i \in DOMAIN acks'[d]
      PROVE  \/ \E j \in DOMAIN acks[d] : acks'[d][i] = acks[d][j]
             \/ \E a : a = acks'[d][i] /\ AckTrue(d, a)'
  <2>1. CASE d = c /\ acks'[d][i].id = info[active[c]].id /\ ~acks'[d][i].ok
    <3>1. PICK a : a = acks'[d][i]
      OBVIOUS
    <3> QED
      BY <1>3, <2>1, <3>1, DropAckTrue
  <2> QED
    BY <1>2, <2>1
<1>5. AcksTrue'
  BY <1>3, <1>4, AcksKept
<1> QED
  BY <1>3, <1>5, BehindKeeps

LEMMA StartRefusedPInv ==
  ASSUME PInv, IInv', NEW c \in Channels, Handled(c), StartRefused(c, Head(toRecv[c]))
  PROVE  PInv'
<1> DEFINE m == Head(toRecv[c])
<1>1. /\ m.type = "start" /\ active[c] = NoPath /\ Reject(c, m.id, 0)
      /\ UNCHANGED <<session, active, phase, info, finals, ledger>>
  BY DEF StartRefused, disk
<1>2. /\ \A d \in Channels : d # c => acks'[d] = acks[d]
      /\ \A d \in Channels : \A i \in DOMAIN acks'[d] :
           \/ \E j \in DOMAIN acks[d] : acks'[d][i] = acks[d][j]
           \/ d = c /\ acks'[d][i].id = m.id /\ ~acks'[d][i].ok
  BY <1>1, RejectShape, TypesFromPInv
<1>3. Behind /\ SenderTypeOK' /\ FilesFaithful' /\ Shut'
  BY <1>1, <1>2, TakeStep
<1>4. PICK n \in Started(c) : m = Nth(c, n, 0) /\ m.id = plan[c][n].id
  BY <1>1, HeadKnown DEF Handled
<1>5. Takes(c, Nth(c, n, 0))
  BY <1>4, HandledTypes
<1>6. ASSUME NEW d \in Channels, NEW i \in DOMAIN acks'[d]
      PROVE  \/ \E j \in DOMAIN acks[d] : acks'[d][i] = acks[d][j]
             \/ \E a : a = acks'[d][i] /\ AckTrue(d, a)'
  <2>1. CASE d = c /\ acks'[d][i].id = m.id /\ ~acks'[d][i].ok
    <3>1. PICK a : a = acks'[d][i]
      OBVIOUS
    <3> QED
      BY <1>1, <1>3, <1>4, <1>5, <2>1, <3>1, RefuseAckTrue
  <2> QED
    BY <1>2, <2>1
<1>7. AcksTrue'
  BY <1>3, <1>6, AcksKept
<1> QED
  BY <1>3, <1>7, BehindKeeps

\* What is active when an end comes is of the file that ends.
LEMMA EndFinds ==
  ASSUME PInv, NEW c \in Channels, toRecv[c] # <<>>, Head(toRecv[c]).type = "end", active[c] # NoPath
  PROVE  \E n \in Started(c) :
           /\ Head(toRecv[c]) = EndOf(c, n) /\ Head(toRecv[c]).id = plan[c][n].id
           /\ info[active[c]].name = <<c, n>> /\ info[active[c]].id = plan[c][n].id
<1>1. PICK n \in Started(c) :
        /\ Head(toRecv[c]) = EndOf(c, n) /\ Head(toRecv[c]).id = plan[c][n].id
        /\ \E k \in 0..plan[c][n].size : k = plan[c][n].size /\ Ready(c, 1, n, k)
  BY HeadKnown
<1>2. info[active[c]].name = <<c, n>>
  BY <1>1 DEF Ready
<1>3. active[c] \in Paths /\ phase[active[c]] # "free" /\ info[active[c]].chan = c
  BY ActiveTypes, TypesFromPInv
<1>4. PICK k \in Started(c) : FileOf(active[c], k)
  BY <1>3 DEF PInv, FilesFaithful
<1>5. k = n /\ info[active[c]].id = plan[c][k].id
  BY <1>2, <1>3, <1>4 DEF FileOf
<1> QED
  BY <1>1, <1>2, <1>5

LEMMA EndUnknownPInv ==
  ASSUME PInv, IInv', NEW c \in Channels, Handled(c), EndUnknown(c, Head(toRecv[c]))
  PROVE  PInv'
<1> DEFINE m == Head(toRecv[c])
<1>1. /\ m.type = "end" /\ ~(active[c] # NoPath /\ m.id = info[active[c]].id)
      /\ (IF m.id \in Ids THEN Reject(c, m.id, 0) ELSE UNCHANGED acks)
      /\ UNCHANGED <<session, active, phase, info, finals, ledger>>
  BY DEF EndUnknown, disk
<1>2. active[c] = NoPath
  BY <1>1, EndFinds DEF Handled
<1>3. PICK n \in Started(c) : m = EndOf(c, n) /\ m.id = plan[c][n].id
  BY <1>1, HeadKnown DEF Handled
<1>4. m.id \in Ids
  BY <1>3, StartedTypes, TypesFromPInv
<1>5. /\ \A d \in Channels : d # c => acks'[d] = acks[d]
      /\ \A d \in Channels : \A i \in DOMAIN acks'[d] :
           \/ \E j \in DOMAIN acks[d] : acks'[d][i] = acks[d][j]
           \/ d = c /\ acks'[d][i].id = m.id /\ ~acks'[d][i].ok
  BY <1>1, <1>4, RejectShape, TypesFromPInv
<1>6. Behind /\ SenderTypeOK' /\ FilesFaithful' /\ Shut'
  BY <1>1, <1>2, <1>5, TakeStep
<1>7. Takes(c, EndOf(c, n))
  BY <1>3, HandledTypes
<1>8. ASSUME NEW d \in Channels, NEW i \in DOMAIN acks'[d]
      PROVE  \/ \E j \in DOMAIN acks[d] : acks'[d][i] = acks[d][j]
             \/ \E a : a = acks'[d][i] /\ AckTrue(d, a)'
  <2>1. CASE d = c /\ acks'[d][i].id = m.id /\ ~acks'[d][i].ok
    <3>1. PICK a : a = acks'[d][i]
      OBVIOUS
    <3> QED
      BY <1>1, <1>2, <1>3, <1>6, <1>7, <2>1, <3>1, UnknownAckTrue
  <2> QED
    BY <1>5, <2>1
<1>9. AcksTrue'
  BY <1>6, <1>8, AcksKept
<1> QED
  BY <1>6, <1>9, BehindKeeps

LEMMA EndQueuedPInv ==
  ASSUME PInv, IInv', NEW c \in Channels, Handled(c), EndQueued(c, Head(toRecv[c]))
  PROVE  PInv'
<1>1. /\ Head(toRecv[c]).type = "end" /\ active[c] # NoPath /\ info' = info /\ acks' = acks
      /\ active' = [active EXCEPT ![c] = NoPath] /\ phase' = [phase EXCEPT ![active[c]] = "queued"]
      /\ UNCHANGED <<finals, ledger>>
  BY DEF EndQueued, disk
<1>2. active[c] \in Paths /\ phase[active[c]] = "receiving" /\ info[active[c]].chan = c
  BY <1>1, ActiveTypes, TypesFromPInv
<1>3. PICK n \in Started(c) : Head(toRecv[c]) = EndOf(c, n) /\ info[active[c]].name = <<c, n>>
  BY <1>1, EndFinds DEF Handled
<1>4. toRecv[c][1] = EndOf(c, n)
  BY <1>3, HandledTypes
<1>5. /\ active'[c] = NoPath /\ \A d \in Channels : d # c => active'[d] = active[d]
      /\ phase'[active[c]] = "queued" /\ \A p \in Paths : p # active[c] => phase'[p] = phase[p]
  BY <1>1, <1>2, TypesFromPInv DEF TypeOK
<1>6. \A p \in Paths :
        \/ phase'[p] = phase[p]
        \/ /\ phase[p] = "receiving" /\ phase'[p] = "queued" /\ info[p].chan = c
           /\ \E i \in Started(c) : info[p].name = <<c, i>> /\ toRecv[c][1] = EndOf(c, i)
  BY <1>2, <1>3, <1>4, <1>5
<1>7. Behind /\ SenderTypeOK' /\ FilesFaithful' /\ Shut'
  BY <1>1, <1>5, <1>6, TakeStep
<1>8. AcksTrue'
  BY <1>1, <1>7, AcksKept
<1> QED
  BY <1>7, <1>8, BehindKeeps

LEMMA DeliverPInv ==
  ASSUME PInv, IInv', NEW c \in Channels, Deliver(c)
  PROVE  PInv'
<1> DEFINE m == Head(toRecv[c])
<1>0. HandleMessage(c, m)
  BY DEF Deliver
<1>1. Handled(c)
  <2>1. session' = session
    BY <1>0 DEF HandleMessage, StartOverlapping, StartRefused, StartAccepted, ChunkIgnored,
                ChunkOverflows, ChunkWritten, EndUnknown, EndQueued, rvars
  <2> QED
    BY <1>0, <2>1 DEF Deliver, Handled, HandleMessage
<1>2. CASE ChunkIgnored(c, m)
  <2>1. active[c] = NoPath /\ UNCHANGED <<session, active, phase, info, finals, ledger, acks>>
    BY <1>2 DEF ChunkIgnored, rvars
  <2>2. Behind /\ SenderTypeOK' /\ FilesFaithful' /\ Shut'
    BY <1>1, <2>1, TakeStep
  <2>3. AcksTrue'
    BY <2>1, <2>2, AcksKept
  <2> QED
    BY <2>2, <2>3, BehindKeeps
<1> QED
  BY <1>0, <1>1, <1>2, StartOverlappingPInv, StartRefusedPInv, StartAcceptedPInv, ChunkOverflowsPInv,
     ChunkWrittenPInv, EndUnknownPInv, EndQueuedPInv DEF HandleMessage

-----------------------------------------------------------------------------
(* Channels are lost, the receiver dies. *)

LEMMA LosePInv ==
  ASSUME PInv, IInv', NEW c \in Channels, Lose(c)
  PROVE  PInv'
<1>0. SenderTypeOK /\ TypeOK /\ IInv /\ UNCHANGED <<plan, sender, fileNo, sending, outcome, info>>
  BY TypesFromPInv DEF Lose, Close
<1>1. /\ toRecv'[c] = <<>> /\ session'[c] = "closed" /\ acks'[c] = <<>>
      /\ \A d \in Channels : d # c => toRecv'[d] = toRecv[d] /\ session'[d] = session[d] /\ acks'[d] = acks[d]
  BY <1>0 DEF Lose, Close, TypeOK, SenderTypeOK
<1>2. /\ active'[c] = NoPath /\ \A d \in Channels : d # c => active'[d] = active[d]
      /\ \A p \in Paths : phase'[p] = phase[p] \/ (phase[p] # "free" /\ phase'[p] = "dropped")
      /\ UNCHANGED <<finals, ledger>>
  <2>1. CASE active[c] = NoPath
    BY <2>1 DEF Lose, Close, disk
  <2>2. CASE active[c] # NoPath
    <3>1. active[c] \in Paths /\ phase[active[c]] = "receiving"
      BY <1>0, <2>2, ActiveTypes
    <3>2. active' = [active EXCEPT ![c] = NoPath] /\ phase' = [phase EXCEPT ![active[c]] = "dropped"]
          /\ UNCHANGED <<finals, ledger>>
      BY <2>2 DEF Lose, Close, AbortActive, Discard
    <3> QED
      BY <1>0, <3>1, <3>2 DEF TypeOK
  <2> QED
    BY <2>1, <2>2
<1>3. CutOn(c) /\ \A d \in Channels : d # c => KeptOn(d)
  BY <1>0, <1>1, <1>2 DEF CutOn, KeptOn
<1>4. \A p \in Paths : phase[p] # "free" => PathKept(p)
  BY <1>0, <1>2 DEF PathKept
<1>5. \A p \in Paths : phase'[p] # "free" => phase[p] # "free"
  BY <1>2
<1>6. Behind
  BY <1>0, <1>1, <1>2, <1>3, <1>4, <1>5 DEF Behind
<1>7. SenderTypeOK'
  <2>1. toRecv' \in [Channels -> Seq(Message)]
    BY <1>0 DEF Lose, SenderTypeOK
  <2> QED
    BY <1>0, <2>1, SenderTypesKept
<1>8. FilesFaithful' /\ Shut'
  BY <1>0, <1>1, <1>2, <1>5, FilesKept DEF PInv, Shut
<1>9. AcksTrue'
  <2>1. \A d \in Channels : \A i \in DOMAIN acks'[d] : \E j \in DOMAIN acks[d] : acks'[d][i] = acks[d][j]
    BY <1>1
  <2> QED
    BY <1>6, <2>1, AcksKept
<1> QED
  BY <1>6, <1>7, <1>8, <1>9, BehindKeeps

LEMMA CrashPInv ==
  ASSUME PInv, IInv', ReceiverCrash
  PROVE  PInv'
<1>0. SenderTypeOK /\ TypeOK /\ IInv /\ UNCHANGED <<plan, sender, fileNo, sending, outcome, info>>
  BY TypesFromPInv DEF ReceiverCrash, Crash
<1>1. \A c \in Channels : /\ toRecv'[c] = <<>> /\ acks'[c] = <<>> /\ active'[c] = NoPath
                          /\ session'[c] # "open"
  BY DEF ReceiverCrash, Crash
<1>2. /\ \A p \in Paths : \/ phase'[p] = phase[p]
                          \/ phase[p] \in Live /\ phase'[p] = "lost"
      /\ ledger \cap finals \subseteq ledger' \cap finals'
  BY DEF ReceiverCrash, Crash
<1>3. \A c \in Channels : CutOn(c)
  BY <1>1 DEF CutOn
<1>4. \A p \in Paths : phase[p] # "free" => PathKept(p)
  <2> SUFFICES ASSUME NEW p \in Paths, phase[p] # "free" PROVE PathKept(p)
    OBVIOUS
  <2>1. info[p].chan \in Channels
    BY NonfreeTypes
  <2>2. session'[info[p].chan] # "open" /\ toRecv'[info[p].chan] = <<>>
    BY <1>1, <2>1
  <2> QED
    BY <1>0, <1>2, <2>2 DEF PathKept, Live
<1>5. \A p \in Paths : phase'[p] # "free" => phase[p] # "free"
  BY <1>2 DEF Live
<1>6. Behind
  BY <1>0, <1>1, <1>2, <1>3, <1>4, <1>5 DEF Behind
<1>7. SenderTypeOK'
  <2>1. toRecv' \in [Channels -> Seq(Message)]
    BY DEF ReceiverCrash
  <2> QED
    BY <1>0, <2>1, SenderTypesKept
<1>8. FilesFaithful' /\ Shut'
  BY <1>0, <1>1, <1>5, FilesKept DEF Shut
<1>9. AcksTrue'
  <2>1. \A d \in Channels : \A i \in DOMAIN acks'[d] : \E j \in DOMAIN acks[d] : acks'[d][i] = acks[d][j]
    BY <1>1
  <2> QED
    BY <1>6, <2>1, AcksKept
<1> QED
  BY <1>6, <1>7, <1>8, <1>9, BehindKeeps
-----------------------------------------------------------------------------
(* The senders' steps. *)

\* Message m goes behind the others of c; the file in hand is the same or the next.
Sends(c, m) ==
  /\ UNCHANGED <<rvars, plan, outcome>>
  /\ session[c] = "open" /\ Send(c, m)
  /\ fileNo'[c] \in {fileNo[c], fileNo[c] + 1}
  /\ \A d \in Channels : d # c => fileNo'[d] = fileNo[d] /\ sender'[d] = sender[d] /\ sending'[d] = sending[d]

LEMMA SentShape ==
  ASSUME SenderTypeOK, NEW c \in Channels, NEW m, Sends(c, m)
  PROVE  /\ Len(toRecv[c]) \in Nat /\ Len(toRecv'[c]) = Len(toRecv[c]) + 1
         /\ DOMAIN toRecv[c] = 1..Len(toRecv[c]) /\ DOMAIN toRecv'[c] = 1..(Len(toRecv[c]) + 1)
         /\ \A i \in DOMAIN toRecv[c] : i \in DOMAIN toRecv'[c] /\ toRecv'[c][i] = toRecv[c][i]
         /\ toRecv'[c][Len(toRecv[c]) + 1] = m
         /\ \A i \in DOMAIN toRecv'[c] : i \in DOMAIN toRecv[c] \/ i = Len(toRecv[c]) + 1
         /\ \A d \in Channels : d # c => toRecv'[d] = toRecv[d]
         /\ fileNo[c] \in Nat /\ \A d \in Channels : \A n \in Started(d) : n \in Started(d)'
<1>1. toRecv[c] \in Seq(Message) /\ toRecv' = [toRecv EXCEPT ![c] = Append(toRecv[c], m)]
      /\ toRecv \in [Channels -> Seq(Message)]
  BY DEF SenderTypeOK, Sends, Send
<1>2. toRecv'[c] = Append(toRecv[c], m) /\ \A d \in Channels : d # c => toRecv'[d] = toRecv[d]
  BY <1>1
<1>3. fileNo[c] \in Nat
  BY PlanTypes DEF SenderTypeOK
<1>4. \A d \in Channels : \A n \in Started(d) : n \in Started(d)'
  BY <1>3 DEF Started, Sends
<1>5. /\ Len(toRecv[c]) \in Nat /\ Len(toRecv'[c]) = Len(toRecv[c]) + 1
      /\ DOMAIN toRecv[c] = 1..Len(toRecv[c]) /\ DOMAIN toRecv'[c] = 1..(Len(toRecv[c]) + 1)
      /\ \A i \in 1..Len(toRecv[c]) : toRecv'[c][i] = toRecv[c][i]
      /\ toRecv'[c][Len(toRecv[c]) + 1] = m
  BY <1>1, <1>2
<1> QED
  BY <1>2, <1>3, <1>4, <1>5

LEMMA SentReady ==
  ASSUME SenderTypeOK, NEW c \in Channels, NEW m, Sends(c, m), NEW d \in Channels,
         NEW i \in 1..(Len(toRecv[d]) + 1), NEW n, NEW k, Ready(d, i, n, k)
  PROVE  Ready(d, i, n, k)'
<1>1. CASE i = 1
  BY <1>1 DEF Ready, Sends, rvars, Received
<1>2. CASE i # 1
  <2>1. toRecv[d][i - 1] = Nth(d, n, k) /\ i - 1 \in DOMAIN toRecv[d]
    BY <1>2, QueueTypes DEF Ready
  <2>2. toRecv'[d][i - 1] = toRecv[d][i - 1]
    BY <2>1, SentShape
  <2> QED
    BY <1>2, <2>1, <2>2 DEF Ready, Nth, Sends
<1> QED
  BY <1>1, <1>2

LEMMA SentQueue ==
  ASSUME PInv, NEW c \in Channels, NEW m, Sends(c, m), NEW n \in Started(c)',
         \/ m = Nth(c, n, 0)
         \/ \E k \in 1..plan[c][n].size : m = Nth(c, n, k) /\ Ready(c, Len(toRecv[c]) + 1, n, k - 1)
         \/ \E k \in 0..plan[c][n].size :
              k = plan[c][n].size /\ m = EndOf(c, n) /\ Ready(c, Len(toRecv[c]) + 1, n, k)
  PROVE  QueueOrdered'
<1>0. SenderTypeOK /\ plan' = plan /\ \A d, i, k : Nth(d, i, k)' = Nth(d, i, k) /\ EndOf(d, i)' = EndOf(d, i)
  BY TypesFromPInv, SamePlan DEF Sends
<1>1. ASSUME NEW d \in Channels, NEW i \in DOMAIN toRecv[d], toRecv'[d][i] = toRecv[d][i]
      PROVE  \E f \in Started(d)' :
               \/ toRecv'[d][i] = Nth(d, f, 0)
               \/ \E k \in 1..plan[d][f].size : toRecv'[d][i] = Nth(d, f, k) /\ Ready(d, i, f, k - 1)'
               \/ \E k \in 0..plan[d][f].size :
                    k = plan[d][f].size /\ toRecv'[d][i] = EndOf(d, f) /\ Ready(d, i, f, k)'
  <2>1. PICK f \in Started(d) :
          \/ toRecv[d][i] = Nth(d, f, 0)
          \/ \E k \in 1..plan[d][f].size : toRecv[d][i] = Nth(d, f, k) /\ Ready(d, i, f, k - 1)
          \/ \E k \in 0..plan[d][f].size : k = plan[d][f].size /\ toRecv[d][i] = EndOf(d, f) /\ Ready(d, i, f, k)
    BY DEF PInv, QueueOrdered
  <2>2. i \in 1..(Len(toRecv[d]) + 1) /\ f \in Started(d)'
    BY <1>0, QueueTypes, SentShape
  <2> QED
    BY <1>0, <1>1, <2>1, <2>2, SentReady
<1>2. Len(toRecv[c]) + 1 \in 1..(Len(toRecv[c]) + 1)
  BY <1>0, QueueTypes
<1>3. PICK l \in Nat : l = Len(toRecv[c]) + 1
  BY <1>0, QueueTypes
<1>4. \/ toRecv'[c][l] = Nth(c, n, 0)
      \/ \E k \in 1..plan[c][n].size : toRecv'[c][l] = Nth(c, n, k) /\ Ready(c, l, n, k - 1)'
      \/ \E k \in 0..plan[c][n].size :
           k = plan[c][n].size /\ toRecv'[c][l] = EndOf(c, n) /\ Ready(c, l, n, k)'
  <2>1. toRecv'[c][l] = m
    BY <1>0, <1>3, SentShape
  <2>2. \A k : Ready(c, l, n, k) => Ready(c, l, n, k)'
    BY <1>0, <1>2, <1>3, SentReady
  <2> QED
    BY <1>3, <2>1, <2>2
<1>5. ASSUME NEW d \in Channels, NEW i \in DOMAIN toRecv'[d]
      PROVE  (i \in DOMAIN toRecv[d] /\ toRecv'[d][i] = toRecv[d][i]) \/ (d = c /\ i = l)
  BY <1>0, <1>3, SentShape
<1> QED
  BY <1>0, <1>1, <1>4, <1>5 DEF QueueOrdered

\* Nothing of a file is there before its start is sent.
LEMMA FileUnseen ==
  ASSUME PInv, NEW c \in Channels, NEW n \in 1..Len(plan[c]), n \notin Started(c)
  PROVE  /\ \A p \in Paths : ~PathOf(p, c, n)
         /\ \A i \in DOMAIN toRecv[c] : toRecv[c][i] # Nth(c, n, 0) /\ toRecv[c][i] # EndOf(c, n)
<1>1. ASSUME NEW p \in Paths, PathOf(p, c, n) PROVE FALSE
  <2>1. PICK i \in Started(info[p].chan) : FileOf(p, i)
    BY <1>1 DEF PathOf, PInv, FilesFaithful
  <2> QED
    BY <1>1, <2>1 DEF PathOf, FileOf
<1>2. ASSUME NEW i \in DOMAIN toRecv[c], toRecv[c][i] = Nth(c, n, 0) \/ toRecv[c][i] = EndOf(c, n) PROVE FALSE
  <2>1. PICK f \in Started(c) : \/ \E k : toRecv[c][i] = Nth(c, f, k)
                                \/ toRecv[c][i] = EndOf(c, f)
    BY DEF PInv, QueueOrdered
  <2>2. f \in 1..Len(plan[c]) /\ plan \in Workloads
    BY StartedTypes, TypesFromPInv
  <2>3. CASE toRecv[c][i] = EndOf(c, f)
    <3>1. EndOf(c, f) # Nth(c, n, 0) /\ (EndOf(c, f) = EndOf(c, n) => f = n)
      BY <2>2, Distinct
    <3> QED
      BY <1>2, <2>1, <2>3, <3>1
  <2>4. ASSUME NEW k, toRecv[c][i] = Nth(c, f, k) PROVE FALSE
    <3>1. \A m, l : Nth(c, f, k) # EndOf(c, m) /\ (Nth(c, f, k) = Nth(c, m, l) => f = m)
      BY <2>2, Distinct
    <3>2. f \in Started(c) /\ n \notin Started(c)
      OBVIOUS
    <3> QED
      BY <1>2, <2>4, <3>1, <3>2
  <2> QED
    BY <2>1, <2>3, <2>4
<1> QED
  BY <1>1, <1>2

\* What every sent message leaves true.
LEMMA SentRest ==
  ASSUME PInv, NEW c \in Channels, NEW m, Sends(c, m), \A n \in Started(c) : m # Nth(c, n, 0)
  PROVE  FilesFaithful' /\ Shut' /\ AcksTrue' /\ ConclusionsTrue'
<1>0. /\ SenderTypeOK /\ plan' = plan /\ \A d, i, k : Nth(d, i, k)' = Nth(d, i, k)
      /\ UNCHANGED <<session, active, phase, info, finals, ledger, acks, outcome>>
  BY TypesFromPInv, SamePlan DEF Sends, rvars
<1>1. FilesFaithful'
  <2>1. ASSUME NEW p \in Paths, phase[p] # "free" PROVE \E n \in Started(info[p].chan)' : FileOf(p, n)'
    <3>1. PICK n \in Started(info[p].chan) : FileOf(p, n)
      BY <2>1 DEF PInv, FilesFaithful
    <3>2. n \in Started(info[p].chan)'
      <4>1. PICK d \in Channels : d = info[p].chan
        BY <2>1, NonfreeTypes
      <4>2. n \in Started(d)'
        BY <1>0, <3>1, <4>1, SentShape
      <4> QED
        BY <1>0, <4>1, <4>2 DEF Started
    <3> QED
      BY <1>0, <3>1, <3>2 DEF FileOf, Received
  <2> QED
    BY <1>0, <2>1 DEF PInv, FilesFaithful
<1>2. Shut'
  BY <1>0, SentShape DEF PInv, Shut, Sends
<1>3. ASSUME NEW d \in Channels, NEW n \in Started(d), Rejected(d, n) PROVE Rejected(d, n)'
  <2>1. \A i \in DOMAIN toRecv'[d] : toRecv'[d][i] # Nth(d, n, 0)
    BY <1>0, <1>3, SentShape DEF Rejected
  <2> QED
    BY <1>0, <1>3, <2>1 DEF Rejected, PathOf
<1>4. ASSUME NEW d \in Channels, NEW n, Delivered(d, n) PROVE Delivered(d, n)'
  BY <1>0, <1>4 DEF Delivered
<1>5. AcksTrue'
  <2> SUFFICES ASSUME NEW d \in Channels, NEW i \in DOMAIN acks[d]
               PROVE  \E n \in Started(d)' :
                        /\ acks[d][i].id = plan[d][n].id
                        /\ IF acks[d][i].ok THEN Delivered(d, n)' /\ acks[d][i].size = plan[d][n].size
                                            ELSE Rejected(d, n)'
    BY <1>0 DEF AcksTrue
  <2>1. PICK n \in Started(d) :
          /\ acks[d][i].id = plan[d][n].id
          /\ IF acks[d][i].ok THEN Delivered(d, n) /\ acks[d][i].size = plan[d][n].size ELSE Rejected(d, n)
    BY DEF PInv, AcksTrue
  <2>2. n \in Started(d)'
    BY <1>0, SentShape
  <2> QED
    BY <1>3, <1>4, <2>1, <2>2
<1>6. ConclusionsTrue'
  <2> SUFFICES ASSUME NEW d \in Channels, NEW n \in FileNo
               PROVE  /\ outcome[d][n] # "none" => n \in Started(d)'
                      /\ outcome[d][n] = "delivered" => Delivered(d, n)'
                      /\ outcome[d][n] = "refused" => Rejected(d, n)'
    BY <1>0 DEF ConclusionsTrue
  <2> QED
    BY <1>0, <1>3, <1>4, SentShape DEF PInv, ConclusionsTrue
<1> QED
  BY <1>1, <1>2, <1>5, <1>6
LEMMA SentPlaces ==
  ASSUME SenderTypeOK, NEW c \in Channels, NEW m, Sends(c, m), NEW d \in Channels, NEW i \in DOMAIN toRecv'[d]
  PROVE  \/ i \in DOMAIN toRecv[d] /\ toRecv'[d][i] = toRecv[d][i]
         \/ d = c /\ i = Len(toRecv[c]) + 1 /\ toRecv'[d][i] = m
<1>1. CASE d = c
  BY <1>1, SentShape
<1>2. CASE d # c
  BY <1>2, SentShape
<1> QED
  BY <1>1, <1>2

LEMMA SentInHand ==
  ASSUME PInv, NEW c \in Channels, NEW m, Sends(c, m),
         sender'[c] \in {"sending", "awaiting"} =>
           /\ fileNo'[c] >= 1
           /\ sending'[c].id = plan[c][fileNo'[c]].id /\ sending'[c].size = plan[c][fileNo'[c]].size,
         sender'[c] = "sending" => m = Nth(c, fileNo'[c], sending'[c].sent)
  PROVE  InHand'
<1>0. SenderTypeOK /\ plan' = plan /\ \A d, i, k : Nth(d, i, k)' = Nth(d, i, k)
  BY TypesFromPInv, SamePlan DEF Sends
<1>1. ASSUME NEW d \in Channels, sender'[d] = "sending", NEW l, l = Len(toRecv'[d]) + 1,
             NEW n, n = fileNo'[d], NEW k, k = sending'[d].sent
      PROVE  Ready(d, l, n, k)'
  <2>1. CASE d = c
    <3>1. l # 1 /\ l - 1 = Len(toRecv[c]) + 1
      BY <1>0, <1>1, <2>1, SentShape
    <3>2. toRecv'[d][l - 1] = Nth(d, n, k)
      BY <1>0, <1>1, <2>1, <3>1, SentShape
    <3> QED
      BY <1>0, <3>1, <3>2 DEF Ready
  <2>2. CASE d # c
    <3>1. /\ toRecv'[d] = toRecv[d] /\ fileNo'[d] = fileNo[d] /\ sender'[d] = sender[d]
          /\ sending'[d] = sending[d]
      BY <1>0, <2>2, SentShape DEF Sends
    <3>2. Ready(d, l, n, k)
      BY <1>1, <3>1 DEF PInv, InHand
    <3>3. l \in 1..(Len(toRecv[d]) + 1)
      BY <1>0, <1>1, <3>1, QueueTypes
    <3> QED
      BY <1>0, <3>2, <3>3, SentReady
  <2> QED
    BY <2>1, <2>2
<1>2. ASSUME NEW d \in Channels, sender'[d] \in {"sending", "awaiting"}
      PROVE  /\ fileNo'[d] >= 1
             /\ sending'[d].id = plan[d][fileNo'[d]].id /\ sending'[d].size = plan[d][fileNo'[d]].size
  BY <1>2 DEF Sends, PInv, InHand
<1>3. \A d \in Channels : sender'[d] = "sending" =>
        \E l, n, k : /\ l = Len(toRecv'[d]) + 1 /\ n = fileNo'[d] /\ k = sending'[d].sent
                     /\ Ready(d, l, n, k)'
  BY <1>1
<1>4. \A d \in Channels : sender'[d] = "sending" =>
        Ready(d, Len(toRecv[d]) + 1, fileNo[d], sending[d].sent)'
  <2> SUFFICES ASSUME NEW d \in Channels, sender'[d] = "sending"
               PROVE  Ready(d, Len(toRecv[d]) + 1, fileNo[d], sending[d].sent)'
    OBVIOUS
  <2>1. PICK l, n, k : /\ l = Len(toRecv'[d]) + 1 /\ n = fileNo'[d] /\ k = sending'[d].sent
                       /\ Ready(d, l, n, k)'
    BY <1>3
  <2>2. CASE l = 1
    BY <2>1, <2>2 DEF Ready, Received
  <2>3. CASE l # 1
    <3>1. toRecv'[d][l - 1] = Nth(d, n, k)'
      BY <2>1, <2>3 DEF Ready
    <3>2. Nth(d, n, k)' = Nth(d, fileNo[d], sending[d].sent)'
      BY <2>1, Zenon DEF Nth
    <3>3. toRecv'[d][Len(toRecv'[d]) + 1 - 1] = Nth(d, fileNo[d], sending[d].sent)'
      BY <2>1, <3>1, <3>2
    <3> QED
      BY <2>1, <2>3, <3>3 DEF Ready
  <2> QED
    BY <2>2, <2>3
<1> QED
  BY <1>0, <1>2, <1>4 DEF InHand

\* A message that starts no file.
LEMMA SentStarts ==
  ASSUME PInv, NEW c \in Channels, NEW m, Sends(c, m), fileNo' = fileNo,
         \A n \in Started(c) : m # Nth(c, n, 0)
  PROVE  StartsFresh'
<1>0. SenderTypeOK /\ plan' = plan /\ \A d, i, k : Nth(d, i, k)' = Nth(d, i, k)
  BY TypesFromPInv, SamePlan DEF Sends
<1>1. phase' = phase /\ info' = info
  BY DEF Sends, rvars
<1>2. ASSUME NEW d \in Channels, NEW n \in Started(d), NEW i \in DOMAIN toRecv'[d], toRecv'[d][i] = Nth(d, n, 0)
      PROVE  i \in DOMAIN toRecv[d] /\ toRecv[d][i] = Nth(d, n, 0)
  BY <1>0, <1>2, SentPlaces
<1>3. ASSUME NEW d \in Channels, NEW n \in Started(d), NEW i \in DOMAIN toRecv'[d], toRecv'[d][i] = Nth(d, n, 0)
      PROVE  /\ \A p \in Paths : ~PathOf(p, d, n)
             /\ \A j \in DOMAIN toRecv'[d] : toRecv'[d][j] = Nth(d, n, 0) => i = j
  BY <1>2, <1>3 DEF PInv, StartsFresh
<1> QED
  BY <1>0, <1>1, <1>3 DEF StartsFresh, Started, PathOf

LEMMA SentEnds ==
  ASSUME PInv, NEW c \in Channels, NEW m, Sends(c, m), fileNo' = fileNo, sender[c] = "sending",
         \A n \in Started(c) : m # Nth(c, n, 0),
         \/ \A n \in Started(c) : m # EndOf(c, n)
         \/ m = EndOf(c, fileNo[c]) /\ sender'[c] # "sending"
  PROVE  EndsOnce'
<1>0. /\ SenderTypeOK /\ plan' = plan /\ \A d, i, k : Nth(d, i, k)' = Nth(d, i, k) /\ EndOf(d, i)' = EndOf(d, i)
      /\ \A d, n : Incomplete(d, n)' = Incomplete(d, n)
      /\ session' = session /\ plan \in Workloads
  BY TypesFromPInv, SamePlan DEF Sends, rvars, Incomplete, PathOf
<1>f. fileNo[c] \in Started(c) /\ fileNo[c] \in 1..Len(plan[c])
  <2>1. fileNo[c] \in 1..Len(plan[c])
    BY <1>0, InHandTypes DEF PInv
  <2> QED
    BY <2>1 DEF Started
<1>s. /\ Incomplete(c, fileNo[c])
      /\ \A i \in DOMAIN toRecv[c] : toRecv[c][i] # EndOf(c, fileNo[c])
  BY DEF PInv, EndsOnce, Sends
<1>1. ASSUME NEW d \in Channels, NEW n \in Started(d), NEW i \in DOMAIN toRecv'[d], toRecv'[d][i] = EndOf(d, n)
      PROVE  /\ Incomplete(d, n)
             /\ \A j \in DOMAIN toRecv'[d] : /\ toRecv'[d][j] = EndOf(d, n) => i = j
                                             /\ toRecv'[d][j] = Nth(d, n, 0) => j < i
  <2>n. \A j \in DOMAIN toRecv'[d] : toRecv'[d][j] = Nth(d, n, 0) => j \in DOMAIN toRecv[d] /\ toRecv[d][j] = Nth(d, n, 0)
    BY <1>0, SentPlaces
  <2>1. CASE d = c /\ m = EndOf(c, n)
    <3>1. m = EndOf(c, fileNo[c])
      BY <2>1
    <3>2. n = fileNo[c]
      <4>1. plan[c][n].id = plan[c][fileNo[c]].id
        <5>1. EndOf(c, n) = EndOf(c, fileNo[c])
          BY <2>1, <3>1
        <5>2. EndOf(c, n).id = plan[c][n].id /\ EndOf(c, fileNo[c]).id = plan[c][fileNo[c]].id
          BY EndFields
        <5> QED
          BY <5>1, <5>2
      <4>2. n \in 1..Len(plan[c])
        BY <1>0, <2>1, StartedTypes
      <4> QED
        BY <1>0, <1>f, <4>1, <4>2, PlanTypes
    <3>3. \A j \in DOMAIN toRecv'[c] : toRecv'[c][j] = EndOf(c, n) => j = Len(toRecv[c]) + 1
      BY <1>0, <1>s, <3>2, SentPlaces
    <3>4. \A j \in DOMAIN toRecv[c] : j < Len(toRecv[c]) + 1
      BY <1>0, QueueTypes
    <3> QED
      BY <1>1, <1>s, <2>1, <2>n, <3>2, <3>3, <3>4
  <2>2. CASE ~(d = c /\ m = EndOf(c, n))
    <3>1. \A j \in DOMAIN toRecv'[d] : toRecv'[d][j] = EndOf(d, n) => j \in DOMAIN toRecv[d] /\ toRecv[d][j] = EndOf(d, n)
      BY <1>0, <2>2, SentPlaces
    <3> QED
      BY <1>1, <2>n, <3>1 DEF PInv, EndsOnce
  <2> QED
    BY <2>1, <2>2
<1>2. ASSUME NEW d \in Channels, sender'[d] = "sending", session[d] = "open"
      PROVE  /\ Incomplete(d, fileNo[d])
             /\ \A i \in DOMAIN toRecv'[d] : toRecv'[d][i] # EndOf(d, fileNo[d])
  <2>1. CASE d = c
    BY <1>0, <1>2, <1>f, <1>s, <2>1, SentPlaces
  <2>2. CASE d # c
    BY <1>0, <1>2, <2>2, SentShape DEF Sends, PInv, EndsOnce
  <2> QED
    BY <2>1, <2>2
<1>3. \A d \in Channels : sender'[d] = "sending" /\ session'[d] = "open" =>
        /\ Incomplete(d, fileNo[d])'
        /\ \A i \in DOMAIN toRecv'[d] : toRecv'[d][i] # EndOf(d, fileNo[d])'
  <2>1. ASSUME NEW d \in Channels PROVE Incomplete(d, fileNo[d])' = Incomplete(d, fileNo[d]) /\ EndOf(d, fileNo[d])' = EndOf(d, fileNo[d])
    BY <1>0 DEF Incomplete, PathOf, EndOf, Sends, rvars
  <2> QED
    BY <1>0, <1>2, <2>1
<1> QED
  BY <1>0, <1>1, <1>3 DEF EndsOnce, Started
LEMMA PInvOfSent ==
  ASSUME PInv, IInv', SenderTypeOK', NEW c \in Channels, NEW m, Sends(c, m), InHand', QueueOrdered',
         StartsFresh', EndsOnce', \A n \in Started(c) : m # Nth(c, n, 0)
  PROVE  PInv'
BY SentRest DEF PInv

LEMMA SendStartPInv ==
  ASSUME PInv, IInv', NEW c \in Channels, SendStart(c)
  PROVE  PInv'
<1>0. /\ SenderTypeOK /\ plan \in Workloads /\ plan' = plan
      /\ fileNo \in [Channels -> 0..MaxFiles] /\ fileNo[c] <= Len(plan[c])
      /\ fileNo[c] < Len(plan[c]) /\ MaxFiles \in Nat
      /\ \A d, i, k : Nth(d, i, k)' = Nth(d, i, k) /\ EndOf(d, i)' = EndOf(d, i)
  BY TypesFromPInv, SenderAssumption, SamePlan DEF SendStart, SenderTypeOK
<1>1. fileNo[c] \in Nat /\ Len(plan[c]) \in Nat
  BY <1>0, PlanTypes
<1>2. PICK n \in 1..Len(plan[c]) : n = fileNo[c] + 1 /\ n \notin Started(c)
  BY <1>0, <1>1 DEF Started
<1>3. /\ plan[c][n].id \in Ids /\ plan[c][n].size \in Sizes /\ plan[c][n].size \in Nat
      /\ <<c, n>> \in Names /\ n \in FileNo /\ n \in 0..MaxFiles
  BY <1>0, <1>2, PlanTypes DEF FileNo
<1>4. PICK m : m = Nth(c, n, 0) /\ m \in Message
  <2>1. Nth(c, n, 0) \in Message
    BY <1>3 DEF Nth, Message
  <2> QED
    BY <2>1
<1>5. /\ UNCHANGED <<rvars, plan, outcome>> /\ session[c] = "open" /\ Send(c, m)
      /\ fileNo' = [fileNo EXCEPT ![c] = n]
      /\ sender' = [sender EXCEPT ![c] = "sending"]
      /\ sending' = [sending EXCEPT ![c] = [id |-> plan[c][n].id, size |-> plan[c][n].size, sent |-> 0]]
  BY <1>2, <1>4 DEF SendStart, Nth
<1>6. /\ fileNo'[c] = n /\ sender'[c] = "sending"
      /\ sending'[c].id = plan[c][n].id /\ sending'[c].size = plan[c][n].size /\ sending'[c].sent = 0
      /\ \A d \in Channels : d # c => fileNo'[d] = fileNo[d] /\ sender'[d] = sender[d] /\ sending'[d] = sending[d]
  BY <1>0, <1>5 DEF SenderTypeOK
<1>7. Sends(c, m)
  BY <1>2, <1>5, <1>6 DEF Sends
<1>8. SenderTypeOK'
  <2>1. sending' \in [Channels -> [id: Ids \cup {NoId}, size: Sizes \cup {0}, sent: Nat]]
    BY <1>0, <1>3, <1>5 DEF SenderTypeOK
  <2>2. \A d \in Channels : sending'[d].sent <= sending'[d].size
    <3>1. sending'[c].sent <= sending'[c].size
      BY <1>3, <1>6
    <3>2. \A d \in Channels : sending[d].sent <= sending[d].size
      BY <1>0 DEF SenderTypeOK
    <3> QED
      BY <1>6, <3>1, <3>2, Zenon
  <2>3. fileNo' \in [Channels -> 0..MaxFiles] /\ \A d \in Channels : fileNo'[d] <= Len(plan[d])
    BY <1>0, <1>1, <1>2, <1>3, <1>5, <1>6 DEF SenderTypeOK
  <2>4. sender' \in [Channels -> SenderPhases]
    BY <1>0, <1>5 DEF SenderTypeOK, SenderPhases
  <2>5. toRecv' \in [Channels -> Seq(Message)]
    BY <1>0, <1>4, <1>5, SendTypes
  <2> QED
    BY <1>0, <1>5, <2>1, <2>2, <2>3, <2>4, <2>5 DEF SenderTypeOK
<1>9. n \in Started(c)' /\ \A d \in Channels : d # c => Started(d)' = Started(d)
  BY <1>1, <1>2, <1>6 DEF Started
<1>10. \A i \in Started(c)' : i = n \/ i \in Started(c)
  BY <1>1, <1>2, <1>6 DEF Started
<1>11. InHand'
  <2>1. fileNo'[c] >= 1
    BY <1>1, <1>2, <1>6
  <2>2. m = Nth(c, fileNo'[c], sending'[c].sent)
    BY <1>4, <1>6
  <2>3. sending'[c].id = plan[c][fileNo'[c]].id /\ sending'[c].size = plan[c][fileNo'[c]].size
    BY <1>6
  <2> QED
    BY <1>7, <2>1, <2>2, <2>3, SentInHand
<1>12. QueueOrdered'
  BY <1>4, <1>7, <1>9, SentQueue
<1>13. /\ \A p \in Paths : ~PathOf(p, c, n)
       /\ \A i \in DOMAIN toRecv[c] : toRecv[c][i] # Nth(c, n, 0) /\ toRecv[c][i] # EndOf(c, n)
  BY <1>2, FileUnseen
<1>14. /\ \A i \in Started(c) : m # Nth(c, i, 0)
       /\ \A i : m # EndOf(c, i)
  <2>1. \A i, l : Nth(c, n, 0) # EndOf(c, i) /\ (Nth(c, n, 0) = Nth(c, i, l) => n = i)
    BY <1>0, Distinct
  <2> QED
    BY <1>2, <1>4, <2>1
<1>15. ASSUME NEW d \in Channels, NEW i \in DOMAIN toRecv'[d]
       PROVE  \/ i \in DOMAIN toRecv[d] /\ toRecv'[d][i] = toRecv[d][i]
              \/ d = c /\ i = Len(toRecv[c]) + 1 /\ toRecv'[d][i] = m
  BY <1>0, <1>7, SentPlaces
<1>16. /\ \A d, k, p : PathOf(p, d, k)' = PathOf(p, d, k)
       /\ \A d, k : Incomplete(d, k)' = Incomplete(d, k)
       /\ session' = session
  BY <1>5 DEF rvars, PathOf, Incomplete
<1>17. StartsFresh'
  <2>1. ASSUME NEW d \in Channels, NEW k \in Started(d)', NEW i \in DOMAIN toRecv'[d], toRecv'[d][i] = Nth(d, k, 0)
        PROVE  /\ \A p \in Paths : ~PathOf(p, d, k)
               /\ \A j \in DOMAIN toRecv'[d] : toRecv'[d][j] = Nth(d, k, 0) => i = j
    <3>1. CASE d = c /\ k = n
      BY <1>13, <1>15, <2>1, <3>1
    <3>2. CASE ~(d = c /\ k = n)
      <4>1. k \in Started(d) /\ \A j \in DOMAIN toRecv'[d] : toRecv'[d][j] = Nth(d, k, 0) =>
              j \in DOMAIN toRecv[d] /\ toRecv[d][j] = Nth(d, k, 0)
        BY <1>9, <1>10, <1>14, <1>15, <3>2
      <4> QED
        BY <2>1, <4>1 DEF PInv, StartsFresh
    <3> QED
      BY <3>1, <3>2
  <2> QED
    BY <1>0, <1>16, <2>1 DEF StartsFresh
<1>18. EndsOnce'
  <2>1. ASSUME NEW d \in Channels, NEW k \in Started(d)', NEW i \in DOMAIN toRecv'[d], toRecv'[d][i] = EndOf(d, k)
        PROVE  /\ Incomplete(d, k)
               /\ \A j \in DOMAIN toRecv'[d] : /\ toRecv'[d][j] = EndOf(d, k) => i = j
                                               /\ toRecv'[d][j] = Nth(d, k, 0) => j < i
    <3>1. i \in DOMAIN toRecv[d] /\ toRecv[d][i] = EndOf(d, k)
      BY <1>14, <1>15, <2>1
    <3>2. k \in Started(d) /\ ~(d = c /\ k = n)
      BY <1>2, <1>9, <1>10, <1>13, <3>1
    <3>3. \A j \in DOMAIN toRecv'[d] : toRecv'[d][j] = EndOf(d, k) \/ toRecv'[d][j] = Nth(d, k, 0) =>
            j \in DOMAIN toRecv[d] /\ toRecv'[d][j] = toRecv[d][j]
      BY <1>14, <1>15, <3>2
    <3> QED
      BY <3>1, <3>2, <3>3 DEF PInv, EndsOnce
  <2>2. ASSUME NEW d \in Channels, sender'[d] = "sending", session[d] = "open", NEW k, k = fileNo'[d]
        PROVE  Incomplete(d, k) /\ \A i \in DOMAIN toRecv'[d] : toRecv'[d][i] # EndOf(d, k)
    <3>1. CASE d = c
      <4>1. Incomplete(c, n)
        BY <1>13 DEF Incomplete
      <4> QED
        BY <1>6, <1>13, <1>14, <1>15, <2>2, <3>1, <4>1
    <3>2. CASE d # c
      BY <1>6, <1>15, <2>2, <3>2 DEF PInv, EndsOnce
    <3> QED
      BY <3>1, <3>2
  <2>3. ASSUME NEW d \in Channels, sender'[d] = "sending", session'[d] = "open"
        PROVE  Incomplete(d, fileNo[d])' /\ \A i \in DOMAIN toRecv'[d] : toRecv'[d][i] # EndOf(d, fileNo[d])'
    <3>1. PICK k : k = fileNo'[d]
      OBVIOUS
    <3>2. Incomplete(d, k)' /\ \A i \in DOMAIN toRecv'[d] : toRecv'[d][i] # EndOf(d, k)'
      BY <1>0, <1>16, <2>2, <2>3, <3>1
    <3> QED
      BY <3>1, <3>2 DEF Incomplete, PathOf, EndOf
  <2> QED
    BY <1>0, <1>16, <2>1, <2>3 DEF EndsOnce
<1> QED
  BY <1>7, <1>8, <1>11, <1>12, <1>14, <1>17, <1>18, PInvOfSent
\* What the sender still has of the file in hand, and where its receiver is.
LEMMA InHandReady ==
  ASSUME PInv, NEW c \in Channels, sender[c] = "sending"
  PROVE  \E n \in Started(c) : \E k \in 0..plan[c][n].size : \E l \in Nat :
           /\ n = fileNo[c] /\ k = sending[c].sent /\ l = Len(toRecv[c]) + 1
           /\ sending[c].id = plan[c][n].id /\ sending[c].size = plan[c][n].size
           /\ Ready(c, l, n, k)
<1>1. /\ fileNo[c] \in 1..Len(plan[c]) /\ sending[c].id = plan[c][fileNo[c]].id
      /\ sending[c].size = plan[c][fileNo[c]].size /\ sending[c].size \in Nat /\ sending[c].sent \in Nat
  BY TypesFromPInv, InHandTypes DEF PInv
<1>2. sending[c].sent <= sending[c].size
  BY TypesFromPInv DEF SenderTypeOK
<1>3. fileNo[c] \in Started(c) /\ sending[c].sent \in 0..plan[c][fileNo[c]].size
  BY <1>1, <1>2 DEF Started
<1>4. Len(toRecv[c]) + 1 \in Nat
  BY TypesFromPInv, QueueTypes
<1>5. Ready(c, Len(toRecv[c]) + 1, fileNo[c], sending[c].sent)
  BY DEF PInv, InHand
<1> QED
  BY <1>1, <1>3, <1>4, <1>5

LEMMA SendChunkPInv ==
  ASSUME PInv, IInv', NEW c \in Channels, SendChunk(c)
  PROVE  PInv'
<1>0. /\ SenderTypeOK /\ plan \in Workloads /\ plan' = plan /\ sender[c] = "sending" /\ session[c] = "open"
      /\ sending[c].sent < sending[c].size /\ UNCHANGED <<rvars, plan, sender, fileNo, outcome>>
  BY TypesFromPInv DEF SendChunk
<1>1. PICK n \in Started(c) : \E k \in 0..plan[c][n].size : \E l \in Nat :
           /\ n = fileNo[c] /\ k = sending[c].sent /\ l = Len(toRecv[c]) + 1
           /\ sending[c].id = plan[c][n].id /\ sending[c].size = plan[c][n].size
           /\ Ready(c, l, n, k)
  BY <1>0, InHandReady
<1>2. PICK k \in 0..plan[c][n].size : \E l \in Nat :
           /\ n = fileNo[c] /\ k = sending[c].sent /\ l = Len(toRecv[c]) + 1
           /\ sending[c].id = plan[c][n].id /\ sending[c].size = plan[c][n].size
           /\ Ready(c, l, n, k)
  BY <1>1
<1>3. /\ plan[c][n].size \in Nat /\ plan[c][n].size \in Sizes /\ n \in FileNo /\ n >= 1
  <2>1. /\ plan[c][n].size \in Nat /\ plan[c][n].size \in Sizes /\ n \in FileNo /\ n \in 1..Len(plan[c])
    BY <1>0, StartedTypes
  <2> QED
    BY <1>0, <2>1, PlanTypes
<1>4. PICK j \in 1..plan[c][n].size : j = k + 1 /\ j - 1 = k /\ j # 0 /\ j \in Nat /\ j <= plan[c][n].size
  BY <1>0, <1>2, <1>3
<1>5. PICK m : m = Nth(c, n, j) /\ m \in Message
  <2>1. Nth(c, n, j) \in Message
    BY <1>3, <1>4, ChunkTypes DEF Nth
  <2> QED
    BY <2>1
<1>6. /\ Send(c, m) /\ sending' = [sending EXCEPT ![c].sent = j]
  BY <1>2, <1>4, <1>5 DEF SendChunk, Nth
<1>7. Sends(c, m)
  <2>1. fileNo'[c] \in {fileNo[c], fileNo[c] + 1}
    BY <1>0
  <2>2. \A d \in Channels : d # c => sending'[d] = sending[d]
    BY <1>0, <1>6 DEF SenderTypeOK
  <2> QED
    BY <1>0, <1>6, <2>1, <2>2 DEF Sends
<1>8. /\ sending'[c].id = sending[c].id /\ sending'[c].size = sending[c].size /\ sending'[c].sent = j
      /\ sending' \in [Channels -> [id: Ids \cup {NoId}, size: Sizes \cup {0}, sent: Nat]]
  BY <1>0, <1>4, <1>6 DEF SenderTypeOK
<1>9. SenderTypeOK'
  <2>1. \A d \in Channels : sending'[d].sent <= sending'[d].size
    <3>1. sending'[c].sent <= sending'[c].size
      BY <1>2, <1>4, <1>8
    <3>2. \A d \in Channels : sending[d].sent <= sending[d].size
      BY <1>0 DEF SenderTypeOK
    <3> QED
      BY <1>7, <3>1, <3>2, Zenon DEF Sends
  <2>2. toRecv' \in [Channels -> Seq(Message)]
    BY <1>0, <1>5, <1>6, SendTypes
  <2> QED
    BY <1>0, <1>8, <2>1, <2>2 DEF SenderTypeOK
<1>10. /\ \A i \in Started(c) : m # Nth(c, i, 0)
       /\ \A i \in Started(c) : m # EndOf(c, i)
  <2>1. \A i, l : Nth(c, n, j) # EndOf(c, i) /\ (Nth(c, n, j) = Nth(c, i, l) => j = l)
    BY <1>0, Distinct
  <2> QED
    BY <1>4, <1>5, <2>1
<1>11. InHand'
  <2>1. fileNo'[c] = n /\ n >= 1
    BY <1>0, <1>2, <1>3
  <2>2. m = Nth(c, fileNo'[c], sending'[c].sent)
    BY <1>5, <1>8, <2>1
  <2>3. sending'[c].id = plan[c][fileNo'[c]].id /\ sending'[c].size = plan[c][fileNo'[c]].size
    BY <1>2, <1>8, <2>1
  <2> QED
    BY <1>7, <2>1, <2>2, <2>3, SentInHand
<1>12. QueueOrdered'
  <2>1. n \in Started(c)'
    BY <1>0 DEF Started
  <2>2. \E i \in 1..plan[c][n].size : m = Nth(c, n, i) /\ Ready(c, Len(toRecv[c]) + 1, n, i - 1)
    BY <1>2, <1>4, <1>5
  <2> QED
    BY <1>7, <2>1, <2>2, SentQueue
<1>13. StartsFresh' /\ EndsOnce'
  BY <1>0, <1>7, <1>10, SentStarts, SentEnds
<1> QED
  BY <1>7, <1>9, <1>10, <1>11, <1>12, <1>13, PInvOfSent

LEMMA SendEndPInv ==
  ASSUME PInv, IInv', NEW c \in Channels, SendEnd(c)
  PROVE  PInv'
<1>0. /\ SenderTypeOK /\ plan \in Workloads /\ plan' = plan /\ sender[c] = "sending" /\ session[c] = "open"
      /\ sending[c].sent = sending[c].size /\ UNCHANGED <<rvars, plan, sending, fileNo, outcome>>
      /\ sender' = [sender EXCEPT ![c] = "awaiting"]
  BY TypesFromPInv DEF SendEnd
<1>1. PICK n \in Started(c) : \E k \in 0..plan[c][n].size : \E l \in Nat :
           /\ n = fileNo[c] /\ k = sending[c].sent /\ l = Len(toRecv[c]) + 1
           /\ sending[c].id = plan[c][n].id /\ sending[c].size = plan[c][n].size
           /\ Ready(c, l, n, k)
  BY <1>0, InHandReady
<1>2. PICK k \in 0..plan[c][n].size :
           /\ n = fileNo[c] /\ k = plan[c][n].size
           /\ sending[c].id = plan[c][n].id /\ sending[c].size = plan[c][n].size
           /\ Ready(c, Len(toRecv[c]) + 1, n, k)
  BY <1>0, <1>1
<1>3. plan[c][n].id \in Ids /\ n >= 1
  <2>1. plan[c][n].id \in Ids /\ n \in 1..Len(plan[c])
    BY <1>0, StartedTypes
  <2> QED
    BY <1>0, <2>1, PlanTypes
<1>5. PICK m : m = EndOf(c, n) /\ m \in Message
  <2>1. EndOf(c, n) \in Message
    BY <1>3 DEF EndOf, Message
  <2> QED
    BY <2>1
<1>6. Send(c, m)
  BY <1>2, <1>5 DEF SendEnd, EndOf
<1>7. Sends(c, m) /\ sender'[c] = "awaiting"
  <2>1. fileNo'[c] \in {fileNo[c], fileNo[c] + 1}
    BY <1>0
  <2>2. sender'[c] = "awaiting" /\ \A d \in Channels : d # c => sender'[d] = sender[d]
    BY <1>0 DEF SenderTypeOK
  <2> QED
    BY <1>0, <1>6, <2>1, <2>2 DEF Sends
<1>9. SenderTypeOK'
  <2>1. sender' \in [Channels -> SenderPhases]
    BY <1>0 DEF SenderTypeOK, SenderPhases
  <2>2. toRecv' \in [Channels -> Seq(Message)]
    BY <1>0, <1>5, <1>6, SendTypes
  <2> QED
    BY <1>0, <2>1, <2>2 DEF SenderTypeOK
<1>10. \A i \in Started(c) : m # Nth(c, i, 0)
  <2>1. \A i, l : Nth(c, i, l) # EndOf(c, n)
    BY <1>0, Distinct
  <2> QED
    BY <1>5, <2>1
<1>11. InHand'
  <2>1. fileNo'[c] = n /\ n >= 1
    BY <1>0, <1>2, <1>3
  <2>3. sending'[c].id = plan[c][fileNo'[c]].id /\ sending'[c].size = plan[c][fileNo'[c]].size
    BY <1>0, <1>2, <2>1
  <2> QED
    BY <1>7, <2>1, <2>3, SentInHand
<1>12. QueueOrdered'
  <2>1. n \in Started(c)'
    BY <1>0 DEF Started
  <2>2. \E i \in 0..plan[c][n].size :
          i = plan[c][n].size /\ m = EndOf(c, n) /\ Ready(c, Len(toRecv[c]) + 1, n, i)
    BY <1>2, <1>5
  <2> QED
    BY <1>7, <2>1, <2>2, SentQueue
<1>13. StartsFresh' /\ EndsOnce'
  <2>1. m = EndOf(c, fileNo[c]) /\ sender'[c] # "sending"
    BY <1>2, <1>5, <1>7
  <2> QED
    BY <1>0, <1>7, <1>10, <2>1, SentStarts, SentEnds
<1> QED
  BY <1>7, <1>9, <1>10, <1>11, <1>12, <1>13, PInvOfSent
-----------------------------------------------------------------------------
(* What a sender concludes, and the steps that send nothing. *)

LEMMA SenderOnly ==
  ASSUME PInv, IInv', SenderTypeOK', Shut',
         UNCHANGED <<plan, fileNo, sending, toRecv, active, phase, info, finals, ledger>>,
         \A d \in Channels : sender'[d] \in {"sending", "awaiting"} => sender'[d] = sender[d],
         \A d \in Channels : session'[d] = "open" => session[d] = "open" \/ sender'[d] # "sending",
         \A d \in Channels : \A i \in DOMAIN acks'[d] : \E j \in DOMAIN acks[d] : acks'[d][i] = acks[d][j],
         \A d \in Channels, n \in FileNo :
           \/ outcome'[d][n] = outcome[d][n]
           \/ /\ n \in Started(d)
              /\ outcome'[d][n] = "delivered" => Delivered(d, n)
              /\ outcome'[d][n] = "refused" => Rejected(d, n)
  PROVE  PInv'
<1>1. /\ \A d, i, k : Nth(d, i, k)' = Nth(d, i, k) /\ EndOf(d, i)' = EndOf(d, i)
      /\ \A d, n, p : PathOf(p, d, n)' = PathOf(p, d, n)
      /\ \A d : Started(d)' = Started(d)
      /\ \A d, i, n, k : Ready(d, i, n, k)' = Ready(d, i, n, k)
  BY SamePlan DEF Nth, PathOf, Started, Ready, Received
<1>2. /\ \A d, n : Incomplete(d, n)' = Incomplete(d, n)
      /\ \A d, n : Rejected(d, n)' = Rejected(d, n)
      /\ \A d, n : Delivered(d, n)' = Delivered(d, n)
      /\ \A p, n : FileOf(p, n)' = FileOf(p, n)
  BY <1>1 DEF Incomplete, Rejected, Delivered, FileOf, Received
<1>3. InHand'
  <2>1. ASSUME NEW d \in Channels, sender'[d] = "sending"
        PROVE  Ready(d, Len(toRecv[d]) + 1, fileNo[d], sending[d].sent)'
    <3>1. Ready(d, Len(toRecv[d]) + 1, fileNo[d], sending[d].sent)
      BY <2>1 DEF PInv, InHand
    <3> QED
      BY <3>1 DEF Ready, Nth, Received
  <2> QED
    BY <2>1 DEF PInv, InHand
<1>4. QueueOrdered'
  BY <1>1 DEF PInv, QueueOrdered
<1>5. StartsFresh'
  BY <1>1 DEF PInv, StartsFresh
<1>6. EndsOnce'
  <2>1. ASSUME NEW d \in Channels, sender'[d] = "sending", session'[d] = "open"
        PROVE  /\ Incomplete(d, fileNo[d])'
               /\ \A i \in DOMAIN toRecv'[d] : toRecv'[d][i] # EndOf(d, fileNo[d])'
    <3>1. /\ Incomplete(d, fileNo[d])
          /\ \A i \in DOMAIN toRecv[d] : toRecv[d][i] # EndOf(d, fileNo[d])
      BY <2>1 DEF PInv, EndsOnce
    <3> QED
      BY <3>1 DEF Incomplete, PathOf, EndOf
  <2> QED
    BY <1>1, <1>2, <2>1 DEF PInv, EndsOnce
<1>7. FilesFaithful'
  BY <1>1, <1>2 DEF PInv, FilesFaithful
<1>8. AcksTrue'
  <2> SUFFICES ASSUME NEW d \in Channels, NEW i \in DOMAIN acks'[d]
               PROVE  \E n \in Started(d) :
                        /\ acks'[d][i].id = plan[d][n].id
                        /\ IF acks'[d][i].ok THEN Delivered(d, n) /\ acks'[d][i].size = plan[d][n].size
                                             ELSE Rejected(d, n)
    BY <1>1, <1>2 DEF AcksTrue
  <2> QED
    BY DEF PInv, AcksTrue
<1>9. ConclusionsTrue'
  BY <1>1, <1>2 DEF PInv, ConclusionsTrue
<1> QED
  BY <1>3, <1>4, <1>5, <1>6, <1>7, <1>8, <1>9 DEF PInv

LEMMA ConcludePInv ==
  ASSUME PInv, IInv', NEW c \in Channels, sender[c] \in {"sending", "awaiting"}, NEW r \in Outcomes, Conclude(c, r),
         UNCHANGED <<plan, fileNo, sending, toRecv, active, phase, info, finals, ledger, session>>,
         \A d \in Channels : \A i \in DOMAIN acks'[d] : \E j \in DOMAIN acks[d] : acks'[d][i] = acks[d][j],
         r = "delivered" => Delivered(c, fileNo[c]), r = "refused" => Rejected(c, fileNo[c])
  PROVE  PInv'
<1>0. /\ SenderTypeOK /\ fileNo[c] \in FileNo /\ fileNo[c] \in Started(c)
  <2>1. SenderTypeOK /\ fileNo[c] \in FileNo /\ fileNo[c] \in 1..Len(plan[c])
    BY TypesFromPInv, InHandTypes DEF PInv
  <2> QED
    BY <2>1 DEF Started
<1>1. /\ outcome' \in [Channels -> [FileNo -> Outcomes]] /\ sender' \in [Channels -> SenderPhases]
      /\ outcome'[c] = [outcome[c] EXCEPT ![fileNo[c]] = r]
      /\ \A d \in Channels : d # c => outcome'[d] = outcome[d] /\ sender'[d] = sender[d]
      /\ sender'[c] = "next"
  BY <1>0, ConcludeTypes
<1>2. SenderTypeOK'
  BY <1>0, <1>1 DEF SenderTypeOK
<1>3. \A n \in FileNo : outcome'[c][n] = IF n = fileNo[c] THEN r ELSE outcome[c][n]
  BY <1>0, <1>1 DEF SenderTypeOK
<1>4. \A d \in Channels, n \in FileNo :
        \/ outcome'[d][n] = outcome[d][n]
        \/ /\ n \in Started(d)
           /\ outcome'[d][n] = "delivered" => Delivered(d, n)
           /\ outcome'[d][n] = "refused" => Rejected(d, n)
  <2> SUFFICES ASSUME NEW d \in Channels, NEW n \in FileNo, outcome'[d][n] # outcome[d][n]
               PROVE  /\ n \in Started(d)
                      /\ outcome'[d][n] = "delivered" => Delivered(d, n)
                      /\ outcome'[d][n] = "refused" => Rejected(d, n)
    OBVIOUS
  <2>1. d = c /\ n = fileNo[c] /\ outcome'[d][n] = r
    BY <1>1, <1>3
  <2> QED
    BY <1>0, <2>1
<1>5. Shut'
  <2> SUFFICES ASSUME NEW d \in Channels, session[d] # "open" PROVE acks'[d] = <<>>
    BY DEF PInv, Shut
  <2>1. acks[d] = <<>>
    BY DEF PInv, Shut
  <2>2. acks'[d] \in Seq(Ack)
    BY DEF IInv, TypeOK
  <2>3. DOMAIN acks'[d] = {}
    BY <2>1
  <2> QED
    BY <2>2, <2>3
<1>6. \A d \in Channels : sender'[d] \in {"sending", "awaiting"} => sender'[d] = sender[d]
  BY <1>1
<1> QED
  BY <1>2, <1>4, <1>5, <1>6, SenderOnly

LEMMA ReceiveAckPInv ==
  ASSUME PInv, IInv', NEW c \in Channels, ReceiveAck(c)
  PROVE  PInv'
<1>0. /\ SenderTypeOK /\ TypeOK /\ plan \in Workloads /\ acks[c] # <<>> /\ acks' = [acks EXCEPT ![c] = Tail(acks[c])]
      /\ UNCHANGED <<plan, fileNo, sending, toRecv, active, phase, info, finals, ledger, session>>
  BY TypesFromPInv DEF ReceiveAck, TakeAck, disk
<1>1. acks \in [Channels -> Seq(Ack)] /\ acks[c] \in Seq(Ack)
  BY <1>0 DEF TypeOK
<1>2. \A d \in Channels : \A i \in DOMAIN acks'[d] : \E j \in DOMAIN acks[d] : acks'[d][i] = acks[d][j]
  <2> SUFFICES ASSUME NEW d \in Channels, NEW i \in DOMAIN acks'[d]
               PROVE  \E j \in DOMAIN acks[d] : acks'[d][i] = acks[d][j]
    OBVIOUS
  <2>1. CASE d = c
    <3>1. acks'[c] = Tail(acks[c])
      BY <1>0, <1>1
    <3>2. i + 1 \in DOMAIN acks[c] /\ acks'[c][i] = acks[c][i + 1]
      BY <1>0, <1>1, <2>1, <3>1
    <3> QED
      BY <2>1, <3>2
  <2>2. CASE d # c
    BY <1>0, <1>1, <2>2
  <2> QED
    BY <2>1, <2>2
<1>3. 1 \in DOMAIN acks[c] /\ Head(acks[c]) = acks[c][1]
  BY <1>0, <1>1
<1>4. PICK a : a = Head(acks[c])
  OBVIOUS
<1>5. PICK n \in Started(c) :
        /\ a.id = plan[c][n].id
        /\ IF a.ok THEN Delivered(c, n) /\ a.size = plan[c][n].size ELSE Rejected(c, n)
  BY <1>3, <1>4 DEF PInv, AcksTrue
<1>6. CASE sender[c] = "awaiting" /\ a.id = sending[c].id
  <2>1. /\ fileNo[c] \in 1..Len(plan[c])
        /\ sending[c].id = plan[c][fileNo[c]].id /\ sending[c].size = plan[c][fileNo[c]].size
    BY <1>0, <1>6, InHandTypes DEF PInv
  <2>2. n = fileNo[c]
    <3>1. n \in 1..Len(plan[c])
      BY <1>0, StartedTypes
    <3> QED
      BY <1>0, <1>5, <1>6, <2>1, <3>1, PlanTypes
  <2>3. Conclude(c, IF a.ok /\ a.size = sending[c].size THEN "delivered" ELSE "refused")
    BY <1>4, <1>6 DEF ReceiveAck
  <2>4. CASE a.ok
    <3>1. Conclude(c, "delivered") /\ Delivered(c, fileNo[c]) /\ "delivered" \in Outcomes
      BY <1>5, <2>1, <2>2, <2>3, <2>4 DEF Outcomes
    <3> QED
      BY <1>0, <1>2, <1>6, <3>1, ConcludePInv
  <2>5. CASE ~a.ok
    <3>1. Conclude(c, "refused") /\ Rejected(c, fileNo[c]) /\ "refused" \in Outcomes
      BY <1>5, <2>1, <2>2, <2>3, <2>5 DEF Outcomes
    <3> QED
      BY <1>0, <1>2, <1>6, <3>1, ConcludePInv
  <2> QED
    BY <2>4, <2>5
<1>7. CASE ~(sender[c] = "awaiting" /\ a.id = sending[c].id)
  <2>1. sender' = sender /\ outcome' = outcome
    BY <1>4, <1>7 DEF ReceiveAck
  <2>2. SenderTypeOK'
    BY <1>0, <2>1 DEF SenderTypeOK
  <2>3. Shut'
    BY <1>0, <1>1 DEF PInv, Shut
  <2> QED
    BY <1>0, <1>2, <2>1, <2>2, <2>3, SenderOnly
<1> QED
  BY <1>6, <1>7

LEMMA GiveUpPInv ==
  ASSUME PInv, IInv', NEW c \in Channels, Stall(c) \/ AckTimeout(c) \/ SendFails(c)
  PROVE  PInv'
<1>1. PICK r \in {"stalled", "unconfirmed", "closed"} : Conclude(c, r)
  BY DEF Stall, AckTimeout, SendFails
<1>2. /\ UNCHANGED <<plan, fileNo, sending, toRecv, active, phase, info, finals, ledger, session, acks>>
      /\ sender[c] \in {"sending", "awaiting"}
  BY DEF Stall, AckTimeout, SendFails, rvars
<1>3. r \in Outcomes /\ r # "delivered" /\ r # "refused"
  BY <1>1 DEF Outcomes
<1> QED
  BY <1>1, <1>2, <1>3, ConcludePInv

LEMMA IdlePInv ==
  ASSUME PInv, IInv', NEW c \in Channels, Connect(c) \/ Exit(c)
  PROVE  PInv'
<1>0. /\ SenderTypeOK /\ TypeOK
      /\ UNCHANGED <<plan, fileNo, sending, toRecv, active, phase, info, finals, ledger, acks, outcome>>
  BY TypesFromPInv DEF Connect, Open, Exit, rvars, disk
<1>1. PICK s \in {"next", "done"} : sender' = [sender EXCEPT ![c] = s]
  BY DEF Connect, Exit
<1>2. \A d \in Channels : sender'[d] = IF d = c THEN s ELSE sender[d]
  BY <1>0, <1>1 DEF SenderTypeOK
<1>3. SenderTypeOK'
  <2>1. sender' \in [Channels -> SenderPhases]
    BY <1>0, <1>1 DEF SenderTypeOK, SenderPhases
  <2> QED
    BY <1>0, <2>1 DEF SenderTypeOK
<1>4. \A d \in Channels : session'[d] = session[d] \/ (d = c /\ session'[d] = "open")
  BY <1>0 DEF Connect, Open, Exit, rvars, TypeOK
<1>5. Shut'
  BY <1>0, <1>4 DEF PInv, Shut
<1> QED
  BY <1>0, <1>2, <1>3, <1>4, <1>5, SenderOnly

LEMMA SamePInv ==
  ASSUME PInv, UNCHANGED vars
  PROVE  PInv'
<1>1. IInv' /\ SenderTypeOK' /\ Shut'
  BY DEF PInv, IInv, TypeOK, PathsInOrder, ClaimsExact, OneReceiver, PublishedWhole, NoStrayParts, LivePaths,
         Received, SenderTypeOK, Shut, vars, svars, rvars
<1>2. UNCHANGED <<plan, fileNo, sending, toRecv, active, phase, info, finals, ledger, sender, session, acks, outcome>>
  BY DEF vars, svars, rvars
<1> QED
  BY <1>1, <1>2, SenderOnly
-----------------------------------------------------------------------------
(* All steps together. *)

LEMMA InitPInv == PInit => PInv
<1> SUFFICES ASSUME PInit PROVE PInv
  OBVIOUS
<1>1. IInv
  BY InitIInv DEF PInit
<1>2. SenderTypeOK
  <2>1. \A c \in Channels : Len(plan[c]) \in Nat
    BY PlanTypes DEF PInit, SInit
  <2>2. MaxFiles \in Nat
    BY SenderAssumption
  <2>3. toRecv \in [Channels -> Seq(Message)]
    BY DEF PInit, SInit
  <2>4. /\ sender \in [Channels -> SenderPhases]
        /\ outcome \in [Channels -> [FileNo -> Outcomes]]
    BY DEF PInit, SInit, SenderPhases, Outcomes
  <2>5. /\ fileNo \in [Channels -> 0..MaxFiles]
        /\ \A c \in Channels : fileNo[c] <= Len(plan[c])
    BY <2>1, <2>2 DEF PInit, SInit
  <2>6. /\ sending \in [Channels -> [id: Ids \cup {NoId}, size: Sizes \cup {0}, sent: Nat]]
        /\ \A c \in Channels : sending[c].sent <= sending[c].size
    BY DEF PInit, SInit
  <2> QED
    BY <2>3, <2>4, <2>5, <2>6 DEF SenderTypeOK, PInit, SInit
<1>3. InHand /\ Shut /\ QueueOrdered /\ StartsFresh /\ EndsOnce
  BY DEF PInit, SInit, Init, InHand, Shut, QueueOrdered, StartsFresh, EndsOnce
<1>4. FilesFaithful /\ AcksTrue /\ ConclusionsTrue
  BY DEF PInit, SInit, Init, FilesFaithful, AcksTrue, ConclusionsTrue
<1> QED
  BY <1>1, <1>2, <1>3, <1>4 DEF PInv

LEMMA NextPInv == PInv /\ [PNext]_vars => PInv'
<1> SUFFICES ASSUME PInv, [PNext]_vars PROVE PInv'
  OBVIOUS
<1>1. IInv'
  BY TypesFromPInv, StepRefines, NextIInv
<1>2. ASSUME NEW c \in Channels, SenderStep(c) PROVE PInv'
  BY <1>1, <1>2, SendStartPInv, SendChunkPInv, SendEndPInv, GiveUpPInv, IdlePInv, ReceiveAckPInv DEF SenderStep
<1>3. ASSUME NEW c \in Channels, Deliver(c) \/ Lose(c) PROVE PInv'
  BY <1>1, <1>3, DeliverPInv, LosePInv
<1>4. CASE ReceiverCrash \/ ReceiverStep
  BY <1>1, <1>4, CrashPInv, ReceiverStepPInv
<1>5. CASE Quiet \/ UNCHANGED vars
  BY <1>5, SamePInv DEF Quiet
<1> QED
  BY <1>2, <1>3, <1>4, <1>5 DEF PNext

\* Whatever the senders and their channels do, what is in flight, in hand and
\* on disk stays in step with what was sent.
THEOREM TransferInvariant == PSpec => []PInv
<1>1. PInit => PInv
  BY InitPInv
<1>2. PInv /\ [PNext]_vars => PInv'
  BY NextPInv
<1> QED
  BY <1>1, <1>2, PTL DEF PSpec

LEMMA PublishedFile ==
  ASSUME PInv, NEW p \in finals
  PROVE  /\ p \in Paths /\ phase[p] \in {"renamed", "published", "lost"} /\ Received(p) = info[p].size
         /\ info[p].chan \in Channels
         /\ \E n \in Started(info[p].chan) : FileOf(p, n)
<1>1. p \in Paths /\ phase[p] \in {"renamed", "published", "lost"} /\ Received(p) = info[p].size
  BY TypesFromPInv DEF IInv, TypeOK, PathsInOrder, PublishedWhole
<1> QED
  BY <1>1, NonfreeTypes DEF PInv, FilesFaithful

\* What sendFile reports is true, and a published file is the sender's file,
\* whole and in order (send.ts #104; README: channels cannot mix their bytes).
THEOREM TransferIsTrue == PSpec => []TransferTrue
<1>1. PInv => TransferTrue
  <2> SUFFICES ASSUME PInv PROVE TransferTrue
    OBVIOUS
  <2>1. \A c \in Channels, n \in FileNo : outcome[c][n] = "delivered" =>
          \E p \in ledger \cap finals : info[p].name = <<c, n>>
    BY DEF PInv, ConclusionsTrue, Delivered
  <2>2. ASSUME NEW p \in finals, NEW q \in finals, info[p].name = info[q].name PROVE p = q
    BY <2>2, PublishedFile DEF PInv, FilesFaithful
  <2>3. ASSUME NEW p \in finals PROVE outcome[info[p].name[1]][info[p].name[2]] # "refused"
    <3>1. PICK c \in Channels : c = info[p].chan
      BY PublishedFile
    <3>2. PICK n \in Started(c) : FileOf(p, n)
      BY <3>1, PublishedFile
    <3>3. info[p].name = <<c, n>> /\ n \in FileNo
      BY <3>1, <3>2, TypesFromPInv, StartedTypes DEF FileOf
    <3>4. ~Rejected(c, n)
      BY <3>3, PublishedFile DEF Rejected, PathOf
    <3> QED
      BY <3>3, <3>4 DEF PInv, ConclusionsTrue
  <2>4. NoMixing
    BY PublishedFile DEF NoMixing, FileOf
  <2> QED
    BY <2>1, <2>2, <2>3, <2>4 DEF TransferTrue, OutcomeTrue
<1> QED
  BY <1>1, TransferInvariant, PTL
-----------------------------------------------------------------------------
(* A file-end is answered: the answer's way from the queue to the sender. *)

EndUnderWay(c, id) == \E i \in DOMAIN toRecv[c] : toRecv[c][i] = [type |-> "end", id |-> id]
Committing(c, id) == \E p \in Paths : phase[p] \in {"queued", "flushing", "renamed"} /\ info[p].chan = c /\ info[p].id = id
Answered(c, id) == \E i \in DOMAIN acks[c] : acks[c][i].id = id
Coming(c, id) == EndUnderWay(c, id) \/ Committing(c, id) \/ Answered(c, id)

\* What a step may do without losing an answer of c.
QueueKept(c) == \A i \in DOMAIN toRecv[c] : \E j \in DOMAIN toRecv'[c] : toRecv'[c][j] = toRecv[c][i]
CommitsKept(c) ==
  \A p \in Paths : phase[p] \in {"queued", "flushing", "renamed"} /\ info[p].chan = c =>
    \/ phase'[p] \in {"queued", "flushing", "renamed"} /\ info'[p].chan = c /\ info'[p].id = info[p].id
    \/ \E i \in DOMAIN acks'[c] : acks'[c][i].id = info[p].id
AnswersKept(c) == \A i \in DOMAIN acks[c] : \E j \in DOMAIN acks'[c] : acks'[c][j] = acks[c][i]

LEMMA ComingKept ==
  ASSUME NEW c \in Channels, NEW id, CommitsKept(c), AnswersKept(c),
         EndUnderWay(c, id) => QueueKept(c) \/ Coming(c, id)', Coming(c, id)
  PROVE  Coming(c, id)'
<1>1. CASE EndUnderWay(c, id) /\ QueueKept(c)
  <2>1. \E j \in DOMAIN toRecv'[c] : toRecv'[c][j] = [type |-> "end", id |-> id]
    BY <1>1 DEF EndUnderWay, QueueKept
  <2> QED
    BY <2>1 DEF EndUnderWay, Coming
<1>2. CASE Committing(c, id)
  <2>1. PICK p \in Paths : phase[p] \in {"queued", "flushing", "renamed"} /\ info[p].chan = c /\ info[p].id = id
    BY <1>2 DEF Committing
  <2>2. CASE phase'[p] \in {"queued", "flushing", "renamed"} /\ info'[p].chan = c /\ info'[p].id = info[p].id
    BY <2>1, <2>2 DEF Committing, Coming
  <2>3. CASE \E i \in DOMAIN acks'[c] : acks'[c][i].id = info[p].id
    BY <2>1, <2>3 DEF Answered, Coming
  <2> QED
    BY <2>1, <2>2, <2>3 DEF CommitsKept
<1>3. CASE Answered(c, id)
  BY <1>3 DEF Answered, AnswersKept, Coming
<1> QED
  BY <1>1, <1>2, <1>3 DEF Coming

LEMMA AppendAnswers ==
  ASSUME TypeOK, NEW c \in Channels, NEW a, acks' = [acks EXCEPT ![c] = Append(@, a)]
  PROVE  /\ \A d \in Channels : AnswersKept(d)
         /\ Answered(c, a.id)'
<1>1. acks \in [Channels -> Seq(Ack)] /\ acks[c] \in Seq(Ack)
  BY DEF TypeOK
<1>2. acks'[c] = Append(acks[c], a) /\ \A d \in Channels : d # c => acks'[d] = acks[d]
  BY <1>1
<1>3. /\ \A i \in DOMAIN acks[c] : i \in DOMAIN acks'[c] /\ acks'[c][i] = acks[c][i]
      /\ Len(acks[c]) + 1 \in DOMAIN acks'[c] /\ acks'[c][Len(acks[c]) + 1] = a
  BY <1>1, <1>2
<1>4. ASSUME NEW d \in Channels PROVE AnswersKept(d)
  <2>1. CASE d = c
    BY <1>3, <2>1 DEF AnswersKept
  <2>2. CASE d # c
    BY <1>2, <2>2 DEF AnswersKept
  <2> QED
    BY <2>1, <2>2
<1>5. \E i \in DOMAIN acks'[c] : acks'[c][i].id = a.id
  BY <1>3
<1> QED
  BY <1>4, <1>5 DEF Answered

LEMMA RejectAnswers ==
  ASSUME TypeOK, NEW c \in Channels, NEW id, NEW n, Reject(c, id, n)
  PROVE  (\A d \in Channels : AnswersKept(d)) /\ \E i \in DOMAIN acks'[c] : acks'[c][i].id = id
<1>1. PICK a : a = [id |-> id, size |-> n, ok |-> FALSE]
  OBVIOUS
<1>2. acks' = [acks EXCEPT ![c] = Append(@, a)] /\ a.id = id
  BY <1>1 DEF Reject, Emit
<1> QED
  BY <1>2, AppendAnswers DEF Answered

\* A step that leaves the sender of d where it is.
Waits(d) == sender'[d] = "awaiting" /\ session'[d] = "open"
LEMMA StillComing ==
  ASSUME EndAnswered, NEW d \in Channels, Waits(d), sender'[d] = sender[d], session[d] = "open",
         sending'[d].id = sending[d].id, CommitsKept(d), AnswersKept(d),
         EndUnderWay(d, sending[d].id) =>
           QueueKept(d) \/ \E id : id = sending[d].id /\ Coming(d, id)'
  PROVE  \E id : id = sending'[d].id /\ Coming(d, id)'
<1>1. PICK id : id = sending[d].id
  OBVIOUS
<1>2. Coming(d, id)
  BY <1>1 DEF EndAnswered, Waits, Coming, EndUnderWay, Committing, Answered
<1>3. EndUnderWay(d, id) => QueueKept(d) \/ Coming(d, id)'
  BY <1>1
<1> QED
  BY <1>1, <1>2, <1>3, ComingKept

LEMMA Untouched ==
  ASSUME NEW d \in Channels, toRecv'[d] = toRecv[d], acks'[d] = acks[d], phase' = phase, info' = info
  PROVE  QueueKept(d) /\ CommitsKept(d) /\ AnswersKept(d)
BY DEF QueueKept, CommitsKept, AnswersKept
LEMMA TailFacts ==
  ASSUME NEW S, NEW s \in Seq(S), s # <<>>
  PROVE  /\ Len(s) \in Nat /\ DOMAIN s = 1..Len(s) /\ s[1] = Head(s)
         /\ DOMAIN Tail(s) = 1..(Len(s) - 1)
         /\ \A j \in 1..(Len(s) - 1) : Tail(s)[j] = s[j + 1]
OBVIOUS

\* Steps of one channel's sender or queue leave the other channels alone.
LEMMA OthersComing ==
  ASSUME EndAnswered, NEW c \in Channels, phase' = phase, info' = info,
         \A d \in Channels : d # c => /\ toRecv'[d] = toRecv[d] /\ acks'[d] = acks[d] /\ session'[d] = session[d]
                                      /\ sender'[d] = sender[d] /\ sending'[d] = sending[d],
         NEW d \in Channels, d # c, Waits(d)
  PROVE  \E id : id = sending'[d].id /\ Coming(d, id)'
<1>1. QueueKept(d) /\ CommitsKept(d) /\ AnswersKept(d)
  BY Untouched
<1> QED
  BY <1>1, StillComing DEF Waits

LEMMA SendsComing ==
  ASSUME PInv, EndAnswered, NEW c \in Channels, SendStart(c) \/ SendChunk(c) \/ SendEnd(c),
         NEW d \in Channels, Waits(d)
  PROVE  \E id : id = sending'[d].id /\ Coming(d, id)'
<1>1. phase' = phase /\ info' = info /\ acks' = acks /\ session' = session
  BY DEF SendStart, SendChunk, SendEnd, rvars
<1>2. PICK m : Send(c, m) /\ (SendEnd(c) => m = [type |-> "end", id |-> sending[c].id])
  BY DEF SendStart, SendChunk, SendEnd
<1>3. /\ toRecv \in [Channels -> Seq(Message)] /\ toRecv' = [toRecv EXCEPT ![c] = Append(toRecv[c], m)]
  BY <1>2, TypesFromPInv DEF SenderTypeOK, Send
<1>4. /\ toRecv'[c] = Append(toRecv[c], m) /\ toRecv[c] \in Seq(Message)
      /\ \A e \in Channels : e # c => toRecv'[e] = toRecv[e]
  BY <1>3
<1>5. CASE d # c
  <2>1. \A e \in Channels : e # c => sender'[e] = sender[e] /\ sending'[e] = sending[e]
    BY TypesFromPInv DEF SenderTypeOK, SendStart, SendChunk, SendEnd
  <2> QED
    BY <1>1, <1>4, <1>5, <2>1, OthersComing
<1>6. CASE d = c /\ SendEnd(c)
  <2>1. sending'[c].id = sending[c].id
    BY <1>6 DEF SendEnd
  <2>2. Len(toRecv[c]) + 1 \in DOMAIN toRecv'[c] /\ toRecv'[c][Len(toRecv[c]) + 1] = m
    BY <1>4
  <2>3. PICK id : id = sending'[c].id
    OBVIOUS
  <2>4. m = [type |-> "end", id |-> id]
    BY <1>2, <1>6, <2>1, <2>3
  <2>5. EndUnderWay(c, id)'
    BY <2>2, <2>4 DEF EndUnderWay
  <2> QED
    BY <1>6, <2>3, <2>5 DEF Coming
<1>7. CASE d = c /\ (SendStart(c) \/ SendChunk(c))
  BY <1>7, TypesFromPInv DEF SendStart, SendChunk, Waits, SenderTypeOK
<1> QED
  BY <1>5, <1>6, <1>7

LEMMA QuietComing ==
  ASSUME PInv, EndAnswered, NEW c \in Channels,
         Stall(c) \/ AckTimeout(c) \/ SendFails(c) \/ Connect(c) \/ Exit(c),
         NEW d \in Channels, Waits(d)
  PROVE  \E id : id = sending'[d].id /\ Coming(d, id)'
<1>1. phase' = phase /\ info' = info /\ acks' = acks /\ toRecv' = toRecv /\ sending' = sending
  BY DEF Stall, AckTimeout, SendFails, Connect, Exit, Open, rvars
<1>2. PICK s \in {"next", "done"} : sender' = [sender EXCEPT ![c] = s]
  BY DEF Stall, AckTimeout, SendFails, Connect, Exit, Conclude
<1>3. sender'[c] = s /\ \A e \in Channels : e # c => sender'[e] = sender[e]
  BY <1>2, TypesFromPInv DEF SenderTypeOK
<1>4. \A e \in Channels : e # c => session'[e] = session[e]
  BY TypesFromPInv DEF TypeOK, Stall, AckTimeout, SendFails, Connect, Exit, Open, rvars
<1>5. d # c
  BY <1>2, <1>3 DEF Waits
<1> QED
  BY <1>1, <1>3, <1>4, <1>5, OthersComing

LEMMA TakeComing ==
  ASSUME PInv, EndAnswered, NEW c \in Channels, ReceiveAck(c), NEW d \in Channels, Waits(d)
  PROVE  \E id : id = sending'[d].id /\ Coming(d, id)'
<1>1. /\ phase' = phase /\ info' = info /\ session' = session /\ toRecv' = toRecv /\ sending' = sending
      /\ acks[c] # <<>> /\ acks' = [acks EXCEPT ![c] = Tail(acks[c])]
  BY DEF ReceiveAck, TakeAck
<1>2. /\ acks[c] \in Seq(Ack) /\ acks'[c] = Tail(acks[c])
      /\ \A e \in Channels : e # c => acks'[e] = acks[e]
  BY <1>1, TypesFromPInv DEF TypeOK
<1>3. CASE sender[c] = "awaiting" /\ Head(acks[c]).id = sending[c].id
  <2>1. sender' = [sender EXCEPT ![c] = "next"]
    BY <1>3 DEF ReceiveAck, Conclude
  <2>2. sender'[c] = "next" /\ \A e \in Channels : e # c => sender'[e] = sender[e]
    BY <2>1, TypesFromPInv DEF SenderTypeOK
  <2>3. d # c
    BY <2>2 DEF Waits
  <2> QED
    BY <1>1, <1>2, <2>2, <2>3, OthersComing
<1>4. CASE ~(sender[c] = "awaiting" /\ Head(acks[c]).id = sending[c].id)
  <2>1. sender' = sender
    BY <1>4 DEF ReceiveAck
  <2>2. CASE d # c
    BY <1>1, <1>2, <2>1, <2>2, OthersComing
  <2>3. CASE d = c
    <3>1. PICK id : id = sending[c].id
      OBVIOUS
    <3>2. Coming(c, id)
      BY <1>1, <2>1, <2>3, <3>1 DEF EndAnswered, Waits, Coming, EndUnderWay, Committing, Answered
    <3>3. CASE Answered(c, id)
      <4>1. PICK i \in DOMAIN acks[c] : acks[c][i].id = id
        BY <3>3 DEF Answered
      <4>2. Head(acks[c]).id # id
        BY <1>4, <2>1, <2>3, <3>1 DEF Waits
      <4>3. /\ DOMAIN acks[c] = 1..Len(acks[c]) /\ Len(acks[c]) \in Nat /\ acks[c][1] = Head(acks[c])
            /\ DOMAIN acks'[c] = 1..(Len(acks[c]) - 1)
            /\ \A j \in 1..(Len(acks[c]) - 1) : acks'[c][j] = acks[c][j + 1]
        BY <1>1, <1>2, TailFacts
      <4>4. i # 1
        BY <4>1, <4>2, <4>3
      <4>5. i - 1 \in 1..(Len(acks[c]) - 1) /\ (i - 1) + 1 = i
        <5>1. \A l \in Nat : \A j \in 1..l : j # 1 => j - 1 \in 1..(l - 1) /\ (j - 1) + 1 = j
          OBVIOUS
        <5>2. i \in 1..Len(acks[c])
          BY <4>1, <4>3
        <5> QED
          BY <4>3, <4>4, <5>1, <5>2, Zenon
      <4>6. i - 1 \in DOMAIN acks'[c] /\ acks'[c][i - 1].id = id
        BY <4>1, <4>3, <4>5
      <4>7. Answered(c, id)'
        BY <4>6 DEF Answered
      <4> QED
        BY <1>1, <2>3, <3>1, <4>7 DEF Coming
    <3>4. CASE EndUnderWay(c, id) \/ Committing(c, id)
      BY <1>1, <2>3, <3>1, <3>4 DEF Coming, EndUnderWay, Committing
    <3> QED
      BY <3>2, <3>3, <3>4 DEF Coming
  <2> QED
    BY <2>2, <2>3
<1> QED
  BY <1>3, <1>4

LEMMA CutComing ==
  ASSUME PInv, EndAnswered, (\E c \in Channels : Lose(c)) \/ ReceiverCrash, NEW d \in Channels, Waits(d)
  PROVE  \E id : id = sending'[d].id /\ Coming(d, id)'
<1>1. ASSUME NEW c \in Channels, Lose(c) PROVE \E id : id = sending'[d].id /\ Coming(d, id)'
  <2>1. /\ info' = info /\ sender' = sender /\ sending' = sending
        /\ session'[c] = "closed"
        /\ \A e \in Channels : e # c => session'[e] = session[e] /\ toRecv'[e] = toRecv[e] /\ acks'[e] = acks[e]
    BY <1>1, TypesFromPInv DEF Lose, Close, TypeOK, SenderTypeOK
  <2>2. d # c
    BY <2>1 DEF Waits
  <2>3. \A p \in Paths : phase[p] \in {"queued", "flushing", "renamed"} => phase'[p] = phase[p]
    <3>1. CASE active[c] = NoPath
      BY <1>1, <3>1 DEF Lose, Close
    <3>2. CASE active[c] # NoPath
      <4>1. active[c] \in Paths /\ phase[active[c]] = "receiving"
        BY <3>2, ActiveTypes, TypesFromPInv
      <4>2. phase' = [phase EXCEPT ![active[c]] = "dropped"]
        BY <1>1, <3>2 DEF Lose, Close, AbortActive, Discard
      <4> QED
        BY <4>1, <4>2, PhaseStep, TypesFromPInv
    <3> QED
      BY <3>1, <3>2
  <2>4. QueueKept(d) /\ AnswersKept(d) /\ CommitsKept(d)
    BY <2>1, <2>2, <2>3 DEF QueueKept, AnswersKept, CommitsKept
  <2> QED
    BY <2>1, <2>2, <2>4, StillComing DEF Waits
<1>2. CASE ReceiverCrash
  BY <1>2 DEF ReceiverCrash, Crash, Waits
<1> QED
  BY <1>1, <1>2

\* The receiver handles a message: the answer moves on.
LEMMA DeliverComing ==
  ASSUME PInv, EndAnswered, NEW c \in Channels, Deliver(c), NEW d \in Channels, Waits(d)
  PROVE  \E id : id = sending'[d].id /\ Coming(d, id)'
<1> DEFINE m == Head(toRecv[c])
           p == active[c]
<1>0. /\ toRecv[c] # <<>> /\ HandleMessage(c, m) /\ sender' = sender /\ sending' = sending
      /\ toRecv' = [toRecv EXCEPT ![c] = Tail(toRecv[c])]
  BY DEF Deliver
<1>1. session' = session
  BY <1>0 DEF HandleMessage, StartOverlapping, StartRefused, StartAccepted, ChunkIgnored,
              ChunkOverflows, ChunkWritten, EndUnknown, EndQueued, rvars
<1>2. /\ toRecv[c] \in Seq(Message) /\ toRecv'[c] = Tail(toRecv[c])
      /\ \A e \in Channels : e # c => toRecv'[e] = toRecv[e]
  BY <1>0, TypesFromPInv DEF SenderTypeOK
<1>3. /\ Len(toRecv[c]) \in Nat /\ DOMAIN toRecv[c] = 1..Len(toRecv[c]) /\ toRecv[c][1] = m
      /\ DOMAIN toRecv'[c] = 1..(Len(toRecv[c]) - 1)
      /\ \A j \in 1..(Len(toRecv[c]) - 1) : toRecv'[c][j] = toRecv[c][j + 1]
  BY <1>0, <1>2, TailFacts
<1>4. \A i \in DOMAIN toRecv[c] : i # 1 => \E j \in DOMAIN toRecv'[c] : toRecv'[c][j] = toRecv[c][i]
  <2> SUFFICES ASSUME NEW i \in DOMAIN toRecv[c], i # 1
               PROVE  \E j \in DOMAIN toRecv'[c] : toRecv'[c][j] = toRecv[c][i]
    OBVIOUS
  <2>1. \A l \in Nat : \A j \in 1..l : j # 1 => j - 1 \in 1..(l - 1) /\ (j - 1) + 1 = j
    OBVIOUS
  <2>2. i - 1 \in 1..(Len(toRecv[c]) - 1) /\ (i - 1) + 1 = i
    BY <1>3, <2>1, Zenon
  <2> QED
    BY <1>3, <2>2
<1>5. d # c => QueueKept(d)
  BY <1>2 DEF QueueKept
<1>6. m.type # "end" /\ EndUnderWay(d, sending[d].id)
        => QueueKept(d) \/ \E id : id = sending[d].id /\ Coming(d, id)'
  <2> SUFFICES ASSUME m.type # "end", d = c, EndUnderWay(c, sending[c].id)
               PROVE  \E id : id = sending[c].id /\ Coming(c, id)'
    BY <1>5
  <2>1. PICK id : id = sending[c].id
    OBVIOUS
  <2>2. PICK i \in DOMAIN toRecv[c] : toRecv[c][i] = [type |-> "end", id |-> id]
    BY <2>1 DEF EndUnderWay
  <2>3. toRecv[c][i].type = "end"
    BY <2>2
  <2>4. i # 1
    BY <1>3, <2>3
  <2>5. PICK j \in DOMAIN toRecv'[c] : toRecv'[c][j] = [type |-> "end", id |-> id]
    BY <1>4, <2>2, <2>4
  <2>6. EndUnderWay(c, id)'
    BY <2>5 DEF EndUnderWay
  <2> QED
    BY <2>1, <2>6 DEF Coming
<1>7. session[d] = "open" /\ sender[d] = "awaiting" /\ sending'[d].id = sending[d].id
  BY <1>0, <1>1 DEF Waits
<1>8. SUFFICES /\ CommitsKept(d) /\ AnswersKept(d)
               /\ EndUnderWay(d, sending[d].id) => QueueKept(d) \/ \E id : id = sending[d].id /\ Coming(d, id)'
  BY <1>0, <1>7, StillComing, Zenon
<1>9. TypeOK /\ (p # NoPath => p \in Paths /\ phase[p] = "receiving" /\ info[p].chan = c)
  BY ActiveTypes, TypesFromPInv
<1>10. ASSUME AbortActive(c), p # NoPath, info' = info PROVE CommitsKept(d)
  <2>1. \A q \in Paths : q # p => phase'[q] = phase[q]
    BY <1>9, <1>10, PhaseStep DEF AbortActive, Discard
  <2> QED
    BY <1>9, <1>10, <2>1 DEF CommitsKept
<1>11. CASE StartOverlapping(c, m)
  <2>1. PICK a, b : acks' = [acks EXCEPT ![c] = Append(Append(@, a), b)]
    BY <1>11 DEF StartOverlapping
  <2>2. acks \in [Channels -> Seq(Ack)] /\ acks[c] \in Seq(Ack)
    BY <1>9 DEF TypeOK
  <2>3. acks'[c] = Append(Append(acks[c], a), b) /\ \A e \in Channels : e # c => acks'[e] = acks[e]
    BY <2>1, <2>2
  <2>4. \A i \in DOMAIN acks[c] : i \in DOMAIN acks'[c] /\ acks'[c][i] = acks[c][i]
    BY <2>2, <2>3
  <2>5. AnswersKept(d)
    BY <2>3, <2>4 DEF AnswersKept
  <2> QED
    BY <1>6, <1>10, <1>11, <2>5 DEF StartOverlapping
<1>12. CASE StartRefused(c, m)
  <2>1. AnswersKept(d)
    BY <1>9, <1>12, RejectAnswers DEF StartRefused
  <2>2. CommitsKept(d)
    BY <1>12 DEF CommitsKept, StartRefused
  <2> QED
    BY <1>6, <1>12, <2>1, <2>2 DEF StartRefused
<1>13. CASE StartAccepted(c, m)
  <2>1. phase[nextPath] = "free" /\ nextPath \in Paths
    BY <1>13, TypesFromPInv DEF StartAccepted, IInv, PathsInOrder, TypeOK, Paths
  <2>2. \A q \in Paths : q # nextPath => phase'[q] = phase[q] /\ info'[q] = info[q]
    BY <1>9, <1>13, <2>1 DEF StartAccepted, TypeOK
  <2>3. CommitsKept(d)
    BY <2>1, <2>2 DEF CommitsKept
  <2>4. AnswersKept(d)
    BY <1>13 DEF AnswersKept, StartAccepted
  <2> QED
    BY <1>6, <1>13, <2>3, <2>4 DEF StartAccepted
<1>14. CASE ChunkIgnored(c, m)
  <2>1. CommitsKept(d) /\ AnswersKept(d)
    BY <1>14 DEF ChunkIgnored, rvars, CommitsKept, AnswersKept
  <2> QED
    BY <1>6, <1>14, <2>1 DEF ChunkIgnored
<1>15. CASE ChunkOverflows(c, m)
  <2>1. AnswersKept(d)
    BY <1>9, <1>15, RejectAnswers DEF ChunkOverflows
  <2> QED
    BY <1>6, <1>10, <1>15, <2>1 DEF ChunkOverflows
<1>16. CASE ChunkWritten(c, m)
  <2>1. info' = [info EXCEPT ![p].content = Append(@, m.data)] /\ phase' = phase /\ p # NoPath
    BY <1>16 DEF ChunkWritten
  <2>2. \A q \in Paths : q # p => info'[q] = info[q]
    BY <1>9, <2>1 DEF TypeOK
  <2>3. CommitsKept(d)
    BY <1>9, <2>1, <2>2 DEF CommitsKept
  <2>4. AnswersKept(d)
    BY <1>16 DEF AnswersKept, ChunkWritten
  <2> QED
    BY <1>6, <1>16, <2>3, <2>4 DEF ChunkWritten
<1>17. ASSUME m.type = "end", \E id : id = m.id /\ (Committing(c, id)' \/ Answered(c, id)')
       PROVE  EndUnderWay(d, sending[d].id) => QueueKept(d) \/ \E id : id = sending[d].id /\ Coming(d, id)'
  <2> SUFFICES ASSUME d = c, EndUnderWay(c, sending[c].id)
               PROVE  \E id : id = sending[c].id /\ Coming(c, id)'
    BY <1>5
  <2>1. PICK id : id = sending[c].id
    OBVIOUS
  <2>2. PICK i \in DOMAIN toRecv[c] : toRecv[c][i] = [type |-> "end", id |-> id]
    BY <2>1 DEF EndUnderWay
  <2>3. CASE i = 1
    <3>1. m.id = id
      <4>1. m = [type |-> "end", id |-> id]
        BY <1>3, <2>2, <2>3
      <4> QED
        BY <4>1
    <3> QED
      BY <1>17, <2>1, <3>1 DEF Coming
  <2>4. CASE i # 1
    <3>1. PICK j \in DOMAIN toRecv'[c] : toRecv'[c][j] = [type |-> "end", id |-> id]
      BY <1>4, <2>2, <2>4
    <3>2. EndUnderWay(c, id)'
      BY <3>1 DEF EndUnderWay
    <3> QED
      BY <2>1, <3>2 DEF Coming
  <2> QED
    BY <2>3, <2>4
<1>18. CASE EndUnknown(c, m)
  <2>0. m.type = "end" /\ m.id \in Ids
    <3>1. PICK n \in Started(c) : m.id = plan[c][n].id
      BY <1>0, <1>18, HeadKnown DEF EndUnknown
    <3>2. plan[c][n].id \in Ids
      BY StartedTypes, TypesFromPInv
    <3> QED
      BY <1>18, <3>1, <3>2 DEF EndUnknown
  <2>1. Reject(c, m.id, 0) /\ phase' = phase /\ info' = info
    BY <1>18, <2>0 DEF EndUnknown
  <2>2. AnswersKept(d) /\ \E i \in DOMAIN acks'[c] : acks'[c][i].id = m.id
    BY <1>9, <2>1, RejectAnswers
  <2>3. CommitsKept(d)
    BY <2>1 DEF CommitsKept
  <2>4. \E id : id = m.id /\ Answered(c, id)'
    <3>1. PICK id : id = m.id
      OBVIOUS
    <3> QED
      BY <2>2, <3>1 DEF Answered
  <2> QED
    BY <1>17, <2>0, <2>2, <2>3, <2>4
<1>19. CASE EndQueued(c, m)
  <2>1. /\ m.type = "end" /\ p # NoPath /\ m.id = info[p].id /\ info' = info /\ acks' = acks
        /\ phase' = [phase EXCEPT ![p] = "queued"]
    BY <1>19 DEF EndQueued
  <2>2. phase'[p] = "queued" /\ \A q \in Paths : q # p => phase'[q] = phase[q]
    BY <1>9, <2>1, PhaseStep
  <2>3. CommitsKept(d) /\ AnswersKept(d)
    BY <1>9, <2>1, <2>2 DEF CommitsKept, AnswersKept
  <2>4. \E id : id = m.id /\ Committing(c, id)'
    <3>1. PICK id : id = m.id
      OBVIOUS
    <3>2. \E q \in Paths : phase'[q] \in {"queued", "flushing", "renamed"} /\ info'[q].chan = c /\ info'[q].id = id
      BY <1>9, <2>1, <2>2, <3>1
    <3> QED
      BY <3>1, <3>2 DEF Committing
  <2> QED
    BY <1>17, <2>1, <2>3, <2>4
<1> QED
  BY <1>0, <1>11, <1>12, <1>13, <1>14, <1>15, <1>16, <1>18, <1>19 DEF HandleMessage

\* A transfer that ends is answered, if its channel lives.
LEMMA EndingComing ==
  ASSUME PInv, NEW p \in Paths, phase[p] # "free", info' = info, \A q \in Paths : q # p => phase'[q] = phase[q],
         NEW ok \in BOOLEAN, Answer(p, ok), NEW d \in Channels, session[d] = "open"
  PROVE  AnswersKept(d) /\ CommitsKept(d)
<1>1. PICK c \in Channels : c = info[p].chan
  BY NonfreeTypes
<1>2. CASE session[c] = "open"
  <2>1. PICK a : a = [id |-> info[p].id, size |-> Received(p), ok |-> ok]
    OBVIOUS
  <2>2. acks' = [acks EXCEPT ![c] = Append(@, a)] /\ a.id = info[p].id
    BY <1>1, <1>2, <2>1 DEF Answer, Emit
  <2>3. AnswersKept(d) /\ \E i \in DOMAIN acks'[c] : acks'[c][i].id = a.id
    BY <2>2, AppendAnswers, TypesFromPInv DEF Answered
  <2> QED
    BY <1>1, <2>2, <2>3 DEF CommitsKept
<1>3. CASE session[c] # "open"
  <2>1. acks' = acks
    BY <1>1, <1>3 DEF Answer
  <2> QED
    BY <1>1, <1>3, <2>1 DEF AnswersKept, CommitsKept
<1> QED
  BY <1>2, <1>3

LEMMA StepComing ==
  ASSUME PInv, EndAnswered, ReceiverStep, NEW d \in Channels, Waits(d)
  PROVE  \E id : id = sending'[d].id /\ Coming(d, id)'
<1>0. UNCHANGED <<toRecv, sender, sending, info, session>>
  BY DEF ReceiverStep, svars, ErrorEvent, Finalize, FinalizeShort, FinalizeFlush, Rename, FlushFails, Publish,
         RecordFails, StreamFails
<1>1. QueueKept(d) /\ session[d] = "open" /\ sender'[d] = sender[d] /\ sending'[d].id = sending[d].id
  BY <1>0 DEF QueueKept, Waits
<1>2. SUFFICES CommitsKept(d) /\ AnswersKept(d)
  BY <1>1, StillComing, Zenon
<1>3. ASSUME NEW c \in Channels, ErrorEvent(c) PROVE CommitsKept(d) /\ AnswersKept(d)
  <2>1. AbortActive(c) /\ Reject(c, info[active[c]].id, Received(active[c])) /\ active[c] # NoPath
    BY <1>3, TypesFromPInv DEF ErrorEvent, TypeOK, Paths, NoPath
  <2>2. active[c] \in Paths /\ phase[active[c]] = "receiving"
    BY <2>1, ActiveTypes, TypesFromPInv
  <2>3. \A q \in Paths : q # active[c] => phase'[q] = phase[q]
    BY <2>1, <2>2, PhaseStep, TypesFromPInv DEF AbortActive, Discard
  <2>4. CommitsKept(d)
    BY <1>0, <2>2, <2>3 DEF CommitsKept
  <2>5. AnswersKept(d)
    BY <2>1, RejectAnswers, TypesFromPInv
  <2> QED
    BY <2>4, <2>5
<1>4. ASSUME NEW p \in Paths, FinalizeShort(p) \/ FlushFails(p) \/ Publish(p) \/ RecordFails(p)
      PROVE  CommitsKept(d) /\ AnswersKept(d)
  <2>1. phase[p] \in {"queued", "flushing", "renamed"} /\ \E ok \in BOOLEAN : Answer(p, ok)
    BY <1>4 DEF FinalizeShort, FlushFails, Publish, RecordFails, First
  <2>2. PICK f : phase' = [phase EXCEPT ![p] = f]
    BY <1>4 DEF FinalizeShort, FlushFails, Publish, RecordFails, Discard
  <2>3. \A q \in Paths : q # p => phase'[q] = phase[q]
    BY <2>2, PhaseStep, TypesFromPInv
  <2> QED
    BY <1>0, <1>1, <2>1, <2>3, EndingComing
<1>5. ASSUME NEW p \in Paths, FinalizeFlush(p) \/ Rename(p) \/ StreamFails(p)
      PROVE  CommitsKept(d) /\ AnswersKept(d)
  <2>1. \A q \in Paths : phase'[q] = phase[q] \/ phase'[q] \in {"flushing", "renamed"}
    BY <1>5, PhaseStep, TypesFromPInv DEF FinalizeFlush, Rename, StreamFails
  <2>2. acks' = acks
    BY <1>5 DEF FinalizeFlush, Rename, StreamFails
  <2> QED
    BY <1>0, <2>1, <2>2 DEF CommitsKept, AnswersKept
<1> QED
  BY <1>3, <1>4, <1>5 DEF ReceiverStep, Finalize

LEMMA NextComing == PInv /\ EndAnswered /\ [PNext]_vars => EndAnswered'
<1> SUFFICES ASSUME PInv, EndAnswered, [PNext]_vars PROVE EndAnswered'
  OBVIOUS
<1>1. ASSUME NEW d \in Channels, Waits(d) PROVE \E id : id = sending'[d].id /\ Coming(d, id)'
  <2>1. ASSUME NEW c \in Channels, SenderStep(c) PROVE \E id : id = sending'[d].id /\ Coming(d, id)'
    BY <1>1, <2>1, SendsComing, QuietComing, TakeComing DEF SenderStep
  <2>2. ASSUME NEW c \in Channels, Deliver(c) PROVE \E id : id = sending'[d].id /\ Coming(d, id)'
    BY <1>1, <2>2, DeliverComing
  <2>3. CASE (\E c \in Channels : Lose(c)) \/ ReceiverCrash
    BY <1>1, <2>3, CutComing
  <2>4. CASE ReceiverStep
    BY <1>1, <2>4, StepComing
  <2>5. CASE Quiet \/ UNCHANGED vars
    <3>1. UNCHANGED <<sender, session, sending, phase, info, toRecv, acks>>
      BY <2>5 DEF Quiet, vars, rvars, svars
    <3>2. QueueKept(d) /\ CommitsKept(d) /\ AnswersKept(d)
      BY <3>1, Untouched
    <3> QED
      BY <1>1, <3>1, <3>2, StillComing DEF Waits
  <2> QED
    BY <2>1, <2>2, <2>3, <2>4, <2>5 DEF PNext
<1> QED
  BY <1>1 DEF EndAnswered, Waits, Coming, EndUnderWay, Committing, Answered

\* A sender that waits on a live channel has its answer coming: the abort paths,
\* short ends and failed commits of TransferSession all answer.
THEOREM EndsAreAnswered == PSpec => []EndAnswered
<1>1. PInit => EndAnswered
  BY DEF PInit, SInit, Init, EndAnswered
<1>2. PInv /\ EndAnswered /\ [PNext]_vars => EndAnswered'
  BY NextComing
<1> QED
  BY <1>1, <1>2, TransferInvariant, PTL DEF PSpec
=============================================================================
