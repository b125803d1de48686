---------------------------- MODULE MqttForwarder ----------------------------
(***************************************************************************)
(* 02-mz_forwarder/server.ts: one MQTT connection to the broker, the frame *)
(* decoder behind it, and the unordered POSTs of the decoded readings.     *)
(*                                                                         *)
(* The broker's bytes are a sequence of frames and a count of the bytes    *)
(* that have arrived; a chunk ends anywhere.  A publish is numbered in the *)
(* order the broker sends it.                                              *)
(***************************************************************************)
EXTENDS Integers, Sequences, FiniteSets

CONSTANTS Lengths,     \* bytes of one frame, header included
          DryRun,      \* dry_run, or no api_endpoint
          MaxPublish,  \* bound: publishes the broker sends
          MaxDown      \* bound: connections lost or refused

ASSUME ForwarderAssumption ==
  /\ Lengths \subseteq Nat \ (0..1)
  /\ DryRun \in BOOLEAN /\ MaxPublish \in Nat /\ MaxDown \in Nat

\* A publish of a sensor carries a scalar; a status document of a nickname the
\* mapping has, or has not, a webid for.
PublishKinds == {"sensor", "status", "stranger"}

VARIABLES conn,       \* the socket: waiting to dial, dialing or open
          stream,     \* frames on this connection the decoder has not taken
          have,       \* bytes of them that have arrived in buf
          asked,      \* CONNECT answered and SUBSCRIBE written
          connected,  \* stats.connected
          ping,       \* the keepalive interval is set
          mapping,    \* loadMapping: under way, loaded or failed
          sent,       \* publishes the broker has sent
          received, dropped, forwarded, failed,  \* stats
          readings,   \* readings made, in order
          posts,      \* readings whose POST is under way
          downs

stats == <<received, dropped, forwarded, failed>>
link == <<conn, stream, have, asked, connected, ping>>
fvars == <<link, mapping, sent, stats, readings, posts, downs>>

Control == [kind: {"connack", "refusal", "suback"}, id: {0}, size: Lengths]
Frame == Control \cup [kind: PublishKinds, id: 1..MaxPublish, size: Lengths]
Publish(f) == f.kind \in PublishKinds
BrokerReading == [id: 1..MaxPublish, webid: BOOLEAN]

TypeOK ==
  /\ conn \in {"wait", "dialing", "open"}
  /\ stream \in Seq(Frame) /\ have \in Nat
  /\ asked \in BOOLEAN /\ connected \in BOOLEAN /\ ping \in BOOLEAN
  /\ mapping \in {"loading", "loaded", "failed"}
  /\ sent \in 0..MaxPublish
  /\ received \in Nat /\ dropped \in Nat /\ forwarded \in Nat /\ failed \in Nat
  /\ readings \in Seq(BrokerReading) /\ posts \subseteq 1..MaxPublish
  /\ downs \in 0..MaxDown
  /\ (conn # "open" => stream = <<>> /\ have = 0 /\ ~connected)

Init ==
  /\ conn = "dialing" /\ stream = <<>> /\ have = 0 /\ asked = FALSE
  /\ connected = FALSE /\ ping = FALSE
  /\ mapping = "loading"
  /\ sent = 0 /\ received = 0 /\ dropped = 0 /\ forwarded = 0 /\ failed = 0
  /\ readings = <<>> /\ posts = {}
  /\ downs = 0

\* loadMapping ends, well or not; nothing loads it again.
LoadMapping ==
  /\ mapping = "loading"
  /\ mapping' \in {"loaded", "failed"}
  /\ UNCHANGED <<link, sent, stats, readings, posts, downs>>

\* connect: a fresh buffer, the CONNECT packet, and the broker's verdict.
DialBroker ==
  /\ conn = "dialing"
  /\ conn' = "open" /\ asked' = FALSE /\ have' = 0
  /\ \E n \in Lengths, k \in {"connack"} \cup (IF downs < MaxDown THEN {"refusal"} ELSE {}) :
       stream' = <<[kind |-> k, id |-> 0, size |-> n]>>
  /\ UNCHANGED <<connected, ping, mapping, sent, stats, readings, posts, downs>>

DialBrokerFails ==
  /\ conn = "dialing" /\ downs < MaxDown
  /\ conn' = "wait" /\ downs' = downs + 1
  /\ UNCHANGED <<stream, have, asked, connected, ping, mapping, sent, stats, readings, posts>>

\* The broker, or the network, closes the connection; what is in buf is lost.
Close ==
  /\ conn = "open" /\ downs < MaxDown
  /\ conn' = "wait" /\ stream' = <<>> /\ have' = 0
  /\ connected' = FALSE /\ ping' = FALSE
  /\ downs' = downs + 1
  /\ UNCHANGED <<asked, mapping, sent, stats, readings, posts>>

\* setTimeout(connect, 5000)
Redial ==
  /\ conn = "wait" /\ conn' = "dialing"
  /\ UNCHANGED <<stream, have, asked, connected, ping, mapping, sent, stats, readings, posts, downs>>

\* The broker: a subscription is confirmed, then matching messages follow.
Suback ==
  /\ conn = "open" /\ asked
  /\ \A i \in DOMAIN stream : stream[i].kind # "suback"
  /\ asked' = FALSE
  /\ \E n \in Lengths : stream' = Append(stream, [kind |-> "suback", id |-> 0, size |-> n])
  /\ UNCHANGED <<conn, have, connected, ping, mapping, sent, stats, readings, posts, downs>>

Send(k) ==
  /\ connected /\ ~asked /\ sent < MaxPublish
  /\ sent' = sent + 1
  /\ \E n \in Lengths : stream' = Append(stream, [kind |-> k, id |-> sent + 1, size |-> n])
  /\ UNCHANGED <<conn, have, asked, connected, ping, mapping, stats, readings, posts, downs>>

-----------------------------------------------------------------------------
\* Bytes of the first k frames.
EndOf == LET e[k \in 0..Len(stream)] == IF k = 0 THEN 0 ELSE e[k - 1] + stream[k].size
       IN  e
Bytes == EndOf[Len(stream)]

\* toReading gives nothing for a status nobody can be named for, once the
\* mapping is there.
Unidentifiable(f) == f.kind = "stranger" /\ mapping = "loaded"
ReadingOf(f) == [id |-> f.id, webid |-> f.kind = "status" /\ mapping = "loaded"]

\* Mutant: one frame is taken per chunk.
TakenOne(n) ==
  IF stream # <<>> /\ Head(stream).size <= n /\ ~Unidentifiable(Head(stream)) THEN 1 ELSE 0

\* How many frames the loop takes out of a buffer of n bytes: complete ones, up
\* to an unidentifiable one, where it breaks off with that frame still in buf.
Taken(n) ==
  LET end == EndOf
      halts(k) == k = Len(stream) \/ end[k + 1] > n \/ Unidentifiable(stream[k + 1])
  IN  CHOOSE k \in 0..Len(stream) : halts(k) /\ \A j \in 0..(k - 1) : ~halts(j)

BreaksOff(n, k) ==
  /\ k < Len(stream) /\ Unidentifiable(stream[k + 1])
  /\ EndOf[k + 1] <= n

\* Mutant: a buffer drained to its last byte is not emptied.
SliceKeepsLast(k, n) ==
  IF EndOf[k] = n
    THEN stream' = stream /\ have' = n
    ELSE stream' = SubSeq(stream, k + 1, Len(stream)) /\ have' = n - EndOf[k]

\* buf.slice: k frames leave a buffer of n bytes.
Slice(k, n) == stream' = SubSeq(stream, k + 1, Len(stream)) /\ have' = n - EndOf[k]

\* The places P of the stream, one after the other.
OneByOne(P) == {at \in [1..Cardinality(P) -> P] : \A i, j \in DOMAIN at : i < j => at[i] < at[j]}

\* data(socket, chunk): n more bytes arrive and the loop drains the buffer.
Data(n) ==
  \E k \in {Taken(have + n)}, broke \in BOOLEAN :
    LET made == {i \in 1..k : Publish(stream[i])}
    IN  /\ conn = "open" /\ have + n <= Bytes
        /\ broke = BreaksOff(have + n, k)
        /\ Slice(k, have + n)
        /\ received' = received + Cardinality(made) + (IF broke THEN 1 ELSE 0)
        /\ dropped' = dropped + (IF broke THEN 1 ELSE 0)
        /\ \E at \in OneByOne(made) : readings' = readings \o [i \in DOMAIN at |-> ReadingOf(stream[at[i]])]
        /\ posts' = IF DryRun THEN posts ELSE posts \cup {stream[i].id : i \in made}
        /\ IF \E i \in 1..k : stream[i].kind = "connack"
             THEN connected' = TRUE /\ ping' = TRUE /\ asked' = TRUE
             ELSE UNCHANGED <<connected, ping, asked>>
        /\ UNCHANGED <<conn, mapping, sent, forwarded, failed, downs>>

\* forward: each POST ends on its own, and none is retried.
PostEnds(i, ok) ==
  /\ i \in posts
  /\ posts' = posts \ {i}
  /\ IF ok THEN forwarded' = forwarded + 1 /\ UNCHANGED failed
           ELSE failed' = failed + 1 /\ UNCHANGED forwarded
  /\ UNCHANGED <<link, mapping, sent, received, dropped, readings, downs>>

Arrival == \E n \in 1..(Bytes - have) : Data(n)

Next ==
  \/ LoadMapping
  \/ DialBroker \/ DialBrokerFails \/ Close \/ Redial
  \/ Suback \/ \E k \in PublishKinds : Send(k)
  \/ Arrival
  \/ \E i \in posts, ok \in BOOLEAN : PostEnds(i, ok)

Spec == Init /\ [][Next]_fvars

\* TCP delivers what the broker has written.
Fairness == WF_fvars(Arrival)

-----------------------------------------------------------------------------
\* A publish is read at most once and in the broker's order, however the bytes
\* are cut into chunks and whatever connection they came on.
InOrder == \A i, j \in DOMAIN readings : i < j => readings[i].id < readings[j].id

InStream(i) == \E j \in DOMAIN stream : stream[j].id = i
Stuck == stream # <<>> /\ Unidentifiable(Head(stream)) /\ Head(stream).size <= have

\* A publish that was sent is read (the decoder's loop of connect, server.ts),
\* unless its connection is lost or it waits behind an unidentifiable one.
FramesRead == \A i \in 1..MaxPublish : InStream(i) ~> ~InStream(i) \/ Stuck

\* "Frames arrive coalesced and split; drain whatever is complete.": between
\* two chunks the buffer holds no complete frame.  The break that drops an
\* unidentifiable status leaves the loop, not only the frame: it stays at the
\* head of the buffer and nothing behind it is read before a reconnect.
CompleteDrained == stream # <<>> => have < Head(stream).size
=============================================================================
