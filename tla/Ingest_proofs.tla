----------------------------- MODULE Ingest_proofs -----------------------------
(***************************************************************************)
(* 09-discord_pb, how messages and channels are brought in, and what the   *)
(* room viewer makes of the channels.                                      *)
(*                                                                         *)
(* The listener, for any number of sessions, events, failures and any      *)
(* queue: what a RESUME would tell Discord is true, and the events of a    *)
(* session are applied in order.  The argument follows an event from       *)
(* Discord over the wire and the queue into the worker's hands: as long as *)
(* the worker is not blocked, what it will meet next is the event after    *)
(* the sequence.  Once it is blocked nothing of that is needed, because    *)
(* the wire and the queue are emptied before it is unblocked.              *)
(*                                                                         *)
(* The backfill, for any channels, page size and bounds: a watermark never *)
(* passes a message that is not archived.  WatermarkCovered is not         *)
(* inductive: the mark that SaveMark writes is the maximum a walk has      *)
(* reached.  CursorCovered says what a walk has archived so far, and       *)
(* PageInOrder what the page in its hands adds to it.                      *)
(* A request is answered, and success reported, only after the sweep:      *)
(* RequestsKnown says that a run's goal is beyond every request it has     *)
(* read in its present version, WalkReaches that a walk passes the goal    *)
(* from either side.                                                       *)
(*                                                                         *)
(* The room tree, for any servers and rows in any order: every room and    *)
(* thread is shown once and in its place, and the page orders the servers  *)
(* as the server does.  ChannelsOf and ThreadsOf say what the passes have  *)
(* after k rows; a sorted list is the only one of its order (OneList).     *)
(***************************************************************************)
EXTENDS GatewayListener, Backfill, RoomTree, FiniteSetTheorems, NaturalsInduction, WellFoundedInduction, TLAPS

-----------------------------------------------------------------------------
(* The listener. *)

NewestSession(s) == s \in Issued /\ s + 1 \notin Issued
\* The worker has an item in its hands.
InHand == busy.step \in Steps
Held == IF InHand THEN 1 ELSE 0

\* The last number that was taken off the wire.
Reach == sequence + Held + Len(queue)

\* A disconnected listener has nothing on the wire, and nothing is left of the
\* connection when it dials again.
Emptied ==
  /\ main # "up" => wire = <<>>
  /\ silent => wire = <<>>
  /\ main = "idle" => queue = <<>> /\ busy = NoTask /\ ~blocked
  /\ busy.step = "done" => ~blocked

\* Discord's sessions: issued one after the other, each with one READY.
Sound ==
  /\ valid \subseteq Issued
  /\ \A s \in Issued : \A t \in Sessions : t < s => t \in Issued
  /\ \A s \in Sessions : \A n \in DOMAIN log[s] : log[s][n] = "READY" <=> n = 1

\* Whatever is under way, and the session to resume, is of the newest session.
OfNewest ==
  /\ session # 0 => NewestSession(session)
  /\ InHand => NewestSession(busy.s) /\ busy.n \in DOMAIN log[busy.s]
  /\ \A i \in DOMAIN queue : NewestSession(queue[i].s) /\ queue[i].n \in DOMAIN log[queue[i].s]
  /\ \A i \in DOMAIN wire : wire[i].op = "dispatch" =>
        NewestSession(wire[i].s) /\ wire[i].s \in valid /\ wire[i].n \in DOMAIN log[wire[i].s]

\* The sequence counts applied events of the session.
Counted ==
  /\ session = 0 => sequence = 0
  /\ sequence = 0 => session = 0 \/ busy.step = "done"
  /\ session # 0 => sequence <= Len(log[session]) /\ \A n \in 1..sequence : Stored(session, n)
  /\ busy.step = "done" => busy.s = session /\ Stored(busy.s, busy.n)

\* An unblocked worker meets the events in order and without a gap: the one in
\* its hands follows the sequence, the queue follows that one, and the wire
\* holds what follows the queue.
Contiguous ==
  ~blocked =>
    /\ InHand => busy.n = sequence + 1
    /\ \A i \in DOMAIN queue : queue[i].n = sequence + Held + i
    /\ \A i \in DOMAIN wire : wire[i].op = "dispatch" => wire[i].n > Reach
    /\ \A i, j \in DOMAIN wire :
         i < j /\ wire[i].op = "dispatch" /\ wire[j].op = "dispatch" => wire[i].n < wire[j].n
    /\ main = "up" /\ ~silent =>
         \A s \in valid : NewestSession(s) =>
           \A n \in 1..Len(log[s]) : n > Reach => \E i \in DOMAIN wire : wire[i] = Dispatch(s, n)

GatewayInv == GatewayTypeOK /\ Emptied /\ Sound /\ OfNewest /\ Counted /\ Contiguous

-----------------------------------------------------------------------------
LEMMA Appended ==
  ASSUME NEW S, NEW q \in Seq(S), NEW e \in S
  PROVE  /\ Append(q, e) \in Seq(S) /\ Len(Append(q, e)) = Len(q) + 1
         /\ DOMAIN Append(q, e) = 1..(Len(q) + 1) /\ DOMAIN q = 1..Len(q) /\ Len(q) \in Nat
         /\ \A i \in DOMAIN q : Append(q, e)[i] = q[i]
         /\ Append(q, e)[Len(q) + 1] = e
OBVIOUS

LEMMA Headed ==
  ASSUME NEW S, NEW q \in Seq(S), q # <<>>
  PROVE  /\ Head(q) = q[1] /\ Head(q) \in S /\ 1 \in DOMAIN q
         /\ Tail(q) \in Seq(S) /\ Len(Tail(q)) = Len(q) - 1 /\ Len(q) \in Nat \ {0}
         /\ DOMAIN Tail(q) = 1..(Len(q) - 1) /\ DOMAIN q = 1..Len(q)
         /\ \A i \in DOMAIN Tail(q) : Tail(q)[i] = q[i + 1] /\ i + 1 \in DOMAIN q
OBVIOUS

LEMMA PayloadTypes ==
  /\ \A s \in Sessions, n \in Nat \ {0} : Dispatch(s, n) \in Payload /\ Dispatch(s, n).op = "dispatch"
  /\ [op |-> "ack"] \in Payload /\ [op |-> "invalid", fresh |-> TRUE] \in Payload
  /\ \A p \in [op: {"reconnect", "fatal"}] \cup [op: {"invalid"}, fresh: BOOLEAN] :
       p \in Payload /\ p.op # "dispatch"
  /\ \A p \in Payload : p.op = "dispatch" => p.s \in Sessions /\ p.n \in Nat \ {0} /\ p = Dispatch(p.s, p.n)
  /\ \A p \in Payload : p.op = "invalid" => p.fresh \in BOOLEAN
<1>1. \A s \in Sessions, n \in Nat \ {0} : Dispatch(s, n) \in Payload /\ Dispatch(s, n).op = "dispatch"
  BY DEF Dispatch, Payload
<1>2. [op |-> "ack"] \in Payload /\ [op |-> "invalid", fresh |-> TRUE] \in Payload
  BY DEF Payload
<1>3. \A p \in [op: {"reconnect", "fatal"}] \cup [op: {"invalid"}, fresh: BOOLEAN] :
       p \in Payload /\ p.op # "dispatch"
  BY DEF Payload
<1>4. \A p \in Payload : p.op = "dispatch" => p.s \in Sessions /\ p.n \in Nat \ {0} /\ p = Dispatch(p.s, p.n)
  <2> SUFFICES ASSUME NEW p \in Payload, p.op = "dispatch"
               PROVE  p.s \in Sessions /\ p.n \in Nat \ {0} /\ p = Dispatch(p.s, p.n)
    OBVIOUS
  <2>1. p \in [op: {"dispatch"}, s: Sessions, n: Nat \ {0}]
    BY DEF Payload
  <2> QED
    BY <2>1 DEF Dispatch
<1>5. \A p \in Payload : p.op = "invalid" => p.fresh \in BOOLEAN
  BY DEF Payload
<1> QED
  BY <1>1, <1>2, <1>3, <1>4, <1>5

\* The worker's item.
LEMMA Idle ==
  /\ NoTask.step = "idle" /\ Dead.step = "dead"
  /\ InHand <=> busy.step = "taken" \/ busy.step = "done"
  /\ InHand' <=> busy'.step = "taken" \/ busy'.step = "done"
BY DEF NoTask, Dead, InHand, Steps

LEMMA BusyTypes ==
  ASSUME GatewayTypeOK, InHand
  PROVE  /\ busy.step \in Steps /\ busy.s \in Sessions /\ busy.n \in Nat \ {0}
         /\ [busy EXCEPT !.step = "done"] \in [step: Steps, s: Sessions, n: Nat \ {0}]
<1>1. NoTask.step = "idle" /\ Dead.step = "dead" /\ (busy.step = "taken" \/ busy.step = "done")
  BY Idle
<1> QED
  BY <1>1 DEF GatewayTypeOK, Steps

\* The items of the queue.
LEMMA QueueTypes ==
  ASSUME GatewayTypeOK, NEW i \in DOMAIN queue
  PROVE  queue[i].s \in Sessions /\ queue[i].n \in Nat
<1>1. queue[i] \in Event
  BY DEF GatewayTypeOK
<1> QED
  BY <1>1 DEF Event

LEMMA NewestUnique ==
  ASSUME Sound, NEW s \in Sessions, NEW t \in Sessions, NewestSession(s), NewestSession(t)
  PROVE  s = t
BY GatewayAssumption DEF Sound, NewestSession, Sessions, GatewayAssumption, Issued

LEMMA NewestUniqueNext ==
  ASSUME Sound', NEW s \in Sessions, NEW t \in Sessions, NewestSession(s)', NewestSession(t)'
  PROVE  s = t
BY GatewayAssumption DEF Sound, NewestSession, Sessions, GatewayAssumption, Issued

LEMMA GatewayInitHolds == GatewayInit => GatewayInv
<1> SUFFICES ASSUME GatewayInit PROVE GatewayInv
  OBVIOUS
<1>1. GatewayTypeOK
  <2>1. log \in [Sessions -> Seq(Kinds)]
    BY DEF GatewayInit
  <2>2. queue \in Seq(Event) /\ wire \in Seq(Payload) /\ Len(queue) <= QueueSize
    BY GatewayAssumption DEF GatewayInit, GatewayAssumption
  <2>3. session \in 0..MaxSessions /\ sequence \in Nat /\ mishaps \in 0..MaxMishaps
    BY GatewayAssumption DEF GatewayInit, GatewayAssumption
  <2> QED
    BY <2>1, <2>2, <2>3 DEF GatewayInit, GatewayTypeOK
<1>2. Emptied
  BY DEF GatewayInit, Emptied, NoTask
<1>3. Issued = {}
  BY DEF GatewayInit, Issued
<1>4. Sound
  BY <1>3 DEF GatewayInit, Sound
<1>5. OfNewest /\ Counted /\ Contiguous
  <2>1. ~InHand /\ busy.step # "done"
    BY Idle DEF GatewayInit
  <2> QED
    BY <2>1 DEF GatewayInit, OfNewest, Counted, Contiguous, Held, Reach
<1> QED
  BY <1>1, <1>2, <1>4, <1>5 DEF GatewayInv

-----------------------------------------------------------------------------
\* Types.

LEMMA KindTypes ==
  ASSUME GatewayTypeOK, NEW s \in Sessions, NEW k \in Kinds
  PROVE  /\ [log EXCEPT ![s] = Append(@, k)] \in [Sessions -> Seq(Kinds)]
         /\ log[s] \in Seq(Kinds) /\ Len(log[s]) \in Nat
BY DEF GatewayTypeOK

LEMMA EmptyTypes == <<>> \in Seq(Payload) /\ <<>> \in Seq(Event)
OBVIOUS

LEMMA FaultTypes == GatewayTypeOK /\ Fault => mishaps' \in 0..MaxMishaps
BY GatewayAssumption DEF GatewayAssumption, GatewayTypeOK, Fault

LEMMA DialTypes ==
  ASSUME GatewayTypeOK, Dial
  PROVE  GatewayTypeOK'
<1>1. /\ queue' = queue /\ busy' = busy /\ blocked' = blocked /\ session' = session /\ sequence' = sequence
      /\ applied' = applied /\ gap' = gap /\ mishaps' = mishaps /\ clear' = clear
      /\ reconnect' = FALSE /\ acked' = TRUE /\ beating' = TRUE /\ silent' = FALSE /\ main' = "up"
  BY DEF Dial, DialIdentify, DialResume, Connected, worker, resume
<1>2. log' \in [Sessions -> Seq(Kinds)] /\ valid' \subseteq Sessions /\ wire' \in Seq(Payload)
  <2>1. CASE DialIdentify
    <3>1. PICK s \in Sessions \ Issued : /\ log' = [log EXCEPT ![s] = <<"READY">>]
                                         /\ valid' = valid \cup {s}
                                         /\ wire' = <<Dispatch(s, 1)>>
      BY <2>1 DEF DialIdentify
    <3>2. <<"READY">> \in Seq(Kinds) /\ Dispatch(s, 1) \in Payload
      BY PayloadTypes DEF Kinds
    <3> QED
      BY <3>1, <3>2 DEF GatewayTypeOK
  <2>2. CASE DialResume /\ session \in valid
    <3>1. session \in Sessions /\ "RESUMED" \in Kinds
      BY <2>2 DEF GatewayTypeOK, Kinds
    <3>2. log' = [log EXCEPT ![session] = Append(@, "RESUMED")] /\ valid' = valid
      BY <2>2 DEF DialResume
    <3>3. Len(log[session]) \in Nat /\ sequence \in Nat
      BY <3>1, KindTypes DEF GatewayTypeOK
    <3>4. CASE Len(log[session]) + 1 - sequence \in Nat
      <4>1. \A i \in 1..(Len(log[session]) + 1 - sequence) : Dispatch(session, sequence + i) \in Payload
        BY <3>1, <3>3, PayloadTypes
      <4>2. wire' = [i \in 1..(Len(log[session]) + 1 - sequence) |-> Dispatch(session, sequence + i)]
        BY <2>2 DEF DialResume
      <4>3. wire' \in Seq(Payload)
        BY <4>1, <4>2, <3>4
      <4> QED
        BY <4>3, <3>1, <3>2, KindTypes DEF GatewayTypeOK
    <3>5. CASE Len(log[session]) + 1 - sequence \notin Nat
      <4>1. 1..(Len(log[session]) + 1 - sequence) = {}
        BY <3>3, <3>5
      <4>2. wire' = [i \in 1..(Len(log[session]) + 1 - sequence) |-> Dispatch(session, sequence + i)]
        BY <2>2 DEF DialResume
      <4>3. wire' = <<>>
        BY <4>1, <4>2
      <4> QED
        BY <4>3, <3>1, <3>2, KindTypes, EmptyTypes DEF GatewayTypeOK
    <3> QED
      BY <3>4, <3>5
  <2>3. CASE DialResume /\ session \notin valid
    <3>1. wire' = <<[op |-> "invalid", fresh |-> TRUE]>> /\ log' = log /\ valid' = valid
      BY <2>3 DEF DialResume
    <3> QED
      BY <3>1, PayloadTypes DEF GatewayTypeOK
  <2> QED
    BY <2>1, <2>2, <2>3 DEF Dial
<1> QED
  BY <1>1, <1>2 DEF GatewayTypeOK

LEMMA MainTypes ==
  ASSUME GatewayTypeOK, Read \/ Joined \/ Park \/ DialFails \/ Drop
  PROVE  GatewayTypeOK'
<1>1. CASE Enqueue
  <2>1. wire # <<>> /\ Head(wire).op = "dispatch" /\ Len(queue) < QueueSize
    BY <1>1 DEF Enqueue, Reading
  <2>2. Head(wire) \in Payload /\ Tail(wire) \in Seq(Payload)
    BY <2>1, Headed DEF GatewayTypeOK
  <2>3. [s |-> Head(wire).s, n |-> Head(wire).n] \in Event
    BY <2>1, <2>2, PayloadTypes DEF Event
  <2>4. queue' \in Seq(Event) /\ Len(queue') <= QueueSize
    BY <1>1, <2>1, <2>3, GatewayAssumption DEF Enqueue, GatewayTypeOK, GatewayAssumption
  <2> QED
    BY <1>1, <2>2, <2>4 DEF Enqueue, GatewayTypeOK, discord, thread, resume
<1>2. CASE ReadAck
  <2>1. Tail(wire) \in Seq(Payload)
    BY <1>2, Headed DEF ReadAck, Reading, GatewayTypeOK
  <2> QED
    BY <1>2, <2>1 DEF ReadAck, GatewayTypeOK, discord, thread, worker, resume
<1>3. CASE QueueFull \/ SeeReconnect \/ Drop
  BY <1>3, EmptyTypes, FaultTypes DEF QueueFull, SeeReconnect, Drop, Disconnect, GatewayTypeOK, discord, worker, resume
<1>4. CASE ReadEnd
  <2>1. (Head(wire).op = "invalid" /\ Head(wire).fresh) \in BOOLEAN
    OBVIOUS
  <2> QED
    BY <1>4, <2>1, EmptyTypes DEF ReadEnd, Disconnect, GatewayTypeOK, discord, worker, resume
<1>5. CASE Joined \/ Park \/ DialFails
  <2>1. CASE Joined
    <3>1. session' \in 0..MaxSessions /\ sequence' \in Nat
      BY <2>1, GatewayAssumption DEF Joined, GatewayTypeOK, GatewayAssumption
    <3> QED
      BY <2>1, <3>1 DEF Joined, GatewayTypeOK, discord, worker
  <2>2. CASE Park
    BY <2>2 DEF Park, GatewayTypeOK, discord, worker, resume
  <2>3. CASE DialFails
    BY <2>3, FaultTypes DEF DialFails, GatewayTypeOK, discord, worker, resume
  <2> QED
    BY <1>5, <2>1, <2>2, <2>3
<1> QED
  BY <1>1, <1>2, <1>3, <1>4, <1>5 DEF Read

LEMMA WorkTypes ==
  ASSUME GatewayTypeOK, Work \/ WorkFails
  PROVE  GatewayTypeOK'
<1> USE Idle
<1>1. CASE Take
  <2>1. Head(queue) \in Event /\ Tail(queue) \in Seq(Event) /\ Len(Tail(queue)) <= QueueSize
    BY <1>1, Headed, GatewayAssumption DEF Take, GatewayTypeOK, GatewayAssumption
  <2>2. [step |-> "taken", s |-> Head(queue).s, n |-> Head(queue).n] \in [step: Steps, s: Sessions, n: Nat \ {0}]
    BY <2>1 DEF Event, Steps
  <2> QED
    BY <1>1, <2>1, <2>2 DEF Take, GatewayTypeOK, discord, thread, resume
<1>2. CASE Skip
  BY <1>2, FaultTypes DEF Skip, Release, GatewayTypeOK, discord, thread, resume
<1>3. CASE Apply
  <2>1. InHand
    BY <1>3 DEF Apply
  <2>2. [s |-> busy.s, n |-> busy.n] \in Event
    BY <2>1, BusyTypes DEF Event
  <2>3. session' \in 0..MaxSessions
    BY <1>3, <2>1, BusyTypes DEF Apply, Sessions, GatewayTypeOK
  <2>4. applied' \subseteq Event
    BY <1>3, <2>2 DEF Apply, GatewayTypeOK
  <2>5. busy' \in [step: Steps, s: Sessions, n: Nat \ {0}]
    BY <1>3, <2>1, BusyTypes DEF Apply
  <2> QED
    BY <1>3, <2>3, <2>4, <2>5 DEF Apply, GatewayTypeOK, discord, thread
<1>4. CASE Advance
  <2>1. busy.n \in Nat
    BY <1>4, BusyTypes DEF Advance
  <2> QED
    BY <1>4, <2>1, FaultTypes DEF Advance, Release, GatewayTypeOK, discord, thread
<1>5. CASE WorkFails
  BY <1>5, FaultTypes DEF WorkFails, GatewayTypeOK, discord, thread, resume
<1> QED
  BY <1>1, <1>2, <1>3, <1>4, <1>5 DEF Work

LEMMA OtherTypes ==
  ASSUME GatewayTypeOK,
         Heart \/ (\E s \in Sessions : Emit(s) \/ Forget(s)) \/ EndConnection \/ FallSilent \/ ConsumeGap
  PROVE  GatewayTypeOK'
<1>1. CASE Beat
  <2>1. wire' \in Seq(Payload)
    BY <1>1, PayloadTypes, Appended DEF Beat, GatewayTypeOK
  <2> QED
    BY <1>1, <2>1 DEF Beat, GatewayTypeOK, discord, thread, worker, resume
<1>2. CASE BeatMissed \/ FallSilent \/ ConsumeGap
  <2>1. CASE BeatMissed
    BY <2>1, EmptyTypes DEF BeatMissed, GatewayTypeOK, discord, thread, worker, resume
  <2>2. CASE FallSilent
    BY <2>2, EmptyTypes, FaultTypes DEF FallSilent, GatewayTypeOK, discord, thread, worker, resume
  <2>3. CASE ConsumeGap
    BY <2>3 DEF ConsumeGap, GatewayTypeOK, discord, thread, worker, resume
  <2> QED
    BY <1>2, <2>1, <2>2, <2>3
<1>3. ASSUME NEW s \in Sessions, Emit(s) PROVE GatewayTypeOK'
  <2>1. log' \in [Sessions -> Seq(Kinds)]
    BY <1>3, KindTypes DEF Emit, Kinds
  <2>2. Dispatch(s, Len(log[s]) + 1) \in Payload
    BY PayloadTypes, KindTypes DEF Kinds
  <2>3. wire' \in Seq(Payload)
    BY <1>3, <2>2, Appended DEF Emit, GatewayTypeOK
  <2> QED
    BY <1>3, <2>1, <2>3 DEF Emit, GatewayTypeOK, thread, worker, resume
<1>4. ASSUME NEW s \in Sessions, Forget(s) PROVE GatewayTypeOK'
  BY <1>4, FaultTypes DEF Forget, GatewayTypeOK, thread, worker, resume
<1>5. CASE EndConnection
  <2>1. wire' \in Seq(Payload)
    BY <1>5, PayloadTypes, Appended DEF EndConnection, End, GatewayTypeOK
  <2> QED
    BY <1>5, <2>1, FaultTypes DEF EndConnection, End, GatewayTypeOK, discord, thread, worker, resume
<1> QED
  BY <1>1, <1>2, <1>3, <1>4, <1>5 DEF Heart

-----------------------------------------------------------------------------
\* What the main thread reads next.

LEMMA ReachTypes == GatewayTypeOK => Held \in {0, 1} /\ Len(queue) \in Nat /\ Reach \in Nat
BY DEF GatewayTypeOK, Held, Reach

LEMMA HeadIsNext ==
  ASSUME GatewayInv, ~blocked, main = "up", ~silent, wire # <<>>, Head(wire).op = "dispatch"
  PROVE  /\ Head(wire).n = Reach + 1
         /\ \A i \in DOMAIN wire : i # 1 /\ wire[i].op = "dispatch" => wire[i].n > Reach + 1
<1> DEFINE w == Head(wire)
<1>1. w = wire[1] /\ 1 \in DOMAIN wire /\ w \in Payload /\ DOMAIN wire = 1..Len(wire) /\ Len(wire) \in Nat
  BY Headed DEF GatewayInv, GatewayTypeOK
<1>2. w.s \in Sessions /\ w.n \in Nat
  BY <1>1, PayloadTypes
<1>3. NewestSession(w.s) /\ w.s \in valid /\ w.n \in DOMAIN log[w.s] /\ w.n > Reach
  BY <1>1 DEF GatewayInv, OfNewest, Contiguous
<1>4. log[w.s] \in Seq(Kinds) /\ Reach \in Nat
  BY <1>2, ReachTypes DEF GatewayInv, GatewayTypeOK
<1>5. Reach + 1 \in 1..Len(log[w.s])
  BY <1>2, <1>3, <1>4
<1>6. PICK i \in DOMAIN wire : wire[i] = Dispatch(w.s, Reach + 1)
  BY <1>3, <1>4, <1>5 DEF GatewayInv, Contiguous
<1>7. wire[i].op = "dispatch" /\ wire[i].n = Reach + 1
  BY <1>6 DEF Dispatch
<1>8. \A j \in DOMAIN wire : j # 1 /\ wire[j].op = "dispatch" => w.n < wire[j].n
  BY <1>1 DEF GatewayInv, Contiguous
<1>9. i = 1
  BY <1>2, <1>3, <1>4, <1>7, <1>8
<1> QED
  BY <1>1, <1>7, <1>8, <1>9

-----------------------------------------------------------------------------
\* Steps that leave the session, the events and the worker as they are.

core == <<log, queue, busy, blocked, session, sequence, applied>>

LEMMA CoreKept ==
  ASSUME GatewayInv, UNCHANGED core, valid' \subseteq valid
  PROVE  /\ \A s : NewestSession(s)' <=> NewestSession(s)
         /\ Reach' = Reach /\ Held' = Held
         /\ Sound' /\ Counted'
         /\ (session # 0 => NewestSession(session))'
         /\ (InHand => NewestSession(busy.s) /\ busy.n \in DOMAIN log[busy.s])'
         /\ (\A i \in DOMAIN queue : NewestSession(queue[i].s) /\ queue[i].n \in DOMAIN log[queue[i].s])'
         /\ ~blocked => /\ (InHand => busy.n = sequence + 1)'
                        /\ (\A i \in DOMAIN queue : queue[i].n = sequence + Held + i)'
<1>1. \A s : NewestSession(s)' <=> NewestSession(s)
  BY DEF core, NewestSession, Issued
<1>2. Reach' = Reach /\ Held' = Held
  BY DEF core, Reach, Held, InHand
<1>3. Sound'
  BY DEF core, GatewayInv, Sound, Issued
<1>4. Counted'
  BY DEF core, GatewayInv, Counted, Stored
<1>5. /\ (session # 0 => NewestSession(session))'
      /\ (InHand => NewestSession(busy.s) /\ busy.n \in DOMAIN log[busy.s])'
      /\ (\A i \in DOMAIN queue : NewestSession(queue[i].s) /\ queue[i].n \in DOMAIN log[queue[i].s])'
  BY <1>1 DEF core, GatewayInv, OfNewest, InHand
<1>6. ~blocked => /\ (InHand => busy.n = sequence + 1)'
                  /\ (\A i \in DOMAIN queue : queue[i].n = sequence + Held + i)'
  BY <1>2 DEF core, GatewayInv, Contiguous, InHand
<1> QED
  BY <1>1, <1>2, <1>3, <1>4, <1>5, <1>6

\* The wire is cut, or was: nothing on it is needed.
LEMMA WireCut ==
  ASSUME GatewayInv, GatewayTypeOK', UNCHANGED core, valid' \subseteq valid,
         wire' = <<>>, main' # "up" \/ silent', main' = "idle" => main = "idle"
  PROVE  GatewayInv'
<1>1. Emptied'
  BY DEF core, GatewayInv, Emptied
<1>2. OfNewest'
  BY CoreKept DEF OfNewest
<1>3. Contiguous'
  BY CoreKept DEF Contiguous, core
<1> QED
  BY <1>1, <1>2, <1>3, CoreKept DEF GatewayInv

\* Nothing of it all changes.
LEMMA AllKept ==
  ASSUME GatewayInv, GatewayTypeOK', UNCHANGED <<core, valid, wire, main, silent>>
  PROVE  GatewayInv'
<1>1. Emptied'
  BY DEF core, GatewayInv, Emptied
<1>2. OfNewest'
  BY CoreKept DEF OfNewest, GatewayInv, core
<1>3. Contiguous'
  BY CoreKept DEF Contiguous, core, GatewayInv
<1> QED
  BY <1>1, <1>2, <1>3, CoreKept DEF GatewayInv

\* A payload that is no event arrives.
LEMMA OtherArrives ==
  ASSUME GatewayInv, GatewayTypeOK', UNCHANGED <<core, valid, main, silent>>,
         NEW p \in Payload, p.op # "dispatch", wire' = Append(wire, p), main = "up", ~silent
  PROVE  GatewayInv'
<1>1. /\ DOMAIN wire = 1..Len(wire) /\ Len(wire) \in Nat /\ DOMAIN wire' = 1..(Len(wire) + 1)
      /\ \A i \in DOMAIN wire : wire'[i] = wire[i] /\ i \in DOMAIN wire'
      /\ wire'[Len(wire) + 1] = p
  BY Appended DEF GatewayInv, GatewayTypeOK
<1>2. \A i \in DOMAIN wire' : wire'[i].op = "dispatch" => i \in DOMAIN wire /\ wire'[i] = wire[i]
  BY <1>1
<1>3. Emptied'
  BY DEF core, GatewayInv, Emptied
<1>4. OfNewest'
  BY <1>2, CoreKept DEF OfNewest, GatewayInv, core
<1>5. Contiguous'
  BY <1>1, <1>2, CoreKept DEF Contiguous, GatewayInv, core, Dispatch
<1> QED
  BY <1>3, <1>4, <1>5, CoreKept DEF GatewayInv

\* A payload that is no event is read.
LEMMA OtherRead ==
  ASSUME GatewayInv, GatewayTypeOK', UNCHANGED <<core, valid, main, silent>>,
         wire # <<>>, Head(wire).op # "dispatch", wire' = Tail(wire), main = "up", ~silent
  PROVE  GatewayInv'
<1>1. /\ DOMAIN wire = 1..Len(wire) /\ Len(wire) \in Nat /\ DOMAIN wire' = 1..(Len(wire) - 1)
      /\ \A i \in DOMAIN wire' : wire'[i] = wire[i + 1] /\ i + 1 \in DOMAIN wire
      /\ wire[1].op # "dispatch"
  BY Headed DEF GatewayInv, GatewayTypeOK
<1>2. \A i \in DOMAIN wire : wire[i].op = "dispatch" => i - 1 \in DOMAIN wire' /\ wire'[i - 1] = wire[i]
  BY <1>1
<1>3. Emptied'
  BY DEF core, GatewayInv, Emptied
<1>4. OfNewest'
  BY <1>1, CoreKept DEF OfNewest, GatewayInv, core
<1>5. Contiguous'
  <2>1. (~blocked => \A i \in DOMAIN wire : wire[i].op = "dispatch" => wire[i].n > Reach)'
    BY <1>1, CoreKept DEF Contiguous, GatewayInv, core
  <2>2. (~blocked => \A i, j \in DOMAIN wire :
           i < j /\ wire[i].op = "dispatch" /\ wire[j].op = "dispatch" => wire[i].n < wire[j].n)'
    BY <1>1 DEF Contiguous, GatewayInv, core
  <2>3. (~blocked => \A s \in valid : NewestSession(s) =>
           \A n \in 1..Len(log[s]) : n > Reach => \E i \in DOMAIN wire : wire[i] = Dispatch(s, n))'
    BY <1>2, CoreKept DEF Contiguous, GatewayInv, core, Dispatch
  <2> QED
    BY <2>1, <2>2, <2>3, CoreKept DEF Contiguous, core
<1> QED
  BY <1>3, <1>4, <1>5, CoreKept DEF GatewayInv

-----------------------------------------------------------------------------
\* The steps along which an event moves.

\* Discord adds an event; a connected listener gets it last.
LEMMA EmitKeeps ==
  ASSUME GatewayInv, GatewayTypeOK', NEW s \in Sessions, Emit(s)
  PROVE  GatewayInv'
<1>1. /\ log' = [log EXCEPT ![s] = Append(@, "event")]
      /\ log[s] \in Seq(Kinds) /\ Len(log[s]) \in Nat /\ log \in [Sessions -> Seq(Kinds)]
      /\ UNCHANGED <<valid, silent, main, queue, busy, blocked, session, sequence, applied>>
  BY DEF Emit, GatewayInv, GatewayTypeOK, thread, worker, resume
<1>2. /\ \A t \in Sessions \ {s} : log'[t] = log[t]
      /\ log'[s] = Append(log[s], "event")
      /\ DOMAIN log[s] = 1..Len(log[s]) /\ DOMAIN log'[s] = 1..(Len(log[s]) + 1)
      /\ Len(log'[s]) = Len(log[s]) + 1
      /\ \A n \in DOMAIN log[s] : log'[s][n] = log[s][n]
      /\ log'[s][Len(log[s]) + 1] = "event"
  BY <1>1, Appended DEF Kinds
<1>3. s \in valid /\ s \in Issued /\ NewestSession(s)
  BY DEF Emit, GatewayInv, Sound, NewestSession
<1>4. log[s] # <<>>
  BY <1>3 DEF Issued
<1>5. Issued' = Issued
  BY <1>1, <1>2, <1>4 DEF Issued
<1>6. \A t : NewestSession(t)' <=> NewestSession(t)
  BY <1>5 DEF NewestSession
<1>7. \A t \in Sessions : \A n : n \in DOMAIN log[t] => n \in DOMAIN log'[t] /\ log'[t][n] = log[t][n]
  BY <1>2
<1>8. Emptied'
  BY <1>1 DEF Emit, GatewayInv, Emptied
<1>9. Sound'
  <2>1. \A t \in Sessions : \A n \in DOMAIN log'[t] : log'[t][n] = "READY" <=> n = 1
    BY <1>2, <1>4 DEF GatewayInv, Sound
  <2> QED
    BY <1>1, <1>5, <2>1 DEF GatewayInv, Sound
<1>10. Counted'
  <2>1. session # 0 => session \in Sessions
    BY DEF GatewayInv, GatewayTypeOK, Sessions
  <2>2. \A t \in Sessions : Len(log[t]) \in Nat /\ DOMAIN log[t] = 1..Len(log[t])
    BY <1>1
  <2>3. session # 0 => Len(log'[session]) >= Len(log[session])
    BY <1>2, <2>1, <2>2
  <2>4. \A t \in Sessions : \A n : n \in DOMAIN log[t] => (Stored(t, n)' <=> Stored(t, n))
    BY <1>1, <1>7 DEF Stored
  <2>5. session # 0 => \A n \in 1..sequence : n \in DOMAIN log[session]
    BY <2>1, <2>2 DEF GatewayInv, Counted, GatewayTypeOK
  <2>6. busy.step = "done" => busy.s \in Sessions /\ busy.n \in DOMAIN log[busy.s]
    BY Idle, BusyTypes DEF GatewayInv, OfNewest
  <2> QED
    BY <1>1, <2>1, <2>2, <2>3, <2>4, <2>5, <2>6 DEF GatewayInv, Counted, GatewayTypeOK
<1>11. wire' = IF main = "up" /\ ~silent THEN Append(wire, Dispatch(s, Len(log[s]) + 1)) ELSE wire
  BY DEF Emit
<1>12. OfNewest' /\ Contiguous'
  <2>1. /\ (session # 0 => NewestSession(session))'
        /\ (InHand => NewestSession(busy.s) /\ busy.n \in DOMAIN log[busy.s])'
        /\ (\A i \in DOMAIN queue : NewestSession(queue[i].s) /\ queue[i].n \in DOMAIN log[queue[i].s])'
    BY <1>1, <1>6, <1>7, BusyTypes, QueueTypes DEF GatewayInv, OfNewest, InHand
  <2>2. Reach' = Reach /\ Held' = Held /\ Reach \in Nat
    BY <1>1, ReachTypes DEF Reach, Held, GatewayInv, InHand
  <2>3. ~blocked => /\ (InHand => busy.n = sequence + 1)'
                    /\ (\A i \in DOMAIN queue : queue[i].n = sequence + Held + i)'
    BY <1>1, <2>2 DEF GatewayInv, Contiguous, InHand
  <2>4. CASE ~(main = "up" /\ ~silent)
    <3>1. wire' = <<>>
      BY <1>11, <2>4 DEF GatewayInv, Emptied
    <3> QED
      BY <1>1, <2>1, <2>3, <2>4, <3>1 DEF OfNewest, Contiguous
  <2>5. CASE main = "up" /\ ~silent
    <3> DEFINE d == Dispatch(s, Len(log[s]) + 1)
    <3>1. d \in Payload /\ d.op = "dispatch" /\ d.s = s /\ d.n = Len(log[s]) + 1
      BY <1>1, PayloadTypes DEF Dispatch
    <3>2. /\ DOMAIN wire = 1..Len(wire) /\ Len(wire) \in Nat /\ DOMAIN wire' = 1..(Len(wire) + 1)
          /\ \A i \in DOMAIN wire : wire'[i] = wire[i]
          /\ wire'[Len(wire) + 1] = d
      <4>1. wire \in Seq(Payload)
        BY DEF GatewayInv, GatewayTypeOK
      <4>2. wire' = Append(wire, d)
        BY <1>11, <2>5
      <4> HIDE DEF d
      <4> QED
        BY <3>1, <4>1, <4>2, Appended
    <3>3. \A i \in DOMAIN wire : wire[i].op = "dispatch" =>
            /\ wire[i].s = s /\ wire[i].n \in 1..Len(log[s])
            /\ NewestSession(wire[i].s) /\ wire[i].s \in valid
            /\ wire[i].n \in DOMAIN log[wire[i].s]
      <4> SUFFICES ASSUME NEW i \in DOMAIN wire, wire[i].op = "dispatch"
                   PROVE  /\ wire[i].s = s /\ wire[i].n \in 1..Len(log[s])
                          /\ NewestSession(wire[i].s) /\ wire[i].s \in valid
                          /\ wire[i].n \in DOMAIN log[wire[i].s]
        OBVIOUS
      <4>1. NewestSession(wire[i].s) /\ wire[i].s \in valid /\ wire[i].n \in DOMAIN log[wire[i].s]
        BY DEF GatewayInv, OfNewest
      <4>2. wire[i].s \in Sessions
        BY <4>1 DEF GatewayInv, GatewayTypeOK
      <4>3. wire[i].s = s
        BY <1>3, <4>1, <4>2, NewestUnique DEF GatewayInv
      <4> QED
        BY <1>2, <4>1, <4>3
    <3>4. OfNewest'
      <4>1. (\A i \in DOMAIN wire : wire[i].op = "dispatch" =>
               NewestSession(wire[i].s) /\ wire[i].s \in valid /\ wire[i].n \in DOMAIN log[wire[i].s])'
        BY <1>1, <1>2, <1>3, <1>6, <1>7, <3>1, <3>2, <3>3
      <4> QED
        BY <2>1, <4>1 DEF OfNewest
    <3>5. ASSUME ~blocked PROVE Contiguous'
      <4>1. Reach <= Len(log[s])
        <5>1. Len(queue) \in Nat /\ DOMAIN queue = 1..Len(queue) /\ sequence \in Nat /\ session \in 0..MaxSessions
          BY DEF GatewayInv, GatewayTypeOK
        <5>2. CASE Len(queue) # 0
          <6>1. Len(queue) \in DOMAIN queue
            BY <5>1, <5>2
          <6>2. queue[Len(queue)].n = Reach
            BY <3>5, <6>1 DEF GatewayInv, Contiguous, Reach
          <6>3. NewestSession(queue[Len(queue)].s) /\ queue[Len(queue)].n \in DOMAIN log[queue[Len(queue)].s]
            BY <6>1 DEF GatewayInv, OfNewest
          <6>4. queue[Len(queue)].s \in Sessions
            BY <6>1, QueueTypes DEF GatewayInv
          <6>5. queue[Len(queue)].s = s
            BY <1>3, <6>3, <6>4, NewestUnique DEF GatewayInv
          <6> QED
            BY <1>1, <1>2, <6>2, <6>3, <6>5
        <5>3. CASE Len(queue) = 0 /\ InHand
          <6>1. busy.n = Reach
            BY <3>5, <5>1, <5>3 DEF GatewayInv, Contiguous, Reach, Held
          <6>2. NewestSession(busy.s) /\ busy.n \in DOMAIN log[busy.s] /\ busy.s \in Sessions
            BY <5>3, BusyTypes DEF GatewayInv, OfNewest
          <6>3. busy.s = s
            BY <1>3, <6>2, NewestUnique DEF GatewayInv
          <6> QED
            BY <1>1, <1>2, <6>1, <6>2, <6>3
        <5>4. CASE Len(queue) = 0 /\ ~InHand
          <6>1. Reach = sequence
            BY <5>1, <5>4 DEF Reach, Held
          <6>2. CASE session = 0
            BY <1>1, <6>1, <6>2 DEF GatewayInv, Counted
          <6>3. CASE session # 0
            <7>1. session \in Sessions /\ NewestSession(session)
              BY <5>1, <6>3 DEF Sessions, GatewayInv, OfNewest
            <7>2. session = s
              BY <1>3, <7>1, NewestUnique DEF GatewayInv
            <7> QED
              BY <6>1, <6>3, <7>2 DEF GatewayInv, Counted
          <6> QED
            BY <6>2, <6>3
        <5> QED
          BY <5>1, <5>2, <5>3, <5>4
      <4>2. (\A i \in DOMAIN wire : wire[i].op = "dispatch" => wire[i].n > Reach)'
        BY <1>1, <2>2, <3>1, <3>2, <3>5, <4>1 DEF GatewayInv, Contiguous
      <4>3. (\A i, j \in DOMAIN wire :
              i < j /\ wire[i].op = "dispatch" /\ wire[j].op = "dispatch" => wire[i].n < wire[j].n)'
        BY <1>1, <3>1, <3>2, <3>3, <3>5 DEF GatewayInv, Contiguous
      <4>4. ASSUME NEW t \in valid', NewestSession(t)', NEW n \in 1..Len(log'[t]), n > Reach
            PROVE  \E i \in DOMAIN wire' : wire'[i] = Dispatch(t, n)
        <5>1. t = s
          BY <1>1, <1>3, <1>6, <4>4, NewestUnique DEF GatewayInv, GatewayTypeOK
        <5>2. CASE n \in 1..Len(log[s])
          <6>1. PICK i \in DOMAIN wire : wire[i] = Dispatch(s, n)
            BY <1>3, <2>5, <3>5, <4>4, <5>2 DEF GatewayInv, Contiguous
          <6> QED
            BY <3>2, <5>1, <6>1
        <5>3. CASE n = Len(log[s]) + 1
          BY <3>2, <5>1, <5>3
        <5> QED
          BY <1>1, <1>2, <5>1, <5>2, <5>3
      <4> QED
        BY <1>1, <2>2, <2>3, <3>5, <4>2, <4>3, <4>4 DEF Contiguous, Dispatch
    <3>6. CASE blocked
      BY <1>1, <3>4, <3>6 DEF Contiguous
    <3> QED
      BY <3>4, <3>5, <3>6
  <2> QED
    BY <2>4, <2>5
<1> QED
  BY <1>8, <1>9, <1>10, <1>12 DEF GatewayInv

\* The main thread puts what it reads into the queue.
LEMMA EnqueueKeeps ==
  ASSUME GatewayInv, GatewayTypeOK', Enqueue
  PROVE  GatewayInv'
<1> DEFINE w == Head(wire)
<1>1. /\ main = "up" /\ ~silent /\ wire # <<>> /\ w.op = "dispatch" /\ wire' = Tail(wire)
      /\ queue' = Append(queue, [s |-> w.s, n |-> w.n])
      /\ UNCHANGED <<log, valid, main, silent, busy, blocked, session, sequence, applied>>
  BY DEF Enqueue, Reading, discord, thread, resume
<1>2. /\ w = wire[1] /\ w \in Payload /\ DOMAIN wire = 1..Len(wire) /\ Len(wire) \in Nat \ {0}
      /\ DOMAIN wire' = 1..(Len(wire) - 1)
      /\ \A i \in DOMAIN wire' : wire'[i] = wire[i + 1] /\ i + 1 \in DOMAIN wire /\ i + 1 # 1
      /\ 1 \in DOMAIN wire
  BY <1>1, Headed DEF GatewayInv, GatewayTypeOK
<1>3. [s |-> w.s, n |-> w.n] \in Event
  BY <1>1, <1>2, PayloadTypes DEF Event
<1>4. /\ DOMAIN queue = 1..Len(queue) /\ Len(queue) \in Nat
      /\ DOMAIN queue' = 1..(Len(queue) + 1) /\ Len(queue') = Len(queue) + 1
      /\ \A i \in DOMAIN queue : queue'[i] = queue[i]
      /\ queue'[Len(queue) + 1] = [s |-> w.s, n |-> w.n]
  BY <1>1, <1>3, Appended DEF GatewayInv, GatewayTypeOK
<1>5. \A s : NewestSession(s)' <=> NewestSession(s)
  BY <1>1 DEF NewestSession, Issued
<1>6. Emptied' /\ Sound' /\ Counted'
  BY <1>1 DEF GatewayInv, Emptied, Sound, Counted, Issued, Stored
<1>7. NewestSession(w.s) /\ w.n \in DOMAIN log[w.s]
  BY <1>1, <1>2 DEF GatewayInv, OfNewest
<1>8. OfNewest'
  <2>1. (\A i \in DOMAIN queue : NewestSession(queue[i].s) /\ queue[i].n \in DOMAIN log[queue[i].s])'
    BY <1>1, <1>4, <1>5, <1>7 DEF GatewayInv, OfNewest
  <2>2. (\A i \in DOMAIN wire : wire[i].op = "dispatch" =>
           NewestSession(wire[i].s) /\ wire[i].s \in valid /\ wire[i].n \in DOMAIN log[wire[i].s])'
    BY <1>1, <1>2, <1>5 DEF GatewayInv, OfNewest
  <2> QED
    BY <1>1, <1>5, <2>1, <2>2 DEF GatewayInv, OfNewest, InHand
<1>9. Contiguous'
  <2> SUFFICES ASSUME ~blocked PROVE Contiguous'
    BY <1>1 DEF Contiguous
  <2>1. /\ w.n = Reach + 1 /\ Reach \in Nat /\ Held \in {0, 1} /\ sequence \in Nat
        /\ \A i \in DOMAIN wire : i # 1 /\ wire[i].op = "dispatch" => wire[i].n > Reach + 1
    BY <1>1, HeadIsNext, ReachTypes DEF GatewayInv, GatewayTypeOK
  <2>2. Held' = Held /\ Reach' = Reach + 1
    BY <1>1, <1>4, <2>1 DEF Held, Reach, InHand
  <2>3. (InHand => busy.n = sequence + 1)'
    BY <1>1 DEF GatewayInv, Contiguous, InHand
  <2>4. (\A i \in DOMAIN queue : queue[i].n = sequence + Held + i)'
    <3>1. \A i \in DOMAIN queue : queue'[i].n = sequence' + Held' + i
      BY <1>1, <1>4, <2>2 DEF GatewayInv, Contiguous
    <3>2. queue'[Len(queue) + 1].n = sequence' + Held' + (Len(queue) + 1)
      BY <1>1, <1>4, <2>1, <2>2 DEF Reach
    <3>3. \A i \in DOMAIN queue' : i \in DOMAIN queue \/ i = Len(queue) + 1
      BY <1>4
    <3> QED
      BY <3>1, <3>2, <3>3
  <2>5. (\A i \in DOMAIN wire : wire[i].op = "dispatch" => wire[i].n > Reach)'
    BY <1>2, <2>1, <2>2
  <2>6. (\A i, j \in DOMAIN wire :
           i < j /\ wire[i].op = "dispatch" /\ wire[j].op = "dispatch" => wire[i].n < wire[j].n)'
    BY <1>2 DEF GatewayInv, Contiguous
  <2>7. ASSUME NEW s \in valid', NewestSession(s)', NEW n \in 1..Len(log'[s]), n > Reach'
        PROVE  \E i \in DOMAIN wire' : wire'[i] = Dispatch(s, n)
    <3>0. s \in valid /\ NewestSession(s) /\ n \in 1..Len(log[s])
      BY <1>1, <1>5, <2>7
    <3>1. PICK i \in DOMAIN wire : wire[i] = Dispatch(s, n)
      <4>1. n > Reach
        BY <2>1, <2>2, <2>7
      <4> QED
        BY <1>1, <3>0, <4>1 DEF GatewayInv, Contiguous
    <3>2. wire[i].n = n /\ i # 1
      BY <1>2, <2>1, <2>2, <2>7, <3>1 DEF Dispatch
    <3>3. i - 1 \in DOMAIN wire' /\ wire'[i - 1] = wire[i]
      BY <1>2, <3>2
    <3> QED
      BY <3>1, <3>3
  <2> QED
    BY <1>1, <2>3, <2>4, <2>5, <2>6, <2>7 DEF Contiguous, Dispatch
<1> QED
  BY <1>6, <1>8, <1>9 DEF GatewayInv

\* The worker takes the first item.
LEMMA TakeKeeps ==
  ASSUME GatewayInv, GatewayTypeOK', Take
  PROVE  GatewayInv'
<1> DEFINE e == Head(queue)
<1>1. /\ busy = NoTask /\ queue # <<>> /\ queue' = Tail(queue)
      /\ busy' = [step |-> "taken", s |-> e.s, n |-> e.n]
      /\ UNCHANGED <<log, valid, main, wire, silent, blocked, session, sequence, applied>>
  BY DEF Take, discord, thread, resume
<1>2. /\ e = queue[1] /\ DOMAIN queue = 1..Len(queue) /\ Len(queue) \in Nat \ {0} /\ 1 \in DOMAIN queue
      /\ DOMAIN queue' = 1..(Len(queue) - 1) /\ Len(queue') = Len(queue) - 1
      /\ \A i \in DOMAIN queue' : queue'[i] = queue[i + 1] /\ i + 1 \in DOMAIN queue
  BY <1>1, Headed DEF GatewayInv, GatewayTypeOK
<1>3. InHand' /\ ~InHand /\ busy'.step = "taken" /\ busy'.s = e.s /\ busy'.n = e.n /\ busy.step = "idle"
  BY <1>1, Idle
<1>4. \A s : NewestSession(s)' <=> NewestSession(s)
  BY <1>1 DEF NewestSession, Issued
<1>5. sequence \in Nat /\ Held = 0 /\ Held' = 1 /\ Reach' = Reach
  BY <1>1, <1>2, <1>3 DEF GatewayInv, GatewayTypeOK, Held, Reach
<1>6. Emptied'
  BY <1>1, <1>3 DEF GatewayInv, Emptied
<1>7. Sound' /\ Counted'
  BY <1>1, <1>3 DEF GatewayInv, Sound, Counted, Issued, Stored
<1>8. OfNewest'
  BY <1>1, <1>2, <1>3, <1>4 DEF GatewayInv, OfNewest
<1>9. Contiguous'
  <2> SUFFICES ASSUME ~blocked PROVE Contiguous'
    BY <1>1 DEF Contiguous
  <2>1. busy'.n = sequence' + 1
    BY <1>1, <1>2, <1>3, <1>5 DEF GatewayInv, Contiguous
  <2>2. \A i \in DOMAIN queue' : queue'[i].n = sequence' + Held' + i
    BY <1>1, <1>2, <1>5 DEF GatewayInv, Contiguous
  <2> QED
    BY <1>1, <1>4, <1>5, <2>1, <2>2 DEF GatewayInv, Contiguous, Dispatch
<1> QED
  BY <1>6, <1>7, <1>8, <1>9 DEF GatewayInv

\* A blocked worker drops an item, or the post fails and blocks the worker.
LEMMA DropKeeps ==
  ASSUME GatewayInv, GatewayTypeOK', Skip \/ WorkFails
  PROVE  GatewayInv'
<1>1. /\ InHand /\ busy'.step \in {"idle", "dead"} /\ blocked'
      /\ UNCHANGED <<log, valid, main, queue, wire, silent, session, sequence, applied>>
      /\ busy.step = "done" => Kind(busy) # "READY"
  BY Idle DEF Skip, Release, WorkFails, discord, thread, resume
<1>2. ~InHand' /\ busy'.step # "done" /\ main # "idle"
  BY <1>1, Idle DEF GatewayInv, Emptied
<1>3. \A s : NewestSession(s)' <=> NewestSession(s)
  BY <1>1 DEF NewestSession, Issued
<1>4. Emptied'
  BY <1>1, <1>2 DEF GatewayInv, Emptied
<1>5. Sound'
  BY <1>1 DEF GatewayInv, Sound, Issued
<1>6. OfNewest'
  BY <1>1, <1>2, <1>3 DEF GatewayInv, OfNewest
<1>7. sequence = 0 => session = 0
  <2> SUFFICES ASSUME sequence = 0, session # 0 PROVE FALSE
    OBVIOUS
  <2>1. busy.step = "done" /\ ~blocked
    BY DEF GatewayInv, Counted, Emptied
  <2>2. busy.n = 1 /\ busy.s \in Sessions /\ busy.n \in DOMAIN log[busy.s]
    BY <1>1, <2>1, BusyTypes DEF GatewayInv, Contiguous, OfNewest
  <2>3. Kind(busy) = "READY"
    BY <2>2 DEF Kind, GatewayInv, Sound
  <2> QED
    BY <1>1, <2>1, <2>3
<1>8. Counted'
  BY <1>1, <1>2, <1>7 DEF GatewayInv, Counted, Stored
<1>9. Contiguous'
  BY <1>1 DEF Contiguous
<1> QED
  BY <1>4, <1>5, <1>6, <1>8, <1>9 DEF GatewayInv

\* What is applied is of the session and follows the sequence.
LEMMA AppliesNext ==
  ASSUME GatewayInv, Apply
  PROVE  /\ InHand /\ busy.s \in Sessions /\ busy.n = sequence + 1 /\ busy.n \in DOMAIN log[busy.s]
         /\ NewestSession(busy.s)
         /\ Kind(busy) = "READY" => sequence = 0
         /\ Kind(busy) # "READY" => session = busy.s
<1>1. InHand /\ busy.step = "taken" /\ ~blocked
  BY Idle DEF Apply
<1>2. busy.s \in Sessions /\ busy.n = sequence + 1 /\ busy.n \in DOMAIN log[busy.s] /\ NewestSession(busy.s)
  BY <1>1, BusyTypes DEF GatewayInv, Contiguous, OfNewest
<1>3. Kind(busy) = "READY" <=> busy.n = 1
  BY <1>2 DEF Kind, GatewayInv, Sound
<1>4. sequence \in Nat /\ session \in 0..MaxSessions
  BY DEF GatewayInv, GatewayTypeOK
<1>5. ASSUME Kind(busy) # "READY" PROVE session = busy.s
  <2>1. session # 0
    BY <1>2, <1>3, <1>4, <1>5 DEF GatewayInv, Counted
  <2>2. session \in Sessions /\ NewestSession(session)
    BY <1>4, <2>1 DEF Sessions, GatewayInv, OfNewest
  <2> QED
    BY <1>2, <2>2, NewestUnique DEF GatewayInv
<1> QED
  BY <1>1, <1>2, <1>3, <1>4, <1>5

LEMMA ApplyKeeps ==
  ASSUME GatewayInv, GatewayTypeOK', Apply
  PROVE  GatewayInv'
<1>1. /\ ~blocked /\ busy.step = "taken"
      /\ busy' = [busy EXCEPT !.step = "done"]
      /\ session' = (IF Kind(busy) = "READY" THEN busy.s ELSE session)
      /\ applied' = IF Kind(busy) = "event" THEN applied \cup {[s |-> busy.s, n |-> busy.n]} ELSE applied
      /\ UNCHANGED <<log, valid, main, queue, wire, silent, sequence, blocked>>
  BY DEF Apply, discord, thread
<1>2. /\ InHand /\ busy.s \in Sessions /\ busy.n = sequence + 1 /\ busy.n \in DOMAIN log[busy.s]
      /\ NewestSession(busy.s) /\ session' = busy.s
      /\ Kind(busy) = "READY" => sequence = 0
      /\ Kind(busy) # "READY" => session = busy.s
  BY <1>1, AppliesNext
<1>3. InHand' /\ busy'.step = "done" /\ busy'.s = busy.s /\ busy'.n = busy.n
  BY <1>1, <1>2, BusyTypes, Idle DEF GatewayInv
<1>4. \A s : NewestSession(s)' <=> NewestSession(s)
  BY <1>1 DEF NewestSession, Issued
<1>5. Held' = Held /\ Reach' = Reach
  BY <1>1, <1>2, <1>3 DEF Held, Reach
<1>6. Emptied'
  BY <1>1, <1>2, <1>3, Idle DEF GatewayInv, Emptied
<1>7. Sound'
  BY <1>1 DEF GatewayInv, Sound, Issued
<1>8. OfNewest'
  BY <1>1, <1>2, <1>3, <1>4 DEF GatewayInv, OfNewest
<1>9. Counted'
  <2>1. \A s, n : Stored(s, n) => Stored(s, n)'
    BY <1>1 DEF Stored
  <2>2. Stored(busy.s, busy.n)'
    BY <1>1 DEF Stored, Kind
  <2>3. sequence <= Len(log[busy.s]) /\ \A n \in 1..sequence : Stored(busy.s, n)
    <3>1. CASE Kind(busy) = "READY"
      <4>1. Len(log[busy.s]) \in Nat
        BY <1>2 DEF GatewayInv, GatewayTypeOK
      <4> QED
        BY <1>2, <3>1, <4>1
    <3>2. CASE Kind(busy) # "READY"
      BY <1>2, <3>2 DEF GatewayInv, Counted, GatewayTypeOK, Sessions
    <3> QED
      BY <3>1, <3>2
  <2>4. session' # 0
    BY <1>2 DEF Sessions
  <2> QED
    BY <1>1, <1>2, <1>3, <2>1, <2>2, <2>3, <2>4 DEF Counted
<1>10. Contiguous'
  BY <1>1, <1>2, <1>3, <1>4, <1>5 DEF GatewayInv, Contiguous, Dispatch
<1> QED
  BY <1>6, <1>7, <1>8, <1>9, <1>10 DEF GatewayInv

\* The sequence moves over the item that was applied.
LEMMA AdvanceKeeps ==
  ASSUME GatewayInv, GatewayTypeOK', Advance
  PROVE  GatewayInv'
<1>1. /\ busy.step = "done" /\ busy'.step \in {"idle", "dead"} /\ sequence' = busy.n
      /\ UNCHANGED <<log, valid, main, queue, wire, silent, blocked, session, applied>>
  BY Idle DEF Advance, Release, discord, thread
<1>2. InHand /\ ~InHand' /\ main # "idle" /\ ~blocked /\ busy'.step # "done"
  BY <1>1, Idle DEF GatewayInv, Emptied
<1>3. /\ busy.n = sequence + 1 /\ sequence \in Nat /\ Len(queue) \in Nat
      /\ busy.s = session /\ session \in Sessions /\ busy.n \in DOMAIN log[session] /\ Stored(session, busy.n)
  BY <1>1, <1>2, BusyTypes DEF GatewayInv, Contiguous, Counted, OfNewest, GatewayTypeOK
<1>4. \A s : NewestSession(s)' <=> NewestSession(s)
  BY <1>1 DEF NewestSession, Issued
<1>5. Held = 1 /\ Held' = 0 /\ Reach' = Reach
  BY <1>1, <1>2, <1>3 DEF Held, Reach
<1>6. Emptied'
  BY <1>1, <1>2 DEF GatewayInv, Emptied
<1>7. Sound'
  BY <1>1 DEF GatewayInv, Sound, Issued
<1>8. OfNewest'
  BY <1>1, <1>2, <1>4 DEF GatewayInv, OfNewest
<1>9. Counted'
  <2>1. log[session] \in Seq(Kinds)
    BY <1>3 DEF GatewayInv, GatewayTypeOK
  <2>2. session # 0 /\ \A n \in 1..sequence : Stored(session, n)
    BY <1>3 DEF GatewayInv, Counted, Sessions
  <2>3. \A n \in 1..sequence' : Stored(session, n)' /\ sequence' <= Len(log[session])
    BY <1>1, <1>3, <2>1, <2>2 DEF Stored
  <2> QED
    BY <1>1, <1>2, <1>3, <2>1, <2>2, <2>3 DEF Counted
<1>10. Contiguous'
  <2>1. \A i \in DOMAIN queue' : queue'[i].n = sequence' + Held' + i
    <3>1. \A i \in DOMAIN queue : queue[i].n = sequence + Held + i /\ i \in Nat
      BY <1>2 DEF GatewayInv, Contiguous, GatewayTypeOK
    <3> QED
      BY <1>1, <1>3, <1>5, <3>1
  <2> QED
    BY <1>1, <1>2, <1>4, <1>5, <2>1 DEF GatewayInv, Contiguous, Dispatch
<1> QED
  BY <1>6, <1>7, <1>8, <1>9, <1>10 DEF GatewayInv

-----------------------------------------------------------------------------
\* A connection ends and the next begins.

\* The worker has nothing left: it may go on.
LEMMA JoinedKeeps ==
  ASSUME GatewayInv, GatewayTypeOK', Joined
  PROVE  GatewayInv'
<1>1. /\ main = "joining" /\ main' = "idle" /\ ~blocked' /\ wire = <<>> /\ queue = <<>> /\ busy = NoTask
      /\ UNCHANGED <<log, valid, wire, silent, queue, busy, applied>>
      /\ (session' = session /\ sequence' = sequence) \/ (session' = 0 /\ sequence' = 0)
  BY DEF Joined, discord, worker, GatewayInv, Emptied
<1>2. busy.step = "idle" /\ ~InHand /\ ~InHand' /\ Len(queue) = 0 /\ DOMAIN queue = {} /\ DOMAIN wire = {}
  BY <1>1, Idle
<1>3. \A s : NewestSession(s)' <=> NewestSession(s)
  BY <1>1 DEF NewestSession, Issued
<1>4. Emptied' /\ Sound' /\ OfNewest'
  BY <1>1, <1>2, <1>3 DEF GatewayInv, Emptied, Sound, Issued, OfNewest
<1>5. Counted'
  BY <1>1, <1>2 DEF GatewayInv, Counted, Stored
<1>6. Contiguous'
  BY <1>1, <1>2 DEF Contiguous
<1> QED
  BY <1>4, <1>5, <1>6 DEF GatewayInv

\* A new session begins with its READY.
LEMMA IdentifyKeeps ==
  ASSUME GatewayInv, GatewayTypeOK', DialIdentify
  PROVE  GatewayInv'
<1>1. /\ main' = "up" /\ ~silent'
      /\ UNCHANGED <<queue, busy, blocked, session, sequence, applied>>
      /\ queue = <<>> /\ busy = NoTask /\ ~blocked
  BY DEF DialIdentify, Connected, worker, resume, GatewayInv, Emptied
<1>2. busy.step = "idle" /\ ~InHand /\ ~InHand' /\ Len(queue) = 0 /\ DOMAIN queue = {}
  BY <1>1, Idle
<1>3. session = 0 /\ sequence = 0
  BY <1>2 DEF DialIdentify, Resumable, GatewayInv, Counted
<1>4. PICK s \in Sessions \ Issued :
        /\ \A t \in Sessions \ Issued : s <= t
        /\ log' = [log EXCEPT ![s] = <<"READY">>]
        /\ valid' = valid \cup {s} /\ wire' = <<Dispatch(s, 1)>>
  BY DEF DialIdentify
<1>5. /\ log'[s] = <<"READY">> /\ \A t \in Sessions \ {s} : log'[t] = log[t]
      /\ Len(log'[s]) = 1 /\ DOMAIN log'[s] = {1} /\ log'[s][1] = "READY"
  BY <1>4 DEF GatewayInv, GatewayTypeOK
<1>6. Issued' = Issued \cup {s}
  BY <1>4, <1>5 DEF Issued
<1>7. Sound'
  <2>1. \A t \in Issued' : \A u \in Sessions : u < t => u \in Issued'
    BY <1>4, <1>6 DEF GatewayInv, Sound, Sessions
  <2>2. \A t \in Sessions : \A n \in DOMAIN log'[t] : log'[t][n] = "READY" <=> n = 1
    BY <1>5 DEF GatewayInv, Sound
  <2> QED
    BY <1>4, <1>6, <2>1, <2>2 DEF GatewayInv, Sound
<1>8. NewestSession(s)'
  <2>1. s + 1 \notin Issued
    BY <1>4 DEF GatewayInv, Sound, Sessions, Issued
  <2> QED
    BY <1>4, <1>6, <2>1 DEF NewestSession, Sessions
<1>9. \A t \in valid' : NewestSession(t)' => t = s
  BY <1>7, <1>8, NewestUniqueNext DEF GatewayTypeOK
<1>10. Dispatch(s, 1).op = "dispatch" /\ Dispatch(s, 1).s = s /\ Dispatch(s, 1).n = 1
  BY DEF Dispatch
<1>11. DOMAIN wire' = {1} /\ wire'[1] = Dispatch(s, 1)
  BY <1>4
<1>12. Emptied' /\ Counted'
  BY <1>1, <1>2, <1>3 DEF Emptied, Counted
<1>13. OfNewest'
  BY <1>1, <1>2, <1>3, <1>4, <1>5, <1>8, <1>10, <1>11 DEF OfNewest
<1>14. Contiguous'
  <2>1. Reach' = 0
    BY <1>1, <1>2, <1>3 DEF Reach, Held
  <2>2. ASSUME NEW t \in valid', NewestSession(t)', NEW n \in 1..Len(log'[t])
        PROVE  \E i \in DOMAIN wire' : wire'[i] = Dispatch(t, n)
    <3>1. t = s
      BY <1>9, <2>2
    <3>2. n \in 1..1
      BY <1>5, <2>2, <3>1
    <3>3. n = 1
      BY <3>2
    <3> QED
      BY <1>11, <3>1, <3>3
  <2>3. \A i \in DOMAIN wire' : i = 1 /\ wire'[i].n = 1
    BY <1>10, <1>11
  <2> QED
    BY <1>1, <1>2, <2>1, <2>2, <2>3 DEF Contiguous, Dispatch
<1> QED
  BY <1>7, <1>12, <1>13, <1>14 DEF GatewayInv

\* Discord replays what follows the sequence, or knows the session no more.
LEMMA ResumeKeeps ==
  ASSUME GatewayInv, GatewayTypeOK', DialResume
  PROVE  GatewayInv'
<1>1. /\ main' = "up" /\ ~silent' /\ valid' = valid
      /\ UNCHANGED <<queue, busy, blocked, session, sequence, applied>>
      /\ queue = <<>> /\ busy = NoTask /\ ~blocked
  BY DEF DialResume, Connected, worker, resume, GatewayInv, Emptied
<1>2. busy.step = "idle" /\ ~InHand /\ ~InHand' /\ Len(queue) = 0 /\ DOMAIN queue = {}
  BY <1>1, Idle
<1>3. /\ session \in Sessions /\ NewestSession(session) /\ session \in Issued /\ sequence \in Nat
      /\ sequence <= Len(log[session]) /\ session # 0 /\ sequence # 0
  BY DEF DialResume, Resumable, GatewayInv, GatewayTypeOK, Sessions, OfNewest, Counted, NewestSession
<1>4. Reach' = sequence /\ Held' = 0
  BY <1>1, <1>2, <1>3 DEF Reach, Held
<1>5. Emptied'
  BY <1>1, <1>2 DEF Emptied
<1>6. log[session] \in Seq(Kinds) /\ Len(log[session]) \in Nat /\ log[session] # <<>>
  BY <1>3 DEF GatewayInv, GatewayTypeOK, Issued
<1>7. CASE session \in valid
  <2>1. /\ log' = [log EXCEPT ![session] = Append(@, "RESUMED")]
        /\ wire' = [i \in 1..(Len(log[session]) + 1 - sequence) |-> Dispatch(session, sequence + i)]
    BY <1>7 DEF DialResume
  <2>2. /\ \A t \in Sessions \ {session} : log'[t] = log[t]
        /\ log'[session] = Append(log[session], "RESUMED")
        /\ DOMAIN log[session] = 1..Len(log[session])
        /\ DOMAIN log'[session] = 1..(Len(log[session]) + 1)
        /\ Len(log'[session]) = Len(log[session]) + 1
        /\ \A n \in DOMAIN log[session] : log'[session][n] = log[session][n]
        /\ log'[session][Len(log[session]) + 1] = "RESUMED"
    BY <1>3, <1>6, <2>1, Appended DEF Kinds, GatewayInv, GatewayTypeOK
  <2>3. Issued' = Issued
    BY <1>6, <2>1, <2>2 DEF Issued
  <2>4. \A t : NewestSession(t)' <=> NewestSession(t)
    BY <2>3 DEF NewestSession
  <2>5. Sound'
    <3>1. \A t \in Sessions : \A n \in DOMAIN log'[t] : log'[t][n] = "READY" <=> n = 1
      BY <1>6, <2>2 DEF GatewayInv, Sound
    <3> QED
      BY <1>1, <2>3, <3>1 DEF GatewayInv, Sound
  <2>6. Counted'
    <3>1. \A n \in 1..sequence : Stored(session, n) /\ n \in DOMAIN log[session]
      BY <1>3, <1>6, <2>2 DEF GatewayInv, Counted
    <3>2. \A n \in 1..sequence : Stored(session, n)'
      BY <1>1, <2>2, <3>1 DEF Stored
    <3> QED
      BY <1>1, <1>2, <1>3, <1>6, <2>2, <3>2 DEF Counted
  <2>7. /\ DOMAIN wire' = 1..(Len(log[session]) + 1 - sequence)
        /\ \A i \in DOMAIN wire' : wire'[i] = Dispatch(session, sequence + i)
    BY <2>1
  <2>8. \A i \in DOMAIN wire' : /\ wire'[i].op = "dispatch" /\ wire'[i].s = session
                                /\ wire'[i].n = sequence + i
    BY <2>7 DEF Dispatch
  <2>9. OfNewest'
    BY <1>1, <1>2, <1>3, <1>6, <1>7, <2>2, <2>4, <2>7, <2>8 DEF OfNewest
  <2>10. Contiguous'
    <3>1. \A i \in DOMAIN wire' : wire'[i].n > Reach'
      BY <1>3, <1>4, <2>7, <2>8
    <3>2. \A i, j \in DOMAIN wire' : i < j => wire'[i].n < wire'[j].n
      BY <1>3, <2>7, <2>8
    <3>3. ASSUME NEW t \in valid', NewestSession(t)', NEW n \in 1..Len(log'[t]), n > Reach'
          PROVE  \E i \in DOMAIN wire' : wire'[i] = Dispatch(t, n)
      <4>1. t = session
        BY <1>1, <1>3, <2>4, <3>3, NewestUnique DEF GatewayInv, GatewayTypeOK
      <4>2. n - sequence \in DOMAIN wire' /\ sequence + (n - sequence) = n
        BY <1>3, <1>4, <1>6, <2>2, <2>7, <3>3, <4>1
      <4> QED
        BY <2>7, <4>1, <4>2
    <3> QED
      BY <1>1, <1>2, <3>1, <3>2, <3>3 DEF Contiguous, Dispatch
  <2> QED
    BY <1>5, <2>5, <2>6, <2>9, <2>10 DEF GatewayInv
<1>8. CASE session \notin valid
  <2>1. log' = log /\ wire' = <<[op |-> "invalid", fresh |-> TRUE]>>
    BY <1>8 DEF DialResume
  <2>2. DOMAIN wire' = {1} /\ wire'[1].op # "dispatch"
    BY <2>1
  <2>3. \A t : NewestSession(t)' <=> NewestSession(t)
    BY <2>1 DEF NewestSession, Issued
  <2>4. Sound' /\ Counted'
    BY <1>1, <2>1 DEF GatewayInv, Sound, Counted, Issued, Stored
  <2>5. OfNewest'
    BY <1>1, <1>2, <1>3, <2>2, <2>3 DEF OfNewest
  <2>6. \A t \in valid : ~NewestSession(t)
    BY <1>3, <1>8, NewestUnique DEF GatewayInv, GatewayTypeOK
  <2>7. Contiguous'
    BY <1>1, <1>2, <2>2, <2>3, <2>6 DEF Contiguous
  <2> QED
    BY <1>5, <2>4, <2>5, <2>7 DEF GatewayInv
<1> QED
  BY <1>7, <1>8

-----------------------------------------------------------------------------
\* The heartbeat thread ends with its connection: it writes to no other.
Beats == beating => main = "up"

LEMMA BeatsKept == GatewaySpec => []Beats
<1>1. GatewayInit => Beats
  BY DEF GatewayInit, Beats
<1>2. ASSUME Beats, [GatewayNext]_gatewayVars PROVE Beats'
  <2>1. CASE Dial
    BY <2>1 DEF Dial, DialIdentify, DialResume, Connected, Beats
  <2>2. CASE Read \/ Joined \/ Park \/ DialFails \/ Drop
    BY <1>2, <2>2 DEF Read, Enqueue, QueueFull, ReadAck, ReadEnd, SeeReconnect, Joined, Park, DialFails, Drop,
                      Disconnect, Beats, thread
  <2>3. CASE Work \/ WorkFails
    BY <1>2, <2>3 DEF Work, Take, Skip, Apply, Advance, WorkFails, Beats, thread
  <2>4. CASE Heart \/ (\E s \in Sessions : Emit(s) \/ Forget(s)) \/ EndConnection \/ FallSilent \/ ConsumeGap
    BY <1>2, <2>4 DEF Heart, Beat, BeatMissed, Emit, Forget, EndConnection, End, FallSilent, ConsumeGap, Beats, thread
  <2>5. CASE UNCHANGED gatewayVars
    BY <1>2, <2>5 DEF gatewayVars, Beats, thread
  <2> QED
    BY <1>2, <2>1, <2>2, <2>3, <2>4, <2>5 DEF GatewayNext, Main, Environment
<1> QED
  BY <1>1, <1>2, PTL DEF GatewaySpec

LEMMA GatewayKeeps == GatewayInv /\ Beats /\ [GatewayNext]_gatewayVars => GatewayInv'
<1> SUFFICES ASSUME GatewayInv, Beats, [GatewayNext]_gatewayVars PROVE GatewayInv'
  OBVIOUS
<1>1. GatewayTypeOK
  BY DEF GatewayInv
<1>2. CASE Dial
  <2>1. GatewayTypeOK'
    BY <1>1, <1>2, DialTypes
  <2> QED
    BY <1>2, <2>1, IdentifyKeeps, ResumeKeeps DEF Dial
<1>3. CASE Read
  <2>1. GatewayTypeOK'
    BY <1>1, <1>3, MainTypes
  <2>2. CASE Enqueue
    BY <2>1, <2>2, EnqueueKeeps
  <2>3. CASE ReadAck
    BY <2>1, <2>3, OtherRead DEF ReadAck, Reading, core, discord, thread, worker, resume
  <2>4. CASE QueueFull \/ ReadEnd \/ SeeReconnect
    <3>1. UNCHANGED core /\ valid' = valid /\ wire' = <<>> /\ main' \in {"joining", "parking"}
      BY <2>4 DEF QueueFull, ReadEnd, SeeReconnect, Disconnect, core, discord, worker, resume
    <3> QED
      BY <2>1, <3>1, WireCut
  <2> QED
    BY <1>3, <2>2, <2>3, <2>4 DEF Read
<1>4. CASE Joined
  BY <1>1, <1>4, MainTypes, JoinedKeeps
<1>5. CASE Park \/ DialFails \/ Drop
  <2>1. GatewayTypeOK'
    BY <1>1, <1>5, MainTypes
  <2>2. UNCHANGED core /\ valid' = valid /\ wire' = <<>> /\ main' \in {"joining", "parked"}
    BY <1>5 DEF Park, DialFails, Drop, Disconnect, core, discord, worker, resume, GatewayInv, Emptied
  <2> QED
    BY <2>1, <2>2, WireCut
<1>6. CASE Work \/ WorkFails
  <2>1. GatewayTypeOK'
    BY <1>1, <1>6, WorkTypes
  <2> QED
    BY <1>6, <2>1, TakeKeeps, DropKeeps, ApplyKeeps, AdvanceKeeps DEF Work
<1>7. CASE Heart \/ (\E s \in Sessions : Emit(s) \/ Forget(s)) \/ EndConnection \/ FallSilent \/ ConsumeGap
  <2>1. GatewayTypeOK'
    BY <1>1, <1>7, OtherTypes
  <2>2. CASE Beat
    <3>1. UNCHANGED <<core, valid, main, silent>>
      BY <2>2 DEF Beat, core, discord, thread, worker, resume
    <3>2. CASE main = "up" /\ ~silent
      <4>1. wire' = Append(wire, [op |-> "ack"])
        BY <2>2, <3>2 DEF Beat
      <4> QED
        BY <2>1, <3>1, <3>2, <4>1, PayloadTypes, OtherArrives
    <3>3. CASE silent
      <4>1. wire' = wire
        BY <2>2, <3>3 DEF Beat
      <4> QED
        BY <2>1, <3>1, <4>1, AllKept DEF core
    <3>4. main = "up"
      BY <2>2 DEF Beat, Beats
    <3> QED
      BY <3>2, <3>3, <3>4
  <2>3. CASE BeatMissed \/ ConsumeGap
    BY <2>1, <2>3, AllKept DEF BeatMissed, ConsumeGap, core, discord, thread, worker, resume
  <2>4. CASE \E s \in Sessions : Emit(s)
    BY <2>1, <2>4, EmitKeeps
  <2>5. ASSUME NEW s \in Sessions, Forget(s) PROVE GatewayInv'
    <3>1. UNCHANGED core /\ valid' \subseteq valid /\ main' = main /\ main # "up" /\ wire' = wire
      BY <2>5 DEF Forget, core, thread, worker, resume
    <3> QED
      BY <2>1, <3>1, WireCut DEF GatewayInv, Emptied
  <2>6. CASE EndConnection
    <3>1. PICK p \in [op: {"reconnect", "fatal"}] \cup [op: {"invalid"}, fresh: BOOLEAN] : End(p)
      BY <2>6 DEF EndConnection
    <3>2. p \in Payload /\ p.op # "dispatch"
      BY PayloadTypes
    <3> QED
      BY <2>1, <3>1, <3>2, OtherArrives DEF End, core, discord, thread, worker, resume
  <2>7. CASE FallSilent
    BY <2>1, <2>7, WireCut DEF FallSilent, core, discord, thread, worker, resume
  <2> QED
    BY <1>7, <2>2, <2>3, <2>4, <2>5, <2>6, <2>7 DEF Heart
<1>8. CASE UNCHANGED gatewayVars
  <2>1. UNCHANGED <<core, valid, wire, main, silent>>
    BY <1>8 DEF gatewayVars, core, discord, thread, worker, resume
  <2>2. GatewayTypeOK'
    BY <1>1, <1>8 DEF GatewayTypeOK, gatewayVars, discord, thread, worker, resume
  <2> QED
    BY <2>1, <2>2, AllKept
<1> QED
  BY <1>2, <1>3, <1>4, <1>5, <1>6, <1>7, <1>8 DEF GatewayNext, Main, Environment

LEMMA Invariant == GatewaySpec => []GatewayInv
BY GatewayInitHolds, BeatsKept, GatewayKeeps, PTL DEF GatewaySpec

-----------------------------------------------------------------------------
\* GatewayTypeOK is an invariant: queue and wire carry what the threads expect,
\* and the queue never holds more than its capacity.
THEOREM GatewayTypes == GatewaySpec => []GatewayTypeOK
<1>1. GatewayInv => GatewayTypeOK
  BY DEF GatewayInv
<1> QED
  BY <1>1, Invariant, PTL

\* What a RESUME would tell Discord is true (run_connection and
\* _dispatch_worker, gateway.py): however the threads interleave and whatever
\* fails, every event up to the sequence was applied.
THEOREM ResumeIsTrue == GatewaySpec => []ResumePoint
<1>1. GatewayInv => ResumePoint
  BY DEF GatewayInv, Counted, ResumePoint, Resumable
<1> QED
  BY <1>1, Invariant, PTL

\* A step that applies an event finds those before it applied.
LEMMA StepInOrder ==
  GatewayInv /\ [GatewayNext]_gatewayVars
    => [\A e \in applied' \ applied : \A n \in 1..(e.n - 1) : Stored(e.s, n)]_gatewayVars
<1> SUFFICES ASSUME GatewayInv, GatewayNext, NEW e \in applied' \ applied, NEW n \in 1..(e.n - 1)
             PROVE  Stored(e.s, n)
  OBVIOUS
<1>1. CASE Apply
  <2>1. /\ busy.n = sequence + 1 /\ busy.s \in Sessions
        /\ Kind(busy) = "READY" => sequence = 0
        /\ Kind(busy) # "READY" => session = busy.s
    BY <1>1, AppliesNext
  <2>2. e = [s |-> busy.s, n |-> busy.n] /\ Kind(busy) = "event"
    BY <1>1 DEF Apply
  <2>3. e.s = session /\ n \in 1..sequence /\ session # 0
    BY <2>1, <2>2 DEF Sessions, GatewayInv, GatewayTypeOK
  <2> QED
    BY <2>3 DEF GatewayInv, Counted
<1>2. CASE ~Apply
  <2>1. applied' = applied
    BY <1>2 DEF GatewayNext, Main, Dial, DialIdentify, DialResume, Connected, Read, Enqueue, QueueFull, ReadAck,
                ReadEnd, SeeReconnect, Joined, Park, Work, Take, Skip, Advance, Heart, Beat, BeatMissed,
                Environment, Emit, Forget, EndConnection, End, FallSilent, Drop, DialFails, WorkFails, ConsumeGap
  <2> QED
    BY <2>1
<1> QED
  BY <1>1, <1>2

\* Events of a session are applied in order, none while an earlier one is
\* missing (_dispatch_worker, gateway.py).
THEOREM EventsInOrder == GatewaySpec => AppliedInOrder
BY Invariant, StepInOrder, PTL DEF GatewaySpec, AppliedInOrder

-----------------------------------------------------------------------------
(* The backfill. *)

\* What a walk knows of its channel: an incremental one has everything up to
\* its cursor, a historical one everything from its cursor to its maximum.
PageInOrder ==
  LET w == walk
  IN  step = "upsert" =>
        /\ \E lo, hi \in w.page : \A i \in w.page : lo <= i /\ i <= hi
        /\ ~w.historical =>
             \A i \in w.page : w.cursor < i /\ \A k \in Nat : w.cursor < k /\ k <= i => k \in w.page
        /\ w.historical /\ w.cursor # NoCursor =>
             \A i \in w.page : i < w.cursor /\ \A k \in Nat : i <= k /\ k < w.cursor => k \in w.page
        /\ w.historical /\ w.cursor = NoCursor =>
             \A i, j \in w.page : \A k \in Nat : i <= k /\ k <= j => k \in w.page

CursorCovered ==
  LET w == walk
  IN  step \in {"fetch", "upsert"} =>
        /\ w.maximum <= posted[w.chan]
        /\ w.page \subseteq 1..posted[w.chan]
        /\ ~w.historical => w.cursor = w.maximum /\ \A k \in 1..w.cursor : k \in archived[w.chan]
        /\ w.historical /\ w.cursor = NoCursor => w.maximum = 0
        /\ w.historical /\ w.cursor # NoCursor =>
             /\ 1 <= w.cursor /\ w.cursor <= w.maximum
             /\ \A k \in w.cursor..w.maximum : k \in archived[w.chan]

WalkEnds ==
  step = "save" => \A k \in 1..walk.maximum : k \in archived[walk.chan]

MarksReal == \A c \in Channels : mark[c] <= posted[c]

BackfillInv == TypeOK /\ WatermarkCovered /\ MarksReal /\ CursorCovered /\ PageInOrder /\ WalkEnds
             /\ (step = "save" => walk.maximum <= posted[walk.chan])

-----------------------------------------------------------------------------
LEMMA BackfillInitHolds == Init => BackfillInv
<1> SUFFICES ASSUME Init PROVE BackfillInv
  OBVIOUS
<1>1. Least(2, MaxPosted) \in 0..MaxPosted
  BY BackfillAssumption DEF Least
<1>2. NoRun \in Run /\ NoWalk \in Walk
  BY BackfillAssumption DEF NoRun, NoWalk, Run, Walk, Marks, NoMark, NoCursor
<1>3. TypeOK
  BY <1>1, <1>2, BackfillAssumption DEF Init, TypeOK, NoRequest, NoSup, Marks, NoWalk
<1>4. MarksReal
  BY <1>1, BackfillAssumption DEF Init, MarksReal, NoMark
<1> QED
  BY <1>3, <1>4 DEF Init, BackfillInv, WatermarkCovered, CursorCovered, PageInOrder, WalkEnds

\* What every step of the walk needs to know of its types.
LEMMA WalkTypes ==
  ASSUME TypeOK, walk.chan # NoChannel
  PROVE  /\ walk.chan \in Channels /\ walk.historical \in BOOLEAN
         /\ walk.cursor \in Int /\ (walk.cursor = -1 \/ walk.cursor \in 0..MaxPosted)
         /\ walk.maximum \in 0..MaxPosted /\ walk.page \subseteq 1..MaxPosted
         /\ posted[walk.chan] \in 0..MaxPosted
         /\ archived[walk.chan] \subseteq 1..MaxPosted
BY BackfillAssumption DEF TypeOK, Walk, NoCursor

\* Steps that leave the messages, the marks and the walk alone.
LEMMA Undisturbed ==
  ASSUME BackfillInv, TypeOK', UNCHANGED <<posted, archived, mark, step, walk>>
  PROVE  BackfillInv'
BY DEF BackfillInv, WatermarkCovered, MarksReal, CursorCovered, PageInOrder, WalkEnds

\* Steps outside a walk, or that leave one.
LEMMA OutsideWalk ==
  ASSUME BackfillInv, TypeOK', UNCHANGED <<posted, archived, mark>>,
         step' \notin {"fetch", "upsert", "save"}
  PROVE  BackfillInv'
BY DEF BackfillInv, WatermarkCovered, MarksReal, CursorCovered, PageInOrder, WalkEnds

LEMMA PostKeeps ==
  ASSUME BackfillInv, NEW c \in Channels, Post(c)
  PROVE  BackfillInv'
<1>1. posted' \in [Channels -> 0..MaxPosted] /\ \A d \in Channels : posted[d] <= posted'[d]
  BY BackfillAssumption DEF BackfillInv, TypeOK, Post
<1>2. TypeOK'
  BY <1>1 DEF BackfillInv, TypeOK, Post, db
<1>3. MarksReal'
  BY <1>1, BackfillAssumption DEF BackfillInv, TypeOK, MarksReal, Post, Marks, NoMark
<1>4. CursorCovered' /\ (step = "save" => walk.maximum <= posted[walk.chan])'
  <2>1. CASE walk.chan = NoChannel
    BY <2>1 DEF BackfillInv, TypeOK, CursorCovered, Post
  <2>2. CASE walk.chan # NoChannel
    <3>1. posted[walk.chan] \in Nat /\ posted'[walk.chan] \in Nat /\ posted[walk.chan] <= posted'[walk.chan]
          /\ walk.maximum \in Nat
      BY <1>1, <2>2, WalkTypes, BackfillAssumption DEF BackfillInv
    <3>2. walk.maximum <= posted[walk.chan] => walk.maximum <= posted'[walk.chan]
      BY <3>1
    <3>3. 1..posted[walk.chan] \subseteq 1..posted'[walk.chan]
      BY <3>1
    <3> QED
      BY <3>2, <3>3 DEF BackfillInv, CursorCovered, Post, db
  <2> QED
    BY <2>1, <2>2
<1> QED
  BY <1>2, <1>3, <1>4 DEF BackfillInv, WatermarkCovered, PageInOrder, WalkEnds, Post, db

-----------------------------------------------------------------------------
LEMMA BeginWalkKeeps ==
  ASSUME BackfillInv, NEW c \in Channels, BeginWalk(c)
  PROVE  BackfillInv'
<1>1. mark[c] \in {NoMark} \cup 0..MaxPosted /\ mark[c] <= posted[c] /\ posted[c] \in 0..MaxPosted
  BY DEF BackfillInv, TypeOK, MarksReal, Marks
<1>2. Greatest(mark[c], 0) \in 0..MaxPosted /\ Greatest(mark[c], 0) <= posted[c]
      /\ (mark[c] = NoMark => Greatest(mark[c], 0) = 0) /\ (mark[c] # NoMark => Greatest(mark[c], 0) = mark[c])
  BY <1>1, BackfillAssumption DEF Greatest, NoMark
<1>3. walk' = [chan |-> c, historical |-> mark[c] = NoMark, cursor |-> mark[c],
               maximum |-> Greatest(mark[c], 0), page |-> {}]
  BY DEF BeginWalk
<1>4. walk' \in Walk /\ walk'.chan # NoChannel
  BY <1>1, <1>2, <1>3, BackfillAssumption DEF Walk, NoMark, NoCursor
<1>5. run' \in Run
  BY DEF BackfillInv, TypeOK, BeginWalk, Run
<1>6. TypeOK'
  BY <1>4, <1>5 DEF BackfillInv, TypeOK, BeginWalk, db
<1>7. CursorCovered'
  <2>1. mark[c] # NoMark => \A k \in 1..mark[c] : k \in archived[c]
    BY DEF BackfillInv, WatermarkCovered
  <2> QED
    <3>1. /\ walk'.chan = c /\ walk'.historical = (mark[c] = -1) /\ walk'.cursor = mark[c]
          /\ walk'.maximum = Greatest(mark[c], 0) /\ walk'.page = {} /\ posted' = posted /\ archived' = archived
      BY <1>3 DEF BeginWalk, db, NoMark
    <3>2. walk'.maximum <= posted'[c] /\ walk'.page \subseteq 1..posted'[c]
      BY <1>2, <3>1
    <3>3. mark[c] # -1 => walk'.cursor = walk'.maximum /\ \A k \in 1..walk'.cursor : k \in archived'[c]
      BY <1>2, <2>1, <3>1 DEF NoMark
    <3>4. mark[c] = -1 => walk'.maximum = 0 /\ walk'.cursor = -1
      BY <1>2, <3>1 DEF NoMark
    <3> HIDE DEF BeginWalk
    <3> QED
      BY <3>1, <3>2, <3>3, <3>4 DEF CursorCovered, NoCursor
<1> QED
  BY <1>6, <1>7 DEF BackfillInv, WatermarkCovered, MarksReal, PageInOrder, WalkEnds, BeginWalk, db

LEMMA FetchPageKeeps ==
  ASSUME BackfillInv, FetchPage
  PROVE  BackfillInv'
<1> DEFINE c == walk.chan
           n == posted[c]
           low == IF walk.historical
                    THEN IF walk.cursor = NoCursor THEN n + 1 - PageSize ELSE walk.cursor - PageSize
                    ELSE walk.cursor + 1
           high == IF walk.historical
                    THEN IF walk.cursor = NoCursor THEN n ELSE walk.cursor - 1
                    ELSE walk.cursor + PageSize
<1>1. step = "fetch" /\ walk.chan # NoChannel
  BY DEF FetchPage, BackfillInv, TypeOK
<1>2. /\ c \in Channels /\ walk.historical \in BOOLEAN /\ walk.cursor \in Int
      /\ walk.maximum \in Nat /\ n \in Nat /\ PageSize \in Nat \ {0} /\ n <= MaxPosted /\ MaxPosted \in Nat
  BY <1>1, WalkTypes, BackfillAssumption DEF BackfillInv
<1>3. Page = {i \in 1..n : low <= i /\ i <= high} /\ low \in Int /\ high \in Int
  BY <1>2 DEF Page, NoCursor
<1> DEFINE P == {i \in 1..n : low <= i /\ i <= high}
<1>4. walk' = [walk EXCEPT !.page = P] /\ P # {}
  BY <1>3 DEF FetchPage
<1>5. walk \in Walk
  BY DEF BackfillInv, TypeOK
<1>6. P \in SUBSET (1..MaxPosted)
  BY <1>2
<1>7. /\ walk'.chan = c /\ walk'.historical = walk.historical /\ walk'.cursor = walk.cursor
      /\ walk'.maximum = walk.maximum /\ walk'.page = P /\ walk' \in Walk
  <2> HIDE DEF P
  <2> QED
    BY <1>4, <1>5, <1>6 DEF Walk
<1>8. TypeOK'
  BY <1>1, <1>7 DEF BackfillInv, TypeOK, FetchPage, db
<1>9. CursorCovered'
  <2>1. P \subseteq 1..posted'[c]
    BY DEF FetchPage
  <2> HIDE DEF P
  <2> QED
    BY <1>1, <1>7, <2>1 DEF BackfillInv, CursorCovered, FetchPage, db
<1>10. PageInOrder'
  <2>1. \E lo, hi \in P : \A i \in P : lo <= i /\ i <= hi
    <3> DEFINE lo == IF low >= 1 THEN low ELSE 1
               hi == IF high <= n THEN high ELSE n
    <3>1. PICK i \in P : TRUE
      BY <1>4
    <3>2. i \in 1..n /\ low <= i /\ i <= high
      OBVIOUS
    <3> HIDE DEF low, high
    <3>3. lo \in P /\ hi \in P /\ \A j \in P : lo <= j /\ j <= hi
      BY <1>2, <1>3, <3>2
    <3> QED
      BY <3>3
  <2>2. ~walk.historical =>
          \A i \in P : walk.cursor < i /\ \A k \in Nat : walk.cursor < k /\ k <= i => k \in P
    <3>1. ~walk.historical => walk.cursor >= 0
      BY <1>1, <1>2 DEF BackfillInv, CursorCovered
    <3> QED
      BY <1>2, <3>1
  <2>3. walk.historical /\ walk.cursor # NoCursor =>
          \A i \in P : i < walk.cursor /\ \A k \in Nat : i <= k /\ k < walk.cursor => k \in P
    <3>1. walk.historical /\ walk.cursor # NoCursor => walk.cursor <= n
      BY <1>1, <1>2 DEF BackfillInv, CursorCovered
    <3> QED
      BY <1>2, <3>1
  <2>4. walk.historical /\ walk.cursor = NoCursor =>
          \A i, j \in P : \A k \in Nat : i <= k /\ k <= j => k \in P
    BY <1>2
  <2> HIDE DEF P
  <2> QED
    BY <1>7, <2>1, <2>2, <2>3, <2>4 DEF PageInOrder
<1> QED
  BY <1>8, <1>9, <1>10 DEF BackfillInv, WatermarkCovered, MarksReal, WalkEnds, FetchPage, db

LEMMA FetchEmptyKeeps ==
  ASSUME BackfillInv, FetchEmpty
  PROVE  BackfillInv'
<1>1. step = "fetch" /\ walk.chan # NoChannel /\ Page = {}
  BY DEF FetchEmpty, BackfillInv, TypeOK
<1>2. /\ walk.chan \in Channels /\ walk.historical \in BOOLEAN /\ walk.cursor \in Int
      /\ walk.maximum \in Nat /\ posted[walk.chan] \in Nat /\ PageSize \in Nat \ {0}
  BY <1>1, WalkTypes, BackfillAssumption DEF BackfillInv
<1>3. TypeOK'
  BY <1>1 DEF BackfillInv, TypeOK, FetchEmpty, db
<1>4. \A k \in 1..walk.maximum : k \in archived[walk.chan]
  <2>1. CASE ~walk.historical
    BY <1>1, <2>1 DEF BackfillInv, CursorCovered
  <2>2. CASE walk.historical /\ walk.cursor = NoCursor
    BY <1>1, <2>2 DEF BackfillInv, CursorCovered
  <2>3. CASE walk.historical /\ walk.cursor # NoCursor
    <3>1. 1 <= walk.cursor /\ walk.cursor <= walk.maximum /\ walk.maximum <= posted[walk.chan]
          /\ \A k \in walk.cursor..walk.maximum : k \in archived[walk.chan]
      BY <1>1, <2>3 DEF BackfillInv, CursorCovered
    <3>2. walk.cursor - 1 \notin 1..posted[walk.chan]
      BY <1>1, <1>2, <2>3 DEF Page
    <3>3. walk.cursor = 1
      BY <1>2, <3>1, <3>2
    <3> QED
      BY <3>1, <3>3
  <2> QED
    BY <1>2, <2>1, <2>2, <2>3
<1>5. walk.maximum <= posted[walk.chan]
  BY <1>1 DEF BackfillInv, CursorCovered
<1> QED
  BY <1>3, <1>4, <1>5 DEF BackfillInv, WatermarkCovered, MarksReal, CursorCovered, PageInOrder, WalkEnds, FetchEmpty, db

-----------------------------------------------------------------------------
LEMMA StorePageKeeps ==
  ASSUME BackfillInv, StorePage
  PROVE  BackfillInv'
<1> DEFINE c == walk.chan
           P == walk.page
           a == Oldest(P)
           b == Newest(P)
<1>1. step = "upsert" /\ c # NoChannel
  BY DEF StorePage, BackfillInv, TypeOK
<1>2. /\ c \in Channels /\ walk.historical \in BOOLEAN /\ walk.cursor \in Int
      /\ walk.maximum \in Nat /\ posted[c] \in Nat /\ posted[c] <= MaxPosted /\ MaxPosted \in Nat
      /\ P \subseteq 1..posted[c] /\ archived[c] \subseteq 1..MaxPosted /\ walk.maximum <= posted[c]
  BY <1>1, WalkTypes, BackfillAssumption DEF BackfillInv, CursorCovered
<1>3. a \in P /\ b \in P /\ \A i \in P : a <= i /\ i <= b
  <2>1. PICK lo, hi \in P : \A i \in P : lo <= i /\ i <= hi
    BY <1>1 DEF BackfillInv, PageInOrder
  <2> QED
    BY <2>1 DEF Oldest, Newest
<1>4. a \in 1..posted[c] /\ b \in 1..posted[c] /\ a <= b
  BY <1>2, <1>3
<1> DEFINE cur == IF walk.historical THEN a ELSE b
           max == Greatest(walk.maximum, b)
<1>5. max \in 1..posted[c] /\ walk.maximum <= max /\ b <= max /\ (max = walk.maximum \/ max = b)
  BY <1>2, <1>4 DEF Greatest
<1>6. walk' = [walk EXCEPT !.page = {}, !.cursor = cur, !.maximum = max]
  BY DEF StorePage
<1>7. cur \in 1..posted[c]
  BY <1>4
<1> HIDE DEF a, b, cur, max
<1>8. /\ walk'.chan = c /\ walk'.historical = walk.historical /\ walk'.cursor = cur /\ posted' = posted
      /\ walk'.maximum = max /\ walk'.page = {} /\ walk' \in Walk
  <2>1. walk \in Walk /\ cur \in 0..MaxPosted /\ max \in 0..MaxPosted
    BY <1>2, <1>5, <1>7 DEF BackfillInv, TypeOK
  <2>2. posted' = posted
    BY DEF StorePage
  <2> QED
    BY <1>6, <2>1, <2>2 DEF Walk
<1>9. /\ archived'[c] = archived[c] \cup P
      /\ \A d \in Channels : archived[d] \subseteq archived'[d]
      /\ archived' \in [Channels -> SUBSET (1..MaxPosted)]
  <2>1. archived \in [Channels -> SUBSET (1..MaxPosted)] /\ P \subseteq 1..MaxPosted
    BY <1>2 DEF BackfillInv, TypeOK
  <2> HIDE DEF P
  <2> QED
    BY <1>2, <2>1 DEF StorePage, P
<1>10. TypeOK'
  BY <1>1, <1>8, <1>9 DEF BackfillInv, TypeOK, StorePage
<1>11. CursorCovered'
  <2>1. CASE ~walk.historical
    <3>1. cur = b /\ walk.cursor = walk.maximum /\ walk.cursor < b
      BY <1>1, <1>3, <2>1 DEF BackfillInv, CursorCovered, PageInOrder, cur
    <3>2. max = b
      BY <1>2, <1>4, <1>5, <3>1
    <3>3. \A k \in 1..b : k \in archived[c] \/ k \in P
      <4> SUFFICES ASSUME NEW k \in 1..b, k \notin archived[c] PROVE k \in P
        OBVIOUS
      <4>1. k \notin 1..walk.cursor
        BY <1>1, <2>1 DEF BackfillInv, CursorCovered
      <4>2. walk.cursor < k /\ k <= b /\ k \in Nat
        BY <1>2, <1>4, <4>1
      <4> QED
        BY <1>1, <1>3, <2>1, <4>2 DEF BackfillInv, PageInOrder
    <3> QED
      BY <1>5, <1>8, <1>9, <2>1, <3>1, <3>2, <3>3 DEF CursorCovered
  <2>2. CASE walk.historical /\ walk.cursor = NoCursor
    <3>1. cur = a /\ walk.maximum = 0
      BY <1>1, <2>2 DEF BackfillInv, CursorCovered, cur
    <3>2. max = b
      BY <1>4, <1>5, <3>1
    <3>3. \A k \in a..b : k \in P
      BY <1>1, <1>3, <1>4, <2>2 DEF BackfillInv, PageInOrder
    <3> QED
      BY <1>4, <1>5, <1>8, <1>9, <2>2, <3>1, <3>2, <3>3 DEF CursorCovered, NoCursor
  <2>3. CASE walk.historical /\ walk.cursor # NoCursor
    <3>1. cur = a /\ b < walk.cursor /\ walk.cursor <= walk.maximum /\ 1 <= walk.cursor
      BY <1>1, <1>3, <2>3 DEF BackfillInv, CursorCovered, PageInOrder, cur
    <3>2. max = walk.maximum
      BY <1>2, <1>4, <1>5, <3>1
    <3>3. \A k \in a..max : k \in archived[c] \/ k \in P
      <4> SUFFICES ASSUME NEW k \in a..max, k \notin archived[c] PROVE k \in P
        OBVIOUS
      <4>1. k \notin walk.cursor..walk.maximum
        BY <1>1, <2>3 DEF BackfillInv, CursorCovered
      <4>2. k < walk.cursor /\ a <= k /\ k \in Nat
        BY <1>2, <1>4, <1>5, <3>2, <4>1
      <4> QED
        BY <1>1, <1>3, <2>3, <4>2 DEF BackfillInv, PageInOrder
    <3>4. a <= max /\ 1 <= a
      BY <1>4, <1>5, <1>2
    <3> QED
      BY <1>5, <1>8, <1>9, <2>3, <3>1, <3>3, <3>4 DEF CursorCovered, NoCursor
  <2> QED
    BY <1>2, <2>1, <2>2, <2>3
<1>12. WatermarkCovered' /\ MarksReal'
  BY <1>9 DEF BackfillInv, WatermarkCovered, MarksReal, StorePage
<1> QED
  BY <1>1, <1>10, <1>11, <1>12 DEF BackfillInv, PageInOrder, WalkEnds, StorePage

LEMMA SaveMarkKeeps ==
  ASSUME BackfillInv, SaveMark
  PROVE  BackfillInv'
<1>1. step = "save" /\ walk.chan # NoChannel
  BY DEF SaveMark, BackfillInv, TypeOK
<1>2. walk.chan \in Channels /\ walk.maximum \in 0..MaxPosted /\ walk.maximum <= posted[walk.chan]
  BY <1>1, WalkTypes DEF BackfillInv
<1>3. mark' \in [Channels -> Marks] /\ mark'[walk.chan] = walk.maximum
      /\ \A d \in Channels : d # walk.chan => mark'[d] = mark[d]
  BY <1>2 DEF BackfillInv, TypeOK, SaveMark, Marks
<1>4. TypeOK'
  BY <1>1, <1>3 DEF BackfillInv, TypeOK, SaveMark, db
<1>5. WatermarkCovered' /\ MarksReal'
  <2> SUFFICES ASSUME NEW d \in Channels
               PROVE  /\ mark'[d] <= posted'[d]
                      /\ mark'[d] # NoMark => 1..mark'[d] \subseteq archived'[d]
    BY DEF WatermarkCovered, MarksReal
  <2>1. posted' = posted /\ archived' = archived
    BY DEF SaveMark, db
  <2>2. CASE d = walk.chan
    BY <1>1, <1>2, <1>3, <2>1, <2>2 DEF BackfillInv, WalkEnds
  <2>3. CASE d # walk.chan
    BY <1>3, <2>1, <2>3 DEF BackfillInv, WatermarkCovered, MarksReal
  <2> QED
    BY <2>2, <2>3
<1> QED
  BY <1>4, <1>5 DEF BackfillInv, CursorCovered, PageInOrder, WalkEnds, SaveMark

-----------------------------------------------------------------------------
\* The steps that touch neither a message nor a mark: only types are at stake.
LEMMA HandlersKeep ==
  ASSUME BackfillInv, (\E c \in Channels : Import(c) \/ Select(c))
                 \/ (\E k \in {"full", "channel"} : WriteMarker(k)) \/ Due \/ ConsumeFull
  PROVE  BackfillInv'
<1> USE DEF BackfillInv, TypeOK
<1>1. ASSUME NEW c \in Channels, Import(c) PROVE BackfillInv'
  <2>1. asked + 1 \in 0..MaxRequests /\ posted[c] \in 0..MaxPosted
    BY <1>1, BackfillAssumption DEF Import
  <2>2. TypeOK'
    BY <1>1, <2>1 DEF Import
  <2> QED
    BY <1>1, <2>2, Undisturbed DEF Import
<1>2. ASSUME NEW c \in Channels, Select(c) PROVE BackfillInv'
  <2>1. TypeOK'
    BY <1>2, BackfillAssumption DEF Select
  <2> QED
    BY <1>2, <2>1, Undisturbed DEF Select
<1>3. ASSUME NEW k \in {"full", "channel"}, WriteMarker(k) PROVE BackfillInv'
  <2>1. TypeOK'
    BY <1>3 DEF WriteMarker, db
  <2> QED
    BY <1>3, <2>1, Undisturbed DEF WriteMarker, db
<1>4. CASE Due
  <2>1. TypeOK'
    BY <1>4 DEF Due, db
  <2> QED
    BY <1>4, <2>1, Undisturbed DEF Due, db
<1>5. CASE ConsumeFull
  <2>1. sup' = [sup EXCEPT !.woken = TRUE, !.full = ("full" \in markers)] /\ ("full" \in markers) \in BOOLEAN
    BY <1>5 DEF ConsumeFull
  <2>2. sup' \in [job: {"idle", "running", "succeeded", "failed"}, woken: BOOLEAN,
                  full: BOOLEAN, requestedOnly: BOOLEAN]
    BY <2>1
  <2>3. TypeOK'
    BY <1>5, <2>2 DEF ConsumeFull, db
  <2> QED
    BY <1>5, <2>3, Undisturbed DEF ConsumeFull, db
<1> QED
  BY <1>1, <1>2, <1>3, <1>4, <1>5

LEMMA OutsideKeeps ==
  ASSUME BackfillInv, Spawn \/ Reap \/ ReadSelection \/ DiscoveryFails \/ SelectionFails \/ Ack \/ ChannelFails \/ Crash
  PROVE  BackfillInv'
<1> USE BackfillAssumption DEF BackfillInv, TypeOK
<1>1. NoRun \in Run /\ NoWalk \in Walk /\ NoWalk.chan = NoChannel
      /\ [NoRun EXCEPT !.failed = TRUE] \in Run /\ [run EXCEPT !.failed = TRUE] \in Run
  <2>1. NoRun \in Run /\ NoWalk \in Walk /\ NoWalk.chan = NoChannel
    BY DEF NoRun, NoWalk, Run, Walk, Marks, NoMark, NoCursor
  <2>2. \A r \in Run : [r EXCEPT !.failed = TRUE] \in Run
    BY DEF Run
  <2> QED
    BY <2>1, <2>2
<1>2. CASE Spawn
  <2>2. sup' \in [job: {"idle", "running", "succeeded", "failed"}, woken: BOOLEAN,
                  full: BOOLEAN, requestedOnly: BOOLEAN]
    <3>1. sup' = [job |-> "running", woken |-> FALSE, full |-> FALSE, requestedOnly |-> (~due /\ ~sup.full)]
      BY <1>2 DEF Spawn
    <3> DEFINE r == ~due /\ ~sup.full
    <3>2. r \in BOOLEAN
      OBVIOUS
    <3> HIDE DEF r, BackfillInv, TypeOK
    <3>3. sup' = [job |-> "running", woken |-> FALSE, full |-> FALSE, requestedOnly |-> r]
      BY <3>1 DEF r
    <3> QED
      BY <3>2, <3>3
  <2>3. /\ markers' \subseteq {"full", "channel"} /\ step' = "select" /\ run' = NoRun
        /\ UNCHANGED <<posted, archived, selected, request, asked, mark, owed, due, walk, faults, crashes>>
        /\ walk.chan = NoChannel
    BY <1>2 DEF Spawn, db
  <2>4. TypeOK'
    BY <1>1, <2>2, <2>3
  <2> QED
    BY <1>2, <2>4, OutsideWalk DEF Spawn, db
<1>3. CASE Reap
  <2>1. TypeOK'
    BY <1>3 DEF Reap, db
  <2> QED
    BY <1>3, <2>1, OutsideWalk DEF Reap, db
<1>4. CASE ReadSelection
  <2>1. run' \in Run
    BY <1>4 DEF ReadSelection, Run, Marks
  <2>2. TypeOK'
    BY <1>4, <2>1 DEF ReadSelection, db
  <2> QED
    BY <1>4, <2>2, OutsideWalk DEF ReadSelection, db
<1>5. CASE DiscoveryFails
  <2>1. TypeOK'
    BY <1>1, <1>5 DEF DiscoveryFails, db
  <2> QED
    BY <1>5, <2>1, OutsideWalk DEF DiscoveryFails, db
<1>6. CASE SelectionFails
  <2>1. TypeOK'
    BY <1>1, <1>6 DEF SelectionFails, db
  <2> QED
    BY <1>6, <2>1, OutsideWalk DEF SelectionFails, db
<1>7. CASE Ack
  <2>1. request' \in [Channels -> [id: 0..MaxRequests, since: 0..MaxPosted]]
    <3>1. NoRequest \in [id: 0..MaxRequests, since: 0..MaxPosted]
      BY DEF NoRequest
    <3>2. request' = request \/ request' = [request EXCEPT ![walk.chan] = NoRequest]
      BY <1>7 DEF Ack
    <3> HIDE DEF Ack, NoRequest
    <3> QED
      BY <3>1, <3>2
  <2>2. TypeOK'
    BY <1>1, <1>7, <2>1 DEF Ack
  <2> QED
    BY <1>7, <2>2, OutsideWalk DEF Ack
<1>8. CASE ChannelFails
  <2>1. TypeOK'
    BY <1>1, <1>8 DEF ChannelFails, db
  <2> QED
    BY <1>8, <2>1, OutsideWalk DEF ChannelFails, db
<1>9. CASE Crash
  <2>1. TypeOK'
    BY <1>1, <1>9 DEF Crash, NoSup, db
  <2> QED
    BY <1>9, <2>1, OutsideWalk DEF Crash, db
<1> QED
  BY <1>2, <1>3, <1>4, <1>5, <1>6, <1>7, <1>8, <1>9

LEMMA BackfillKeeps == BackfillInv /\ [Next]_bvars => BackfillInv'
<1> SUFFICES ASSUME BackfillInv, [Next]_bvars PROVE BackfillInv'
  OBVIOUS
<1>1. CASE UNCHANGED bvars
  BY <1>1 DEF bvars, db, BackfillInv, TypeOK, WatermarkCovered, MarksReal, CursorCovered, PageInOrder, WalkEnds
<1>2. ASSUME NEW c \in Channels, Post(c) PROVE BackfillInv'
  BY <1>2, PostKeeps
<1>3. CASE (\E c \in Channels : Import(c) \/ Select(c))
             \/ (\E k \in {"full", "channel"} : WriteMarker(k)) \/ Due \/ ConsumeFull
  BY <1>3, HandlersKeep
<1>4. CASE Spawn \/ Reap \/ ReadSelection \/ DiscoveryFails \/ SelectionFails \/ Ack \/ ChannelFails \/ Crash
  BY <1>4, OutsideKeeps
<1>5. CASE FetchPage \/ FetchEmpty \/ StorePage \/ SaveMark
  BY <1>5, FetchPageKeeps, FetchEmptyKeeps, StorePageKeeps, SaveMarkKeeps
<1>6. ASSUME NEW c \in Channels, BeginWalk(c) PROVE BackfillInv'
  BY <1>6, BeginWalkKeeps
<1> QED
  BY <1>1, <1>2, <1>3, <1>4, <1>5, <1>6 DEF Next, Worker

\* Types and the walk invariant hold throughout.
THEOREM InvariantHolds == Spec => []BackfillInv
<1> QED
  BY BackfillInitHolds, BackfillKeeps, PTL DEF Spec

\* Type correctness of the supervisor, the worker and the stored rows.
THEOREM TypeCorrect == Spec => []TypeOK
<1>1. BackfillInv => TypeOK
  BY DEF BackfillInv
<1> QED
  BY <1>1, InvariantHolds, PTL

\* Everything up to a channel's watermark is archived, for any number of
\* channels, any page size and any number of failures and restarts.
THEOREM WatermarksAreCovered == Spec => []WatermarkCovered
<1>1. BackfillInv => WatermarkCovered
  BY DEF BackfillInv
<1> QED
  BY <1>1, InvariantHolds, PTL

-----------------------------------------------------------------------------
(* What a run promises. *)

\* Requests are as old as they say, and what a run took over of one it will sweep.
RequestsKnown ==
  \A c \in Channels :
    /\ request[c].since <= posted[c] /\ request[c].id <= asked /\ run.seen[c] <= asked /\ run.goal[c] <= posted[c]
    /\ request[c].id # 0 /\ request[c].id = run.seen[c] => request[c].since <= run.goal[c]

\* A run that has not failed has reached its goal in every channel that is done.
DoneReached ==
  ~run.failed => \A c \in Channels : run.goal[c] <= mark[c] \/ c \in run.todo \/ c = walk.chan

\* A walk passes the goal of its channel: back from beyond it or on to the end.
WalkReaches ==
  LET goal == run.goal[walk.chan]
  IN  /\ step \in {"fetch", "upsert"} /\ walk.historical /\ walk.cursor # NoCursor => goal <= walk.maximum
      /\ step = "upsert" /\ walk.historical /\ walk.cursor = NoCursor => \E i \in walk.page : goal <= i
      /\ step = "save" => goal <= walk.maximum
      /\ step = "ack" => goal <= mark[walk.chan]

SweptInv == BackfillInv /\ RequestsKnown /\ DoneReached /\ WalkReaches

LEMMA SweptInitHolds == Init => SweptInv
<1> SUFFICES ASSUME Init PROVE SweptInv
  OBVIOUS
<1>1. BackfillInv
  BY BackfillInitHolds
<1>2. \A c \in Channels : posted[c] \in Nat
  BY <1>1, BackfillAssumption DEF BackfillInv, TypeOK
<1>3. RequestsKnown
  BY <1>2 DEF Init, RequestsKnown, NoRequest, NoRun, NoMark
<1>4. DoneReached /\ WalkReaches
  BY DEF Init, DoneReached, WalkReaches, NoRun, NoMark
<1> QED
  BY <1>1, <1>3, <1>4 DEF SweptInv

LEMMA Numbers ==
  ASSUME TypeOK, NEW c \in Channels
  PROVE  /\ posted[c] \in Nat /\ mark[c] \in Int /\ mark[c] >= -1 /\ asked \in Nat
         /\ request[c].since \in Nat /\ request[c].id \in Nat
         /\ run.seen[c] \in Nat /\ run.goal[c] \in Int /\ run.failed \in BOOLEAN
<1>1. posted[c] \in 0..MaxPosted /\ mark[c] \in Marks /\ asked \in 0..MaxRequests
  BY DEF TypeOK
<1>2. request[c] \in [id: 0..MaxRequests, since: 0..MaxPosted]
  BY DEF TypeOK
<1>3. run.seen[c] \in 0..MaxRequests /\ run.goal[c] \in Marks /\ run.failed \in BOOLEAN
  BY DEF TypeOK, Run
<1> QED
  BY <1>1, <1>2, <1>3, BackfillAssumption DEF Marks, NoMark

\* Steps that leave alone what requests and goals are.
LEMMA RequestsKept ==
  ASSUME RequestsKnown, UNCHANGED <<posted, request, asked>>, run'.seen = run.seen, run'.goal = run.goal
  PROVE  RequestsKnown'
BY DEF RequestsKnown

LEMMA WalkOver == ASSUME step' \notin {"fetch", "upsert", "save", "ack"} PROVE WalkReaches'
BY DEF WalkReaches

\* Steps that disturb neither the run nor its walk.
LEMMA RunUndisturbed ==
  ASSUME SweptInv, UNCHANGED <<mark, run, step, walk>> PROVE DoneReached' /\ WalkReaches'
BY DEF SweptInv, DoneReached, WalkReaches

LEMMA PostSweeps == ASSUME SweptInv, NEW d \in Channels, Post(d) PROVE RequestsKnown' /\ DoneReached' /\ WalkReaches'
<1>1. TypeOK /\ RequestsKnown
  BY DEF SweptInv, BackfillInv
<1>2. /\ \A c \in Channels : posted'[c] \in Int /\ posted[c] <= posted'[c]
      /\ UNCHANGED <<request, asked, run, mark, step, walk>>
  BY <1>1, BackfillAssumption DEF TypeOK, Post, db
<1>3. ASSUME NEW c \in Channels
      PROVE  request[c].since <= posted'[c] /\ run.goal[c] <= posted'[c]
  BY <1>1, <1>2, Numbers DEF RequestsKnown
<1>4. RequestsKnown'
  BY <1>1, <1>2, <1>3 DEF RequestsKnown
<1> QED
  BY <1>2, <1>4, RunUndisturbed

LEMMA ImportSweeps == ASSUME SweptInv, NEW d \in Channels, Import(d) PROVE RequestsKnown' /\ DoneReached' /\ WalkReaches'
<1>1. TypeOK /\ RequestsKnown
  BY DEF SweptInv, BackfillInv
<1>2. /\ asked' = asked + 1 /\ request' = [request EXCEPT ![d] = [id |-> asked + 1, since |-> posted[d]]]
      /\ UNCHANGED <<posted, run, mark, step, walk>>
  BY DEF Import
<1>3. request \in [Channels -> [id: 0..MaxRequests, since: 0..MaxPosted]]
  BY <1>1 DEF TypeOK
<1>4. ASSUME NEW c \in Channels
      PROVE  /\ request'[c].since <= posted[c] /\ request'[c].id <= asked + 1 /\ run.seen[c] <= asked + 1
             /\ request'[c].id # 0 /\ request'[c].id = run.seen[c] => request'[c].since <= run.goal[c]
  <2>1. /\ request[c].since <= posted[c] /\ request[c].id <= asked /\ run.seen[c] <= asked
        /\ request[c].id # 0 /\ request[c].id = run.seen[c] => request[c].since <= run.goal[c]
    BY <1>1 DEF RequestsKnown
  <2>2. CASE c = d
    <3>1. request'[c] = [id |-> asked + 1, since |-> posted[c]]
      BY <1>2, <1>3, <2>2
    <3>2. request'[c].id = asked + 1 /\ request'[c].since = posted[c]
      BY <3>1
    <3> QED
      BY <1>1, <2>1, <3>2, Numbers
  <2>3. CASE c # d
    <3>1. request'[c] = request[c]
      BY <1>2, <1>3, <2>3
    <3> QED
      BY <1>1, <2>1, <3>1, Numbers
  <2> QED
    BY <2>2, <2>3
<1>5. RequestsKnown'
  BY <1>1, <1>2, <1>4 DEF RequestsKnown
<1> QED
  BY <1>2, <1>5, RunUndisturbed

LEMMA SelectSweeps == ASSUME SweptInv, NEW d \in Channels, Select(d) PROVE RequestsKnown' /\ DoneReached' /\ WalkReaches'
<1>1. TypeOK /\ RequestsKnown
  BY DEF SweptInv, BackfillInv
<1>2. asked' = asked + 1 /\ UNCHANGED <<posted, request, run, mark, step, walk>>
  BY DEF Select
<1>3. ASSUME NEW c \in Channels PROVE request[c].id <= asked' /\ run.seen[c] <= asked'
  BY <1>1, <1>2, Numbers DEF RequestsKnown
<1>4. RequestsKnown'
  BY <1>1, <1>2, <1>3 DEF RequestsKnown
<1> QED
  BY <1>2, <1>4, RunUndisturbed

\* A run that begins, or ends before it took anything over, has no goal.
LEMMA NoRunSweeps ==
  ASSUME SweptInv, run' \in {NoRun, [NoRun EXCEPT !.failed = TRUE]}, UNCHANGED <<posted, request, asked, mark>>,
         step' \notin {"fetch", "upsert", "save", "ack"}
  PROVE  RequestsKnown' /\ DoneReached' /\ WalkReaches'
<1>1. TypeOK /\ RequestsKnown
  BY DEF SweptInv, BackfillInv
<1>2. run'.seen = [c \in Channels |-> 0] /\ run'.goal = [c \in Channels |-> NoMark]
  BY DEF NoRun
<1>3. ASSUME NEW c \in Channels
      PROVE  /\ run'.seen[c] = 0 /\ run'.goal[c] = -1 /\ run'.seen[c] <= asked /\ run'.goal[c] <= posted[c]
             /\ run'.goal[c] <= mark[c]
  BY <1>1, <1>2, Numbers DEF NoMark
<1>4. RequestsKnown'
  BY <1>1, <1>3 DEF RequestsKnown
<1>5. DoneReached'
  BY <1>3 DEF DoneReached
<1> QED
  BY <1>4, <1>5, WalkOver

LEMMA ReadSweeps == ASSUME SweptInv, ReadSelection PROVE RequestsKnown' /\ DoneReached' /\ WalkReaches'
<1> DEFINE asks == {c \in Channels : request[c].id # 0}
           taken == asks \cup (IF sup.requestedOnly THEN {} ELSE selected)
<1>1. TypeOK /\ RequestsKnown
  BY DEF SweptInv, BackfillInv
<1>2. /\ run'.todo = taken /\ run'.seen = [c \in Channels |-> request[c].id]
      /\ run'.goal = [c \in Channels |-> IF c \in taken THEN posted[c] ELSE NoMark]
      /\ UNCHANGED <<posted, request, asked, mark>> /\ step' = "pick"
  BY DEF ReadSelection, db
<1>3. \A c \in Channels : request[c].id # 0 => c \in taken
  OBVIOUS
<1> HIDE DEF taken
<1>4. ASSUME NEW c \in Channels
      PROVE  /\ run'.seen[c] = request[c].id /\ run'.goal[c] = IF c \in taken THEN posted[c] ELSE -1
             /\ run'.goal[c] <= posted[c] /\ (c \notin taken => run'.goal[c] <= mark[c])
  BY <1>1, <1>2, Numbers DEF NoMark
<1>5. RequestsKnown'
  BY <1>1, <1>2, <1>3, <1>4 DEF RequestsKnown
<1>6. DoneReached'
  BY <1>2, <1>4 DEF DoneReached
<1> QED
  BY <1>2, <1>5, <1>6, WalkOver

LEMMA FailSweeps == ASSUME SweptInv, DiscoveryFails \/ ChannelFails PROVE RequestsKnown' /\ DoneReached' /\ WalkReaches'
<1>1. TypeOK /\ RequestsKnown
  BY DEF SweptInv, BackfillInv
<1>2. run' = [run EXCEPT !.failed = TRUE] /\ UNCHANGED <<posted, request, asked>> /\ step' \in {"select", "pick"}
  BY DEF DiscoveryFails, ChannelFails, db
<1>3. run'.failed = TRUE /\ run'.seen = run.seen /\ run'.goal = run.goal
  BY <1>1, <1>2 DEF TypeOK, Run
<1>4. DoneReached'
  BY <1>3 DEF DoneReached
<1> QED
  BY <1>1, <1>2, <1>3, <1>4, RequestsKept, WalkOver

LEMMA BeginSweeps == ASSUME SweptInv, NEW d \in Channels, BeginWalk(d) PROVE RequestsKnown' /\ DoneReached' /\ WalkReaches'
<1>1. TypeOK /\ RequestsKnown /\ DoneReached
  BY DEF SweptInv, BackfillInv
<1>2. /\ run' = [run EXCEPT !.todo = run.todo \ {d}] /\ UNCHANGED <<posted, request, asked, mark>>
      /\ walk' = [chan |-> d, historical |-> mark[d] = NoMark, cursor |-> mark[d],
                  maximum |-> Greatest(mark[d], 0), page |-> {}]
      /\ step = "pick" /\ step' = "fetch"
  BY DEF BeginWalk, db
<1>3. run'.seen = run.seen /\ run'.goal = run.goal /\ run'.todo = run.todo \ {d} /\ run'.failed = run.failed
  BY <1>1, <1>2 DEF TypeOK, Run
<1>4. walk'.chan = d /\ walk'.historical = (mark[d] = NoMark) /\ walk'.cursor = mark[d]
  BY <1>2
<1>5. walk.chan \notin Channels
  BY <1>1, <1>2, BackfillAssumption DEF TypeOK, Walk
<1>6. DoneReached'
  BY <1>1, <1>2, <1>3, <1>4, <1>5 DEF DoneReached
<1>7. WalkReaches'
  BY <1>2, <1>4 DEF WalkReaches, NoMark, NoCursor
<1> QED
  BY <1>1, <1>2, <1>3, <1>6, <1>7, RequestsKept

\* Steps of a walk that leave the run and the marks alone.
LEMMA WalkGoesOn ==
  ASSUME SweptInv, UNCHANGED <<posted, request, asked, mark, run>>, walk'.chan = walk.chan
  PROVE  RequestsKnown' /\ DoneReached'
BY RequestsKept DEF SweptInv, DoneReached

LEMMA FetchSweeps == ASSUME SweptInv, FetchPage PROVE RequestsKnown' /\ DoneReached' /\ WalkReaches'
<1>1. TypeOK /\ RequestsKnown /\ WalkReaches /\ step = "fetch" /\ step' = "upsert" /\ walk.chan # NoChannel
  BY DEF SweptInv, BackfillInv, FetchPage, TypeOK
<1>2. walk' = [walk EXCEPT !.page = Page] /\ Page # {} /\ UNCHANGED <<posted, request, asked, mark, run>>
  BY DEF FetchPage, db
<1>3. /\ walk'.chan = walk.chan /\ walk'.historical = walk.historical /\ walk'.cursor = walk.cursor
      /\ walk'.maximum = walk.maximum /\ walk'.page = Page
  BY <1>1, <1>2 DEF TypeOK, Walk
<1>4. PICK c \in Channels : c = walk.chan
  BY <1>1, WalkTypes
<1>5. run.goal[c] <= posted[c]
  BY <1>1 DEF RequestsKnown
<1>6. PICK n \in Nat : n = posted[c]
  BY <1>1, Numbers
<1>7. walk.historical /\ walk.cursor = NoCursor => n \in Page
  <2> SUFFICES ASSUME walk.historical, walk.cursor = NoCursor PROVE n \in Page
    OBVIOUS
  <2>1. Page = {i \in 1..n : n + 1 - PageSize <= i /\ i < n + 1}
    <3>1. Page = {i \in 1..posted[walk.chan] : posted[walk.chan] + 1 - PageSize <= i /\ i < posted[walk.chan] + 1}
      <4>1. /\ walk.chan \in Channels /\ walk.historical \in BOOLEAN /\ walk.cursor \in Int
            /\ posted[walk.chan] \in Nat /\ PageSize \in Nat
        BY <1>1, WalkTypes, BackfillAssumption
      <4> QED
        BY <4>1 DEF Page, NoCursor
    <3> QED
      BY <1>4, <1>6, <3>1
  <2>2. PICK i \in 1..n : TRUE
    BY <1>2, <2>1
  <2>3. n \in 1..n /\ n + 1 - PageSize <= n /\ n < n + 1
    BY <2>2, BackfillAssumption
  <2> QED
    BY <2>1, <2>3
<1>8. WalkReaches'
  BY <1>1, <1>2, <1>3, <1>4, <1>5, <1>6, <1>7 DEF WalkReaches
<1> QED
  BY <1>2, <1>3, <1>8, WalkGoesOn

LEMMA EmptySweeps == ASSUME SweptInv, FetchEmpty PROVE RequestsKnown' /\ DoneReached' /\ WalkReaches'
<1>1. TypeOK /\ RequestsKnown /\ WalkReaches /\ CursorCovered /\ step = "fetch" /\ step' = "save" /\ walk.chan # NoChannel
  BY DEF SweptInv, BackfillInv, FetchEmpty, TypeOK
<1>2. Page = {} /\ UNCHANGED <<posted, request, asked, mark, run, walk>>
  BY DEF FetchEmpty, db
<1>4. PICK c \in Channels : c = walk.chan
  BY <1>1, WalkTypes
<1>5. PICK n \in Nat, goal \in Int : n = posted[c] /\ goal = run.goal[c] /\ goal <= n
  BY <1>1, Numbers DEF RequestsKnown
<1>6. walk.maximum \in Nat /\ walk.cursor \in Int /\ walk.historical \in BOOLEAN /\ PageSize \in Nat \ {0}
  BY <1>1, WalkTypes, BackfillAssumption
<1>7. goal <= walk.maximum
  <2>1. CASE walk.historical /\ walk.cursor # NoCursor
    BY <1>1, <1>4, <1>5, <2>1 DEF WalkReaches
  <2>2. CASE walk.historical /\ walk.cursor = NoCursor
    <3>1. Page = {i \in 1..n : n + 1 - PageSize <= i /\ i < n + 1}
      <4>1. Page = {i \in 1..posted[walk.chan] : posted[walk.chan] + 1 - PageSize <= i /\ i < posted[walk.chan] + 1}
        <5>1. posted[walk.chan] \in Nat
          BY <1>4, <1>5
        <5> QED
          BY <1>6, <2>2, <5>1 DEF Page, NoCursor
      <4> QED
        BY <1>4, <1>5, <4>1
    <3>2. n \notin 1..n
      BY <1>2, <1>6, <3>1
    <3> QED
      BY <1>5, <1>6, <3>2
  <2>3. CASE ~walk.historical
    <3>1. Page = {i \in 1..n : walk.cursor < i /\ i <= walk.cursor + PageSize}
      <4>1. Page = {i \in 1..posted[walk.chan] : walk.cursor < i /\ i <= walk.cursor + PageSize}
        BY <2>3 DEF Page
      <4> QED
        BY <1>4, <1>5, <4>1
    <3>2. walk.cursor = walk.maximum /\ walk.maximum <= n
      BY <1>1, <1>4, <1>5, <2>3 DEF CursorCovered
    <3>3. walk.cursor + 1 \notin 1..n
      BY <1>2, <1>6, <3>1
    <3> QED
      BY <1>5, <1>6, <3>2, <3>3
  <2> QED
    BY <1>6, <2>1, <2>2, <2>3
<1>8. WalkReaches'
  BY <1>1, <1>2, <1>4, <1>5, <1>7 DEF WalkReaches
<1> QED
  BY <1>2, <1>8, WalkGoesOn

LEMMA StoreSweeps == ASSUME SweptInv, StorePage PROVE RequestsKnown' /\ DoneReached' /\ WalkReaches'
<1>1. TypeOK /\ WalkReaches /\ CursorCovered /\ PageInOrder /\ step = "upsert" /\ step' = "fetch" /\ walk.chan # NoChannel
  BY DEF SweptInv, BackfillInv, StorePage, TypeOK
<1>2. /\ walk.chan \in Channels /\ walk.historical \in BOOLEAN /\ walk.cursor \in Int
      /\ walk.maximum \in Nat /\ walk.page \subseteq 1..MaxPosted /\ MaxPosted \in Nat
  BY <1>1, WalkTypes, BackfillAssumption
<1>3. PICK a, b : a = Oldest(walk.page) /\ b = Newest(walk.page)
  OBVIOUS
<1>4. b \in walk.page /\ \A i \in walk.page : i <= b
  <2>1. PICK lo, hi \in walk.page : \A i \in walk.page : lo <= i /\ i <= hi
    BY <1>1 DEF PageInOrder
  <2> QED
    BY <1>3, <2>1 DEF Newest
<1>5. PICK cur, max : cur = (IF walk.historical THEN a ELSE b) /\ max = Greatest(walk.maximum, b)
  OBVIOUS
<1>6. walk' = [walk EXCEPT !.page = {}, !.cursor = cur, !.maximum = max]
  BY <1>3, <1>5 DEF StorePage
<1>7. walk'.chan = walk.chan /\ walk'.historical = walk.historical /\ walk'.maximum = max
  BY <1>1, <1>6 DEF TypeOK, Walk
<1>8. max >= walk.maximum /\ max >= b /\ max \in Nat /\ b \in Nat
  BY <1>2, <1>4, <1>5 DEF Greatest
<1>9. UNCHANGED <<posted, request, asked, mark, run>>
  BY DEF StorePage
<1>10. PICK goal \in Int : goal = run.goal[walk.chan]
  BY <1>1, <1>2, Numbers
<1>11. walk.historical => goal <= max
  <2>1. CASE walk.historical /\ walk.cursor # NoCursor
    BY <1>1, <1>2, <1>8, <1>10, <2>1 DEF WalkReaches
  <2>2. CASE walk.historical /\ walk.cursor = NoCursor
    <3>1. PICK i \in walk.page : goal <= i
      BY <1>1, <1>10, <2>2 DEF WalkReaches
    <3> QED
      BY <1>2, <1>4, <1>8, <3>1
  <2> QED
    BY <2>1, <2>2
<1>12. WalkReaches'
  BY <1>1, <1>7, <1>9, <1>10, <1>11 DEF WalkReaches
<1> QED
  BY <1>7, <1>9, <1>12, WalkGoesOn

LEMMA SaveSweeps == ASSUME SweptInv, SaveMark PROVE RequestsKnown' /\ DoneReached' /\ WalkReaches'
<1>1. TypeOK /\ RequestsKnown /\ DoneReached /\ WalkReaches /\ step = "save" /\ step' = "ack" /\ walk.chan # NoChannel
  BY DEF SweptInv, BackfillInv, SaveMark, TypeOK
<1>2. walk.chan \in Channels
  BY <1>1, WalkTypes
<1>3. UNCHANGED <<posted, request, asked, run, walk>> /\ mark' = [mark EXCEPT ![walk.chan] = walk.maximum]
  BY DEF SaveMark, db
<1>4. mark'[walk.chan] = walk.maximum /\ \A c \in Channels : c # walk.chan => mark'[c] = mark[c]
  BY <1>1, <1>2, <1>3 DEF TypeOK
<1>5. run.goal[walk.chan] <= walk.maximum
  BY <1>1 DEF WalkReaches
<1>6. DoneReached'
  BY <1>1, <1>3, <1>4 DEF DoneReached
<1>7. WalkReaches'
  BY <1>1, <1>3, <1>4, <1>5 DEF WalkReaches
<1> QED
  BY <1>1, <1>3, <1>6, <1>7, RequestsKept

LEMMA AckSweeps == ASSUME SweptInv, Ack PROVE RequestsKnown' /\ DoneReached' /\ WalkReaches'
<1>1. TypeOK /\ RequestsKnown /\ DoneReached /\ WalkReaches /\ step = "ack" /\ step' = "pick" /\ walk.chan # NoChannel
  BY DEF SweptInv, BackfillInv, Ack, TypeOK
<1>2. UNCHANGED <<posted, asked, mark, run>>
  BY DEF Ack
<1>3. \A c \in Channels : request'[c] = request[c] \/ request'[c] = NoRequest
  BY <1>1 DEF Ack, TypeOK
<1>4. RequestsKnown'
  <2>1. ASSUME NEW c \in Channels
        PROVE  /\ request'[c].since <= posted[c] /\ request'[c].id <= asked
               /\ request'[c].id # 0 /\ request'[c].id = run.seen[c] => request'[c].since <= run.goal[c]
    <3>1. CASE request'[c] = request[c]
      BY <1>1, <3>1 DEF RequestsKnown
    <3>2. CASE request'[c] = NoRequest
      <4>1. request'[c].since = 0 /\ request'[c].id = 0
        BY <3>2 DEF NoRequest
      <4> QED
        BY <1>1, <4>1, Numbers
    <3> QED
      BY <1>3, <3>1, <3>2
  <2> QED
    BY <1>1, <1>2, <2>1 DEF RequestsKnown
<1>5. DoneReached'
  BY <1>1, <1>2 DEF DoneReached, WalkReaches
<1> QED
  BY <1>1, <1>4, <1>5, WalkOver

LEMMA SweptKeeps == SweptInv /\ [Next]_bvars => SweptInv'
<1> SUFFICES ASSUME SweptInv, [Next]_bvars PROVE RequestsKnown' /\ DoneReached' /\ WalkReaches'
  BY BackfillKeeps DEF SweptInv
<1>1. CASE UNCHANGED bvars
  <2>1. RequestsKnown'
    BY <1>1, RequestsKept DEF bvars, db, SweptInv
  <2> QED
    BY <1>1, <2>1, RunUndisturbed DEF bvars
<1>2. ASSUME NEW c \in Channels, Post(c) \/ Import(c) \/ Select(c) PROVE RequestsKnown' /\ DoneReached' /\ WalkReaches'
  BY <1>2, PostSweeps, ImportSweeps, SelectSweeps
<1>3. CASE (\E k \in {"full", "channel"} : WriteMarker(k)) \/ Due \/ ConsumeFull
  <2>1. UNCHANGED <<posted, request, asked, mark, run, step, walk>>
    BY <1>3 DEF WriteMarker, Due, ConsumeFull, db
  <2>2. RequestsKnown'
    BY <2>1, RequestsKept DEF SweptInv
  <2> QED
    BY <2>1, <2>2, RunUndisturbed
<1>4. CASE Spawn \/ SelectionFails \/ Crash
  <2>1. run' \in {NoRun, [NoRun EXCEPT !.failed = TRUE]} /\ step' \notin {"fetch", "upsert", "save", "ack"}
    BY <1>4 DEF Spawn, SelectionFails, Crash
  <2>2. UNCHANGED <<posted, request, asked, mark>>
    BY <1>4 DEF Spawn, SelectionFails, Crash, db
  <2> QED
    BY <2>1, <2>2, NoRunSweeps
<1>5. CASE Reap
  <2>1. UNCHANGED <<posted, request, asked, mark, run, walk>> /\ step' = "off"
    BY <1>5 DEF Reap, db
  <2>2. RequestsKnown' /\ DoneReached'
    BY <2>1, WalkGoesOn
  <2> QED
    BY <2>1, <2>2, WalkOver
<1>6. CASE ReadSelection
  BY <1>6, ReadSweeps
<1>7. CASE DiscoveryFails \/ ChannelFails
  BY <1>7, FailSweeps
<1>8. ASSUME NEW c \in Channels, BeginWalk(c) PROVE RequestsKnown' /\ DoneReached' /\ WalkReaches'
  BY <1>8, BeginSweeps
<1>9. CASE FetchPage
  BY <1>9, FetchSweeps
<1>10. CASE FetchEmpty
  BY <1>10, EmptySweeps
<1>11. CASE StorePage
  BY <1>11, StoreSweeps
<1>12. CASE SaveMark
  BY <1>12, SaveSweeps
<1>13. CASE Ack
  BY <1>13, AckSweeps
<1> QED
  BY <1>1, <1>2, <1>3, <1>4, <1>5, <1>6, <1>7, <1>8, <1>9, <1>10, <1>11, <1>12, <1>13 DEF Next, Worker

\* The inductive invariant of a run of the backfill: what it took over, what it
\* has still to walk and what each walk passes (main and backfill of backfill.py).
THEOREM SweptInvariant == Spec => []SweptInv
BY SweptInitHolds, SweptKeeps, PTL DEF Spec

\* Only an ack deletes a request, and by then the sweep that read it has passed
\* what its channel held when it was made.
LEMMA AnswersSwept ==
  ASSUME SweptInv, Next, NEW c \in Channels, request[c].id # 0, request'[c] = NoRequest
  PROVE  1..request[c].since \subseteq archived[c]
<1>1. TypeOK /\ RequestsKnown /\ WalkReaches /\ WatermarkCovered
  BY DEF SweptInv, BackfillInv
<1>2. request'[c] # request[c] /\ request'[c].id = 0
  BY DEF NoRequest
<1>3. ASSUME NEW d \in Channels PROVE ~Import(d)
  <2> SUFFICES ASSUME Import(d) PROVE FALSE
    OBVIOUS
  <2>1. request' = [request EXCEPT ![d] = [id |-> asked + 1, since |-> posted[d]]]
    BY DEF Import
  <2>2. request'[c] = request[c] \/ request'[c] = [id |-> asked + 1, since |-> posted[d]]
    BY <1>1, <2>1 DEF TypeOK
  <2>3. request'[c].id = asked + 1
    BY <1>2, <2>2
  <2> QED
    BY <1>1, <1>2, <2>3, Numbers
<1>4. Ack
  <2> SUFFICES ASSUME ~Ack PROVE request' = request
    BY <1>2
  <2> QED
    BY <1>3 DEF Next, Worker, Post, Select, WriteMarker, Due, ConsumeFull, Spawn, Reap, DiscoveryFails, ReadSelection,
                SelectionFails, BeginWalk, FetchPage, FetchEmpty, StorePage, SaveMark, ChannelFails, Crash, db
<1>5. c = walk.chan /\ request[c].id = run.seen[c] /\ step = "ack"
  BY <1>1, <1>2, <1>4 DEF Ack, TypeOK
<1>6. request[c].since <= run.goal[c] /\ run.goal[c] <= mark[c]
  BY <1>1, <1>5 DEF RequestsKnown, WalkReaches
<1>7. request[c].since \in Nat /\ mark[c] \in Int /\ run.goal[c] \in Int
  BY <1>1, Numbers
<1>8. mark[c] # NoMark /\ 1..request[c].since \subseteq 1..mark[c]
  BY <1>6, <1>7 DEF NoMark
<1> QED
  BY <1>1, <1>8 DEF WatermarkCovered

\* Only the end of a run writes that it succeeded, and it is past all channels.
LEMMA SuccessReached ==
  ASSUME SweptInv, Next, step = "pick", step' = "off", sup'.job = "succeeded", NEW c \in Channels
  PROVE  run.goal[c] <= mark[c]
<1>1. TypeOK /\ DoneReached
  BY DEF SweptInv, BackfillInv
<1>2. ~Crash
  BY DEF Crash, NoSup
<1>3. Reap
  BY <1>2 DEF Next, Worker, Post, Import, Select, WriteMarker, Due, ConsumeFull, Spawn, DiscoveryFails, ReadSelection,
              SelectionFails, BeginWalk, FetchPage, FetchEmpty, StorePage, SaveMark, Ack, ChannelFails
<1>4. run.todo = {} /\ sup'.job = IF run.failed THEN "failed" ELSE "succeeded"
  BY <1>1, <1>3 DEF Reap, TypeOK
<1>5. walk.chan = NoChannel
  BY <1>1 DEF TypeOK
<1> QED
  BY <1>1, <1>4, <1>5, BackfillAssumption DEF DoneReached

\* An answered request was swept, and a run that reports success reached in every
\* channel it took what the channel held when the run began, for any channels,
\* requests, failures and restarts (import-ack, write_job).
THEOREM SweptIsTrue == Spec => SweptTrue
<1>1. SweptInv /\ [Next]_bvars =>
        [\A c \in Channels : request[c].id # 0 /\ request'[c] = NoRequest => 1..request[c].since \subseteq archived[c]]_bvars
  BY AnswersSwept
<1>2. SweptInv /\ [Next]_bvars =>
        [step = "pick" /\ step' = "off" /\ sup'.job = "succeeded" => \A c \in Channels : run.goal[c] <= mark[c]]_bvars
  BY SuccessReached
<1> QED
  BY <1>1, <1>2, SweptInvariant, PTL DEF Spec, SweptTrue, AnsweredIsSwept, SuccessIsComplete

-----------------------------------------------------------------------------
(* The room tree: lists in the order of a relation. *)

LEMMA LeastNumber == ASSUME NEW T \in SUBSET Nat, T # {} PROVE \E m \in T : \A y \in T : m <= y
<1> DEFINE R == {p \in Nat \X Nat : p[1] < p[2]}
<1>1. IsWellFoundedOn(R, Nat)
  BY NatLessThanWellFounded DEF OpToRel
<1>2. \A x, y \in Nat : <<y, x>> \in R <=> y < x
  OBVIOUS
<1> HIDE DEF R
<1>3. PICK x \in T : \A y \in T : ~(<<y, x>> \in R)
  BY <1>1, WFMin
<1>4. ASSUME NEW y \in T PROVE x <= y
  <2>1. x \in Nat /\ y \in Nat /\ ~(y < x)
    BY <1>2, <1>3
  <2> QED
    BY <2>1
<1> QED
  BY <1>4


\* What R says of S: of two elements one comes before the other.
StrictOrder(R, S) ==
  /\ \A s \in S : <<s, s>> \notin R
  /\ \A s, t, u \in S : <<s, t>> \in R /\ <<t, u>> \in R => <<s, u>> \in R
  /\ \A s, t \in S : s = t \/ <<s, t>> \in R \/ <<t, s>> \in R

\* f has the elements of S in this order.
Lists(f, n, S, R) ==
  /\ f \in [1..n -> S]
  /\ \A s \in S : \E k \in 1..n : f[k] = s
  /\ \A i, j \in 1..n : i < j => <<f[i], f[j]>> \in R

LEMMA ListsOnce ==
  ASSUME NEW S, NEW R, NEW n \in Nat, NEW f, StrictOrder(R, S), Lists(f, n, S, R)
  PROVE  /\ \A i, j \in 1..n : f[i] = f[j] => i = j
         /\ \A i, j \in 1..n : <<f[i], f[j]>> \in R => i < j
<1> SUFFICES ASSUME NEW i \in 1..n, NEW j \in 1..n
             PROVE  (f[i] = f[j] => i = j) /\ (<<f[i], f[j]>> \in R => i < j)
  OBVIOUS
<1>1. f[i] \in S /\ f[j] \in S /\ i \in Nat /\ j \in Nat
  BY DEF Lists
<1>2. CASE i < j
  <2>1. <<f[i], f[j]>> \in R
    BY <1>2 DEF Lists
  <2> QED
    BY <1>1, <1>2, <2>1 DEF StrictOrder
<1>3. CASE j < i
  <2>1. <<f[j], f[i]>> \in R
    BY <1>3 DEF Lists
  <2> QED
    BY <1>1, <1>3, <2>1 DEF StrictOrder
<1>4. CASE i = j
  BY <1>1, <1>4 DEF StrictOrder
<1> QED
  BY <1>1, <1>2, <1>3, <1>4

\* There is one such list, of every element once.
LEMMA ListsCount ==
  ASSUME NEW S, NEW R, NEW n \in Nat, NEW f, StrictOrder(R, S), Lists(f, n, S, R)
  PROVE  IsFiniteSet(S) /\ Cardinality(S) = n
<1>0. \A i, j \in 1..n : f[i] = f[j] => i = j
  BY ListsOnce
<1>1. f \in Bijection(1..n, S)
  <2>1. f \in [1..n -> S] /\ \A s \in S : \E k \in 1..n : f[k] = s
    BY DEF Lists
  <2>2. IsInjective(f)
    BY <1>0, <2>1 DEF IsInjective
  <2> QED
    BY <2>1, <2>2 DEF Bijection, Injection, Surjection
<1>2. ExistsBijection(1..n, S)
  BY <1>1 DEF ExistsBijection
<1> QED
  BY <1>2, FS_NatBijection, FS_CountingElements

LEMMA OneList ==
  ASSUME NEW S, NEW R, NEW n \in Nat, NEW f, NEW g, StrictOrder(R, S),
         Lists(f, n, S, R), Lists(g, n, S, R)
  PROVE  f = g
<1> DEFINE T == {k \in 1..n : f[k] # g[k]}
<1>0. /\ \A i, j \in 1..n : f[i] = f[j] => i = j
      /\ \A i, j \in 1..n : g[i] = g[j] => i = j
  <2>1. \A i, j \in 1..n : f[i] = f[j] => i = j
    BY ListsOnce
  <2>2. \A i, j \in 1..n : g[i] = g[j] => i = j
    BY ListsOnce
  <2> QED
    BY <2>1, <2>2
<1>1. CASE T = {}
  <2>1. \A k \in 1..n : f[k] = g[k]
    BY <1>1
  <2>2. f \in [1..n -> S] /\ g \in [1..n -> S]
    BY DEF Lists
  <2> QED
    BY <2>1, <2>2
<1>2. CASE T # {}
  <2>1. PICK k \in T : \A m \in T : k <= m
    <3>1. T \in SUBSET Nat
      OBVIOUS
    <3> HIDE DEF T
    <3> QED
      BY <1>2, <3>1, LeastNumber
  <2>2. k \in 1..n /\ f[k] # g[k] /\ f[k] \in S /\ g[k] \in S
    BY <2>1 DEF Lists
  <2>3. \A m \in 1..n : m < k => f[m] = g[m]
    BY <2>1
  <2>4. PICK i \in 1..n : f[i] = g[k]
    BY <2>2 DEF Lists
  <2>5. PICK j \in 1..n : g[j] = f[k]
    BY <2>2 DEF Lists
  <2>6. ~(i < k)
    <3>1. ASSUME i < k PROVE FALSE
      <4>1. g[i] = g[k]
        BY <2>3, <2>4, <3>1
      <4>2. i = k
        BY <1>0, <2>2, <4>1
      <4> QED
        BY <2>2, <3>1, <4>2
    <3> QED
      BY <3>1
  <2>7. ~(j < k)
    <3>1. ASSUME j < k PROVE FALSE
      <4>1. f[j] = f[k]
        BY <2>3, <2>5, <3>1
      <4>2. j = k
        BY <1>0, <2>2, <4>1
      <4> QED
        BY <2>2, <3>1, <4>2
    <3> QED
      BY <3>1
  <2>8. k < i /\ k < j
    BY <2>2, <2>4, <2>5, <2>6, <2>7
  <2>9. <<f[k], f[i]>> \in R /\ <<g[k], g[j]>> \in R
    BY <2>2, <2>8 DEF Lists
  <2>10. <<f[k], g[k]>> \in R /\ <<g[k], f[k]>> \in R
    BY <2>4, <2>5, <2>9
  <2> QED
    BY <2>2, <2>10 DEF StrictOrder
<1> QED
  BY <1>1, <1>2

\* Sorted is that list.
LEMMA SortedLists ==
  ASSUME NEW S, NEW R, IsFiniteSet(S), StrictOrder(R, S)
  PROVE  Cardinality(S) \in Nat /\ Lists(Sorted(S, R), Cardinality(S), S, R)
<1> DEFINE n == Cardinality(S)
           D(s) == {t \in S : <<t, s>> \in R}
           r == [s \in S |-> Cardinality(D(s))]
           f == Sorted(S, R)
<1>1. n \in Nat
  BY FS_CardinalityType
<1>2. ASSUME NEW s \in S PROVE IsFiniteSet(D(s)) /\ Cardinality(D(s)) \in Nat /\ Cardinality(D(s)) < n
  <2>1. D(s) \in SUBSET S /\ s \notin D(s)
    BY DEF StrictOrder
  <2>2. IsFiniteSet(D(s)) /\ Cardinality(D(s)) <= n /\ Cardinality(D(s)) # n
    BY <2>1, FS_Subset
  <2>3. Cardinality(D(s)) \in Nat
    BY <2>2, FS_CardinalityType
  <2> HIDE DEF n, D
  <2> QED
    BY <1>1, <2>2, <2>3
<1>3. ASSUME NEW s \in S, NEW t \in S, <<s, t>> \in R PROVE Cardinality(D(s)) < Cardinality(D(t))
  <2>1. D(s) \in SUBSET D(t) /\ s \in D(t) /\ s \notin D(s)
    BY <1>3 DEF StrictOrder
  <2>2. Cardinality(D(s)) <= Cardinality(D(t)) /\ Cardinality(D(s)) # Cardinality(D(t))
    <3>1. IsFiniteSet(D(t))
      BY <1>2
    <3> HIDE DEF D
    <3> QED
      BY <2>1, <3>1, FS_Subset
  <2> HIDE DEF D
  <2> QED
    BY <1>2, <2>2
<1> HIDE DEF D
<1>4. ASSUME NEW s \in S, NEW t \in S, Cardinality(D(s)) = Cardinality(D(t)) PROVE s = t
  <2>1. <<s, t>> \notin R /\ <<t, s>> \notin R
    BY <1>2, <1>3, <1>4
  <2> QED
    BY <2>1 DEF StrictOrder
<1>5. r \in Injection(S, 0..(n - 1))
  <2>1. r \in [S -> 0..(n - 1)]
    BY <1>1, <1>2
  <2>2. \A s, t \in S : r[s] = r[t] => s = t
    BY <1>4
  <2> QED
    BY <2>1, <2>2 DEF Injection, IsInjective
<1>6. IsFiniteSet(0..(n - 1)) /\ Cardinality(0..(n - 1)) = n
  <2> HIDE DEF n
  <2> QED
    BY <1>1, FS_Interval
<1>7. r \in Surjection(S, 0..(n - 1))
  <2> HIDE DEF r
  <2> QED
    BY <1>5, <1>6, FS_Injection
<1>8. ASSUME NEW k \in 1..n PROVE f[k] \in S /\ Cardinality(D(f[k])) = k - 1
  <2>1. k - 1 \in 0..(n - 1)
    BY <1>1
  <2>2. \E s \in S : r[s] = k - 1
    BY <1>7, <2>1 DEF Surjection
  <2>3. \E s \in S : Cardinality(D(s)) = k - 1
    BY <2>2
  <2>4. f[k] = CHOOSE s \in S : Cardinality(D(s)) = k - 1
    BY DEF Sorted, D
  <2> HIDE DEF f
  <2> QED
    BY <2>3, <2>4
<1>9. f = [k \in 1..n |-> f[k]]
  <2> DEFINE e(k) == CHOOSE s \in S : Cardinality(D(s)) = k - 1
  <2>1. f = [k \in 1..n |-> e(k)]
    BY DEF Sorted, D
  <2> HIDE DEF e, f
  <2> QED
    BY <2>1
<1> HIDE DEF f, n
<1>10. f \in [1..n -> S]
  BY <1>8, <1>9
<1>11. ASSUME NEW s \in S PROVE \E k \in 1..n : f[k] = s
  <2>1. Cardinality(D(s)) + 1 \in 1..n
    BY <1>1, <1>2
  <2>2. Cardinality(D(f[Cardinality(D(s)) + 1])) = Cardinality(D(s)) /\ f[Cardinality(D(s)) + 1] \in S
    BY <1>2, <1>8, <2>1
  <2>3. f[Cardinality(D(s)) + 1] = s
    BY <1>4, <2>2
  <2> QED
    BY <2>1, <2>3
<1>12. ASSUME NEW i \in 1..n, NEW j \in 1..n, i < j PROVE <<f[i], f[j]>> \in R
  <2>1. Cardinality(D(f[i])) = i - 1 /\ Cardinality(D(f[j])) = j - 1 /\ f[i] \in S /\ f[j] \in S
    BY <1>8
  <2>2. f[i] # f[j]
    BY <1>12, <2>1
  <2>3. <<f[j], f[i]>> \notin R
    <3>1. ~(Cardinality(D(f[j])) < Cardinality(D(f[i])))
      BY <1>12, <2>1
    <3> QED
      BY <1>3, <2>1, <3>1
  <2> QED
    BY <2>1, <2>2, <2>3 DEF StrictOrder
<1> QED
  BY <1>1, <1>10, <1>11, <1>12 DEF Lists, n, f

\* A list in this order is the sorted one.
LEMMA ListIsSorted ==
  ASSUME NEW S, NEW R, NEW n \in Nat, NEW f, StrictOrder(R, S), Lists(f, n, S, R)
  PROVE  f = Sorted(S, R)
<1>1. IsFiniteSet(S) /\ Cardinality(S) = n
  BY ListsCount
<1>2. Lists(Sorted(S, R), n, S, R)
  BY <1>1, SortedLists
<1> DEFINE g == Sorted(S, R)
<1> HIDE DEF g
<1>3. Lists(g, n, S, R)
  BY <1>2 DEF g
<1>4. f = g
  BY <1>3, OneList
<1> QED
  BY <1>4 DEF g

\* Places in their order.
Below(P) == {p \in P \X P : p[1] < p[2]}
LEMMA PlacesInOrder ==
  ASSUME NEW P, P \subseteq Nat, IsFiniteSet(P), NEW list
  PROVE  /\ StrictOrder(Below(P), P)
         /\ Cardinality(P) \in Nat /\ Lists(Sorted(P, Below(P)), Cardinality(P), P, Below(P))
         /\ \A i, j \in 1..Cardinality(P) :
              i < j => Sorted(P, Below(P))[i] < Sorted(P, Below(P))[j]
         /\ Chosen(list, P) = [k \in 1..Cardinality(P) |-> list[Sorted(P, Below(P))[k]]]
<1>1. StrictOrder(Below(P), P)
  <2>1. \A s, t \in P : <<s, t>> \in Below(P) <=> s < t
    BY DEF Below
  <2>2. \A s \in P : s \in Nat
    OBVIOUS
  <2> QED
    BY <2>1, <2>2 DEF StrictOrder
<1>2. Cardinality(P) \in Nat /\ Lists(Sorted(P, Below(P)), Cardinality(P), P, Below(P))
  BY <1>1, SortedLists
<1> DEFINE g == Sorted(P, Below(P))
<1>3. DOMAIN g = 1..Cardinality(P)
  BY DEF Sorted
<1>4. Chosen(list, P) = [k \in DOMAIN g |-> list[g[k]]]
  BY DEF Chosen, Below
<1> HIDE DEF g
<1>5. Chosen(list, P) = [k \in 1..Cardinality(P) |-> list[g[k]]]
  BY <1>3, <1>4
<1>6. \A i, j \in 1..Cardinality(P) : i < j => g[i] < g[j]
  BY <1>2 DEF Lists, Below, g
<1> QED
  BY <1>1, <1>2, <1>5, <1>6 DEF g

-----------------------------------------------------------------------------
(* The order of the servers. *)

\* What hangs together is of one server.
OneServer == \A j, k \in DOMAIN rows : rows[j].id = rows[k].parent => rows[j].server = rows[k].server
TreeInv ==
  /\ named \subseteq Servers /\ serverName \in [Servers -> FoldedNames]
  /\ rows \in Seq(ChannelRow) /\ \A j, k \in DOMAIN rows : rows[j].id = rows[k].id => j = k
  /\ order \in Seq(Servers) /\ \A i, j \in DOMAIN order : order[i] = order[j] => i = j
  /\ OneServer

LEMMA TheRank ==
  ASSUME TreeInv, NEW s, Ranked(s)
  PROVE  Rank(s) \in Nat /\ Rank(s) \in DOMAIN order /\ order[Rank(s)] = s
<1>1. \E i \in DOMAIN order : order[i] = s
  BY DEF Ranked, ToSet
<1>2. Rank(s) \in DOMAIN order /\ order[Rank(s)] = s
  BY <1>1 DEF Rank
<1>3. DOMAIN order \subseteq Nat
  BY DEF TreeInv
<1> QED
  BY <1>2, <1>3

LEMMA WeakOrder ==
  ASSUME TreeInv, NEW s \in Servers, NEW t \in Servers, NEW u \in Servers
  PROVE  /\ ~ByPreference(s, s)
         /\ ByPreference(s, t) /\ ByPreference(t, u) => ByPreference(s, u)
         /\ ~ByPreference(s, t) /\ ~ByPreference(t, u) => ~ByPreference(s, u)
<1>1. {serverName[s], serverName[t], serverName[u]} \subseteq Nat
  BY RoomTreeAssumption DEF TreeInv
<1>2. /\ Ranked(s) => Rank(s) \in Nat
      /\ Ranked(t) => Rank(t) \in Nat
      /\ Ranked(u) => Rank(u) \in Nat
  BY TheRank
<1> QED
  BY <1>1, <1>2 DEF ByPreference

\* A tie is broken by the place.
LEMMA TieBreak ==
  ASSUME TreeInv, NEW X, X \subseteq Nat, NEW a, \A i \in X : a[i] \in Servers,
         NEW R, \A i, j \in X : <<i, j>> \in R <=> (\/ ByPreference(a[i], a[j])
                                                    \/ (~ByPreference(a[j], a[i]) /\ i < j))
  PROVE  StrictOrder(R, X)
<1>1. ASSUME NEW i \in X PROVE <<i, i>> \notin R
  <2>1. ~ByPreference(a[i], a[i])
    BY WeakOrder
  <2> QED
    BY <2>1
<1>2. ASSUME NEW i \in X, NEW j \in X PROVE i = j \/ <<i, j>> \in R \/ <<j, i>> \in R
  OBVIOUS
<1>3. ASSUME NEW i \in X, NEW j \in X, NEW k \in X, <<i, j>> \in R, <<j, k>> \in R PROVE <<i, k>> \in R
  <2>1. a[i] \in Servers /\ a[j] \in Servers /\ a[k] \in Servers /\ i \in Nat /\ j \in Nat /\ k \in Nat
    OBVIOUS
  <2>2. /\ ByPreference(a[i], a[j]) /\ ByPreference(a[j], a[k]) => ByPreference(a[i], a[k])
        /\ ~ByPreference(a[k], a[j]) /\ ~ByPreference(a[j], a[i]) => ~ByPreference(a[k], a[i])
    BY <2>1, WeakOrder
  <2>3. /\ ByPreference(a[i], a[j]) /\ ~ByPreference(a[k], a[j]) => ByPreference(a[i], a[k])
        /\ ~ByPreference(a[j], a[i]) /\ ByPreference(a[j], a[k]) => ByPreference(a[i], a[k])
    BY <2>1, WeakOrder
  <2>4. /\ \/ ByPreference(a[i], a[j])
           \/ (~ByPreference(a[j], a[i]) /\ i < j)
        /\ \/ ByPreference(a[j], a[k])
           \/ (~ByPreference(a[k], a[j]) /\ j < k)
    BY <1>3
  <2>5. i < j /\ j < k => i < k
    BY <2>1
  <2> QED
    BY <2>2, <2>3, <2>4, <2>5
<1> QED
  BY <1>1, <1>2, <1>3 DEF StrictOrder

\* The order of the list that the server sends.
OrderOfServers ==
  {p \in named \X named : ByPreference(p[1], p[2]) \/ (~ByPreference(p[2], p[1]) /\ p[1] < p[2])}

LEMMA TheServerList ==
  ASSUME TreeInv
  PROVE  /\ StrictOrder(OrderOfServers, named)
         /\ Cardinality(named) \in Nat
         /\ Lists(ServerList, Cardinality(named), named, OrderOfServers)
<1> DEFINE a == [s \in named |-> s]
           R == OrderOfServers
<1>1. named \subseteq Nat /\ IsFiniteSet(named) /\ \A s \in named : a[s] = s /\ a[s] \in Servers
  BY RoomTreeAssumption, FS_Subset DEF TreeInv
<1>2. \A i, j \in named : <<i, j>> \in R <=> (\/ ByPreference(a[i], a[j])
                                              \/ (~ByPreference(a[j], a[i]) /\ i < j))
  BY DEF OrderOfServers
<1> HIDE DEF a, R
<1>3. StrictOrder(R, named)
  BY <1>1, <1>2, TieBreak
<1>4. Cardinality(named) \in Nat /\ Lists(Sorted(named, R), Cardinality(named), named, R)
  BY <1>1, <1>3, SortedLists
<1> QED
  BY <1>3, <1>4 DEF ServerList, OrderOfServers, R

\* The servers inferred from channels: none is named, each is there once.
LEMMA TheInferred ==
  ASSUME TreeInv
  PROVE  \E m \in Nat : /\ Inferred \in [1..m -> Servers \ named]
                        /\ \A i, j \in 1..m : Inferred[i] = Inferred[j] => i = j
<1> DEFINE P == {k \in DOMAIN rows : Infers(k) /\ FirstOfServer(k)}
           list == [k \in DOMAIN rows |-> rows[k].server]
           m == Cardinality(P)
           g == Sorted(P, Below(P))
<1>1. P \subseteq Nat /\ IsFiniteSet(P)
  <2>1. DOMAIN rows = 1..Len(rows) /\ Len(rows) \in Nat
    BY DEF TreeInv
  <2>2. IsFiniteSet(1..Len(rows))
    BY <2>1, FS_Interval
  <2>3. P \in SUBSET (1..Len(rows))
    BY <2>1
  <2>4. P \subseteq Nat
    BY <2>1, <2>3
  <2> HIDE DEF P
  <2> QED
    BY <2>2, <2>3, <2>4, FS_Subset
<1>2. \A k \in P : list[k] \in Servers \ named
  <2> TAKE k \in P
  <2>1. rows[k] \in ChannelRow
    BY DEF TreeInv
  <2>2. rows[k].server \in Servers
    BY <2>1 DEF ChannelRow
  <2> QED
    BY <2>2 DEF Infers
<1>3. \A i, j \in P : i < j => list[i] # list[j]
  <2> TAKE i, j \in P
  <2> HAVE i < j
  <2>1. i \in 1..(j - 1)
    BY DEF TreeInv
  <2> QED
    BY <2>1 DEF FirstOfServer, Infers
<1>4. Inferred = Chosen(list, P)
  BY DEF Inferred
<1> HIDE DEF P, list
<1>5. /\ m \in Nat /\ Lists(g, m, P, Below(P))
      /\ \A i, j \in 1..m : i < j => g[i] < g[j]
      /\ Inferred = [k \in 1..m |-> list[g[k]]]
  BY <1>1, <1>4, PlacesInOrder
<1> HIDE DEF m, g
<1>6. g \in [1..m -> P]
  BY <1>5 DEF Lists
<1>7. Inferred \in [1..m -> Servers \ named]
  BY <1>2, <1>5, <1>6
<1>8. ASSUME NEW i \in 1..m, NEW j \in 1..m, Inferred[i] = Inferred[j] PROVE i = j
  <2>1. list[g[i]] = list[g[j]] /\ g[i] \in P /\ g[j] \in P
    BY <1>5, <1>6, <1>8
  <2>2. ~(i < j) /\ ~(j < i)
    BY <1>3, <1>5, <2>1
  <2> QED
    BY <1>5, <2>2
<1> QED
  BY <1>5, <1>7, <1>8

\* The list before it is sorted again: the server's own, then the inferred ones.
LEMMA BeforeSorting ==
  ASSUME TreeInv
  PROVE  LET list == ServerList \o Inferred
             n == Cardinality(named)
         IN  /\ list \in Seq(Servers)
             /\ \A i, j \in DOMAIN list : list[i] = list[j] => i = j
             /\ 1..n \subseteq DOMAIN list
             /\ \A i \in DOMAIN list : list[i] \in named <=> i \in 1..n
             /\ \A i \in 1..n : list[i] = ServerList[i]
<1> DEFINE n == Cardinality(named)
           list == ServerList \o Inferred
<1>1. /\ n \in Nat /\ ServerList \in [1..n -> named]
      /\ \A i, j \in 1..n : ServerList[i] = ServerList[j] => i = j
  <2>1. StrictOrder(OrderOfServers, named) /\ n \in Nat /\ Lists(ServerList, n, named, OrderOfServers)
    BY TheServerList
  <2>2. \A i, j \in 1..n : ServerList[i] = ServerList[j] => i = j
    <3> DEFINE f == ServerList
    <3> HIDE DEF n, f
    <3>1. Lists(f, n, named, OrderOfServers)
      BY <2>1 DEF f
    <3>2. \A i, j \in 1..n : f[i] = f[j] => i = j
      BY <2>1, <3>1, ListsOnce
    <3> QED
      BY <3>2 DEF f
  <2> QED
    BY <2>1, <2>2 DEF Lists
<1>2. PICK m \in Nat : /\ Inferred \in [1..m -> Servers \ named]
                       /\ \A i, j \in 1..m : Inferred[i] = Inferred[j] => i = j
  BY TheInferred
<1>3. named \subseteq Servers
  BY DEF TreeInv
<1> DEFINE s == ServerList
           t == Inferred
<1> HIDE DEF n
<1>4. s \in Seq(Servers) /\ Len(s) = n
  BY <1>1, <1>3
<1>5. t \in Seq(Servers) /\ Len(t) = m
  BY <1>2
<1> HIDE DEF s, t
<1>6. PICK u : u = s \o t
  OBVIOUS
<1>7. u \in Seq(Servers) /\ Len(u) = n + m
  <2>1. s \o t \in Seq(Servers)
    BY <1>4, <1>5
  <2>2. Len(s \o t) = Len(s) + Len(t)
    BY <1>4, <1>5
  <2> QED
    BY <1>4, <1>5, <1>6, <2>1, <2>2
<1>8. /\ DOMAIN u = 1..(n + m)
      /\ \A i \in 1..(n + m) : u[i] = IF i <= n THEN s[i] ELSE t[i - n]
  BY <1>4, <1>5, <1>6, <1>7
<1>9. \A i \in 1..n : s[i] \in named
  BY <1>1 DEF s
<1>10. \A i \in 1..(n + m) : ~(i <= n) => i - n \in 1..m /\ t[i - n] \notin named
  <2> TAKE i \in 1..(n + m)
  <2> HAVE ~(i <= n)
  <2>1. i - n \in 1..m
    BY <1>1, <1>2
  <2> QED
    BY <1>2, <2>1 DEF t
<1>11. \A i \in 1..(n + m) : u[i] \in named <=> i \in 1..n
  BY <1>1, <1>8, <1>9, <1>10
<1>12. ASSUME NEW i \in 1..(n + m), NEW j \in 1..(n + m), u[i] = u[j] PROVE i = j
  <2>1. CASE i <= n
    <3>1. i \in 1..n /\ j \in 1..n
      BY <1>1, <1>11, <1>12, <2>1
    <3>2. s[i] = s[j]
      BY <1>1, <1>8, <1>12, <3>1
    <3> QED
      BY <1>1, <3>1, <3>2 DEF s
  <2>2. CASE ~(i <= n)
    <3>1. ~(j <= n)
      BY <1>1, <1>2, <1>11, <1>12, <2>2
    <3>2. t[i - n] = t[j - n] /\ i - n \in 1..m /\ j - n \in 1..m
      BY <1>8, <1>10, <1>12, <2>2, <3>1
    <3>3. i - n = j - n
      BY <1>2, <3>2 DEF t
    <3> QED
      BY <1>1, <1>2, <3>3
  <2> QED
    BY <2>1, <2>2
<1>13. 1..n \subseteq 1..(n + m)
  BY <1>1, <1>2
<1>14. \A i \in 1..n : u[i] = s[i]
  BY <1>1, <1>8, <1>13
<1>15. list = u
  BY <1>6 DEF s, t
<1> HIDE DEF list
<1>16. /\ list \in Seq(Servers)
       /\ \A i, j \in DOMAIN list : list[i] = list[j] => i = j
       /\ 1..n \subseteq DOMAIN list
       /\ \A i \in DOMAIN list : list[i] \in named <=> i \in 1..n
       /\ \A i \in 1..n : list[i] = ServerList[i]
  BY <1>7, <1>8, <1>11, <1>12, <1>13, <1>14, <1>15 DEF s
<1> QED
  BY <1>16 DEF list, n

\* The page's list is a rearrangement of that list, by preference, then by place.
Unsorted == ServerList \o Inferred
LEMMA ThePageList ==
  ASSUME TreeInv
  PROVE  \E place \in [1..Len(Unsorted) -> 1..Len(Unsorted)] :
           /\ \A i \in 1..Len(Unsorted) : \E k \in 1..Len(Unsorted) : place[k] = i
           /\ \A i, j \in 1..Len(Unsorted) : place[i] = place[j] => i = j
           /\ PageList = [k \in 1..Len(Unsorted) |-> Unsorted[place[k]]]
           /\ \A i, j \in 1..Len(Unsorted) : i < j =>
                \/ ByPreference(Unsorted[place[i]], Unsorted[place[j]])
                \/ ~ByPreference(Unsorted[place[j]], Unsorted[place[i]]) /\ place[i] < place[j]
<1> DEFINE list == Unsorted
           X == DOMAIN list
           n == Len(list)
           before == {p \in X \X X : \/ ByPreference(list[p[1]], list[p[2]])
                                     \/ (~ByPreference(list[p[2]], list[p[1]]) /\ p[1] < p[2])}
           place == Sorted(X, before)
<1>1. list \in Seq(Servers)
  BY BeforeSorting DEF Unsorted
<1>2. X = 1..n /\ n \in Nat /\ X \subseteq Nat /\ \A i \in X : list[i] \in Servers
  <2> HIDE DEF list
  <2> QED
    BY <1>1
<1>3. IsFiniteSet(X) /\ Cardinality(X) = n
  <2> HIDE DEF X, n
  <2>1. IsFiniteSet(1..n) /\ Cardinality(1..n) = n
    BY <1>2, FS_Interval
  <2> QED
    BY <1>2, <2>1
<1>4. PageList = [k \in X |-> list[place[k]]]
  BY DEF PageList, PageBefore, Unsorted
<1>5. \A i, j \in X : <<i, j>> \in before <=> (\/ ByPreference(list[i], list[j])
                                               \/ (~ByPreference(list[j], list[i]) /\ i < j))
  OBVIOUS
<1> HIDE DEF list, X, n, before
<1>6. StrictOrder(before, X)
  BY <1>2, <1>5, TieBreak
<1>7. Lists(place, n, X, before)
  BY <1>3, <1>6, SortedLists
<1> HIDE DEF place
<1>8. \A i, j \in 1..n : place[i] = place[j] => i = j
  BY <1>2, <1>6, <1>7, ListsOnce
<1>9. place \in [1..n -> 1..n] /\ \A i \in 1..n : \E k \in 1..n : place[k] = i
  BY <1>2, <1>7 DEF Lists
<1>10. PageList = [k \in 1..n |-> list[place[k]]]
  BY <1>2, <1>4
<1>11. ASSUME NEW i \in 1..n, NEW j \in 1..n, i < j
       PROVE  \/ ByPreference(list[place[i]], list[place[j]])
              \/ ~ByPreference(list[place[j]], list[place[i]]) /\ place[i] < place[j]
  <2>1. <<place[i], place[j]>> \in before /\ place[i] \in X /\ place[j] \in X
    BY <1>7, <1>11 DEF Lists
  <2> QED
    BY <1>5, <2>1
<1> QED
  BY <1>8, <1>9, <1>10, <1>11 DEF list, n

LEMMA PageListOnce ==
  ASSUME TreeInv
  PROVE  PageList \in Seq(Servers) /\ \A i, j \in DOMAIN PageList : PageList[i] = PageList[j] => i = j
<1> DEFINE n == Len(Unsorted)
<1>1. /\ Unsorted \in Seq(Servers)
      /\ \A i, j \in DOMAIN Unsorted : Unsorted[i] = Unsorted[j] => i = j
  BY BeforeSorting DEF Unsorted
<1>2. PICK place \in [1..n -> 1..n] :
        /\ \A i, j \in 1..n : place[i] = place[j] => i = j
        /\ PageList = [k \in 1..n |-> Unsorted[place[k]]]
  BY ThePageList
<1>3. DOMAIN Unsorted = 1..n /\ n \in Nat /\ \A i \in 1..n : Unsorted[i] \in Servers
  BY <1>1
<1> HIDE DEF n
<1>4. DOMAIN PageList = 1..n /\ \A i \in 1..n : PageList[i] = Unsorted[place[i]] /\ place[i] \in 1..n
  BY <1>2
<1>5. PageList \in [1..n -> Servers]
  BY <1>2, <1>3, <1>4
<1>6. PageList \in Seq(Servers)
  BY <1>3, <1>5
<1>7. \A i, j \in 1..n : PageList[i] = PageList[j] => i = j
  BY <1>1, <1>2, <1>3, <1>4
<1> QED
  BY <1>4, <1>6, <1>7

\* What OnlyNamed leaves of a list without repetitions.
LEMMA OnlyNamedLists ==
  ASSUME TreeInv, NEW list \in Seq(Servers), \A i, j \in DOMAIN list : list[i] = list[j] => i = j
  PROVE  \E m \in Nat : \E g \in [1..m -> DOMAIN list] :
           /\ OnlyNamed(list) = [k \in 1..m |-> list[g[k]]]
           /\ \A i, j \in 1..m : i < j => g[i] < g[j]
           /\ \A k \in 1..m : list[g[k]] \in named
           /\ \A i \in DOMAIN list : list[i] \in named => \E k \in 1..m : g[k] = i
<1> DEFINE P == {k \in DOMAIN list : list[k] \in named}
           g == Sorted(P, Below(P))
           m == Cardinality(P)
<1>1. P \subseteq Nat /\ IsFiniteSet(P)
  <2>1. DOMAIN list = 1..Len(list) /\ Len(list) \in Nat
    OBVIOUS
  <2>2. IsFiniteSet(1..Len(list))
    BY <2>1, FS_Interval
  <2>3. P \in SUBSET (1..Len(list))
    BY <2>1
  <2>4. P \subseteq Nat
    BY <2>1, <2>3
  <2> HIDE DEF P
  <2> QED
    BY <2>2, <2>3, <2>4, FS_Subset
<1>2. OnlyNamed(list) = Chosen(list, P)
  BY DEF OnlyNamed
<1>3. P \subseteq DOMAIN list /\ \A k \in DOMAIN list : k \in P <=> list[k] \in named
  OBVIOUS
<1> HIDE DEF P
<1>4. /\ m \in Nat /\ Lists(g, m, P, Below(P))
      /\ \A i, j \in 1..m : i < j => g[i] < g[j]
      /\ OnlyNamed(list) = [k \in 1..m |-> list[g[k]]]
  <2>1. /\ m \in Nat /\ Lists(g, m, P, Below(P))
        /\ \A i, j \in 1..m : i < j => g[i] < g[j]
    BY <1>1, PlacesInOrder
  <2>2. Chosen(list, P) = [k \in 1..m |-> list[g[k]]]
    BY <1>1, PlacesInOrder
  <2> QED
    BY <1>2, <2>1, <2>2
<1> HIDE DEF m, g
<1>5. g \in [1..m -> P] /\ \A i \in P : \E k \in 1..m : g[k] = i
  BY <1>4 DEF Lists
<1>6. g \in [1..m -> DOMAIN list] /\ \A k \in 1..m : list[g[k]] \in named
  BY <1>3, <1>5
<1>7. \A i \in DOMAIN list : list[i] \in named => \E k \in 1..m : g[k] = i
  BY <1>3, <1>5
<1> QED
  BY <1>4, <1>6, <1>7

\* The page's list without the inferred servers is the server's list.
LEMMA OrderKept == ASSUME TreeInv PROVE SameOrder
<1> DEFINE n == Len(Unsorted)
           z == Cardinality(named)
           R == OrderOfServers
<1>1. /\ Unsorted \in Seq(Servers)
      /\ \A i, j \in DOMAIN Unsorted : Unsorted[i] = Unsorted[j] => i = j
      /\ 1..z \subseteq DOMAIN Unsorted
      /\ \A i \in DOMAIN Unsorted : Unsorted[i] \in named <=> i \in 1..z
      /\ \A i \in 1..z : Unsorted[i] = ServerList[i]
  BY BeforeSorting DEF Unsorted
<1>2. PICK place \in [1..n -> 1..n] :
        /\ \A i \in 1..n : \E k \in 1..n : place[k] = i
        /\ \A i, j \in 1..n : place[i] = place[j] => i = j
        /\ PageList = [k \in 1..n |-> Unsorted[place[k]]]
        /\ \A i, j \in 1..n : i < j =>
             \/ ByPreference(Unsorted[place[i]], Unsorted[place[j]])
             \/ ~ByPreference(Unsorted[place[j]], Unsorted[place[i]]) /\ place[i] < place[j]
  BY ThePageList
<1>3. PageList \in Seq(Servers) /\ \A i, j \in DOMAIN PageList : PageList[i] = PageList[j] => i = j
  BY PageListOnce
<1>4. PICK m \in Nat : \E g \in [1..m -> DOMAIN PageList] :
        /\ OnlyNamed(PageList) = [k \in 1..m |-> PageList[g[k]]]
        /\ \A i, j \in 1..m : i < j => g[i] < g[j]
        /\ \A k \in 1..m : PageList[g[k]] \in named
        /\ \A i \in DOMAIN PageList : PageList[i] \in named => \E k \in 1..m : g[k] = i
  BY <1>3, OnlyNamedLists
<1>5. PICK g \in [1..m -> DOMAIN PageList] :
        /\ OnlyNamed(PageList) = [k \in 1..m |-> PageList[g[k]]]
        /\ \A i, j \in 1..m : i < j => g[i] < g[j]
        /\ \A k \in 1..m : PageList[g[k]] \in named
        /\ \A i \in DOMAIN PageList : PageList[i] \in named => \E k \in 1..m : g[k] = i
  BY <1>4
<1>6. StrictOrder(R, named) /\ z \in Nat /\ Lists(ServerList, z, named, R)
  BY TheServerList
<1> DEFINE c == OnlyNamed(PageList)
<1>7. DOMAIN Unsorted = 1..n /\ n \in Nat
  BY <1>1
<1> HIDE DEF n, z
<1>8. DOMAIN PageList = 1..n /\ \A k \in 1..n : PageList[k] = Unsorted[place[k]] /\ place[k] \in 1..n
  BY <1>2
<1>9. c = [k \in 1..m |-> PageList[g[k]]]
  BY <1>5
<1> HIDE DEF c, R
<1>10. \A k \in 1..m : g[k] \in 1..n /\ c[k] = Unsorted[place[g[k]]] /\ place[g[k]] \in 1..z /\ c[k] \in named
  <2> TAKE k \in 1..m
  <2>1. g[k] \in 1..n /\ c[k] = PageList[g[k]] /\ PageList[g[k]] \in named
    BY <1>5, <1>8, <1>9
  <2>2. PageList[g[k]] = Unsorted[place[g[k]]] /\ place[g[k]] \in 1..n
    BY <1>8, <2>1
  <2> QED
    BY <1>1, <1>7, <2>1, <2>2
<1>11. c \in [1..m -> named]
  BY <1>9, <1>10
<1>12. ASSUME NEW s \in named PROVE \E k \in 1..m : c[k] = s
  <2>1. PICK i \in 1..z : ServerList[i] = s
    BY <1>6 DEF Lists
  <2>2. i \in 1..n /\ Unsorted[i] = s
    BY <1>1, <1>7, <2>1
  <2>3. PICK j \in 1..n : place[j] = i
    BY <1>2, <2>2
  <2>4. PageList[j] = s
    BY <1>8, <2>2, <2>3
  <2>5. PICK k \in 1..m : g[k] = j
    BY <1>5, <1>8, <2>3, <2>4
  <2> QED
    BY <1>9, <2>4, <2>5
<1>13. ASSUME NEW i \in 1..m, NEW j \in 1..m, i < j PROVE <<c[i], c[j]>> \in R
  <2>1. g[i] < g[j] /\ g[i] \in 1..n /\ g[j] \in 1..n
    BY <1>5, <1>10, <1>13
  <2>2. \/ ByPreference(c[i], c[j])
        \/ ~ByPreference(c[j], c[i]) /\ place[g[i]] < place[g[j]]
    <3>1. \/ ByPreference(Unsorted[place[g[i]]], Unsorted[place[g[j]]])
          \/ ~ByPreference(Unsorted[place[g[j]]], Unsorted[place[g[i]]]) /\ place[g[i]] < place[g[j]]
      BY <1>2, <2>1
    <3>2. c[i] = Unsorted[place[g[i]]] /\ c[j] = Unsorted[place[g[j]]]
      BY <1>10
    <3> QED
      BY <3>1, <3>2
  <2>3. c[i] \in named /\ c[j] \in named /\ place[g[i]] \in 1..z /\ place[g[j]] \in 1..z
    BY <1>10
  <2>4. CASE ByPreference(c[i], c[j])
    BY <2>3, <2>4 DEF R, OrderOfServers
  <2>5. CASE place[g[i]] < place[g[j]]
    <3>1. c[i] = ServerList[place[g[i]]] /\ c[j] = ServerList[place[g[j]]]
      BY <1>1, <1>10, <2>3
    <3>2. <<ServerList[place[g[i]]], ServerList[place[g[j]]]>> \in R
      BY <1>6, <2>3, <2>5 DEF Lists
    <3> QED
      BY <3>1, <3>2
  <2> QED
    BY <2>2, <2>4, <2>5
<1>14. Lists(c, m, named, R)
  BY <1>11, <1>12, <1>13 DEF Lists
<1>15. c = Sorted(named, R)
  BY <1>6, <1>14, ListIsSorted
<1>16. ServerList = Sorted(named, R)
  BY DEF ServerList, R, OrderOfServers
<1> QED
  BY <1>15, <1>16 DEF SameOrder, c

-----------------------------------------------------------------------------
(* The passes. *)

ChannelsOf(k) ==
  [servers    |-> named \cup {rows[i].server : i \in {j \in 1..k : rows[j].kind # "thread"}},
   categories |-> {rows[i] : i \in {j \in 1..k : rows[j].kind = "category"}},
   rooms      |-> {NewRoom(rows[i]) : i \in {j \in 1..k : rows[j].kind = "room"}}]

LEMMA RowFacts ==
  ASSUME TreeInv
  PROVE  /\ Len(rows) \in Nat /\ DOMAIN rows = 1..Len(rows)
         /\ \A i \in 1..Len(rows) :
              /\ rows[i].kind = "category" => rows[i].id \in Categories /\ rows[i].parent = Nil
              /\ rows[i].kind = "room" => rows[i].id \in Rooms /\ rows[i].parent \in Categories \cup {Nil}
              /\ rows[i].kind = "thread" => rows[i].id \in Threads /\ rows[i].parent \in Rooms \cup {Nil}
              /\ rows[i].kind \in {"category", "room", "thread"} /\ rows[i].server \in Servers
<1>1. Len(rows) \in Nat /\ DOMAIN rows = 1..Len(rows) /\ \A i \in 1..Len(rows) : rows[i] \in ChannelRow
  BY DEF TreeInv
<1>2. \A row \in ChannelRow :
        /\ row.kind = "category" => row.id \in Categories /\ row.parent = Nil
        /\ row.kind = "room" => row.id \in Rooms /\ row.parent \in Categories \cup {Nil}
        /\ row.kind = "thread" => row.id \in Threads /\ row.parent \in Rooms \cup {Nil}
        /\ row.kind \in {"category", "room", "thread"} /\ row.server \in Servers
  BY DEF ChannelRow
<1> QED
  BY <1>1, <1>2

LEMMA ChannelStep ==
  ASSUME TreeInv, NEW k \in 1..Len(rows)
  PROVE  ChannelsOf(k) = WithChannel(ChannelsOf(k - 1), rows[k])
<1> DEFINE S(m) == {rows[i].server : i \in {j \in 1..m : rows[j].kind # "thread"}}
           C(m) == {rows[i] : i \in {j \in 1..m : rows[j].kind = "category"}}
           R(m) == {NewRoom(rows[i]) : i \in {j \in 1..m : rows[j].kind = "room"}}
<1>1. k \in Nat /\ 1..k = 1..(k - 1) \cup {k}
  BY RowFacts
<1>2. S(k) = S(k - 1) \cup (IF rows[k].kind # "thread" THEN {rows[k].server} ELSE {})
  BY <1>1
<1>3. C(k) = C(k - 1) \cup (IF rows[k].kind = "category" THEN {rows[k]} ELSE {})
  BY <1>1
<1>4. R(k) = R(k - 1) \cup (IF rows[k].kind = "room" THEN {NewRoom(rows[k])} ELSE {})
  BY <1>1 DEF NewRoom
<1>5. \A m : ChannelsOf(m) = [servers |-> named \cup S(m), categories |-> C(m), rooms |-> R(m)]
  BY DEF ChannelsOf
<1> HIDE DEF S, C, R
<1> QED
  BY <1>2, <1>3, <1>4, <1>5 DEF WithChannel

LEMMA FirstPassIs == ASSUME TreeInv PROVE FirstPass[Len(rows)] = ChannelsOf(Len(rows))
<1> DEFINE n == Len(rows)
           After(f, k) == IF k = 0 THEN NoTree ELSE WithChannel(f[k - 1], rows[k])
           Is(f) == f = [k \in 0..n |-> After(f, k)]
           h == [k \in 0..n |-> ChannelsOf(k)]
<1>1. n \in Nat
  BY RowFacts
<1>2. ChannelsOf(0) = NoTree
  <2>1. 1..0 = {}
    OBVIOUS
  <2> QED
    BY <2>1 DEF ChannelsOf, NoTree
<1>3. \A k \in 0..n : ChannelsOf(k) = After(h, k)
  <2> TAKE k \in 0..n
  <2>1. CASE k = 0
    BY <1>2, <2>1
  <2>2. CASE k # 0
    <3>1. k \in 1..n /\ k - 1 \in 0..n
      BY <1>1, <2>2
    <3>2. ChannelsOf(k) = WithChannel(ChannelsOf(k - 1), rows[k])
      BY <3>1, ChannelStep
    <3>3. h[k - 1] = ChannelsOf(k - 1)
      BY <3>1
    <3> QED
      BY <2>2, <3>2, <3>3
  <2> QED
    BY <2>1, <2>2
<1>4. Is(h)
  BY <1>3
<1>5. FirstPass = CHOOSE f : Is(f)
  BY DEF FirstPass
<1>6. Is(FirstPass)
  <2> HIDE DEF Is, h
  <2> QED
    BY <1>4, <1>5
<1>7. \A k \in 0..n : FirstPass[k] = After(FirstPass, k)
  <2> DEFINE g == FirstPass
             e(k) == After(g, k)
  <2>1. g = [k \in 0..n |-> e(k)]
    BY <1>6
  <2> HIDE DEF g, e
  <2>2. \A k \in 0..n : g[k] = e(k)
    BY <2>1
  <2> QED
    BY <2>2 DEF g, e
<1> DEFINE T == {k \in 0..n : FirstPass[k] # ChannelsOf(k)}
<1>8. CASE T = {}
  BY <1>1, <1>8
<1>9. CASE T # {}
  <2>1. PICK k \in T : \A m \in T : k <= m
    <3>1. T \in SUBSET Nat
      OBVIOUS
    <3> HIDE DEF T
    <3> QED
      BY <1>9, <3>1, LeastNumber
  <2>2. k \in 0..n /\ FirstPass[k] # ChannelsOf(k)
    BY <2>1
  <2>3. k # 0
    BY <1>2, <1>7, <2>2
  <2>4. k \in 1..n /\ k - 1 \in 0..n /\ k - 1 \notin T
    BY <1>1, <2>1, <2>2, <2>3
  <2>5. FirstPass[k - 1] = ChannelsOf(k - 1)
    BY <2>4
  <2>6. FirstPass[k] = WithChannel(FirstPass[k - 1], rows[k])
    BY <1>7, <2>2, <2>3
  <2> QED
    BY <2>2, <2>4, <2>5, <2>6, ChannelStep
<1> QED
  BY <1>8, <1>9

\* The second pass after k rows: a room with its threads among them, and the
\* orphans among them.
ThreadsUnder(i, k) ==
  {rows[t].id : t \in {u \in 1..k : rows[u].kind = "thread" /\ rows[u].parent = rows[i].id}}
Entry(i, k) == [row |-> rows[i], threads |-> ThreadsUnder(i, k)]
RoomPlaces == {i \in 1..Len(rows) : rows[i].kind = "room"}
Orphan(u) ==
  /\ rows[u].kind = "thread" /\ \A i \in RoomPlaces : rows[i].id # rows[u].parent
  /\ rows[u].server \in ChannelsOf(Len(rows)).servers
RoomsOf(k) == {Entry(i, k) : i \in RoomPlaces} \cup {NewRoom(rows[u]) : u \in {t \in 1..k : Orphan(t)}}
ThreadsOf(k) == [ChannelsOf(Len(rows)) EXCEPT !.rooms = RoomsOf(k)]

LEMMA UnderStep ==
  ASSUME TreeInv, NEW k \in 1..Len(rows), NEW i \in RoomPlaces
  PROVE  Entry(i, k) = IF rows[k].kind = "thread" /\ rows[k].parent = rows[i].id
                       THEN [Entry(i, k - 1) EXCEPT !.threads = @ \cup {rows[k].id}] ELSE Entry(i, k - 1)
<1>1. k \in Nat /\ 1..k = 1..(k - 1) \cup {k}
  BY RowFacts
<1>2. ThreadsUnder(i, k) = ThreadsUnder(i, k - 1) \cup
        (IF rows[k].kind = "thread" /\ rows[k].parent = rows[i].id THEN {rows[k].id} ELSE {})
  BY <1>1 DEF ThreadsUnder
<1> QED
  BY <1>2 DEF Entry

LEMMA ThreadStep ==
  ASSUME TreeInv, NEW k \in 1..Len(rows)
  PROVE  ThreadsOf(k) = WithThread(ThreadsOf(k - 1), rows[k])
<1> DEFINE row == rows[k]
           tree == ThreadsOf(k - 1)
           parent == {room \in tree.rooms : room.row.id = row.parent}
<1>1. k \in Nat /\ 1..k = 1..(k - 1) \cup {k} /\ k - 1 \in 0..Len(rows) /\ k \in DOMAIN rows
  BY RowFacts
<1>2. /\ tree.rooms = RoomsOf(k - 1) /\ tree.servers = ChannelsOf(Len(rows)).servers
      /\ tree = [ChannelsOf(Len(rows)) EXCEPT !.rooms = RoomsOf(k - 1)]
      /\ \A Z : [tree EXCEPT !.rooms = Z] = [ChannelsOf(Len(rows)) EXCEPT !.rooms = Z]
  BY DEF ThreadsOf, ChannelsOf
<1>3. \A x : x \in RoomsOf(k - 1) <=>
               \/ \E i \in RoomPlaces : x = Entry(i, k - 1)
               \/ \E u \in 1..(k - 1) : Orphan(u) /\ x = NewRoom(rows[u])
  BY DEF RoomsOf
<1>4. \A x : x \in RoomsOf(k) <=>
               \/ \E i \in RoomPlaces : x = Entry(i, k)
               \/ \E u \in 1..k : Orphan(u) /\ x = NewRoom(rows[u])
  BY DEF RoomsOf
<1>5. \A i \in RoomPlaces : \A m : Entry(i, m).row = rows[i] /\ rows[i].id \in Rooms /\ i \in DOMAIN rows
  BY RowFacts DEF Entry, RoomPlaces
<1>6. \A u \in 1..k : Orphan(u) => NewRoom(rows[u]).row.id \in Threads
  BY RowFacts DEF Orphan, NewRoom
<1>7. row.kind = "thread" => row.parent \notin Threads
  BY RowFacts, RoomTreeAssumption, <1>1
<1>8. CASE row.kind # "thread"
  <2>1. \A i \in RoomPlaces : Entry(i, k) = Entry(i, k - 1)
    BY <1>8, UnderStep
  <2>2. \A u \in 1..k : Orphan(u) <=> u \in 1..(k - 1) /\ Orphan(u)
    BY <1>1, <1>8 DEF Orphan
  <2>3. RoomsOf(k) = RoomsOf(k - 1)
    <3> SUFFICES ASSUME NEW x PROVE x \in RoomsOf(k) <=> x \in RoomsOf(k - 1)
      OBVIOUS
    <3> QED
      BY <1>1, <1>3, <1>4, <2>1, <2>2
  <2>4. ThreadsOf(k) = tree
    BY <1>2, <2>3 DEF ThreadsOf
  <2> HIDE DEF tree
  <2> QED
    BY <1>8, <2>4 DEF WithThread, tree
<1>9. CASE row.kind = "thread" /\ \E j \in RoomPlaces : rows[j].id = row.parent
  <2>1. PICK j \in RoomPlaces : rows[j].id = row.parent
    BY <1>9
  <2>2. ~Orphan(k)
    BY <2>1 DEF Orphan
  <2>3. \A i \in RoomPlaces : i # j => rows[i].id # row.parent
    BY <1>5, <2>1 DEF TreeInv
  <2>4. parent = {Entry(j, k - 1)}
    <3>1. \A x \in RoomsOf(k - 1) : x.row.id = row.parent <=> x = Entry(j, k - 1)
      <4> TAKE x \in RoomsOf(k - 1)
      <4>1. CASE \E i \in RoomPlaces : x = Entry(i, k - 1)
        BY <1>5, <2>1, <2>3, <4>1
      <4>2. CASE \E u \in 1..(k - 1) : Orphan(u) /\ x = NewRoom(rows[u])
        <5>1. x.row.id \in Threads
          BY <1>1, <1>6, <4>2
        <5>2. Entry(j, k - 1).row.id = row.parent
          BY <1>5, <2>1
        <5> QED
          BY <1>7, <1>9, <5>1, <5>2
      <4> QED
        BY <1>3, <4>1, <4>2
    <3>2. Entry(j, k - 1) \in RoomsOf(k - 1)
      BY <1>3
    <3> QED
      BY <1>2, <3>1, <3>2
  <2>5. Entry(j, k) = [Entry(j, k - 1) EXCEPT !.threads = @ \cup {row.id}]
    BY <1>9, <2>1, UnderStep
  <2>6. \A i \in RoomPlaces : i # j => Entry(i, k) = Entry(i, k - 1)
    BY <2>3, UnderStep
  <2>7. RoomsOf(k) = (RoomsOf(k - 1) \ {Entry(j, k - 1)}) \cup {Entry(j, k)}
    <3> SUFFICES ASSUME NEW x
                 PROVE  x \in RoomsOf(k) <=> (x \in RoomsOf(k - 1) /\ x # Entry(j, k - 1)) \/ x = Entry(j, k)
      OBVIOUS
    <3>1. ASSUME x \in RoomsOf(k), x # Entry(j, k) PROVE x \in RoomsOf(k - 1) /\ x # Entry(j, k - 1)
      <4>1. CASE \E i \in RoomPlaces : x = Entry(i, k)
        <5>1. PICK i \in RoomPlaces : x = Entry(i, k)
          BY <4>1
        <5>2. i # j /\ x = Entry(i, k - 1)
          BY <2>6, <3>1, <5>1
        <5>3. x.row.id # row.parent /\ Entry(j, k - 1).row.id = row.parent
          BY <1>5, <2>1, <2>3, <5>2
        <5> QED
          BY <1>3, <5>2, <5>3
      <4>2. CASE \E u \in 1..k : Orphan(u) /\ x = NewRoom(rows[u])
        <5>1. PICK u \in 1..k : Orphan(u) /\ x = NewRoom(rows[u])
          BY <4>2
        <5>2. u \in 1..(k - 1)
          BY <1>1, <2>2, <5>1
        <5>3. x.row.id \in Threads /\ Entry(j, k - 1).row.id = row.parent
          BY <1>5, <1>6, <2>1, <5>1
        <5> QED
          BY <1>3, <1>7, <1>9, <5>1, <5>2, <5>3
      <4> QED
        BY <1>4, <3>1, <4>1, <4>2
    <3>2. ASSUME x \in RoomsOf(k - 1), x # Entry(j, k - 1) PROVE x \in RoomsOf(k)
      <4>1. CASE \E i \in RoomPlaces : x = Entry(i, k - 1)
        BY <1>4, <2>6, <3>2, <4>1
      <4>2. CASE \E u \in 1..(k - 1) : Orphan(u) /\ x = NewRoom(rows[u])
        BY <1>1, <1>4, <4>2
      <4> QED
        BY <1>3, <3>2, <4>1, <4>2
    <3>3. Entry(j, k) \in RoomsOf(k)
      BY <1>4
    <3> QED
      BY <3>1, <3>2, <3>3
  <2>8. {[room EXCEPT !.threads = @ \cup {row.id}] : room \in parent} = {Entry(j, k)}
    BY <2>4, <2>5
  <2>9. WithThread(tree, row) = [tree EXCEPT !.rooms = (@ \ parent) \cup {Entry(j, k)}]
    <3>1. parent # {}
      BY <2>4
    <3> HIDE DEF tree
    <3> QED
      BY <1>9, <2>8, <3>1 DEF WithThread
  <2>10. [tree EXCEPT !.rooms = (@ \ parent) \cup {Entry(j, k)}] = [tree EXCEPT !.rooms = RoomsOf(k)]
    BY <1>2, <2>4, <2>7
  <2> HIDE DEF tree, parent, row
  <2>11. ThreadsOf(k) = [tree EXCEPT !.rooms = RoomsOf(k)]
    BY <1>2 DEF ThreadsOf
  <2> QED
    BY <2>9, <2>10, <2>11 DEF tree, row
<1>10. CASE row.kind = "thread" /\ \A j \in RoomPlaces : rows[j].id # row.parent
  <2>1. \A i \in RoomPlaces : Entry(i, k) = Entry(i, k - 1)
    BY <1>10, UnderStep
  <2>2. parent = {}
    <3>1. \A x \in RoomsOf(k - 1) : x.row.id # row.parent
      <4> TAKE x \in RoomsOf(k - 1)
      <4>1. CASE \E i \in RoomPlaces : x = Entry(i, k - 1)
        BY <1>5, <1>10, <4>1
      <4>2. CASE \E u \in 1..(k - 1) : Orphan(u) /\ x = NewRoom(rows[u])
        BY <1>1, <1>6, <1>7, <1>10, <4>2
      <4> QED
        BY <1>3, <4>1, <4>2
    <3> QED
      BY <1>2, <3>1
  <2>3. Orphan(k) <=> row.server \in tree.servers
    BY <1>2, <1>10 DEF Orphan
  <2>4. RoomsOf(k) = RoomsOf(k - 1) \cup (IF Orphan(k) THEN {NewRoom(row)} ELSE {})
    <3> SUFFICES ASSUME NEW x
                 PROVE  x \in RoomsOf(k) <=> x \in RoomsOf(k - 1) \/ (Orphan(k) /\ x = NewRoom(row))
      OBVIOUS
    <3>1. (\E u \in 1..k : Orphan(u) /\ x = NewRoom(rows[u])) <=>
            \/ \E u \in 1..(k - 1) : Orphan(u) /\ x = NewRoom(rows[u])
            \/ Orphan(k) /\ x = NewRoom(row)
      BY <1>1
    <3>2. (\E i \in RoomPlaces : x = Entry(i, k)) <=> \E i \in RoomPlaces : x = Entry(i, k - 1)
      BY <2>1
    <3> QED
      BY <1>3, <1>4, <3>1, <3>2
  <2>5. ThreadsOf(k) = [tree EXCEPT !.rooms = RoomsOf(k)]
    BY <1>2 DEF ThreadsOf
  <2>6. CASE Orphan(k)
    <3>1. WithThread(tree, row) = [tree EXCEPT !.rooms = @ \cup {NewRoom(row)}]
      <4>1. row.kind = "thread" /\ parent = {} /\ row.server \in tree.servers
        BY <1>10, <2>2, <2>3, <2>6
      <4> HIDE DEF tree, row
      <4> QED
        BY <4>1 DEF WithThread
    <3>2. tree.rooms \cup {NewRoom(row)} = RoomsOf(k)
      BY <1>2, <2>4, <2>6
    <3> HIDE DEF tree, row
    <3> QED
      BY <2>5, <3>1, <3>2 DEF tree, row
  <2>7. CASE ~Orphan(k)
    <3>1. WithThread(tree, row) = tree
      <4>1. row.kind = "thread" /\ parent = {} /\ row.server \notin tree.servers
        BY <1>10, <2>2, <2>3, <2>7
      <4> HIDE DEF tree, row
      <4> QED
        BY <4>1 DEF WithThread
    <3>2. RoomsOf(k) = RoomsOf(k - 1)
      BY <2>4, <2>7
    <3>3. [tree EXCEPT !.rooms = RoomsOf(k)] = tree
      BY <1>2, <3>2
    <3> HIDE DEF tree, row
    <3> QED
      BY <2>5, <3>1, <3>3 DEF tree, row
  <2> QED
    BY <2>6, <2>7
<1> QED
  BY <1>8, <1>9, <1>10

LEMMA PassesAre == ASSUME TreeInv PROVE Passes = ThreadsOf(Len(rows))
<1> DEFINE n == Len(rows)
           start == FirstPass[n]
           After(f, k) == IF k = 0 THEN start ELSE WithThread(f[k - 1], rows[k])
           Is(f) == f = [k \in 0..n |-> After(f, k)]
           h == [k \in 0..n |-> ThreadsOf(k)]
<1>1. n \in Nat
  BY RowFacts
<1>2. ThreadsOf(0) = start
  <2>1. 1..0 = {}
    OBVIOUS
  <2>2. \A i : Entry(i, 0) = NewRoom(rows[i])
    BY <2>1 DEF Entry, NewRoom, ThreadsUnder
  <2>3. RoomsOf(0) = {NewRoom(rows[i]) : i \in RoomPlaces}
    BY <2>1, <2>2 DEF RoomsOf
  <2>4. RoomsOf(0) = ChannelsOf(n).rooms
    BY <2>3 DEF ChannelsOf, RoomPlaces
  <2>5. ThreadsOf(0) = ChannelsOf(n)
    BY <2>4 DEF ThreadsOf, ChannelsOf
  <2> QED
    BY <2>5, FirstPassIs
<1> HIDE DEF start
<1>3. \A k \in 0..n : ThreadsOf(k) = After(h, k)
  <2> TAKE k \in 0..n
  <2>1. CASE k = 0
    BY <1>2, <2>1
  <2>2. CASE k # 0
    <3>1. k \in 1..n /\ k - 1 \in 0..n
      BY <1>1, <2>2
    <3>2. ThreadsOf(k) = WithThread(ThreadsOf(k - 1), rows[k])
      BY <3>1, ThreadStep
    <3>3. h[k - 1] = ThreadsOf(k - 1)
      BY <3>1
    <3> QED
      BY <2>2, <3>2, <3>3
  <2> QED
    BY <2>1, <2>2
<1>4. Is(h)
  BY <1>3
<1>5. SecondPass = CHOOSE f : Is(f)
  BY DEF SecondPass, start
<1>6. Is(SecondPass)
  <2> HIDE DEF Is, h
  <2> QED
    BY <1>4, <1>5
<1>7. \A k \in 0..n : SecondPass[k] = After(SecondPass, k)
  <2> DEFINE g == SecondPass
             e(k) == After(g, k)
  <2>1. g = [k \in 0..n |-> e(k)]
    BY <1>6
  <2> HIDE DEF g, e
  <2>2. \A k \in 0..n : g[k] = e(k)
    BY <2>1
  <2> QED
    BY <2>2 DEF g, e
<1> DEFINE T == {k \in 0..n : SecondPass[k] # ThreadsOf(k)}
<1>8. CASE T = {}
  <2>1. SecondPass[n] = ThreadsOf(n)
    BY <1>1, <1>8
  <2> QED
    BY <2>1 DEF Passes
<1>9. CASE T # {}
  <2>1. PICK k \in T : \A m \in T : k <= m
    <3>1. T \in SUBSET Nat
      OBVIOUS
    <3> HIDE DEF T
    <3> QED
      BY <1>9, <3>1, LeastNumber
  <2>2. k \in 0..n /\ SecondPass[k] # ThreadsOf(k)
    BY <2>1
  <2>3. k # 0
    BY <1>2, <1>7, <2>2
  <2>4. k \in 1..n /\ k - 1 \in 0..n /\ k - 1 \notin T
    BY <1>1, <2>1, <2>2, <2>3
  <2>5. SecondPass[k - 1] = ThreadsOf(k - 1)
    BY <2>4
  <2>6. SecondPass[k] = WithThread(SecondPass[k - 1], rows[k])
    BY <1>7, <2>2, <2>3
  <2> QED
    BY <2>2, <2>4, <2>5, <2>6, ThreadStep
<1> QED
  BY <1>8, <1>9

LEMMA WholeTree == ASSUME TreeInv PROVE TreeWhole
<1> DEFINE n == Len(rows)
           tree == ThreadsOf(n)
           Place(room) == [server |-> room.row.server, category |-> CategoryOf(tree, room.row),
                           id |-> room.row.id, threads |-> room.threads]
           Want(row) == [server |-> row.server, id |-> row.id, threads |-> Children(row.id),
                         category |-> IF row.kind = "room" /\ Known(row.parent) THEN row.parent ELSE Nil]
<1>1. n \in Nat /\ DOMAIN rows = 1..n
  BY RowFacts
<1>2. /\ tree.rooms = RoomsOf(n)
      /\ tree.categories = {rows[i] : i \in {j \in 1..n : rows[j].kind = "category"}}
      /\ \A s : s \in ChannelsOf(n).servers <=> HasServer(s)
  <2>1. ChannelsOf(n).servers = named \cup {rows[i].server : i \in {j \in 1..n : rows[j].kind # "thread"}}
    BY DEF ChannelsOf
  <2>2. \A s : s \in ChannelsOf(n).servers <=> HasServer(s)
    BY <1>1, <2>1 DEF HasServer
  <2> QED
    BY <2>2 DEF ThreadsOf, ChannelsOf
<1>3. Tree = {Place(room) : room \in RoomsOf(n)}
  BY <1>2, PassesAre DEF Tree
<1>4. ASSUME NEW i \in RoomPlaces
      PROVE  i \in 1..n /\ rows[i].kind = "room" /\ Place(Entry(i, n)) = Want(rows[i])
  <2>1. i \in 1..n /\ rows[i].kind = "room" /\ rows[i].id \in Rooms /\ rows[i].parent \in Categories \cup {Nil}
    BY RowFacts DEF RoomPlaces
  <2>2. ThreadsUnder(i, n) = Children(rows[i].id)
    BY <1>1 DEF ThreadsUnder, Children, ToSet
  <2>3. CategoryOf(tree, rows[i]) = IF Known(rows[i].parent) THEN rows[i].parent ELSE Nil
    <3>1. (\E c \in tree.categories : c.id = rows[i].parent /\ c.server = rows[i].server) <=>
            \E k \in 1..n : rows[k].kind = "category" /\ rows[k].id = rows[i].parent /\ rows[k].server = rows[i].server
      BY <1>2
    <3>2. ASSUME NEW k \in 1..n, rows[k].id = rows[i].parent
          PROVE  rows[k].kind = "category" /\ rows[k].server = rows[i].server
      <4>1. rows[k].kind = "category"
        BY <2>1, <3>2, RowFacts, RoomTreeAssumption
      <4>2. rows[k].server = rows[i].server
        BY <1>1, <2>1, <3>2 DEF TreeInv, OneServer
      <4> QED
        BY <4>1, <4>2
    <3>3. (\E c \in tree.categories : c.id = rows[i].parent /\ c.server = rows[i].server) <=> Known(rows[i].parent)
      BY <1>1, <3>1, <3>2 DEF Known
    <3> HIDE DEF tree
    <3> QED
      BY <2>1, <3>3 DEF CategoryOf
  <2> HIDE DEF tree
  <2> QED
    BY <2>1, <2>2, <2>3 DEF Entry
<1>5. ASSUME NEW u \in 1..n, Orphan(u)
      PROVE  rows[u].kind = "thread" /\ Place(NewRoom(rows[u])) = Want(rows[u])
  <2>1. rows[u].kind = "thread" /\ rows[u].id \in Threads
    BY <1>5, RowFacts DEF Orphan
  <2>2. Children(rows[u].id) = {}
    <3>1. \A k \in 1..n : rows[k].kind = "thread" => rows[k].parent # rows[u].id
      BY <2>1, RowFacts, RoomTreeAssumption
    <3> QED
      BY <1>1, <3>1 DEF Children, ToSet
  <2>3. CategoryOf(tree, rows[u]) = Nil
    BY <2>1 DEF CategoryOf
  <2> HIDE DEF tree
  <2> QED
    BY <2>1, <2>2, <2>3 DEF NewRoom
<1>6. ASSUME NEW u \in 1..n PROVE Orphan(u) <=> rows[u].kind = "thread" /\ Shown(rows[u])
  <2>1. CASE rows[u].kind # "thread"
    BY <2>1 DEF Orphan
  <2>2. CASE rows[u].kind = "thread"
    <3>1. rows[u].parent \in Rooms \cup {Nil}
      BY <2>2, RowFacts
    <3>2. \A k \in 1..n : rows[k].id = rows[u].parent => rows[k].kind = "room"
      BY <3>1, RowFacts, RoomTreeAssumption
    <3>3. Known(rows[u].parent) <=> \E i \in RoomPlaces : rows[i].id = rows[u].parent
      BY <1>1, <3>2 DEF Known, RoomPlaces
    <3> QED
      BY <1>2, <2>2, <3>3 DEF Orphan, Shown
  <2> QED
    BY <2>1, <2>2
<1>7. \A i \in 1..n : i \in RoomPlaces <=> rows[i].kind = "room"
  BY DEF RoomPlaces
<1>8. \A row : row \in {r \in ToSet(rows) : Shown(r)} <=> \E i \in 1..n : rows[i] = row /\ Shown(rows[i])
  BY <1>1 DEF ToSet
<1>9. \A i \in 1..n : Shown(rows[i]) <=> i \in RoomPlaces \/ Orphan(i)
  <2> TAKE i \in 1..n
  <2>1. rows[i].kind = "room" => Shown(rows[i])
    BY DEF Shown
  <2>2. Shown(rows[i]) => rows[i].kind \in {"room", "thread"}
    BY DEF Shown
  <2> QED
    BY <1>6, <1>7, <2>1, <2>2
<1>10. \A x : x \in RoomsOf(n) <=> \/ \E i \in RoomPlaces : x = Entry(i, n)
                                   \/ \E u \in 1..n : Orphan(u) /\ x = NewRoom(rows[u])
  BY DEF RoomsOf
<1> HIDE DEF n, Place, Want
<1>11. \A y : (\E room \in RoomsOf(n) : y = Place(room)) <=> \E i \in 1..n : Shown(rows[i]) /\ y = Want(rows[i])
  <2> TAKE y
  <2>1. ASSUME NEW room \in RoomsOf(n), y = Place(room) PROVE \E i \in 1..n : Shown(rows[i]) /\ y = Want(rows[i])
    BY <1>4, <1>5, <1>9, <1>10, <2>1
  <2>2. ASSUME NEW i \in 1..n, Shown(rows[i]), y = Want(rows[i]) PROVE \E room \in RoomsOf(n) : y = Place(room)
    BY <1>4, <1>5, <1>9, <1>10, <2>2
  <2> QED
    BY <2>1, <2>2
<1>12. \A y : (\E row \in {r \in ToSet(rows) : Shown(r)} : y = Want(row)) <=>
              \E i \in 1..n : Shown(rows[i]) /\ y = Want(rows[i])
  BY <1>8
<1>13. Tree = {Want(row) : row \in {r \in ToSet(rows) : Shown(r)}}
  <2> SUFFICES ASSUME NEW y
               PROVE  y \in Tree <=> y \in {Want(row) : row \in {r \in ToSet(rows) : Shown(r)}}
    <3> DEFINE W == {Want(row) : row \in {r \in ToSet(rows) : Shown(r)}}
    <3>1. Tree = {Place(room) : room \in RoomsOf(n)}
      BY <1>3 DEF Place
    <3> HIDE DEF W
    <3> QED
      BY <3>1
  <2>1. y \in Tree <=> \E room \in RoomsOf(n) : y = Place(room)
    BY <1>3 DEF Place
  <2> QED
    BY <1>11, <1>12, <2>1
<1> QED
  BY <1>13 DEF TreeWhole, Want

-----------------------------------------------------------------------------
(* The invariant. *)

LEMMA TreeBegins == RoomTreeInit => TreeInv
<1> SUFFICES ASSUME RoomTreeInit PROVE TreeInv
  OBVIOUS
<1>1. <<>> \in Seq(ChannelRow) /\ <<>> \in Seq(Servers) /\ DOMAIN <<>> = {}
  OBVIOUS
<1> QED
  BY <1>1 DEF RoomTreeInit, TreeInv, OneServer

LEMMA DiscoverRowKeeps ==
  ASSUME TreeInv, NEW row \in ChannelRow, NEW i \in 1..(Len(rows) + 1), DiscoverRow(row, i)
  PROVE  TreeInv'
<1> DEFINE n == Len(rows)
<1>1. /\ rows \in Seq(ChannelRow) /\ n \in Nat /\ DOMAIN rows = 1..n
      /\ \A j, k \in 1..n : rows[j].id = rows[k].id => j = k
      /\ \A j, k \in 1..n : rows[j].id = rows[k].parent => rows[j].server = rows[k].server
  BY RowFacts DEF TreeInv, OneServer
<1>2. /\ \A k \in 1..n : rows[k].id # row.id
      /\ \A k \in 1..n : row.id = rows[k].parent \/ row.parent = rows[k].id => row.server = rows[k].server
      /\ rows' = SubSeq(rows, 1, i - 1) \o <<row>> \o SubSeq(rows, i, n)
      /\ UNCHANGED <<named, serverName, order>>
  BY <1>1 DEF DiscoverRow, InsertAt
<1> HIDE DEF n
<1>3. PICK a \in Seq(ChannelRow), b \in Seq(ChannelRow) :
        /\ a = SubSeq(rows, 1, i - 1) /\ b = SubSeq(rows, i, n)
        /\ Len(a) = i - 1 /\ Len(b) = n + 1 - i
        /\ \A k \in 1..(i - 1) : a[k] = rows[k]
        /\ \A k \in 1..(n + 1 - i) : b[k] = rows[i + k - 1]
  <2>1. i \in 1..(n + 1) /\ i \in Nat
    BY <1>1 DEF n
  <2>2. /\ SubSeq(rows, 1, i - 1) \in Seq(ChannelRow) /\ Len(SubSeq(rows, 1, i - 1)) = i - 1
        /\ \A k \in 1..(i - 1) : SubSeq(rows, 1, i - 1)[k] = rows[k]
    BY <1>1, <2>1 DEF n
  <2>3. /\ SubSeq(rows, i, n) \in Seq(ChannelRow) /\ Len(SubSeq(rows, i, n)) = n + 1 - i
        /\ \A k \in 1..(n + 1 - i) : SubSeq(rows, i, n)[k] = rows[i + k - 1]
    BY <1>1, <2>1 DEF n
  <2> QED
    BY <2>2, <2>3
<1>4. i \in 1..(n + 1) /\ i \in Nat
  BY <1>1 DEF n
<1>5. PICK c : c = a \o <<row>>
  OBVIOUS
<1>6. c \in Seq(ChannelRow) /\ Len(c) = i /\ \A k \in 1..i : c[k] = IF k = i THEN row ELSE rows[k]
  <2>1. a \o <<row>> \in Seq(ChannelRow)
    OBVIOUS
  <2>2. Len(a \o <<row>>) = i /\ \A k \in 1..i : (a \o <<row>>)[k] = IF k = i THEN row ELSE rows[k]
    BY <1>3, <1>4
  <2> QED
    BY <1>5, <2>1, <2>2
<1>7. PICK d : d = c \o b
  OBVIOUS
<1>8. /\ d \in Seq(ChannelRow) /\ Len(d) = n + 1
      /\ \A k \in 1..(n + 1) : d[k] = IF k < i THEN rows[k] ELSE IF k = i THEN row ELSE rows[k - 1]
  <2>1. c \o b \in Seq(ChannelRow)
    BY <1>6
  <2>2. Len(c \o b) = n + 1
    BY <1>1, <1>3, <1>4, <1>6
  <2>3. \A k \in 1..(n + 1) : (c \o b)[k] = IF k <= i THEN c[k] ELSE b[k - i]
    BY <1>1, <1>3, <1>4, <1>6
  <2>4. \A k \in 1..(n + 1) : ~(k <= i) => k - i \in 1..(n + 1 - i) /\ b[k - i] = rows[k - 1]
    <3> TAKE k \in 1..(n + 1)
    <3> HAVE ~(k <= i)
    <3>1. k - i \in 1..(n + 1 - i) /\ i + (k - i) - 1 = k - 1
      BY <1>1, <1>4
    <3> QED
      BY <1>3, <3>1
  <2>5. \A k \in 1..(n + 1) : d[k] = IF k < i THEN rows[k] ELSE IF k = i THEN row ELSE rows[k - 1]
    <3> TAKE k \in 1..(n + 1)
    <3>1. d[k] = IF k <= i THEN c[k] ELSE rows[k - 1]
      BY <1>7, <2>3, <2>4
    <3>2. k <= i => k \in 1..i
      BY <1>4
    <3> QED
      BY <1>1, <1>4, <1>6, <3>1, <3>2
  <2> QED
    BY <1>7, <2>1, <2>2, <2>5
<1>9. rows' = d
  BY <1>2, <1>3, <1>5, <1>7
<1>10. DOMAIN d = 1..(n + 1)
  BY <1>8
<1> DEFINE Old(k) == IF k < i THEN k ELSE k - 1
<1>11. \A k \in 1..(n + 1) : k = i \/ (Old(k) \in 1..n /\ d[k] = rows[Old(k)])
  BY <1>1, <1>4, <1>8
<1>12. d[i] = row
  BY <1>4, <1>8
<1>13. \A j, k \in 1..(n + 1) : j # i /\ k # i /\ Old(j) = Old(k) => j = k
  BY <1>1, <1>4
<1> HIDE DEF Old
<1>14. \A j, k \in 1..(n + 1) : d[j].id = d[k].id => j = k
  BY <1>1, <1>2, <1>11, <1>12, <1>13
<1>15. row.id # row.parent
  BY RoomTreeAssumption DEF ChannelRow
<1>16. \A j, k \in 1..(n + 1) : d[j].id = d[k].parent => d[j].server = d[k].server
  <2> SUFFICES ASSUME NEW j \in 1..(n + 1), NEW k \in 1..(n + 1), d[j].id = d[k].parent
               PROVE  d[j].server = d[k].server
    OBVIOUS
  <2>1. CASE j = i /\ k = i
    BY <1>12, <1>15, <2>1
  <2>2. CASE j = i /\ k # i
    BY <1>2, <1>11, <1>12, <2>2
  <2>3. CASE j # i /\ k = i
    BY <1>2, <1>11, <1>12, <2>3
  <2>4. CASE j # i /\ k # i
    <3>1. PICK p \in 1..n : d[j] = rows[p]
      BY <1>11, <2>4
    <3>2. PICK q \in 1..n : d[k] = rows[q]
      BY <1>11, <2>4
    <3>3. \A u, v \in 1..n : rows[u].id = rows[v].parent => rows[u].server = rows[v].server
      BY <1>1
    <3> QED
      BY <3>1, <3>2, <3>3
  <2> QED
    BY <2>1, <2>2, <2>3, <2>4
<1>17. /\ named \subseteq Servers /\ serverName \in [Servers -> FoldedNames]
       /\ order \in Seq(Servers) /\ \A k, l \in DOMAIN order : order[k] = order[l] => k = l
  BY DEF TreeInv
<1>18. d \in Seq(ChannelRow) /\ DOMAIN d = 1..(n + 1)
  BY <1>8, <1>10
<1>19. /\ \A j, k \in DOMAIN d : d[j].id = d[k].id => j = k
       /\ \A j, k \in DOMAIN d : d[j].id = d[k].parent => d[j].server = d[k].server
  BY <1>14, <1>16, <1>18
<1>20. OneServer'
  BY <1>9, <1>19 DEF OneServer
<1>21. /\ (rows \in Seq(ChannelRow))'
       /\ (\A j, k \in DOMAIN rows : rows[j].id = rows[k].id => j = k)'
  <2>1. (rows \in Seq(ChannelRow))'
    BY <1>9, <1>18 DEF ChannelRow
  <2>2. (\A j, k \in DOMAIN rows : rows[j].id = rows[k].id => j = k)'
    BY <1>9, <1>19
  <2> QED
    BY <2>1, <2>2
<1>22. /\ (named \subseteq Servers /\ serverName \in [Servers -> FoldedNames])'
       /\ (order \in Seq(Servers) /\ \A k, l \in DOMAIN order : order[k] = order[l] => k = l)'
  BY <1>2, <1>17
<1> QED
  BY <1>20, <1>21, <1>22 DEF TreeInv

LEMMA MoveServerKeeps ==
  ASSUME TreeInv, NEW i \in DOMAIN PageList, NEW j \in DOMAIN PageList, MoveServer(PageList, i, j)
  PROVE  TreeInv'
<1>1. PICK list : list = PageList
  OBVIOUS
<1>2. list \in Seq(Servers) /\ \A k, l \in DOMAIN list : list[k] = list[l] => k = l
  BY <1>1, PageListOnce
<1>3. i \in DOMAIN list /\ j \in DOMAIN list
  BY <1>1
<1> DEFINE moved == [list EXCEPT ![i] = list[j], ![j] = list[i]]
<1>4. /\ moved \in Seq(Servers) /\ DOMAIN moved = DOMAIN list
      /\ \A k \in DOMAIN list : moved[k] = IF k = j THEN list[i] ELSE IF k = i THEN list[j] ELSE list[k]
  BY <1>2, <1>3
<1>5. order' = OnlyNamed(moved) /\ UNCHANGED <<named, serverName, rows>>
  BY <1>1 DEF MoveServer
<1> HIDE DEF moved
<1>6. \A k, l \in DOMAIN moved : moved[k] = moved[l] => k = l
  BY <1>2, <1>3, <1>4
<1>7. PICK m \in Nat : \E g \in [1..m -> DOMAIN moved] :
        /\ OnlyNamed(moved) = [k \in 1..m |-> moved[g[k]]]
        /\ \A k, l \in 1..m : k < l => g[k] < g[l]
  BY <1>4, <1>6, OnlyNamedLists
<1>8. PICK g \in [1..m -> DOMAIN moved] :
        /\ OnlyNamed(moved) = [k \in 1..m |-> moved[g[k]]]
        /\ \A k, l \in 1..m : k < l => g[k] < g[l]
  BY <1>7
<1>9. PICK c : c = OnlyNamed(moved)
  OBVIOUS
<1>10. c = [k \in 1..m |-> moved[g[k]]]
  BY <1>8, <1>9
<1>11. \A k \in 1..m : c[k] \in Servers /\ c[k] = moved[g[k]] /\ g[k] \in DOMAIN moved
  BY <1>4, <1>10
<1>12. c \in [1..m -> Servers]
  BY <1>10, <1>11
<1>13. c \in Seq(Servers) /\ DOMAIN c = 1..m
  BY <1>12
<1>14. ASSUME NEW k \in 1..m, NEW l \in 1..m, c[k] = c[l] PROVE k = l
  <2>1. g[k] = g[l]
    BY <1>6, <1>11, <1>14
  <2>2. g[k] \in Nat /\ g[l] \in Nat
    BY <1>4
  <2>3. ~(k < l) /\ ~(l < k)
    BY <1>8, <2>1, <2>2
  <2> QED
    BY <2>3
<1>15. order' = c
  BY <1>5, <1>9
<1> QED
  BY <1>5, <1>13, <1>14, <1>15 DEF TreeInv, OneServer

LEMMA TreeStep == TreeInv /\ [RoomTreeNext]_treeVars => TreeInv'
<1> SUFFICES ASSUME TreeInv, [RoomTreeNext]_treeVars PROVE TreeInv'
  OBVIOUS
<1>1. CASE \E s \in Servers : DiscoverServerRow(s)
  BY <1>1 DEF DiscoverServerRow, TreeInv, OneServer
<1>2. CASE \E row \in ChannelRow, i \in 1..(Len(rows) + 1) : DiscoverRow(row, i)
  BY <1>2, DiscoverRowKeeps
<1>3. CASE \E list \in {PageList} : \E i, j \in DOMAIN list : MoveServer(list, i, j)
  <2>1. \E i, j \in DOMAIN PageList : MoveServer(PageList, i, j)
    BY <1>3
  <2> QED
    BY <2>1, MoveServerKeeps
<1>4. CASE UNCHANGED treeVars
  BY <1>4 DEF treeVars, TreeInv, OneServer
<1> QED
  BY <1>1, <1>2, <1>3, <1>4 DEF RoomTreeNext

\* For any servers, rows in any order and moves: rows have ids of their own and
\* what hangs together is of one server.
THEOREM TreeInvariant == RoomTreeSpec => []TreeInv
<1> QED
  BY TreeBegins, TreeStep, PTL DEF RoomTreeSpec

\* For any servers, rows in any order and moves: every room and thread is shown
\* once and in its place, and the page's order is the server's (buildSidebar,
\* guildSummary).
THEOREM TreeIsTrue == RoomTreeSpec => []TreeTrue
<1>1. TreeInv => TreeTrue
  <2> SUFFICES ASSUME TreeInv PROVE TreeTrue
    OBVIOUS
  <2>1. RoomTreeTypeOK
    BY DEF TreeInv, RoomTreeTypeOK, ToSet, IsInjective
  <2> QED
    BY <2>1, WholeTree, OrderKept DEF TreeTrue
<1> QED
  BY <1>1, TreeInvariant, PTL

=============================================================================
