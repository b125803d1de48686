---------------------------- MODULE GatewayListener ----------------------------
(***************************************************************************)
(* The live listener of discord_pb: GatewayListener in                     *)
(* 09-discord_pb/gateway.py.  Three threads share it: the main one owns    *)
(* the websocket and the reconnect loop, the worker applies queued events  *)
(* to PocketBase, a heartbeat per connection detects a silent one.  The    *)
(* two flags _reconnect and _dispatch_blocked couple them.                 *)
(*                                                                         *)
(* Discord is external: it numbers the events of a session from 1 (READY), *)
(* replays what a RESUME names as missing and may forget a session.        *)
(***************************************************************************)
EXTENDS Naturals, Sequences

CONSTANTS MaxSessions,   \* bound: sessions Discord issues
          MaxEvents,     \* bound: events of a session until Discord stops emitting
          QueueSize,     \* capacity of _queue
          MaxMishaps     \* bound: failing posts and status writes, drops, closes, invalidations

ASSUME GatewayAssumption ==
  MaxSessions \in Nat \ {0} /\ MaxEvents \in Nat \ {0} /\ QueueSize \in Nat \ {0} /\ MaxMishaps \in Nat

VARIABLES log,        \* per session: kinds of the events Discord emitted
          valid,      \* sessions Discord would resume
          wire,       \* payloads of the connection not yet read
          silent,     \* the connection is dead without either side closing it
          main,       \* where the main thread is
          clear,      \* clear_session of the exception being handled
          reconnect,  \* the _reconnect event
          acked,      \* the acked event of the connection's heartbeat
          beating,    \* the connection's heartbeat thread is alive
          queue,      \* _queue
          busy,       \* the item in the worker's hands, if any, or that it died
          blocked,    \* _dispatch_blocked
          session,    \* session_id, 0 for None
          sequence,   \* sequence, 0 for None
          applied,    \* events PocketBase has committed
          gap,        \* the backfill request marker exists
          mishaps     \* of these so far

discord == <<log, valid>>
thread == <<main, clear>>
worker == <<queue, busy>>
resume == <<session, sequence>>
gatewayVars == <<discord, wire, silent, thread, reconnect, acked, beating, worker, blocked,
          resume, applied, gap, mishaps>>

Sessions == 1..MaxSessions
Kinds == {"READY", "RESUMED", "event"}
Event == [s: Sessions, n: Nat \ {0}]
Payload == [op: {"dispatch"}, s: Sessions, n: Nat \ {0}] \cup [op: {"ack", "reconnect", "fatal"}]
             \cup [op: {"invalid"}, fresh: BOOLEAN]
NoTask == [step |-> "idle"]
Dead == [step |-> "dead"]
Steps == {"taken", "done"}

GatewayTypeOK ==
  /\ log \in [Sessions -> Seq(Kinds)] /\ valid \subseteq Sessions
  /\ wire \in Seq(Payload) /\ silent \in BOOLEAN
  /\ main \in {"idle", "up", "joining", "parking", "parked"} /\ clear \in BOOLEAN
  /\ reconnect \in BOOLEAN /\ acked \in BOOLEAN /\ beating \in BOOLEAN
  /\ queue \in Seq(Event) /\ Len(queue) <= QueueSize
  /\ busy \in {NoTask, Dead} \cup [step: Steps, s: Sessions, n: Nat \ {0}]
  /\ blocked \in BOOLEAN
  /\ session \in 0..MaxSessions /\ sequence \in Nat
  /\ applied \subseteq Event
  /\ gap \in BOOLEAN /\ mishaps \in 0..MaxMishaps

GatewayInit ==
  /\ log = [s \in Sessions |-> <<>>] /\ valid = {}
  /\ wire = <<>> /\ silent = FALSE
  /\ main = "idle" /\ clear = FALSE
  /\ reconnect = FALSE /\ acked = TRUE /\ beating = FALSE
  /\ queue = <<>> /\ busy = NoTask /\ blocked = FALSE
  /\ session = 0 /\ sequence = 0
  /\ applied = {} /\ gap = FALSE /\ mishaps = 0

Issued == {s \in Sessions : log[s] # <<>>}
Kind(e) == log[e.s][e.n]
Dispatch(s, n) == [op |-> "dispatch", s |-> s, n |-> n]
Resumable == session # 0 /\ sequence # 0
Fault == mishaps < MaxMishaps /\ mishaps' = mishaps + 1

-----------------------------------------------------------------------------
\* The main thread.

\* _run_connection up to the read loop.  Its queue is drained and its worker
\* idle, so session_id and sequence do not move in between.
Connected ==
  /\ reconnect' = FALSE /\ acked' = TRUE /\ beating' = TRUE /\ silent' = FALSE
  /\ main' = "up"
  /\ UNCHANGED <<clear, worker, blocked, resume, applied, gap, mishaps>>

\* IDENTIFY: Discord opens the next session with READY.
DialIdentify ==
  /\ main = "idle" /\ ~Resumable
  /\ \E s \in Sessions \ Issued :
       /\ \A t \in Sessions \ Issued : s <= t
       /\ log' = [log EXCEPT ![s] = <<"READY">>]
       /\ valid' = valid \cup {s}
       /\ wire' = <<Dispatch(s, 1)>>
  /\ Connected

\* RESUME: Discord replays what follows seq and closes with RESUMED, or calls
\* the session invalid.
DialResume ==
  /\ main = "idle" /\ Resumable
  /\ IF session \in valid
       THEN /\ log' = [log EXCEPT ![session] = Append(@, "RESUMED")]
            /\ wire' = [i \in 1..(Len(log[session]) + 1 - sequence) |-> Dispatch(session, sequence + i)]
       ELSE /\ wire' = <<[op |-> "invalid", fresh |-> TRUE]>>
            /\ UNCHANGED log
  /\ UNCHANGED valid
  /\ Connected

\* The finally block: heartbeat stopped, socket aborted, and on to _queue.join.
Disconnect(next, fresh) ==
  /\ main' = next /\ clear' = fresh
  /\ beating' = FALSE /\ wire' = <<>> /\ silent' = FALSE

\* connect or HELLO fails, or the socket dies while reading.
DialFails ==
  /\ main = "idle" /\ Fault
  /\ main' = "joining" /\ clear' = FALSE /\ reconnect' = FALSE
  /\ UNCHANGED <<discord, wire, silent, acked, beating, worker, blocked, resume, applied, gap>>
Drop ==
  /\ main = "up" /\ Fault
  /\ Disconnect("joining", FALSE)
  /\ UNCHANGED <<discord, reconnect, acked, worker, blocked, resume, applied, gap>>

\* The read loop: a payload that arrives while _reconnect is being set counts as
\* read before it.
Reading == main = "up" /\ ~reconnect /\ ~silent /\ wire # <<>>

\* Opcode 0 -> _enqueue; a full queue ends the connection.
Enqueue ==
  /\ Reading /\ Head(wire).op = "dispatch" /\ Len(queue) < QueueSize
  /\ queue' = Append(queue, [s |-> Head(wire).s, n |-> Head(wire).n])
  /\ wire' = Tail(wire)
  /\ UNCHANGED <<discord, silent, thread, reconnect, acked, beating, busy, blocked, resume, applied, gap, mishaps>>
QueueFull ==
  /\ Reading /\ Head(wire).op = "dispatch" /\ Len(queue) = QueueSize
  /\ Disconnect("joining", FALSE)
  /\ UNCHANGED <<discord, reconnect, acked, worker, blocked, resume, applied, gap, mishaps>>

\* Opcode 11.
ReadAck ==
  /\ Reading /\ Head(wire).op = "ack"
  /\ acked' = TRUE /\ wire' = Tail(wire)
  /\ UNCHANGED <<discord, silent, thread, reconnect, beating, worker, blocked, resume, applied, gap, mishaps>>

\* Opcodes 7 and 9 and the close codes, by what they ask for.
ReadEnd ==
  /\ Reading /\ Head(wire).op \in {"reconnect", "invalid", "fatal"}
  /\ Disconnect(IF Head(wire).op = "fatal" THEN "parking" ELSE "joining",
                Head(wire).op = "invalid" /\ Head(wire).fresh)
  /\ UNCHANGED <<discord, reconnect, acked, worker, blocked, resume, applied, gap, mishaps>>

\* The read loop sees _reconnect.
SeeReconnect ==
  /\ main = "up" /\ reconnect
  /\ Disconnect("joining", FALSE)
  /\ UNCHANGED <<discord, reconnect, acked, worker, blocked, resume, applied, gap, mishaps>>

\* Mutant: the worker stays blocked.
JoinedBlocked ==
  /\ main = "joining" /\ queue = <<>> /\ busy = NoTask
  /\ main' = "idle" /\ clear' = FALSE
  /\ session' = IF clear THEN 0 ELSE session
  /\ sequence' = IF clear THEN 0 ELSE sequence
  /\ gap' = TRUE
  /\ UNCHANGED <<discord, wire, silent, reconnect, acked, beating, worker, blocked, applied, mishaps>>

\* _queue.join returns: unblock, forget the session if told to, mark the gap.
Joined ==
  /\ main = "joining" /\ queue = <<>> /\ busy = NoTask
  /\ main' = "idle" /\ clear' = FALSE
  /\ blocked' = FALSE
  /\ session' = IF clear THEN 0 ELSE session
  /\ sequence' = IF clear THEN 0 ELSE sequence
  /\ gap' = TRUE
  /\ UNCHANGED <<discord, wire, silent, reconnect, acked, beating, worker, applied, mishaps>>
Park ==
  /\ main = "parking" /\ queue = <<>> /\ busy = NoTask
  /\ main' = "parked" /\ gap' = TRUE
  /\ UNCHANGED <<discord, wire, silent, clear, reconnect, acked, beating, worker, blocked, resume, applied, mishaps>>

-----------------------------------------------------------------------------
\* _dispatch_worker.

Take ==
  /\ busy = NoTask /\ queue # <<>>
  /\ busy' = [step |-> "taken", s |-> Head(queue).s, n |-> Head(queue).n]
  /\ queue' = Tail(queue)
  /\ UNCHANGED <<discord, wire, silent, thread, reconnect, acked, beating, blocked, resume, applied, gap, mishaps>>

\* The finally block of an item: task_done, unless the write of the status file
\* before it fails, which ends the thread with the item unfinished.
Release ==
  \/ busy' = NoTask /\ UNCHANGED mishaps
  \/ busy' = Dead /\ Fault

\* Mutant: the worker keeps an item until it is unblocked.
SkipWaits == busy.step = "taken" /\ blocked /\ UNCHANGED gatewayVars

\* Items queued behind a failed one are taken and dropped.
Skip ==
  /\ busy.step = "taken" /\ blocked
  /\ Release
  /\ UNCHANGED <<discord, wire, silent, thread, reconnect, acked, beating, queue, blocked, resume, applied, gap>>

\* Mutant: an item behind a failed one is applied all the same.
ApplyAnyway ==
  /\ busy.step = "taken"
  /\ session' = IF Kind(busy) = "READY" THEN busy.s ELSE session
  /\ applied' = IF Kind(busy) = "event" THEN applied \cup {[s |-> busy.s, n |-> busy.n]} ELSE applied
  /\ busy' = [busy EXCEPT !.step = "done"]
  /\ UNCHANGED <<discord, wire, silent, thread, reconnect, acked, beating, queue, blocked, sequence, gap, mishaps>>

\* The effect of an item, before the sequence is advanced.
Apply ==
  /\ busy.step = "taken" /\ ~blocked
  /\ session' = IF Kind(busy) = "READY" THEN busy.s ELSE session
  /\ applied' = IF Kind(busy) = "event" THEN applied \cup {[s |-> busy.s, n |-> busy.n]} ELSE applied
  /\ busy' = [busy EXCEPT !.step = "done"]
  /\ UNCHANGED <<discord, wire, silent, thread, reconnect, acked, beating, queue, blocked, sequence, gap, mishaps>>

Advance ==
  /\ busy.step = "done"
  /\ sequence' = busy.n
  /\ Release
  /\ UNCHANGED <<discord, wire, silent, thread, reconnect, acked, beating, queue, blocked, session, applied, gap>>

\* Mutant: the sequence is advanced in the finally block.
WorkFailsAdvancing ==
  /\ \/ busy.step = "taken" /\ ~blocked /\ Kind(busy) # "RESUMED"
     \/ busy.step = "done" /\ Kind(busy) = "event"
  /\ Fault
  /\ blocked' = TRUE /\ reconnect' = TRUE
  /\ sequence' = busy.n
  /\ busy' = NoTask
  /\ UNCHANGED <<discord, wire, silent, thread, acked, beating, queue, session, applied, gap>>

\* The post fails, or succeeds with an answer that does not come back; a READY
\* may be malformed.  The status write may fail as well, in the same mishap.
WorkFails ==
  /\ \/ busy.step = "taken" /\ ~blocked /\ Kind(busy) # "RESUMED"
     \/ busy.step = "done" /\ Kind(busy) = "event"
  /\ Fault
  /\ blocked' = TRUE /\ reconnect' = TRUE
  /\ busy' \in {NoTask, Dead}
  /\ UNCHANGED <<discord, wire, silent, thread, acked, beating, queue, resume, applied, gap>>

-----------------------------------------------------------------------------
\* _heartbeat: a beat that was not answered by the next one ends the connection.
\* Timing: the interval is far longer than reading an answer that has arrived.

Beat ==
  /\ beating /\ acked
  /\ acked' = FALSE
  /\ wire' = IF silent THEN wire ELSE Append(wire, [op |-> "ack"])
  /\ UNCHANGED <<discord, silent, thread, reconnect, beating, worker, blocked, resume, applied, gap, mishaps>>
BeatMissed ==
  /\ beating /\ ~acked /\ \A i \in DOMAIN wire : wire[i].op # "ack"
  /\ reconnect' = TRUE /\ beating' = FALSE
  /\ UNCHANGED <<discord, wire, silent, thread, acked, worker, blocked, resume, applied, gap, mishaps>>

-----------------------------------------------------------------------------
\* Discord, the network and the consumer of the marker.

\* Something happens on Discord: an event of the newest session, whether or not
\* the listener is connected to it or will ever resume it.
Emit(s) ==
  /\ s \in valid /\ s + 1 \notin Issued /\ Len(log[s]) < MaxEvents
  /\ log' = [log EXCEPT ![s] = Append(@, "event")]
  /\ wire' = IF main = "up" /\ ~silent THEN Append(wire, Dispatch(s, Len(log[s]) + 1)) ELSE wire
  /\ UNCHANGED <<valid, silent, thread, reconnect, acked, beating, worker, blocked, resume, applied, gap, mishaps>>

End(p) ==
  /\ main = "up" /\ ~silent /\ Fault
  /\ wire' = Append(wire, p)
  /\ UNCHANGED <<discord, silent, thread, reconnect, acked, beating, worker, blocked, resume, applied, gap>>
EndConnection == \E p \in [op: {"reconnect", "fatal"}] \cup [op: {"invalid"}, fresh: BOOLEAN] : End(p)

FallSilent ==
  /\ main = "up" /\ ~silent /\ Fault
  /\ silent' = TRUE /\ wire' = <<>>
  /\ UNCHANGED <<discord, thread, reconnect, acked, beating, worker, blocked, resume, applied, gap>>

Forget(s) ==
  /\ s \in valid /\ main # "up" /\ Fault
  /\ valid' = valid \ {s}
  /\ UNCHANGED <<log, wire, silent, thread, reconnect, acked, beating, worker, blocked, resume, applied, gap>>

\* service.py consumes the marker and starts a sweep.
ConsumeGap ==
  /\ gap /\ gap' = FALSE
  /\ UNCHANGED <<discord, wire, silent, thread, reconnect, acked, beating, worker, blocked, resume, applied, mishaps>>

Dial == DialIdentify \/ DialResume
Read == Enqueue \/ QueueFull \/ ReadAck \/ ReadEnd \/ SeeReconnect
Main == Dial \/ Read \/ Joined \/ Park
Work == Take \/ Skip \/ Apply \/ Advance
Heart == Beat \/ BeatMissed
Environment ==
  \/ \E s \in Sessions : Emit(s) \/ Forget(s)
  \/ EndConnection \/ FallSilent \/ Drop \/ DialFails \/ WorkFails \/ ConsumeGap

GatewayNext == Main \/ Work \/ Heart \/ Environment

GatewaySpec == GatewayInit /\ [][GatewayNext]_gatewayVars

\* Each thread keeps running.  Read stands for the main thread's next payload or
\* its half-second look at _reconnect; faults are bounded and need not occur.
GatewayFairSpec ==
  /\ GatewaySpec
  /\ WF_gatewayVars(Dial) /\ WF_gatewayVars(Read) /\ WF_gatewayVars(Joined) /\ WF_gatewayVars(Park)
  /\ WF_gatewayVars(Work) /\ WF_gatewayVars(Heart)

-----------------------------------------------------------------------------
Stored(s, n) == n \in DOMAIN log[s] /\ log[s][n] = "event" => [s |-> s, n |-> n] \in applied

\* What a RESUME would tell Discord is true: every event up to the sequence was
\* applied, and the sequence counts events of the session it is sent with.
ResumePoint ==
  Resumable => sequence <= Len(log[session]) /\ \A n \in 1..sequence : Stored(session, n)

\* Events of a session are applied in order: none while an earlier one of the
\* session is missing, whatever failed, filled up or was replayed in between.
AppliedInOrder ==
  [][\A e \in applied' \ applied : \A n \in 1..(e.n - 1) : Stored(e.s, n)]_gatewayVars

\* Every event Discord emits to the listener's session is applied in the end,
\* unless the session is given up, the listener has been told to stop or its
\* worker has died.
EventsApplied ==
  \A s \in Sessions, n \in 1..MaxEvents :
    (n \in DOMAIN log[s]) ~>
      (Stored(s, n) \/ s \notin valid \/ s + 1 \in Issued \/ main = "parked" \/ session # s \/ busy = Dead)

\* A disconnection ends: whatever the worker was doing, short of dying, the
\* listener asks for a sweep and dials again.
Recovers == (main = "joining") ~> ((main = "idle" /\ gap) \/ busy = Dead)

\* README: "Disconnects request a reconciliation sweep", all of them.
DisconnectsSweep == (main = "joining") ~> gap

\* The listener keeps up and comes back: events are applied, disconnections end
\* (GatewayListener.run and its worker, gateway.py).
ListenerRecovers == EventsApplied /\ Recovers
=============================================================================
