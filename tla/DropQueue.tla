------------------------------- MODULE DropQueue -------------------------------
(***************************************************************************)
(* What becomes of files dropped on the page: handleFiles of               *)
(* web/src/pages/Dropbox.tsx, one loop per drop and nothing that keeps two *)
(* drops apart, sendViaDC of web/src/lib/signaling.ts over the one data    *)
(* channel, uploadFile of web/src/lib/api.ts as the fallback, and the      *)
(* upload route of server.ts with its single slot and its naming of files. *)
(* The receiver's session (transfer.ts, module TransferReceiver) is here   *)
(* as far as the page tells its answers apart.                             *)
(*                                                                         *)
(* Every file has the same name after cleaning, so that what is saved over *)
(* HTTP within one second contends for it; a file's bytes are its chunks.  *)
(***************************************************************************)
EXTENDS Integers, Sequences, FiniteSets

CONSTANTS Drops,       \* a sequence of drops, each a sequence of files
          Chunks,      \* per file, how many chunks it has
          HttpMax,     \* chunks that fit in an HTTP upload
          FileMax,     \* chunks that fit at all
          MaxSecond,   \* bound: the clock's seconds
          MaxCrashes   \* bound: restarts of the server

Files == DOMAIN Chunks
NoFile == "none"

\* What is dropped twice is two files: each transfer has an id of its own.  There
\* are fewer of them than the suffixes reserveUploadPath tries.
ASSUME DropAssumption ==
  /\ Drops \in Seq(Seq(Files)) /\ Chunks \in [Files -> Nat] /\ NoFile \notin Files
  /\ \A l, m \in DOMAIN Drops : \A i \in DOMAIN Drops[l], j \in DOMAIN Drops[m] :
       Drops[l][i] = Drops[m][j] => l = m /\ i = j
  /\ IsFiniteSet(Files) /\ Cardinality(Files) < 10000
  /\ {HttpMax, FileMax, MaxSecond, MaxCrashes} \subseteq Nat

Loops == DOMAIN Drops
Names == (0..MaxSecond) \X (0..Cardinality(Files))   \* the second and the suffix of a saved name

VARIABLES pos, step,  \* per loop, the file it is at and what it does with it
          offset,      \* per loop, chunks of the file sent
          outcome,     \* per file, what the page told the user
          channel,     \* "none" before it opens, "open", "closed"
          wire, back,  \* messages in flight to the receiver, and its answers
          acks,        \* pendingAcks
          active, got, \* the receiver's transfer, and the owners of its chunks
          stored,      \* per file, the chunks the receiver saved it with
          busy,        \* activeHttpUpload
          http,        \* per loop, its upload at the server
          dir, second, crashes  \* saved names, the clock, restarts so far

loopVars == <<pos, step, offset, outcome>>
p2pVars == <<channel, wire, back, acks, active, got, stored>>
httpVars == <<busy, http, dir, second, crashes>>
dvars == <<loopVars, p2pVars, httpVars>>

DropInit ==
  /\ pos = [l \in Loops |-> 1] /\ step = [l \in Loops |-> "next"]
  /\ offset = [l \in Loops |-> 0] /\ outcome = [f \in Files |-> "none"]
  /\ channel \in {"none", "open"} /\ wire = <<>> /\ back = <<>> /\ acks = {}
  /\ active = NoFile /\ got = <<>> /\ stored = [f \in Files |-> NoFile]
  /\ busy = FALSE /\ http = [l \in Loops |-> "none"]
  /\ dir = [n \in Names |-> NoFile] /\ second = 0 /\ crashes = 0

-----------------------------------------------------------------------------
File(l) == Drops[l][pos[l]]
Size(l) == Chunks[File(l)]
At(l, s) == pos[l] <= Len(Drops[l]) /\ step[l] = s
Go(l, s) == step' = [step EXCEPT ![l] = s] /\ UNCHANGED <<pos, outcome>>

\* The page reports the file and the loop goes to the next one.
Report(l, what) ==
  /\ outcome' = [outcome EXCEPT ![File(l)] = what]
  /\ pos' = [pos EXCEPT ![l] = @ + 1] /\ step' = [step EXCEPT ![l] = "next"]
  /\ offset' = [offset EXCEPT ![l] = 0]

\* The next file: too large, over the channel if it is open at this moment, or
\* by HTTP if it is small enough.
Begin(l) ==
  /\ At(l, "next")
  /\ \/ /\ Size(l) > FileMax \/ (Size(l) > HttpMax /\ channel # "open")
        /\ Report(l, "rejected") /\ UNCHANGED <<wire, http>>
     \/ /\ Size(l) <= FileMax /\ channel = "open"
        /\ wire' = Append(wire, <<"start", File(l)>>)
        /\ Go(l, "sending") /\ UNCHANGED <<offset, http>>
     \/ /\ Size(l) <= FileMax /\ Size(l) <= HttpMax /\ channel # "open"
        /\ http' = [http EXCEPT ![l] = "sent"] /\ Go(l, "http") /\ UNCHANGED <<offset, wire>>
  /\ UNCHANGED <<channel, back, acks, active, got, stored, busy, dir, second, crashes>>

\* A round of sendViaDC's loop; a channel that has closed throws.
SendChunk(l) ==
  /\ At(l, "sending") /\ offset[l] < Size(l)
  /\ IF channel = "open"
       THEN /\ wire' = Append(wire, <<"chunk", File(l)>>)
            /\ offset' = [offset EXCEPT ![l] = @ + 1] /\ UNCHANGED <<pos, step, outcome>>
       ELSE Report(l, "failed") /\ UNCHANGED wire
  /\ UNCHANGED <<channel, back, acks, active, got, stored, httpVars>>

\* waitForBuffer gives up after 60 seconds without progress.
Stall(l) ==
  /\ At(l, "sending") /\ wire # <<>>
  /\ Report(l, "failed")
  /\ UNCHANGED <<p2pVars, httpVars>>

\* Everything has left the buffer: the waiter for the acknowledgement is
\* entered, and then the end is sent.
SendEnd(l) ==
  /\ At(l, "sending") /\ offset[l] = Size(l)
  /\ IF channel = "open"
       THEN /\ acks' = acks \cup {File(l)}
            /\ wire' = Append(wire, <<"end", File(l)>>)
            /\ Go(l, "waiting") /\ UNCHANGED offset
       ELSE Report(l, "failed") /\ UNCHANGED <<acks, wire>>
  /\ UNCHANGED <<channel, back, active, got, stored, httpVars>>

AckTimeout(l) ==
  /\ At(l, "waiting")
  /\ acks' = acks \ {File(l)}
  /\ Report(l, "failed")
  /\ UNCHANGED <<channel, wire, back, active, got, stored, httpVars>>

\* pendingAcks.get(msg.id): an answer nobody waits for is dropped.
Answered(l, a) == File(l) = a[1] /\ a[1] \in acks

ReadAck ==
  /\ back # <<>> /\ channel = "open"
  /\ back' = Tail(back)
  /\ LET a == Head(back) IN
       \/ \E l \in Loops :
            /\ At(l, "waiting") /\ Answered(l, a)
            /\ acks' = acks \ {File(l)}
            /\ Report(l, IF a[2] THEN "delivered" ELSE "failed")
       \/ /\ \A l \in Loops : At(l, "waiting") => ~Answered(l, a)
          /\ UNCHANGED <<loopVars, acks>>
  /\ UNCHANGED <<channel, wire, active, got, stored, httpVars>>

-----------------------------------------------------------------------------
\* The receiver's session.
ReadStart(f) ==
  IF active # NoFile
    THEN active' = NoFile /\ got' = <<>> /\ back' = back \o <<<<active, FALSE>>, <<f, FALSE>>>>
    ELSE active' = f /\ got' = <<>> /\ UNCHANGED back

\* Mutant: what exceeds the size is left out and the transfer goes on.
ReadChunkCut(f) ==
  IF active = NoFile \/ Len(got) = Chunks[active] THEN UNCHANGED <<active, got, back>>
  ELSE got' = Append(got, f) /\ UNCHANGED <<active, back>>
\* A chunk belongs to whatever transfer is active; one too many ends it.
ReadChunk(f) ==
  IF active = NoFile THEN UNCHANGED <<active, got, back>>
  ELSE IF Len(got) = Chunks[active]
    THEN active' = NoFile /\ got' = <<>> /\ back' = Append(back, <<active, FALSE>>)
    ELSE got' = Append(got, f) /\ UNCHANGED <<active, back>>

\* A complete transfer is renamed into place, unless the disk fails.
ReadEnd(f, ok) ==
  IF active # f THEN ~ok /\ back' = Append(back, <<f, FALSE>>) /\ UNCHANGED <<active, got, stored>>
  ELSE /\ ok => Len(got) = Chunks[f]
       /\ active' = NoFile /\ got' = <<>> /\ back' = Append(back, <<f, ok>>)
       /\ stored' = IF ok THEN [stored EXCEPT ![f] = got] ELSE stored

Receive ==
  /\ wire # <<>> /\ channel = "open"
  /\ wire' = Tail(wire)
  /\ LET m == Head(wire) IN
       \/ m[1] = "start" /\ ReadStart(m[2]) /\ UNCHANGED stored
       \/ m[1] = "chunk" /\ ReadChunk(m[2]) /\ UNCHANGED stored
       \/ m[1] = "end" /\ \E ok \in BOOLEAN : ReadEnd(m[2], ok)
  /\ UNCHANGED <<channel, acks, loopVars, httpVars>>

Open ==
  /\ channel = "none" /\ channel' = "open"
  /\ UNCHANGED <<wire, back, acks, active, got, stored, loopVars, httpVars>>

\* The channel closes and with it the session: what is in flight is lost.
Close ==
  /\ channel = "open" /\ channel' = "closed"
  /\ wire' = <<>> /\ back' = <<>> /\ active' = NoFile /\ got' = <<>>
  /\ UNCHANGED <<acks, stored, loopVars, httpVars>>

-----------------------------------------------------------------------------
\* The upload route.  One upload at a time, the others are told to come back.
Admit(l) ==
  /\ http[l] = "sent"
  /\ IF busy THEN http' = [http EXCEPT ![l] = "refused"] /\ UNCHANGED busy
     ELSE http' = [http EXCEPT ![l] = "reading"] /\ busy' = TRUE
  /\ UNCHANGED <<dir, second, crashes, loopVars, p2pVars>>

\* reserveUploadPath: the first suffix with which the link succeeds.
FreeName ==
  CHOOSE n \in Names : /\ n[1] = second /\ dir[n] = NoFile
                       /\ \A i \in 0..(n[2] - 1) : dir[<<second, i>>] # NoFile

\* Mutant: a failed upload keeps the slot.
FreedOnSuccess(ok) == busy' = ~ok
\* finally: the slot is free, whatever happened.
Freed(ok) == busy' = FALSE

\* The body is there, or will not be (broken off, malformed, blocked by its
\* name, no space left): the part file is written, linked and removed, or removed.
Save(l, ok) ==
  /\ http[l] = "reading"
  /\ http' = [http EXCEPT ![l] = IF ok THEN "ok" ELSE "refused"]
  /\ dir' = IF ok THEN [dir EXCEPT ![FreeName] = File(l)] ELSE dir
  /\ Freed(ok)
  /\ UNCHANGED <<second, crashes, loopVars, p2pVars>>

\* The server ends and starts again: what it was reading is lost, or saved and
\* the answer lost.
Crash ==
  /\ crashes < MaxCrashes /\ crashes' = crashes + 1
  /\ busy' = FALSE
  /\ http' = [l \in Loops |-> IF http[l] \in {"sent", "reading", "ok"} THEN "refused" ELSE http[l]]
  /\ \/ UNCHANGED dir
     \/ \E l \in Loops : http[l] = "reading" /\ dir' = [dir EXCEPT ![FreeName] = File(l)]
  /\ UNCHANGED <<second, loopVars, p2pVars>>

Tick ==
  /\ second < MaxSecond /\ second' = second + 1
  /\ UNCHANGED <<busy, http, dir, crashes, loopVars, p2pVars>>

\* uploadFile resolves or rejects; there is no second try.
HttpEnds(l) ==
  /\ At(l, "http") /\ http[l] \in {"ok", "refused"}
  /\ http' = [http EXCEPT ![l] = "none"]
  /\ Report(l, IF http[l] = "ok" THEN "saved" ELSE "failed")
  /\ UNCHANGED <<p2pVars, busy, dir, second, crashes>>

LoopStep(l) == Begin(l) \/ SendChunk(l) \/ SendEnd(l) \/ HttpEnds(l)
ServerStep(l) == Admit(l) \/ \E ok \in BOOLEAN : Save(l, ok)

DropNext ==
  \/ \E l \in Loops : LoopStep(l) \/ ServerStep(l) \/ Stall(l) \/ AckTimeout(l)
  \/ ReadAck \/ Receive \/ Open \/ Close \/ Crash \/ Tick

\* The loops go on, a request gets an answer, and a missing acknowledgement
\* its timeout; the receiver need not read anything.
DropFairness == \A l \in Loops : WF_dvars(LoopStep(l)) /\ WF_dvars(ServerStep(l)) /\ WF_dvars(AckTimeout(l))

DropSpec == DropInit /\ [][DropNext]_dvars /\ DropFairness

-----------------------------------------------------------------------------
\* What the page reports is so, with two drops under way at once: a delivered
\* file is stored with its own chunks and no other's, though chunks carry no
\* id, and a file saved by HTTP has a name that no later one took.
ReportTrue ==
  \A f \in Files :
    /\ outcome[f] = "delivered" => stored[f] = [i \in 1..Chunks[f] |-> f]
    /\ outcome[f] = "saved" => \E n \in Names : dir[n] = f

\* Every dropped file is reported in the end, whatever becomes of the channel,
\* the server and the other drop, and the server's slot is not left taken.
DropsEnd == <>[](~busy /\ \A l \in Loops : pos[l] = Len(Drops[l]) + 1)
=============================================================================
