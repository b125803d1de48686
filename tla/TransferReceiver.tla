--------------------------- MODULE TransferReceiver ---------------------------
(***************************************************************************)
(* The receiving half of the p2p dropbox (10-p2p_dropbox/dropbox):         *)
(* TransferRegistry and ReceiverTransferSession of transfer.ts, with the   *)
(* onComplete callback, the data channel set-up and the process exit of    *)
(* receiver.ts.                                                            *)
(*                                                                         *)
(* The peer is left open: any well- or ill-formed message may arrive on    *)
(* any open channel, in any order.  P2PTransfer puts the command-line      *)
(* sender and its ordered channel in front of this module.                 *)
(*                                                                         *)
(* A byte chunk is one token of Payload, so sizes count chunks.  A path is *)
(* a number taken in order: uniquePath never returns a path in use.        *)
(***************************************************************************)
EXTENDS Integers, Sequences, FiniteSets

CONSTANTS Channels,      \* data channels, each with its ReceiverTransferSession
          Ids,           \* ids accepted by validId
          NoId,          \* stands for every id validId refuses
          Names,         \* original file names
          Sensitive,     \* the names isSensitiveName refuses
          Payload,       \* contents of one binary chunk
          Sizes,         \* sizes a file-start may declare (-1: not a size)
          MaxFileBytes,  \* options.maxFileBytes
          MaxPaths,      \* bound: files the registry ever opens
          MaxAcks,       \* bound: answers buffered on one channel
          MaxCrashes,    \* bound: times the process dies
          DiskFaults     \* whether disk operations may fail

ASSUME ReceiverAssumption ==
  /\ NoId \notin Ids
  /\ Sensitive \subseteq Names
  /\ Sizes \subseteq Int
  /\ MaxFileBytes \in Nat /\ MaxPaths \in Nat /\ MaxAcks \in Nat
  /\ MaxCrashes \in Nat /\ DiskFaults \in BOOLEAN

VARIABLES session,   \* per channel: not yet opened, open, or closed
          active,    \* per channel: the path being received, 0 for none
          phase,     \* per path: where its ActiveTransfer is in its life
          info,      \* per path: the fields of its ActiveTransfer
          errored,   \* paths whose write stream has failed
          nextPath,  \* the next path uniquePath returns
          claimed,   \* TransferRegistry.claimedIds
          parts,     \* .part files on disk
          finals,    \* published files on disk
          ledger,    \* paths with a line in index.jsonl
          acks,      \* per channel: file-received answers on their way
          crashes    \* times the process has died

disk == <<parts, finals, ledger>>
rvars == <<session, active, phase, info, errored, nextPath, claimed,
           parts, finals, ledger, acks, crashes>>

Paths == 1..MaxPaths
NoPath == 0
\* "receiving": this.active; "queued": behind this.pending; "flushing":
\* finalize awaits stream.end; "renamed": under its final name, not yet in the
\* ledger; the last three are ends of a transfer's life.
Live == {"receiving", "queued", "flushing", "renamed"}
Phases == Live \cup {"free", "published", "dropped", "lost"}

Transfer == [chan: Channels, id: Ids, name: Names, size: Nat, content: Seq(Payload)]
Message == [type: {"start"}, id: Ids \cup {NoId}, name: Names, size: Sizes]
             \cup [type: {"chunk"}, data: Payload]
             \cup [type: {"end"}, id: Ids \cup {NoId}]
Ack == [id: Ids \cup {NoId}, size: Nat, ok: BOOLEAN]

Received(p) == Len(info[p].content)
Emit(c, id, size, ok) == acks' = [acks EXCEPT ![c] = Append(@, [id |-> id, size |-> size, ok |-> ok])]
Reject(c, id, size) == Emit(c, id, size, FALSE)

TypeOK ==
  /\ session \in [Channels -> {"new", "open", "closed"}]
  /\ active \in [Channels -> Paths \cup {NoPath}]
  /\ phase \in [Paths -> Phases]
  /\ DOMAIN info = Paths
  /\ \A p \in Paths : phase[p] # "free" => info[p] \in Transfer
  /\ errored \subseteq Paths
  /\ nextPath \in 1..(MaxPaths + 1)
  /\ claimed \subseteq Ids
  /\ parts \subseteq Paths /\ finals \subseteq Paths /\ ledger \subseteq Paths
  /\ acks \in [Channels -> Seq(Ack)]
  /\ crashes \in 0..MaxCrashes

Init ==
  /\ session = [c \in Channels |-> "new"]
  /\ active = [c \in Channels |-> NoPath]
  /\ phase = [p \in Paths |-> "free"]
  /\ info = [p \in Paths |-> <<>>]
  /\ errored = {}
  /\ nextPath = 1
  /\ claimed = {}
  /\ parts = {} /\ finals = {} /\ ledger = {}
  /\ acks = [c \in Channels |-> <<>>]
  /\ crashes = 0

\* From rename to answer finalize runs without a pause: no handler of the
\* process comes between, only its death, and who looks at the directory.
Pausing == \A p \in Paths : phase[p] # "renamed"

\* setupDataChannel: a session for a channel that has just opened.
Open(c) ==
  /\ session[c] = "new" /\ Pausing
  /\ session' = [session EXCEPT ![c] = "open"]
  /\ UNCHANGED <<active, phase, info, errored, nextPath, claimed, disk, acks, crashes>>

\* Mutants of Discard: the release, or the removal of the part file, forgotten.
DiscardKeepsClaim(p) ==
  /\ phase' = [phase EXCEPT ![p] = "dropped"]
  /\ parts' = parts \ {p}
  /\ UNCHANGED <<claimed, finals, ledger>>
DiscardKeepsPart(p) ==
  /\ phase' = [phase EXCEPT ![p] = "dropped"]
  /\ claimed' = claimed \ {info[p].id}
  /\ UNCHANGED <<parts, finals, ledger>>

\* abortDetached: the transfer fails, its part file goes, its id is free again.
Discard(p) ==
  /\ phase' = [phase EXCEPT ![p] = "dropped"]
  /\ parts' = parts \ {p}
  /\ claimed' = claimed \ {info[p].id}
  /\ UNCHANGED <<finals, ledger>>

\* abort(active): the active transfer of c fails and c has none.
AbortActive(c) == Discard(active[c]) /\ active' = [active EXCEPT ![c] = NoPath]

Acceptable(m) == m.id \in Ids /\ m.size \in 0..MaxFileBytes /\ m.name \notin Sensitive

\* start while a transfer is active: both the old and the new one fail.
StartOverlapping(c, m) ==
  /\ m.type = "start" /\ active[c] # NoPath
  /\ AbortActive(c)
  /\ acks' = [acks EXCEPT ![c] = Append(Append(@,
       [id |-> info[active[c]].id, size |-> Received(active[c]), ok |-> FALSE]),
       [id |-> m.id, size |-> 0, ok |-> FALSE])]
  /\ UNCHANGED <<session, info, errored, nextPath, crashes>>

\* start of a malformed, oversized, sensitive or already claimed transfer.
StartRefused(c, m) ==
  /\ m.type = "start" /\ active[c] = NoPath
  /\ ~(Acceptable(m) /\ m.id \notin claimed)
  /\ Reject(c, m.id, 0)
  /\ UNCHANGED <<session, active, phase, info, errored, nextPath, claimed, disk, crashes>>

StartAccepted(c, m) ==
  /\ m.type = "start" /\ active[c] = NoPath
  /\ Acceptable(m) /\ m.id \notin claimed
  /\ nextPath \in Paths
  /\ claimed' = claimed \cup {m.id}
  /\ active' = [active EXCEPT ![c] = nextPath]
  /\ phase' = [phase EXCEPT ![nextPath] = "receiving"]
  /\ info' = [info EXCEPT ![nextPath] =
       [chan |-> c, id |-> m.id, name |-> m.name, size |-> m.size, content |-> <<>>]]
  /\ parts' = parts \cup {nextPath}
  /\ nextPath' = nextPath + 1
  /\ UNCHANGED <<session, errored, finals, ledger, acks, crashes>>

\* handleBinary: bytes without an active transfer are ignored, bytes beyond
\* the declared size abort it, others are written.
ChunkIgnored(c, m) ==
  /\ m.type = "chunk" /\ active[c] = NoPath
  /\ UNCHANGED rvars

ChunkOverflows(c, m) ==
  /\ m.type = "chunk" /\ active[c] # NoPath
  /\ Received(active[c]) + 1 > info[active[c]].size
  /\ AbortActive(c)
  /\ Reject(c, info[active[c]].id, Received(active[c]))
  /\ UNCHANGED <<session, info, errored, nextPath, crashes>>

ChunkWritten(c, m) ==
  /\ m.type = "chunk" /\ active[c] # NoPath
  /\ Received(active[c]) + 1 <= info[active[c]].size
  /\ info' = [info EXCEPT ![active[c]].content = Append(@, m.data)]
  /\ UNCHANGED <<session, active, phase, errored, nextPath, claimed, disk, acks, crashes>>

\* Mutant: an end nobody waits for is not answered.
EndUnanswered(c, m) ==
  /\ m.type = "end"
  /\ ~(active[c] # NoPath /\ m.id = info[active[c]].id)
  /\ UNCHANGED rvars

\* finish with an id other than the active one: answered when it is an id at
\* all; the active transfer stays.
EndUnknown(c, m) ==
  /\ m.type = "end"
  /\ ~(active[c] # NoPath /\ m.id = info[active[c]].id)
  /\ IF m.id \in Ids THEN Reject(c, m.id, 0) ELSE UNCHANGED acks
  /\ UNCHANGED <<session, active, phase, info, errored, nextPath, claimed, disk, crashes>>

\* finish of the active transfer: queued behind the session's pending promise.
EndQueued(c, m) ==
  /\ m.type = "end" /\ active[c] # NoPath
  /\ m.id = info[active[c]].id
  /\ active' = [active EXCEPT ![c] = NoPath]
  /\ phase' = [phase EXCEPT ![active[c]] = "queued"]
  /\ UNCHANGED <<session, info, errored, nextPath, claimed, disk, acks, crashes>>

HandleMessage(c, m) ==
  /\ session[c] = "open" /\ Pausing
  /\ Len(acks[c]) + 2 <= MaxAcks
  /\ \/ StartOverlapping(c, m) \/ StartRefused(c, m) \/ StartAccepted(c, m)
     \/ ChunkIgnored(c, m) \/ ChunkOverflows(c, m) \/ ChunkWritten(c, m)
     \/ EndUnknown(c, m) \/ EndQueued(c, m)

\* close: the channel is gone; only the active transfer is aborted, queued
\* ones still run.  Answers into a closed channel are swallowed by emit.
Close(c) ==
  /\ session[c] = "open" /\ Pausing
  /\ session' = [session EXCEPT ![c] = "closed"]
  /\ IF active[c] = NoPath
       THEN UNCHANGED <<active, phase, claimed, disk>>
       ELSE AbortActive(c)
  /\ acks' = [acks EXCEPT ![c] = <<>>]
  /\ UNCHANGED <<info, errored, nextPath, crashes>>

\* The answer of a finalization: lost when the channel has closed.
Answer(p, ok) ==
  IF session[info[p].chan] = "open"
    THEN Emit(info[p].chan, info[p].id, Received(p), ok)
    ELSE UNCHANGED acks

\* finalize starts when every earlier one of its session has ended.
First(p) ==
  /\ phase[p] = "queued" /\ Pausing
  /\ \A q \in Paths : (phase[q] \in {"queued", "flushing"} /\ info[q].chan = info[p].chan) => p <= q

FinalizeShort(p) ==
  /\ First(p) /\ Received(p) # info[p].size
  /\ Discard(p) /\ Answer(p, FALSE)
  /\ UNCHANGED <<session, active, info, errored, nextPath, crashes>>

\* Mutant: the received size is not compared with the declared one.
FlushAnySize(p) ==
  /\ First(p)
  /\ phase' = [phase EXCEPT ![p] = "flushing"]
  /\ UNCHANGED <<session, active, info, errored, nextPath, claimed, disk, acks, crashes>>

FinalizeFlush(p) ==
  /\ First(p) /\ Received(p) = info[p].size
  /\ phase' = [phase EXCEPT ![p] = "flushing"]
  /\ UNCHANGED <<session, active, info, errored, nextPath, claimed, disk, acks, crashes>>

\* stream.end has called back.  The callback ignores its error argument, so an
\* errored stream comes here too unless its error event is emitted first
\* (FlushFails).
Rename(p) ==
  /\ phase[p] = "flushing" /\ p \in parts /\ Pausing
  /\ phase' = [phase EXCEPT ![p] = "renamed"]
  /\ parts' = parts \ {p}
  /\ finals' = finals \cup {p}
  /\ UNCHANGED <<session, active, info, errored, nextPath, claimed, ledger, acks, crashes>>

\* The error event or rename fails: the catch block removes the part file, the
\* finally block releases the id.
FlushFails(p) ==
  /\ phase[p] = "flushing" /\ DiskFaults /\ Pausing
  /\ Discard(p) /\ Answer(p, FALSE)
  /\ UNCHANGED <<session, active, info, errored, nextPath, crashes>>

\* onComplete: index line, answer.
Publish(p) ==
  /\ phase[p] = "renamed"
  /\ phase' = [phase EXCEPT ![p] = "published"]
  /\ ledger' = ledger \cup {p}
  /\ claimed' = claimed \ {info[p].id}
  /\ Answer(p, TRUE)
  /\ UNCHANGED <<session, active, info, errored, nextPath, parts, finals, crashes>>

\* Mutant: the file stays under its final name.
RecordFailsKeeping(p) ==
  /\ phase[p] = "renamed" /\ DiskFaults
  /\ phase' = [phase EXCEPT ![p] = "dropped"]
  /\ ledger' \in {ledger, ledger \cup {p}}
  /\ claimed' = claimed \ {info[p].id}
  /\ Answer(p, FALSE)
  /\ UNCHANGED <<session, active, info, errored, nextPath, parts, finals, crashes>>

\* onComplete throws, in the append or, with the line written, in log(): the
\* catch block takes the file back, and the line stays.
RecordFails(p) ==
  /\ phase[p] = "renamed" /\ DiskFaults
  /\ phase' = [phase EXCEPT ![p] = "dropped"]
  /\ finals' = finals \ {p}
  /\ ledger' \in {ledger, ledger \cup {p}}
  /\ claimed' = claimed \ {info[p].id}
  /\ Answer(p, FALSE)
  /\ UNCHANGED <<session, active, info, errored, nextPath, parts, crashes>>

\* The open of the part file fails, which then does not exist, or a write,
\* for which there must be bytes; not after the stream has ended.
StreamFails(p) ==
  /\ DiskFaults /\ phase[p] \in Live \ {"renamed"} /\ p \notin errored
  /\ errored' = errored \cup {p}
  /\ \/ parts' = parts \ {p}
     \/ Received(p) > 0 /\ UNCHANGED parts
  /\ UNCHANGED <<session, active, phase, info, nextPath, claimed, finals, ledger, acks, crashes>>

\* The stream's error event while its transfer is still the active one; later
\* the handler finds another transfer active and does nothing.
ErrorEvent(c) ==
  /\ active[c] \in errored /\ Pausing
  /\ AbortActive(c)
  /\ Reject(c, info[active[c]].id, Received(active[c]))
  /\ UNCHANGED <<session, info, errored, nextPath, crashes>>

\* The process dies, possibly after the rename of a finalization or also after
\* its index append, and s6 starts it again with empty memory.
Crash ==
  /\ crashes < MaxCrashes
  /\ crashes' = crashes + 1
  /\ ledger' \in {ledger, ledger \cup {p \in Paths : phase[p] = "renamed"}}
  /\ phase' = [p \in Paths |-> IF phase[p] \in Live THEN "lost" ELSE phase[p]]
  /\ active' = [c \in Channels |-> NoPath]
  /\ claimed' = {}
  /\ session' = [c \in Channels |-> IF session[c] = "open" THEN "closed" ELSE session[c]]
  /\ acks' = [c \in Channels |-> <<>>]
  /\ UNCHANGED <<info, errored, nextPath, parts, finals>>

\* The peer takes the next answer off its channel.
TakeAck(c) ==
  /\ acks[c] # <<>>
  /\ acks' = [acks EXCEPT ![c] = Tail(@)]
  /\ UNCHANGED <<session, active, phase, info, errored, nextPath, claimed, disk, crashes>>

Finalize(p) ==
  FinalizeShort(p) \/ FinalizeFlush(p) \/ Rename(p) \/ FlushFails(p) \/ Publish(p) \/ RecordFails(p)

Next ==
  \/ \E c \in Channels : Open(c) \/ Close(c) \/ ErrorEvent(c) \/ TakeAck(c)
  \/ \E c \in Channels, m \in Message : HandleMessage(c, m)
  \/ \E p \in Paths : Finalize(p) \/ StreamFails(p)
  \/ Crash

Spec == Init /\ [][Next]_rvars

-----------------------------------------------------------------------------
LivePaths == {p \in Paths : phase[p] \in Live}

\* An id is claimed exactly while one transfer that is being received or
\* committed holds it: no claim leaks on any of the abort paths (which would
\* refuse that id for ever) and no two live transfers share an id, on one
\* channel or on two (claim / release of TransferRegistry).
ClaimsExact ==
  /\ claimed = {info[p].id : p \in LivePaths}
  /\ \A p, q \in LivePaths : info[p].id = info[q].id => p = q

\* Chunks carry no id, so a channel receives into at most one transfer, and
\* that transfer is its own: the active path of a channel is one it opened, and
\* no transfer is left receiving once its channel has moved on.
OneReceiver ==
  /\ \A c \in Channels : active[c] # NoPath =>
       phase[active[c]] = "receiving" /\ info[active[c]].chan = c
  /\ \A p \in Paths : phase[p] = "receiving" => active[info[p].chan] = p

\* A file is under its final name only with all the bytes its sender declared,
\* and not after its transfer failed; what was committed is there with its ledger
\* line; a line without its file is of a failed commit, which nobody was told of
\* as a success, also across a crash between rename and append.
PublishedWhole ==
  /\ \A p \in finals : Received(p) = info[p].size /\ phase[p] # "dropped"
  /\ \A p \in Paths : phase[p] = "published" => p \in ledger \cap finals
  /\ \A p \in ledger \ finals : phase[p] = "dropped"

\* A part file belongs to a transfer that is still running or to one a crash
\* cut off: every abort, short end and failed commit removes its own.
NoStrayParts == \A p \in parts : phase[p] \in Live \cup {"lost"}

\* A ledger line is never taken back, and a file only by the failing commit that
\* put it there, before anybody was told of it: not by a later transfer, an abort
\* or a crash.
PublicationsStand ==
  [][/\ ledger \subseteq ledger'
     /\ \A p \in finals \ finals' : phase[p] = "renamed" /\ phase'[p] = "dropped"]_rvars

\* An id is claimed, and a part file is there, exactly while a transfer needs it:
\* no abort path leaks either (TransferRegistry, TransferSession.discard).
ClaimsTrue == ClaimsExact /\ NoStrayParts

=============================================================================
