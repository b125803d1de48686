------------------------------ MODULE P2PTransfer ------------------------------
(***************************************************************************)
(* The command-line sender of the p2p dropbox (send.ts) in front of the    *)
(* receiver, over ordered reliable data channels that may close.           *)
(*                                                                         *)
(* Every channel is one run of send.ts: it sends its files one after the   *)
(* other.  The n-th file of channel c is named <<c, n>> and its k-th chunk *)
(* is the token <<c, n, k>>, so a mixed, reordered or foreign chunk shows. *)
(***************************************************************************)
EXTENDS TransferReceiver

CONSTANTS MaxFiles,   \* bound: files one run of the sender is given
          Workloads   \* per channel, the files given to its run; none: not run

\* The id of a file is random: two runs may draw the same, one run does not
\* draw an id twice.
ASSUME SenderAssumption ==
  /\ MaxFiles \in Nat
  /\ \A w \in Workloads, c \in Channels :
       /\ w[c] \in Seq([id: Ids, size: Sizes \cap Nat]) /\ Len(w[c]) <= MaxFiles
       /\ \A m, n \in DOMAIN w[c] : w[c][m].id = w[c][n].id => m = n
  /\ Channels \X (1..MaxFiles) = Names
  /\ \A s \in Sizes : Channels \X (1..MaxFiles) \X (1..s) \subseteq Payload

VARIABLES plan,      \* the workload: per channel, ids and sizes of its files
          sender,    \* per channel: what sendFile is doing
          fileNo,    \* per channel: index of the file in hand
          sending,   \* per channel: id, size and chunks sent of that file
          outcome,   \* per channel and file: what sendFile concluded
          toRecv     \* per channel: messages buffered or in flight

svars == <<plan, sender, fileNo, sending, outcome, toRecv>>
vars == <<rvars, svars>>

SenderPhases == {"connecting", "next", "sending", "awaiting", "done"}
Outcomes == {"none", "delivered", "refused", "unconfirmed", "stalled", "closed"}
FileNo == 1..MaxFiles
Whole(name, size) == [k \in 1..size |-> <<name[1], name[2], k>>]

SenderTypeOK ==
  /\ plan \in Workloads
  /\ sender \in [Channels -> SenderPhases]
  /\ fileNo \in [Channels -> 0..MaxFiles] /\ \A c \in Channels : fileNo[c] <= Len(plan[c])
  /\ sending \in [Channels -> [id: Ids \cup {NoId}, size: Sizes \cup {0}, sent: Nat]]
  /\ \A c \in Channels : sending[c].sent <= sending[c].size
  /\ outcome \in [Channels -> [FileNo -> Outcomes]]
  /\ toRecv \in [Channels -> Seq(Message)]

SInit ==
  /\ plan \in Workloads
  /\ sender = [c \in Channels |-> IF plan[c] = <<>> THEN "done" ELSE "connecting"]
  /\ fileNo = [c \in Channels |-> 0]
  /\ sending = [c \in Channels |-> [id |-> NoId, size |-> 0, sent |-> 0]]
  /\ outcome = [c \in Channels |-> [n \in FileNo |-> "none"]]
  /\ toRecv = [c \in Channels |-> <<>>]

Send(c, m) == toRecv' = [toRecv EXCEPT ![c] = Append(@, m)]

\* sendFile returns: the loop over filePaths takes the next file.
Conclude(c, result) ==
  /\ outcome' = [outcome EXCEPT ![c][fileNo[c]] = result]
  /\ sender' = [sender EXCEPT ![c] = "next"]

\* The channel opens on both ends and the sending loop starts.
Connect(c) ==
  /\ sender[c] = "connecting"
  /\ Open(c)
  /\ sender' = [sender EXCEPT ![c] = "next"]
  /\ UNCHANGED <<plan, fileNo, sending, outcome, toRecv>>

\* sendFile: the next file, a fresh id and the file-start.
SendStart(c) ==
  /\ sender[c] = "next" /\ session[c] = "open" /\ fileNo[c] < Len(plan[c])
  /\ LET file == plan[c][fileNo[c] + 1] IN
       /\ sending' = [sending EXCEPT ![c] = [id |-> file.id, size |-> file.size, sent |-> 0]]
       /\ Send(c, [type |-> "start", id |-> file.id, name |-> <<c, fileNo[c] + 1>>, size |-> file.size])
  /\ fileNo' = [fileNo EXCEPT ![c] = @ + 1]
  /\ sender' = [sender EXCEPT ![c] = "sending"]
  /\ UNCHANGED <<rvars, plan, outcome>>

\* Mutant: the read position in the file does not follow the chunks sent.
SendSameChunk(c) ==
  /\ sender[c] = "sending" /\ session[c] = "open"
  /\ sending[c].sent < sending[c].size
  /\ sending' = [sending EXCEPT ![c].sent = @ + 1]
  /\ Send(c, [type |-> "chunk", data |-> <<c, fileNo[c], 1>>])
  /\ UNCHANGED <<rvars, plan, sender, fileNo, outcome>>

SendChunk(c) ==
  /\ sender[c] = "sending" /\ session[c] = "open"
  /\ sending[c].sent < sending[c].size
  /\ sending' = [sending EXCEPT ![c].sent = @ + 1]
  /\ Send(c, [type |-> "chunk", data |-> <<c, fileNo[c], sending[c].sent + 1>>])
  /\ UNCHANGED <<rvars, plan, sender, fileNo, outcome>>

\* The buffer is drained, the answer handler registered, file-end sent.
SendEnd(c) ==
  /\ sender[c] = "sending" /\ session[c] = "open"
  /\ sending[c].sent = sending[c].size
  /\ sender' = [sender EXCEPT ![c] = "awaiting"]
  /\ Send(c, [type |-> "end", id |-> sending[c].id])
  /\ UNCHANGED <<rvars, plan, fileNo, sending, outcome>>

\* No drain progress for DRAIN_TIMEOUT_MS with bytes still buffered: sendFile
\* gives up in the middle and tells the receiver nothing.
Stall(c) ==
  /\ sender[c] = "sending" /\ toRecv[c] # <<>>
  /\ Conclude(c, "stalled")
  /\ UNCHANGED <<rvars, plan, fileNo, sending, toRecv>>

AckTimeout(c) ==
  /\ sender[c] = "awaiting"
  /\ Conclude(c, "unconfirmed")
  /\ UNCHANGED <<rvars, plan, fileNo, sending, toRecv>>

\* dc.send throws on a closed channel, and nothing answers on it any more.
SendFails(c) ==
  /\ sender[c] = "sending" /\ session[c] = "closed"
  /\ Conclude(c, "closed")
  /\ UNCHANGED <<rvars, plan, fileNo, sending, toRecv>>

\* The loop is over: the process exits and its channel closes.
Exit(c) ==
  /\ sender[c] = "next"
  /\ fileNo[c] = Len(plan[c]) \/ session[c] = "closed"
  /\ sender' = [sender EXCEPT ![c] = "done"]
  /\ UNCHANGED <<rvars, plan, fileNo, sending, outcome, toRecv>>

\* Mutant: ok of an answer is not looked at.
ReceiveAckAnyVerdict(c) ==
  /\ TakeAck(c)
  /\ LET a == Head(acks[c]) IN
     IF sender[c] = "awaiting" /\ a.id = sending[c].id
       THEN Conclude(c, IF a.size = sending[c].size THEN "delivered" ELSE "refused")
       ELSE UNCHANGED <<sender, outcome>>
  /\ UNCHANGED <<plan, fileNo, sending, toRecv>>

\* dc.onMessage: pendingAcks holds the id only while sendFile awaits it; every
\* other answer is dropped.
ReceiveAck(c) ==
  /\ TakeAck(c)
  /\ LET a == Head(acks[c]) IN
     IF sender[c] = "awaiting" /\ a.id = sending[c].id
       THEN Conclude(c, IF a.ok /\ a.size = sending[c].size THEN "delivered" ELSE "refused")
       ELSE UNCHANGED <<sender, outcome>>
  /\ UNCHANGED <<plan, fileNo, sending, toRecv>>

Deliver(c) ==
  /\ toRecv[c] # <<>>
  /\ HandleMessage(c, Head(toRecv[c]))
  /\ toRecv' = [toRecv EXCEPT ![c] = Tail(@)]
  /\ UNCHANGED <<plan, sender, fileNo, sending, outcome>>

\* The channel dies with everything in flight, by itself or with its sender.
Lose(c) ==
  /\ Close(c)
  /\ toRecv' = [toRecv EXCEPT ![c] = <<>>]
  /\ UNCHANGED <<plan, sender, fileNo, sending, outcome>>

ReceiverCrash ==
  /\ Crash
  /\ toRecv' = [c \in Channels |-> <<>>]
  /\ UNCHANGED <<plan, sender, fileNo, sending, outcome>>

ReceiverStep ==
  /\ \/ \E c \in Channels : ErrorEvent(c)
     \/ \E p \in Paths : Finalize(p) \/ StreamFails(p)
  /\ UNCHANGED svars

\* Every sender is gone and every channel closed: nothing is left to do.
Quiet ==
  /\ \A c \in Channels : sender[c] = "done" /\ session[c] # "open" /\ acks[c] = <<>>
  /\ LivePaths = {}
  /\ UNCHANGED vars

SenderStep(c) ==
  Connect(c) \/ SendStart(c) \/ SendChunk(c) \/ SendEnd(c) \/ Stall(c) \/ AckTimeout(c)
    \/ SendFails(c) \/ Exit(c) \/ ReceiveAck(c)

PInit == Init /\ SInit
PNext ==
  \/ \E c \in Channels : SenderStep(c) \/ Deliver(c) \/ Lose(c)
  \/ ReceiverCrash
  \/ ReceiverStep
  \/ Quiet

PSpec == PInit /\ [][PNext]_vars

-----------------------------------------------------------------------------
\* What the sender concludes is never a lie: a delivered file is published and
\* in the ledger (send.ts #104), a refused one is not published and never will
\* be, and no file is published twice.
OutcomeTrue ==
  /\ \A c \in Channels, n \in FileNo : outcome[c][n] = "delivered" =>
       \E p \in ledger \cap finals : info[p].name = <<c, n>>
  /\ \A p \in finals :
       /\ \A q \in finals : info[p].name = info[q].name => p = q
       /\ outcome[info[p].name[1]][info[p].name[2]] # "refused"

\* README: "Success follows stream flush, atomic publication and ledger append,
\* then ACK".  A file reported as delivered was flushed without a write error.
DeliveredIsFlushed ==
  \A c \in Channels, n \in FileNo : outcome[c][n] = "delivered" =>
    \E p \in finals \ errored : info[p].name = <<c, n>>

\* README: "Concurrent channels cannot mix their bytes; overlapping files on a
\* single channel are rejected".  Whatever was published under a name is that
\* file, whole and in order, also after the sender stalled in an earlier one.
NoMixing == \A p \in finals : info[p].content = Whole(info[p].name, info[p].size)

\* A sender that waits has an answer coming as long as its channel lives: the
\* file-end is under way, its file is being committed, or the answer is on its
\* way, whatever happened to the transfer before.  It never needs its timer.
EndAnswered ==
  \A c \in Channels : sender[c] = "awaiting" /\ session[c] = "open" =>
    LET id == sending[c].id IN
      \/ \E i \in DOMAIN toRecv[c] : toRecv[c][i] = [type |-> "end", id |-> id]
      \/ \E p \in Paths : phase[p] \in {"queued", "flushing", "renamed"} /\ info[p].chan = c /\ info[p].id = id
      \/ \E i \in DOMAIN acks[c] : acks[c][i].id = id

\* What arrives is what was sent, and what the sender concludes of it is true
\* (sendFile, TransferSession).
TransferTrue == OutcomeTrue /\ NoMixing
=============================================================================
