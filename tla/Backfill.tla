------------------------------- MODULE Backfill -------------------------------
(***************************************************************************)
(* The scheduled and the requested imports of 09-discord_pb: the           *)
(* supervisor loop of service.py, the worker it spawns (backfill.py), and  *)
(* the PocketBase handlers that store import requests and channel          *)
(* selections and wake the supervisor with marker files in /data.          *)
(*                                                                         *)
(* A channel's messages are 1..posted[c], in snowflake order; Discord      *)
(* answers with pages of at most PageSize of them.  The marker files, the  *)
(* watermark file and the database survive a restart, all else does not.   *)
(* The poll interval ends whenever the clock pleases.                      *)
(***************************************************************************)
EXTENDS Integers, FiniteSets

CONSTANTS Channels,     \* importable channels
          NoChannel,    \* no channel is being walked
          PageSize,     \* messages of one page (100 in the code)
          MaxPosted,    \* bound: messages posted in one channel
          MaxRequests,  \* bound: import requests and selection changes
          MaxFaults,    \* bound: calls to Discord or PocketBase that fail
          MaxCrashes    \* bound: times PocketBase or the supervisor dies

ASSUME BackfillAssumption ==
  /\ NoChannel \notin Channels
  /\ PageSize \in Nat \ {0}
  /\ MaxPosted \in Nat /\ MaxRequests \in Nat /\ MaxFaults \in Nat /\ MaxCrashes \in Nat

VARIABLES posted,    \* per channel: its newest message in Discord, 0 for none
          archived,  \* per channel: the messages in discord_messages
          mark,      \* per channel: its watermark in the state file
          selected,  \* channels the archive follows
          request,   \* per channel: its dc_import_requests row
          asked,     \* requests made so far
          owed,      \* markers a handler has yet to write
          markers,   \* marker files in /data
          due,       \* the poll interval has passed
          sup,       \* the supervisor: its job file, full_request, requested_only
          step,      \* where the worker process is, "off" for none
          run,       \* what the worker has read and what failed
          walk,      \* the worker's walk through one channel
          faults, crashes

db == <<archived, selected, request, asked>>
bvars == <<posted, db, mark, owed, markers, due, sup, step, run, walk, faults, crashes>>

NoMark == -1
NoCursor == -1
Marks == {NoMark} \cup 0..MaxPosted
\* A row holds its version; "since" records, for the properties, what the
\* channel held when the request was made.
NoRequest == [id |-> 0, since |-> 0]
NoRun == [todo |-> {}, seen |-> [c \in Channels |-> 0], goal |-> [c \in Channels |-> NoMark],
          read |-> FALSE, failed |-> FALSE]
NoWalk == [chan |-> NoChannel, historical |-> FALSE, cursor |-> NoCursor, maximum |-> 0, page |-> {}]
Least(a, b) == IF a <= b THEN a ELSE b
Greatest(a, b) == IF a >= b THEN a ELSE b

Run == [todo: SUBSET Channels, seen: [Channels -> 0..MaxRequests], goal: [Channels -> Marks], read: BOOLEAN, failed: BOOLEAN]
Walk == [chan: Channels \cup {NoChannel}, historical: BOOLEAN, cursor: {NoCursor} \cup 0..MaxPosted,
         maximum: 0..MaxPosted, page: SUBSET (1..MaxPosted)]

TypeOK ==
  /\ posted \in [Channels -> 0..MaxPosted]
  /\ archived \in [Channels -> SUBSET (1..MaxPosted)]
  /\ mark \in [Channels -> Marks]
  /\ selected \subseteq Channels
  /\ request \in [Channels -> [id: 0..MaxRequests, since: 0..MaxPosted]]
  /\ asked \in 0..MaxRequests
  /\ owed \subseteq {"full", "channel"} /\ markers \subseteq {"full", "channel"}
  /\ due \in BOOLEAN
  /\ sup \in [job: {"idle", "running", "succeeded", "failed"}, woken: BOOLEAN,
              full: BOOLEAN, requestedOnly: BOOLEAN]
  /\ step \in {"off", "select", "pick", "fetch", "upsert", "save", "ack"}
  /\ run \in Run /\ walk \in Walk
  /\ (step \in {"fetch", "upsert", "save", "ack"}) = (walk.chan # NoChannel)
  /\ faults \in 0..MaxFaults /\ crashes \in 0..MaxCrashes

NoSup == [job |-> "idle", woken |-> FALSE, full |-> FALSE, requestedOnly |-> FALSE]

Init ==
  /\ posted \in [Channels -> {0, Least(2, MaxPosted)}]
  /\ archived = [c \in Channels |-> {}]
  /\ mark = [c \in Channels |-> NoMark]
  /\ selected \in SUBSET Channels
  /\ request = [c \in Channels |-> NoRequest]
  /\ asked = 0
  /\ owed = {} /\ markers = {}
  /\ due = TRUE
  /\ sup = NoSup /\ step = "off" /\ run = NoRun /\ walk = NoWalk
  /\ faults = 0 /\ crashes = 0

-----------------------------------------------------------------------------
\* The world: a message is posted; the poll interval passes.
Post(c) ==
  /\ posted[c] < MaxPosted
  /\ posted' = [posted EXCEPT ![c] = @ + 1]
  /\ UNCHANGED <<db, mark, owed, markers, due, sup, step, run, walk, faults, crashes>>

Due ==
  /\ ~due /\ due' = TRUE
  /\ UNCHANGED <<posted, db, mark, owed, markers, sup, step, run, walk, faults, crashes>>

\* POST .../import: the row gets a fresh request_id, then the marker is owed.
Import(c) ==
  /\ asked < MaxRequests
  /\ asked' = asked + 1
  /\ request' = [request EXCEPT ![c] = [id |-> asked + 1, since |-> posted[c]]]
  /\ owed' = owed \cup {"channel"}
  /\ UNCHANGED <<posted, archived, mark, selected, markers, due, sup, step, run, walk, faults, crashes>>

\* POST .../select: the selection is saved, then a full sweep is asked for.
Select(c) ==
  /\ asked < MaxRequests
  /\ asked' = asked + 1
  /\ \E on \in BOOLEAN : selected' = IF on THEN selected \cup {c} ELSE selected \ {c}
  /\ owed' = owed \cup {"full"}
  /\ UNCHANGED <<posted, archived, mark, request, markers, due, sup, step, run, walk, faults, crashes>>

WriteMarker(k) ==
  /\ k \in owed
  /\ owed' = owed \ {k}
  /\ markers' = markers \cup {k}
  /\ UNCHANGED <<posted, db, mark, due, sup, step, run, walk, faults, crashes>>

-----------------------------------------------------------------------------
\* The supervisor, between two sleeps: the markers are consumed one after the
\* other, then the worker is spawned.
ConsumeFull ==
  /\ ~sup.woken /\ step = "off"
  /\ due \/ markers # {}
  /\ sup' = [sup EXCEPT !.woken = TRUE, !.full = "full" \in markers]
  /\ markers' = markers \ {"full"}
  /\ UNCHANGED <<posted, db, mark, owed, due, step, run, walk, faults, crashes>>

\* Mutant: a due sweep is taken for one of requests only.
SpawnRequestedOnly ==
  /\ sup.woken /\ step = "off"
  /\ markers' = markers \ {"channel"}
  /\ sup' = [job |-> "running", woken |-> FALSE, full |-> FALSE, requestedOnly |-> ~sup.full]
  /\ step' = "select" /\ run' = NoRun
  /\ UNCHANGED <<posted, db, mark, owed, due, walk, faults, crashes>>

Spawn ==
  /\ sup.woken /\ step = "off"
  /\ markers' = markers \ {"channel"}
  /\ sup' = [job |-> "running", woken |-> FALSE, full |-> FALSE, requestedOnly |-> ~due /\ ~sup.full]
  /\ step' = "select" /\ run' = NoRun
  /\ UNCHANGED <<posted, db, mark, owed, due, walk, faults, crashes>>

\* The worker has ended: the job file tells how, and only a full sweep starts
\* a new poll interval.
Reap ==
  /\ step = "pick" /\ run.todo = {}
  /\ sup' = [sup EXCEPT !.job = IF run.failed THEN "failed" ELSE "succeeded"]
  /\ due' = (due /\ sup.requestedOnly)
  /\ step' = "off"
  /\ UNCHANGED <<posted, db, mark, owed, markers, run, walk, faults, crashes>>

-----------------------------------------------------------------------------
\* Mutant: a full sweep takes the selected channels only.
ReadSelectionOnly ==
  /\ step = "select"
  /\ LET asks == {c \in Channels : request[c].id # 0}
         taken == IF sup.requestedOnly THEN asks ELSE selected
     IN  run' = [todo |-> taken,
                 seen |-> [c \in Channels |-> request[c].id],
                 goal |-> [c \in Channels |-> IF c \in taken THEN posted[c] ELSE NoMark],
                 read |-> TRUE, failed |-> run.failed]
  /\ step' = "pick"
  /\ UNCHANGED <<posted, db, mark, owed, markers, due, sup, walk, faults, crashes>>

\* The worker reads the selection and the requests; a sweep of requests only
\* takes the latter.
ReadSelection ==
  /\ step = "select"
  /\ LET asks == {c \in Channels : request[c].id # 0}
         taken == asks \cup (IF sup.requestedOnly THEN {} ELSE selected)
     IN  run' = [todo |-> taken,
                 seen |-> [c \in Channels |-> request[c].id],
                 goal |-> [c \in Channels |-> IF c \in taken THEN posted[c] ELSE NoMark],
                 read |-> TRUE, failed |-> run.failed]
  /\ step' = "pick"
  /\ UNCHANGED <<posted, db, mark, owed, markers, due, sup, walk, faults, crashes>>

\* A full sweep first lists the guilds: one that cannot be listed counts as a
\* failure, and the sweep goes on.
DiscoveryFails ==
  /\ step = "select" /\ ~sup.requestedOnly /\ faults < MaxFaults
  /\ faults' = faults + 1
  /\ run' = [run EXCEPT !.failed = TRUE]
  /\ UNCHANGED <<posted, db, mark, owed, markers, due, sup, step, walk, crashes>>

\* The selection cannot be read: the whole run fails.
SelectionFails ==
  /\ step = "select" /\ faults < MaxFaults
  /\ faults' = faults + 1
  /\ run' = [NoRun EXCEPT !.failed = TRUE]
  /\ step' = "pick"
  /\ UNCHANGED <<posted, db, mark, owed, markers, due, sup, walk, crashes>>

\* backfill: without a watermark it walks back from the newest message, with
\* one it walks on from it.
BeginWalk(c) ==
  /\ step = "pick" /\ c \in run.todo
  /\ run' = [run EXCEPT !.todo = @ \ {c}]
  /\ walk' = [chan |-> c, historical |-> mark[c] = NoMark, cursor |-> mark[c],
              maximum |-> Greatest(mark[c], 0), page |-> {}]
  /\ step' = "fetch"
  /\ UNCHANGED <<posted, db, mark, owed, markers, due, sup, faults, crashes>>

\* Discord's answer: the newest messages before the cursor, or the oldest
\* after it.
Page ==
  LET n == posted[walk.chan]
      first == IF walk.cursor = NoCursor THEN n + 1 ELSE walk.cursor
  IN  IF walk.historical
        THEN {i \in 1..n : first - PageSize <= i /\ i < first}
        ELSE {i \in 1..n : walk.cursor < i /\ i <= walk.cursor + PageSize}

FetchPage ==
  /\ step = "fetch" /\ Page # {}
  /\ walk' = [walk EXCEPT !.page = Page]
  /\ step' = "upsert"
  /\ UNCHANGED <<posted, db, mark, owed, markers, due, sup, run, faults, crashes>>

FetchEmpty ==
  /\ step = "fetch" /\ Page = {}
  /\ step' = "save"
  /\ UNCHANGED <<posted, db, mark, owed, markers, due, sup, run, walk, faults, crashes>>

Newest(S) == CHOOSE i \in S : \A j \in S : j <= i
Oldest(S) == CHOOSE i \in S : \A j \in S : i <= j

\* post_batch: the page is stored, the cursor and the maximum move on.
StorePage ==
  /\ step = "upsert"
  /\ archived' = [archived EXCEPT ![walk.chan] = @ \cup walk.page]
  /\ walk' = [walk EXCEPT !.page = {},
                !.cursor = IF walk.historical THEN Oldest(walk.page) ELSE Newest(walk.page),
                !.maximum = Greatest(@, Newest(walk.page))]
  /\ step' = "fetch"
  /\ UNCHANGED <<posted, selected, request, asked, mark, owed, markers, due, sup, run, faults, crashes>>

\* Mutant: the watermark is saved at the channel's newest message.
SaveNewest ==
  /\ step = "save"
  /\ mark' = [mark EXCEPT ![walk.chan] = posted[walk.chan]]
  /\ step' = "ack"
  /\ UNCHANGED <<posted, db, owed, markers, due, sup, run, walk, faults, crashes>>

\* save_state
SaveMark ==
  /\ step = "save"
  /\ mark' = [mark EXCEPT ![walk.chan] = walk.maximum]
  /\ step' = "ack"
  /\ UNCHANGED <<posted, db, owed, markers, due, sup, run, walk, faults, crashes>>

\* Mutant: the row is deleted whatever its version.
AckAny ==
  /\ step = "ack"
  /\ request' = IF run.seen[walk.chan] # 0
                  THEN [request EXCEPT ![walk.chan] = NoRequest] ELSE request
  /\ step' = "pick" /\ walk' = NoWalk
  /\ UNCHANGED <<posted, archived, selected, asked, mark, owed, markers, due, sup, run, faults, crashes>>

\* import-complete, then import-ack with the version the run has read.
Ack ==
  /\ step = "ack"
  /\ request' = IF run.seen[walk.chan] # 0 /\ request[walk.chan].id = run.seen[walk.chan]
                  THEN [request EXCEPT ![walk.chan] = NoRequest] ELSE request
  /\ step' = "pick" /\ walk' = NoWalk
  /\ UNCHANGED <<posted, archived, selected, asked, mark, owed, markers, due, sup, run, faults, crashes>>

\* Mutant: the failure is not counted.
ChannelFailsSilently ==
  /\ step \in {"fetch", "upsert", "save", "ack"} /\ faults < MaxFaults
  /\ faults' = faults + 1
  /\ step' = "pick" /\ walk' = NoWalk
  /\ UNCHANGED <<posted, db, mark, owed, markers, due, sup, run, crashes>>

\* One channel fails, at any call; the others still run.
ChannelFails ==
  /\ step \in {"fetch", "upsert", "save", "ack"} /\ faults < MaxFaults
  /\ faults' = faults + 1
  /\ run' = [run EXCEPT !.failed = TRUE]
  /\ step' = "pick" /\ walk' = NoWalk
  /\ UNCHANGED <<posted, db, mark, owed, markers, due, sup, crashes>>

\* PocketBase or the supervisor dies, the worker with it, and s6 starts them
\* again: the next sweep is due at once.
Crash ==
  /\ crashes < MaxCrashes
  /\ crashes' = crashes + 1
  /\ owed' = {} /\ due' = TRUE
  /\ sup' = NoSup /\ step' = "off" /\ run' = NoRun /\ walk' = NoWalk
  /\ UNCHANGED <<posted, db, mark, markers, faults>>

Worker ==
  \/ DiscoveryFails \/ ReadSelection \/ SelectionFails
  \/ \E c \in Channels : BeginWalk(c)
  \/ FetchPage \/ FetchEmpty \/ StorePage \/ SaveMark \/ Ack \/ ChannelFails

Next ==
  \/ \E c \in Channels : Post(c) \/ Import(c) \/ Select(c)
  \/ \E k \in {"full", "channel"} : WriteMarker(k)
  \/ Due \/ ConsumeFull \/ Spawn \/ Reap
  \/ Worker
  \/ Crash

Spec == Init /\ [][Next]_bvars

\* Handlers finish, the clock runs, the loop polls and the worker's calls are
\* answered (urlopen has timeouts).
Fairness ==
  /\ WF_bvars(Due) /\ WF_bvars(\E k \in {"full", "channel"} : WriteMarker(k))
  /\ WF_bvars(ConsumeFull) /\ WF_bvars(Spawn) /\ WF_bvars(Reap) /\ WF_bvars(Worker)

-----------------------------------------------------------------------------
\* Everything up to a channel's watermark is archived, whatever failed or died
\* in between: an incremental sweep never looks below it again, so a gap there
\* would be lost for good (backfill and save_state of backfill.py).
WatermarkCovered == \A c \in Channels : mark[c] # NoMark => 1..mark[c] \subseteq archived[c]

\* An import request is answered - its row deleted - only when every message
\* its channel held when it was made is archived; a request made while a sweep
\* was already under way is not answered by that sweep (import-ack).
AnsweredIsSwept ==
  [][\A c \in Channels : request[c].id # 0 /\ request'[c] = NoRequest =>
       1..request[c].since \subseteq archived[c]]_bvars

\* The job file says "succeeded" only of a run that brought every channel it
\* took up to where the channel stood when the run began (write_job).
SuccessIsComplete ==
  [][step = "pick" /\ step' = "off" /\ sup'.job = "succeeded" =>
       \A c \in Channels : run.goal[c] <= mark[c]]_bvars

\* Every import request is answered in the end, failures and restarts included
\* ("Failures keep the request for a later attempt", README.md of 09-discord_pb):
\* again and again, a channel has no request open.
RequestServed == \A c \in Channels : []<>(request[c].id = 0)

\* Every message of a channel that stays selected is archived in the end.
SelectedSwept == \A c \in Channels : []<>(c \in selected => 1..posted[c] \subseteq archived[c])

\* Neither an answered request nor a job that succeeded left a message behind
\* (import-ack, write_job).
SweptTrue == AnsweredIsSwept /\ SuccessIsComplete

\* Requests and selected channels are served in the end (backfill.py).
ChannelsServed == RequestServed /\ SelectedSwept
=============================================================================
