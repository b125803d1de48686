---------------------------- MODULE MessageArchive ----------------------------
(***************************************************************************)
(* How one Discord message reaches its row in PocketBase, by the live      *)
(* events of the Gateway and by the REST pages of the backfill at once:    *)
(* upsertMessages, upsertDispatch, normalizeDispatch and stale of          *)
(* pb_hooks/lib/discord_ingest.js, dispatch of discord_live.js, and the    *)
(* fetch stamp of backfill.py.  Each write is one SQLite transaction.      *)
(*                                                                         *)
(* The body is the number of the message's text, 1 at creation and one     *)
(* more per edit; extra counts the changes that are no edits (an unfurled  *)
(* link, a pin).  The channel is selected and its entity known.            *)
(***************************************************************************)
EXTENDS Naturals, Sequences

CONSTANTS MaxTime,     \* bound: ticks of the clock
          MaxEvents,   \* bound: events Discord emits for the message
          MaxReplays   \* bound: times a resumed session repeats events

ASSUME ArchiveAssumption == MaxTime \in Nat \ {0} /\ MaxEvents \in Nat /\ MaxReplays \in Nat

VARIABLES now,      \* the clock
          truth,    \* the message on Discord
          events,   \* what the Gateway has emitted about it, in order
          next,     \* index of the next event to be applied
          lost,     \* some event will never be applied
          page,     \* the REST page being fetched or posted
          row,      \* the discord_messages record
          replays

vars == <<now, truth, events, next, lost, page, row, replays>>

\* Body 0: not known (or not sent); edited 0: never edited (or not sent).
None == [exists |-> FALSE]
NoPage == [step |-> "none"]
Time == 0..MaxTime
Bodies == 0..(MaxEvents + 1)
Extras == 0..MaxEvents
Row == [exists: {TRUE}, body: Bodies, extra: Extras, edited: Time, deleted: BOOLEAN, live: BOOLEAN, at: Time]

TypeOK ==
  /\ now \in Time
  /\ truth \in [body: Bodies, extra: Extras, edited: Time, deleted: BOOLEAN]
  /\ events \in Seq([type: {"create", "update", "delete"}, body: Bodies, extra: Extras, edited: Time])
  /\ next \in 1..(Len(events) + 1)
  /\ lost \in BOOLEAN
  /\ page \in {NoPage} \cup [step: {"stamped"}, at: Time]
               \cup [step: {"read"}, at: Time, found: BOOLEAN, body: Bodies, extra: Extras, edited: Time]
  /\ row \in {None} \cup Row
  /\ row.exists => row.at <= now /\ (row.edited # 0 => row.body # 0)
  /\ replays \in 0..MaxReplays

\* The message may be older than the listener's session.
Init ==
  /\ now = 1
  /\ truth \in {[body |-> b, extra |-> 0, edited |-> 0, deleted |-> FALSE] : b \in {0, 1}}
  /\ events = <<>> /\ next = 1
  /\ lost = (truth.body = 1)
  /\ page = NoPage
  /\ row = None
  /\ replays = 0

Tick ==
  /\ now < MaxTime
  /\ now' = now + 1
  /\ UNCHANGED <<truth, events, next, lost, page, row, replays>>

-----------------------------------------------------------------------------
\* Discord.

Emit(type, body, extra, edited) ==
  /\ Len(events) < MaxEvents
  /\ events' = Append(events, [type |-> type, body |-> body, extra |-> extra, edited |-> edited])
  /\ UNCHANGED <<now, next, lost, page, row, replays>>

Posted == truth.body # 0 /\ ~truth.deleted
Create == truth.body = 0 /\ truth' = [truth EXCEPT !.body = 1] /\ Emit("create", 1, 0, 0)
Edit ==
  /\ Posted /\ truth.edited < now
  /\ truth' = [truth EXCEPT !.body = @ + 1, !.edited = now]
  /\ Emit("update", truth.body + 1, truth.extra, now)
\* An update that is no edit is sent with the whole message or with the changed
\* fields alone.
Touch ==
  /\ Posted
  /\ truth' = [truth EXCEPT !.extra = @ + 1]
  /\ \/ Emit("update", truth.body, truth.extra + 1, truth.edited)
     \/ Emit("update", 0, truth.extra + 1, 0)
Delete == Posted /\ truth' = [truth EXCEPT !.deleted = TRUE] /\ Emit("delete", 0, 0, 0)

\* The session is resumed from an earlier point, or given up for a new one.
Replay ==
  /\ replays < MaxReplays /\ replays' = replays + 1
  /\ next' \in 1..(next - 1)
  /\ UNCHANGED <<now, truth, events, lost, page, row>>
GiveUp ==
  /\ next <= Len(events)
  /\ next' = Len(events) + 1 /\ lost' = TRUE
  /\ UNCHANGED <<now, truth, events, page, row, replays>>

-----------------------------------------------------------------------------
\* The writes.

Partial(r) == r.body = 0 /\ ~r.deleted

\* Mutants of Stale: an equal edit time counts as older; the fetch time of a
\* page is not looked at.
StaleEqual(item) ==
  /\ row.exists
  /\ \/ row.deleted
     \/ row.edited >= item.edited
StaleUnfetched(item) ==
  /\ row.exists
  /\ row.deleted \/ row.edited > item.edited

\* stale(previous, item)
Stale(item) ==
  /\ row.exists
  /\ \/ row.deleted
     \/ row.edited > item.edited
     \/ row.live /\ ~item.live /\ item.at <= row.at

\* writeMessage
Write(item) == row' = IF Stale(item) THEN row ELSE item

\* normalizeDispatch: an event is a patch over the previous row, field by field.
Normalized(e) ==
  LET old == IF row.exists THEN row ELSE [body |-> 0, extra |-> 0, edited |-> 0, deleted |-> FALSE]
      sent == e.body # 0 IN
  [exists |-> TRUE,
   body |-> IF sent THEN e.body ELSE old.body,
   extra |-> IF e.type = "delete" THEN old.extra ELSE e.extra,
   edited |-> IF sent THEN e.edited ELSE old.edited,
   deleted |-> old.deleted \/ e.type = "delete",
   live |-> TRUE, at |-> now]

\* A create that repeats what a live event has already brought is no edit.
Repeated(e) == e.type = "create" /\ row.exists /\ row.live /\ ~Partial(row)

\* upsertDispatch
Dispatch ==
  /\ next <= Len(events)
  /\ IF Repeated(events[next]) THEN UNCHANGED row ELSE Write(Normalized(events[next]))
  /\ next' = next + 1
  /\ UNCHANGED <<now, truth, events, lost, page, replays>>

\* backfill.py takes fetched_at, requests the page, and posts it.
Stamp ==
  /\ page = NoPage
  /\ page' = [step |-> "stamped", at |-> now]
  /\ UNCHANGED <<now, truth, events, next, lost, row, replays>>
Fetch ==
  /\ page.step = "stamped"
  /\ page' = [step |-> "read", at |-> page.at, found |-> Posted, body |-> truth.body,
             extra |-> truth.extra, edited |-> truth.edited]
  /\ UNCHANGED <<now, truth, events, next, lost, row, replays>>
\* upsertMessages
Post ==
  /\ page.step = "read"
  /\ IF page.found
       THEN Write([exists |-> TRUE, body |-> page.body, extra |-> page.extra, edited |-> page.edited,
                   deleted |-> FALSE, live |-> FALSE, at |-> page.at])
       ELSE UNCHANGED row
  /\ page' = NoPage
  /\ UNCHANGED <<now, truth, events, next, lost, replays>>

Next ==
  \/ Tick \/ Create \/ Edit \/ Touch \/ Delete \/ Replay \/ GiveUp
  \/ Dispatch \/ Stamp \/ Fetch \/ Post

Spec == Init /\ [][Next]_vars
-----------------------------------------------------------------------------
\* README: "Older pages/edits cannot overwrite newer live edits" and "no replay
\* can resurrect a tombstone".  A row never goes back to an earlier text, a page
\* never takes back a later change, and a tombstone stays with the text it had,
\* whether a page fetched before the deletion comes or events are repeated.
NeverBack ==
  [][row.exists =>
       /\ row'.exists /\ row'.body >= row.body /\ row'.edited >= row.edited
       /\ row.deleted => row'.deleted /\ row'.body = row.body
       /\ page.step = "read" /\ page' = NoPage => row'.extra >= row.extra]_vars

\* With every event applied and no page under way the row is the message, in
\* whatever order pages, events and replays came.
Converged ==
  next = Len(events) + 1 /\ ~lost /\ page = NoPage /\ truth.body # 0 =>
    /\ row.exists /\ row.deleted = truth.deleted
    /\ row.body = truth.body /\ row.extra = truth.extra /\ row.edited = truth.edited
=============================================================================
