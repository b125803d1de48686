----------------------------- MODULE ArchivePanel -----------------------------
(***************************************************************************)
(* The message list of the Discord archive's panel (pb_public/panel.js):   *)
(* loadMessages with its generation and its two requests, the buttons that *)
(* start one, and the realtime loop that reloads after each subscription   *)
(* and applies the events of PocketBase to the list.                       *)
(*                                                                         *)
(* Message m of Messages is newer than m - 1; version 0 is not archived    *)
(* yet, and every write of its record makes the next one.  What the filter *)
(* box and the date picker select (submittedFilter, activeDay and the      *)
(* timeline's target) is one query, a set of messages.  A list is the      *)
(* versions of the rows it has: its order is that of the messages.         *)
(***************************************************************************)
EXTENDS Integers, Sequences, FiniteSets

CONSTANTS Messages,    \* 1..n
          Queries,     \* sets of messages that can be asked for
          Days,        \* those of them that name a day
          PerPage,     \* 20 rows
          MaxVersion,  \* bound: writes of a record
          MaxLoads,    \* bound: loads begun
          MaxFails,    \* bound: failed requests
          MaxDrops     \* bound: realtime connections lost

ASSUME PanelAssumption ==
  /\ Messages \subseteq Nat /\ IsFiniteSet(Messages) /\ Messages \in Queries
  /\ Days \subseteq Queries /\ Queries \subseteq SUBSET Messages
  /\ {PerPage, MaxVersion, MaxLoads} \subseteq Nat \ {0} /\ {MaxFails, MaxDrops} \subseteq Nat

VARIABLES
  archive,      \* per message, the version of its record
  query, pageNo,  \* what the next load asks for
  moved,        \* history: the page was changed without a load since the last one was begun
  pages,        \* page count of the last list put on show
  canGo,        \* which of the buttons previous (-1) and next (1) are enabled
  generation,   \* messagesGeneration: loads begun so far
  load,         \* per generation, its load
  list,         \* currentMessages: [rows -> versions]
  refreshing,   \* generation the Refresh button waits for, 0 none
  stream,       \* where the realtime loop is
  reload,       \* generation the loop awaits or has awaited, 0 none
  subscribed,   \* PocketBase sends this connection its events
  unread,         \* events on the connection, not read yet
  fails, drops

asked == <<query, pageNo, moved>>
view == <<asked, pages, canGo, generation, load, list, refreshing>>
live == <<stream, reload, subscribed, unread>>
panelVars == <<archive, view, live, fails, drops>>

Loads == 1..MaxLoads
Empty == [m \in {} |-> 0]
NoLoad == [stage |-> "none", query |-> {}, page |-> 1, back |-> 1, rows |-> Empty, total |-> 0]
\* Of a load that is over, only the end and the page matter.
Over(l, how) == [NoLoad EXCEPT !.stage = how, !.page = l.page]
Lists == UNION {[S -> 1..MaxVersion] : S \in SUBSET Messages}

PanelTypeOK ==
  /\ archive \in [Messages -> 0..MaxVersion]
  /\ query \in Queries /\ pageNo \in (1 - MaxLoads)..(1 + MaxLoads) /\ moved \in BOOLEAN /\ pages \in Nat
  /\ canGo \subseteq {-1, 1} /\ generation \in 0..MaxLoads
  /\ \A g \in Loads : load[g].stage \in {"none", "asked", "read", "naming", "done", "failed", "dropped"}
  /\ list \in Lists /\ Cardinality(DOMAIN list) <= PerPage
  /\ {refreshing, reload} \subseteq 0..MaxLoads
  /\ stream \in {"off", "connecting", "reloading", "live"} /\ subscribed \in BOOLEAN
  /\ unread \in Seq(Messages \X (1..MaxVersion))

-----------------------------------------------------------------------------
\* The n newest rows of rows, the first k of them left out.
Newer(m, rows) == Cardinality({n \in DOMAIN rows : n >= m})
Slice(rows, k, n) == [m \in {x \in DOMAIN rows : Newer(x, rows) \in (k + 1)..(k + n)} |-> rows[m]]
Rows(q) == [m \in {x \in q : archive[x] > 0} |-> archive[m]]

\* What PocketBase answers for a page; a page below 1 is taken for the first.
PageAnswer(l) ==
  LET p == IF l.page < 1 THEN 1 ELSE l.page IN
  [l EXCEPT !.stage = "read", !.rows = Slice(Rows(l.query), (p - 1) * PerPage, PerPage),
            !.total = Cardinality(DOMAIN Rows(l.query))]

\* loadMessages is called: query and page are read now; back is the page the
\* caller returns to if the load fails.
Begin(q, p, back) ==
  /\ generation < MaxLoads
  /\ generation' = generation + 1
  /\ load' = [load EXCEPT ![generation + 1] = [NoLoad EXCEPT !.stage = "asked", !.query = q, !.page = p, !.back = back]]
  /\ query' = q /\ pageNo' = p /\ moved' = FALSE

PanelInit ==
  /\ archive \in [Messages -> 0..1]
  /\ query = Messages /\ pageNo = 1 /\ moved = FALSE /\ pages = 1 /\ canGo = {}
  /\ generation = 1
  /\ load = [g \in Loads |-> IF g = 1 THEN [NoLoad EXCEPT !.stage = "asked", !.query = Messages] ELSE NoLoad]
  /\ list = Empty /\ refreshing = 1
  /\ stream = "off" /\ reload = 0 /\ subscribed = FALSE /\ unread = <<>>
  /\ fails = 0 /\ drops = 0

\* A record is written: an import, a sweep or the live listener.
ArchiveMessage(m) ==
  /\ archive[m] < MaxVersion
  /\ archive' = [archive EXCEPT ![m] = @ + 1]
  /\ unread' = IF subscribed THEN Append(unread, <<m, archive[m] + 1>>) ELSE unread
  /\ UNCHANGED <<view, stream, reload, subscribed, fails, drops>>

ServerReads(g) ==
  /\ load[g].stage = "asked"
  /\ load' = [load EXCEPT ![g] = PageAnswer(@)]
  /\ UNCHANGED <<archive, asked, pages, canGo, generation, list, refreshing, live, fails, drops>>

-----------------------------------------------------------------------------
\* The user.

Elsewhere == <<archive, pages, canGo, list, refreshing, live, fails, drops>>

\* The filter form; it ends the day that was shown.
Filter(q) == q \notin Days /\ Begin(q, 1, 1) /\ UNCHANGED Elsewhere

\* jumpToDate: a bar of the timeline, or the date form.
Jump(day) == Begin(day, 1, 1) /\ UNCHANGED Elsewhere

\* Another timeline target: the page is 1 from now on, and the list is loaded
\* again only if a day is shown.
Retarget ==
  /\ IF query \in Days THEN \E q \in Days : Begin(q, 1, 1)
     ELSE pageNo # 1 /\ pageNo' = 1 /\ moved' = TRUE /\ UNCHANGED <<query, generation, load>>
  /\ UNCHANGED Elsewhere

\* previous and next stay enabled while a load is under way.
Turn(direction) ==
  /\ direction \in canGo
  /\ Begin(query, pageNo + direction, pageNo)
  /\ UNCHANGED Elsewhere

\* An import has been made: back to the first page.
Imported ==
  /\ Begin(query, 1, 1)
  /\ UNCHANGED Elsewhere

Refresh ==
  /\ refreshing = 0 /\ Begin(query, pageNo, pageNo)
  /\ refreshing' = generation + 1
  /\ UNCHANGED <<archive, pages, canGo, list, live, fails, drops>>

-----------------------------------------------------------------------------
\* Mutant: a response is taken whatever was asked for since.
CurrentAny(g) == TRUE
\* generation === messagesGeneration
Current(g) == g = generation

\* The records have come: unless a later load was begun, the names are asked for.
RecordsArrive(g) ==
  /\ load[g].stage = "read"
  /\ load' = [load EXCEPT ![g] = IF Current(g) THEN [@ EXCEPT !.stage = "naming"] ELSE Over(@, "dropped")]
  /\ UNCHANGED <<archive, asked, pages, canGo, generation, list, refreshing, live, fails, drops>>

\* The names have come: the list is replaced, and labelled with the page of now.
NamesArrive(g) ==
  /\ load[g].stage = "naming"
  /\ IF Current(g)
       THEN /\ load' = [load EXCEPT ![g] = Over(@, "done")]
            /\ list' = load[g].rows
            /\ pages' = 1 + (IF load[g].total = 0 THEN 0 ELSE (load[g].total - 1) \div PerPage)
            /\ canGo' = (IF pageNo <= 1 THEN {} ELSE {-1}) \cup (IF pageNo >= pages' THEN {} ELSE {1})
       ELSE load' = [load EXCEPT ![g] = Over(@, "dropped")] /\ UNCHANGED <<list, pages, canGo>>
  /\ UNCHANGED <<archive, asked, generation, refreshing, live, fails, drops>>

\* A request fails: the caller of previous or next restores its page, whatever
\* the page is by now.
LoadFails(g) ==
  /\ fails < MaxFails /\ fails' = fails + 1
  /\ load[g].stage \in {"asked", "read"} \/ (load[g].stage = "naming" /\ load[g].rows # Empty)
  /\ load' = [load EXCEPT ![g] = Over(@, "failed")]
  /\ pageNo' = IF load[g].back # load[g].page THEN load[g].back ELSE pageNo
  /\ moved' = (moved \/ pageNo' # pageNo)
  /\ UNCHANGED <<archive, query, pages, canGo, generation, list, refreshing, live, drops>>

Ended(g) == load[g].stage \in {"done", "failed", "dropped"}

-----------------------------------------------------------------------------
\* startRealtime, when the sections of refresh() have settled: the former loop
\* and its connection are aborted.
StartRealtime ==
  /\ refreshing # 0 /\ Ended(refreshing)
  /\ refreshing' = 0
  /\ stream' = "connecting" /\ reload' = 0 /\ subscribed' = FALSE /\ unread' = <<>>
  /\ UNCHANGED <<archive, asked, pages, canGo, generation, load, list, fails, drops>>

\* PocketBase has taken the subscription; its answer is on the way.
Subscribe ==
  /\ stream = "connecting" /\ ~subscribed
  /\ subscribed' = TRUE
  /\ UNCHANGED <<archive, view, stream, reload, unread, fails, drops>>

\* Mutant: the loop reads on while its reload is under way.
AwaitedNot == "live"
\* Until its reload is over the loop reads no event.
Awaited == "reloading"

Subscribed ==
  /\ stream = "connecting" /\ subscribed
  /\ Begin(query, pageNo, pageNo)
  /\ stream' = Awaited /\ reload' = generation + 1
  /\ UNCHANGED <<archive, pages, canGo, list, refreshing, subscribed, unread, fails, drops>>

\* A reload that failed or was overtaken leaves the stream open.
Reloaded ==
  /\ stream = "reloading" /\ Ended(reload)
  /\ stream' = "live"
  /\ UNCHANGED <<archive, view, reload, subscribed, unread, fails, drops>>

\* A row of the list is replaced, a new one is added on the first page.
Upsert(m, v) ==
  IF m \notin query THEN [n \in DOMAIN list \ {m} |-> list[n]]
  ELSE [n \in DOMAIN list \cup (IF pageNo = 1 THEN {m} ELSE {}) |-> IF n = m THEN v ELSE list[n]]

\* applyRealtimeMessage
ReadEvent ==
  /\ stream = "live" /\ unread # <<>>
  /\ unread' = Tail(unread)
  /\ list' = Slice(Upsert(Head(unread)[1], Head(unread)[2]), 0, PerPage)
  /\ UNCHANGED <<archive, asked, pages, canGo, generation, load, refreshing,
                 stream, reload, subscribed, fails, drops>>

\* The connection is lost, with what was on it.
ConnectionLost ==
  /\ drops < MaxDrops /\ drops' = drops + 1
  /\ subscribed /\ subscribed' = FALSE /\ unread' = <<>>
  /\ UNCHANGED <<archive, view, stream, reload, fails>>

\* The loop notices when it reads on, after a reload that is under way, and
\* connects again.
Reconnect ==
  /\ stream = "live" /\ ~subscribed
  /\ stream' = "connecting"
  /\ UNCHANGED <<archive, view, reload, subscribed, unread, fails, drops>>

PanelNext ==
  \/ \E m \in Messages : ArchiveMessage(m)
  \/ \E g \in Loads : ServerReads(g) \/ RecordsArrive(g) \/ NamesArrive(g) \/ LoadFails(g)
  \/ \E q \in Queries : Filter(q)
  \/ \E day \in Days : Jump(day)
  \/ \E d \in {-1, 1} : Turn(d)
  \/ Retarget \/ Imported \/ Refresh \/ StartRealtime
  \/ Subscribe \/ Subscribed \/ Reloaded \/ ReadEvent \/ ConnectionLost \/ Reconnect

PanelSpec == PanelInit /\ [][PanelNext]_panelVars

-----------------------------------------------------------------------------
LatestDone == load[generation].stage = "done"
Quiet == LatestDone /\ stream = "live" /\ unread = <<>> /\ subscribed

\* Of loads that overlap (quick clicks, a filter while a page comes, the reload
\* after a subscription) the one begun last has the last word: once it is over
\* the list holds nothing but rows of what is asked for now.
ListOfQuery == LatestDone => DOMAIN list \subseteq query

\* panel.js, on the reload: "Close the initial load -> subscribe race, and fill
\* non-replayed gaps after reconnect".  When the last load is the one the loop
\* made after its subscription, and the events are read, the first page shows
\* the archive: no write between the load and the subscription, during the
\* reload or while the connection was lost is missing or shown out of date.  Not
\* so after moved: while an older turn that failed has put another page back, a
\* new message is not added, and another timeline target returns to page 1.
ReloadCloses ==
  (Quiet /\ reload = generation /\ pageNo = 1 /\ ~moved)
    => list = Slice(Rows(query), 0, PerPage)

\* What the panel shows is what was asked for, and, once a reload has followed the
\* subscription, what the archive holds (loadMessages, realtimeLoop, panel.js).
PanelTrue == PanelTypeOK /\ ListOfQuery /\ ReloadCloses

=============================================================================
