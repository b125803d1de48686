---------------------------- MODULE CentralTimeline ----------------------------
(***************************************************************************)
(* The central timeline of the Discord archive: GET /api/dc/timeline       *)
(* (pb_hooks/250_timeline.pb.js, lib/dc_events.js) and the page that walks *)
(* it (pb_public/timeline.js, timeline-model.js).                          *)
(*                                                                         *)
(* An event is a message or a thread's creation; it has its instant        *)
(* ts[i] and an id, the number itself.  Version 0 of a message is not      *)
(* archived yet; an edit makes the next.  A filter names kinds, and the    *)
(* versions whose text it finds.  The window's beginning, since, moves on  *)
(* with the clock.                                                         *)
(***************************************************************************)
EXTENDS Integers, Sequences, FiniteSets

CONSTANTS MessageIds, ThreadIds, \* numbers: the events
          Instant(_),            \* when an event happened
          TimelineFilters,       \* records [kinds, versions]
          PageLimit,             \* limit: messages on a page
          MaxVersions,           \* bound: the last version of a message
          MaxWrites,             \* bound: writes of messages
          MaxPages,              \* bound: requests begun
          MaxSince,              \* bound: the window's beginning
          MaxTimelineFaults      \* bound: failed requests and lost connections

Events == MessageIds \cup ThreadIds

ASSUME TimelineAssumption ==
  /\ Events \subseteq Nat /\ IsFiniteSet(Events) /\ MessageIds \cap ThreadIds = {}
  /\ \A i \in Events : Instant(i) \in Nat
  /\ \A f \in TimelineFilters : f.kinds \subseteq {"message", "thread"} /\ f.versions \subseteq Nat
  /\ {PageLimit, MaxVersions, MaxPages} \subseteq Nat \ {0} /\ {MaxWrites, MaxSince, MaxTimelineFaults} \subseteq Nat

VARIABLES
  version,   \* per event, its archived version
  since,     \* the window's beginning
  filter,    \* what the page asks for now
  seq,       \* requestSeq
  request,   \* per request, what became of it
  shownEvents, \* the page's list: [events -> versions]
  cursor,    \* where the next page begins, 0: no page before it
  hasMore, busy,
  listening, \* PocketBase sends this page its events
  feed,      \* events on the connection
  loadedFor, \* history: the filter of the pages the list is made of
  written,   \* history: messages written since the first of them was read, or
             \* of which a live row was still unread then
  writes, losses

timelineServer == <<version, since, writes>>
timelineWalk == <<filter, seq, request, shownEvents, cursor, hasMore, busy, loadedFor, written>>
timelineStream == <<listening, feed>>
timelineVars == <<timelineServer, timelineWalk, timelineStream, losses>>

PageRequests == 1..MaxPages
NoEvents == [i \in {} |-> 0]
NoRequest == [stage |-> "none", older |-> FALSE, filter |-> [kinds |-> {}, versions |-> {}],
              cursor |-> 0, page |-> NoEvents, next |-> 0, more |-> FALSE, missed |-> {}]
SomeEvents(f) == DOMAIN f \subseteq Events /\ f \in [DOMAIN f -> 1..MaxVersions]

TimelineTypeOK ==
  /\ version \in [Events -> 0..MaxVersions] /\ since \in 0..MaxSince
  /\ filter \in TimelineFilters /\ loadedFor \in TimelineFilters \cup {NoRequest.filter}
  /\ seq \in 0..MaxPages
  /\ \A n \in PageRequests : request[n].stage \in {"none", "sent", "read", "over"} /\ SomeEvents(request[n].page)
  /\ SomeEvents(shownEvents) /\ cursor \in MessageIds \cup {0}
  /\ {hasMore, busy, listening} \subseteq BOOLEAN
  /\ feed \in Seq(MessageIds \X (1..MaxVersions)) /\ written \subseteq MessageIds

-----------------------------------------------------------------------------
\* The server.

\* ORDER BY m.ts DESC, m.message_id DESC
OlderThan(i, j) == Instant(i) < Instant(j) \/ (Instant(i) = Instant(j) /\ i < j)
\* Mutant: the cursor is only an instant.
AfterInstant(i, c) == Instant(i) < Instant(c)
\* The rows that follow a cursor.
AfterCursor(i, c) == OlderThan(i, c)

EventKind(i) == IF i \in MessageIds THEN "message" ELSE "thread"
Finds(f, i, v) == v > 0 /\ EventKind(i) \in f.kinds /\ v \in f.versions

\* The messages of a page: the newest PageLimit of those that match.
PageRows(q) ==
  LET found == {i \in MessageIds : Finds(q.filter, i, version[i]) /\ Instant(i) >= since
                                   /\ (q.cursor = 0 \/ AfterCursor(i, q.cursor))}
  IN {i \in found : Cardinality({j \in found : OlderThan(i, j)}) < PageLimit}

Oldest(S) == CHOOSE i \in S : \A j \in S \ {i} : OlderThan(i, j)

\* Threads ride along with the page whose slice of time they are in: up to the
\* cursor's instant, down to the oldest message if another page may follow.
InSlice(i, q, S, more) ==
  /\ Instant(i) >= (IF more THEN Instant(Oldest(S)) ELSE since)
  /\ q.cursor = 0 \/ Instant(i) < Instant(q.cursor)

\* The cursor must lie inside the window, which has moved on since it was given.
InsideWindow(c) == c = 0 \/ Instant(c) >= since

ServePage(n) ==
  LET q == request[n]
      S == PageRows(q)
      more == Cardinality(S) = PageLimit
      threads == {i \in ThreadIds : Finds(q.filter, i, version[i]) /\ InSlice(i, q, S, more)}
  IN /\ q.stage = "sent"
     /\ InsideWindow(q.cursor)
     /\ request' = [request EXCEPT ![n] = [@ EXCEPT !.stage = "read",
                      !.page = [i \in S \cup threads |-> version[i]],
                      !.next = IF more THEN Oldest(S) ELSE 0, !.more = more]]
     /\ UNCHANGED <<timelineServer, filter, seq, shownEvents, cursor, hasMore, busy, loadedFor, written, timelineStream, losses>>

\* A message is archived or edited.  Threads are there from the start.
WriteMessage(i) ==
  /\ version[i] < MaxVersions /\ writes < MaxWrites /\ writes' = writes + 1
  /\ version' = [version EXCEPT ![i] = @ + 1]
  /\ feed' = IF listening THEN Append(feed, <<i, version[i] + 1>>) ELSE feed
  /\ written' = written \cup {i}
  /\ request' = [n \in PageRequests |->
                   IF request[n].stage = "read" THEN [request[n] EXCEPT !.missed = @ \cup {i}] ELSE request[n]]
  /\ UNCHANGED <<since, filter, seq, shownEvents, cursor, hasMore, busy, loadedFor, listening, losses>>

WindowMoves ==
  /\ since < MaxSince /\ since' = since + 1
  /\ UNCHANGED <<version, writes, timelineWalk, timelineStream, losses>>

-----------------------------------------------------------------------------
\* The page.

\* req.current()
CurrentRequest(n) == n = seq

\* begin(): the former request is aborted, its answer will not count.
AskPage(f, c) ==
  /\ seq < MaxPages /\ seq' = seq + 1
  /\ request' = [request EXCEPT ![seq + 1] = [NoRequest EXCEPT !.stage = "sent", !.older = c # 0,
                                                               !.filter = f, !.cursor = c]]
  /\ busy' = TRUE

\* load() of a filter that selects nothing: no request, but the former one is
\* aborted; whether the page is busy stays as it is.
SelectsSome(f) == f.kinds # {}
ClearList ==
  /\ seq < MaxPages /\ seq' = seq + 1
  /\ request' = [request EXCEPT ![seq + 1].stage = "over"]
  /\ shownEvents' = NoEvents /\ cursor' = 0 /\ hasMore' = FALSE /\ UNCHANGED busy
  /\ loadedFor' = NoRequest.filter /\ written' = {}

TimelineInit ==
  /\ version \in [Events -> 0..1] /\ \A i \in ThreadIds : version[i] = 1
  /\ since = 0 /\ filter \in TimelineFilters /\ SelectsSome(filter)
  /\ seq = 1 /\ request = [n \in PageRequests |-> IF n = 1 THEN [NoRequest EXCEPT !.stage = "sent", !.filter = filter] ELSE NoRequest]
  /\ shownEvents = NoEvents /\ cursor = 0 /\ hasMore = FALSE /\ busy = TRUE
  /\ listening = FALSE /\ feed = <<>>
  /\ loadedFor = NoRequest.filter /\ written = {} /\ writes = 0 /\ losses = 0

\* A chip, the search box or the window: the list is loaded again.
FilterChanges(f) ==
  /\ f # filter /\ filter' = f
  /\ IF SelectsSome(f) THEN AskPage(f, 0) /\ UNCHANGED <<shownEvents, cursor, hasMore, loadedFor, written>> ELSE ClearList
  /\ UNCHANGED <<timelineServer, timelineStream, losses>>

RefreshTimeline ==
  /\ ~busy
  /\ IF SelectsSome(filter) THEN AskPage(filter, 0) /\ UNCHANGED <<shownEvents, cursor, hasMore, loadedFor, written>> ELSE ClearList
  /\ UNCHANGED <<timelineServer, filter, timelineStream, losses>>

OlderPage ==
  /\ hasMore /\ ~busy /\ cursor # 0 /\ AskPage(filter, cursor)
  /\ UNCHANGED <<timelineServer, filter, shownEvents, cursor, hasMore, loadedFor, written, timelineStream, losses>>

\* mergeSorted: of an event that is in both lists the incoming one wins.
WithPage(old, new) ==
  [i \in DOMAIN old \cup DOMAIN new |-> IF i \in DOMAIN new THEN new[i] ELSE old[i]]

OverNow(n) == [request EXCEPT ![n] = [NoRequest EXCEPT !.stage = "over"]]

\* The answer of a first page replaces the list, that of an older one is merged.
TakePage(n) ==
  LET q == request[n] IN
  /\ q.stage = "read" /\ request' = OverNow(n)
  /\ IF CurrentRequest(n)
       THEN /\ shownEvents' = IF q.older THEN WithPage(shownEvents, q.page) ELSE q.page
            /\ cursor' = q.next /\ hasMore' = q.more /\ busy' = FALSE
            /\ loadedFor' = IF q.older /\ q.filter # loadedFor THEN NoRequest.filter ELSE q.filter
            /\ written' = IF q.older THEN written ELSE q.missed \cup {feed[k][1] : k \in DOMAIN feed}
       ELSE UNCHANGED <<shownEvents, cursor, hasMore, busy, loadedFor, written>>
  /\ UNCHANGED <<timelineServer, filter, seq, timelineStream, losses>>

\* The request fails, or the server finds its cursor outside the window.
PageFails(n) ==
  LET q == request[n]
      refused == ~InsideWindow(q.cursor)
  IN /\ q.stage \in {"sent", "read"} /\ request' = OverNow(n)
     /\ IF q.stage = "sent" /\ refused THEN UNCHANGED losses ELSE losses < MaxTimelineFaults /\ losses' = losses + 1
     /\ busy' = IF CurrentRequest(n) THEN FALSE ELSE busy
     /\ UNCHANGED <<timelineServer, filter, seq, shownEvents, cursor, hasMore, loadedFor, written, timelineStream>>

-----------------------------------------------------------------------------
\* The live rows.  After a subscription nothing is loaded again.
Listen ==
  /\ ~listening /\ listening' = TRUE
  /\ UNCHANGED <<timelineServer, timelineWalk, feed, losses>>

StreamLost ==
  /\ listening /\ losses < MaxTimelineFaults /\ losses' = losses + 1
  /\ listening' = FALSE /\ feed' = <<>>
  /\ UNCHANGED <<timelineServer, timelineWalk>>

\* Does a live event belong to the list of now?
MatchesNow(i, v) == Finds(filter, i, v) /\ Instant(i) >= since

Upserted(list, i, v) == WithPage(list, [j \in {i} |-> v])

\* A row that no longer matches stays as it was.
TakeRow ==
  LET i == Head(feed)[1]
      v == Head(feed)[2]
  IN /\ feed # <<>> /\ feed' = Tail(feed)
     /\ shownEvents' = IF MatchesNow(i, v) THEN Upserted(shownEvents, i, v) ELSE shownEvents
     /\ UNCHANGED <<timelineServer, filter, seq, request, cursor, hasMore, busy, loadedFor, written, listening, losses>>

TimelineNext ==
  \/ \E i \in MessageIds : WriteMessage(i)
  \/ \E n \in PageRequests : ServePage(n) \/ TakePage(n) \/ PageFails(n)
  \/ \E f \in TimelineFilters : FilterChanges(f)
  \/ WindowMoves \/ RefreshTimeline \/ OlderPage \/ Listen \/ StreamLost \/ TakeRow

TimelineSpec == TimelineInit /\ [][TimelineNext]_timelineVars

-----------------------------------------------------------------------------
\* What the pages taken so far reach down to.
Reached(i) ==
  \/ ~hasMore
  \/ i \in MessageIds /\ (i = cursor \/ OlderThan(cursor, i))
  \/ i \in ThreadIds /\ Instant(i) >= Instant(cursor)

\* dc_events.js: "rows strictly older than the (ts, id) tuple, so messages
\* sharing the boundary millisecond are not lost"; 250_timeline.pb.js: threads
\* are "clipped to the same slice of time as the page's messages".  However
\* filter changes, refreshes, pages, live rows and failures interleave: when the
\* page is idle its list has every event that the pages reach, that is in the
\* window, matches the filter and was not written lately (a live row that comes
\* late may put an older version back), in its archived version, and none is
\* skipped where two pages meet.
PagesComplete ==
  ~busy /\ loadedFor = filter =>
    \A i \in Events \ written :
      Finds(filter, i, version[i]) /\ Instant(i) >= since /\ Reached(i)
        => i \in DOMAIN shownEvents /\ shownEvents[i] = version[i]

\* The timeline's pages are complete (rowsBefore, loadPage), in states of its type.
TimelineTrue == TimelineTypeOK /\ PagesComplete

=============================================================================
