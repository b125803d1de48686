-------------------------------- MODULE RoomTree --------------------------------
(***************************************************************************)
(* The sidebar of the Discord room viewer: GET /api/dc/sidebar lists the   *)
(* servers in the order of the shared preferences (guildSummary,           *)
(* lib/dc_sidebar.js) and every channel and thread row of the archive; the *)
(* page (simple-tree.js, simple.js) builds from the rows one tree per      *)
(* server: categories, their rooms, the threads of a room.                 *)
(*                                                                         *)
(* Counts, icons, positions and the order within a server are left out.    *)
(***************************************************************************)
EXTENDS Naturals, FiniteSets, SequencesExt

CONSTANTS Servers,     \* ids of Discord servers, numbers: ids are compared
          Categories, Rooms, Threads,
          Nil,         \* no category; a parent that is never discovered
          FoldedNames  \* servers' names, compared without case
\* An id of Discord is the id of one thing.
ASSUME RoomTreeAssumption ==
  /\ Servers \subseteq Nat /\ FoldedNames \subseteq Nat /\ IsFiniteSet(Servers)
  /\ Categories \cap Rooms = {} /\ Threads \cap (Categories \cup Rooms) = {}
  /\ Nil \notin Categories \cup Rooms \cup Threads

VARIABLES named,  \* servers in discord_entities
          serverName,  \* the servers' names
          rows,   \* the channel and thread rows, in the order of the query
          order   \* prefs.order

treeVars == <<named, serverName, rows, order>>

ChannelRow ==
  [kind: {"category"}, id: Categories, server: Servers, parent: {Nil}]
    \cup [kind: {"room"}, id: Rooms, server: Servers, parent: Categories \cup {Nil}]
    \cup [kind: {"thread"}, id: Threads, server: Servers, parent: Rooms \cup {Nil}]

RoomTreeTypeOK ==
  /\ named \subseteq Servers /\ serverName \in [Servers -> FoldedNames]
  /\ ToSet(rows) \subseteq ChannelRow /\ IsInjective([i \in DOMAIN rows |-> rows[i].id])
  /\ ToSet(order) \subseteq Servers /\ IsInjective(order)

RoomTreeInit ==
  named = {} /\ serverName \in [Servers -> FoldedNames] /\ rows = <<>> /\ order = <<>>

-----------------------------------------------------------------------------
\* The tree.

NewRoom(row) == [row |-> row, threads |-> {}]
NoTree == [servers |-> named, categories |-> {}, rooms |-> {}]

\* The first pass: a channel's server is inferred if it has no row of its own.
WithChannel(tree, row) ==
  IF row.kind = "thread" THEN tree
  ELSE [servers    |-> tree.servers \cup {row.server},
        categories |-> tree.categories \cup (IF row.kind = "category" THEN {row} ELSE {}),
        rooms      |-> tree.rooms \cup (IF row.kind = "room" THEN {NewRoom(row)} ELSE {})]

\* The second: a thread goes under its parent, an orphan beside its server's rooms.
WithThread(tree, row) ==
  LET parent == {room \in tree.rooms : room.row.id = row.parent} IN
  IF row.kind # "thread" THEN tree
  ELSE IF parent # {}
  THEN [tree EXCEPT !.rooms = (@ \ parent) \cup {[room EXCEPT !.threads = @ \cup {row.id}] : room \in parent}]
  ELSE IF row.server \in tree.servers THEN [tree EXCEPT !.rooms = @ \cup {NewRoom(row)}]
  ELSE tree

\* Mutant: one pass does both.
OnePass == FoldLeft(LAMBDA tree, row : WithThread(WithChannel(tree, row), row), NoTree, rows)
\* The tree after k rows of each pass.
FirstPass[k \in 0..Len(rows)] ==
  IF k = 0 THEN NoTree ELSE WithChannel(FirstPass[k - 1], rows[k])
SecondPass[k \in 0..Len(rows)] ==
  IF k = 0 THEN FirstPass[Len(rows)] ELSE WithThread(SecondPass[k - 1], rows[k])
Passes == SecondPass[Len(rows)]

\* The third: a room is shown under its category if that is one of its server's.
CategoryOf(tree, row) ==
  IF row.kind = "room" /\ \E c \in tree.categories : c.id = row.parent /\ c.server = row.server
  THEN row.parent ELSE Nil

Tree ==
  LET tree == Passes
  IN  {[server |-> room.row.server, category |-> CategoryOf(tree, room.row),
        id |-> room.row.id, threads |-> room.threads] : room \in tree.rooms}

-----------------------------------------------------------------------------
\* The order of the servers.

Ranked(s) == s \in ToSet(order)
Rank(s) == CHOOSE i \in DOMAIN order : order[i] = s
\* Ranked servers come first; the others by name.
ByPreference(s, t) ==
  IF Ranked(s) \/ Ranked(t) THEN Ranked(s) /\ (Ranked(t) => Rank(s) < Rank(t))
  ELSE serverName[s] < serverName[t]
\* Mutant: the page sorts by name alone.
ByName(s, t) == serverName[s] < serverName[t]
\* buildSidebar's sort does the same.
PageBefore(s, t) == ByPreference(s, t)

\* Array.sort by the pairs of `before`.
Sorted(S, before) ==
  [k \in 1..Cardinality(S) |-> CHOOSE s \in S : Cardinality({t \in S : <<t, s>> \in before}) = k - 1]

\* The elements of a list at the places P, in their order.
Chosen(list, P) ==
  LET place == Sorted(P, {p \in P \X P : p[1] < p[2]}) IN [k \in DOMAIN place |-> list[place[k]]]
OnlyNamed(list) == Chosen(list, {k \in DOMAIN list : list[k] \in named})

\* guildSummary breaks a tie of names by the id.
ServerList ==
  Sorted(named, {p \in named \X named :
                   ByPreference(p[1], p[2]) \/ (~ByPreference(p[2], p[1]) /\ p[1] < p[2])})

\* The page's list is the server's with the inferred ones after it, in the order
\* of their first channel, and sorted again, stably.
Infers(k) == rows[k].kind # "thread" /\ rows[k].server \notin named
FirstOfServer(k) == \A j \in 1..(k - 1) : Infers(j) => rows[j].server # rows[k].server
Inferred ==
  Chosen([k \in DOMAIN rows |-> rows[k].server], {k \in DOMAIN rows : Infers(k) /\ FirstOfServer(k)})

PageList ==
  LET list == ServerList \o Inferred
      before == {p \in (DOMAIN list) \X (DOMAIN list) :
                   PageBefore(list[p[1]], list[p[2]]) \/ (~PageBefore(list[p[2]], list[p[1]]) /\ p[1] < p[2])}
      place == Sorted(DOMAIN list, before)
  IN  [k \in DOMAIN list |-> list[place[k]]]

-----------------------------------------------------------------------------
DiscoverServerRow(s) ==
  s \notin named /\ named' = named \cup {s} /\ UNCHANGED <<serverName, rows, order>>

\* The gateway or a backfill finds a channel or a thread.  What hangs together is
\* of one server.
DiscoverRow(row, i) ==
  /\ \A k \in DOMAIN rows :
       /\ rows[k].id # row.id
       /\ row.id = rows[k].parent \/ row.parent = rows[k].id => row.server = rows[k].server
  /\ rows' = InsertAt(rows, i, row)
  /\ UNCHANGED <<named, serverName, order>>

\* A server is moved one place in the dialog.  The list of all shown servers is
\* posted; the ids that have no server row are dropped.
MoveServer(list, i, j) ==
  /\ j = i + 1 \/ i = j + 1
  /\ LET moved == [list EXCEPT ![i] = list[j], ![j] = list[i]]
     IN  order' = OnlyNamed(moved)
  /\ UNCHANGED <<named, serverName, rows>>

RoomTreeNext ==
  \/ \E s \in Servers : DiscoverServerRow(s)
  \/ \E row \in ChannelRow, i \in 1..(Len(rows) + 1) : DiscoverRow(row, i)
  \/ \E list \in {PageList} : \E i, j \in DOMAIN list : MoveServer(list, i, j)

RoomTreeSpec == RoomTreeInit /\ [][RoomTreeNext]_treeVars

-----------------------------------------------------------------------------
\* Whatever order the rows come in, every room is shown exactly once, under its
\* category if that is known; a thread is in its parent once that is known, and
\* otherwise a room of its server ("Orphan thread: keep it visible under its
\* guild", simple-tree.js), unless nothing else is known of that server.
Known(id) == \E k \in DOMAIN rows : rows[k].id = id
HasServer(s) == s \in named \/ \E k \in DOMAIN rows : rows[k].server = s /\ rows[k].kind # "thread"
Children(id) == {row.id : row \in {r \in ToSet(rows) : r.kind = "thread" /\ r.parent = id}}
Shown(row) ==
  \/ row.kind = "room"
  \/ row.kind = "thread" /\ ~Known(row.parent) /\ HasServer(row.server)

TreeWhole ==
  Tree = {[server |-> row.server, id |-> row.id, threads |-> Children(row.id),
           category |-> IF row.kind = "room" /\ Known(row.parent) THEN row.parent ELSE Nil]
            : row \in {r \in ToSet(rows) : Shown(r)}}

\* The page sorts the servers again, by a rule without the tie-break on ids, and
\* computes moves on the result: it has the server's own order.
SameOrder == OnlyNamed(PageList) = ServerList

\* The tree has every row in its place, in the order of the preferences
\* (buildSidebar, guildSummary).
TreeTrue == RoomTreeTypeOK /\ TreeWhole /\ SameOrder

=============================================================================
