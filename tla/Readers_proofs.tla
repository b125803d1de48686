----------------------------- MODULE Readers_proofs -----------------------------
(***************************************************************************)
(* 09-discord_pb, how messages are read back: the archive's row of a       *)
(* message, the sidebar, the timeline and the panel.  They share no        *)
(* variable: one part below for each, with its inductive invariant, what a *)
(* step keeps of it, and its theorems.                                     *)
(*                                                                         *)
(* The archive's row of one message, for any number of edits, partial      *)
(* updates, replays, swept pages and any clock: the row converges to what  *)
(* Discord has and never goes back.  Converged is not inductive:           *)
(* EventsTrue says what the last event of each kind tells of the message,  *)
(* RowTrue what of it the row has once the events up to next are applied,  *)
(* also when earlier ones are applied again, and PageTrue that a page that *)
(* may still be written over the row has every change the row has.  That a *)
(* later edit is recognised needs EditsOrdered: Discord's edit times order *)
(* the bodies.                                                             *)
(***************************************************************************)
EXTENDS MessageArchive, SidebarSync, CentralTimeline, ArchivePanel, FiniteSetTheorems,
        WellFoundedInduction, TLAPS

-----------------------------------------------------------------------------
\* Every text of the message that is about: Discord's, what was emitted, the row's
\* and the page's.
Texts ==
  {truth} \cup {events[i] : i \in DOMAIN events}
    \cup (IF row.exists THEN {row} ELSE {}) \cup (IF page.step = "read" THEN {page} ELSE {})

\* Of two texts the one that was edited later is the later one.
Before(x, y) == x.body < y.body <=> x.edited < y.edited
EditsOrdered == \A x, y \in Texts : x.body # 0 /\ y.body # 0 => Before(x, y)
Past(x) ==
  /\ x.body <= truth.body /\ x.edited <= truth.edited /\ x.extra <= truth.extra
  /\ x.body = 0 => x.edited = 0
NoneAhead == truth.edited <= now /\ \A x \in Texts : Past(x)

\* What the events say of the message.
EventsTrue ==
  /\ Len(events) <= MaxEvents /\ truth.body <= Len(events) + 1 /\ truth.extra <= Len(events)
  /\ truth.body = 0 => events = <<>> /\ ~truth.deleted /\ truth.extra = 0
  /\ \A i \in DOMAIN events : events[i].type = "create" => i = 1 /\ events[i].body = 1 /\ events[i].extra = 0
  /\ \A i \in DOMAIN events : events[i].type = "delete" <=> truth.deleted /\ i = Len(events)
  /\ \A i \in DOMAIN events : events[i].type = "delete" => events[i].body = 0
  /\ truth.deleted => events # <<>>
  /\ ~lost /\ truth.body # 0 => events # <<>> /\ events[1].type = "create"
  /\ \A i \in DOMAIN events :
       events[i].body # 0 /\ (\A j \in DOMAIN events : i < j => events[j].body = 0) =>
         events[i].body = truth.body /\ events[i].edited = truth.edited
  /\ \A i \in DOMAIN events :
       events[i].type # "delete" /\ (\A j \in DOMAIN events : i < j => events[j].type = "delete") =>
         events[i].extra = truth.extra

\* What the row has of the events.
Buried == row.exists /\ row.deleted
RowTrue ==
  /\ Buried => truth.deleted
  /\ ~lost /\ Buried => row.body = truth.body /\ row.edited = truth.edited /\ row.extra = truth.extra
  /\ ~lost /\ next > 1 => row.exists /\ row.body # 0
  /\ ~lost /\ truth.deleted /\ next = Len(events) + 1 => Buried
  /\ ~lost /\ truth.body # 0 /\ (\A i \in DOMAIN events : next <= i => events[i].body = 0) =>
       row.exists /\ row.body = truth.body /\ row.edited = truth.edited
  /\ ~lost /\ truth.body # 0 /\ (\A i \in DOMAIN events : next <= i => events[i].type = "delete") =>
       row.exists /\ row.extra = truth.extra

\* A page that may still be written has every change the row has.
PageTrue ==
  /\ page.step # "none" => page.at <= now
  /\ page.step = "read" /\ page.found => page.body # 0
  /\ page.step = "read" /\ page.found /\ row.exists /\ (row.live => row.at < page.at) => row.extra <= page.extra

ArchiveInv == TypeOK /\ EditsOrdered /\ NoneAhead /\ EventsTrue /\ RowTrue /\ PageTrue

-----------------------------------------------------------------------------
(* A message and its row. *)

EventType == [type: {"create", "update", "delete"}, body: Bodies, extra: Extras, edited: Time]
ReadPage == [step: {"read"}, at: Time, found: BOOLEAN, body: Bodies, extra: Extras, edited: Time]

LEMMA ArchiveSets == Time \subseteq Nat /\ Bodies \subseteq Nat /\ Extras \subseteq Nat /\ 0 \in Time /\ 0 \in Bodies /\ 0 \in Extras
BY ArchiveAssumption DEF Time, Bodies, Extras

LEMMA ArchiveTypes ==
  ASSUME TypeOK
  PROVE  /\ now \in Nat /\ now \in Time
         /\ truth.body \in Nat /\ truth.extra \in Nat /\ truth.edited \in Nat /\ truth.deleted \in BOOLEAN
         /\ truth.body \in Bodies /\ truth.extra \in Extras /\ truth.edited \in Time
         /\ events \in Seq(EventType) /\ Len(events) \in Nat /\ DOMAIN events = 1..Len(events)
         /\ next \in 1..(Len(events) + 1)
         /\ lost \in BOOLEAN
         /\ row.exists \in BOOLEAN /\ (row.exists => row \in Row)
         /\ page.step \in {"none", "stamped", "read"} /\ (page.step = "read" => page \in ReadPage)
         /\ page.step # "none" => page.at \in Time
<1>1. /\ now \in Nat /\ now \in Time
      /\ truth.body \in Nat /\ truth.extra \in Nat /\ truth.edited \in Nat /\ truth.deleted \in BOOLEAN
      /\ truth.body \in Bodies /\ truth.extra \in Extras /\ truth.edited \in Time
  BY ArchiveSets DEF TypeOK
<1>2. events \in Seq(EventType) /\ Len(events) \in Nat /\ DOMAIN events = 1..Len(events)
  BY DEF TypeOK, EventType
<1>3. row.exists \in BOOLEAN /\ (row.exists => row \in Row)
  <2>1. CASE row = None
    BY <2>1 DEF None
  <2>2. CASE row \in Row
    BY <2>2 DEF Row
  <2> QED
    BY <2>1, <2>2 DEF TypeOK
<1>4. /\ page.step \in {"none", "stamped", "read"} /\ (page.step = "read" => page \in ReadPage)
      /\ page.step # "none" => page.at \in Time
  <2>1. CASE page = NoPage
    BY <2>1 DEF NoPage
  <2>2. CASE page \in [step: {"stamped"}, at: Time]
    BY <2>2
  <2>3. CASE page \in ReadPage
    BY <2>3 DEF ReadPage
  <2> QED
    BY <2>1, <2>2, <2>3 DEF TypeOK, ReadPage
<1> QED
  BY <1>1, <1>2, <1>3, <1>4 DEF TypeOK

LEMMA EventTypes ==
  ASSUME TypeOK, NEW i \in DOMAIN events
  PROVE  /\ events[i] \in EventType /\ i \in 1..Len(events)
         /\ events[i].type \in {"create", "update", "delete"}
         /\ events[i].body \in Nat /\ events[i].extra \in Nat /\ events[i].edited \in Nat
         /\ events[i].body \in Bodies /\ events[i].extra \in Extras /\ events[i].edited \in Time
<1>1. events[i] \in EventType /\ i \in 1..Len(events)
  BY ArchiveTypes
<1> QED
  BY <1>1, ArchiveSets DEF EventType

LEMMA RowTypes ==
  ASSUME NEW r \in Row
  PROVE  /\ r.exists = TRUE /\ r.body \in Nat /\ r.extra \in Nat /\ r.edited \in Nat /\ r.at \in Nat
         /\ r.body \in Bodies /\ r.extra \in Extras /\ r.edited \in Time /\ r.at \in Time
         /\ r.deleted \in BOOLEAN /\ r.live \in BOOLEAN
BY ArchiveSets DEF Row

LEMMA PageTypes ==
  ASSUME NEW p \in ReadPage
  PROVE  /\ p.step = "read" /\ p.body \in Nat /\ p.extra \in Nat /\ p.edited \in Nat /\ p.at \in Nat
         /\ p.body \in Bodies /\ p.extra \in Extras /\ p.edited \in Time /\ p.at \in Time
         /\ p.found \in BOOLEAN
BY ArchiveSets DEF ReadPage

\* Nothing comes to be about that was not about before.
LEMMA TextTypes ==
  ASSUME TypeOK, NEW y \in Texts
  PROVE  y.body \in Nat /\ y.edited \in Nat /\ y.extra \in Nat
<1>1. CASE y = truth
  BY <1>1, ArchiveTypes
<1>2. CASE y \in {events[i] : i \in DOMAIN events}
  BY <1>2, EventTypes
<1>3. CASE row.exists /\ y = row
  BY <1>3, ArchiveTypes, RowTypes
<1>4. CASE page.step = "read" /\ y = page
  BY <1>4, ArchiveTypes, PageTypes
<1> QED
  BY <1>1, <1>2, <1>3, <1>4 DEF Texts

LEMMA OrderKept ==
  ASSUME EditsOrdered, \A y \in Texts' : y.body # 0 => \E z \in Texts : y.body = z.body /\ y.edited = z.edited
  PROVE  EditsOrdered'
BY DEF EditsOrdered, Before

\* Of two texts of the message the one with the later edit is the later one.
LEMMA Later ==
  ASSUME TypeOK, EditsOrdered, NEW x \in Texts, NEW y \in Texts, x.body # 0, y.body # 0, x.edited <= y.edited
  PROVE  x.body <= y.body
<1>1. y.body < x.body <=> y.edited < x.edited
  BY DEF EditsOrdered, Before
<1> QED
  BY <1>1, TextTypes

\* An event is a patch over the row.
LEMMA PatchOrder ==
  ASSUME TypeOK, NEW i \in DOMAIN events, NEW item, item = Normalized(events[i])
  PROVE  /\ item \in Row /\ item.live = TRUE /\ item.at = now
         /\ events[i].body # 0 => item.body = events[i].body /\ item.edited = events[i].edited
         /\ events[i].body = 0 /\ row.exists => item.body = row.body /\ item.edited = row.edited
         /\ events[i].body = 0 /\ ~row.exists => item.body = 0 /\ item.edited = 0
         /\ events[i].type # "delete" => item.extra = events[i].extra
         /\ events[i].type = "delete" => item.extra = IF row.exists THEN row.extra ELSE 0
         /\ item.deleted <=> Buried \/ events[i].type = "delete"
<1>1. PICK old : old = IF row.exists THEN row ELSE [body |-> 0, extra |-> 0, edited |-> 0, deleted |-> FALSE]
  OBVIOUS
<1>2. /\ row.exists => old.body = row.body /\ old.extra = row.extra /\ old.edited = row.edited
      /\ ~row.exists => old.body = 0 /\ old.extra = 0 /\ old.edited = 0
      /\ old.deleted \in BOOLEAN /\ (old.deleted <=> Buried)
      /\ old.body \in Bodies /\ old.extra \in Extras /\ old.edited \in Time
  <2>1. CASE row.exists
    BY <1>1, <2>1, ArchiveTypes, RowTypes DEF Buried
  <2>2. CASE ~row.exists
    BY <1>1, <2>2, ArchiveSets DEF Buried
  <2> QED
    BY <2>1, <2>2
<1>3. PICK b \in Bodies : b = IF events[i].body # 0 THEN events[i].body ELSE old.body
  BY <1>2, EventTypes
<1>4. PICK x \in Extras : x = IF events[i].type = "delete" THEN old.extra ELSE events[i].extra
  BY <1>2, EventTypes
<1>5. PICK t \in Time : t = IF events[i].body # 0 THEN events[i].edited ELSE old.edited
  BY <1>2, EventTypes
<1>6. PICK d \in BOOLEAN : d = (old.deleted \/ events[i].type = "delete")
  OBVIOUS
<1>7. item = [exists |-> TRUE, body |-> b, extra |-> x, edited |-> t, deleted |-> d, live |-> TRUE, at |-> now]
  BY <1>1, <1>3, <1>4, <1>5, <1>6 DEF Normalized
<1>8. now \in Time
  BY ArchiveTypes
<1>9. /\ item \in Row /\ item.live = TRUE /\ item.at = now /\ item.body = b /\ item.extra = x /\ item.edited = t
      /\ item.deleted = d
  BY <1>7, <1>8 DEF Row
<1> QED
  BY <1>2, <1>3, <1>4, <1>5, <1>6, <1>9

\* The invariant about the texts, when the row alone changes.
RowOnly == UNCHANGED <<now, truth, events, lost>> /\ (page' = page \/ page' = NoPage)
LEMMA TextsKept ==
  ASSUME ArchiveInv, RowOnly,
         row' # row => row'.exists /\ Past(row') /\
                       (row'.body # 0 => \E z \in Texts : row'.body = z.body /\ row'.edited = z.edited)
  PROVE  EditsOrdered' /\ NoneAhead' /\ EventsTrue'
<1>1. ASSUME NEW y \in Texts'
      PROVE  y \in Texts \/ (y = row' /\ row' # row)
  BY <1>1 DEF RowOnly, Texts, NoPage
<1>2. EditsOrdered'
  <2>1. \A y \in Texts' : y.body # 0 => \E z \in Texts : y.body = z.body /\ y.edited = z.edited
    BY <1>1
  <2> QED
    BY <2>1, OrderKept DEF ArchiveInv
<1>3. NoneAhead'
  <2>1. ASSUME NEW y \in Texts'
        PROVE  Past(y)'
    BY <1>1, <2>1 DEF ArchiveInv, NoneAhead, Past, RowOnly
  <2> QED
    BY <2>1 DEF ArchiveInv, NoneAhead, RowOnly
<1>4. EventsTrue'
  BY DEF ArchiveInv, EventsTrue, RowOnly
<1> QED
  BY <1>2, <1>3, <1>4

LEMMA RowTypesKept ==
  ASSUME ArchiveInv, RowOnly, row' = row \/ (row' \in Row /\ row'.at <= now /\ Past(row')),
         next' \in 1..(Len(events) + 1), replays' = replays
  PROVE  TypeOK'
<1>1. row' \in {None} \cup Row
  BY DEF ArchiveInv, TypeOK
<1>2. row'.exists => row'.at <= now /\ (row'.edited # 0 => row'.body # 0)
  BY DEF ArchiveInv, TypeOK, Past
<1> QED
  BY <1>1, <1>2 DEF ArchiveInv, TypeOK, RowOnly

\* What is in the events' order is in the row's (RowTrue part by part).
LEMMA DispatchKept ==
  ASSUME ArchiveInv, next \in DOMAIN events, RowOnly, page' = page, next' = next + 1, row' = row,
         NEW item, item = Normalized(events[next]),
         Repeated(events[next]) \/ Stale(item)
  PROVE  RowTrue' /\ PageTrue'
<1> DEFINE e == events[next]
<1>1. /\ TypeOK /\ EditsOrdered /\ NoneAhead /\ EventsTrue /\ RowTrue /\ PageTrue
      /\ UNCHANGED <<now, truth, events, lost>>
  BY DEF ArchiveInv, RowOnly
<1>2. /\ row.exists /\ row \in Texts /\ truth \in Texts /\ truth.body # 0 /\ row \in Row
      /\ row.body \in Nat /\ row.edited \in Nat /\ row.extra \in Nat /\ Past(row)
      /\ truth.body \in Nat /\ truth.edited \in Nat /\ truth.extra \in Nat
      /\ next \in 1..Len(events) /\ next' = next + 1 /\ Len(events) \in Nat /\ DOMAIN events = 1..Len(events)
  <2>1. row.exists
    BY DEF Repeated, Stale
  <2>2. row \in Texts /\ truth \in Texts
    BY <2>1 DEF Texts
  <2>3. truth.body # 0
    BY <1>1 DEF EventsTrue
  <2> QED
    BY <1>1, <2>1, <2>2, <2>3, ArchiveTypes, RowTypes DEF NoneAhead
<1>3. /\ events[next].body \in Nat /\ events[next].edited \in Nat /\ events[next].extra \in Nat
      /\ events[next].type \in {"create", "update", "delete"}
  BY <1>1, EventTypes
<1>4. \/ Buried
      \/ Repeated(events[next]) /\ ~Buried
      \/ row.edited > item.edited /\ ~Buried
  BY <1>1, <1>2, PatchOrder DEF Stale, Buried
<1>5. (Buried' <=> Buried) /\ row'.body = row.body /\ row'.edited = row.edited /\ row'.extra = row.extra /\ row'.exists
  BY <1>2 DEF Buried
<1>6. ~lost => row.body # 0
  <2>1. CASE Buried
    BY <1>1, <1>2, <2>1 DEF RowTrue
  <2>2. CASE Repeated(events[next]) /\ ~Buried
    BY <1>2, <2>2 DEF Repeated, Partial, Buried
  <2>3. CASE row.edited > item.edited
    <3>1. item.edited \in Nat
      BY <1>1, PatchOrder, RowTypes
    <3> QED
      BY <1>2, <2>3, <3>1 DEF Past
  <2> QED
    BY <1>4, <2>1, <2>2, <2>3
<1>7. ~lost /\ truth.deleted /\ next' = Len(events) + 1 => Buried
  <2>1. SUFFICES ASSUME truth.deleted, next = Len(events), ~Buried
                 PROVE  FALSE
    BY <1>2
  <2>2. e.type = "delete" /\ e.body = 0
    BY <1>1, <2>1 DEF EventsTrue
  <2>3. item.edited = row.edited
    BY <1>1, <1>2, <2>2, PatchOrder
  <2> QED
    BY <1>2, <1>4, <2>1, <2>2, <2>3 DEF Repeated
<1>8. ASSUME ~lost, \A i \in DOMAIN events : next' <= i => events[i].body = 0
      PROVE  row.body = truth.body /\ row.edited = truth.edited
  <2>1. CASE Buried
    BY <1>1, <1>8, <2>1 DEF RowTrue
  <2>2. CASE e.body = 0
    <3>1. \A i \in DOMAIN events : next <= i => events[i].body = 0
      BY <1>2, <1>8, <2>2
    <3> QED
      BY <1>1, <1>2, <1>8, <3>1 DEF RowTrue
  <2>3. CASE e.body # 0 /\ ~Buried
    <3>1. \A j \in DOMAIN events : next < j => events[j].body = 0
      BY <1>2, <1>8
    <3>2. e.body = truth.body /\ e.edited = truth.edited
      BY <1>1, <2>3, <3>1 DEF EventsTrue
    <3>3. item.edited = truth.edited
      BY <1>1, <2>3, <3>2, PatchOrder
    <3>4. Repeated(e)
      BY <1>2, <1>4, <2>3, <3>3 DEF Past
    <3>5. truth.body = 1
      BY <1>1, <3>2, <3>4 DEF Repeated, EventsTrue
    <3>6. row.body = 1
      BY <1>2, <1>6, <1>8, <3>5 DEF Past
    <3>7. ~(row.edited < truth.edited)
      BY <1>1, <1>2, <3>5, <3>6 DEF EditsOrdered, Before
    <3> QED
      BY <1>2, <3>5, <3>6, <3>7 DEF Past
  <2> QED
    BY <2>1, <2>2, <2>3
<1>9. ASSUME ~lost, \A i \in DOMAIN events : next' <= i => events[i].type = "delete"
      PROVE  row.extra = truth.extra
  <2>1. CASE Buried
    BY <1>1, <1>9, <2>1 DEF RowTrue
  <2>2. CASE e.type = "delete"
    <3>1. \A i \in DOMAIN events : next <= i => events[i].type = "delete"
      BY <1>2, <1>9, <2>2
    <3> QED
      BY <1>1, <1>2, <1>9, <3>1 DEF RowTrue
  <2>3. CASE e.type # "delete" /\ ~Buried
    <3>1. \A j \in DOMAIN events : next < j => events[j].type = "delete" /\ events[j].body = 0
      BY <1>1, <1>2, <1>9 DEF EventsTrue
    <3>2. e.extra = truth.extra
      BY <1>1, <2>3, <3>1 DEF EventsTrue
    <3>3. CASE Repeated(e)
      <4>1. e.extra = 0
        BY <1>1, <3>3 DEF Repeated, EventsTrue
      <4> QED
        BY <1>2, <3>2, <4>1 DEF Past
    <3>4. CASE row.edited > item.edited
      <4>1. e.body # 0
        <5>1. SUFFICES ASSUME e.body = 0
                       PROVE  FALSE
          OBVIOUS
        <5>2. item.edited = row.edited
          BY <1>1, <1>2, <5>1, PatchOrder
        <5> QED
          BY <1>2, <3>4, <5>2
      <4>2. item.edited = truth.edited
        BY <1>1, <3>1, <4>1, PatchOrder DEF EventsTrue
      <4> QED
        BY <1>2, <3>4, <4>2 DEF Past
    <3> QED
      BY <1>4, <2>3, <3>3, <3>4
  <2> QED
    BY <2>1, <2>2, <2>3
<1>10. RowTrue'
  BY <1>1, <1>2, <1>5, <1>6, <1>7, <1>8, <1>9 DEF RowTrue
<1>11. PageTrue'
  BY <1>1 DEF PageTrue
<1> QED
  BY <1>10, <1>11

LEMMA DispatchWrites ==
  ASSUME ArchiveInv, next \in DOMAIN events, RowOnly, page' = page, next' = next + 1,
         NEW item, item = Normalized(events[next]), row' = item, ~Stale(item)
  PROVE  RowTrue' /\ PageTrue'
<1> DEFINE e == events[next]
<1>1. /\ TypeOK /\ EditsOrdered /\ NoneAhead /\ EventsTrue /\ RowTrue /\ PageTrue
      /\ UNCHANGED <<now, truth, events, lost>>
  BY DEF ArchiveInv, RowOnly
<1>2. /\ truth.body # 0 /\ ~Buried /\ now \in Nat
      /\ next \in 1..Len(events) /\ next' = next + 1 /\ Len(events) \in Nat /\ DOMAIN events = 1..Len(events)
  BY <1>1, ArchiveTypes DEF EventsTrue, Stale, Buried
<1>3. /\ item \in Row /\ item.live = TRUE /\ item.at = now /\ item.exists = TRUE
      /\ e.body # 0 => item.body = e.body /\ item.edited = e.edited
      /\ e.body = 0 /\ row.exists => item.body = row.body /\ item.edited = row.edited
      /\ e.type # "delete" => item.extra = e.extra
      /\ e.type = "delete" /\ row.exists => item.extra = row.extra
      /\ item.deleted <=> e.type = "delete"
  <2>1. item \in Row
    BY <1>1, PatchOrder
  <2>2. item.exists = TRUE
    BY <2>1, RowTypes
  <2> QED
    BY <1>1, <1>2, <2>1, <2>2, PatchOrder
<1>4. e.type = "delete" <=> truth.deleted /\ next = Len(events)
  BY <1>1 DEF EventsTrue
<1>5. e.type = "delete" => e.body = 0
  BY <1>1 DEF EventsTrue
<1>6. Buried' <=> e.type = "delete"
  BY <1>3 DEF Buried
<1>7. ASSUME ~lost
      PROVE  item.body # 0
  <2>1. CASE e.body # 0
    BY <1>3, <2>1
  <2>2. CASE e.body = 0
    <3>1. next # 1
      BY <1>1, <1>2, <1>7, <2>2 DEF EventsTrue
    <3>2. row.exists /\ row.body # 0
      BY <1>1, <1>2, <1>7, <3>1 DEF RowTrue
    <3> QED
      BY <1>3, <2>2, <3>2
  <2> QED
    BY <2>1, <2>2
<1>8. ASSUME ~lost, \A i \in DOMAIN events : next' <= i => events[i].body = 0
      PROVE  item.body = truth.body /\ item.edited = truth.edited
  <2>1. CASE e.body # 0
    <3>1. \A j \in DOMAIN events : next < j => events[j].body = 0
      BY <1>2, <1>8
    <3> QED
      BY <1>1, <1>3, <2>1, <3>1 DEF EventsTrue
  <2>2. CASE e.body = 0
    <3>1. \A i \in DOMAIN events : next <= i => events[i].body = 0
      BY <1>2, <1>8, <2>2
    <3>2. row.exists /\ row.body = truth.body /\ row.edited = truth.edited
      BY <1>1, <1>2, <1>8, <3>1 DEF RowTrue
    <3> QED
      BY <1>3, <2>2, <3>2
  <2> QED
    BY <2>1, <2>2
<1>9. ASSUME ~lost, \A i \in DOMAIN events : next' <= i => events[i].type = "delete"
      PROVE  item.extra = truth.extra
  <2>1. CASE e.type # "delete"
    <3>1. \A j \in DOMAIN events : next < j => events[j].type = "delete"
      BY <1>2, <1>9
    <3> QED
      BY <1>1, <1>3, <2>1, <3>1 DEF EventsTrue
  <2>2. CASE e.type = "delete"
    <3>1. \A i \in DOMAIN events : next <= i => events[i].type = "delete"
      BY <1>2, <1>9, <2>2
    <3>2. row.exists /\ row.extra = truth.extra
      BY <1>1, <1>2, <1>9, <3>1 DEF RowTrue
    <3> QED
      BY <1>3, <2>2, <3>2
  <2> QED
    BY <2>1, <2>2
<1>10. ASSUME ~lost, Buried'
       PROVE  item.body = truth.body /\ item.edited = truth.edited /\ item.extra = truth.extra
  <2>1. next = Len(events)
    BY <1>4, <1>6, <1>10
  <2>2. \A i \in DOMAIN events : ~(next' <= i)
    BY <1>2, <2>1
  <2> QED
    BY <1>8, <1>9, <1>10, <2>2
<1>11. RowTrue'
  BY <1>1, <1>2, <1>3, <1>4, <1>6, <1>7, <1>8, <1>9, <1>10 DEF RowTrue
<1>12. PageTrue'
  <2>1. page.step # "none" => page.at <= now /\ page.at \in Nat
    BY <1>1, ArchiveTypes, ArchiveSets DEF PageTrue
  <2>2. page.step = "read" => ~(row'.at < page'.at)
    BY <1>2, <1>3, <2>1
  <2> QED
    BY <1>1, <1>3, <2>2 DEF PageTrue
<1> QED
  BY <1>11, <1>12

LEMMA DispatchKeeps ==
  ASSUME ArchiveInv, Dispatch
  PROVE  ArchiveInv'
<1>1. /\ next \in DOMAIN events /\ RowOnly /\ page' = page /\ next' = next + 1 /\ replays' = replays
      /\ next' \in 1..(Len(events) + 1) /\ TypeOK /\ truth.body # 0 /\ truth \in Texts /\ events[next] \in Texts
      /\ now \in Nat
  <2>1. next \in DOMAIN events /\ next + 1 \in 1..(Len(events) + 1) /\ now \in Nat /\ TypeOK
    BY ArchiveTypes DEF ArchiveInv, Dispatch
  <2> QED
    BY <2>1 DEF ArchiveInv, Dispatch, RowOnly, EventsTrue, Texts
<1>2. PICK item : item = Normalized(events[next])
  OBVIOUS
<1>3. CASE row' = row /\ (Repeated(events[next]) \/ Stale(item))
  <2>1. RowTrue' /\ PageTrue'
    BY <1>1, <1>2, <1>3, DispatchKept
  <2>2. TypeOK' /\ EditsOrdered' /\ NoneAhead' /\ EventsTrue'
    BY <1>1, <1>3, TextsKept, RowTypesKept
  <2> QED
    BY <2>1, <2>2 DEF ArchiveInv
<1>4. CASE row' = item /\ ~Stale(item)
  <2>1. RowTrue' /\ PageTrue'
    BY <1>1, <1>2, <1>4, DispatchWrites
  <2>2. item \in Row /\ item.at = now
    BY <1>1, <1>2, PatchOrder
  <2>3. item.exists /\ item.at <= now
    <3>1. item.exists = TRUE
      BY <2>2, RowTypes
    <3> QED
      BY <1>1, <2>2, <3>1
  <2>4. Past(item) /\ (item.body # 0 => \E z \in Texts : item.body = z.body /\ item.edited = z.edited)
    <3>1. Past(events[next]) /\ (row.exists => row \in Texts /\ Past(row))
      BY <1>1 DEF ArchiveInv, NoneAhead, Texts
    <3>2. truth.edited \in Nat /\ truth.extra \in Nat /\ truth.body \in Nat
      BY <1>1, ArchiveTypes
    <3>3. item.body # 0 => \E z \in Texts : item.body = z.body /\ item.edited = z.edited
      BY <1>1, <1>2, <3>1, PatchOrder
    <3>4. item.body <= truth.body /\ item.edited <= truth.edited /\ (item.body = 0 => item.edited = 0)
      BY <1>1, <1>2, <3>1, <3>2, PatchOrder DEF Past
    <3>5. item.extra <= truth.extra
      <4>1. item.extra \in {events[next].extra, 0} \/ (row.exists /\ item.extra = row.extra)
        BY <1>1, <1>2, PatchOrder
      <4> QED
        BY <3>1, <3>2, <4>1 DEF Past
    <3> QED
      BY <3>3, <3>4, <3>5 DEF Past
  <2>5. TypeOK' /\ EditsOrdered' /\ NoneAhead' /\ EventsTrue'
    BY <1>1, <1>4, <2>2, <2>3, <2>4, TextsKept, RowTypesKept
  <2> QED
    BY <2>1, <2>5 DEF ArchiveInv
<1> QED
  BY <1>2, <1>3, <1>4 DEF Dispatch, Write

LEMMA PostKeeps ==
  ASSUME ArchiveInv, Post
  PROVE  ArchiveInv'
<1>1. /\ TypeOK /\ EditsOrdered /\ NoneAhead /\ EventsTrue /\ RowTrue /\ PageTrue
      /\ RowOnly /\ next' = next /\ page' = NoPage /\ replays' = replays /\ page.step = "read"
      /\ next \in 1..(Len(events) + 1)
  BY ArchiveTypes DEF ArchiveInv, Post, RowOnly
<1>2. /\ page \in ReadPage /\ page \in Texts /\ truth \in Texts /\ Past(page)
      /\ truth.body \in Nat /\ truth.edited \in Nat /\ truth.extra \in Nat
      /\ page.body \in Nat /\ page.edited \in Nat /\ page.extra \in Nat /\ page.at \in Nat
      /\ page.at <= now
  BY <1>1, ArchiveTypes, PageTypes DEF NoneAhead, Texts, PageTrue
<1>3. PageTrue'
  BY <1>1 DEF PageTrue, NoPage
<1>4. CASE row' = row
  <2>1. TypeOK' /\ EditsOrdered' /\ NoneAhead' /\ EventsTrue'
    BY <1>1, <1>4, TextsKept, RowTypesKept
  <2>2. RowTrue'
    BY <1>1, <1>4 DEF RowTrue, Buried, RowOnly
  <2> QED
    BY <1>3, <2>1, <2>2 DEF ArchiveInv
<1>5. ASSUME page.found,
             NEW item, item = [exists |-> TRUE, body |-> page.body, extra |-> page.extra, edited |-> page.edited,
                               deleted |-> FALSE, live |-> FALSE, at |-> page.at],
             row' = item, ~Stale(item)
      PROVE  ArchiveInv'
  <2>1. /\ item \in Row /\ item.exists = TRUE /\ item.body = page.body /\ item.extra = page.extra
        /\ item.edited = page.edited /\ item.deleted = FALSE /\ item.live = FALSE /\ item.at = page.at
    BY <1>2, <1>5, PageTypes DEF Row
  <2>2. TypeOK' /\ EditsOrdered' /\ NoneAhead' /\ EventsTrue'
    <3>1. Past(row') /\ row'.exists /\ row'.at <= now /\ row' \in Row
      BY <1>2, <1>5, <2>1 DEF Past
    <3>2. row'.body # 0 => \E z \in Texts : row'.body = z.body /\ row'.edited = z.edited
      BY <1>2, <1>5, <2>1
    <3> QED
      BY <1>1, <3>1, <3>2, TextsKept, RowTypesKept
  <2>3. ~Buried /\ ~Buried'
    BY <1>5, <2>1 DEF Stale, Buried
  <2>4. item.body # 0
    BY <1>1, <1>5, <2>1 DEF PageTrue
  <2>5. ASSUME row.exists
        PROVE  /\ ~(row.edited > item.edited) /\ row.extra <= item.extra
               /\ row \in Texts /\ row.edited \in Nat /\ row.extra \in Nat
    <3>1. ~(row.edited > item.edited) /\ (row.live => ~(page.at <= row.at))
      BY <1>5, <2>1, <2>5 DEF Stale
    <3>2. row.edited \in Nat /\ row.extra \in Nat /\ row.at \in Nat /\ row \in Texts
      BY <1>1, <2>5, ArchiveTypes, RowTypes DEF Texts
    <3>3. row.live => row.at < page.at
      BY <1>2, <3>1, <3>2
    <3>4. row.extra <= page.extra
      BY <1>1, <1>5, <2>5, <3>3 DEF PageTrue
    <3> QED
      BY <2>1, <3>1, <3>2, <3>4
  <2>6. ASSUME ~lost, truth.body # 0, \A i \in DOMAIN events : next <= i => events[i].body = 0
        PROVE  item.body = truth.body /\ item.edited = truth.edited
    <3>1. row.exists /\ row.edited = truth.edited
      BY <1>1, <2>6 DEF RowTrue
    <3>2. item.edited = truth.edited
      BY <1>2, <2>1, <2>5, <3>1 DEF Past
    <3>3. page.body # 0 /\ ~(page.body < truth.body)
      <4>1. page.body # 0 /\ page.edited = truth.edited
        BY <2>1, <2>4, <3>2
      <4>2. page.body < truth.body <=> page.edited < truth.edited
        BY <1>1, <1>2, <2>6, <4>1 DEF EditsOrdered, Before
      <4> QED
        BY <1>2, <4>1, <4>2
    <3> QED
      BY <1>2, <2>1, <3>2, <3>3 DEF Past
  <2>7. ASSUME ~lost, truth.body # 0, \A i \in DOMAIN events : next <= i => events[i].type = "delete"
        PROVE  item.extra = truth.extra
    <3>1. row.exists /\ row.extra = truth.extra
      BY <1>1, <2>7 DEF RowTrue
    <3> QED
      BY <1>2, <2>1, <2>5, <3>1 DEF Past
  <2>8. RowTrue'
    BY <1>1, <1>5, <2>1, <2>3, <2>4, <2>6, <2>7 DEF RowTrue, RowOnly
  <2> QED
    BY <1>3, <2>2, <2>8 DEF ArchiveInv
<1> QED
  <2>1. CASE ~page.found
    BY <1>4, <2>1 DEF Post
  <2>2. CASE page.found
    <3>1. PICK item : item = [exists |-> TRUE, body |-> page.body, extra |-> page.extra, edited |-> page.edited,
                              deleted |-> FALSE, live |-> FALSE, at |-> page.at]
      OBVIOUS
    <3>2. row' = (IF Stale(item) THEN row ELSE item)
      BY <2>2, <3>1 DEF Post, Write
    <3> QED
      BY <1>4, <1>5, <2>2, <3>1, <3>2
  <2> QED
    BY <2>1, <2>2

-----------------------------------------------------------------------------
(* What Discord emits. *)

\* Discord's text becomes t, and the event of it is e.
Emitted(t, e) ==
  /\ Len(events) < MaxEvents /\ events' = Append(events, e) /\ truth' = t
  /\ t \in [body: Nat, extra: Nat, edited: Time, deleted: BOOLEAN] /\ e \in EventType
  /\ t.body # 0 /\ truth.body <= t.body /\ t.body <= truth.body + 1
  /\ truth.extra <= t.extra /\ t.extra <= truth.extra + 1
  /\ truth.edited <= t.edited /\ t.edited <= now
  /\ (t.body = truth.body /\ t.edited = truth.edited) \/ (truth.body # t.body /\ truth.body = 0 /\ t.edited = 0 /\ truth.edited = 0)
       \/ (truth.body < t.body /\ truth.edited < t.edited)
  /\ e.body = 0 => e.edited = 0 /\ t.body = truth.body /\ t.edited = truth.edited
  /\ e.body # 0 => e.body = t.body /\ e.edited = t.edited
  /\ e.type = "delete" => t.extra = truth.extra /\ e.body = 0 /\ e.extra <= t.extra
  /\ e.type # "delete" => e.extra = t.extra
  /\ e.type = "create" => truth.body = 0 /\ e.body = 1 /\ e.extra = 0
  /\ truth.body = 0 => e.type = "create"
  /\ t.deleted <=> e.type = "delete"
  /\ ~truth.deleted
  /\ UNCHANGED <<now, next, lost, page, row, replays>>

LEMMA EmittedEvents ==
  ASSUME TypeOK, NEW t, NEW e, Emitted(t, e)
  PROVE  /\ Len(events) \in Nat /\ Len(events') = Len(events) + 1 /\ events' \in Seq(EventType)
         /\ DOMAIN events = 1..Len(events) /\ DOMAIN events' = 1..(Len(events) + 1)
         /\ events'[Len(events) + 1] = e
         /\ \A i \in DOMAIN events : events'[i] = events[i]
BY ArchiveTypes DEF Emitted

LEMMA EmittedTexts ==
  ASSUME ArchiveInv, NEW t, NEW e, Emitted(t, e)
  PROVE  EditsOrdered' /\ NoneAhead'
<1>1. TypeOK /\ EditsOrdered /\ NoneAhead /\ EventsTrue /\ truth \in Texts
  BY DEF ArchiveInv, Texts
<1>2. /\ truth.body \in Nat /\ truth.extra \in Nat /\ truth.edited \in Nat /\ now \in Nat
      /\ t.body \in Nat /\ t.extra \in Nat /\ t.edited \in Nat
      /\ e.body \in Nat /\ e.extra \in Nat /\ e.edited \in Nat
  BY <1>1, ArchiveTypes, ArchiveSets DEF Emitted, EventType
<1>3. ASSUME NEW y \in Texts'
      PROVE  y \in Texts \/ y = t \/ y = e
  <2>1. CASE y \in {events'[i] : i \in DOMAIN events'}
    <3>1. PICK i \in 1..(Len(events) + 1) : y = events'[i]
      BY <1>1, <2>1, EmittedEvents
    <3>2. i \in DOMAIN events \/ i = Len(events) + 1
      BY <1>1, EmittedEvents
    <3> QED
      BY <1>1, <3>1, <3>2, EmittedEvents DEF Texts
  <2> QED
    BY <1>3, <2>1 DEF Texts, Emitted
<1>4. /\ truth.body <= t.body /\ truth.extra <= t.extra /\ truth.edited <= t.edited /\ truth' = t
      /\ t.edited <= now /\ now' = now /\ t.body # 0
      /\ e.body = 0 => e.edited = 0
      /\ e.body # 0 => e.body = t.body /\ e.edited = t.edited
      /\ e.extra <= t.extra
  BY <1>2 DEF Emitted, EventType
<1>5. \A y \in Texts : y.body \in Nat /\ y.edited \in Nat /\ y.extra \in Nat /\ Past(y)
  BY <1>1, TextTypes DEF NoneAhead
<1>6. NoneAhead'
  <2>1. ASSUME NEW y \in Texts
        PROVE  Past(y)'
    BY <1>2, <1>4, <1>5 DEF Past
  <2>2. Past(t)' /\ Past(e)'
    BY <1>2, <1>4 DEF Past
  <2>3. \A y \in Texts' : Past(y)'
    BY <1>3, <2>1, <2>2
  <2> QED
    BY <1>4, <2>3 DEF NoneAhead
<1>7. ASSUME NEW y \in Texts, y.body # 0
      PROVE  Before(y, t) /\ Before(t, y)
  <2>1. CASE t.body = truth.body /\ t.edited = truth.edited
    BY <1>1, <1>4, <1>7, <2>1 DEF EditsOrdered, Before
  <2>2. CASE truth.body = 0
    BY <1>5, <1>7, <2>2 DEF Past
  <2>3. CASE truth.body < t.body /\ truth.edited < t.edited
    BY <1>2, <1>5, <2>3 DEF Past, Before
  <2> QED
    BY <2>1, <2>2, <2>3 DEF Emitted
<1>8. EditsOrdered'
  <2>1. \A y \in Texts' : y.body # 0 => y \in Texts \/ (y.body = t.body /\ y.edited = t.edited)
    BY <1>3, <1>4
  <2>2. ASSUME NEW x \in Texts', NEW y \in Texts', x.body # 0, y.body # 0
        PROVE  Before(x, y)
    <3>1. CASE x \in Texts /\ y \in Texts
      BY <1>1, <2>2, <3>1 DEF EditsOrdered
    <3>2. CASE x \in Texts /\ y.body = t.body /\ y.edited = t.edited
      BY <1>7, <2>2, <3>2 DEF Before
    <3>3. CASE y \in Texts /\ x.body = t.body /\ x.edited = t.edited
      BY <1>7, <2>2, <3>3 DEF Before
    <3>4. CASE x.body = t.body /\ x.edited = t.edited /\ y.body = t.body /\ y.edited = t.edited
      BY <1>2, <3>4 DEF Before
    <3> QED
      BY <2>1, <2>2, <3>1, <3>2, <3>3, <3>4
  <2> QED
    BY <2>2 DEF EditsOrdered, Before
<1> QED
  BY <1>6, <1>8

LEMMA EmittedLog ==
  ASSUME ArchiveInv, NEW t, NEW e, Emitted(t, e)
  PROVE  EventsTrue'
<1> DEFINE n == Len(events) + 1
<1>1. TypeOK /\ EventsTrue
  BY DEF ArchiveInv
<1>2. /\ Len(events) \in Nat /\ Len(events') = n /\ events' \in Seq(EventType)
      /\ DOMAIN events = 1..Len(events) /\ DOMAIN events' = 1..n
      /\ events'[n] = e
      /\ \A i \in DOMAIN events : events'[i] = events[i]
  BY <1>1, EmittedEvents
<1>3. \A i \in DOMAIN events' : i = n \/ (i \in DOMAIN events /\ i < n /\ events'[i] = events[i])
  BY <1>2
<1>4. truth' = t /\ lost' = lost /\ t.body # 0 /\ ~truth.deleted /\ (t.deleted <=> e.type = "delete") /\ n \in DOMAIN events'
  BY <1>2 DEF Emitted
<1>5. truth.body = 0 => events = <<>> /\ n = 1
  BY <1>1, <1>2 DEF EventsTrue
<1>6. Len(events') <= MaxEvents /\ t.body <= n + 1 /\ t.extra <= n
  <2>1. truth.body \in Nat /\ truth.extra \in Nat /\ t.body \in Nat /\ t.extra \in Nat
    BY <1>1, ArchiveTypes DEF Emitted
  <2>2. truth.body <= Len(events) + 1 /\ truth.extra <= Len(events)
    BY <1>1 DEF EventsTrue
  <2>3. t.body <= truth.body + 1 /\ t.extra <= truth.extra + 1 /\ Len(events) < MaxEvents
    BY DEF Emitted
  <2> QED
    BY <1>2, <2>1, <2>2, <2>3, ArchiveAssumption
<1>7. \A i \in DOMAIN events' : events'[i].type = "create" => i = 1 /\ events'[i].body = 1 /\ events'[i].extra = 0
  <2>1. e.type = "create" => n = 1 /\ e.body = 1 /\ e.extra = 0
    BY <1>5 DEF Emitted
  <2> QED
    BY <1>1, <1>2, <1>3, <2>1 DEF EventsTrue
<1>8. \A i \in DOMAIN events' : events'[i].type = "delete" <=> t.deleted /\ i = n
  BY <1>1, <1>2, <1>3, <1>4 DEF EventsTrue
<1>9. \A i \in DOMAIN events' : events'[i].type = "delete" => events'[i].body = 0
  <2>1. e.type = "delete" => e.body = 0
    BY DEF Emitted
  <2> QED
    BY <1>1, <1>2, <1>3, <2>1 DEF EventsTrue
<1>10. events' # <<>>
  BY <1>2
<1>11. ~lost' => events'[1].type = "create"
  <2>1. CASE truth.body = 0
    BY <1>2, <1>5, <2>1 DEF Emitted
  <2>2. CASE truth.body # 0 /\ ~lost
    <3>1. events # <<>> /\ events[1].type = "create"
      BY <1>1, <2>2 DEF EventsTrue
    <3>2. 1 \in DOMAIN events
      BY <1>1, <1>2, <3>1, ArchiveTypes
    <3> QED
      BY <1>2, <3>1, <3>2
  <2> QED
    BY <1>4, <2>1, <2>2
<1>12. ASSUME NEW i \in DOMAIN events', events'[i].body # 0, \A j \in DOMAIN events' : i < j => events'[j].body = 0
       PROVE  events'[i].body = t.body /\ events'[i].edited = t.edited
  <2>1. CASE i = n
    BY <1>2, <1>12, <2>1 DEF Emitted
  <2>2. CASE i \in DOMAIN events
    <3>1. e.body = 0
      BY <1>2, <1>3, <1>4, <1>12, <2>2
    <3>2. t.body = truth.body /\ t.edited = truth.edited
      BY <3>1 DEF Emitted
    <3>3. \A j \in DOMAIN events : i < j => events[j].body = 0
      BY <1>2, <1>12
    <3> QED
      BY <1>1, <1>2, <1>12, <2>2, <3>2, <3>3 DEF EventsTrue
  <2> QED
    BY <1>3, <2>1, <2>2
<1>13. ASSUME NEW i \in DOMAIN events', events'[i].type # "delete",
              \A j \in DOMAIN events' : i < j => events'[j].type = "delete"
       PROVE  events'[i].extra = t.extra
  <2>1. CASE i = n
    BY <1>2, <1>13, <2>1 DEF Emitted
  <2>2. CASE i \in DOMAIN events
    <3>1. e.type = "delete"
      BY <1>2, <1>3, <1>4, <1>13, <2>2
    <3>2. t.extra = truth.extra
      BY <3>1 DEF Emitted
    <3>3. \A j \in DOMAIN events : i < j => events[j].type = "delete"
      BY <1>2, <1>13
    <3> QED
      BY <1>1, <1>2, <1>13, <2>2, <3>2, <3>3 DEF EventsTrue
  <2> QED
    BY <1>3, <2>1, <2>2
<1> HIDE DEF n
<1> QED
  BY <1>2, <1>4, <1>6, <1>7, <1>8, <1>9, <1>10, <1>11, <1>12, <1>13 DEF EventsTrue

LEMMA EmittedRow ==
  ASSUME ArchiveInv, NEW t, NEW e, Emitted(t, e)
  PROVE  RowTrue' /\ PageTrue'
<1>1. TypeOK /\ EventsTrue /\ RowTrue /\ PageTrue
  BY DEF ArchiveInv
<1>2. /\ Len(events) \in Nat /\ Len(events') = Len(events) + 1
      /\ DOMAIN events = 1..Len(events) /\ DOMAIN events' = 1..(Len(events) + 1)
      /\ events'[Len(events) + 1] = e
      /\ \A i \in DOMAIN events : events'[i] = events[i]
  BY <1>1, EmittedEvents
<1>3. /\ truth' = t /\ UNCHANGED <<now, next, lost, page, row>> /\ ~truth.deleted /\ ~Buried
      /\ next \in 1..(Len(events) + 1)
  BY <1>1, ArchiveTypes DEF RowTrue, Emitted
<1>4. ~Buried' /\ next' # Len(events') + 1
  BY <1>2, <1>3 DEF Buried
<1>5. ASSUME ~lost, \A i \in DOMAIN events' : next <= i => events'[i].body = 0
      PROVE  row.exists /\ row.body = t.body /\ row.edited = t.edited
  <2>1. e.body = 0
    BY <1>2, <1>3, <1>5
  <2>2. t.body = truth.body /\ t.edited = truth.edited /\ truth.body # 0
    BY <2>1 DEF Emitted
  <2>3. \A i \in DOMAIN events : next <= i => events[i].body = 0
    BY <1>2, <1>5
  <2> QED
    BY <1>1, <1>5, <2>2, <2>3 DEF RowTrue
<1>6. ASSUME ~lost, \A i \in DOMAIN events' : next <= i => events'[i].type = "delete"
      PROVE  row.exists /\ row.extra = t.extra
  <2>1. e.type = "delete"
    BY <1>2, <1>3, <1>6
  <2>2. t.extra = truth.extra /\ truth.body # 0
    BY <2>1 DEF Emitted
  <2>3. \A i \in DOMAIN events : next <= i => events[i].type = "delete"
    BY <1>2, <1>6
  <2> QED
    BY <1>1, <1>6, <2>2, <2>3 DEF RowTrue
<1>7. RowTrue'
  BY <1>1, <1>3, <1>4, <1>5, <1>6 DEF RowTrue
<1>8. PageTrue'
  BY <1>1, <1>3 DEF PageTrue
<1> QED
  BY <1>7, <1>8

LEMMA EmittedTypes ==
  ASSUME ArchiveInv, NEW t, NEW e, Emitted(t, e), EventsTrue'
  PROVE  TypeOK'
<1>1. TypeOK /\ truth' = t /\ UNCHANGED <<now, next, lost, page, row, replays>>
  BY DEF ArchiveInv, Emitted
<1>2. Len(events) \in Nat /\ Len(events') = Len(events) + 1 /\ events' \in Seq(EventType)
  BY <1>1, EmittedEvents
<1>3. t \in [body: Bodies, extra: Extras, edited: Time, deleted: BOOLEAN]
  <2>1. t.body <= Len(events') + 1 /\ t.extra <= Len(events') /\ Len(events') <= MaxEvents
    BY <1>1 DEF EventsTrue
  <2>2. t \in [body: Nat, extra: Nat, edited: Time, deleted: BOOLEAN]
    BY DEF Emitted
  <2>3. t.body \in Bodies /\ t.extra \in Extras
    BY <1>2, <2>1, <2>2, ArchiveAssumption DEF Bodies, Extras
  <2> QED
    BY <2>2, <2>3
<1>4. next \in 1..(Len(events') + 1)
  BY <1>1, <1>2, ArchiveTypes
<1> QED
  BY <1>1, <1>2, <1>3, <1>4 DEF TypeOK, EventType

LEMMA EmittedKeeps ==
  ASSUME ArchiveInv, NEW t, NEW e, Emitted(t, e)
  PROVE  ArchiveInv'
BY EmittedTexts, EmittedLog, EmittedRow, EmittedTypes DEF ArchiveInv

\* What Discord does is emitted.
LEMMA DiscordEmits ==
  ASSUME ArchiveInv, Create \/ Edit \/ Touch \/ Delete
  PROVE  ArchiveInv'
<1>1. /\ TypeOK /\ EventsTrue /\ NoneAhead /\ truth.edited <= now /\ Past(truth)
      /\ truth.body \in Nat /\ truth.extra \in Nat /\ truth.edited \in Nat /\ truth.edited \in Time
      /\ truth.deleted \in BOOLEAN /\ now \in Nat /\ now \in Time /\ Len(events) \in Nat
      /\ truth \in [body: Bodies, extra: Extras, edited: Time, deleted: BOOLEAN]
  BY ArchiveTypes DEF ArchiveInv, NoneAhead, Texts, TypeOK
<1>2. truth.body \in Bodies /\ truth.extra \in Extras /\ truth.body <= Len(events) + 1 /\ truth.extra <= Len(events)
  BY <1>1, ArchiveTypes DEF EventsTrue
<1>3. ASSUME NEW k \in Nat, k <= Len(events) + 1, Len(events) < MaxEvents
      PROVE  k \in Bodies /\ k \in Extras
  BY <1>1, <1>3, ArchiveAssumption DEF Bodies, Extras
<1>4. CASE Create
  <2>1. PICK t : t = [truth EXCEPT !.body = 1]
    OBVIOUS
  <2>2. PICK e : e = [type |-> "create", body |-> 1, extra |-> 0, edited |-> 0]
    OBVIOUS
  <2>3. /\ t \in [body: Nat, extra: Nat, edited: Time, deleted: BOOLEAN]
        /\ t.body = 1 /\ t.extra = truth.extra /\ t.edited = truth.edited /\ t.deleted = truth.deleted
    BY <1>1, <2>1, ArchiveSets
  <2>4. 1 \in Bodies
    BY ArchiveAssumption DEF Bodies
  <2>5. e \in EventType /\ e.type = "create" /\ e.body = 1 /\ e.extra = 0 /\ e.edited = 0
    BY <2>2, <2>4, ArchiveSets DEF EventType
  <2>6. truth.body = 0 /\ ~truth.deleted /\ truth.extra = 0 /\ truth.edited = 0
    BY <1>1, <1>4 DEF Create, EventsTrue, Past
  <2>7. /\ Len(events) < MaxEvents /\ events' = Append(events, e) /\ truth' = t
        /\ UNCHANGED <<now, next, lost, page, row, replays>>
    BY <1>4, <2>1, <2>2 DEF Create, Emit
  <2>8. Emitted(t, e)
    BY <1>1, <2>3, <2>5, <2>6, <2>7 DEF Emitted
  <2> QED
    BY <2>8, EmittedKeeps
<1>5. CASE Edit
  <2>1. PICK b \in Nat : b = truth.body + 1
    BY <1>1
  <2>2. PICK t : t = [truth EXCEPT !.body = b, !.edited = now]
    OBVIOUS
  <2>3. PICK e : e = [type |-> "update", body |-> b, extra |-> truth.extra, edited |-> now]
    OBVIOUS
  <2>4. /\ t \in [body: Nat, extra: Nat, edited: Time, deleted: BOOLEAN]
        /\ t.body = b /\ t.extra = truth.extra /\ t.edited = now /\ t.deleted = truth.deleted
    BY <1>1, <2>2, ArchiveSets
  <2>5. Len(events) < MaxEvents /\ truth.body # 0 /\ ~truth.deleted /\ truth.edited < now
    BY <1>5 DEF Edit, Emit, Posted
  <2>6. b \in Bodies
    BY <1>1, <1>2, <2>1, <2>5, ArchiveAssumption DEF Bodies
  <2>7. e \in EventType /\ e.type = "update" /\ e.body = b /\ e.extra = truth.extra /\ e.edited = now
    BY <1>1, <1>2, <2>3, <2>6 DEF EventType
  <2>8. /\ events' = Append(events, e) /\ truth' = t
        /\ UNCHANGED <<now, next, lost, page, row, replays>>
    BY <1>1, <1>5, <2>1, <2>2, <2>3 DEF Edit, Emit
  <2>9. Emitted(t, e)
    BY <1>1, <2>1, <2>4, <2>5, <2>7, <2>8 DEF Emitted
  <2> QED
    BY <2>9, EmittedKeeps
<1>6. CASE Touch
  <2>1. PICK x \in Nat : x = truth.extra + 1
    BY <1>1
  <2>2. PICK t : t = [truth EXCEPT !.extra = x]
    OBVIOUS
  <2>4. /\ t \in [body: Nat, extra: Nat, edited: Time, deleted: BOOLEAN]
        /\ t.body = truth.body /\ t.extra = x /\ t.edited = truth.edited /\ t.deleted = truth.deleted
    BY <1>1, <2>2, ArchiveSets
  <2>5. Len(events) < MaxEvents /\ truth.body # 0 /\ ~truth.deleted
    BY <1>6 DEF Touch, Emit, Posted
  <2>6. x \in Extras
    BY <1>1, <1>2, <2>1, <2>5, ArchiveAssumption DEF Extras
  <2>7. ASSUME NEW b, NEW u, (b = truth.body /\ u = truth.edited) \/ (b = 0 /\ u = 0), Emit("update", b, x, u), truth' = t
        PROVE  ArchiveInv'
    <3>1. PICK e : e = [type |-> "update", body |-> b, extra |-> x, edited |-> u]
      OBVIOUS
    <3>2. b \in Bodies /\ u \in Time
      BY <1>1, <1>2, <2>7, ArchiveSets
    <3>3. e \in EventType /\ e.type = "update" /\ e.body = b /\ e.extra = x /\ e.edited = u
      BY <2>6, <3>1, <3>2 DEF EventType
    <3>4. events' = Append(events, e) /\ UNCHANGED <<now, next, lost, page, row, replays>>
      BY <2>7, <3>1 DEF Emit
    <3>5. Emitted(t, e)
      BY <1>1, <2>1, <2>4, <2>5, <2>7, <3>3, <3>4 DEF Emitted
    <3> QED
      BY <3>5, EmittedKeeps
  <2>8. truth' = t
    BY <1>1, <1>6, <2>1, <2>2 DEF Touch
  <2> QED
    BY <1>6, <2>1, <2>7, <2>8 DEF Touch
<1>7. CASE Delete
  <2>1. PICK t : t = [truth EXCEPT !.deleted = TRUE]
    OBVIOUS
  <2>2. PICK e : e = [type |-> "delete", body |-> 0, extra |-> 0, edited |-> 0]
    OBVIOUS
  <2>3. /\ t \in [body: Nat, extra: Nat, edited: Time, deleted: BOOLEAN]
        /\ t.body = truth.body /\ t.extra = truth.extra /\ t.edited = truth.edited /\ t.deleted = TRUE
    BY <1>1, <2>1, ArchiveSets
  <2>4. e \in EventType /\ e.type = "delete" /\ e.body = 0 /\ e.extra = 0 /\ e.edited = 0
    BY <2>2, ArchiveSets DEF EventType
  <2>5. truth.body # 0 /\ ~truth.deleted
    BY <1>7 DEF Delete, Posted
  <2>6. /\ Len(events) < MaxEvents /\ events' = Append(events, e) /\ truth' = t
        /\ UNCHANGED <<now, next, lost, page, row, replays>>
    BY <1>7, <2>1, <2>2 DEF Delete, Emit
  <2>7. Emitted(t, e)
    BY <1>1, <2>3, <2>4, <2>5, <2>6 DEF Emitted
  <2> QED
    BY <2>7, EmittedKeeps
<1> QED
  BY <1>4, <1>5, <1>6, <1>7

-----------------------------------------------------------------------------
(* The clock, the session and the page. *)

LEMMA TickKeeps ==
  ASSUME ArchiveInv, Tick
  PROVE  ArchiveInv'
<1>1. now' \in Nat /\ now' = now + 1 /\ now \in Nat /\ now' \in Time
  BY ArchiveTypes, ArchiveAssumption DEF ArchiveInv, Tick, Time
<1>2. truth.edited \in Nat /\ (row.exists => row.at \in Nat) /\ (page.step # "none" => page.at \in Nat)
  BY ArchiveTypes, ArchiveSets, RowTypes DEF ArchiveInv
<1>3. UNCHANGED <<truth, events, next, lost, page, row, replays>>
  BY DEF Tick
<1>4. TypeOK'
  BY <1>1, <1>2, <1>3 DEF ArchiveInv, TypeOK
<1>5. EditsOrdered' /\ NoneAhead'
  BY <1>1, <1>2, <1>3 DEF ArchiveInv, EditsOrdered, NoneAhead, Texts, Past
<1>6. EventsTrue' /\ RowTrue'
  BY <1>3 DEF ArchiveInv, EventsTrue, RowTrue, Buried
<1>7. PageTrue'
  BY <1>1, <1>2, <1>3 DEF ArchiveInv, PageTrue
<1> QED
  BY <1>4, <1>5, <1>6, <1>7 DEF ArchiveInv

LEMMA ReplayKeeps ==
  ASSUME ArchiveInv, Replay
  PROVE  ArchiveInv'
<1>1. /\ TypeOK /\ UNCHANGED <<now, truth, events, lost, page, row>>
      /\ next \in 1..(Len(events) + 1) /\ Len(events) \in Nat /\ DOMAIN events = 1..Len(events)
      /\ next' \in 1..(next - 1) /\ replays' = replays + 1 /\ replays < MaxReplays
  BY ArchiveTypes DEF ArchiveInv, Replay
<1>2. next' \in Nat /\ next' < next /\ next' \in 1..(Len(events) + 1) /\ replays' \in 0..MaxReplays /\ next > 1
  BY <1>1, ArchiveAssumption DEF TypeOK
<1>3. TypeOK'
  BY <1>1, <1>2 DEF TypeOK
<1>4. EditsOrdered' /\ NoneAhead' /\ EventsTrue' /\ PageTrue'
  BY <1>1 DEF ArchiveInv, EditsOrdered, NoneAhead, Texts, Past, EventsTrue, PageTrue
<1>5. /\ (\A i \in DOMAIN events : next' <= i => events[i].body = 0) => \A i \in DOMAIN events : next <= i => events[i].body = 0
      /\ (\A i \in DOMAIN events : next' <= i => events[i].type = "delete") =>
           \A i \in DOMAIN events : next <= i => events[i].type = "delete"
      /\ next' # Len(events) + 1
  BY <1>1, <1>2
<1>6. RowTrue'
  BY <1>1, <1>2, <1>5 DEF ArchiveInv, RowTrue, Buried
<1> QED
  BY <1>3, <1>4, <1>6 DEF ArchiveInv

LEMMA GiveUpKeeps ==
  ASSUME ArchiveInv, GiveUp
  PROVE  ArchiveInv'
<1>1. /\ TypeOK /\ UNCHANGED <<now, truth, events, page, row, replays>> /\ lost' = TRUE
      /\ next' = Len(events) + 1 /\ Len(events) \in Nat
  BY ArchiveTypes DEF ArchiveInv, GiveUp
<1>2. TypeOK'
  BY <1>1 DEF TypeOK
<1>3. EditsOrdered' /\ NoneAhead' /\ EventsTrue' /\ PageTrue' /\ RowTrue'
  BY <1>1 DEF ArchiveInv, EditsOrdered, NoneAhead, Texts, Past, EventsTrue, PageTrue, RowTrue, Buried
<1> QED
  BY <1>2, <1>3 DEF ArchiveInv

LEMMA StampKeeps ==
  ASSUME ArchiveInv, Stamp
  PROVE  ArchiveInv'
<1>1. /\ TypeOK /\ UNCHANGED <<now, truth, events, next, lost, row, replays>>
      /\ now \in Time /\ now \in Nat /\ page.step # "read"
  BY ArchiveTypes DEF ArchiveInv, Stamp, NoPage
<1>2. page' \in [step: {"stamped"}, at: Time] /\ page'.step = "stamped" /\ page'.at = now
  BY <1>1 DEF Stamp
<1>3. TypeOK'
  BY <1>1, <1>2 DEF TypeOK
<1>4. Texts' = Texts
  BY <1>1, <1>2 DEF Texts
<1>5. EditsOrdered' /\ NoneAhead' /\ EventsTrue' /\ RowTrue'
  BY <1>1, <1>4 DEF ArchiveInv, EditsOrdered, NoneAhead, Past, EventsTrue, RowTrue, Buried
<1>6. PageTrue'
  BY <1>1, <1>2 DEF PageTrue
<1> QED
  BY <1>3, <1>5, <1>6 DEF ArchiveInv

LEMMA FetchKeeps ==
  ASSUME ArchiveInv, Fetch
  PROVE  ArchiveInv'
<1>1. /\ TypeOK /\ NoneAhead /\ UNCHANGED <<now, truth, events, next, lost, row, replays>>
      /\ truth.body \in Bodies /\ truth.extra \in Extras /\ truth.edited \in Time /\ page.at \in Time
      /\ truth.extra \in Nat /\ page.step = "stamped"
      /\ page.at <= now /\ truth \in Texts /\ Past(truth)
      /\ truth.deleted \in BOOLEAN /\ truth.body \in Nat
  BY ArchiveTypes DEF ArchiveInv, Fetch, PageTrue, NoneAhead, Texts
<1>2. PICK f \in BOOLEAN : f = Posted
  BY DEF Posted
<1>3. page' = [step |-> "read", at |-> page.at, found |-> f, body |-> truth.body, extra |-> truth.extra, edited |-> truth.edited]
  BY <1>2 DEF Fetch
<1>4. /\ page' \in [step: {"read"}, at: Time, found: BOOLEAN, body: Bodies, extra: Extras, edited: Time]
      /\ page'.step = "read" /\ page'.at = page.at /\ page'.found = f /\ page'.body = truth.body
      /\ page'.extra = truth.extra /\ page'.edited = truth.edited
  BY <1>1, <1>3
<1>5. TypeOK'
  BY <1>1, <1>4 DEF TypeOK
<1>6. ASSUME NEW y \in Texts'
      PROVE  y \in Texts \/ y = page'
  BY <1>1, <1>6 DEF Texts
<1>7. EditsOrdered'
  <2>1. \A y \in Texts' : y.body # 0 => \E z \in Texts : y.body = z.body /\ y.edited = z.edited
    BY <1>1, <1>4, <1>6
  <2> QED
    BY <2>1, OrderKept DEF ArchiveInv
<1>8. NoneAhead'
  <2>1. PICK p : p = page'
    OBVIOUS
  <2>2. Past(p)'
    BY <1>1, <1>4, <2>1 DEF Past
  <2>3. ASSUME NEW y \in Texts
        PROVE  Past(y)'
    BY <1>1, <2>3 DEF NoneAhead, Past
  <2>4. \A y \in Texts' : Past(y)'
    BY <1>6, <2>1, <2>2, <2>3
  <2> QED
    BY <1>1, <2>4 DEF NoneAhead
<1>9. EventsTrue' /\ RowTrue'
  BY <1>1 DEF ArchiveInv, EventsTrue, RowTrue, Buried
<1>10. PageTrue'
  <2>1. page'.found => page'.body # 0
    BY <1>2, <1>4 DEF Posted
  <2>2. row.exists => row.extra <= truth.extra
    BY <1>1 DEF NoneAhead, Texts, Past
  <2> QED
    BY <1>1, <1>4, <2>1, <2>2 DEF PageTrue
<1> QED
  BY <1>5, <1>7, <1>8, <1>9, <1>10 DEF ArchiveInv

LEMMA ArchiveStutters ==
  ASSUME ArchiveInv, UNCHANGED vars
  PROVE  ArchiveInv'
<1>1. UNCHANGED <<now, truth, events, next, lost, page, row, replays>>
  BY DEF vars
<1>2. TypeOK' /\ EditsOrdered' /\ NoneAhead'
  BY <1>1 DEF ArchiveInv, TypeOK, EditsOrdered, NoneAhead, Texts, Past
<1>3. EventsTrue' /\ RowTrue' /\ PageTrue'
  BY <1>1 DEF ArchiveInv, EventsTrue, RowTrue, Buried, PageTrue
<1> QED
  BY <1>2, <1>3 DEF ArchiveInv

LEMMA ArchiveInitially ==
  ASSUME Init
  PROVE  ArchiveInv
<1>1. PICK b \in {0, 1} : truth = [body |-> b, extra |-> 0, edited |-> 0, deleted |-> FALSE]
  BY DEF Init
<1>2. /\ truth.body = b /\ truth.extra = 0 /\ truth.edited = 0 /\ truth.deleted = FALSE
      /\ truth \in [body: Bodies, extra: Extras, edited: Time, deleted: BOOLEAN]
  BY <1>1, ArchiveAssumption DEF Bodies, Extras, Time
<1>3. /\ now = 1 /\ events = <<>> /\ next = 1 /\ (lost <=> b = 1) /\ lost \in BOOLEAN /\ page = NoPage /\ row = None /\ replays = 0
      /\ Len(events) = 0 /\ DOMAIN events = {} /\ row.exists = FALSE /\ page.step = "none"
  <2>1. now = 1 /\ events = <<>> /\ next = 1 /\ lost = (truth.body = 1) /\ page = NoPage /\ row = None /\ replays = 0
    BY DEF Init
  <2>2. page.step = "none" /\ row.exists = FALSE
    BY <2>1 DEF NoPage, None
  <2>3. lost \in BOOLEAN /\ (lost <=> b = 1)
    BY <1>2, <2>1
  <2> QED
    BY <2>1, <2>2, <2>3
<1>4. TypeOK
  BY <1>2, <1>3, ArchiveAssumption DEF TypeOK, Time
<1>5. \A y \in Texts : y = truth
  BY <1>3 DEF Texts
<1>6. EditsOrdered /\ NoneAhead
  BY <1>2, <1>3, <1>5 DEF EditsOrdered, Before, NoneAhead, Past
<1>7. EventsTrue
  BY <1>2, <1>3, ArchiveAssumption DEF EventsTrue
<1>8. RowTrue /\ PageTrue
  BY <1>2, <1>3 DEF RowTrue, Buried, PageTrue
<1> QED
  BY <1>4, <1>6, <1>7, <1>8 DEF ArchiveInv

LEMMA ArchiveKept ==
  ASSUME ArchiveInv, Next
  PROVE  ArchiveInv'
BY TickKeeps, DiscordEmits, ReplayKeeps, GiveUpKeeps, DispatchKeeps, StampKeeps, FetchKeeps, PostKeeps DEF Next

\* A row that was not written before stays the one that is about.
LEMMA RowNeverBack ==
  ASSUME ArchiveInv, ArchiveInv', Next, row.exists
  PROVE  /\ row'.exists /\ row'.body >= row.body /\ row'.edited >= row.edited
         /\ row.deleted => row'.deleted /\ row'.body = row.body
         /\ page.step = "read" /\ page' = NoPage => row'.extra >= row.extra
<1>1. /\ TypeOK /\ EditsOrdered /\ row \in Row /\ row \in Texts
      /\ row.body \in Nat /\ row.edited \in Nat /\ row.extra \in Nat /\ row.at \in Nat
  BY ArchiveTypes, RowTypes DEF ArchiveInv, Texts
<1>2. CASE row' = row
  BY <1>1, <1>2
<1>3. ASSUME NEW item \in Row, row' = item, ~Stale(item),
             item.body # 0 => item.body = row.body \/ \E z \in Texts : item.body = z.body /\ item.edited = z.edited,
             item.body = 0 => row.body = 0,
             page.step = "read" /\ page' = NoPage => row.extra <= item.extra
      PROVE  /\ row'.exists /\ row'.body >= row.body /\ row'.edited >= row.edited
             /\ row.deleted => row'.deleted /\ row'.body = row.body
             /\ page.step = "read" /\ page' = NoPage => row'.extra >= row.extra
  <2>1. item.exists = TRUE /\ item.body \in Nat /\ item.edited \in Nat /\ item.extra \in Nat
    BY RowTypes
  <2>2. ~row.deleted /\ ~(row.edited > item.edited)
    BY <1>3 DEF Stale
  <2>3. item.body >= row.body
    <3>1. CASE item.body = 0
      BY <1>1, <1>3, <2>1, <3>1
    <3>2. CASE item.body = row.body
      BY <1>1, <3>2
    <3>3. CASE row.body = 0
      BY <2>1, <3>3
    <3>4. ASSUME NEW z \in Texts, item.body = z.body, item.edited = z.edited, item.body # 0, row.body # 0
          PROVE  item.body >= row.body
      <4>1. z.body # 0 /\ row.edited <= z.edited
        BY <1>1, <2>1, <2>2, <3>4
      <4>2. row.body <= z.body
        BY <1>1, <3>4, <4>1, Later
      <4> QED
        BY <1>1, <2>1, <3>4, <4>2
    <3> QED
      BY <1>3, <3>1, <3>2, <3>3, <3>4
  <2> QED
    BY <1>1, <1>3, <2>1, <2>2, <2>3
<1>4. CASE Dispatch /\ row' # row
  <2>1. next \in DOMAIN events
    BY <1>1, <1>4, ArchiveTypes DEF Dispatch
  <2>2. PICK item : item = Normalized(events[next])
    OBVIOUS
  <2>3. row' = item /\ ~Stale(item)
    BY <1>4, <2>2 DEF Dispatch, Write
  <2>4. item \in Row /\ events[next] \in Texts
    BY <1>1, <2>1, <2>2, PatchOrder DEF Texts
  <2>5. page' = page
    BY <1>4 DEF Dispatch
  <2>6. item.body # 0 => item.body = row.body \/ \E z \in Texts : item.body = z.body /\ item.edited = z.edited
    BY <1>1, <2>1, <2>2, <2>4, PatchOrder
  <2>7. item.body = 0 => row.body = 0
    BY <1>1, <2>1, <2>2, PatchOrder
  <2>8. ~(page.step = "read" /\ page' = NoPage)
    BY <2>5 DEF NoPage
  <2> QED
    BY <1>3, <2>3, <2>4, <2>6, <2>7, <2>8
<1>5. CASE Post /\ row' # row
  <2>1. PICK item : item = [exists |-> TRUE, body |-> page.body, extra |-> page.extra, edited |-> page.edited,
                            deleted |-> FALSE, live |-> FALSE, at |-> page.at]
    OBVIOUS
  <2>2. row' = item /\ ~Stale(item) /\ page.found /\ page.step = "read"
    BY <1>5, <2>1 DEF Post, Write
  <2>3. page \in ReadPage /\ page \in Texts /\ page.body # 0 /\ page.at \in Nat
    BY <1>1, <2>2, ArchiveTypes, PageTypes DEF Texts, ArchiveInv, PageTrue
  <2>4. /\ item \in Row /\ item.body = page.body /\ item.edited = page.edited /\ item.extra = page.extra
        /\ item.live = FALSE /\ item.at = page.at
    BY <2>1, <2>3, PageTypes DEF Row
  <2>5. row.extra <= page.extra
    <3>1. row.live => row.at < page.at
      BY <1>1, <2>2, <2>3, <2>4 DEF Stale
    <3> QED
      BY <2>2, <3>1 DEF ArchiveInv, PageTrue
  <2> QED
    BY <1>3, <2>2, <2>3, <2>4, <2>5
<1>6. row' # row => Dispatch \/ Post
  BY DEF Next, Tick, Create, Edit, Touch, Delete, Emit, Replay, GiveUp, Stamp, Fetch
<1> QED
  BY <1>2, <1>4, <1>5, <1>6

\* What the events, the page and the row say of a message, for any times, events and
\* replays (discord_ingest.js).
THEOREM ArchiveInvariant == Spec => []ArchiveInv
<1>1. Init => ArchiveInv
  BY ArchiveInitially
<1>2. ArchiveInv /\ [Next]_vars => ArchiveInv'
  BY ArchiveKept, ArchiveStutters
<1> QED
  BY <1>1, <1>2, PTL DEF Spec

\* With every event applied and no page under way the row is the message
\* (upsertMessages, upsertDispatch and stale).
THEOREM RowsConverge == Spec => []Converged
<1>1. ArchiveInv => Converged
  <2>1. SUFFICES ASSUME ArchiveInv, next = Len(events) + 1, ~lost, truth.body # 0
                 PROVE  /\ row.exists /\ row.deleted = truth.deleted
                        /\ row.body = truth.body /\ row.extra = truth.extra /\ row.edited = truth.edited
    BY DEF Converged
  <2>2. RowTrue /\ TypeOK /\ \A i \in DOMAIN events : ~(next <= i)
    BY <2>1, ArchiveTypes DEF ArchiveInv
  <2>3. /\ row.exists /\ row.body = truth.body /\ row.extra = truth.extra /\ row.edited = truth.edited
        /\ row.deleted <=> truth.deleted
    BY <2>1, <2>2 DEF RowTrue, Buried
  <2>4. row.deleted \in BOOLEAN /\ truth.deleted \in BOOLEAN
    BY <2>2, <2>3, ArchiveTypes, RowTypes
  <2> QED
    BY <2>3, <2>4
<1> QED
  BY <1>1, ArchiveInvariant, PTL

\* A row never goes back to an earlier text, a page never takes back a later
\* change, and a tombstone stays (stale).
THEOREM RowsNeverGoBack == Spec => NeverBack
<1>1. ArchiveInv /\ ArchiveInv' /\ [Next]_vars =>
        [row.exists =>
           /\ row'.exists /\ row'.body >= row.body /\ row'.edited >= row.edited
           /\ row.deleted => row'.deleted /\ row'.body = row.body
           /\ page.step = "read" /\ page' = NoPage => row'.extra >= row.extra]_vars
  BY RowNeverBack
<1> QED
  BY <1>1, ArchiveInvariant, PTL DEF Spec, NeverBack


-----------------------------------------------------------------------------
(***************************************************************************)
(* The sidebar: as long as no two requests are answered at once, what is   *)
(* stored of the preferences is what was asked (SaveAlone), and a sync     *)
(* that nothing disturbs leaves the server it is done with right and what  *)
(* it has not come to as the list of dashboards says (SyncSound).          *)
(***************************************************************************)

RunStages == {"none", "servers", "dashboards", "next", "look", "find", "create", "update",
              "visible", "config", "delete", "check", "done", "died"}
RunRecord == [stage: RunStages, cmd: Commands \cup {"none"}, path: Paths,
              todo: SUBSET Guilds, seen: Prefs, have: SUBSET Paths]
SaveRecord == [stage: {"merged", "over"}, patch: Patch, merged: Prefs]

SidebarShapes ==
  /\ prefs \in Prefs \cup {Damaged}
  /\ run \in [Runs -> RunRecord]
  /\ save \in [Saves -> SaveRecord \cup {NoSave}]

\* As long as no two requests were answered at once, the one that is has merged
\* its patch into what is stored.
SaveAlone ==
  ~overlap =>
    /\ Parsed(prefs) = wanted
    /\ \A n, k \in Saves : save[n].stage = "merged" /\ save[k].stage = "merged" => n = k
    /\ \A n \in Saves : save[n].stage = "merged" => save[n].merged = Merged(wanted, save[n].patch)
Discovered ==
  /\ wanted.hidden \subseteq known
  /\ \A n \in Saves : save[n].stage = "merged" => save[n].patch.guild \in known

Complete == [there |-> TRUE, shown |-> TRUE, frame |-> "own"]
Right(g) == IF g \in Parsed(prefs).hidden THEN ~dash[g].shown ELSE dash[g] = Complete

\* How far an undisturbed sync has come: the servers behind it are right, those
\* before it as the list of dashboards says, and the one it is at has been given
\* what the requests so far give.
Begun(r) == run[r].stage \notin {"none", "servers", "died"}
Behind(r) ==
  \A g \in known \ run[r].todo : run[r].stage \in {"next", "done"} \/ g # run[r].path => Right(g)
Ahead(r) ==
  /\ run[r].todo \subseteq known /\ (run[r].stage = "done" => run[r].todo = {})
  /\ \A g \in run[r].todo : g \in run[r].have <=> dash[g].shown
AtServer(r) ==
  LET p == run[r].path IN
  /\ run[r].stage \in {"look", "create", "update", "config", "check"} => p \in known /\ p \notin run[r].seen.hidden
  /\ run[r].stage \in {"find", "visible"} => p \in known /\ p \in run[r].seen.hidden
  /\ run[r].stage \notin {"next", "done"} => p \notin run[r].todo
  /\ run[r].stage = "config" => dash[p].there /\ dash[p].shown
  /\ run[r].stage = "check" => dash[p] = Complete
  /\ run[r].stage # "delete"
Undisturbed(r) ==
  run[r].cmd = "sync" /\ calm[r] /\ Begun(r) =>
    /\ run[r].seen = Parsed(prefs)
    /\ run[r].stage = "dashboards" => run[r].todo = known
    /\ run[r].stage # "dashboards" => Behind(r) /\ Ahead(r) /\ AtServer(r)
SyncSound == \A r \in Runs : Undisturbed(r)
SidebarShape == SidebarTypeOK /\ SidebarShapes

SidebarInv == SidebarTypeOK /\ SidebarShapes /\ SaveAlone /\ Discovered /\ SyncSound


-----------------------------------------------------------------------------
LEMMA PrefsRead ==
  SidebarShape => Parsed(prefs) \in Prefs /\ (prefs \in Prefs => Parsed(prefs) = prefs)
<1> SUFFICES ASSUME SidebarShape PROVE Parsed(prefs) \in Prefs /\ (prefs \in Prefs => Parsed(prefs) = prefs)
  OBVIOUS
<1>1. NoPrefs \in Prefs
  BY DEF NoPrefs, Prefs
<1>2. prefs \in Prefs => prefs # Damaged
  <2> SUFFICES ASSUME prefs \in Prefs, prefs = Damaged PROVE FALSE
    OBVIOUS
  <2>1. prefs.hidden \subseteq Guilds
    BY DEF Prefs
  <2>2. prefs.hidden = {"?"}
    BY DEF Damaged
  <2> QED
    BY <2>1, <2>2, SidebarAssumption DEF SidebarAssumption
<1> QED
  BY <1>1, <1>2 DEF SidebarShape, SidebarShapes, Parsed

LEMMA Merging ==
  ASSUME NEW p \in Prefs, NEW patch \in Patch
  PROVE  /\ Merged(p, patch) \in Prefs
         /\ Merged(p, patch).hidden \subseteq p.hidden \cup {patch.guild}
<1>1. patch.guild \in Guilds /\ patch.key \in {"hidden", "hide", "show", "open", "close"}
  BY DEF Patch
<1>2. p.hidden \subseteq Guilds /\ p.closed \subseteq Guilds
  BY DEF Prefs
<1>3. CASE patch.key = "hidden"
  BY <1>1, <1>2, <1>3 DEF Merged, Prefs
<1>4. CASE patch.key = "hide"
  BY <1>1, <1>2, <1>4 DEF Merged, Prefs
<1>5. CASE patch.key = "show"
  BY <1>1, <1>2, <1>5 DEF Merged, Prefs
<1>6. CASE patch.key = "open"
  BY <1>1, <1>2, <1>6 DEF Merged, Prefs
<1>7. CASE patch.key = "close"
  BY <1>1, <1>2, <1>7 DEF Merged, Prefs
<1> QED
  BY <1>1, <1>3, <1>4, <1>5, <1>6, <1>7

LEMMA NoneUnknown ==
  ASSUME NEW p \in Prefs, NEW K, p.hidden \subseteq K
  PROVE  [p EXCEPT !.hidden = @ \cap K] = p
<1>1. p.hidden \cap K = p.hidden
  OBVIOUS
<1> QED
  BY <1>1 DEF Prefs

LEMMA Shortened ==
  ASSUME NEW p \in Prefs, NEW K
  PROVE  [p EXCEPT !.hidden = @ \cap K] \in Prefs
<1>1. p.hidden \cap K \subseteq Guilds
  BY DEF Prefs
<1> QED
  BY <1>1 DEF Prefs

LEMMA SavesRead ==
  ASSUME SidebarShape, NEW n \in Saves, save[n].stage = "merged"
  PROVE  /\ save[n] \in SaveRecord /\ save[n].patch \in Patch /\ save[n].merged \in Prefs
         /\ [save[n] EXCEPT !.stage = "over"] \in SaveRecord
         /\ [save[n] EXCEPT !.stage = "over"].stage = "over"
<1>1. save[n] \in SaveRecord \cup {NoSave}
  BY DEF SidebarShape, SidebarShapes
<1>2. save[n] \in SaveRecord
  BY <1>1 DEF NoSave
<1> QED
  BY <1>2 DEF SaveRecord

LEMMA SaveTypes ==
  ASSUME NEW sv \in SaveRecord \cup {NoSave}
  PROVE  sv.stage \in {"none", "merged", "over"} /\ sv.merged \in Prefs
<1>1. NoPrefs \in Prefs
  BY DEF NoPrefs, Prefs
<1> QED
  BY <1>1 DEF SaveRecord, NoSave

LEMMA RunTypes ==
  ASSUME NEW x \in RunRecord
  PROVE  x.cmd \in Commands \cup {"none"} /\ x.path \in Paths /\ x.todo \subseteq Guilds
BY DEF RunRecord

\* What nothing else than the witness changes.
LEMMA CalmTypes ==
  ASSUME SidebarTypeOK, Witness
  PROVE  calm' \in [Runs -> BOOLEAN]
BY DEF Witness, SidebarTypeOK

LEMMA ShapeKept ==
  ASSUME SidebarShape, Witness,
         known' \subseteq Guilds, prefs' \in Prefs \cup {Damaged}, wanted' \in Prefs, overlap' \in BOOLEAN,
         save' \in [Saves -> SaveRecord \cup {NoSave}], run' \in [Runs -> RunRecord],
         dash' \in [Paths -> Dashboard], breaks' \in 0..MaxBreaks, meddles' \in 0..MaxMeddles
  PROVE  SidebarShape'
<1>1. Parsed(prefs)' \in Prefs
  <2>1. NoPrefs \in Prefs
    BY DEF NoPrefs, Prefs
  <2> QED
    BY <2>1 DEF Parsed
<1>2. \A n \in Saves : save'[n].stage \in {"none", "merged", "over"} /\ save'[n].merged \in Prefs
  BY SaveTypes
<1>3. \A r \in Runs : run'[r].cmd \in Commands \cup {"none"} /\ run'[r].path \in Paths /\ run'[r].todo \subseteq Guilds
  BY RunTypes
<1>4. calm' \in [Runs -> BOOLEAN]
  BY CalmTypes DEF SidebarShape
<1>5. SidebarTypeOK'
  BY <1>1, <1>2, <1>3, <1>4 DEF SidebarTypeOK
<1>6. SidebarShapes'
  BY DEF SidebarShapes
<1> QED
  BY <1>5, <1>6 DEF SidebarShape

-----------------------------------------------------------------------------
\* The preferences.

\* A run that has not moved, and is calm still, finds everything as it was.
LEMMA CalmStays ==
  ASSUME NEW r \in Runs, Undisturbed(r), Witness, run'[r] = run[r]
  PROVE  Undisturbed(r)'
<1> SUFFICES ASSUME run'[r].cmd = "sync", calm'[r], Begun(r)' PROVE
      /\ run'[r].seen = Parsed(prefs)'
      /\ run'[r].stage = "dashboards" => run'[r].todo = known'
      /\ run'[r].stage # "dashboards" => Behind(r)' /\ Ahead(r)' /\ AtServer(r)'
  BY DEF Undisturbed
<1>1. ~At(r, "servers")
  BY DEF Begun, At
<1>2. calm[r] /\ known' = known /\ prefs' = prefs /\ dash' = dash
  BY <1>1 DEF Witness
<1>3. Begun(r)
  BY DEF Begun
<1>4. /\ run[r].seen = Parsed(prefs)
      /\ run[r].stage = "dashboards" => run[r].todo = known
      /\ run[r].stage # "dashboards" => Behind(r) /\ Ahead(r) /\ AtServer(r)
  BY <1>2, <1>3 DEF Undisturbed
<1>5. Parsed(prefs)' = Parsed(prefs)
  BY <1>2 DEF Parsed
<1>6. Behind(r) => Behind(r)'
  BY <1>2, <1>5 DEF Behind, Right
<1>7. Ahead(r) => Ahead(r)'
  BY <1>2 DEF Ahead
<1>8. AtServer(r) => AtServer(r)'
  BY <1>2 DEF AtServer
<1> QED
  BY <1>2, <1>4, <1>5, <1>6, <1>7, <1>8

LEMMA RunsStand ==
  ASSUME SyncSound, Witness, UNCHANGED run
  PROVE  SyncSound'
<1> SUFFICES ASSUME NEW r \in Runs PROVE Undisturbed(r)'
  BY DEF SyncSound
<1> QED
  BY CalmStays DEF SyncSound

LEMMA MergeKeeps ==
  ASSUME SidebarInv, Witness, NEW n \in Saves, NEW patch \in Patch, patch.guild \in known, MergePrefs(n, patch)
  PROVE  SidebarInv'
<1> DEFINE m == Merged(Parsed(prefs), patch)
           one == [stage |-> "merged", patch |-> patch, merged |-> [m EXCEPT !.hidden = @ \cap known]]
<1>0. SidebarShape
  BY DEF SidebarInv, SidebarShape
<1>1. Parsed(prefs) \in Prefs /\ m \in Prefs /\ m.hidden \subseteq Parsed(prefs).hidden \cup {patch.guild}
  BY <1>0, PrefsRead, Merging
<1>2. /\ save' = [save EXCEPT ![n] = one] /\ save[n].stage = "none"
      /\ overlap' = (overlap \/ \E k \in Saves : save[k].stage = "merged")
      /\ UNCHANGED <<known, prefs, wanted, dash, run, breaks, meddles>>
  BY DEF MergePrefs
<1>3. one \in SaveRecord /\ one.stage = "merged" /\ one.patch = patch /\ one.merged = [m EXCEPT !.hidden = @ \cap known]
  <2>1. [m EXCEPT !.hidden = @ \cap known] \in Prefs
    BY <1>1, Shortened
  <2> HIDE DEF m
  <2> QED
    BY <2>1 DEF SaveRecord
<1> HIDE DEF one
<1>4. save' \in [Saves -> SaveRecord \cup {NoSave}] /\ save'[n] = one /\ \A k \in Saves \ {n} : save'[k] = save[k]
  BY <1>0, <1>2, <1>3 DEF SidebarShape, SidebarShapes
<1>5. SidebarShape'
  <2>1. overlap' \in BOOLEAN
    BY <1>0, <1>2 DEF SidebarShape, SidebarTypeOK
  <2> QED
    BY <1>0, <1>2, <1>4, <2>1, ShapeKept DEF SidebarShape, SidebarShapes, SidebarTypeOK
<1>6. SaveAlone'
  <2> SUFFICES ASSUME ~overlap' PROVE
        /\ Parsed(prefs)' = wanted'
        /\ \A i, k \in Saves : save'[i].stage = "merged" /\ save'[k].stage = "merged" => i = k
        /\ \A i \in Saves : save'[i].stage = "merged" => save'[i].merged = Merged(wanted, save[i].patch)'
    BY DEF SaveAlone
  <2>1. ~overlap /\ \A k \in Saves : save[k].stage # "merged"
    BY <1>2
  <2>2. Parsed(prefs) = wanted /\ Parsed(prefs)' = Parsed(prefs) /\ wanted' = wanted
    BY <1>2, <2>1 DEF SidebarInv, SaveAlone, Parsed
  <2>3. m.hidden \subseteq known
    BY <1>1, <2>2 DEF SidebarInv, Discovered
  <2>4. one.merged = m
    BY <1>1, <1>3, <2>3, NoneUnknown
  <2>5. \A i \in Saves : save'[i].stage = "merged" => i = n
    BY <1>4, <2>1
  <2>6. save'[n].merged = Merged(wanted', save'[n].patch)
    BY <1>3, <1>4, <2>2, <2>4
  <2> QED
    BY <2>2, <2>5, <2>6
<1>7. Discovered'
  BY <1>2, <1>3, <1>4 DEF SidebarInv, Discovered
<1>8. SyncSound'
  BY <1>2, RunsStand DEF SidebarInv
<1> QED
  BY <1>5, <1>6, <1>7, <1>8 DEF SidebarInv, SidebarShape

\* A request that is over has left the others alone.
LEMMA SaveOver ==
  ASSUME SidebarShape, NEW n \in Saves, save[n].stage = "merged",
         save' = [save EXCEPT ![n].stage = "over"]
  PROVE  /\ save' \in [Saves -> SaveRecord \cup {NoSave}]
         /\ save'[n].stage = "over"
         /\ \A k \in Saves \ {n} : save'[k] = save[k]
<1>1. save' = [save EXCEPT ![n] = [save[n] EXCEPT !.stage = "over"]]
  OBVIOUS
<1> QED
  BY <1>1, SavesRead DEF SidebarShape, SidebarShapes

LEMMA StoreKeeps ==
  ASSUME SidebarInv, Witness, NEW n \in Saves, StorePrefs(n)
  PROVE  SidebarInv'
<1>0. SidebarShape
  BY DEF SidebarInv, SidebarShape
<1>1. /\ save[n].stage = "merged" /\ prefs' = save[n].merged /\ wanted' = Merged(wanted, save[n].patch)
      /\ save' = [save EXCEPT ![n].stage = "over"]
      /\ UNCHANGED <<known, overlap, dash, run, breaks, meddles>>
  BY DEF StorePrefs
<1>2. save[n].patch \in Patch /\ save[n].merged \in Prefs /\ wanted \in Prefs
  BY <1>0, <1>1, SavesRead DEF SidebarShape, SidebarTypeOK
<1>3. wanted' \in Prefs /\ wanted'.hidden \subseteq wanted.hidden \cup {save[n].patch.guild}
  BY <1>1, <1>2, Merging
<1>4. /\ save' \in [Saves -> SaveRecord \cup {NoSave}]
      /\ save'[n].stage = "over" /\ \A k \in Saves \ {n} : save'[k] = save[k]
  BY <1>0, <1>1, SaveOver
<1>5. SidebarShape'
  BY <1>0, <1>1, <1>2, <1>3, <1>4, ShapeKept DEF SidebarShape, SidebarShapes, SidebarTypeOK
<1>6. SaveAlone'
  <2> SUFFICES ASSUME ~overlap' PROVE
        /\ Parsed(prefs)' = wanted'
        /\ \A i, k \in Saves : save'[i].stage = "merged" /\ save'[k].stage = "merged" => i = k
        /\ \A i \in Saves : save'[i].stage = "merged" => save'[i].merged = Merged(wanted, save[i].patch)'
    BY DEF SaveAlone
  <2>1. ~overlap
    BY <1>1
  <2>2. prefs' = wanted' /\ \A i \in Saves : save'[i].stage # "merged"
    BY <1>1, <1>4, <2>1 DEF SidebarInv, SaveAlone
  <2>3. Parsed(prefs)' = prefs'
    <3>1. (prefs \in Prefs => Parsed(prefs) = prefs)'
      BY <1>5, PrefsRead, PTL
    <3> QED
      BY <1>1, <1>2, <3>1
  <2> QED
    BY <2>2, <2>3
<1>7. Discovered'
  BY <1>1, <1>3, <1>4 DEF SidebarInv, Discovered
<1>8. SyncSound'
  BY <1>1, RunsStand DEF SidebarInv
<1> QED
  BY <1>5, <1>6, <1>7, <1>8 DEF SidebarInv, SidebarShape

LEMMA RefusalKeeps ==
  ASSUME SidebarInv, Witness, NEW n \in Saves, SaveRefused(n)
  PROVE  SidebarInv'
<1>0. SidebarShape
  BY DEF SidebarInv, SidebarShape
<1>1. /\ save[n].stage = "merged" /\ breaks < MaxBreaks /\ breaks' = breaks + 1
      /\ save' = [save EXCEPT ![n].stage = "over"]
      /\ UNCHANGED <<known, prefs, wanted, overlap, dash, run, meddles>>
  BY DEF SaveRefused
<1>2. /\ save' \in [Saves -> SaveRecord \cup {NoSave}]
      /\ save'[n].stage = "over" /\ \A k \in Saves \ {n} : save'[k] = save[k]
  BY <1>0, <1>1, SaveOver
<1>3. breaks' \in 0..MaxBreaks
  BY <1>0, <1>1, SidebarAssumption DEF SidebarShape, SidebarTypeOK, SidebarAssumption
<1>4. SidebarShape'
  BY <1>0, <1>1, <1>2, <1>3, ShapeKept DEF SidebarShape, SidebarShapes, SidebarTypeOK
<1>5. SaveAlone'
  BY <1>1, <1>2 DEF SidebarInv, SaveAlone, Parsed
<1>6. Discovered'
  BY <1>1, <1>2 DEF SidebarInv, Discovered
<1>7. SyncSound'
  BY <1>1, RunsStand DEF SidebarInv
<1> QED
  BY <1>4, <1>5, <1>6, <1>7 DEF SidebarInv, SidebarShape

LEMMA DiscoverKeeps ==
  ASSUME SidebarInv, Witness, NEW g \in Guilds, DiscoverServer(g)
  PROVE  SidebarInv'
<1>0. SidebarShape
  BY DEF SidebarInv, SidebarShape
<1>1. known' = known \cup {g} /\ UNCHANGED <<prefs, save, wanted, overlap, dash, run, breaks, meddles>>
  BY DEF DiscoverServer
<1>2. SidebarShape'
  BY <1>0, <1>1, ShapeKept DEF SidebarShape, SidebarShapes, SidebarTypeOK
<1>3. SaveAlone' /\ Discovered'
  BY <1>1 DEF SidebarInv, SaveAlone, Discovered, Parsed
<1>4. SyncSound'
  BY <1>1, RunsStand DEF SidebarInv
<1> QED
  BY <1>2, <1>3, <1>4 DEF SidebarInv, SidebarShape

LEMMA MeddleKeeps ==
  ASSUME SidebarInv, Witness, NEW p \in Paths, Meddle(p)
  PROVE  SidebarInv'
<1>0. SidebarShape
  BY DEF SidebarInv, SidebarShape
<1>1. meddles < MaxMeddles /\ meddles' = meddles + 1 /\ UNCHANGED <<prefVars, run, breaks>>
  BY DEF Meddle
<1>2. PICK d \in {NoDashboard, [dash[p] EXCEPT !.shown = ~@], [dash[p] EXCEPT !.frame = "other"]} :
        dash' = [dash EXCEPT ![p] = d]
  BY DEF Meddle
<1>3. dash[p] \in Dashboard
  BY <1>0 DEF SidebarShape, SidebarTypeOK
<1>4. d \in Dashboard
  <2>1. (~dash[p].shown) \in BOOLEAN
    OBVIOUS
  <2>2. NoDashboard \in Dashboard /\ [dash[p] EXCEPT !.frame = "other"] \in Dashboard
    BY <1>3 DEF Dashboard, NoDashboard
  <2>3. \A b \in BOOLEAN : [dash[p] EXCEPT !.shown = b] \in Dashboard
    BY <1>3 DEF Dashboard
  <2> QED
    BY <2>1, <2>2, <2>3
<1>5. dash' \in [Paths -> Dashboard]
  BY <1>0, <1>2, <1>4 DEF SidebarShape, SidebarTypeOK
<1>6. meddles' \in 0..MaxMeddles
  BY <1>0, <1>1, SidebarAssumption DEF SidebarShape, SidebarTypeOK, SidebarAssumption
<1>7. UNCHANGED <<known, prefs, save, wanted, overlap>>
  BY <1>1 DEF prefVars
<1>8. SidebarShape'
  BY <1>0, <1>1, <1>5, <1>6, <1>7, ShapeKept DEF SidebarShape, SidebarShapes, SidebarTypeOK
<1>9. SaveAlone' /\ Discovered'
  BY <1>7 DEF SidebarInv, SaveAlone, Discovered, Parsed
<1>10. SyncSound'
  BY <1>1, RunsStand DEF SidebarInv
<1> QED
  BY <1>8, <1>9, <1>10 DEF SidebarInv, SidebarShape


-----------------------------------------------------------------------------
\* A run's own step.

LEMMA RunKeeps ==
  ASSUME SidebarInv, Witness, NEW r \in Runs, run' \in [Runs -> RunRecord],
         \A s \in Runs \ {r} : run'[s] = run[s],
         UNCHANGED <<prefVars, meddles>>, dash' \in [Paths -> Dashboard], breaks' \in 0..MaxBreaks,
         run'[r].cmd = "sync" /\ calm'[r] /\ Begun(r)' =>
           /\ run'[r].seen = Parsed(prefs)'
           /\ run'[r].stage = "dashboards" => run'[r].todo = known'
           /\ run'[r].stage # "dashboards" => Behind(r)' /\ Ahead(r)' /\ AtServer(r)'
  PROVE  SidebarInv'
<1>1. UNCHANGED <<known, prefs, save, wanted, overlap>>
  BY DEF prefVars
<1>2. SidebarShape'
  BY <1>1, ShapeKept DEF SidebarInv, SidebarShape, SidebarShapes, SidebarTypeOK
<1>3. SaveAlone' /\ Discovered'
  BY <1>1 DEF SidebarInv, SaveAlone, Discovered, Parsed
<1>4. Undisturbed(r)'
  BY DEF Undisturbed
<1>5. \A s \in Runs \ {r} : Undisturbed(s)'
  BY CalmStays DEF SidebarInv, SyncSound
<1> QED
  BY <1>2, <1>3, <1>4, <1>5 DEF SidebarInv, SidebarShape, SyncSound

LEMMA Going ==
  ASSUME SidebarShape, NEW r \in Runs, NEW s \in RunStages, Goes(r, s)
  PROVE  /\ run' \in [Runs -> RunRecord] /\ \A k \in Runs \ {r} : run'[k] = run[k]
         /\ run'[r].stage = s /\ run'[r].cmd = run[r].cmd /\ run'[r].path = run[r].path
         /\ run'[r].todo = run[r].todo /\ run'[r].seen = run[r].seen /\ run'[r].have = run[r].have
<1>1. run[r] \in RunRecord /\ run \in [Runs -> RunRecord]
  BY DEF SidebarShape, SidebarShapes
<1>2. run' = [run EXCEPT ![r] = [run[r] EXCEPT !.stage = s]]
  BY DEF Goes
<1>3. [run[r] EXCEPT !.stage = s] \in RunRecord
  BY <1>1 DEF RunRecord
<1>4. run'[r] = [run[r] EXCEPT !.stage = s]
  BY <1>1, <1>2
<1> QED
  BY <1>1, <1>2, <1>3, <1>4 DEF RunRecord

\* What is known of a run that goes on undisturbed.
LEMMA GoesOn ==
  ASSUME SidebarInv, Witness, NEW r \in Runs, calm'[r], run[r].cmd = "sync",
         run[r].stage \notin {"none", "servers", "died"}
  PROVE  /\ run[r].seen = Parsed(prefs)
         /\ run[r].stage = "dashboards" => run[r].todo = known
         /\ run[r].stage # "dashboards" => Behind(r) /\ Ahead(r) /\ AtServer(r)
<1>1. calm[r]
  BY DEF Witness, At
<1> QED
  BY <1>1 DEF SidebarInv, SyncSound, Undisturbed, Begun

LEMMA StartKeeps ==
  ASSUME SidebarInv, Witness, NEW r \in Runs, NEW c \in Commands, NEW p \in Paths, StartRun(r, c, p)
  PROVE  SidebarInv'
<1> DEFINE s == CASE c = "sync" -> "servers"
                  [] c \in {"pin", "pin-timeline"} -> "look"
                  [] c \in {"hide", "show", "unpin"} -> "find"
           x == [NoRun EXCEPT !.cmd = c, !.path = p, !.stage = s]
<1>0. SidebarShape
  BY DEF SidebarInv, SidebarShape
<1>1. run' = [run EXCEPT ![r] = x] /\ UNCHANGED <<prefVars, dash, breaks, meddles>>
  BY DEF StartRun
<1>2. s \in RunStages /\ (c = "sync" => s = "servers")
  BY DEF RunStages, Commands
<1> HIDE DEF s
<1>3. x \in RunRecord /\ x.cmd = c /\ x.stage = s
  <2>1. NoRun \in RunRecord
    BY DEF NoRun, RunRecord, NoPrefs, Prefs, Paths, RunStages
  <2> QED
    BY <1>2, <2>1 DEF RunRecord
<1> HIDE DEF x
<1>4. run' \in [Runs -> RunRecord] /\ run'[r] = x /\ \A k \in Runs \ {r} : run'[k] = run[k]
  BY <1>0, <1>1, <1>3 DEF SidebarShape, SidebarShapes
<1>5. run'[r].cmd = "sync" => ~Begun(r)'
  BY <1>2, <1>3, <1>4 DEF Begun
<1> QED
  BY <1>0, <1>1, <1>4, <1>5, RunKeeps DEF SidebarShape, SidebarTypeOK

LEMMA ServersKeep ==
  ASSUME SidebarInv, Witness, NEW r \in Runs, ReadServers(r)
  PROVE  SidebarInv'
<1> DEFINE x == [run[r] EXCEPT !.stage = "dashboards", !.todo = known, !.seen = Parsed(prefs)]
<1>0. SidebarShape
  BY DEF SidebarInv, SidebarShape
<1>1. run' = [run EXCEPT ![r] = x] /\ UNCHANGED <<prefVars, dash, breaks, meddles>>
  BY DEF ReadServers
<1>2. run[r] \in RunRecord /\ known \subseteq Guilds /\ Parsed(prefs) \in Prefs
  BY <1>0, PrefsRead DEF SidebarShape, SidebarShapes, SidebarTypeOK
<1>3. x \in RunRecord /\ x.stage = "dashboards" /\ x.todo = known /\ x.seen = Parsed(prefs)
  BY <1>2 DEF RunRecord, RunStages
<1> HIDE DEF x
<1>4. run' \in [Runs -> RunRecord] /\ run'[r] = x /\ \A k \in Runs \ {r} : run'[k] = run[k]
  BY <1>0, <1>1, <1>3 DEF SidebarShape, SidebarShapes
<1>5. known' = known /\ Parsed(prefs)' = Parsed(prefs)
  BY <1>1 DEF prefVars, Parsed
<1> QED
  BY <1>0, <1>1, <1>3, <1>4, <1>5, RunKeeps DEF SidebarShape, SidebarTypeOK

LEMMA DashboardsKeep ==
  ASSUME SidebarInv, Witness, NEW r \in Runs, ReadDashboards(r)
  PROVE  SidebarInv'
<1> DEFINE H == {p \in Paths : dash[p].shown}
           x == [run[r] EXCEPT !.stage = "next", !.have = H]
<1>0. SidebarShape
  BY DEF SidebarInv, SidebarShape
<1>1. run' = [run EXCEPT ![r] = x] /\ UNCHANGED <<prefVars, dash, breaks, meddles>> /\ run[r].stage = "dashboards"
  BY DEF ReadDashboards, At
<1>2. run[r] \in RunRecord
  BY <1>0 DEF SidebarShape, SidebarShapes
<1> HIDE DEF H
<1>3. x \in RunRecord /\ x.stage = "next" /\ x.todo = run[r].todo /\ x.seen = run[r].seen /\ x.have = H /\ x.cmd = run[r].cmd
  <2>1. H \subseteq Paths
    BY DEF H
  <2> QED
    BY <1>2, <2>1 DEF RunRecord, RunStages
<1> HIDE DEF x
<1>4. run' \in [Runs -> RunRecord] /\ run'[r] = x /\ \A k \in Runs \ {r} : run'[k] = run[k]
  BY <1>0, <1>1, <1>3 DEF SidebarShape, SidebarShapes
<1>5. known' = known /\ Parsed(prefs)' = Parsed(prefs) /\ known \subseteq Paths
  BY <1>0, <1>1 DEF prefVars, Parsed, SidebarShape, SidebarTypeOK, Paths
<1>6. ASSUME run'[r].cmd = "sync", calm'[r]
      PROVE  run'[r].seen = Parsed(prefs)' /\ Behind(r)' /\ Ahead(r)' /\ AtServer(r)'
  <2>1. run[r].seen = Parsed(prefs) /\ run[r].todo = known
    BY <1>1, <1>3, <1>4, <1>6, GoesOn
  <2>2. Behind(r)'
    BY <1>3, <1>4, <1>5, <2>1 DEF Behind
  <2>3. Ahead(r)'
    BY <1>1, <1>3, <1>4, <1>5, <2>1 DEF Ahead, H
  <2>4. AtServer(r)'
    BY <1>3, <1>4 DEF AtServer
  <2> QED
    BY <1>3, <1>4, <1>5, <2>1, <2>2, <2>3, <2>4
<1> QED
  BY <1>0, <1>1, <1>3, <1>4, <1>6, RunKeeps DEF SidebarShape, SidebarTypeOK

LEMMA NextKeeps ==
  ASSUME SidebarInv, Witness, NEW r \in Runs, NEW g \in Guilds, NextServer(r, g)
  PROVE  SidebarInv'
<1> DEFINE s == IF g \notin run[r].seen.hidden THEN "look"
                ELSE IF g \in run[r].have THEN "find" ELSE "next"
           x == [run[r] EXCEPT !.todo = run[r].todo \ {g}, !.path = g, !.stage = s]
<1>0. SidebarShape
  BY DEF SidebarInv, SidebarShape
<1>1. /\ run' = [run EXCEPT ![r] = x] /\ UNCHANGED <<prefVars, dash, breaks, meddles>>
      /\ run[r].stage = "next" /\ g \in run[r].todo
  BY DEF NextServer, At
<1>2. run[r] \in RunRecord
  BY <1>0 DEF SidebarShape, SidebarShapes
<1>3. s \in RunStages
  BY DEF RunStages
<1>4. /\ s = "look" => g \notin run[r].seen.hidden
      /\ s # "look" => g \in run[r].seen.hidden
      /\ s = "next" => g \notin run[r].have
      /\ s \in {"look", "find", "next"}
  OBVIOUS
<1> HIDE DEF s
<1>5. /\ x \in RunRecord /\ x.stage = s /\ x.todo = run[r].todo \ {g} /\ x.path = g
      /\ x.seen = run[r].seen /\ x.have = run[r].have /\ x.cmd = run[r].cmd
  <2>1. g \in Paths /\ run[r].todo \ {g} \subseteq Guilds
    BY <1>2 DEF Paths, RunRecord
  <2> QED
    BY <1>2, <1>3, <2>1 DEF RunRecord
<1> HIDE DEF x
<1>6. run' \in [Runs -> RunRecord] /\ run'[r] = x /\ \A k \in Runs \ {r} : run'[k] = run[k]
  BY <1>0, <1>1, <1>5 DEF SidebarShape, SidebarShapes
<1>7. known' = known /\ prefs' = prefs /\ dash' = dash /\ Parsed(prefs)' = Parsed(prefs)
  BY <1>1 DEF prefVars, Parsed
<1>8. ASSUME run'[r].cmd = "sync", calm'[r]
      PROVE  run'[r].seen = Parsed(prefs)' /\ Behind(r)' /\ Ahead(r)' /\ AtServer(r)'
  <2>1. run[r].seen = Parsed(prefs) /\ Behind(r) /\ Ahead(r)
    BY <1>1, <1>5, <1>6, <1>8, GoesOn
  <2>2. g \in known /\ (g \in run[r].have <=> dash[g].shown)
    BY <1>1, <2>1 DEF Ahead
  <2>3. \A k \in known \ run[r].todo : Right(k)
    BY <1>1, <2>1 DEF Behind
  <2>4. s = "next" => Right(g)
    BY <1>4, <2>1, <2>2 DEF Right
  <2>5. \A k \in known \ x.todo : s = "next" \/ k # g => Right(k)
    BY <1>5, <2>3, <2>4
  <2>6. \A k : Right(k)' <=> Right(k)
    BY <1>7 DEF Right
  <2>7. Behind(r)'
    BY <1>4, <1>5, <1>6, <1>7, <2>5, <2>6 DEF Behind
  <2>8. Ahead(r)'
    BY <1>4, <1>5, <1>6, <1>7, <2>1 DEF Ahead
  <2>9. AtServer(r)'
    BY <1>4, <1>5, <1>6, <1>7, <2>2 DEF AtServer
  <2> QED
    BY <1>5, <1>6, <1>7, <2>1, <2>7, <2>8, <2>9
<1>9. run'[r].stage # "dashboards"
  BY <1>4, <1>5, <1>6
<1> QED
  BY <1>0, <1>1, <1>6, <1>8, <1>9, RunKeeps DEF SidebarShape, SidebarTypeOK


\* A step that only looks: the run goes to s, and what AtServer says of s is so.
LEMMA LookingKeeps ==
  ASSUME SidebarInv, Witness, NEW r \in Runs, NEW s \in RunStages, Goes(r, s),
         UNCHANGED <<prefVars, dash, meddles>>, breaks' \in 0..MaxBreaks,
         s \notin {"dashboards", "delete"} \/ run[r].cmd # "sync",
         s = "died" \/ run[r].stage \notin {"none", "servers", "dashboards", "died"} \/ run[r].cmd # "sync",
         run[r].cmd = "sync" /\ calm'[r] /\ s # "died" /\ Behind(r) /\ Ahead(r) /\ AtServer(r) =>
           /\ s \in {"next", "done"} /\ run[r].stage \notin {"next", "done"} => Right(run[r].path)
           /\ s \notin {"next", "done"} => run[r].stage \notin {"next", "done"}
           /\ s = "done" => run[r].todo = {}
           /\ s \in {"look", "create", "update", "config", "check"} =>
                run[r].path \in known /\ run[r].path \notin run[r].seen.hidden
           /\ s \in {"find", "visible"} => run[r].path \in known /\ run[r].path \in run[r].seen.hidden
           /\ s = "config" => dash[run[r].path].there /\ dash[run[r].path].shown
           /\ s = "check" => dash[run[r].path] = Complete
  PROVE  SidebarInv'
<1>0. SidebarShape
  BY DEF SidebarInv, SidebarShape
<1>1. /\ run' \in [Runs -> RunRecord] /\ \A k \in Runs \ {r} : run'[k] = run[k]
      /\ run'[r].stage = s /\ run'[r].cmd = run[r].cmd /\ run'[r].path = run[r].path
      /\ run'[r].todo = run[r].todo /\ run'[r].seen = run[r].seen /\ run'[r].have = run[r].have
  BY <1>0, Going
<1>2. known' = known /\ prefs' = prefs /\ dash' = dash /\ Parsed(prefs)' = Parsed(prefs)
  BY DEF prefVars, Parsed
<1>3. ASSUME run'[r].cmd = "sync", calm'[r], Begun(r)'
      PROVE  /\ run'[r].seen = Parsed(prefs)' /\ run'[r].stage # "dashboards"
             /\ Behind(r)' /\ Ahead(r)' /\ AtServer(r)'
  <2>1. run[r].cmd = "sync" /\ s # "died" /\ run[r].stage \notin {"none", "servers", "dashboards", "died"}
    BY <1>1, <1>3 DEF Begun
  <2>2. run[r].seen = Parsed(prefs) /\ Behind(r) /\ Ahead(r) /\ AtServer(r)
    BY <1>1, <1>3, <2>1, GoesOn
  <2>3. \A g : Right(g)' <=> Right(g)
    BY <1>2 DEF Right
  <2> DEFINE p == run[r].path
  <2>7. /\ s \in {"next", "done"} /\ run[r].stage \notin {"next", "done"} => Right(p)
        /\ s \notin {"next", "done"} => run[r].stage \notin {"next", "done"}
        /\ s = "done" => run[r].todo = {}
        /\ s \in {"look", "create", "update", "config", "check"} => p \in known /\ p \notin run[r].seen.hidden
        /\ s \in {"find", "visible"} => p \in known /\ p \in run[r].seen.hidden
        /\ s = "config" => dash[p].there /\ dash[p].shown
        /\ s = "check" => dash[p] = Complete
    BY <1>3, <2>1, <2>2
  <2>4. Behind(r)'
    BY <1>1, <1>2, <2>2, <2>3, <2>7 DEF Behind
  <2>5. Ahead(r)'
    BY <1>1, <1>2, <2>2, <2>7 DEF Ahead
  <2>6. AtServer(r)'
    BY <1>1, <1>2, <2>1, <2>2, <2>7 DEF AtServer
  <2> QED
    BY <1>1, <1>2, <2>1, <2>2, <2>4, <2>5, <2>6
<1>4. dash' \in [Paths -> Dashboard] /\ meddles' = meddles
  BY <1>0, <1>2 DEF SidebarShape, SidebarTypeOK
<1> QED
  BY <1>1, <1>3, <1>4, RunKeeps

LEMMA SyncEndKeeps ==
  ASSUME SidebarInv, Witness, NEW r \in Runs, SyncEnds(r)
  PROVE  SidebarInv'
<1>1. /\ run[r].stage = "next" /\ run[r].todo = {} /\ Goes(r, "done") /\ UNCHANGED <<prefVars, dash, breaks, meddles>>
      /\ breaks' \in 0..MaxBreaks
  BY DEF SyncEnds, At, SidebarInv, SidebarTypeOK
<1>2. "done" \in RunStages
  BY DEF RunStages
<1> QED
  BY <1>1, <1>2, LookingKeeps

LEMMA LookKeeps ==
  ASSUME SidebarInv, Witness, NEW r \in Runs, Look(r)
  PROVE  SidebarInv'
<1> DEFINE d == dash[run[r].path]
           s == IF ~d.there THEN "create" ELSE IF d.shown THEN "config" ELSE "update"
<1>1. /\ run[r].stage = "look" /\ Goes(r, s) /\ UNCHANGED <<prefVars, dash, breaks, meddles>>
      /\ breaks' \in 0..MaxBreaks
  BY DEF Look, At, SidebarInv, SidebarTypeOK
<1>2. s \in {"create", "config", "update"} /\ (s = "config" => d.there /\ d.shown)
  OBVIOUS
<1> HIDE DEF s
<1>3. s \in RunStages
  BY <1>2 DEF RunStages
<1>4. AtServer(r) => run[r].path \in known /\ run[r].path \notin run[r].seen.hidden
  BY <1>1 DEF AtServer
<1> QED
  BY <1>1, <1>2, <1>3, <1>4, LookingKeeps

LEMMA FindKeeps ==
  ASSUME SidebarInv, Witness, NEW r \in Runs, FindDashboard(r)
  PROVE  SidebarInv'
<1> DEFINE s == IF ~dash[run[r].path].there THEN "died"
                ELSE IF run[r].cmd = "unpin" THEN "delete" ELSE "visible"
<1>1. /\ run[r].stage = "find" /\ Goes(r, s) /\ UNCHANGED <<prefVars, dash, breaks, meddles>>
      /\ breaks' \in 0..MaxBreaks
  BY DEF FindDashboard, At, SidebarInv, SidebarTypeOK
<1>2. s \in {"died", "delete", "visible"} /\ (s = "delete" => run[r].cmd # "sync")
  OBVIOUS
<1> HIDE DEF s
<1>3. s \in RunStages
  BY <1>2 DEF RunStages
<1>4. AtServer(r) => run[r].path \in known /\ run[r].path \in run[r].seen.hidden
  BY <1>1 DEF AtServer
<1> QED
  BY <1>1, <1>2, <1>3, <1>4, LookingKeeps

LEMMA CheckKeeps ==
  ASSUME SidebarInv, Witness, NEW r \in Runs, CheckDashboard(r)
  PROVE  SidebarInv'
<1> DEFINE d == dash[run[r].path]
           s == IF (IF run[r].cmd = "unpin" THEN ~d.there ELSE d.frame = "own") THEN After(r) ELSE "died"
<1>1. /\ run[r].stage = "check" /\ Goes(r, s) /\ UNCHANGED <<prefVars, dash, breaks, meddles>>
      /\ breaks' \in 0..MaxBreaks
  BY DEF CheckDashboard, At, SidebarInv, SidebarTypeOK
<1>2. s \in {"died", "next", "done"} /\ (s = "done" => run[r].cmd # "sync")
  BY DEF After
<1> HIDE DEF s
<1>3. s \in RunStages
  BY <1>2 DEF RunStages
<1>4. /\ run[r].cmd = "sync" => s # "done"
      /\ run[r].stage \notin {"next", "done"}
  BY <1>1, <1>2
<1>5. ASSUME Behind(r), Ahead(r), AtServer(r), run[r].cmd = "sync", calm'[r]
      PROVE  Right(run[r].path)
  <2>1. run[r].path \notin run[r].seen.hidden /\ dash[run[r].path] = Complete
    BY <1>1, <1>5 DEF AtServer
  <2>2. run[r].seen = Parsed(prefs)
    BY <1>1, <1>5, GoesOn
  <2> QED
    BY <2>1, <2>2 DEF Right
<1> QED
  BY <1>1, <1>2, <1>3, <1>4, <1>5, LookingKeeps

LEMMA DyingKeeps ==
  ASSUME SidebarInv, Witness, NEW r \in Runs, RunDies(r)
  PROVE  SidebarInv'
<1>1. Goes(r, "died") /\ breaks < MaxBreaks /\ breaks' = breaks + 1 /\ UNCHANGED <<prefVars, dash, meddles>>
  BY DEF RunDies
<1>2. breaks' \in 0..MaxBreaks
  BY <1>1, SidebarAssumption DEF SidebarInv, SidebarTypeOK, SidebarAssumption
<1>3. "died" \in RunStages
  BY DEF RunStages
<1> QED
  BY <1>1, <1>2, <1>3, LookingKeeps


\* What a request that is taken makes of the dashboard of an undisturbed sync.
LEMMA EffectType ==
  ASSUME SidebarShape, NEW r \in Runs,
         run[r].stage \in {"create", "update", "visible", "config", "delete"}
  PROVE  Effect(r, dash[run[r].path]) \in Dashboard
<1>1. run[r].path \in Paths
  BY DEF SidebarShape, SidebarTypeOK
<1>2. PICK d : d = dash[run[r].path]
  OBVIOUS
<1>3. d \in Dashboard
  BY <1>1, <1>2 DEF SidebarShape, SidebarTypeOK
<1>4. (run[r].cmd = "show") \in BOOLEAN
  OBVIOUS
<1>5. \A b \in BOOLEAN : [d EXCEPT !.shown = b] \in Dashboard
  BY <1>3 DEF Dashboard
<1>6. [d EXCEPT !.frame = "own"] \in Dashboard /\ NoDashboard \in Dashboard
  BY <1>3 DEF Dashboard, NoDashboard
<1>7. [there |-> TRUE, shown |-> TRUE, frame |-> "none"] \in Dashboard
  BY DEF Dashboard
<1>8. Effect(r, d) \in Dashboard
  BY <1>4, <1>5, <1>6, <1>7 DEF Effect, At
<1> QED
  BY <1>2, <1>8

LEMMA EffectRight ==
  ASSUME NEW r \in Runs, NEW d \in Dashboard, run[r].cmd = "sync", Taken(run[r].stage, d)
  PROVE  /\ run[r].stage \in {"create", "update"} => Effect(r, d).there /\ Effect(r, d).shown
         /\ run[r].stage = "visible" => ~Effect(r, d).shown
         /\ run[r].stage = "config" /\ d.there /\ d.shown => Effect(r, d) = Complete
<1>1. CASE run[r].stage = "create"
  BY <1>1 DEF Effect, At
<1>2. CASE run[r].stage = "update"
  <2>1. d.there
    BY <1>2 DEF Taken, Dashboard
  <2> QED
    BY <1>2, <2>1 DEF Effect, At, Dashboard
<1>3. CASE run[r].stage = "visible"
  <2>1. Effect(r, d) = [d EXCEPT !.shown = run[r].cmd = "show"]
    BY <1>3 DEF Effect, At
  <2>2. (run[r].cmd = "show") = FALSE
    OBVIOUS
  <2>3. Effect(r, d) = [d EXCEPT !.shown = FALSE]
    BY <2>1, <2>2
  <2> QED
    BY <1>3, <2>3 DEF Dashboard
<1>4. CASE run[r].stage = "config"
  <2>1. Effect(r, d) = [d EXCEPT !.frame = "own"]
    BY <1>4 DEF Effect, At
  <2>2. d.there /\ d.shown => d.there = TRUE /\ d.shown = TRUE
    BY DEF Dashboard
  <2> QED
    BY <1>4, <2>1, <2>2 DEF Dashboard, Complete
<1> QED
  BY <1>1, <1>2, <1>3, <1>4

LEMMA ChangeKeeps ==
  ASSUME SidebarInv, Witness, NEW r \in Runs, ChangeDashboard(r)
  PROVE  SidebarInv'
<1> DEFINE p == run[r].path
           d == dash[p]
           u == run[r].stage
<1>0. SidebarShape
  BY DEF SidebarInv, SidebarShape
<1>1. u \in {"create", "update", "visible", "config", "delete"} /\ UNCHANGED <<prefVars, meddles>>
  BY DEF ChangeDashboard
<1>2. p \in Paths /\ d \in Dashboard /\ dash \in [Paths -> Dashboard] /\ breaks \in 0..MaxBreaks
  BY <1>0 DEF SidebarShape, SidebarTypeOK
<1>3. CASE ~Taken(u, d) /\ Goes(r, "died") /\ UNCHANGED <<dash, breaks>>
  <2>1. "died" \in RunStages
    BY DEF RunStages
  <2> QED
    BY <1>1, <1>2, <1>3, <2>1, LookingKeeps
<1>4. ASSUME Taken(u, d), dash' = [dash EXCEPT ![p] = Effect(r, d)], NEW s \in {Then(r), "died"},
             Goes(r, s), breaks' \in 0..MaxBreaks
      PROVE  SidebarInv'
  <2>1. Effect(r, d) \in Dashboard
    BY <1>0, <1>1, EffectType
  <2>2. PICK e : e = Effect(r, d)
    OBVIOUS
  <2>3. dash' \in [Paths -> Dashboard] /\ dash'[p] = e /\ \A q \in Paths \ {p} : dash'[q] = dash[q]
    BY <1>2, <1>4, <2>1, <2>2
  <2>4. s \in RunStages /\ s # "dashboards"
    BY <1>1, <1>4 DEF Then, After, At, RunStages
  <2>5. /\ run' \in [Runs -> RunRecord] /\ \A k \in Runs \ {r} : run'[k] = run[k]
        /\ run'[r].stage = s /\ run'[r].cmd = run[r].cmd /\ run'[r].path = p
        /\ run'[r].todo = run[r].todo /\ run'[r].seen = run[r].seen /\ run'[r].have = run[r].have
    BY <1>0, <1>4, <2>4, Going
  <2>6. known' = known /\ prefs' = prefs /\ Parsed(prefs)' = Parsed(prefs)
    BY <1>1 DEF prefVars, Parsed
  <2>7. ASSUME run'[r].cmd = "sync", calm'[r], Begun(r)'
        PROVE  run'[r].seen = Parsed(prefs)' /\ Behind(r)' /\ Ahead(r)' /\ AtServer(r)'
    <3>1. run[r].cmd = "sync" /\ s # "died" /\ s = Then(r)
      BY <1>4, <2>5, <2>7 DEF Begun
    <3>2. run[r].seen = Parsed(prefs) /\ Behind(r) /\ Ahead(r) /\ AtServer(r)
      BY <1>1, <2>7, <3>1, GoesOn
    <3>3. u # "delete" /\ p \notin run[r].todo
      BY <1>1, <3>2 DEF AtServer
    <3>4. /\ u \in {"create", "update"} => e.there /\ e.shown /\ s = "config"
          /\ u = "visible" => ~e.shown /\ s = "next"
          /\ u = "config" => e = Complete /\ s = "check"
      <4>1. u = "config" => d.there /\ d.shown
        BY <3>2 DEF AtServer
      <4>2. s = Then(r) /\ After(r) = "next"
        BY <3>1 DEF After
      <4>3. /\ u \in {"create", "update"} => s = "config"
            /\ u = "visible" => s = "next"
            /\ u = "config" => s = "check"
        BY <4>2 DEF Then, At
      <4> QED
        BY <1>2, <1>4, <2>2, <3>1, <4>1, <4>3, EffectRight
    <3>5. \A g \in known \ {p} : Right(g)' <=> Right(g)
      <4>1. known \subseteq Paths
        BY <1>0 DEF SidebarShape, SidebarTypeOK, Paths
      <4> QED
        BY <2>3, <2>6, <4>1 DEF Right
    <3>6. ASSUME NEW g, g = p, u = "visible" PROVE Right(g)'
      <4>1. u = "visible" => p \in run[r].seen.hidden
        BY <3>2 DEF AtServer
      <4> QED
        BY <1>2, <2>3, <2>6, <3>2, <3>4, <3>6, <4>1 DEF Right
    <3>7. Behind(r)'
      <4> SUFFICES ASSUME NEW g \in known' \ run'[r].todo, run'[r].stage \in {"next", "done"} \/ g # run'[r].path
                   PROVE  Right(g)'
        BY DEF Behind
      <4>1. g \in known \ run[r].todo
        BY <2>5, <2>6
      <4>2. CASE g = p
        <5>1. s \in {"next", "done"}
          BY <2>5, <4>2
        <5>2. u = "visible"
          BY <1>1, <3>3, <3>4, <5>1
        <5> QED
          BY <3>6, <4>2, <5>2
      <4>3. CASE g # p
        BY <1>1, <3>2, <3>5, <4>1, <4>3 DEF Behind
      <4> QED
        BY <4>2, <4>3
    <3>8. Ahead(r)'
      <4>1. run[r].todo \subseteq Paths \ {p}
        BY <1>0, <3>3 DEF SidebarShape, SidebarTypeOK, Paths
      <4>2. s # "done"
        BY <1>1, <3>3, <3>4
      <4> QED
        BY <2>3, <2>5, <2>6, <3>2, <4>1, <4>2 DEF Ahead
    <3>9. AtServer(r)'
      <4>1. u \in {"create", "update", "config"} => p \in known /\ p \notin run[r].seen.hidden
        BY <3>2 DEF AtServer
      <4>2. s \in {"config", "check", "next"} /\ (s = "next" \/ u \in {"create", "update", "config"})
        BY <1>1, <3>3, <3>4
      <4>3. s = "config" => e.there /\ e.shown
        BY <1>1, <3>3, <3>4
      <4>4. s = "check" => e = Complete
        BY <1>1, <3>3, <3>4
      <4> QED
        BY <2>3, <2>5, <2>6, <3>3, <4>1, <4>2, <4>3, <4>4 DEF AtServer
    <3> QED
      BY <2>5, <2>6, <3>2, <3>7, <3>8, <3>9
  <2>8. run'[r].stage # "dashboards"
    BY <2>4, <2>5
  <2> QED
    BY <1>1, <1>4, <2>3, <2>5, <2>7, <2>8, RunKeeps
<1>5. breaks + 1 \in Nat /\ (breaks < MaxBreaks => breaks + 1 \in 0..MaxBreaks)
  BY <1>2, SidebarAssumption DEF SidebarAssumption
<1> QED
  BY <1>2, <1>3, <1>4, <1>5 DEF ChangeDashboard

LEMMA RunStepKeeps ==
  ASSUME SidebarInv, Witness, NEW r \in Runs, RunStep(r)
  PROVE  SidebarInv'
BY StartKeeps, ServersKeep, DashboardsKeep, NextKeeps, SyncEndKeeps, LookKeeps, FindKeeps,
   ChangeKeeps, CheckKeeps, DyingKeeps DEF RunStep

LEMMA SidebarKeeps == SidebarInv /\ [SidebarNext]_sidebarVars => SidebarInv'
<1> SUFFICES ASSUME SidebarInv, [SidebarNext]_sidebarVars PROVE SidebarInv'
  OBVIOUS
<1>1. CASE SidebarStep /\ Witness
  BY <1>1, MergeKeeps, StoreKeeps, RefusalKeeps, DiscoverKeeps, MeddleKeeps, RunStepKeeps DEF SidebarStep
<1>2. CASE UNCHANGED sidebarVars
  BY <1>2 DEF sidebarVars, prefVars, SidebarInv, SidebarTypeOK, SidebarShapes, SaveAlone, Discovered, SyncSound,
              Undisturbed, Begun, Behind, Ahead, AtServer, Right, Parsed
<1> QED
  BY <1>1, <1>2 DEF SidebarNext

LEMMA SidebarInitially == SidebarInit => SidebarInv
<1> SUFFICES ASSUME SidebarInit PROVE SidebarInv
  OBVIOUS
<1>1. NoPrefs \in Prefs /\ Parsed(prefs) = NoPrefs /\ wanted = NoPrefs
  BY DEF SidebarInit, NoPrefs, Prefs, Parsed
<1>2. \A r \in Runs : run[r] = NoRun
  BY DEF SidebarInit
<1>3. \A n \in Saves : save[n] = NoSave
  BY DEF SidebarInit
<1>4. NoRun \in RunRecord /\ NoRun.stage = "none"
  BY <1>1 DEF NoRun, RunRecord, RunStages, Paths
<1>5. run \in [Runs -> RunRecord] /\ save \in [Saves -> SaveRecord \cup {NoSave}]
  BY <1>4 DEF SidebarInit
<1>6. dash \in [Paths -> Dashboard] /\ calm \in [Runs -> BOOLEAN]
  BY DEF SidebarInit, Dashboard, NoDashboard
<1>7. breaks \in 0..MaxBreaks /\ meddles \in 0..MaxMeddles
  BY SidebarAssumption DEF SidebarInit, SidebarAssumption
<1>8. known \subseteq Guilds /\ overlap \in BOOLEAN /\ prefs \in Prefs \cup {Damaged}
  BY <1>1 DEF SidebarInit
<1>9. SidebarTypeOK
  BY <1>1, <1>5, <1>6, <1>7, <1>8, RunTypes, SaveTypes DEF SidebarTypeOK
<1>10. SidebarShapes
  BY <1>5, <1>8 DEF SidebarShapes
<1>11. \A n \in Saves : save[n].stage # "merged"
  BY <1>3 DEF NoSave
<1>12. SaveAlone
  BY <1>1, <1>11 DEF SaveAlone
<1>13. Discovered
  BY <1>1, <1>11 DEF Discovered, NoPrefs
<1>14. SyncSound
  BY <1>2, <1>4 DEF SyncSound, Undisturbed, Begun
<1> QED
  BY <1>9, <1>10, <1>12, <1>13, <1>14 DEF SidebarInv

\* Reached by any interleaving of requests, runs of ha-sidebar.ts and changes by
\* hand: what SyncSound and SaveAlone say.
THEOREM SidebarInvariant == SidebarSpec => []SidebarInv
BY SidebarInitially, SidebarKeeps, PTL DEF SidebarSpec

\* ha-sidebar.ts and dc_sidebar.js: a sync that ends undisturbed has mirrored the
\* preferences, and these are every answered patch applied in turn.
THEOREM SidebarMirrors == SidebarSpec => []SidebarTrue
<1>1. SidebarInv => SidebarTrue
  <2> SUFFICES ASSUME SidebarInv PROVE SidebarTrue
    OBVIOUS
  <2>1. PrefsKept
    BY DEF SidebarInv, SaveAlone, PrefsKept
  <2>2. ASSUME NEW r \in Runs, run[r].cmd = "sync", At(r, "done"), calm[r], NEW g \in known
        PROVE  Right(g)
    <3>1. Begun(r) /\ run[r].stage = "done"
      BY <2>2 DEF Begun, At
    <3>2. Behind(r) /\ Ahead(r)
      BY <2>2, <3>1 DEF SidebarInv, SyncSound, Undisturbed
    <3> QED
      BY <3>1, <3>2 DEF Behind, Ahead
  <2>3. Mirrored
    BY <2>2 DEF Mirrored, Right, Complete
  <2> QED
    BY <2>1, <2>3 DEF SidebarTrue, SidebarInv
<1> QED
  BY <1>1, SidebarInvariant, PTL

-----------------------------------------------------------------------------
(***************************************************************************)
(* The timeline: a page the server has answered holds every message it     *)
(* should, and no other, between its first row and the newest              *)
(* (AnswersComplete), the requests of one load follow on one another       *)
(* (Follows, Continues), and so the list has every message for the filter  *)
(* it was loaded with (ListComplete), whatever has been asked for since.   *)
(***************************************************************************)

AnyFilter == TimelineFilters \cup {NoRequest.filter}
SomePage == UNION {[S -> 1..MaxVersions] : S \in SUBSET Events}
PageRequest == [stage: {"none", "sent", "read", "over"}, older: BOOLEAN, filter: AnyFilter,
                cursor: MessageIds \cup {0}, page: SomePage, next: MessageIds \cup {0},
                more: BOOLEAN, missed: SUBSET MessageIds]
TimelineShape ==
  /\ version \in [Events -> 0..MaxVersions] /\ since \in 0..MaxSince /\ filter \in TimelineFilters
  /\ loadedFor \in AnyFilter /\ seq \in 0..MaxPages /\ request \in [PageRequests -> PageRequest]
  /\ shownEvents \in SomePage /\ cursor \in MessageIds \cup {0}
  /\ hasMore \in BOOLEAN /\ busy \in BOOLEAN /\ listening \in BOOLEAN
  /\ feed \in Seq(MessageIds \X (1..MaxVersions)) /\ written \subseteq MessageIds
  /\ writes \in 0..MaxWrites /\ losses \in 0..MaxTimelineFaults

\* What an answer that was read reaches, from its cursor on.
Beyond(q, i) ==
  \/ q.cursor = 0
  \/ i \in MessageIds /\ OlderThan(i, q.cursor)
  \/ i \in ThreadIds /\ Instant(i) < Instant(q.cursor)
Within(q, i) ==
  \/ ~q.more
  \/ i \in MessageIds /\ (i = q.next \/ OlderThan(q.next, i))
  \/ i \in ThreadIds /\ Instant(i) >= Instant(q.next)
AnswerHas(q, i, v, from) ==
  /\ i \in DOMAIN q.page => q.page[i] = v
  /\ Finds(q.filter, i, v) /\ Instant(i) >= from /\ Beyond(q, i) /\ Within(q, i) => i \in DOMAIN q.page

\* An answer has all that its page reaches, but for what was written since.
AnswersComplete ==
  \A n \in PageRequests : request[n].stage = "read" =>
    \A i \in Events \ request[n].missed : AnswerHas(request[n], i, version[i], since)

\* The page that is awaited continues the list.
Follows(q, c, w) ==
  /\ q.older <=> q.cursor # 0
  /\ q.older => q.cursor = c
  /\ q.stage = "sent" => q.missed = {}
  /\ q.older /\ q.stage = "read" => q.missed \subseteq w
Continues ==
  \A n \in PageRequests : CurrentRequest(n) /\ request[n].stage \in {"sent", "read"} =>
    Follows(request[n], cursor, written)

\* Of the list, whatever is asked for now.
ListHas(i) ==
  Finds(loadedFor, i, version[i]) /\ Instant(i) >= since /\ Reached(i)
    => i \in DOMAIN shownEvents /\ shownEvents[i] = version[i]
ListComplete == \A i \in Events \ written : ListHas(i)
UnreadWritten == loadedFor.kinds # {} => \A k \in DOMAIN feed : feed[k][1] \in written

TimelineInv == TimelineShape /\ AnswersComplete /\ Continues /\ ListComplete /\ UnreadWritten


-----------------------------------------------------------------------------
(* The newest rows of a set. *)

LEMMA Least == ASSUME NEW T \in SUBSET Nat, T # {} PROVE \E m \in T : \A y \in T : m <= y
<1> DEFINE R == {p \in Nat \X Nat : p[1] < p[2]}
<1>1. IsWellFoundedOn(R, Nat)
  BY NatLessThanWellFounded DEF OpToRel
<1>2. \A x, y \in Nat : <<y, x>> \in R <=> y < x
  OBVIOUS
<1> HIDE DEF R
<1>3. PICK x \in T : \A y \in T : ~(<<y, x>> \in R)
  BY <1>1, WFMin
<1>4. ASSUME NEW y \in T PROVE x <= y
  <2>1. x \in Nat /\ y \in Nat /\ ~(y < x)
    BY <1>2, <1>3
  <2> QED
    BY <2>1
<1> QED
  BY <1>4

LEMMA EventNumbers == IsFiniteSet(Events) /\ Events \subseteq Nat /\ \A i \in Events : Instant(i) \in Nat
BY TimelineAssumption DEF TimelineAssumption

LEMMA AgeOrder ==
  ASSUME NEW i \in Events, NEW j \in Events
  PROVE  /\ OlderThan(i, j) \/ OlderThan(j, i) \/ i = j
         /\ ~(OlderThan(i, j) /\ OlderThan(j, i)) /\ ~OlderThan(i, i)
         /\ \A k \in Events : OlderThan(i, j) /\ OlderThan(j, k) => OlderThan(i, k)
<1>1. i \in Nat /\ j \in Nat /\ Instant(i) \in Nat /\ Instant(j) \in Nat
  BY EventNumbers
<1>2. \A k \in Events : k \in Nat /\ Instant(k) \in Nat
  BY EventNumbers
<1> QED
  BY <1>1, <1>2 DEF OlderThan

\* The rows of F that are newer than i, and how many they are.
NewerIn(F, i) == {j \in F : OlderThan(i, j)}

LEMMA NewerCount ==
  ASSUME NEW F \in SUBSET Events, NEW i \in F
  PROVE  /\ Cardinality(NewerIn(F, i)) \in Nat
         /\ \A j \in F : OlderThan(i, j) => Cardinality(NewerIn(F, j)) < Cardinality(NewerIn(F, i))
<1>1. IsFiniteSet(F)
  BY EventNumbers, FS_Subset
<1>2. \A j \in F : IsFiniteSet(NewerIn(F, j)) /\ Cardinality(NewerIn(F, j)) \in Nat
  BY <1>1, FS_Subset, FS_CardinalityType DEF NewerIn
<1>3. ASSUME NEW j \in F, OlderThan(i, j) PROVE Cardinality(NewerIn(F, j)) < Cardinality(NewerIn(F, i))
  <2>1. NewerIn(F, j) \in SUBSET NewerIn(F, i)
    BY <1>3, AgeOrder DEF NewerIn
  <2>2. j \in NewerIn(F, i) /\ j \notin NewerIn(F, j)
    BY <1>3, AgeOrder DEF NewerIn
  <2>3. /\ Cardinality(NewerIn(F, j)) <= Cardinality(NewerIn(F, i))
        /\ Cardinality(NewerIn(F, j)) = Cardinality(NewerIn(F, i)) => NewerIn(F, j) = NewerIn(F, i)
    BY <1>2, <2>1, FS_Subset
  <2> QED
    BY <1>2, <2>2, <2>3
<1> QED
  BY <1>2, <1>3

\* Of fewer rows than asked for there are no others; there are never more.
Top(F) == {i \in F : Cardinality(NewerIn(F, i)) < PageLimit}

LEMMA NewestRows ==
  ASSUME NEW F \in SUBSET Events
  PROVE  /\ \A i, s \in F : s \in Top(F) /\ OlderThan(s, i) => i \in Top(F)
         /\ Cardinality(Top(F)) # PageLimit => Top(F) = F
<1>1. PageLimit \in Nat /\ PageLimit > 0
  BY TimelineAssumption DEF TimelineAssumption
<1>2. ASSUME NEW i \in F, NEW s \in F, s \in Top(F), OlderThan(s, i) PROVE i \in Top(F)
  <2>1. Cardinality(NewerIn(F, i)) < Cardinality(NewerIn(F, s)) /\ Cardinality(NewerIn(F, i)) \in Nat
        /\ Cardinality(NewerIn(F, s)) \in Nat /\ Cardinality(NewerIn(F, s)) < PageLimit
    BY <1>2, NewerCount DEF Top
  <2> QED
    BY <1>1, <2>1 DEF Top
<1>3. IsFiniteSet(F) /\ IsFiniteSet(Top(F)) /\ Cardinality(Top(F)) \in Nat
  <2>1. IsFiniteSet(F)
    BY EventNumbers, FS_Subset
  <2> QED
    BY <2>1, FS_Subset, FS_CardinalityType DEF Top
<1>4. Cardinality(Top(F)) <= PageLimit
  <2> SUFFICES ASSUME PageLimit < Cardinality(Top(F)) PROVE FALSE
    BY <1>1, <1>3
  <2> DEFINE f == [i \in Top(F) |-> Cardinality(NewerIn(F, i))]
  <2>1. f \in [Top(F) -> 0..(PageLimit - 1)]
    <3> SUFFICES ASSUME NEW i \in Top(F) PROVE Cardinality(NewerIn(F, i)) \in 0..(PageLimit - 1)
      OBVIOUS
    <3>1. Cardinality(NewerIn(F, i)) \in Nat /\ Cardinality(NewerIn(F, i)) < PageLimit
      BY NewerCount DEF Top
    <3> QED
      BY <1>1, <3>1
  <2>2. IsFiniteSet(0..(PageLimit - 1)) /\ Cardinality(0..(PageLimit - 1)) = PageLimit
    <3>1. 0 \in Int /\ PageLimit - 1 \in Int /\ ~(0 > PageLimit - 1) /\ (PageLimit - 1) - 0 + 1 = PageLimit
      BY <1>1
    <3> QED
      BY <3>1, FS_Interval
  <2> HIDE DEF f
  <2>3. \E x, y \in Top(F) : x # y /\ f[x] = f[y]
    BY <1>3, <2>1, <2>2, FS_PigeonHole
  <2>4. PICK x \in Top(F), y \in Top(F) : x # y /\ f[x] = f[y]
    BY <2>3
  <2>5. Cardinality(NewerIn(F, x)) = Cardinality(NewerIn(F, y)) /\ x \in F /\ y \in F
    BY <2>4 DEF f, Top
  <2>6. OlderThan(x, y) \/ OlderThan(y, x)
    BY <2>4, <2>5, AgeOrder
  <2>7. Cardinality(NewerIn(F, x)) \in Nat /\ Cardinality(NewerIn(F, y)) \in Nat
    BY <2>5, NewerCount
  <2>8. OlderThan(x, y) => Cardinality(NewerIn(F, y)) < Cardinality(NewerIn(F, x))
    BY <2>5, NewerCount
  <2>9. OlderThan(y, x) => Cardinality(NewerIn(F, x)) < Cardinality(NewerIn(F, y))
    BY <2>5, NewerCount
  <2> QED
    BY <2>5, <2>6, <2>7, <2>8, <2>9
<1>5. ASSUME Top(F) # F PROVE PageLimit <= Cardinality(Top(F))
  <2> DEFINE T == {Cardinality(NewerIn(F, i)) : i \in F \ Top(F)}
  <2>1. T \in SUBSET Nat /\ T # {}
    BY <1>5, NewerCount DEF Top
  <2>2. PICK m \in T : \A y \in T : m <= y
    BY <2>1, Least
  <2>3. PICK x \in F \ Top(F) : m = Cardinality(NewerIn(F, x))
    BY <2>2
  <2>4. NewerIn(F, x) \in SUBSET Top(F)
    <3> SUFFICES ASSUME NEW j \in F, OlderThan(x, j), j \notin Top(F) PROVE FALSE
      BY DEF NewerIn
    <3>1. Cardinality(NewerIn(F, j)) < Cardinality(NewerIn(F, x)) /\ Cardinality(NewerIn(F, j)) \in T
      BY <2>3, NewerCount
    <3>2. Cardinality(NewerIn(F, j)) \in Nat /\ Cardinality(NewerIn(F, x)) \in Nat
      BY <2>3, NewerCount
    <3> QED
      BY <2>2, <2>3, <3>1, <3>2
  <2>5. Cardinality(NewerIn(F, x)) <= Cardinality(Top(F))
    BY <1>3, <2>4, FS_Subset
  <2>6. ~(Cardinality(NewerIn(F, x)) < PageLimit) /\ Cardinality(NewerIn(F, x)) \in Nat
    BY <2>3, NewerCount DEF Top
  <2> QED
    BY <1>1, <1>3, <2>5, <2>6
<1> QED
  BY <1>1, <1>2, <1>3, <1>4, <1>5

LEMMA OldestIn ==
  ASSUME NEW S \in SUBSET Events, S # {}
  PROVE  Oldest(S) \in S
<1> DEFINE older(i) == {j \in S : OlderThan(j, i)}
           T == {Cardinality(older(i)) : i \in S}
<1>1. IsFiniteSet(S)
  BY EventNumbers, FS_Subset
<1>2. \A i \in S : IsFiniteSet(older(i)) /\ Cardinality(older(i)) \in Nat
  BY <1>1, FS_Subset, FS_CardinalityType
<1>3. PICK m \in T : \A y \in T : m <= y
  <2>1. T \in SUBSET Nat /\ T # {}
    BY <1>2
  <2> QED
    BY <2>1, Least
<1>4. PICK x \in S : m = Cardinality(older(x))
  BY <1>3
<1>5. ASSUME NEW j \in S \ {x} PROVE OlderThan(x, j)
  <2> SUFFICES ASSUME OlderThan(j, x) PROVE FALSE
    BY AgeOrder
  <2>1. older(j) \in SUBSET older(x)
    BY AgeOrder
  <2>2. j \in older(x) /\ j \notin older(j)
    BY AgeOrder
  <2>3. /\ Cardinality(older(j)) <= Cardinality(older(x))
        /\ Cardinality(older(j)) = Cardinality(older(x)) => older(j) = older(x)
    BY <1>2, <2>1, FS_Subset
  <2>4. m <= Cardinality(older(j)) /\ Cardinality(older(j)) # Cardinality(older(x))
    BY <1>3, <2>2, <2>3
  <2> QED
    BY <1>2, <1>4, <2>3, <2>4
<1> QED
  BY <1>5 DEF Oldest


-----------------------------------------------------------------------------
(* The pages. *)

LEMMA PageType == \A f : f \in SomePage <=> SomeEvents(f)
<1> SUFFICES ASSUME NEW f PROVE f \in SomePage <=> SomeEvents(f)
  OBVIOUS
<1>1. ASSUME f \in SomePage PROVE SomeEvents(f)
  <2>1. PICK S \in SUBSET Events : f \in [S -> 1..MaxVersions]
    BY <1>1 DEF SomePage
  <2>2. DOMAIN f = S
    BY <2>1
  <2> QED
    BY <2>1, <2>2 DEF SomeEvents
<1>2. ASSUME SomeEvents(f) PROVE f \in SomePage
  BY <1>2 DEF SomeEvents, SomePage
<1> QED
  BY <1>1, <1>2

LEMMA TimelineTypes == TimelineShape => TimelineTypeOK
<1> SUFFICES ASSUME TimelineShape PROVE TimelineTypeOK
  OBVIOUS
<1>1. \A n \in PageRequests : request[n].stage \in {"none", "sent", "read", "over"} /\ SomeEvents(request[n].page)
  BY PageType DEF TimelineShape, PageRequest
<1> QED
  BY <1>1, PageType DEF TimelineShape, TimelineTypeOK, AnyFilter

LEMMA Bounds == {MaxVersions, MaxWrites, MaxPages, MaxSince, MaxTimelineFaults} \subseteq Nat
BY TimelineAssumption DEF TimelineAssumption

LEMMA RequestFacts ==
  ASSUME NEW q \in PageRequest
  PROVE  /\ q.filter \in AnyFilter /\ q.cursor \in MessageIds \cup {0} /\ q.page \in SomePage
         /\ q.next \in MessageIds \cup {0} /\ q.more \in BOOLEAN /\ q.missed \subseteq MessageIds
         /\ q.stage \in {"none", "sent", "read", "over"} /\ q.older \in BOOLEAN
BY DEF PageRequest

LEMMA NoRequestType == NoRequest \in PageRequest /\ NoEvents \in SomePage
<1>1. NoEvents \in SomePage
  <2>1. NoEvents \in [{} -> 1..MaxVersions]
    BY DEF NoEvents
  <2> QED
    BY <2>1 DEF SomePage
<1> QED
  BY <1>1 DEF NoRequest, PageRequest, AnyFilter

\* Answers that were not taken, and nothing of theirs written unnoticed.
LEMMA AnswersStay ==
  ASSUME TimelineShape, AnswersComplete, since' \in Nat, since <= since',
         \A n \in PageRequests : request'[n].stage = "read" =>
           /\ request[n].stage = "read" /\ request[n].missed \subseteq request'[n].missed
           /\ request'[n].filter = request[n].filter /\ request'[n].cursor = request[n].cursor
           /\ request'[n].page = request[n].page /\ request'[n].next = request[n].next
           /\ request'[n].more = request[n].more
           /\ \A j \in Events \ request'[n].missed : version'[j] = version[j]
  PROVE  AnswersComplete'
<1> SUFFICES ASSUME NEW n \in PageRequests, request'[n].stage = "read", NEW i \in Events \ request'[n].missed
             PROVE  AnswerHas(request'[n], i, version'[i], since')
  BY DEF AnswersComplete
<1>1. PICK q : q = request[n]
  OBVIOUS
<1>2. PICK p : p = request'[n]
  OBVIOUS
<1>3. /\ p.filter = q.filter /\ p.cursor = q.cursor /\ p.page = q.page /\ p.next = q.next
      /\ p.more = q.more /\ version'[i] = version[i] /\ q.stage = "read" /\ i \notin q.missed
  BY <1>1, <1>2
<1>4. AnswerHas(q, i, version[i], since)
  BY <1>1, <1>3 DEF AnswersComplete
<1>5. Beyond(p, i) <=> Beyond(q, i)
  BY <1>3 DEF Beyond
<1>6. Within(p, i) <=> Within(q, i)
  BY <1>3 DEF Within
<1>7. Instant(i) >= since' => Instant(i) >= since
  BY EventNumbers, Bounds DEF TimelineShape
<1>8. AnswerHas(p, i, version[i], since')
  BY <1>3, <1>4, <1>5, <1>6, <1>7 DEF AnswerHas
<1> QED
  BY <1>2, <1>3, <1>8

LEMMA ListStays ==
  ASSUME TimelineShape, ListComplete, UNCHANGED <<cursor, hasMore, loadedFor>>,
         since' \in Nat, since <= since', written \subseteq written',
         loadedFor.kinds # {} => \A j \in Events \ written' :
           /\ version'[j] = version[j]
           /\ j \in DOMAIN shownEvents /\ shownEvents[j] = version[j]
                => j \in DOMAIN shownEvents' /\ shownEvents'[j] = version[j]
  PROVE  ListComplete'
<1> SUFFICES ASSUME NEW i \in Events, i \notin written',
                    Finds(loadedFor', i, version'[i]), Instant(i) >= since', Reached(i)'
             PROVE  i \in DOMAIN shownEvents' /\ shownEvents'[i] = version'[i]
  BY DEF ListComplete, ListHas
<1>1. loadedFor.kinds # {}
  BY DEF Finds
<1>2. version'[i] = version[i] /\ Finds(loadedFor, i, version[i])
  BY <1>1
<1>3. Instant(i) >= since
  BY EventNumbers, Bounds DEF TimelineShape
<1>4. Reached(i)
  BY DEF Reached
<1>5. i \in DOMAIN shownEvents /\ shownEvents[i] = version[i]
  BY <1>2, <1>3, <1>4 DEF ListComplete, ListHas
<1> QED
  BY <1>1, <1>2, <1>5

-----------------------------------------------------------------------------
\* What the server answers.

Matching(q) ==
  {i \in MessageIds : Finds(q.filter, i, version[i]) /\ Instant(i) >= since
                      /\ (q.cursor = 0 \/ AfterCursor(i, q.cursor))}

LEMMA RowsAreTop == \A q : PageRows(q) = Top(Matching(q)) /\ Matching(q) \in SUBSET Events /\ Matching(q) \subseteq MessageIds
BY DEF PageRows, Matching, Top, NewerIn, Events

LEMMA ServeKeeps ==
  ASSUME TimelineInv, NEW n \in PageRequests, ServePage(n)
  PROVE  TimelineInv'
<1>0. TimelineShape
  BY DEF TimelineInv
<1>1. PICK q : q = request[n]
  OBVIOUS
<1> DEFINE S == PageRows(q)
           more == Cardinality(S) = PageLimit
           threads == {i \in ThreadIds : Finds(q.filter, i, version[i]) /\ InSlice(i, q, S, more)}
           oldest == IF more THEN Oldest(S) ELSE 0
           held == [i \in S \cup threads |-> version[i]]
           x == [q EXCEPT !.stage = "read", !.page = held, !.next = oldest, !.more = more]
<1>2. /\ q.stage = "sent" /\ request' = [request EXCEPT ![n] = x]
      /\ UNCHANGED <<timelineServer, filter, seq, shownEvents, cursor, hasMore, busy, loadedFor, written,
                     timelineStream, losses>>
  BY <1>1 DEF ServePage
<1>3. UNCHANGED <<version, since, writes, listening, feed>>
  BY <1>2 DEF timelineServer, timelineStream
<1>4. q \in PageRequest
  BY <1>0, <1>1 DEF TimelineShape
<1>5. S = Top(Matching(q)) /\ Matching(q) \in SUBSET Events /\ S \subseteq Matching(q) /\ S \subseteq MessageIds
  <2>1. S = Top(Matching(q)) /\ Matching(q) \in SUBSET Events /\ Matching(q) \subseteq MessageIds
    BY RowsAreTop
  <2> QED
    BY <2>1 DEF Top
<1>6. more => Oldest(S) \in S
  <2>1. more => S # {}
    BY FS_EmptySet, TimelineAssumption DEF TimelineAssumption
  <2>2. S \in SUBSET Events
    BY <1>5
  <2> HIDE DEF S
  <2> QED
    BY <2>1, <2>2, OldestIn
<1> HIDE DEF S
<1>7. held \in SomePage
  <2>1. \A i \in S \cup threads : i \in Events /\ version[i] \in 0..MaxVersions /\ version[i] > 0
    BY <1>0, <1>5 DEF TimelineShape, Matching, Finds, Events
  <2>2. \A i \in S \cup threads : version[i] \in 1..MaxVersions
    BY <1>0, <2>1, Bounds DEF TimelineShape
  <2>3. held \in [S \cup threads -> 1..MaxVersions]
    BY <2>2
  <2> QED
    BY <2>1, <2>3 DEF SomePage
<1>8. oldest \in MessageIds \cup {0} /\ more \in BOOLEAN
  BY <1>5, <1>6
<1>9. DOMAIN held = S \cup threads /\ \A i \in S \cup threads : held[i] = version[i]
  OBVIOUS
<1>10. /\ more => oldest = Oldest(S)
       /\ ~more => S = Matching(q)
  BY <1>5, NewestRows
<1>11. \A i \in ThreadIds : Finds(q.filter, i, version[i]) /\ InSlice(i, q, S, more) => i \in threads
  OBVIOUS
<1> HIDE DEF held, threads, oldest
<1>12. PICK m \in BOOLEAN : m = more
  OBVIOUS
<1> HIDE DEF more
<1>13. /\ x \in PageRequest /\ x.stage = "read" /\ x.page = held /\ x.next = oldest /\ x.more = more
       /\ x.filter = q.filter /\ x.cursor = q.cursor /\ x.older = q.older /\ x.missed = q.missed
  <2>1. /\ [q EXCEPT !.stage = "read", !.page = held, !.next = oldest, !.more = m] \in PageRequest
        /\ x = [q EXCEPT !.stage = "read", !.page = held, !.next = oldest, !.more = m]
    BY <1>4, <1>7, <1>8, <1>12 DEF PageRequest
  <2> QED
    BY <1>4, <1>12, <2>1 DEF PageRequest
<1> HIDE DEF x
<1>14. request' \in [PageRequests -> PageRequest] /\ request'[n] = x /\ \A k \in PageRequests \ {n} : request'[k] = request[k]
  BY <1>0, <1>2, <1>13 DEF TimelineShape
<1>15. ASSUME NEW i \in Events PROVE AnswerHas(x, i, version[i], since)
  <2>1. i \in DOMAIN x.page => x.page[i] = version[i]
    BY <1>9, <1>13
  <2> SUFFICES ASSUME Finds(q.filter, i, version[i]), Instant(i) >= since, Beyond(x, i), Within(x, i)
               PROVE  i \in S \cup threads
    BY <1>9, <1>13, <2>1 DEF AnswerHas
  <2>2. Beyond(q, i) /\ (~more \/ (i \in MessageIds /\ (i = Oldest(S) \/ OlderThan(Oldest(S), i)))
                               \/ (i \in ThreadIds /\ Instant(i) >= Instant(Oldest(S))))
    BY <1>10, <1>13 DEF Beyond, Within
  <2>3. CASE i \in MessageIds
    <3>1. i \notin ThreadIds
      BY <2>3, TimelineAssumption DEF TimelineAssumption
    <3>2. i \in Matching(q)
      BY <2>2, <2>3, <3>1 DEF Beyond, Matching, AfterCursor
    <3>3. CASE ~more
      BY <1>10, <3>2, <3>3
    <3>4. CASE more
      <4>1. i = Oldest(S) \/ OlderThan(Oldest(S), i)
        BY <2>2, <3>1, <3>4
      <4>2. Oldest(S) \in S /\ Oldest(S) \in Matching(q) /\ Oldest(S) \in Top(Matching(q))
        BY <1>5, <1>6, <3>4
      <4>3. OlderThan(Oldest(S), i) => i \in Top(Matching(q))
        BY <1>5, <3>2, <4>2, NewestRows
      <4> QED
        BY <1>5, <4>1, <4>2, <4>3
    <3> QED
      BY <3>3, <3>4
  <2>4. CASE i \in ThreadIds
    <3>1. i \notin MessageIds
      BY <2>4, TimelineAssumption DEF TimelineAssumption
    <3>2. InSlice(i, q, S, more)
      BY <2>2, <2>4, <3>1 DEF InSlice, Beyond
    <3> QED
      BY <1>11, <2>4, <3>2
  <2> QED
    BY <2>3, <2>4 DEF Events
<1>16. TimelineShape'
  BY <1>0, <1>2, <1>3, <1>14 DEF TimelineShape
<1>17. AnswersComplete'
  <2> SUFFICES ASSUME NEW k \in PageRequests, request'[k].stage = "read", NEW i \in Events \ request'[k].missed
               PROVE  AnswerHas(request'[k], i, version'[i], since')
    BY DEF AnswersComplete
  <2>1. version'[i] = version[i] /\ since' = since
    BY <1>3
  <2>2. CASE k = n
    BY <1>14, <1>15, <2>1, <2>2
  <2>3. CASE k # n
    BY <1>14, <2>1, <2>3 DEF TimelineInv, AnswersComplete
  <2> QED
    BY <2>2, <2>3
<1>18. Continues'
  <2> SUFFICES ASSUME NEW k \in PageRequests, CurrentRequest(k)', request'[k].stage \in {"sent", "read"}
               PROVE  Follows(request'[k], cursor', written')
    BY DEF Continues
  <2>1. CurrentRequest(k) /\ cursor' = cursor /\ written' = written
    BY <1>2 DEF CurrentRequest
  <2>2. CASE k = n
    <3>1. Follows(q, cursor, written)
      BY <1>1, <1>2, <2>1, <2>2 DEF TimelineInv, Continues
    <3>2. Follows(x, cursor, written)
      BY <1>2, <1>13, <3>1 DEF Follows
    <3> QED
      BY <1>14, <2>1, <2>2, <3>2
  <2>3. CASE k # n
    BY <1>14, <2>1, <2>3 DEF TimelineInv, Continues
  <2> QED
    BY <2>2, <2>3
<1>19. ListComplete'
  BY <1>0, <1>2, <1>3, Bounds, ListStays DEF TimelineInv, TimelineShape
<1>20. UnreadWritten'
  BY <1>2, <1>3 DEF TimelineInv, UnreadWritten
<1> QED
  BY <1>16, <1>17, <1>18, <1>19, <1>20 DEF TimelineInv


LEMMA WriteKeeps ==
  ASSUME TimelineInv, NEW i \in MessageIds, WriteMessage(i)
  PROVE  TimelineInv'
<1>0. TimelineShape
  BY DEF TimelineInv
<1>1. /\ version[i] < MaxVersions /\ writes < MaxWrites /\ writes' = writes + 1
      /\ version' = [version EXCEPT ![i] = version[i] + 1]
      /\ feed' = IF listening THEN Append(feed, <<i, version[i] + 1>>) ELSE feed
      /\ written' = written \cup {i}
      /\ UNCHANGED <<since, filter, seq, shownEvents, cursor, hasMore, busy, loadedFor, listening, losses>>
  BY DEF WriteMessage
<1>2. \A n \in PageRequests :
        request'[n] = IF request[n].stage = "read" THEN [request[n] EXCEPT !.missed = request[n].missed \cup {i}] ELSE request[n]
  BY DEF WriteMessage
<1>3. i \in Events /\ version[i] \in 0..MaxVersions
  BY <1>0 DEF TimelineShape, Events
<1>4. version[i] + 1 \in 1..MaxVersions /\ version[i] + 1 \in 0..MaxVersions /\ writes' \in 0..MaxWrites
  BY <1>0, <1>1, <1>3, Bounds DEF TimelineShape
<1>5. version' \in [Events -> 0..MaxVersions] /\ \A j \in Events \ {i} : version'[j] = version[j]
  BY <1>0, <1>1, <1>4 DEF TimelineShape
<1>6. \A n \in PageRequests :
        /\ request'[n] \in PageRequest
        /\ request'[n].stage = request[n].stage /\ request'[n].older = request[n].older
        /\ request'[n].filter = request[n].filter /\ request'[n].cursor = request[n].cursor
        /\ request'[n].page = request[n].page /\ request'[n].next = request[n].next
        /\ request'[n].more = request[n].more
        /\ request'[n].missed = IF request[n].stage = "read" THEN request[n].missed \cup {i} ELSE request[n].missed
  <2> SUFFICES ASSUME NEW n \in PageRequests PROVE
        /\ request'[n] \in PageRequest
        /\ request'[n].stage = request[n].stage /\ request'[n].older = request[n].older
        /\ request'[n].filter = request[n].filter /\ request'[n].cursor = request[n].cursor
        /\ request'[n].page = request[n].page /\ request'[n].next = request[n].next
        /\ request'[n].more = request[n].more
        /\ request'[n].missed = IF request[n].stage = "read" THEN request[n].missed \cup {i} ELSE request[n].missed
    OBVIOUS
  <2>1. PICK q : q = request[n]
    OBVIOUS
  <2>2. q \in PageRequest
    BY <1>0, <2>1 DEF TimelineShape
  <2>3. request'[n] = IF q.stage = "read" THEN [q EXCEPT !.missed = q.missed \cup {i}] ELSE q
    BY <1>2, <2>1
  <2> QED
    BY <2>1, <2>2, <2>3 DEF PageRequest
<1>7. request' \in [PageRequests -> PageRequest]
  <2>1. request' = [n \in PageRequests |-> request'[n]]
    BY DEF WriteMessage
  <2> QED
    BY <1>6, <2>1
<1>8. feed' \in Seq(MessageIds \X (1..MaxVersions))
  <2>1. feed \in Seq(MessageIds \X (1..MaxVersions)) /\ <<i, version[i] + 1>> \in MessageIds \X (1..MaxVersions)
    BY <1>0, <1>4 DEF TimelineShape
  <2> QED
    BY <1>1, <2>1
<1>9. TimelineShape'
  BY <1>0, <1>1, <1>4, <1>5, <1>7, <1>8 DEF TimelineShape
<1>10. AnswersComplete'
  <2>1. \A n \in PageRequests : request'[n].stage = "read" =>
           /\ request[n].stage = "read" /\ request[n].missed \subseteq request'[n].missed
           /\ request'[n].filter = request[n].filter /\ request'[n].cursor = request[n].cursor
           /\ request'[n].page = request[n].page /\ request'[n].next = request[n].next
           /\ request'[n].more = request[n].more
           /\ \A j \in Events \ request'[n].missed : version'[j] = version[j]
    BY <1>5, <1>6
  <2>2. since' \in Nat /\ since <= since'
    BY <1>0, <1>1, Bounds DEF TimelineShape
  <2> QED
    BY <1>0, <2>1, <2>2, AnswersStay DEF TimelineInv
<1>11. Continues'
  <2> SUFFICES ASSUME NEW n \in PageRequests, CurrentRequest(n)', request'[n].stage \in {"sent", "read"}
               PROVE  Follows(request'[n], cursor', written')
    BY DEF Continues
  <2>1. Follows(request[n], cursor, written)
    BY <1>1, <1>6 DEF TimelineInv, Continues, CurrentRequest
  <2>2. PICK p, q : p = request'[n] /\ q = request[n]
    OBVIOUS
  <2>3. /\ p.stage = q.stage /\ p.older = q.older /\ p.cursor = q.cursor
        /\ p.missed = IF q.stage = "read" THEN q.missed \cup {i} ELSE q.missed
    BY <1>6, <2>2
  <2>4. Follows(p, cursor, written \cup {i})
    BY <2>1, <2>2, <2>3 DEF Follows
  <2> QED
    BY <1>1, <2>2, <2>4
<1>12. ListComplete'
  <2>1. since' \in Nat /\ since <= since' /\ written \subseteq written' /\ UNCHANGED <<cursor, hasMore, loadedFor>>
    BY <1>0, <1>1, Bounds DEF TimelineShape
  <2>2. \A j \in Events \ written' :
           /\ version'[j] = version[j]
           /\ j \in DOMAIN shownEvents /\ shownEvents[j] = version[j]
                => j \in DOMAIN shownEvents' /\ shownEvents'[j] = version[j]
    BY <1>1, <1>5
  <2> QED
    BY <1>0, <2>1, <2>2, ListStays DEF TimelineInv
<1>13. UnreadWritten'
  <2> SUFFICES ASSUME loadedFor.kinds # {}, NEW k \in DOMAIN feed' PROVE feed'[k][1] \in written'
    BY <1>1 DEF UnreadWritten
  <2>1. feed \in Seq(MessageIds \X (1..MaxVersions))
    BY <1>0 DEF TimelineShape
  <2>2. k \in DOMAIN feed \/ feed'[k] = <<i, version[i] + 1>>
    BY <1>1, <2>1
  <2>3. k \in DOMAIN feed => feed'[k] = feed[k]
    BY <1>1, <2>1
  <2> QED
    BY <1>1, <2>2, <2>3 DEF TimelineInv, UnreadWritten
<1> QED
  BY <1>9, <1>10, <1>11, <1>12, <1>13 DEF TimelineInv

LEMMA WindowKeeps ==
  ASSUME TimelineInv, WindowMoves
  PROVE  TimelineInv'
<1>0. TimelineShape
  BY DEF TimelineInv
<1>1. since < MaxSince /\ since' = since + 1
      /\ UNCHANGED <<version, writes, filter, seq, request, shownEvents, cursor, hasMore, busy, loadedFor, written,
                     listening, feed, losses>>
  BY DEF WindowMoves, timelineWalk, timelineStream
<1>2. since' \in 0..MaxSince /\ since' \in Nat /\ since <= since'
  BY <1>0, <1>1, Bounds DEF TimelineShape
<1>3. TimelineShape'
  BY <1>0, <1>1, <1>2 DEF TimelineShape
<1>4. AnswersComplete'
  BY <1>0, <1>1, <1>2, AnswersStay DEF TimelineInv
<1>5. Continues'
  BY <1>1 DEF TimelineInv, Continues, CurrentRequest
<1>6. ListComplete'
  BY <1>0, <1>1, <1>2, ListStays DEF TimelineInv
<1>7. UnreadWritten'
  BY <1>1 DEF TimelineInv, UnreadWritten
<1> QED
  BY <1>3, <1>4, <1>5, <1>6, <1>7 DEF TimelineInv

-----------------------------------------------------------------------------
\* What the page asks for.

LEMMA AskKeeps ==
  ASSUME TimelineInv, NEW f \in TimelineFilters, NEW c \in {0, cursor}, AskPage(f, c), filter' \in TimelineFilters,
         UNCHANGED <<version, since, writes, shownEvents, cursor, hasMore, loadedFor, written, listening, feed, losses>>
  PROVE  TimelineInv'
<1> DEFINE x == [NoRequest EXCEPT !.stage = "sent", !.older = c # 0, !.filter = f, !.cursor = c]
<1>0. TimelineShape
  BY DEF TimelineInv
<1>1. seq < MaxPages /\ seq' = seq + 1 /\ request' = [request EXCEPT ![seq + 1] = x] /\ busy' = TRUE
  BY DEF AskPage
<1>2. seq' \in 0..MaxPages /\ seq + 1 \in PageRequests
  BY <1>0, <1>1, Bounds DEF TimelineShape, PageRequests
<1>3. /\ x \in PageRequest /\ x.stage = "sent" /\ x.cursor = c /\ x.missed = {}
      /\ x.older <=> c # 0
  <2>1. PICK b \in BOOLEAN : b = (c # 0)
    OBVIOUS
  <2>2. c \in MessageIds \cup {0} /\ f \in AnyFilter
    BY <1>0 DEF TimelineShape, AnyFilter
  <2>3. x = [NoRequest EXCEPT !.stage = "sent", !.older = b, !.filter = f, !.cursor = c]
    BY <2>1
  <2>4. [NoRequest EXCEPT !.stage = "sent", !.older = b, !.filter = f, !.cursor = c] \in PageRequest
    BY <2>2, NoRequestType DEF PageRequest
  <2>5. x.stage = "sent" /\ x.cursor = c /\ x.missed = {} /\ x.older = b
    BY <2>3 DEF NoRequest
  <2> QED
    BY <2>1, <2>3, <2>4, <2>5
<1> HIDE DEF x
<1>4. /\ request' \in [PageRequests -> PageRequest] /\ request'[seq + 1] = x
      /\ \A k \in PageRequests \ {seq + 1} : request'[k] = request[k]
  BY <1>0, <1>1, <1>2, <1>3 DEF TimelineShape
<1>5. TimelineShape'
  BY <1>0, <1>1, <1>2, <1>4 DEF TimelineShape
<1>6. since' \in Nat /\ since <= since'
  BY <1>0, Bounds DEF TimelineShape
<1>7. AnswersComplete'
  <2>1. \A n \in PageRequests : request'[n].stage = "read" => request'[n] = request[n]
    BY <1>3, <1>4
  <2> QED
    BY <1>0, <1>6, <2>1, AnswersStay DEF TimelineInv
<1>8. Continues'
  <2>1. Follows(x, cursor, written)
    BY <1>3 DEF Follows
  <2> QED
    BY <1>1, <1>4, <2>1 DEF Continues, CurrentRequest
<1>9. ListComplete'
  BY <1>0, <1>6, ListStays DEF TimelineInv
<1>10. UnreadWritten'
  BY DEF TimelineInv, UnreadWritten
<1> QED
  BY <1>5, <1>7, <1>8, <1>9, <1>10 DEF TimelineInv

LEMMA ClearKeeps ==
  ASSUME TimelineInv, ClearList, filter' \in TimelineFilters,
         UNCHANGED <<version, since, writes, listening, feed, losses>>
  PROVE  TimelineInv'
<1>0. TimelineShape
  BY DEF TimelineInv
<1>1. /\ seq < MaxPages /\ seq' = seq + 1 /\ request' = [request EXCEPT ![seq + 1].stage = "over"]
      /\ shownEvents' = NoEvents /\ cursor' = 0 /\ hasMore' = FALSE /\ UNCHANGED busy
      /\ loadedFor' = NoRequest.filter /\ written' = {}
  BY DEF ClearList
<1>2. seq' \in 0..MaxPages /\ seq + 1 \in PageRequests
  BY <1>0, <1>1, Bounds DEF TimelineShape, PageRequests
<1>3. PICK x : x = [request[seq + 1] EXCEPT !.stage = "over"]
  OBVIOUS
<1>4. x \in PageRequest /\ x.stage = "over"
  <2>1. request[seq + 1] \in PageRequest
    BY <1>0, <1>2 DEF TimelineShape
  <2> QED
    BY <1>3, <2>1 DEF PageRequest
<1>5. /\ request' \in [PageRequests -> PageRequest] /\ request'[seq + 1] = x
      /\ \A k \in PageRequests \ {seq + 1} : request'[k] = request[k]
  BY <1>0, <1>1, <1>2, <1>3, <1>4 DEF TimelineShape
<1>6. TimelineShape'
  BY <1>0, <1>1, <1>2, <1>5, NoRequestType DEF TimelineShape, AnyFilter
<1>7. AnswersComplete'
  <2>1. \A n \in PageRequests : request'[n].stage = "read" => request'[n] = request[n]
    BY <1>4, <1>5
  <2>2. since' \in Nat /\ since <= since'
    BY <1>0, Bounds DEF TimelineShape
  <2> QED
    BY <1>0, <2>1, <2>2, AnswersStay DEF TimelineInv
<1>8. Continues'
  BY <1>1, <1>4, <1>5 DEF Continues, CurrentRequest
<1>9. loadedFor'.kinds = {}
  BY <1>1 DEF NoRequest
<1>10. ListComplete' /\ UnreadWritten'
  BY <1>9 DEF ListComplete, ListHas, Finds, UnreadWritten
<1> QED
  BY <1>6, <1>7, <1>8, <1>10 DEF TimelineInv

LEMMA FilterKeeps ==
  ASSUME TimelineInv, NEW f \in TimelineFilters, FilterChanges(f)
  PROVE  TimelineInv'
<1>1. filter' = f /\ UNCHANGED <<version, since, writes, listening, feed, losses>>
  BY DEF FilterChanges, timelineServer, timelineStream
<1> QED
  BY <1>1, AskKeeps, ClearKeeps DEF FilterChanges

LEMMA RefreshKeeps ==
  ASSUME TimelineInv, RefreshTimeline
  PROVE  TimelineInv'
<1>1. filter' = filter /\ filter \in TimelineFilters /\ UNCHANGED <<version, since, writes, listening, feed, losses>>
  BY DEF RefreshTimeline, timelineServer, timelineStream, TimelineInv, TimelineShape
<1> QED
  BY <1>1, AskKeeps, ClearKeeps DEF RefreshTimeline

LEMMA OlderKeeps ==
  ASSUME TimelineInv, OlderPage
  PROVE  TimelineInv'
<1>1. filter' = filter /\ filter \in TimelineFilters /\ UNCHANGED <<version, since, writes, listening, feed, losses>>
  BY DEF OlderPage, timelineServer, timelineStream, TimelineInv, TimelineShape
<1> QED
  BY <1>1, AskKeeps DEF OlderPage


-----------------------------------------------------------------------------
\* What the page takes.

LEMMA OverKept ==
  ASSUME TimelineShape, NEW n \in PageRequests, request' = OverNow(n)
  PROVE  /\ request' \in [PageRequests -> PageRequest] /\ request'[n].stage = "over"
         /\ \A k \in PageRequests \ {n} : request'[k] = request[k]
<1>1. PICK x : x = [NoRequest EXCEPT !.stage = "over"]
  OBVIOUS
<1>2. x \in PageRequest /\ x.stage = "over"
  BY <1>1, NoRequestType DEF PageRequest
<1>3. request' = [request EXCEPT ![n] = x]
  BY <1>1 DEF OverNow
<1> QED
  BY <1>2, <1>3 DEF TimelineShape

LEMMA Merge ==
  ASSUME NEW old \in SomePage, NEW new \in SomePage
  PROVE  /\ WithPage(old, new) \in SomePage
         /\ DOMAIN WithPage(old, new) = DOMAIN old \cup DOMAIN new
         /\ \A i \in DOMAIN new : WithPage(old, new)[i] = new[i]
         /\ \A i \in DOMAIN old \ DOMAIN new : WithPage(old, new)[i] = old[i]
<1>1. SomeEvents(old) /\ SomeEvents(new)
  BY PageType
<1>2. \A i \in DOMAIN old \cup DOMAIN new : (IF i \in DOMAIN new THEN new[i] ELSE old[i]) \in 1..MaxVersions
  BY <1>1 DEF SomeEvents
<1>3. DOMAIN old \cup DOMAIN new \in SUBSET Events
  BY <1>1 DEF SomeEvents
<1>4. WithPage(old, new) \in [DOMAIN old \cup DOMAIN new -> 1..MaxVersions]
  BY <1>2 DEF WithPage
<1> QED
  BY <1>3, <1>4 DEF SomePage, WithPage

LEMMA TakenList ==
  ASSUME TimelineInv, NEW n \in PageRequests, request[n].stage = "read", CurrentRequest(n),
         UNCHANGED <<version, since>>,
         shownEvents' = IF request[n].older THEN WithPage(shownEvents, request[n].page) ELSE request[n].page,
         cursor' = request[n].next, hasMore' = request[n].more,
         loadedFor' = IF request[n].older /\ request[n].filter # loadedFor THEN NoRequest.filter ELSE request[n].filter,
         written' = IF request[n].older THEN written ELSE request[n].missed \cup {feed[k][1] : k \in DOMAIN feed}
  PROVE  ListComplete'
<1>1. PICK q : q = request[n]
  OBVIOUS
<1>2. q \in PageRequest /\ shownEvents \in SomePage /\ cursor \in MessageIds \cup {0}
  BY <1>1 DEF TimelineInv, TimelineShape
<1>3. Follows(q, cursor, written)
  BY <1>1 DEF TimelineInv, Continues
<1>4. q.page \in SomePage /\ q.missed \subseteq written'
  BY <1>1, <1>2, <1>3, RequestFacts DEF Follows
<1> SUFFICES ASSUME NEW i \in Events, i \notin written',
                    Finds(loadedFor', i, version[i]), Instant(i) >= since, Reached(i)'
             PROVE  i \in DOMAIN shownEvents' /\ shownEvents'[i] = version[i]
  BY DEF ListComplete, ListHas
<1>5. loadedFor' = q.filter /\ (q.older => q.filter = loadedFor)
  BY <1>1 DEF Finds, NoRequest
<1>6. Within(q, i)
  BY <1>1 DEF Reached, Within
<1>7. AnswerHas(q, i, version[i], since)
  BY <1>1, <1>4 DEF TimelineInv, AnswersComplete
<1>8. CASE ~q.older
  <2>1. shownEvents' = q.page /\ Beyond(q, i)
    BY <1>1, <1>3, <1>8 DEF Follows, Beyond
  <2> QED
    BY <1>5, <1>6, <1>7, <2>1 DEF AnswerHas
<1>9. CASE q.older
  <2>1. /\ shownEvents' = WithPage(shownEvents, q.page)
        /\ q.cursor = cursor /\ cursor # 0 /\ cursor \in MessageIds /\ written' = written
    BY <1>1, <1>2, <1>3, <1>9 DEF Follows
  <2>4. PICK new \in SomePage : new = q.page
    BY <1>4
  <2>5. /\ DOMAIN shownEvents' = DOMAIN shownEvents \cup DOMAIN new
        /\ \A j \in DOMAIN new : shownEvents'[j] = new[j]
        /\ \A j \in DOMAIN shownEvents \ DOMAIN new : shownEvents'[j] = shownEvents[j]
    <3>1. shownEvents' = WithPage(shownEvents, new)
      BY <2>1, <2>4
    <3>2. /\ DOMAIN WithPage(shownEvents, new) = DOMAIN shownEvents \cup DOMAIN new
          /\ \A j \in DOMAIN new : WithPage(shownEvents, new)[j] = new[j]
          /\ \A j \in DOMAIN shownEvents \ DOMAIN new : WithPage(shownEvents, new)[j] = shownEvents[j]
      BY <1>2, Merge
    <3> QED
      BY <3>1, <3>2
  <2>2. CASE i \in DOMAIN q.page
    <3>1. shownEvents'[i] = q.page[i] /\ i \in DOMAIN shownEvents'
      BY <2>2, <2>4, <2>5
    <3> QED
      BY <1>7, <2>2, <3>1 DEF AnswerHas
  <2>3. CASE i \notin DOMAIN q.page
    <3>1. ~Beyond(q, i)
      BY <1>5, <1>6, <1>7, <2>3 DEF AnswerHas
    <3>2. Reached(i)
      <4>1. CASE i \in MessageIds
        <5>1. cursor \in Events
          BY <2>1 DEF Events
        <5>2. ~OlderThan(i, cursor)
          BY <2>1, <3>1, <4>1 DEF Beyond
        <5> QED
          BY <4>1, <5>1, <5>2, AgeOrder DEF Reached
      <4>2. CASE i \in ThreadIds
        <5>1. cursor \in Events
          BY <2>1 DEF Events
        <5>2. ~(Instant(i) < Instant(cursor)) /\ Instant(i) \in Nat /\ Instant(cursor) \in Nat
          BY <2>1, <3>1, <4>2, <5>1, EventNumbers DEF Beyond
        <5>3. Instant(i) >= Instant(cursor)
          BY <5>2
        <5> QED
          BY <4>2, <5>3 DEF Reached
      <4> QED
        BY <4>1, <4>2 DEF Events
    <3>3. i \in DOMAIN shownEvents /\ shownEvents[i] = version[i]
      BY <1>5, <1>9, <2>1, <3>2 DEF TimelineInv, ListComplete, ListHas
    <3> QED
      BY <2>3, <2>4, <2>5, <3>3
  <2> QED
    BY <2>2, <2>3
<1> QED
  BY <1>8, <1>9

LEMMA TakeKeeps ==
  ASSUME TimelineInv, NEW n \in PageRequests, TakePage(n)
  PROVE  TimelineInv'
<1>0. TimelineShape
  BY DEF TimelineInv
<1>1. request[n].stage = "read" /\ request' = OverNow(n) /\ UNCHANGED <<timelineServer, filter, seq, timelineStream, losses>>
  BY DEF TakePage
<1>2. UNCHANGED <<version, since, writes, filter, seq, listening, feed, losses>>
  BY <1>1 DEF timelineServer, timelineStream
<1>3. /\ request' \in [PageRequests -> PageRequest] /\ request'[n].stage = "over"
      /\ \A k \in PageRequests \ {n} : request'[k] = request[k]
  BY <1>0, <1>1, OverKept
<1>4. since' \in Nat /\ since <= since'
  BY <1>0, <1>2, Bounds DEF TimelineShape
<1>5. AnswersComplete'
  <2>1. \A k \in PageRequests : request'[k].stage = "read" => request'[k] = request[k]
    BY <1>3
  <2> QED
    BY <1>0, <1>2, <1>4, <2>1, AnswersStay DEF TimelineInv
<1>6. CASE ~CurrentRequest(n)
  <2>1. UNCHANGED <<shownEvents, cursor, hasMore, busy, loadedFor, written>>
    BY <1>6 DEF TakePage
  <2>2. TimelineShape'
    BY <1>0, <1>2, <1>3, <2>1 DEF TimelineShape
  <2>3. Continues'
    BY <1>2, <1>3, <2>1 DEF TimelineInv, Continues, CurrentRequest
  <2>4. ListComplete'
    BY <1>0, <1>2, <1>4, <2>1, ListStays DEF TimelineInv
  <2>5. UnreadWritten'
    BY <1>2, <2>1 DEF TimelineInv, UnreadWritten
  <2> QED
    BY <1>5, <2>2, <2>3, <2>4, <2>5 DEF TimelineInv
<1>7. CASE CurrentRequest(n)
  <2>1. PICK q : q = request[n]
    OBVIOUS
  <2>2. /\ shownEvents' = IF q.older THEN WithPage(shownEvents, q.page) ELSE q.page
        /\ cursor' = q.next /\ hasMore' = q.more /\ busy' = FALSE
        /\ loadedFor' = IF q.older /\ q.filter # loadedFor THEN NoRequest.filter ELSE q.filter
        /\ written' = IF q.older THEN written ELSE q.missed \cup {feed[k][1] : k \in DOMAIN feed}
    BY <1>7, <2>1 DEF TakePage
  <2>3. q \in PageRequest
    BY <1>0, <2>1 DEF TimelineShape
  <2>4. /\ shownEvents' \in SomePage /\ cursor' \in MessageIds \cup {0} /\ hasMore' \in BOOLEAN
        /\ loadedFor' \in AnyFilter
    BY <1>0, <2>2, <2>3, RequestFacts, Merge DEF TimelineShape, AnyFilter
  <2>5. written' \subseteq MessageIds
    <3>1. \A k \in DOMAIN feed : feed[k][1] \in MessageIds
      BY <1>0 DEF TimelineShape
    <3> QED
      BY <1>0, <2>2, <2>3, <3>1, RequestFacts DEF TimelineShape
  <2>6. TimelineShape'
    BY <1>0, <1>2, <1>3, <2>2, <2>4, <2>5 DEF TimelineShape
  <2>7. Continues'
    BY <1>2, <1>3, <1>7 DEF Continues, CurrentRequest
  <2>8. ListComplete'
    BY <1>1, <1>2, <1>7, <2>1, <2>2, TakenList
  <2>9. UnreadWritten'
    <3> SUFFICES ASSUME loadedFor'.kinds # {}, NEW k \in DOMAIN feed PROVE feed[k][1] \in written'
      BY <1>2 DEF UnreadWritten
    <3>1. CASE q.older
      <4>1. loadedFor' = loadedFor
        BY <2>2, <3>1 DEF NoRequest
      <4> QED
        BY <2>2, <3>1, <4>1 DEF TimelineInv, UnreadWritten
    <3>2. CASE ~q.older
      BY <2>2, <3>2
    <3> QED
      BY <3>1, <3>2
  <2> QED
    BY <1>5, <2>6, <2>7, <2>8, <2>9 DEF TimelineInv
<1> QED
  BY <1>6, <1>7

LEMMA FailKeeps ==
  ASSUME TimelineInv, NEW n \in PageRequests, PageFails(n)
  PROVE  TimelineInv'
<1>0. TimelineShape
  BY DEF TimelineInv
<1>1. /\ request' = OverNow(n) /\ (losses' = losses \/ (losses < MaxTimelineFaults /\ losses' = losses + 1))
      /\ busy' = IF CurrentRequest(n) THEN FALSE ELSE busy
      /\ UNCHANGED <<version, since, writes, filter, seq, shownEvents, cursor, hasMore, loadedFor, written, listening, feed>>
  BY DEF PageFails, timelineServer, timelineStream
<1>2. /\ request' \in [PageRequests -> PageRequest] /\ request'[n].stage = "over"
      /\ \A k \in PageRequests \ {n} : request'[k] = request[k]
  BY <1>0, <1>1, OverKept
<1>3. losses' \in 0..MaxTimelineFaults /\ busy' \in BOOLEAN
  <2>1. losses \in 0..MaxTimelineFaults /\ MaxTimelineFaults \in Nat /\ busy \in BOOLEAN
    BY <1>0, Bounds DEF TimelineShape
  <2>2. losses' \in 0..MaxTimelineFaults
    BY <1>1, <2>1
  <2>3. busy' = FALSE \/ busy' = busy
    BY <1>1
  <2> QED
    BY <2>1, <2>2, <2>3
<1>4. TimelineShape'
  BY <1>0, <1>1, <1>2, <1>3 DEF TimelineShape
<1>5. since' \in Nat /\ since <= since'
  BY <1>0, <1>1, Bounds DEF TimelineShape
<1>6. AnswersComplete'
  <2>1. \A k \in PageRequests : request'[k].stage = "read" => request'[k] = request[k]
    BY <1>2
  <2> QED
    BY <1>0, <1>1, <1>5, <2>1, AnswersStay DEF TimelineInv
<1>7. Continues'
  BY <1>1, <1>2 DEF TimelineInv, Continues, CurrentRequest
<1>8. ListComplete'
  BY <1>0, <1>1, <1>5, ListStays DEF TimelineInv
<1>9. UnreadWritten'
  BY <1>1 DEF TimelineInv, UnreadWritten
<1> QED
  BY <1>4, <1>6, <1>7, <1>8, <1>9 DEF TimelineInv

\* Steps that change the connection only.
LEMMA StreamKeeps ==
  ASSUME TimelineInv, UNCHANGED <<timelineServer, timelineWalk>>,
         listening' \in BOOLEAN, feed' \in {feed, <<>>}, losses' \in 0..MaxTimelineFaults
  PROVE  TimelineInv'
<1>0. TimelineShape
  BY DEF TimelineInv
<1>1. UNCHANGED <<version, since, writes, filter, seq, request, shownEvents, cursor, hasMore, busy, loadedFor, written>>
  BY DEF timelineServer, timelineWalk
<1>2. feed' \in Seq(MessageIds \X (1..MaxVersions))
  <2>1. <<>> \in Seq(MessageIds \X (1..MaxVersions))
    OBVIOUS
  <2> QED
    BY <1>0, <2>1 DEF TimelineShape
<1>3. TimelineShape'
  BY <1>0, <1>1, <1>2 DEF TimelineShape
<1>4. since' \in Nat /\ since <= since'
  BY <1>0, <1>1, Bounds DEF TimelineShape
<1>5. AnswersComplete'
  BY <1>0, <1>1, <1>4, AnswersStay DEF TimelineInv
<1>6. Continues'
  BY <1>1 DEF TimelineInv, Continues, CurrentRequest
<1>7. ListComplete'
  BY <1>0, <1>1, <1>4, ListStays DEF TimelineInv
<1>8. UnreadWritten'
  BY <1>1 DEF TimelineInv, UnreadWritten
<1> QED
  BY <1>3, <1>5, <1>6, <1>7, <1>8 DEF TimelineInv

LEMMA ListenKeeps == ASSUME TimelineInv, Listen PROVE TimelineInv'
<1>1. losses \in 0..MaxTimelineFaults
  BY DEF TimelineInv, TimelineShape
<1> QED
  BY <1>1, StreamKeeps DEF Listen

LEMMA LostKeeps == ASSUME TimelineInv, StreamLost PROVE TimelineInv'
<1>1. losses' \in 0..MaxTimelineFaults
  BY Bounds DEF StreamLost, TimelineInv, TimelineShape
<1> QED
  BY <1>1, StreamKeeps DEF StreamLost

LEMMA RowKeeps ==
  ASSUME TimelineInv, TakeRow
  PROVE  TimelineInv'
<1>0. TimelineShape /\ feed # <<>> /\ feed \in Seq(MessageIds \X (1..MaxVersions))
  BY DEF TakeRow, TimelineInv, TimelineShape
<1>1. PICK e \in MessageIds \X (1..MaxVersions) : e = Head(feed) /\ e = feed[1] /\ 1 \in DOMAIN feed
  BY <1>0
<1>2. PICK given : given = [j \in {e[1]} |-> e[2]]
  OBVIOUS
<1>3. /\ feed' = Tail(feed)
      /\ shownEvents' = IF MatchesNow(e[1], e[2]) THEN WithPage(shownEvents, given) ELSE shownEvents
      /\ UNCHANGED <<timelineServer, filter, seq, request, cursor, hasMore, busy, loadedFor, written, listening, losses>>
  BY <1>1, <1>2 DEF TakeRow, Upserted
<1>4. UNCHANGED <<version, since, writes>>
  BY <1>3 DEF timelineServer
<1>5. given \in SomePage /\ DOMAIN given = {e[1]}
  <2>1. given \in [{e[1]} -> 1..MaxVersions] /\ {e[1]} \in SUBSET Events
    BY <1>1, <1>2 DEF Events
  <2> QED
    BY <2>1 DEF SomePage
<1>6. shownEvents' \in SomePage
  BY <1>0, <1>3, <1>5, Merge DEF TimelineShape
<1>7. feed' \in Seq(MessageIds \X (1..MaxVersions))
  BY <1>0, <1>3
<1>8. TimelineShape'
  BY <1>0, <1>3, <1>4, <1>6, <1>7 DEF TimelineShape
<1>9. since' \in Nat /\ since <= since'
  BY <1>0, <1>4, Bounds DEF TimelineShape
<1>10. AnswersComplete'
  BY <1>0, <1>3, <1>4, <1>9, AnswersStay DEF TimelineInv
<1>11. Continues'
  BY <1>3 DEF TimelineInv, Continues, CurrentRequest
<1>12. ListComplete'
  <2>1. ASSUME loadedFor.kinds # {}, NEW j \in Events \ written', j \in DOMAIN shownEvents, shownEvents[j] = version[j]
        PROVE  j \in DOMAIN shownEvents' /\ shownEvents'[j] = version[j]
    <3>1. e[1] \in written
      BY <1>1, <2>1 DEF TimelineInv, UnreadWritten
    <3>2. j # e[1]
      BY <1>3, <2>1, <3>1
    <3>3. shownEvents \in SomePage
      BY <1>0 DEF TimelineShape
    <3>4. /\ DOMAIN WithPage(shownEvents, given) = DOMAIN shownEvents \cup DOMAIN given
          /\ \A k \in DOMAIN shownEvents \ DOMAIN given : WithPage(shownEvents, given)[k] = shownEvents[k]
      BY <1>5, <3>3, Merge
    <3>5. CASE shownEvents' = shownEvents
      BY <2>1, <3>5
    <3>6. CASE shownEvents' = WithPage(shownEvents, given)
      BY <1>5, <2>1, <3>2, <3>4, <3>6
    <3> QED
      BY <1>3, <3>5, <3>6
  <2> QED
    BY <1>0, <1>3, <1>4, <1>9, <2>1, ListStays DEF TimelineInv
<1>13. UnreadWritten'
  <2> SUFFICES ASSUME loadedFor.kinds # {}, NEW k \in DOMAIN Tail(feed) PROVE Tail(feed)[k][1] \in written
    BY <1>3 DEF UnreadWritten
  <2>1. k + 1 \in DOMAIN feed /\ Tail(feed)[k] = feed[k + 1]
    BY <1>0
  <2> QED
    BY <2>1 DEF TimelineInv, UnreadWritten
<1> QED
  BY <1>8, <1>10, <1>11, <1>12, <1>13 DEF TimelineInv

-----------------------------------------------------------------------------
LEMMA TimelineKept == TimelineInv /\ [TimelineNext]_timelineVars => TimelineInv'
<1> SUFFICES ASSUME TimelineInv, [TimelineNext]_timelineVars PROVE TimelineInv'
  OBVIOUS
<1>1. CASE TimelineNext
  BY <1>1, WriteKeeps, ServeKeeps, TakeKeeps, FailKeeps, FilterKeeps, WindowKeeps, RefreshKeeps, OlderKeeps,
     ListenKeeps, LostKeeps, RowKeeps DEF TimelineNext
<1>2. CASE UNCHANGED timelineVars
  <2>1. UNCHANGED <<timelineServer, timelineWalk, timelineStream, losses>>
    BY <1>2 DEF timelineVars
  <2>2. listening' \in BOOLEAN /\ feed' \in {feed, <<>>} /\ losses' \in 0..MaxTimelineFaults
    BY <2>1 DEF timelineStream, TimelineInv, TimelineShape
  <2> QED
    BY <2>1, <2>2, StreamKeeps
<1> QED
  BY <1>1, <1>2

LEMMA TimelineInitially == TimelineInit => TimelineInv
<1> SUFFICES ASSUME TimelineInit PROVE TimelineInv
  OBVIOUS
<1> DEFINE x == [NoRequest EXCEPT !.stage = "sent", !.filter = filter]
<1>1. x \in PageRequest /\ x.stage = "sent" /\ ~x.older /\ x.cursor = 0 /\ x.missed = {}
  <2>1. filter \in AnyFilter
    BY DEF TimelineInit, AnyFilter
  <2>2. x \in PageRequest
    BY <2>1, NoRequestType DEF PageRequest
  <2> QED
    BY <2>2 DEF NoRequest
<1>2. \A n \in PageRequests : request[n] = x \/ request[n] = NoRequest
  BY DEF TimelineInit
<1> HIDE DEF x
<1>3. request \in [PageRequests -> PageRequest]
  <2>1. request = [n \in PageRequests |-> request[n]]
    BY DEF TimelineInit
  <2> QED
    BY <1>1, <1>2, <2>1, NoRequestType
<1>4. version \in [Events -> 0..MaxVersions]
  <2>1. version \in [Events -> 0..1] /\ \A i \in ThreadIds : version[i] = 1
    BY DEF TimelineInit
  <2>2. MaxVersions \in Nat \ {0}
    BY TimelineAssumption DEF TimelineAssumption
  <2>3. 0..1 \subseteq 0..MaxVersions
    BY <2>2
  <2> QED
    BY <2>1, <2>3
<1>5. TimelineShape
  <2>1. /\ since \in 0..MaxSince /\ writes \in 0..MaxWrites /\ losses \in 0..MaxTimelineFaults
        /\ since = 0 /\ filter \in TimelineFilters /\ cursor = 0 /\ written = {} /\ loadedFor = NoRequest.filter
        /\ shownEvents = NoEvents /\ hasMore = FALSE /\ busy = TRUE /\ listening = FALSE /\ feed = <<>>
    BY Bounds DEF TimelineInit
  <2>2. seq \in 0..MaxPages
    BY TimelineAssumption DEF TimelineInit, TimelineAssumption
  <2>3. feed \in Seq(MessageIds \X (1..MaxVersions))
    BY <2>1
  <2> QED
    BY <1>3, <1>4, <2>1, <2>2, <2>3, NoRequestType DEF TimelineShape, AnyFilter
<1>6. AnswersComplete
  BY <1>1, <1>2 DEF AnswersComplete, NoRequest
<1>7. Continues
  <2> SUFFICES ASSUME NEW n \in PageRequests, request[n].stage \in {"sent", "read"}
               PROVE  Follows(request[n], cursor, written)
    BY DEF Continues
  <2>1. request[n] = x
    BY <1>2 DEF NoRequest
  <2>2. Follows(x, cursor, written)
    BY <1>1 DEF Follows
  <2> QED
    BY <2>1, <2>2
<1>8. loadedFor.kinds = {}
  BY DEF TimelineInit, NoRequest
<1>9. ListComplete /\ UnreadWritten
  BY <1>8 DEF ListComplete, ListHas, Finds, UnreadWritten
<1> QED
  BY <1>5, <1>6, <1>7, <1>9 DEF TimelineInv


\* Reached by any interleaving of filters, pages, live rows, writes and failures:
\* what AnswersComplete and ListComplete say.
THEOREM TimelineInvariant == TimelineSpec => []TimelineInv
BY TimelineInitially, TimelineKept, PTL DEF TimelineSpec

\* dc_events.js and timeline.js: no event is lost where two pages meet, nor to a
\* thread's slice, a live row or an answer that came late.
THEOREM TimelineIsComplete == TimelineSpec => []TimelineTrue
<1>1. TimelineInv => TimelineTrue
  <2> SUFFICES ASSUME TimelineInv PROVE TimelineTrue
    OBVIOUS
  <2>1. PagesComplete
    BY DEF TimelineInv, ListComplete, ListHas, PagesComplete
  <2> QED
    BY <2>1, TimelineTypes DEF TimelineInv, TimelineTrue
<1> QED
  BY <1>1, TimelineInvariant, PTL

-----------------------------------------------------------------------------
(***************************************************************************)
(* The panel: as long as the reload after a subscription is the last load  *)
(* and its page is the first, the rows on their way to the list, and then  *)
(* the list, lack of that page and have out of date no more than what      *)
(* events the loop has not read tell of (Mirrors); the last event of a     *)
(* message has what the archive has (LastSent), and none is read before    *)
(* the reload is over (ReadsAfter).                                        *)
(***************************************************************************)

LoadStages == {"none", "asked", "read", "naming", "done", "failed", "dropped"}
LoadRecord == [stage: LoadStages, query: SUBSET Messages, page: Int, back: Int, rows: Lists, total: Nat]
PanelShapes ==
  /\ load \in [Loads -> LoadRecord]
  /\ pageNo \in Int /\ fails \in Nat /\ drops \in Nat

\* An event for m is on the connection; the last one has what the archive has.
Waits(m) == \E k \in DOMAIN unread : unread[k][1] = m
LastSent ==
  \A k \in DOMAIN unread :
    (\A j \in DOMAIN unread : j > k => unread[j][1] # unread[k][1]) => unread[k][2] = archive[unread[k][1]]

Loading == {"asked", "read", "naming"}
LoadsSound ==
  /\ 1 <= generation
  /\ \A g \in Loads : g > generation => load[g] = NoLoad
  /\ load[generation].stage \in Loading \cup {"done", "failed"}
  /\ load[generation].stage \in Loading => load[generation].query = query
  /\ ~moved => load[generation].page = pageNo
  /\ \A g \in Loads : Cardinality(DOMAIN load[g].rows) <= PerPage /\ DOMAIN load[g].rows \subseteq load[g].query
LoopSound ==
  /\ reload <= generation /\ refreshing <= generation
  /\ ~subscribed => unread = <<>>
\* The loop reads events when its reload is over.
ReadsAfter == stream = "live" /\ reload = generation => load[generation].stage \in {"done", "failed"}
\* Every load turns by one page at most.
Near(p) == 2 - generation <= p /\ p <= generation
PageNear == Near(pageNo) /\ \A g \in Loads : g <= generation => Near(load[g].page) /\ Near(load[g].back)

\* Of the first page, rows lacks and has out of date what is waiting, at most.
Mirrors(rows) ==
  /\ \A m \in DOMAIN rows : m \in query /\ (rows[m] = archive[m] \/ Waits(m))
  /\ \A m \in query \ DOMAIN rows :
       archive[m] > 0 /\ ~Waits(m) => Cardinality(DOMAIN rows) = PerPage /\ \A n \in DOMAIN rows : n > m
Closing ==
  subscribed /\ stream \in {"reloading", "live"} /\ reload = generation /\ pageNo = 1 /\ ~moved
Answer(rows) ==
  \/ load[generation].stage \in {"read", "naming"} /\ rows = load[generation].rows
  \/ load[generation].stage = "done" /\ rows = list
ReloadRows == Closing => \A rows \in Lists : Answer(rows) => Mirrors(rows)

PanelShape == PanelTypeOK /\ PanelShapes
PanelInv == PanelShape /\ LastSent /\ LoadsSound /\ LoopSound /\ ReadsAfter /\ PageNear /\ ListOfQuery /\ ReloadRows

-----------------------------------------------------------------------------
(* Pages of rows. *)

LEMMA PanelNumbers ==
  /\ IsFiniteSet(Messages) /\ Messages \subseteq Nat
  /\ PerPage \in Nat /\ PerPage > 0 /\ MaxVersion \in Nat /\ MaxVersion > 0 /\ MaxLoads \in Nat /\ MaxLoads > 0
BY PanelAssumption DEF PanelAssumption

\* The messages of F from m on.
FromOn(F, m) == {n \in F : n >= m}

LEMMA Ranks ==
  ASSUME NEW F \in SUBSET Messages, NEW m \in F
  PROVE  /\ IsFiniteSet(F) /\ Cardinality(F) \in Nat /\ IsFiniteSet(FromOn(F, m))
         /\ Cardinality(FromOn(F, m)) \in Nat /\ 1 <= Cardinality(FromOn(F, m))
         /\ Cardinality(FromOn(F, m)) <= Cardinality(F)
         /\ \A n \in F : n > m => Cardinality(FromOn(F, n)) < Cardinality(FromOn(F, m))
<1>1. IsFiniteSet(F)
  BY PanelNumbers, FS_Subset
<1>2. \A n \in F : n \in Nat /\ FromOn(F, n) \in SUBSET F /\ n \in FromOn(F, n)
  BY PanelNumbers DEF FromOn
<1>3. \A n \in F : IsFiniteSet(FromOn(F, n)) /\ Cardinality(FromOn(F, n)) <= Cardinality(F)
  BY <1>1, <1>2, FS_Subset
<1>4. Cardinality(F) \in Nat /\ \A n \in F : Cardinality(FromOn(F, n)) \in Nat
  BY <1>1, <1>3, FS_CardinalityType
<1>5. Cardinality(FromOn(F, m)) # 0
  BY <1>2, <1>3, FS_EmptySet
<1>6. ASSUME NEW n \in F, n > m PROVE Cardinality(FromOn(F, n)) < Cardinality(FromOn(F, m))
  <2>1. FromOn(F, n) \in SUBSET FromOn(F, m) /\ m \notin FromOn(F, n)
    BY <1>2, <1>6 DEF FromOn
  <2>2. /\ Cardinality(FromOn(F, n)) <= Cardinality(FromOn(F, m))
        /\ Cardinality(FromOn(F, m)) = Cardinality(FromOn(F, n)) => FromOn(F, m) = FromOn(F, n)
    BY <1>3, <2>1, FS_Subset
  <2> QED
    BY <1>2, <1>4, <2>1, <2>2
<1> QED
  BY <1>1, <1>3, <1>4, <1>5, <1>6

LEMMA RankOf == ASSUME NEW m, NEW rows PROVE Newer(m, rows) = Cardinality(FromOn(DOMAIN rows, m))
BY DEF Newer, FromOn

LEMMA RanksDiffer ==
  ASSUME NEW F \in SUBSET Messages, NEW m \in F, NEW n \in F, m # n
  PROVE  Cardinality(FromOn(F, m)) # Cardinality(FromOn(F, n))
<1>1. m \in Nat /\ n \in Nat
  BY PanelNumbers
<1>2. m > n \/ n > m
  BY <1>1
<1>3. /\ m > n => Cardinality(FromOn(F, m)) < Cardinality(FromOn(F, n))
      /\ n > m => Cardinality(FromOn(F, n)) < Cardinality(FromOn(F, m))
  BY Ranks
<1>4. Cardinality(FromOn(F, m)) \in Nat /\ Cardinality(FromOn(F, n)) \in Nat
  BY Ranks
<1> QED
  BY <1>2, <1>3, <1>4

\* A page is never longer than it may be.
LEMMA PageOf ==
  ASSUME NEW rows \in Lists, NEW k \in Nat, NEW n \in Nat
  PROVE  /\ Slice(rows, k, n) \in Lists
         /\ DOMAIN Slice(rows, k, n) \subseteq DOMAIN rows /\ DOMAIN rows \in SUBSET Messages
         /\ \A m \in DOMAIN Slice(rows, k, n) : Slice(rows, k, n)[m] = rows[m]
         /\ IsFiniteSet(DOMAIN Slice(rows, k, n)) /\ Cardinality(DOMAIN Slice(rows, k, n)) \in Nat
         /\ Cardinality(DOMAIN Slice(rows, k, n)) <= n
<1>1. PICK F \in SUBSET Messages : rows \in [F -> 1..MaxVersion]
  BY DEF Lists
<1>2. DOMAIN rows = F
  BY <1>1
<1> DEFINE S == {x \in F : Newer(x, rows) \in (k + 1)..(k + n)}
<1>3. Slice(rows, k, n) = [m \in S |-> rows[m]]
  BY <1>2 DEF Slice
<1>4. S \in SUBSET F /\ S \in SUBSET Messages /\ [m \in S |-> rows[m]] \in [S -> 1..MaxVersion]
  BY <1>1
<1>5. Slice(rows, k, n) \in Lists
  BY <1>3, <1>4 DEF Lists
<1>6. IsFiniteSet(S) /\ Cardinality(S) \in Nat
  BY <1>4, PanelNumbers, FS_Subset, FS_CardinalityType
<1>7. Cardinality(S) <= n
  <2> SUFFICES ASSUME n < Cardinality(S) PROVE FALSE
    BY <1>6
  <2> DEFINE f == [x \in S |-> Newer(x, rows)]
  <2>1. f \in [S -> (k + 1)..(k + n)]
    OBVIOUS
  <2>2. IsFiniteSet((k + 1)..(k + n)) /\ Cardinality((k + 1)..(k + n)) = n
    <3>1. k + 1 \in Int /\ k + n \in Int /\ (k + 1 > k + n <=> n = 0) /\ (k + n) - (k + 1) + 1 = n
      OBVIOUS
    <3> QED
      BY <3>1, FS_Interval
  <2> HIDE DEF f
  <2>3. \E x, y \in S : x # y /\ f[x] = f[y]
    BY <1>6, <2>1, <2>2, FS_PigeonHole
  <2>4. PICK x \in S, y \in S : x # y /\ f[x] = f[y]
    BY <2>3
  <2>5. x \in F /\ y \in F /\ Newer(x, rows) = Newer(y, rows)
    BY <2>4 DEF f
  <2> QED
    BY <1>2, <2>4, <2>5, RanksDiffer, RankOf
<1> HIDE DEF S
<1> QED
  BY <1>2, <1>3, <1>4, <1>5, <1>6, <1>7

\* The first page: all rows if there are no more, else as many as it may have,
\* and newer than the others.
LEMMA FirstPage ==
  ASSUME NEW rows \in Lists, NEW n \in Nat
  PROVE  /\ Cardinality(DOMAIN rows) <= n => Slice(rows, 0, n) = rows
         /\ \A m \in DOMAIN rows \ DOMAIN Slice(rows, 0, n) :
              Cardinality(DOMAIN Slice(rows, 0, n)) = n /\ \A x \in DOMAIN Slice(rows, 0, n) : x > m
<1>1. PICK F \in SUBSET Messages : rows \in [F -> 1..MaxVersion]
  BY DEF Lists
<1>2. DOMAIN rows = F
  BY <1>1
<1> DEFINE T == {x \in F : Cardinality(FromOn(F, x)) <= n}
           R == {Cardinality(FromOn(F, x)) : x \in F \ T}
<1>3. Slice(rows, 0, n) = [m \in T |-> rows[m]]
  <2>1. \A x \in F : Newer(x, rows) \in (0 + 1)..(0 + n) <=> Cardinality(FromOn(F, x)) <= n
    <3> SUFFICES ASSUME NEW x \in F PROVE Newer(x, rows) \in (0 + 1)..(0 + n) <=> Cardinality(FromOn(F, x)) <= n
      OBVIOUS
    <3>1. Newer(x, rows) = Cardinality(FromOn(F, x)) /\ Cardinality(FromOn(F, x)) \in Nat /\ 1 <= Cardinality(FromOn(F, x))
      BY <1>2, Ranks, RankOf
    <3> QED
      BY <3>1
  <2>2. {x \in DOMAIN rows : Newer(x, rows) \in (0 + 1)..(0 + n)} = T
    BY <1>2, <2>1
  <2> QED
    BY <2>2 DEF Slice
<1>4. DOMAIN Slice(rows, 0, n) = T /\ T \in SUBSET F
  BY <1>3
<1>5. IsFiniteSet(T) /\ Cardinality(T) \in Nat /\ Cardinality(T) <= n
  BY <1>4, PageOf
<1>6. ASSUME Cardinality(F) <= n PROVE Slice(rows, 0, n) = rows
  <2>1. \A x \in F : Cardinality(FromOn(F, x)) <= Cardinality(F) /\ Cardinality(FromOn(F, x)) \in Nat /\ Cardinality(F) \in Nat
    BY Ranks
  <2>2. T = F
    BY <1>6, <2>1
  <2>3. rows = [m \in F |-> rows[m]]
    BY <1>1
  <2> QED
    BY <1>3, <2>2, <2>3
<1>7. ASSUME NEW m \in F \ T, NEW x \in T PROVE x > m
  <2>1. x \in F /\ m \in F /\ x \in Nat /\ m \in Nat /\ x # m
    BY <1>7, PanelNumbers
  <2>2. m > x => Cardinality(FromOn(F, m)) < Cardinality(FromOn(F, x))
    BY <2>1, Ranks
  <2>3. Cardinality(FromOn(F, m)) \in Nat /\ Cardinality(FromOn(F, x)) \in Nat
    BY <2>1, Ranks
  <2>4. Cardinality(FromOn(F, x)) <= n /\ ~(Cardinality(FromOn(F, m)) <= n)
    BY <1>7
  <2> QED
    BY <2>1, <2>2, <2>3, <2>4
<1>8. ASSUME NEW m \in F \ T PROVE Cardinality(T) = n
  <2>1. R \in SUBSET Nat /\ R # {}
    BY <1>8, Ranks
  <2>2. PICK r \in R : \A y \in R : r <= y
    BY <2>1, Least
  <2>3. PICK z \in F \ T : r = Cardinality(FromOn(F, z))
    BY <2>2
  <2>4. FromOn(F, z) \subseteq T \cup {z}
    <3> SUFFICES ASSUME NEW j \in F, j >= z, j # z, j \notin T PROVE FALSE
      BY DEF FromOn
    <3>1. j > z
      BY <2>3, PanelNumbers
    <3>2. Cardinality(FromOn(F, j)) < Cardinality(FromOn(F, z)) /\ Cardinality(FromOn(F, j)) \in R
      BY <2>3, <3>1, Ranks
    <3>3. Cardinality(FromOn(F, j)) \in Nat /\ Cardinality(FromOn(F, z)) \in Nat
      BY <2>3, Ranks
    <3> QED
      BY <2>2, <2>3, <3>2, <3>3
  <2>5. IsFiniteSet(T \cup {z}) /\ Cardinality(T \cup {z}) = Cardinality(T) + 1
    BY <1>5, <2>3, FS_AddElement
  <2>6. Cardinality(FromOn(F, z)) <= Cardinality(T \cup {z})
    BY <2>4, <2>5, FS_Subset
  <2>7. Cardinality(FromOn(F, z)) \in Nat /\ ~(Cardinality(FromOn(F, z)) <= n)
    BY <2>3, Ranks
  <2> QED
    BY <1>5, <2>5, <2>6, <2>7
<1> HIDE DEF T, R
<1> QED
  BY <1>2, <1>4, <1>6, <1>7, <1>8

\* A list that has, of rows, none but the newest is the first page.
LEMMA IsFirstPage ==
  ASSUME NEW rows \in Lists, NEW top \in Lists, NEW n \in Nat,
         DOMAIN top \subseteq DOMAIN rows, \A m \in DOMAIN top : top[m] = rows[m],
         Cardinality(DOMAIN top) <= n,
         \A m \in DOMAIN rows \ DOMAIN top : Cardinality(DOMAIN top) = n /\ \A x \in DOMAIN top : x > m
  PROVE  top = Slice(rows, 0, n)
<1> DEFINE F == DOMAIN rows
           L == DOMAIN top
           T == DOMAIN Slice(rows, 0, n)
<1>1. /\ F \in SUBSET Messages /\ T \subseteq F /\ L \subseteq F /\ IsFiniteSet(T) /\ Cardinality(T) \in Nat /\ Cardinality(T) <= n
      /\ \A m \in T : Slice(rows, 0, n)[m] = rows[m]
  <2>1. 0 \in Nat
    OBVIOUS
  <2>2. /\ F \in SUBSET Messages /\ T \subseteq F /\ IsFiniteSet(T) /\ Cardinality(T) \in Nat /\ Cardinality(T) <= n
        /\ \A m \in T : Slice(rows, 0, n)[m] = rows[m]
    BY <2>1, PageOf
  <2> QED
    BY <2>2
<1>2. \A m \in F \ T : Cardinality(T) = n /\ \A x \in T : x > m
  BY FirstPage
<1>3. IsFiniteSet(L) /\ Cardinality(L) \in Nat
  BY <1>1, PanelNumbers, FS_Subset, FS_CardinalityType
<1>4. ASSUME NEW m \in L, m \notin T PROVE FALSE
  <2>1. Cardinality(T) = n /\ \A x \in T : x > m
    BY <1>1, <1>2, <1>4
  <2>2. T \subseteq L
    <3> SUFFICES ASSUME NEW x \in T, x \notin L PROVE FALSE
      OBVIOUS
    <3>1. x > m /\ m > x
      BY <1>1, <1>4, <2>1
    <3>2. x \in Nat /\ m \in Nat
      BY <1>1, <1>4, PanelNumbers
    <3> QED
      BY <3>1, <3>2
  <2>3. /\ Cardinality(T) <= Cardinality(L)
        /\ Cardinality(L) = Cardinality(T) => L = T
    BY <1>3, <2>2, FS_Subset
  <2> QED
    BY <1>3, <1>4, <2>1, <2>3
<1>5. ASSUME NEW m \in T, m \notin L PROVE FALSE
  <2>1. Cardinality(L) = n /\ L \subseteq T
    BY <1>1, <1>4, <1>5
  <2>2. /\ Cardinality(L) <= Cardinality(T)
        /\ Cardinality(T) = Cardinality(L) => T = L
    BY <1>1, <2>1, FS_Subset
  <2> QED
    BY <1>1, <1>3, <1>5, <2>1, <2>2
<1>6. L = T
  BY <1>4, <1>5
<1>7. PICK p \in Lists, q \in Lists : p = top /\ q = Slice(rows, 0, n)
  BY PageOf
<1>8. \A m \in DOMAIN p : p[m] = q[m]
  BY <1>1, <1>6, <1>7
<1>9. DOMAIN p = DOMAIN q
  BY <1>6, <1>7
<1>10. p = q
  <2>1. PICK S \in SUBSET Messages : p \in [S -> 1..MaxVersion]
    BY DEF Lists
  <2>2. PICK U \in SUBSET Messages : q \in [U -> 1..MaxVersion]
    BY DEF Lists
  <2>3. DOMAIN p = S /\ DOMAIN q = U
    BY <2>1, <2>2
  <2>4. S = U
    BY <1>9, <2>3
  <2>5. \A m \in S : p[m] = q[m]
    BY <1>8, <2>3
  <2> QED
    BY <2>1, <2>2, <2>4, <2>5
<1> QED
  BY <1>7, <1>10


-----------------------------------------------------------------------------
(* Loads. *)

LEMMA LoadFields ==
  ASSUME PanelShape, NEW g \in Loads
  PROVE  /\ load[g] \in LoadRecord /\ load[g].stage \in LoadStages /\ load[g].query \in SUBSET Messages
         /\ load[g].page \in Int /\ load[g].back \in Int /\ load[g].rows \in Lists /\ load[g].total \in Nat
<1>1. load[g] \in LoadRecord
  BY DEF PanelShape, PanelShapes
<1> QED
  BY <1>1 DEF LoadRecord

LEMMA EmptyRows == Empty \in Lists /\ DOMAIN Empty = {} /\ IsFiniteSet(DOMAIN Empty) /\ Cardinality(DOMAIN Empty) = 0
<1>1. Empty \in [{} -> 1..MaxVersion] /\ {} \in SUBSET Messages /\ DOMAIN Empty = {}
  BY DEF Empty
<1> QED
  BY <1>1, FS_EmptySet DEF Lists

LEMMA NoLoadFields ==
  /\ NoLoad \in LoadRecord /\ NoLoad.stage = "none" /\ NoLoad.query = {} /\ NoLoad.page = 1 /\ NoLoad.back = 1
  /\ NoLoad.rows = Empty
BY EmptyRows DEF NoLoad, LoadRecord, LoadStages

LEMMA OverFields ==
  ASSUME NEW l \in LoadRecord, NEW how \in {"done", "failed", "dropped"}
  PROVE  /\ Over(l, how) \in LoadRecord /\ Over(l, how).stage = how /\ Over(l, how).page = l.page
         /\ Over(l, how).back = 1 /\ Over(l, how).rows = Empty
<1>1. l.page \in Int
  BY DEF LoadRecord
<1>2. PICK n \in LoadRecord : n = NoLoad /\ n.back = 1 /\ n.rows = Empty
  BY NoLoadFields
<1>3. Over(l, how) = [n EXCEPT !.stage = how, !.page = l.page] /\ how \in LoadStages
  BY <1>2 DEF Over, LoadStages
<1>4. /\ [n EXCEPT !.stage = how, !.page = l.page] \in LoadRecord
      /\ [n EXCEPT !.stage = how, !.page = l.page].stage = how
      /\ [n EXCEPT !.stage = how, !.page = l.page].page = l.page
      /\ [n EXCEPT !.stage = how, !.page = l.page].back = n.back
      /\ [n EXCEPT !.stage = how, !.page = l.page].rows = n.rows
  BY <1>1, <1>3 DEF LoadRecord
<1> QED
  BY <1>2, <1>3, <1>4

LEMMA LoopNumbers ==
  ASSUME PanelInv
  PROVE  /\ generation \in Loads /\ generation \in Nat /\ 1 <= generation /\ generation <= MaxLoads
         /\ reload \in Nat /\ refreshing \in Nat /\ MaxLoads \in Nat /\ pageNo \in Int
         /\ \A g \in Loads : g \in Nat /\ (load[g].stage # "none" => g <= generation)
<1>1. generation \in 0..MaxLoads /\ {refreshing, reload} \subseteq 0..MaxLoads /\ 1 <= generation /\ pageNo \in Int
  BY DEF PanelInv, PanelShape, PanelTypeOK, PanelShapes, LoadsSound
<1>2. MaxLoads \in Nat
  BY PanelNumbers
<1>3. \A g \in Loads : g \in Nat
  BY DEF Loads
<1>4. \A g \in Loads : g > generation => load[g].stage = "none"
  BY NoLoadFields DEF PanelInv, LoadsSound
<1>5. generation \in Nat /\ generation <= MaxLoads /\ reload \in Nat /\ refreshing \in Nat /\ generation \in Loads
  BY <1>1, <1>2 DEF Loads
<1> QED
  BY <1>1, <1>2, <1>3, <1>4, <1>5

LEMMA OneLoad ==
  ASSUME PanelShape, NEW g \in Loads, NEW x \in LoadRecord, load' = [load EXCEPT ![g] = x]
  PROVE  load' \in [Loads -> LoadRecord] /\ load'[g] = x /\ \A h \in Loads \ {g} : load'[h] = load[h]
BY DEF PanelShape, PanelShapes

\* Where one load goes on.
LEMMA LoadMoves ==
  ASSUME PanelInv, NEW g \in Loads, g <= generation, NEW x \in LoadRecord, load' = [load EXCEPT ![g] = x],
         x.page = load[g].page, x.back \in {load[g].back, 1},
         Cardinality(DOMAIN x.rows) <= PerPage, DOMAIN x.rows \subseteq x.query,
         g = generation => /\ x.stage \in Loading \cup {"done", "failed"}
                           /\ x.stage \in Loading => x.query = load[g].query /\ load[g].stage \in Loading,
         UNCHANGED <<query, generation>>, pageNo' \in Int, Near(pageNo'), ~moved' => ~moved /\ pageNo' = pageNo
  PROVE  load' \in [Loads -> LoadRecord] /\ LoadsSound' /\ PageNear'
<1>1. load' \in [Loads -> LoadRecord] /\ load'[g] = x /\ \A h \in Loads \ {g} : load'[h] = load[h]
  BY OneLoad DEF PanelInv
<1>2. LoadsSound /\ generation' = generation /\ query' = query /\ generation \in Loads
  BY LoopNumbers DEF PanelInv
<1>3. LoadsSound'
  <2>1. \A h \in Loads : h > generation => load'[h] = NoLoad
    <3> SUFFICES ASSUME NEW h \in Loads, h > generation PROVE load'[h] = NoLoad
      OBVIOUS
    <3>1. h # g
      BY LoopNumbers
    <3> QED
      BY <1>1, <1>2, <3>1 DEF LoadsSound
  <2>2. /\ load'[generation].stage \in Loading \cup {"done", "failed"}
        /\ load'[generation].stage \in Loading => load'[generation].query = query
    BY <1>1, <1>2 DEF LoadsSound
  <2>3. ~moved' => load'[generation].page = pageNo'
    BY <1>1, <1>2 DEF LoadsSound
  <2>4. \A h \in Loads : Cardinality(DOMAIN load'[h].rows) <= PerPage /\ DOMAIN load'[h].rows \subseteq load'[h].query
    BY <1>1, <1>2 DEF LoadsSound
  <2>5. 1 <= generation
    BY LoopNumbers
  <2> QED
    BY <1>2, <2>1, <2>2, <2>3, <2>4, <2>5 DEF LoadsSound
<1>4. PageNear'
  <2>1. Near(1) /\ Near(load[g].page) /\ Near(load[g].back)
    BY LoopNumbers DEF PanelInv, PageNear, Near
  <2>2. Near(x.page) /\ Near(x.back)
    BY <2>1
  <2>3. \A h \in Loads : h <= generation => Near(load'[h].page) /\ Near(load'[h].back)
    BY <1>1, <2>2 DEF PanelInv, PageNear
  <2> QED
    BY <1>2, <2>3 DEF PageNear, Near
<1> QED
  BY <1>1, <1>3, <1>4

\* Where a load begins.
LEMMA BeginKeeps ==
  ASSUME PanelInv, NEW q \in Queries, NEW p \in Int, NEW b \in Int, Begin(q, p, b),
         p = 1 \/ (pageNo - 1 <= p /\ p <= pageNo + 1), b \in {1, pageNo},
         UNCHANGED <<archive, pages, canGo, list, subscribed, unread, fails, drops>>,
         refreshing' \in {refreshing, generation + 1},
         UNCHANGED <<stream, reload>> \/ (stream' = "reloading" /\ reload' = generation + 1)
  PROVE  PanelInv'
<1> DEFINE x == [NoLoad EXCEPT !.stage = "asked", !.query = q, !.page = p, !.back = b]
<1>0. PanelTypeOK /\ PanelShapes /\ LoadsSound /\ LoopSound /\ LastSent
  BY DEF PanelInv, PanelShape
<1>1. /\ generation < MaxLoads /\ generation' = generation + 1 /\ load' = [load EXCEPT ![generation + 1] = x]
      /\ query' = q /\ pageNo' = p /\ moved' = FALSE
  BY DEF Begin
<1>2. generation \in Nat /\ 1 <= generation /\ MaxLoads \in Nat /\ pageNo \in Int /\ generation + 1 \in Loads
      /\ reload \in Nat /\ refreshing \in Nat /\ generation \in Loads
  BY <1>1, LoopNumbers DEF Loads
<1>3. x \in LoadRecord /\ x.stage = "asked" /\ x.query = q /\ x.page = p /\ x.back = b /\ x.rows = Empty
  <2>1. q \in SUBSET Messages
    BY PanelAssumption DEF PanelAssumption
  <2> QED
    BY <2>1, EmptyRows DEF NoLoad, LoadRecord, LoadStages
<1> HIDE DEF x
<1>4. load' \in [Loads -> LoadRecord] /\ load'[generation + 1] = x /\ \A h \in Loads \ {generation + 1} : load'[h] = load[h]
  BY <1>0, <1>1, <1>2, <1>3, OneLoad DEF PanelShape
<1>5. p = 1 \/ (Near(pageNo) /\ pageNo - 1 <= p /\ p <= pageNo + 1)
  BY DEF PanelInv, PageNear
<1>6. 2 - (generation + 1) <= p /\ p <= generation + 1 /\ 2 - (generation + 1) <= b /\ b <= generation + 1
  <2>1. Near(pageNo)
    BY DEF PanelInv, PageNear
  <2> QED
    BY <1>2, <1>5, <2>1 DEF Near
<1>7. PanelTypeOK'
  <2>1. pageNo' \in (1 - MaxLoads)..(1 + MaxLoads) /\ generation' \in 0..MaxLoads
    BY <1>1, <1>2, <1>6
  <2>2. {refreshing', reload'} \subseteq 0..MaxLoads
    BY <1>0, <1>1, <1>2 DEF PanelTypeOK
  <2>3. \A g \in Loads : load'[g].stage \in LoadStages
    BY <1>4 DEF LoadRecord
  <2>4. /\ archive' \in [Messages -> 0..MaxVersion] /\ query' \in Queries /\ moved' \in BOOLEAN /\ pages' \in Nat
        /\ canGo' \subseteq {-1, 1} /\ list' \in Lists /\ Cardinality(DOMAIN list') <= PerPage
        /\ stream' \in {"off", "connecting", "reloading", "live"} /\ subscribed' \in BOOLEAN
        /\ unread' \in Seq(Messages \X (1..MaxVersion))
    BY <1>0, <1>1 DEF PanelTypeOK
  <2> QED
    BY <2>1, <2>2, <2>3, <2>4 DEF PanelTypeOK, LoadStages
<1>8. PanelShapes'
  BY <1>0, <1>1, <1>4 DEF PanelShapes
<1>9. LoadsSound'
  <2>1. \A h \in Loads : h > generation' => load'[h] = NoLoad
    <3> SUFFICES ASSUME NEW h \in Loads, h > generation + 1 PROVE load'[h] = NoLoad
      BY <1>1
    <3>1. h # generation + 1 /\ h > generation
      BY <1>2, LoopNumbers
    <3> QED
      BY <1>0, <1>4, <3>1 DEF LoadsSound
  <2>2. Cardinality(DOMAIN x.rows) <= PerPage /\ DOMAIN x.rows \subseteq x.query
    BY <1>3, EmptyRows, PanelNumbers
  <2>3. \A h \in Loads : Cardinality(DOMAIN load'[h].rows) <= PerPage /\ DOMAIN load'[h].rows \subseteq load'[h].query
    BY <1>0, <1>4, <2>2 DEF LoadsSound
  <2>4. 1 <= generation'
    BY <1>1, <1>2
  <2> QED
    BY <1>1, <1>3, <1>4, <2>1, <2>3, <2>4 DEF LoadsSound, Loading
<1>10. LoopSound'
  BY <1>0, <1>1, <1>2 DEF LoopSound
<1>11. PageNear'
  <2>1. ASSUME NEW h \in Loads, h <= generation + 1
        PROVE  /\ 2 - (generation + 1) <= load'[h].page /\ load'[h].page <= generation + 1
               /\ 2 - (generation + 1) <= load'[h].back /\ load'[h].back <= generation + 1
    <3>1. CASE h = generation + 1
      BY <1>3, <1>4, <1>6, <3>1
    <3>2. CASE h # generation + 1
      <4>1. h <= generation /\ load'[h] = load[h]
        BY <1>2, <1>4, <2>1, <3>2, LoopNumbers
      <4>2. /\ 2 - generation <= load[h].page /\ load[h].page <= generation
            /\ 2 - generation <= load[h].back /\ load[h].back <= generation
        BY <4>1 DEF PanelInv, PageNear, Near
      <4>3. load[h].page \in Int /\ load[h].back \in Int
        BY LoadFields DEF PanelInv
      <4> QED
        BY <1>2, <4>1, <4>2, <4>3
    <3> QED
      BY <3>1, <3>2
  <2> QED
    BY <1>1, <1>6, <2>1 DEF PageNear, Near
<1>12. load'[generation'].stage = "asked"
  BY <1>1, <1>3, <1>4
<1>13. ListOfQuery' /\ ReloadRows'
  BY <1>12 DEF ListOfQuery, LatestDone, ReloadRows, Answer
<1>14. LastSent'
  BY <1>0 DEF LastSent
<1>15. ReadsAfter'
  BY <1>0, <1>1, <1>2 DEF ReadsAfter, LoopSound
<1> QED
  BY <1>15, <1>7, <1>8, <1>9, <1>10, <1>11, <1>13, <1>14 DEF PanelInv, PanelShape


-----------------------------------------------------------------------------
(* The steps. *)

\* A load that goes on leaves the archive, the loop and the question as they are.
LEMMA MirrorsKept ==
  ASSUME NEW rows, Mirrors(rows), UNCHANGED <<archive, query, unread>>
  PROVE  Mirrors(rows)'
BY DEF Mirrors, Waits

LEMMA ServerReadsKeeps ==
  ASSUME PanelInv, NEW g \in Loads, ServerReads(g)
  PROVE  PanelInv'
<1>0. PanelTypeOK /\ PanelShapes /\ LoadsSound /\ LoopSound /\ LastSent /\ PageNear /\ PanelShape
  BY DEF PanelInv, PanelShape
<1>1. PICK l \in LoadRecord : l = load[g] /\ l.stage = "asked" /\ l.page \in Int /\ l.query \in SUBSET Messages
                              /\ l.back \in Int
  BY <1>0, LoadFields DEF ServerReads
<1> DEFINE p == IF l.page < 1 THEN 1 ELSE l.page
           all == Rows(l.query)
           some == Slice(all, (p - 1) * PerPage, PerPage)
           x == [l EXCEPT !.stage = "read", !.rows = some, !.total = Cardinality(DOMAIN all)]
<1>2. /\ load' = [load EXCEPT ![g] = x]
      /\ UNCHANGED <<archive, asked, pages, canGo, generation, list, refreshing, live, fails, drops>>
  BY <1>1 DEF ServerReads, PageAnswer
<1>3. UNCHANGED <<query, pageNo, moved, stream, reload, subscribed, unread>>
  BY <1>2 DEF asked, live
<1>4. /\ all \in Lists /\ DOMAIN all = {m \in l.query : archive[m] > 0} /\ \A m \in DOMAIN all : all[m] = archive[m]
      /\ Cardinality(DOMAIN all) \in Nat
  <2> DEFINE D == {m \in l.query : archive[m] > 0}
  <2>1. D \in SUBSET Messages /\ \A m \in D : archive[m] \in 1..MaxVersion
    <3>1. archive \in [Messages -> 0..MaxVersion] /\ MaxVersion \in Nat
      BY <1>0, PanelNumbers DEF PanelTypeOK
    <3>2. \A m \in D : m \in Messages /\ archive[m] > 0 /\ archive[m] \in 0..MaxVersion
      BY <1>1, <3>1
    <3> QED
      BY <3>1, <3>2
  <2>2. all = [m \in D |-> archive[m]]
    BY DEF Rows
  <2>3. all \in [D -> 1..MaxVersion] /\ DOMAIN all = D
    BY <2>1, <2>2
  <2>4. IsFiniteSet(D) /\ Cardinality(D) \in Nat
    BY <2>1, PanelNumbers, FS_Subset, FS_CardinalityType
  <2> HIDE DEF D, all
  <2> QED
    BY <2>1, <2>2, <2>3, <2>4 DEF D, Lists
<1> HIDE DEF all
<1>5. p \in Int /\ 1 <= p /\ (p - 1) * PerPage \in Nat /\ PerPage \in Nat
  <2>1. p \in Int /\ 1 <= p /\ p - 1 \in Nat /\ PerPage \in Nat
    BY <1>1, PanelNumbers
  <2>2. \A a, b \in Nat : a * b \in Nat
    OBVIOUS
  <2> HIDE DEF p
  <2> QED
    BY <2>1, <2>2
<1>6. /\ some \in Lists /\ DOMAIN some \subseteq DOMAIN all /\ Cardinality(DOMAIN some) <= PerPage
      /\ \A m \in DOMAIN some : some[m] = all[m]
  BY <1>4, <1>5, PageOf
<1>7. p = 1 => some = Slice(all, 0, PerPage)
  BY PanelNumbers
<1> HIDE DEF some, p
<1>8. /\ x \in LoadRecord /\ x.stage = "read" /\ x.query = l.query /\ x.page = l.page /\ x.back = l.back /\ x.rows = some
  BY <1>1, <1>4, <1>6 DEF LoadRecord, LoadStages
<1> HIDE DEF x
<1>9. load' \in [Loads -> LoadRecord] /\ LoadsSound' /\ PageNear'
  <2>1. g <= generation /\ pageNo \in Int
    BY <1>1, LoopNumbers
  <2>2. DOMAIN x.rows \subseteq x.query
    BY <1>4, <1>6, <1>8
  <2>3. Near(pageNo')
    BY <1>0, <1>3 DEF PageNear
  <2> QED
    BY <1>1, <1>2, <1>3, <1>6, <1>8, <2>1, <2>2, <2>3, LoadMoves DEF Loading
<1>10. load'[g] = x /\ \A h \in Loads \ {g} : load'[h] = load[h]
  BY <1>0, <1>2, <1>8, OneLoad
<1>11. PanelTypeOK' /\ PanelShapes' /\ LoopSound' /\ LastSent'
  <2>1. \A h \in Loads : load'[h].stage \in LoadStages
    BY <1>9 DEF LoadRecord
  <2>2. PanelTypeOK'
    BY <1>0, <1>2, <1>3, <2>1 DEF PanelTypeOK, LoadStages
  <2> QED
    BY <1>0, <1>2, <1>3, <1>9, <2>2 DEF PanelShapes, LoopSound, LastSent
<1>12. ListOfQuery'
  BY <1>2, <1>3, <1>8, <1>10, LoopNumbers DEF PanelInv, ListOfQuery, LatestDone
<1>13. ReadsAfter'
  BY <1>1, <1>2, <1>3, <1>10, LoopNumbers DEF ReadsAfter, PanelInv
<1>14. ReloadRows'
  <2> SUFFICES ASSUME Closing, NEW rows \in Lists, Answer(rows)' PROVE Mirrors(rows)'
    BY <1>2, <1>3 DEF ReloadRows, Closing
  <2>1. CASE g # generation
    <3>1. Answer(rows)
      BY <1>2, <1>10, <2>1, LoopNumbers DEF Answer
    <3> QED
      BY <1>2, <1>3, <3>1, MirrorsKept DEF PanelInv, ReloadRows
  <2>2. CASE g = generation
    <3>1. rows = some
      BY <1>2, <1>8, <1>10, <2>2 DEF Answer
    <3>2. l.query = query /\ l.page = 1
      BY <1>0, <1>1, <2>2 DEF LoadsSound, Closing, Loading
    <3>3. rows = Slice(all, 0, PerPage)
      BY <1>7, <3>1, <3>2 DEF p
    <3>4. \A m \in DOMAIN rows : m \in query /\ rows[m] = archive[m]
      BY <1>4, <1>6, <3>1, <3>2
    <3>5. \A m \in DOMAIN all \ DOMAIN rows : Cardinality(DOMAIN rows) = PerPage /\ \A n \in DOMAIN rows : n > m
      BY <1>4, <3>3, FirstPage, PanelNumbers
    <3>6. Mirrors(rows)
      BY <1>4, <3>2, <3>4, <3>5 DEF Mirrors
    <3> QED
      BY <1>2, <1>3, <3>6, MirrorsKept
  <2> QED
    BY <2>1, <2>2
<1> QED
  BY <1>9, <1>11, <1>12, <1>13, <1>14 DEF PanelInv, PanelShape


\* Where a load ends or waits for the names, and no list is put on show.
LEMMA LoadWaits ==
  ASSUME PanelInv, NEW g \in Loads, load[g].stage # "none", NEW x \in LoadRecord, load' = [load EXCEPT ![g] = x],
         x.page = load[g].page, x.back \in {load[g].back, 1},
         \/ g # generation /\ x.rows = Empty
         \/ g = generation /\ x.stage = "failed" /\ x.rows = Empty
         \/ g = generation /\ load[g].stage = "read" /\ x.stage = "naming" /\ x.query = load[g].query /\ x.rows = load[g].rows,
         UNCHANGED <<archive, query, pages, canGo, generation, list, refreshing, live, drops>>, fails' \in Nat,
         Near(pageNo'), pageNo' \in Int, ~moved' => ~moved /\ pageNo' = pageNo, moved' \in BOOLEAN
  PROVE  PanelInv'
<1>0. PanelTypeOK /\ PanelShapes /\ LoadsSound /\ LoopSound /\ LastSent /\ PageNear /\ PanelShape
  BY DEF PanelInv, PanelShape
<1>1. UNCHANGED <<stream, reload, subscribed, unread>>
  BY DEF live
<1>2. g <= generation /\ generation \in Nat /\ 1 <= generation /\ generation <= MaxLoads /\ MaxLoads \in Nat
  BY LoopNumbers
<1>3. Cardinality(DOMAIN x.rows) <= PerPage /\ DOMAIN x.rows \subseteq x.query
  BY <1>0, EmptyRows, PanelNumbers DEF LoadsSound
<1>4. load' \in [Loads -> LoadRecord] /\ LoadsSound' /\ PageNear'
  BY <1>2, <1>3, LoadMoves DEF Loading
<1>5. load'[g] = x /\ \A h \in Loads \ {g} : load'[h] = load[h]
  BY <1>0, OneLoad
<1>6. PanelTypeOK' /\ PanelShapes' /\ LoopSound' /\ LastSent'
  <2>1. \A h \in Loads : load'[h].stage \in LoadStages
    BY <1>4 DEF LoadRecord
  <2>2. pageNo' \in (1 - MaxLoads)..(1 + MaxLoads)
    BY <1>2 DEF Near
  <2>3. PanelTypeOK'
    BY <1>0, <1>1, <2>1, <2>2 DEF PanelTypeOK, LoadStages
  <2> QED
    BY <1>0, <1>1, <1>4, <2>3 DEF PanelShapes, LoopSound, LastSent
<1>7. ListOfQuery'
  BY <1>5, LoopNumbers DEF PanelInv, ListOfQuery, LatestDone
<1>8. ReloadRows'
  <2> SUFFICES ASSUME Closing', NEW rows \in Lists, Answer(rows)' PROVE Mirrors(rows)'
    BY DEF ReloadRows
  <2>1. Closing
    BY <1>1 DEF Closing
  <2>2. Answer(rows)
    BY <1>5, LoopNumbers DEF Answer
  <2> QED
    BY <1>1, <2>1, <2>2, MirrorsKept DEF PanelInv, ReloadRows
<1>9. ReadsAfter'
  BY <1>1, <1>5, LoopNumbers DEF ReadsAfter, PanelInv
<1> QED
  BY <1>4, <1>6, <1>7, <1>8, <1>9 DEF PanelInv, PanelShape

LEMMA RecordsArriveKeeps ==
  ASSUME PanelInv, NEW g \in Loads, RecordsArrive(g)
  PROVE  PanelInv'
<1>1. PICK l \in LoadRecord : l = load[g] /\ l.stage = "read"
  BY LoadFields DEF PanelInv, RecordsArrive
<1>2. UNCHANGED <<archive, query, pageNo, moved, pages, canGo, generation, list, refreshing, live, fails, drops>>
  BY DEF RecordsArrive, asked
<1>3. pageNo \in Int /\ Near(pageNo') /\ fails \in Nat /\ moved \in BOOLEAN
  BY <1>2 DEF PanelInv, PanelShape, PanelShapes, PanelTypeOK, PageNear, Near
<1>4. CASE Current(g)
  <2>1. load' = [load EXCEPT ![g] = [l EXCEPT !.stage = "naming"]]
    BY <1>1, <1>4 DEF RecordsArrive
  <2>2. PICK x \in LoadRecord : /\ x = [l EXCEPT !.stage = "naming"] /\ x.stage = "naming" /\ x.query = l.query
                                /\ x.page = l.page /\ x.back = l.back /\ x.rows = l.rows
    <3>1. [l EXCEPT !.stage = "naming"] \in LoadRecord
      BY <1>1 DEF LoadRecord, LoadStages
    <3> QED
      BY <1>1, <3>1 DEF LoadRecord
  <2> QED
    BY <1>1, <1>2, <1>3, <1>4, <2>1, <2>2, LoadWaits DEF Current
<1>5. CASE ~Current(g)
  <2>1. PICK x \in LoadRecord : x = Over(l, "dropped") /\ x.page = l.page /\ x.back = 1 /\ x.rows = Empty
    BY <1>1, OverFields
  <2>2. load' = [load EXCEPT ![g] = x]
    BY <1>1, <1>5, <2>1 DEF RecordsArrive
  <2> QED
    BY <1>1, <1>2, <1>3, <1>5, <2>1, <2>2, LoadWaits DEF Current
<1> QED
  BY <1>4, <1>5

LEMMA LoadFailsKeeps ==
  ASSUME PanelInv, NEW g \in Loads, LoadFails(g)
  PROVE  PanelInv'
<1>1. PICK l \in LoadRecord : l = load[g] /\ l.stage # "none" /\ l.back \in Int
  BY LoadFields DEF PanelInv, LoadFails
<1>2. PICK x \in LoadRecord : x = Over(l, "failed") /\ x.stage = "failed" /\ x.page = l.page /\ x.back = 1 /\ x.rows = Empty
  BY <1>1, OverFields
<1>3. /\ load' = [load EXCEPT ![g] = x]
      /\ pageNo' = IF l.back # l.page THEN l.back ELSE pageNo
      /\ moved' = (moved \/ pageNo' # pageNo) /\ fails' = fails + 1
      /\ UNCHANGED <<archive, query, pages, canGo, generation, list, refreshing, live, drops>>
  BY <1>1, <1>2 DEF LoadFails
<1>4. pageNo \in Int /\ fails' \in Nat /\ Near(pageNo) /\ Near(l.back) /\ moved' \in BOOLEAN
  <2>1. g <= generation
    BY <1>1, LoopNumbers
  <2> QED
    BY <1>1, <1>3, <2>1 DEF PanelInv, PanelShape, PanelShapes, PanelTypeOK, PageNear
<1>5. Near(pageNo')
  BY <1>3, <1>4
<1>6. pageNo' \in Int /\ (~moved' => ~moved /\ pageNo' = pageNo)
  BY <1>1, <1>3, <1>4
<1> QED
  BY <1>1, <1>2, <1>3, <1>4, <1>5, <1>6, LoadWaits

LEMMA Divided == ASSUME NEW a \in Nat, NEW b \in Nat, b > 0 PROVE a \div b \in Nat
OBVIOUS

LEMMA NamesArriveKeeps ==
  ASSUME PanelInv, NEW g \in Loads, NamesArrive(g)
  PROVE  PanelInv'
<1>0. PanelTypeOK /\ PanelShapes /\ LoadsSound /\ LoopSound /\ LastSent /\ PageNear /\ PanelShape
  BY DEF PanelInv, PanelShape
<1>1. PICK l \in LoadRecord : l = load[g] /\ l.stage = "naming" /\ l.total \in Nat /\ l.rows \in Lists
  BY LoadFields DEF PanelInv, NamesArrive
<1>2. UNCHANGED <<archive, query, pageNo, moved, generation, refreshing, live, stream, reload, subscribed, unread, fails, drops>>
  BY DEF NamesArrive, asked, live
<1>3. pageNo \in Int /\ Near(pageNo') /\ fails \in Nat /\ moved \in BOOLEAN
  BY <1>0, <1>2 DEF PanelShapes, PanelTypeOK, PageNear, Near
<1>4. CASE ~Current(g)
  <2>1. PICK x \in LoadRecord : x = Over(l, "dropped") /\ x.page = l.page /\ x.back = 1 /\ x.rows = Empty
    BY <1>1, OverFields
  <2>2. load' = [load EXCEPT ![g] = x] /\ UNCHANGED <<list, pages, canGo>>
    BY <1>1, <1>4, <2>1 DEF NamesArrive
  <2> QED
    BY <1>1, <1>2, <1>3, <1>4, <2>1, <2>2, LoadWaits DEF Current
<1>5. CASE Current(g)
  <2>1. PICK x \in LoadRecord : x = Over(l, "done") /\ x.stage = "done" /\ x.page = l.page /\ x.back = 1 /\ x.rows = Empty
    BY <1>1, OverFields
  <2>2. /\ load' = [load EXCEPT ![g] = x] /\ list' = l.rows /\ g = generation
        /\ pages' = 1 + (IF l.total = 0 THEN 0 ELSE (l.total - 1) \div PerPage)
        /\ canGo' = (IF pageNo <= 1 THEN {} ELSE {-1}) \cup (IF pageNo >= pages' THEN {} ELSE {1})
    BY <1>1, <1>5, <2>1 DEF NamesArrive, Current
  <2>3. pages' \in Nat
    <3>1. CASE l.total = 0
      BY <2>2, <3>1
    <3>2. CASE l.total # 0
      <4>1. l.total - 1 \in Nat
        BY <1>1, <3>2
      <4>2. (l.total - 1) \div PerPage \in Nat
        BY <4>1, PanelNumbers, Divided
      <4> QED
        BY <2>2, <3>2, <4>2
    <3> QED
      BY <3>1, <3>2
  <2>4. canGo' \subseteq {-1, 1}
    BY <2>2
  <2>5. Cardinality(DOMAIN l.rows) <= PerPage /\ DOMAIN l.rows \subseteq query
    BY <1>0, <1>1, <2>2 DEF LoadsSound, Loading
  <2>6. load' \in [Loads -> LoadRecord] /\ LoadsSound' /\ PageNear'
    <3>1. g <= generation /\ Cardinality(DOMAIN x.rows) <= PerPage /\ DOMAIN x.rows \subseteq x.query
      BY <1>1, <2>1, LoopNumbers, EmptyRows, PanelNumbers
    <3> QED
      BY <1>1, <1>2, <1>3, <2>1, <2>2, <3>1, LoadMoves DEF Loading
  <2>7. load'[g] = x /\ \A h \in Loads \ {g} : load'[h] = load[h]
    BY <1>0, <2>2, OneLoad
  <2>8. PanelTypeOK' /\ PanelShapes' /\ LoopSound' /\ LastSent'
    <3>1. \A h \in Loads : load'[h].stage \in LoadStages
      BY <2>6 DEF LoadRecord
    <3>2. PanelTypeOK'
      BY <1>0, <1>1, <1>2, <2>2, <2>3, <2>4, <2>5, <3>1 DEF PanelTypeOK, LoadStages
    <3> QED
      BY <1>0, <1>2, <2>6, <3>2 DEF PanelShapes, LoopSound, LastSent
  <2>9. ListOfQuery'
    BY <1>2, <2>2, <2>5 DEF ListOfQuery
  <2>10. ReloadRows'
    <3> SUFFICES ASSUME Closing', NEW rows \in Lists, Answer(rows)' PROVE Mirrors(rows)'
      BY DEF ReloadRows
    <3>1. Closing /\ Answer(rows)
      BY <1>1, <1>2, <2>1, <2>2, <2>7 DEF Answer, Closing
    <3> QED
      BY <1>2, <3>1, MirrorsKept DEF PanelInv, ReloadRows
  <2>11. ReadsAfter'
    BY <1>2, <2>1, <2>2, <2>7 DEF ReadsAfter
  <2> QED
    BY <2>6, <2>8, <2>9, <2>10, <2>11 DEF PanelInv, PanelShape
<1> QED
  BY <1>4, <1>5


\* A write of a record reaches the list as an event.
LEMMA ArchiveMessageKeeps ==
  ASSUME PanelInv, NEW m \in Messages, ArchiveMessage(m)
  PROVE  PanelInv'
<1>0. PanelTypeOK /\ PanelShapes /\ LoadsSound /\ LoopSound /\ LastSent /\ PageNear /\ PanelShape
  BY DEF PanelInv, PanelShape
<1>1. /\ archive[m] < MaxVersion /\ archive' = [archive EXCEPT ![m] = @ + 1]
      /\ unread' = IF subscribed THEN Append(unread, <<m, archive[m] + 1>>) ELSE unread
      /\ UNCHANGED <<query, pageNo, moved, pages, canGo, generation, load, list, refreshing, stream, reload,
                     subscribed, fails, drops>>
  BY DEF ArchiveMessage, view, asked
<1>2. /\ archive \in [Messages -> 0..MaxVersion] /\ unread \in Seq(Messages \X (1..MaxVersion)) /\ MaxVersion \in Nat
      /\ archive[m] \in Nat /\ archive[m] + 1 \in 1..MaxVersion
  <2>1. archive \in [Messages -> 0..MaxVersion] /\ unread \in Seq(Messages \X (1..MaxVersion)) /\ MaxVersion \in Nat
    BY <1>0, PanelNumbers DEF PanelTypeOK
  <2>2. archive[m] \in 0..MaxVersion
    BY <2>1
  <2> QED
    BY <1>1, <2>1, <2>2
<1>3. archive' \in [Messages -> 0..MaxVersion] /\ archive'[m] = archive[m] + 1 /\ \A n \in Messages \ {m} : archive'[n] = archive[n]
  BY <1>1, <1>2
<1>4. subscribed => /\ unread' \in Seq(Messages \X (1..MaxVersion)) /\ Len(unread') = Len(unread) + 1
                    /\ unread'[Len(unread) + 1] = <<m, archive[m] + 1>>
                    /\ \A k \in DOMAIN unread : unread'[k] = unread[k] /\ k \in DOMAIN unread'
                    /\ \A k \in DOMAIN unread' : k \in DOMAIN unread \/ k = Len(unread) + 1
                    /\ Len(unread) + 1 \in DOMAIN unread'
  <2> SUFFICES ASSUME subscribed
               PROVE  /\ unread' \in Seq(Messages \X (1..MaxVersion)) /\ Len(unread') = Len(unread) + 1
                      /\ unread'[Len(unread) + 1] = <<m, archive[m] + 1>>
                      /\ \A k \in DOMAIN unread : unread'[k] = unread[k] /\ k \in DOMAIN unread'
                      /\ \A k \in DOMAIN unread' : k \in DOMAIN unread \/ k = Len(unread) + 1
                      /\ Len(unread) + 1 \in DOMAIN unread'
    OBVIOUS
  <2>1. PICK e \in Messages \X (1..MaxVersion) : e = <<m, archive[m] + 1>>
    BY <1>2
  <2>2. unread' = Append(unread, e)
    BY <1>1, <2>1
  <2> QED
    BY <1>2, <2>1, <2>2
<1>5. ~subscribed => unread = <<>> /\ unread' = <<>>
  BY <1>0, <1>1 DEF LoopSound
<1>6. LastSent'
  <2> SUFFICES ASSUME NEW k \in DOMAIN unread', \A j \in DOMAIN unread' : j > k => unread'[j][1] # unread'[k][1]
               PROVE  unread'[k][2] = archive'[unread'[k][1]]
    BY DEF LastSent
  <2>1. subscribed
    BY <1>5
  <2>2. CASE k = Len(unread) + 1
    BY <1>3, <1>4, <2>1, <2>2
  <2>3. CASE k # Len(unread) + 1
    <3>1. k \in DOMAIN unread /\ unread'[k] = unread[k] /\ Len(unread) + 1 > k
      BY <1>2, <1>4, <2>1, <2>3
    <3>2. unread[k][1] # m
      BY <1>4, <2>1, <3>1
    <3>3. \A j \in DOMAIN unread : j > k => unread[j][1] # unread[k][1]
      BY <1>4, <2>1, <3>1
    <3>4. unread[k][2] = archive[unread[k][1]]
      BY <1>0, <3>1, <3>3 DEF LastSent
    <3>5. unread[k][1] \in Messages
      BY <1>2, <3>1
    <3> QED
      BY <1>3, <3>1, <3>2, <3>4, <3>5
  <2> QED
    BY <2>2, <2>3
<1>7. unread' \in Seq(Messages \X (1..MaxVersion))
  BY <1>1, <1>2, <1>4
<1>8. PanelTypeOK' /\ PanelShapes' /\ LoadsSound' /\ LoopSound' /\ PageNear' /\ ReadsAfter'
  <2>1. PanelTypeOK'
    BY <1>0, <1>1, <1>3, <1>7 DEF PanelTypeOK
  <2>2. PanelShapes' /\ LoadsSound' /\ LoopSound' /\ PageNear' /\ ReadsAfter'
    BY <1>0, <1>1, <1>5 DEF PanelInv, PanelShapes, LoadsSound, LoopSound, PageNear, Near, ReadsAfter
  <2> QED
    BY <2>1, <2>2
<1>9. ListOfQuery'
  BY <1>1 DEF PanelInv, ListOfQuery, LatestDone
<1>10. ReloadRows'
  <2> SUFFICES ASSUME Closing, NEW rows \in Lists, Answer(rows) PROVE Mirrors(rows)'
    BY <1>1 DEF ReloadRows, Closing, Answer
  <2>1. Mirrors(rows) /\ subscribed
    BY DEF PanelInv, ReloadRows, Closing
  <2>2. Waits(m)' /\ \A n \in Messages : Waits(n) => Waits(n)'
    BY <1>4, <2>1 DEF Waits
  <2>3. query \subseteq Messages
    BY <1>0, PanelAssumption DEF PanelTypeOK, PanelAssumption
  <2>4. \A n \in query : n # m => archive'[n] = archive[n]
    BY <1>3, <2>3
  <2>5. \A n \in DOMAIN rows : n \in query /\ (rows[n] = archive'[n] \/ Waits(n)')
    BY <2>1, <2>2, <2>3, <2>4 DEF Mirrors
  <2>6. \A n \in query \ DOMAIN rows :
          archive'[n] > 0 /\ ~Waits(n)' => Cardinality(DOMAIN rows) = PerPage /\ \A k \in DOMAIN rows : k > n
    BY <2>1, <2>2, <2>3, <2>4 DEF Mirrors
  <2> QED
    BY <1>1, <2>5, <2>6 DEF Mirrors
<1> QED
  BY <1>6, <1>8, <1>9, <1>10 DEF PanelInv, PanelShape

LEMMA EventRead ==
  ASSUME PanelInv, NEW m \in Messages, NEW v \in 1..MaxVersion, unread # <<>>, Head(unread) = <<m, v>>,
         unread' = Tail(unread), UNCHANGED archive
  PROVE  /\ unread' \in Seq(Messages \X (1..MaxVersion)) /\ LastSent'
         /\ \A n \in Messages \ {m} : Waits(n) => Waits(n)'
         /\ ~Waits(m)' => v = archive[m]
<1>1. unread \in Seq(Messages \X (1..MaxVersion))
  BY DEF PanelInv, PanelShape, PanelTypeOK
<1>2. /\ unread[1] = <<m, v>> /\ unread[1][1] = m /\ unread[1][2] = v /\ 1 \in DOMAIN unread
      /\ unread' \in Seq(Messages \X (1..MaxVersion))
      /\ \A k \in DOMAIN unread' : k \in Nat /\ k + 1 \in DOMAIN unread /\ unread'[k] = unread[k + 1]
      /\ \A k \in DOMAIN unread : k \in Nat /\ (k # 1 => (k > 1 /\ k - 1 \in DOMAIN unread' /\ unread'[k - 1] = unread[k]))
  <2>1. /\ unread[1] = <<m, v>> /\ 1 \in DOMAIN unread /\ unread' \in Seq(Messages \X (1..MaxVersion))
        /\ Len(unread') = Len(unread) - 1 /\ Len(unread) \in Nat /\ Len(unread') \in Nat
        /\ \A k \in 1..Len(unread') : unread'[k] = unread[k + 1]
    BY <1>1
  <2>2. DOMAIN unread = 1..Len(unread) /\ DOMAIN unread' = 1..Len(unread')
    BY <1>1, <2>1
  <2>3. \A k \in DOMAIN unread' : k \in Nat /\ k + 1 \in DOMAIN unread /\ unread'[k] = unread[k + 1]
    BY <2>1, <2>2
  <2>4. ASSUME NEW k \in DOMAIN unread, k # 1
        PROVE  k > 1 /\ k - 1 \in DOMAIN unread' /\ unread'[k - 1] = unread[k]
    <3>1. k \in Nat /\ k > 1 /\ k - 1 \in 1..Len(unread') /\ (k - 1) + 1 = k
      BY <2>1, <2>2, <2>4
    <3> QED
      BY <2>1, <2>2, <3>1
  <2>5. \A k \in DOMAIN unread : k \in Nat
    BY <2>2
  <2> QED
    BY <2>1, <2>3, <2>4, <2>5
<1>3. LastSent'
  <2> SUFFICES ASSUME NEW k \in DOMAIN unread', \A j \in DOMAIN unread' : j > k => unread'[j][1] # unread'[k][1]
               PROVE  unread'[k][2] = archive'[unread'[k][1]]
    BY DEF LastSent
  <2>1. k \in Nat /\ k + 1 \in DOMAIN unread /\ unread'[k] = unread[k + 1]
    BY <1>2
  <2>2. \A j \in DOMAIN unread : j > k + 1 => unread[j][1] # unread[k + 1][1]
    <3> SUFFICES ASSUME NEW j \in DOMAIN unread, j > k + 1 PROVE unread[j][1] # unread[k + 1][1]
      OBVIOUS
    <3>1. j \in Nat /\ j # 1 /\ j - 1 > k
      BY <1>2, <2>1
    <3>2. PICK i \in DOMAIN unread' : i = j - 1 /\ unread'[i] = unread[j]
      BY <1>2, <3>1
    <3>3. unread'[i][1] # unread'[k][1]
      BY <3>1, <3>2
    <3> QED
      BY <2>1, <3>2, <3>3
  <2> QED
    BY <2>1, <2>2 DEF PanelInv, LastSent
<1>4. ASSUME NEW n \in Messages, n # m, Waits(n) PROVE Waits(n)'
  BY <1>2, <1>4 DEF Waits
<1>5. ASSUME ~Waits(m)' PROVE v = archive[m]
  <2>1. \A j \in DOMAIN unread' : unread'[j][1] # m
    BY <1>5 DEF Waits
  <2>2. \A j \in DOMAIN unread : j > 1 => unread[j][1] # unread[1][1]
    BY <1>2, <2>1
  <2> QED
    BY <1>2, <2>2 DEF PanelInv, LastSent
<1> QED
  BY <1>2, <1>3, <1>4, <1>5


LEMMA UpsertRows ==
  ASSUME PanelInv, NEW m \in Messages, NEW v \in 1..MaxVersion
  PROVE  /\ Upsert(m, v) \in Lists /\ list \in Lists
         /\ m \notin query => /\ DOMAIN Upsert(m, v) = DOMAIN list \ {m}
                              /\ \A n \in DOMAIN list \ {m} : Upsert(m, v)[n] = list[n]
         /\ m \in query => /\ DOMAIN Upsert(m, v) \subseteq DOMAIN list \cup {m}
                           /\ pageNo = 1 => DOMAIN Upsert(m, v) = DOMAIN list \cup {m}
                           /\ m \in DOMAIN Upsert(m, v) => Upsert(m, v)[m] = v
                           /\ \A n \in DOMAIN list \ {m} : Upsert(m, v)[n] = list[n]
<1>1. list \in Lists
  BY DEF PanelInv, PanelShape, PanelTypeOK
<1>2. PICK L \in SUBSET Messages : list \in [L -> 1..MaxVersion]
  BY <1>1 DEF Lists
<1>3. DOMAIN list = L
  BY <1>2
<1>4. CASE m \notin query
  <2>1. Upsert(m, v) = [n \in L \ {m} |-> list[n]]
    BY <1>3, <1>4 DEF Upsert
  <2>2. [n \in L \ {m} |-> list[n]] \in [L \ {m} -> 1..MaxVersion] /\ L \ {m} \in SUBSET Messages
    BY <1>2
  <2>3. Upsert(m, v) \in Lists
    BY <2>1, <2>2 DEF Lists
  <2> QED
    BY <1>1, <1>3, <1>4, <2>1, <2>3
<1>5. CASE m \in query
  <2> DEFINE D == L \cup (IF pageNo = 1 THEN {m} ELSE {})
  <2>1. Upsert(m, v) = [n \in D |-> IF n = m THEN v ELSE list[n]]
    BY <1>3, <1>5 DEF Upsert
  <2>2. D \in SUBSET Messages /\ L \subseteq D /\ D \subseteq L \cup {m} /\ (pageNo = 1 => D = L \cup {m})
    BY <1>2
  <2>3. [n \in D |-> IF n = m THEN v ELSE list[n]] \in [D -> 1..MaxVersion]
    BY <1>2
  <2> HIDE DEF D
  <2>4. Upsert(m, v) \in Lists
    BY <2>1, <2>2, <2>3 DEF Lists
  <2> QED
    BY <1>1, <1>3, <1>5, <2>1, <2>2, <2>4
<1> QED
  BY <1>4, <1>5

\* What is read brings the list up to date, and keeps it the newest.
LEMMA ReadEventKeeps ==
  ASSUME PanelInv, ReadEvent
  PROVE  PanelInv'
<1>0. PanelTypeOK /\ PanelShapes /\ LoadsSound /\ LoopSound /\ LastSent /\ PageNear /\ PanelShape
  BY DEF PanelInv, PanelShape
<1>1. PICK m \in Messages, v \in 1..MaxVersion : Head(unread) = <<m, v>>
  <2>1. unread \in Seq(Messages \X (1..MaxVersion)) /\ unread # <<>>
    BY <1>0 DEF PanelTypeOK, ReadEvent
  <2>2. Head(unread) \in Messages \X (1..MaxVersion)
    BY <2>1
  <2> QED
    BY <2>2
<1>2. /\ stream = "live" /\ unread # <<>> /\ unread' = Tail(unread)
      /\ list' = Slice(Upsert(m, v), 0, PerPage)
      /\ UNCHANGED <<archive, query, pageNo, moved, pages, canGo, generation, load, refreshing, stream, reload,
                     subscribed, fails, drops>>
  BY <1>1 DEF ReadEvent, asked
<1>3. /\ unread' \in Seq(Messages \X (1..MaxVersion)) /\ LastSent'
      /\ \A n \in Messages \ {m} : Waits(n) => Waits(n)'
      /\ ~Waits(m)' => v = archive[m]
  BY <1>1, <1>2, EventRead
<1> DEFINE up == Upsert(m, v)
<1>4. /\ up \in Lists /\ list \in Lists
      /\ m \notin query => DOMAIN up = DOMAIN list \ {m} /\ \A n \in DOMAIN list \ {m} : up[n] = list[n]
      /\ m \in query => /\ DOMAIN up \subseteq DOMAIN list \cup {m}
                        /\ pageNo = 1 => DOMAIN up = DOMAIN list \cup {m}
                        /\ m \in DOMAIN up => up[m] = v
                        /\ \A n \in DOMAIN list \ {m} : up[n] = list[n]
  BY UpsertRows
<1> HIDE DEF up
<1>5. PerPage \in Nat /\ 0 \in Nat /\ list' = Slice(up, 0, PerPage)
  BY <1>2, PanelNumbers DEF up
<1>6. /\ list' \in Lists /\ DOMAIN list' \subseteq DOMAIN up /\ DOMAIN up \in SUBSET Messages
      /\ \A n \in DOMAIN list' : list'[n] = up[n]
      /\ Cardinality(DOMAIN list') <= PerPage /\ Cardinality(DOMAIN list') \in Nat
  BY <1>4, <1>5, PageOf
<1>7. /\ Cardinality(DOMAIN up) <= PerPage => list' = up
      /\ \A n \in DOMAIN up \ DOMAIN list' : Cardinality(DOMAIN list') = PerPage /\ \A x \in DOMAIN list' : x > n
  BY <1>4, <1>5, FirstPage
<1>8. PanelTypeOK' /\ PanelShapes' /\ LoadsSound' /\ LoopSound' /\ PageNear' /\ ReadsAfter'
  <2>1. PanelTypeOK'
    BY <1>0, <1>2, <1>3, <1>6 DEF PanelTypeOK
  <2>2. ~subscribed' => unread' = <<>>
    BY <1>0, <1>2 DEF LoopSound
  <2>3. PanelShapes' /\ LoadsSound' /\ LoopSound' /\ PageNear' /\ ReadsAfter'
    BY <1>0, <1>2, <2>2 DEF PanelInv, PanelShapes, LoadsSound, LoopSound, PageNear, Near, ReadsAfter
  <2> QED
    BY <2>1, <2>3
<1>9. ListOfQuery'
  <2> SUFFICES ASSUME LatestDone PROVE DOMAIN list' \subseteq query
    BY <1>2 DEF ListOfQuery, LatestDone
  <2>1. DOMAIN list \subseteq query
    BY DEF PanelInv, ListOfQuery
  <2> QED
    BY <1>4, <1>6, <2>1
<1>10. ReloadRows'
  <2> SUFFICES ASSUME Closing, NEW rows \in Lists, Answer(rows)' PROVE Mirrors(rows)'
    BY <1>2 DEF ReloadRows, Closing
  <2>1. load[generation].stage = "done" /\ rows = list'
    BY <1>2 DEF PanelInv, ReadsAfter, Closing, Answer
  <2>2. Mirrors(list) /\ pageNo = 1 /\ query \subseteq Messages
    <3>1. Answer(list) /\ list \in Lists
      BY <1>4, <2>1 DEF Answer
    <3> QED
      BY <1>0, <3>1, PanelAssumption DEF PanelInv, ReloadRows, Closing, PanelTypeOK, PanelAssumption
  <2>3. \A n \in DOMAIN list : n \in query /\ (list[n] = archive[n] \/ Waits(n))
    BY <2>2 DEF Mirrors
  <2>4. \A n \in query \ DOMAIN list :
          archive[n] > 0 /\ ~Waits(n) => Cardinality(DOMAIN list) = PerPage /\ \A x \in DOMAIN list : x > n
    BY <2>2 DEF Mirrors
  <2>5. Cardinality(DOMAIN list) <= PerPage /\ DOMAIN list \in SUBSET Messages /\ IsFiniteSet(DOMAIN list)
    <3>1. DOMAIN list \in SUBSET Messages
      BY <2>2, <2>3
    <3> QED
      BY <1>0, <3>1, PanelNumbers, FS_Subset DEF PanelTypeOK
  <2>6. ASSUME NEW n \in DOMAIN rows PROVE n \in query /\ (rows[n] = archive[n] \/ Waits(n)')
    <3>1. n \in DOMAIN up /\ rows[n] = up[n] /\ n \in Messages
      BY <1>6, <2>1, <2>6
    <3>2. CASE n = m
      BY <1>3, <1>4, <3>1, <3>2
    <3>3. CASE n # m
      <4>1. n \in DOMAIN list /\ up[n] = list[n]
        BY <1>4, <3>1, <3>3
      <4> QED
        BY <1>3, <2>3, <3>1, <3>3, <4>1
    <3> QED
      BY <3>2, <3>3
  <2>7. ASSUME NEW n \in query \ DOMAIN rows, archive[n] > 0, ~Waits(n)'
        PROVE  Cardinality(DOMAIN rows) = PerPage /\ \A x \in DOMAIN rows : x > n
    <3>1. n # m => ~Waits(n)
      BY <1>3, <2>2, <2>7
    <3>2. CASE m \notin query
      <4>1. DOMAIN up = DOMAIN list
        BY <1>4, <2>3, <3>2
      <4>2. DOMAIN rows = DOMAIN list
        BY <1>7, <2>1, <2>5, <4>1
      <4> QED
        BY <2>4, <2>7, <3>1, <3>2, <4>2
    <3>3. CASE n \in DOMAIN up
      BY <1>7, <2>1, <2>7, <3>3
    <3>4. CASE m \in query /\ n \notin DOMAIN up
      <4>1. DOMAIN up = DOMAIN list \cup {m} /\ n # m /\ n \notin DOMAIN list
        BY <1>4, <2>2, <3>4
      <4>2. Cardinality(DOMAIN list) = PerPage /\ \A x \in DOMAIN list : x > n
        BY <2>4, <2>7, <3>1, <4>1
      <4>3. CASE m \in DOMAIN list
        <5>1. DOMAIN up = DOMAIN list
          BY <4>1, <4>3
        <5>2. DOMAIN rows = DOMAIN list
          BY <1>7, <2>1, <2>5, <5>1
        <5> QED
          BY <4>2, <5>2
      <4>4. CASE m \notin DOMAIN list
        <5>1. Cardinality(DOMAIN up) = PerPage + 1
          BY <2>5, <4>1, <4>2, <4>4, FS_AddElement
        <5>2. PICK z \in DOMAIN up : z \notin DOMAIN rows
          <6>1. DOMAIN rows # DOMAIN up
            BY <1>5, <1>6, <2>1, <5>1
          <6> QED
            BY <1>6, <2>1, <6>1
        <5>3. Cardinality(DOMAIN rows) = PerPage /\ \A x \in DOMAIN rows : x > z
          BY <1>7, <2>1, <5>2
        <5>4. ASSUME NEW x \in DOMAIN rows PROVE x > n
          <6>1. CASE x \in DOMAIN list
            BY <4>2, <6>1
          <6>2. CASE x \notin DOMAIN list
            <7>1. x = m /\ z \in DOMAIN list
              BY <1>6, <2>1, <4>1, <5>2, <5>4, <6>2
            <7>2. x > z /\ z > n
              BY <4>2, <5>3, <5>4, <7>1
            <7>3. x \in Nat /\ z \in Nat /\ n \in Nat
              BY <2>2, <2>5, <7>1, PanelNumbers
            <7> QED
              BY <7>2, <7>3
          <6> QED
            BY <6>1, <6>2
        <5> QED
          BY <5>3, <5>4
      <4> QED
        BY <4>3, <4>4
    <3> QED
      BY <3>2, <3>3, <3>4
  <2> QED
    BY <1>2, <2>6, <2>7 DEF Mirrors
<1> QED
  BY <1>3, <1>8, <1>9, <1>10 DEF PanelInv, PanelShape

\* What the user starts, and the loop.
LEMMA UserKeeps ==
  ASSUME PanelInv,
         \/ \E q \in Queries : Filter(q)
         \/ \E day \in Days : Jump(day)
         \/ \E d \in {-1, 1} : Turn(d)
         \/ Imported \/ Refresh \/ Subscribed
  PROVE  PanelInv'
<1>1. pageNo \in Int /\ query \in Queries /\ Days \subseteq Queries
  BY PanelAssumption DEF PanelInv, PanelShape, PanelShapes, PanelTypeOK, PanelAssumption
<1>2. ASSUME NEW q \in Queries, Filter(q) PROVE PanelInv'
  BY <1>1, <1>2, BeginKeeps DEF Filter, Elsewhere, live
<1>3. ASSUME NEW day \in Days, Jump(day) PROVE PanelInv'
  BY <1>1, <1>3, BeginKeeps DEF Jump, Elsewhere, live
<1>4. ASSUME NEW d \in {-1, 1}, Turn(d) PROVE PanelInv'
  <2>1. PICK p \in Int : p = pageNo + d /\ pageNo - 1 <= p /\ p <= pageNo + 1
    BY <1>1
  <2> QED
    BY <1>1, <1>4, <2>1, BeginKeeps DEF Turn, Elsewhere, live
<1>5. ASSUME Imported PROVE PanelInv'
  BY <1>1, <1>5, BeginKeeps DEF Imported, Elsewhere, live
<1>6. ASSUME Refresh PROVE PanelInv'
  BY <1>1, <1>6, BeginKeeps DEF Refresh, live
<1>7. ASSUME Subscribed PROVE PanelInv'
  BY <1>1, <1>7, BeginKeeps DEF Subscribed, Awaited
<1> QED
  BY <1>2, <1>3, <1>4, <1>5, <1>6, <1>7

LEMMA RetargetKeeps ==
  ASSUME PanelInv, Retarget
  PROVE  PanelInv'
<1>1. PanelTypeOK /\ PanelShapes /\ generation \in Nat /\ 1 <= generation /\ generation <= MaxLoads /\ MaxLoads \in Nat
  BY LoopNumbers DEF PanelInv, PanelShape
<1>2. CASE query \in Days
  <2>1. PICK q \in Days : Begin(q, 1, 1)
    BY <1>2 DEF Retarget
  <2>2. q \in Queries
    BY PanelAssumption DEF PanelAssumption
  <2> QED
    BY <2>1, <2>2, BeginKeeps DEF Retarget, Elsewhere, live
<1>3. CASE query \notin Days
  <2>1. /\ pageNo' = 1 /\ moved' = TRUE
        /\ UNCHANGED <<archive, query, pages, canGo, generation, load, list, refreshing, stream, reload, subscribed,
                       unread, fails, drops>>
    BY <1>3 DEF Retarget, Elsewhere, live
  <2>2. pageNo' \in (1 - MaxLoads)..(1 + MaxLoads) /\ pageNo' \in Int
    BY <1>1, <2>1
  <2>3. PanelTypeOK' /\ PanelShapes'
    BY <1>1, <2>1, <2>2 DEF PanelTypeOK, PanelShapes
  <2>4. PageNear'
    BY <1>1, <2>1 DEF PanelInv, PageNear, Near
  <2>5. LastSent' /\ LoadsSound' /\ LoopSound' /\ ReadsAfter' /\ ListOfQuery' /\ ReloadRows'
    BY <2>1 DEF PanelInv, LastSent, LoadsSound, LoopSound, ReadsAfter, ListOfQuery, LatestDone, ReloadRows, Closing
  <2> QED
    BY <2>3, <2>4, <2>5 DEF PanelInv, PanelShape
<1> QED
  BY <1>2, <1>3

LEMMA LoopKeeps ==
  ASSUME PanelInv, StartRealtime \/ Subscribe \/ Reloaded \/ ConnectionLost \/ Reconnect
  PROVE  PanelInv'
<1>0. PanelTypeOK /\ PanelShapes /\ LoadsSound /\ LoopSound /\ LastSent /\ PageNear /\ ReadsAfter
  BY DEF PanelInv, PanelShape
<1>1. /\ UNCHANGED <<archive, query, pageNo, moved, pages, canGo, generation, load, list, fails>>
      /\ drops' \in Nat /\ refreshing' \in {refreshing, 0} /\ reload' \in {reload, 0}
      /\ unread' \in {unread, <<>>} /\ subscribed' \in BOOLEAN
      /\ stream' \in {"connecting", "live"} \cup {stream}
  <2>1. drops \in Nat /\ subscribed \in BOOLEAN
    BY <1>0 DEF PanelTypeOK, PanelShapes
  <2>2. CASE StartRealtime
    BY <2>1, <2>2 DEF StartRealtime, asked
  <2>3. CASE Subscribe
    BY <2>1, <2>3 DEF Subscribe, view, asked
  <2>4. CASE Reloaded
    BY <2>1, <2>4 DEF Reloaded, view, asked
  <2>5. CASE ConnectionLost
    <3>1. drops' \in Nat
      BY <2>1, <2>5 DEF ConnectionLost
    <3>2. /\ UNCHANGED <<archive, query, pageNo, moved, pages, canGo, generation, load, list, fails, refreshing,
                         reload, stream>>
          /\ unread' = <<>>
      BY <2>5 DEF ConnectionLost, view, asked
    <3>3. subscribed' = FALSE
      BY <2>5 DEF ConnectionLost
    <3> QED
      BY <3>1, <3>2, <3>3
  <2>6. CASE Reconnect
    BY <2>1, <2>6 DEF Reconnect, view, asked
  <2> QED
    BY <2>2, <2>3, <2>4, <2>5, <2>6
<1>2. /\ ~subscribed' => unread' = <<>>
      /\ subscribed' => unread' = unread
      /\ stream' = "live" /\ stream # "live" => Ended(reload) /\ reload' = reload
      /\ stream' \in {"reloading", "live"} => reload' = reload /\ (stream' = stream \/ stream = "reloading")
      /\ stream' \in {"reloading", "live"} /\ subscribed' => subscribed /\ unread' = unread
  BY <1>0 DEF LoopSound, StartRealtime, Subscribe, Reloaded, ConnectionLost, Reconnect, view, PanelTypeOK
<1>3. /\ generation \in Nat /\ 1 <= generation /\ reload \in Nat /\ refreshing \in Nat
      /\ generation \in Loads /\ MaxLoads \in Nat
  BY LoopNumbers
<1>4. PanelTypeOK'
  <2>1. unread' \in Seq(Messages \X (1..MaxVersion))
    <3>1. unread \in Seq(Messages \X (1..MaxVersion))
      BY <1>0 DEF PanelTypeOK
    <3>2. <<>> \in Seq(Messages \X (1..MaxVersion))
      OBVIOUS
    <3> QED
      BY <1>1, <3>1, <3>2
  <2>2. {refreshing', reload'} \subseteq 0..MaxLoads /\ stream' \in {"off", "connecting", "reloading", "live"}
    BY <1>0, <1>1, <1>3 DEF PanelTypeOK
  <2> QED
    BY <1>0, <1>1, <2>1, <2>2 DEF PanelTypeOK
<1>5. PanelShapes' /\ LoadsSound' /\ PageNear' /\ ListOfQuery'
  BY <1>0, <1>1 DEF PanelInv, PanelShapes, LoadsSound, PageNear, Near, ListOfQuery, LatestDone
<1>6. LoopSound'
  BY <1>0, <1>1, <1>2, <1>3 DEF LoopSound
<1>7. LastSent'
  <2>1. CASE unread' = unread
    BY <1>0, <1>1, <2>1 DEF LastSent
  <2>2. CASE unread' = <<>>
    BY <2>2 DEF LastSent
  <2> QED
    BY <1>1, <2>1, <2>2
<1>8. ReadsAfter'
  <2> SUFFICES ASSUME stream' = "live", reload' = generation PROVE load[generation].stage \in {"done", "failed"}
    BY <1>1 DEF ReadsAfter
  <2>1. reload = generation
    BY <1>2
  <2>2. CASE stream = "live"
    BY <1>0, <2>1, <2>2 DEF ReadsAfter
  <2>3. CASE stream # "live"
    BY <1>0, <1>2, <2>1, <2>3 DEF Ended, LoadsSound, Loading
  <2> QED
    BY <2>2, <2>3
<1>9. ReloadRows'
  <2> SUFFICES ASSUME Closing', NEW rows \in Lists, Answer(rows)' PROVE Mirrors(rows)'
    BY DEF ReloadRows
  <2>1. Closing /\ unread' = unread
    BY <1>1, <1>2 DEF Closing
  <2>2. Answer(rows)
    BY <1>1 DEF Answer
  <2> QED
    BY <1>1, <2>1, <2>2, MirrorsKept DEF PanelInv, ReloadRows
<1> QED
  BY <1>4, <1>5, <1>6, <1>7, <1>8, <1>9 DEF PanelInv, PanelShape


LEMMA PanelInitially == PanelInit => PanelInv
<1> SUFFICES ASSUME PanelInit PROVE PanelInv
  OBVIOUS
<1> DEFINE x == [NoLoad EXCEPT !.stage = "asked", !.query = Messages]
<1>1. /\ archive \in [Messages -> 0..1] /\ query = Messages /\ pageNo = 1 /\ moved = FALSE /\ pages = 1 /\ canGo = {}
      /\ generation = 1 /\ load = [g \in Loads |-> IF g = 1 THEN x ELSE NoLoad] /\ list = Empty /\ refreshing = 1
      /\ stream = "off" /\ reload = 0 /\ subscribed = FALSE /\ unread = <<>> /\ fails = 0 /\ drops = 0
  BY DEF PanelInit
<1>2. /\ x \in LoadRecord /\ x.stage = "asked" /\ x.query = Messages /\ x.page = 1 /\ x.back = 1 /\ x.rows = Empty
  <2>1. PICK n \in LoadRecord : n = NoLoad /\ n.page = 1 /\ n.back = 1 /\ n.rows = Empty
    BY NoLoadFields
  <2>2. x = [n EXCEPT !.stage = "asked", !.query = Messages] /\ "asked" \in LoadStages
    BY <2>1 DEF LoadStages
  <2> HIDE DEF x
  <2> QED
    BY <2>1, <2>2 DEF LoadRecord
<1> HIDE DEF x
<1>3. 1 \in Loads /\ \A g \in Loads : g \in Nat /\ (g > 1 => g # 1)
  BY PanelNumbers DEF Loads
<1>4. load \in [Loads -> LoadRecord] /\ load[1] = x /\ \A g \in Loads : g # 1 => load[g] = NoLoad
  BY <1>1, <1>2, <1>3, NoLoadFields
<1>5. \A g \in Loads : /\ load[g].rows = Empty /\ load[g].page = 1 /\ load[g].back = 1
                       /\ load[g].stage \in LoadStages
  BY <1>2, <1>4, NoLoadFields DEF LoadStages
<1>6. PanelTypeOK
  <2>1. archive \in [Messages -> 0..MaxVersion]
    BY <1>1, PanelNumbers
  <2>2. /\ query \in Queries /\ pageNo \in (1 - MaxLoads)..(1 + MaxLoads) /\ generation \in 0..MaxLoads
        /\ {refreshing, reload} \subseteq 0..MaxLoads /\ unread \in Seq(Messages \X (1..MaxVersion))
    BY <1>1, PanelNumbers, PanelAssumption DEF PanelAssumption
  <2>3. list \in Lists /\ Cardinality(DOMAIN list) <= PerPage
    BY <1>1, EmptyRows, PanelNumbers
  <2> QED
    BY <1>1, <1>5, <2>1, <2>2, <2>3 DEF PanelTypeOK, LoadStages
<1>7. PanelShapes /\ LastSent /\ ReadsAfter /\ PageNear
  BY <1>1, <1>4, <1>5 DEF PanelShapes, LastSent, ReadsAfter, PageNear, Near
<1>8. LoadsSound
  <2>1. \A g \in Loads : Cardinality(DOMAIN load[g].rows) <= PerPage /\ DOMAIN load[g].rows \subseteq load[g].query
    BY <1>5, EmptyRows, PanelNumbers
  <2> QED
    BY <1>1, <1>2, <1>3, <1>4, <2>1 DEF LoadsSound, Loading
<1>9. LoopSound /\ ListOfQuery /\ ReloadRows
  BY <1>1, <1>2, <1>4 DEF LoopSound, ListOfQuery, LatestDone, ReloadRows, Closing
<1> QED
  BY <1>6, <1>7, <1>8, <1>9 DEF PanelInv, PanelShape

LEMMA PanelStutters == PanelInv /\ UNCHANGED panelVars => PanelInv'
<1> SUFFICES ASSUME PanelInv, UNCHANGED panelVars PROVE PanelInv'
  OBVIOUS
<1>1. UNCHANGED <<archive, query, pageNo, moved, pages, canGo, generation, load, list, refreshing, stream, reload,
                  subscribed, unread, fails, drops>>
  BY DEF panelVars, view, live, asked
<1>2. PanelShape'
  BY <1>1 DEF PanelInv, PanelShape, PanelTypeOK, PanelShapes
<1>3. LastSent' /\ LoadsSound' /\ LoopSound' /\ ReadsAfter' /\ PageNear' /\ ListOfQuery'
  BY <1>1 DEF PanelInv, LastSent, LoadsSound, LoopSound, ReadsAfter, PageNear, Near, ListOfQuery, LatestDone
<1>4. ReloadRows'
  BY <1>1 DEF PanelInv, ReloadRows, Closing, Answer, Mirrors, Waits
<1> QED
  BY <1>2, <1>3, <1>4 DEF PanelInv

LEMMA PanelKept == PanelInv /\ [PanelNext]_panelVars => PanelInv'
BY PanelStutters, ArchiveMessageKeeps, ServerReadsKeeps, RecordsArriveKeeps, NamesArriveKeeps, LoadFailsKeeps,
   UserKeeps, RetargetKeeps, LoopKeeps, ReadEventKeeps DEF PanelNext

\* Of what the panel does in whatever order: loads that overlap, pages turned while
\* one is under way, a connection that comes and goes, events read late.
THEOREM PanelInvariant == PanelSpec => []PanelInv
<1>1. PanelInit => PanelInv
  BY PanelInitially
<1>2. PanelInv /\ [PanelNext]_panelVars => PanelInv'
  BY PanelKept
<1> QED
  BY <1>1, <1>2, PTL DEF PanelSpec

LEMMA NothingWaits == PanelInv => ReloadCloses
<1> SUFFICES ASSUME PanelInv, Quiet, reload = generation, pageNo = 1, ~moved
             PROVE  list = Slice(Rows(query), 0, PerPage)
  BY DEF ReloadCloses
<1>1. Mirrors(list) /\ list \in Lists
  BY DEF PanelInv, PanelShape, PanelTypeOK, ReloadRows, Closing, Answer, Quiet, LatestDone
<1>2. \A m : ~Waits(m)
  BY DEF Quiet, Waits
<1>3. /\ query \subseteq Messages /\ archive \in [Messages -> 0..MaxVersion] /\ MaxVersion \in Nat
      /\ Cardinality(DOMAIN list) <= PerPage
  BY PanelAssumption, PanelNumbers DEF PanelInv, PanelShape, PanelTypeOK, PanelAssumption
<1>4. \A m \in DOMAIN list : list[m] \in 1..MaxVersion
  BY <1>1 DEF Lists
<1> DEFINE D == {m \in query : archive[m] > 0}
           all == Rows(query)
<1>5. all \in Lists /\ DOMAIN all = D /\ \A m \in D : all[m] = archive[m]
  <2>1. all = [m \in D |-> archive[m]]
    BY DEF Rows
  <2>2. D \in SUBSET Messages /\ \A m \in D : archive[m] \in 1..MaxVersion
    <3>1. \A m \in D : m \in Messages /\ archive[m] > 0 /\ archive[m] \in 0..MaxVersion
      BY <1>3
    <3> QED
      BY <1>3, <3>1
  <2>3. all \in [D -> 1..MaxVersion]
    BY <2>1, <2>2
  <2> HIDE DEF D, all
  <2> QED
    BY <2>1, <2>2, <2>3 DEF Lists
<1>6. \A m \in DOMAIN list : m \in D /\ list[m] = archive[m]
  <2> SUFFICES ASSUME NEW m \in DOMAIN list PROVE m \in D /\ list[m] = archive[m]
    OBVIOUS
  <2>1. m \in query /\ list[m] = archive[m] /\ list[m] \in 1..MaxVersion
    BY <1>1, <1>2, <1>4 DEF Mirrors
  <2> QED
    BY <1>3, <2>1
<1>7. \A m \in D \ DOMAIN list : Cardinality(DOMAIN list) = PerPage /\ \A n \in DOMAIN list : n > m
  BY <1>1, <1>2 DEF Mirrors
<1> HIDE DEF D, all
<1>8. PICK rows \in Lists, top \in Lists : rows = all /\ top = list
  BY <1>1, <1>5
<1>9. top = Slice(rows, 0, PerPage)
  <2>1. DOMAIN top \subseteq DOMAIN rows /\ \A m \in DOMAIN top : top[m] = rows[m]
    BY <1>5, <1>6, <1>8
  <2>2. Cardinality(DOMAIN top) <= PerPage /\ PerPage \in Nat
    BY <1>3, <1>8, PanelNumbers
  <2>3. \A m \in DOMAIN rows \ DOMAIN top : Cardinality(DOMAIN top) = PerPage /\ \A x \in DOMAIN top : x > m
    BY <1>5, <1>7, <1>8
  <2> QED
    BY <2>1, <2>2, <2>3, IsFirstPage
<1> QED
  BY <1>8, <1>9 DEF all

\* The list holds what was asked for last, and once a reload has followed the
\* subscription, what the archive holds (loadMessages, realtimeLoop, panel.js).
THEOREM PanelIsTrue == PanelSpec => []PanelTrue
<1>1. PanelInv => PanelTrue
  BY NothingWaits DEF PanelTrue, PanelInv, PanelShape
<1> QED
  BY <1>1, PanelInvariant, PTL
=============================================================================
