----------------------------- MODULE Policy_proofs -----------------------------
(***************************************************************************)
(* 09-discord_pb, which channels are imported and what is written to       *)
(* Discord: for any channels, events, administrators, requests and bounds. *)
(*                                                                         *)
(* RequestInv is what requests rely on from step to step, whatever texts   *)
(* the file has had; OneRowAtATime and SavesWake follow from it.           *)
(*                                                                         *)
(* An event decides by what it read at different moments, or by the cache, *)
(* which another event filled.  SourceOf says what a model compiled for a  *)
(* text is worth: it is right for every event that has read this text, and *)
(* agrees with the file while the file has this text.  Of a model compiled  *)
(* from the text itself this stays so whatever the file has in between; of  *)
(* one compiled from another text, only until the text comes back, and     *)
(* Excuse is what is left of it then.  Past says that what was read is what *)
(* the file has or had.                                                    *)
(*                                                                         *)
(* A write is followed by Known: its channel and its permission come from  *)
(* names and models there were since it came (Meant, Granted), and what it *)
(* has done and has to do are the whole of the write (Underway).           *)
(***************************************************************************)
EXTENDS ChannelPolicy, ChannelWrites, SequenceTheorems, TLAPS

\* What a text says, once the channels it names are known.
RowsOf(t) == {c \in Channels : t.own[c] # "unset"}
Lists(t, c) == t.own[c] = "on" \/ (t.own[c] = "unset" /\ t.star)

\* The policy has said so of e's channel since e came.
SaidOn(e) == TRUE \in answers[e]
SaidOff(e) == FALSE \in answers[e]
Heard(e) == ~Calls(e, "idle") => IF Says(ev[e].chan) THEN SaidOn(e) ELSE SaidOff(e)

\* A text that was read is the file's or was; what the file has again is back.
Read(t) == t # Absent /\ ((cache.model.ok /\ cache.yaml = t) \/ \E e \in Events : ev[e].yaml = t)
Past ==
  /\ config \in gone => config \in back
  /\ \A t : Read(t) => t \in gone \cup {config}

\* What a request may rely on at each step.
Pending(h) == job[h].pc \in {"entities", "lock", "write"}
Requested(h) ==
  /\ ~At(h, "idle") /\ job[h].kind # "save" => job[h].chan \in known
  /\ ~At(h, "idle") /\ job[h].kind = "select" => job[h].change # "keep"
  /\ At(h, "row") => job[h].kind = "select"
  /\ job[h].ents \subseteq known
  /\ Pending(h) /\ ~At(h, "write") /\ job[h].kind = "save" => job[h].text \in Declared
  /\ At(h, "write") => /\ lock = h /\ job[h].text \in Declared /\ RowsOf(job[h].text) \subseteq job[h].ents
                       /\ job[h].kind = "select" => job[h].text.own[job[h].chan] = job[h].change
                       /\ job[h].kind # "save" /\ edits = 0 /\ config.file = "valid" =>
                            \A c \in Channels \ {job[h].chan} : job[h].text.own[c] = config.own[c]

\* The steps of liveModel that know the key, and those that know the entities.
Keyed(e) == ev[e].pc \in {"cache", "entities", "load", "store", "decide"} /\ ev[e].yaml # Absent
Listed(e) == ev[e].pc \in {"load", "store", "decide"}
Compiled(e) == ev[e].pc \in {"store", "decide"}
ReadBy(e) ==
  /\ Calls(e, "idle") => ev[e] = NoEvent
  /\ ~Calls(e, "idle") => ev[e].chan \in Channels
  /\ Calls(e, "dir") => ev[e].yaml = Absent
  /\ ev[e].pc \in {"key", "cache"} => ev[e].yaml # Absent
  /\ Keyed(e) => ev[e].key \subseteq known /\ (ev[e].chan \notin ev[e].key => SaidOff(e))
  /\ ev[e].ents \subseteq known
  /\ Calls(e, "load") => /\ Keyed(e) => ev[e].key \subseteq ev[e].ents
                         /\ ev[e].chan \notin ev[e].ents => SaidOff(e)

\* The one case left: a model of another text, under a text that is back.
Excuse(y, x) == x /\ y \in back
Excused(e) == Calls(e, "decide") /\ Excuse(ev[e].yaml, ev[e].mixed)

\* A model m to be used for the text y and the channels K, compiled from another text
\* if x, is right for every event that read y, also for one that will.
Matches(y, K, m, x) ==
  m.exists /\ ~Excuse(y, x) /\ (x => config = y) =>
    /\ y.file = "valid" /\ RowsOf(y) \subseteq known
    /\ \A c \in m.imports : Lists(y, c)
    /\ \A c \in K \ m.imports : ~Lists(y, c)
RightFor(y, K, m, x, e) ==
  m.exists /\ ~Excuse(y, x) /\ ~Calls(e, "idle") /\ ev[e].yaml = y =>
    /\ ev[e].chan \in m.imports => SaidOn(e)
    /\ ev[e].chan \in K \ m.imports => SaidOff(e)
SourceOf(y, K, m, x) ==
  /\ m.exists => m.imports \subseteq known
  /\ Matches(y, K, m, x) /\ \A e \in Events : RightFor(y, K, m, x, e)
  /\ ~m.exists => edits > 0
Sources ==
  /\ cache.model.ok => cache.yaml # Absent /\ SourceOf(cache.yaml, cache.key, cache.model, cache.mixed)
  /\ \A e \in Events : Calls(e, "store") => SourceOf(ev[e].yaml, ev[e].key, ev[e].model, ev[e].mixed)

\* What an event has compiled is what was said of its channel.
Decided(e) ==
  /\ Compiled(e) /\ ev[e].model.ok /\ ev[e].model.exists /\ ~Excused(e) =>
       /\ ev[e].model.imports \subseteq known
       /\ IF ev[e].chan \in ev[e].model.imports THEN SaidOn(e) ELSE SaidOff(e)
  /\ Calls(e, "decide") /\ ~ev[e].model.ok => SaidOff(e) \/ ev[e].ents # known

\* Without a file the table decides: a row to be saved was published first.
TableSaid(e) ==
  edits = 0 /\ sweeps = 0 /\ Compiled(e) /\ ev[e].model.ok /\ ~ev[e].model.exists =>
    /\ IF table[ev[e].chan] = "on" THEN SaidOn(e) ELSE SaidOff(e)
    /\ \A h \in Handlers : At(h, "row") /\ job[h].chan = ev[e].chan =>
         IF job[h].change = "on" THEN SaidOn(e) ELSE SaidOff(e)
FirstFile ==
  /\ Ticked \subseteq known
  /\ edits = 0 /\ config = Absent => \A h \in Handlers : ~At(h, "row")
  /\ edits = 0 /\ config = Absent => \A e \in Events : ev[e].yaml = Absent
  /\ sweep # "idle" => sweeps > 0

\* What is stored is a model of a file.
Storable == \A e \in Events : Calls(e, "store") => ev[e].model.ok /\ ev[e].yaml # Absent
RequestInv == TypeOK /\ \A h \in Handlers : Requested(h)

PolicyInv ==
  /\ RequestInv /\ Storable /\ Past /\ FirstFile /\ Sources
  /\ \A e \in Events : Heard(e) /\ ReadBy(e) /\ Decided(e) /\ TableSaid(e)
-----------------------------------------------------------------------------
(* Texts and what they compile to. *)

LEMMA TextTypes ==
  ASSUME NEW t \in Text
  PROVE  /\ t.file \in {"absent", "broken", "valid"} /\ t.star \in BOOLEAN
         /\ t.own \in [Channels -> {"unset", "on", "off"}]
         /\ t.file = "absent" <=> t = Absent
         /\ t.file = "valid" <=> t \in Declared
<1>0. Unset \in [Channels -> {"unset", "on", "off"}]
  BY DEF Unset
<1>1. CASE t = Absent
  BY <1>0, <1>1 DEF Absent, Declared
<1>3. CASE t = Broken
  <2>1. t.file = "broken" /\ t.star = FALSE /\ t.own = Unset
    BY <1>3 DEF Broken
  <2>2. t # Absent /\ t \notin Declared
    BY <2>1 DEF Absent, Declared
  <2> QED
    BY <1>0, <2>1, <2>2
<1>2. CASE t \in Declared
  BY <1>2 DEF Absent, Declared
<1> QED
  BY <1>1, <1>2, <1>3 DEF Text

LEMMA Texts ==
  Absent \in Text /\ Broken \in Text /\ Declared \subseteq Text /\ Absent # Broken
BY DEF Text, Absent, Broken

LEMMA Compiles ==
  ASSUME NEW t \in Text, NEW K \in SUBSET Channels
  PROVE  /\ Compile(t, K) \in Model
         /\ Compile(t, K).ok <=> t = Absent \/ (t.file = "valid" /\ RowsOf(t) \subseteq K)
         /\ Compile(t, K).exists <=> t # Absent
         /\ Compile(t, K).imports \subseteq K
         /\ Compile(t, K).ok /\ Compile(t, K).exists =>
              \A c \in K : c \in Compile(t, K).imports <=> Lists(t, c)
<1> DEFINE kept == {c \in K : t.own[c] = "on" \/ (t.own[c] = "unset" /\ t.star)}
<1>1. CASE t.file = "absent"
  <2>1. Compile(t, K) = [ok |-> TRUE, exists |-> FALSE, imports |-> {}]
    BY <1>1 DEF Compile, NoModel
  <2> QED
    BY <1>1, <2>1, TextTypes DEF Model
<1>2. CASE t.file # "absent" /\ (t.file = "broken" \/ \E c \in Channels \ K : t.own[c] # "unset")
  <2>1. Compile(t, K) = [ok |-> FALSE, exists |-> TRUE, imports |-> {}]
    BY <1>2 DEF Compile, NoModel
  <2>2. t # Absent /\ ~(t.file = "valid" /\ RowsOf(t) \subseteq K)
    BY <1>2, TextTypes DEF RowsOf
  <2> QED
    BY <2>1, <2>2 DEF Model
<1>3. CASE t.file # "absent" /\ ~(t.file = "broken" \/ \E c \in Channels \ K : t.own[c] # "unset")
  <2>1. Compile(t, K) = [ok |-> TRUE, exists |-> TRUE, imports |-> kept]
    BY <1>3 DEF Compile
  <2>2. t # Absent /\ t.file = "valid" /\ RowsOf(t) \subseteq K
    BY <1>3, TextTypes DEF RowsOf
  <2> HIDE DEF kept
  <2>3. kept \subseteq K /\ kept \in SUBSET Channels /\ \A c \in K : c \in kept <=> Lists(t, c)
    BY DEF kept, Lists
  <2> QED
    BY <2>1, <2>2, <2>3 DEF Model
<1> QED
  BY <1>1, <1>2, <1>3

\* What Says says.
SaysSo(c) ==
  /\ c \in known
  /\ IF config = Absent THEN table[c] = "on"
     ELSE config.file = "valid" /\ RowsOf(config) \subseteq known /\ Lists(config, c)

SaysKnown == \A c \in Channels : Says(c) <=> SaysSo(c)

LEMMA SaysNow == TypeOK => SaysKnown
<1> SUFFICES ASSUME TypeOK, NEW c \in Channels
             PROVE  Says(c) <=> SaysSo(c)
  BY DEF SaysKnown
<1>1. config \in Text /\ known \in SUBSET Channels
  BY DEF TypeOK
<1>2. PICK m : m = Compile(config, known)
  OBVIOUS
<1>3. Says(c) <=> c \in known /\ m.ok /\ (IF m.exists THEN c \in m.imports ELSE table[c] = "on")
  BY <1>2 DEF Says
<1>4. /\ m.ok <=> config = Absent \/ (config.file = "valid" /\ RowsOf(config) \subseteq known)
      /\ m.exists <=> config # Absent
      /\ m.ok /\ m.exists => \A d \in known : d \in m.imports <=> Lists(config, d)
  BY <1>1, <1>2, Compiles
<1> QED
  BY <1>3, <1>4 DEF SaysSo

LEMMA SaysNext == TypeOK' => SaysKnown'
BY SaysNow, PTL

-----------------------------------------------------------------------------
(* Every step writes down what the policy says. *)

LEMMA AnswersGrow ==
  ASSUME Witness
  PROVE  \A e \in Events : /\ Heard(e)'
                           /\ ~Calls(e, "idle")' => (SaidOn(e) => SaidOn(e)') /\ (SaidOff(e) => SaidOff(e)')
<1> SUFFICES ASSUME NEW e \in Events, ev'[e].pc # "idle"
             PROVE  /\ IF Says(ev[e].chan)' THEN TRUE \in answers'[e] ELSE FALSE \in answers'[e]
                    /\ TRUE \in answers[e] => TRUE \in answers'[e]
                    /\ FALSE \in answers[e] => FALSE \in answers'[e]
  BY DEF Heard, SaidOn, SaidOff, Calls
<1>1. answers'[e] = answers[e] \cup {Says(ev[e].chan)'}
  BY DEF Witness
<1>2. Says(ev[e].chan)' \in BOOLEAN
  BY DEF Says
<1>3. PICK b \in BOOLEAN : b = Says(ev[e].chan)'
  BY <1>2
<1> QED
  BY <1>1, <1>3

LEMMA AnswersTypes ==
  ASSUME TypeOK, Witness
  PROVE  /\ answers' \in [Events -> SUBSET BOOLEAN]
         /\ back' \subseteq gone' /\ gone' \subseteq Text \ {Absent}
<1>1. ASSUME NEW e \in Events
      PROVE  (IF ev'[e].pc = "idle" THEN {} ELSE answers[e] \cup {Says(ev[e].chan)'}) \in SUBSET BOOLEAN
  <2>1. answers[e] \in SUBSET BOOLEAN
    BY DEF TypeOK
  <2>2. Says(ev[e].chan)' \in BOOLEAN
    BY DEF Says
  <2> QED
    BY <2>1, <2>2
<1>2. config \in Text /\ back \subseteq gone /\ gone \subseteq Text \ {Absent}
  BY DEF TypeOK
<1>3. back' \subseteq gone' /\ gone' \subseteq Text \ {Absent}
  BY <1>2 DEF Witness
<1> QED
  BY <1>1, <1>3 DEF Witness

\* What is gone stays gone and what is back stays back.
LEMMA PastKept ==
  ASSUME Past, Witness, \A t : Read(t)' => Read(t) \/ t = config
  PROVE  Past' /\ back \subseteq back'
<1>1. back \subseteq back'
  BY DEF Witness
<1>2. CASE config' = config
  BY <1>2 DEF Past, Witness, Read
<1>3. CASE config' # config
  <2>1. gone' = gone \cup ({config} \ {Absent}) /\ back' = back \cup (gone \cap {config'})
    BY <1>3 DEF Witness
  <2>2. config' \in gone' => config' \in back'
    BY <1>3, <2>1
  <2>3. ASSUME NEW t, Read(t)'
        PROVE  t \in gone' \cup {config'}
    <3>1. t \in gone \cup {config} /\ t # Absent
      BY <2>3 DEF Past, Read
    <3> QED
      BY <2>1, <3>1
  <2> QED
    BY <1>1, <2>2, <2>3 DEF Past
<1> QED
  BY <1>1, <1>2, <1>3

-----------------------------------------------------------------------------
(* Whatever happens around the events. *)

Around ==
  /\ ev' = ev /\ cache' = cache /\ known \subseteq known'
  /\ edits > 0 => edits' > 0

LEMMA SourceAround ==
  ASSUME Past, Around, Witness, NEW y, NEW K, NEW m, NEW x, SourceOf(y, K, m, x), Read(y)
  PROVE  SourceOf(y, K, m, x)'
<1>0. known \subseteq known' /\ back \subseteq back' /\ (Excuse(y, x) => Excuse(y, x)')
  BY DEF Around, Witness, Excuse
<1>1. m.exists => m.imports \subseteq known'
  BY <1>0 DEF SourceOf
<1>2. ASSUME m.exists, ~Excuse(y, x)', x => config' = y
      PROVE  /\ y.file = "valid" /\ RowsOf(y) \subseteq known'
             /\ \A c \in m.imports : Lists(y, c)
             /\ \A c \in K \ m.imports : ~Lists(y, c)
  <2>1. x => config = y
    <3> SUFFICES ASSUME x, config # y PROVE FALSE
      OBVIOUS
    <3>1. y \in gone
      BY DEF Past
    <3>2. y \in back'
      BY <1>2, <3>1 DEF Witness
    <3> QED
      BY <1>2, <3>2 DEF Excuse
  <2> QED
    BY <1>0, <1>2, <2>1 DEF SourceOf, Matches
<1>3. ASSUME m.exists, ~Excuse(y, x)', NEW e \in Events, ~Calls(e, "idle")', ev'[e].yaml = y
      PROVE  /\ ev'[e].chan \in m.imports => SaidOn(e)'
             /\ ev'[e].chan \in K \ m.imports => SaidOff(e)'
  <2>1. ev'[e] = ev[e] /\ ~Calls(e, "idle")
    BY <1>3 DEF Around, Calls
  <2>2. (SaidOn(e) => SaidOn(e)') /\ (SaidOff(e) => SaidOff(e)')
    BY <1>3, AnswersGrow
  <2> QED
    BY <1>0, <1>3, <2>1, <2>2 DEF SourceOf, RightFor
<1>4. ~m.exists => edits' > 0
  BY DEF SourceOf, Around
<1> QED
  BY <1>1, <1>2, <1>3, <1>4 DEF SourceOf, Matches, RightFor, RowsOf, Lists

LEMMA AroundKeeps ==
  ASSUME PolicyInv, Around, Witness
  PROVE  Sources' /\ Past' /\ \A e \in Events : Heard(e)' /\ ReadBy(e)' /\ Decided(e)'
<1>0. Past /\ Past' /\ back \subseteq back'
  BY PastKept DEF PolicyInv, Around, Read
<1>1. ASSUME cache'.model.ok
      PROVE  cache'.yaml # Absent /\ SourceOf(cache.yaml, cache.key, cache.model, cache.mixed)'
  <2>1. cache.model.ok /\ cache.yaml # Absent /\ SourceOf(cache.yaml, cache.key, cache.model, cache.mixed)
    BY <1>1 DEF PolicyInv, Sources, Around
  <2>2. PICK y, K, m, x : y = cache.yaml /\ K = cache.key /\ m = cache.model /\ x = cache.mixed
    OBVIOUS
  <2>3. SourceOf(y, K, m, x)'
    BY <1>0, <2>1, <2>2, SourceAround DEF Read
  <2>4. y = cache'.yaml /\ K = cache'.key /\ m = cache'.model /\ x = cache'.mixed
    BY <2>2 DEF Around
  <2> QED
    BY <2>1, <2>2, <2>3, <2>4 DEF SourceOf, Matches, RightFor, Excuse, RowsOf, Lists
<1>2. ASSUME NEW e \in Events, Calls(e, "store")'
      PROVE  SourceOf(ev[e].yaml, ev[e].key, ev[e].model, ev[e].mixed)'
  <2>1. Calls(e, "store") /\ SourceOf(ev[e].yaml, ev[e].key, ev[e].model, ev[e].mixed) /\ ev[e].yaml # Absent
    BY <1>2 DEF PolicyInv, Sources, Around, Storable, Calls
  <2>2. PICK y, K, m, x : y = ev[e].yaml /\ K = ev[e].key /\ m = ev[e].model /\ x = ev[e].mixed
    OBVIOUS
  <2>3. SourceOf(y, K, m, x)'
    BY <1>0, <2>1, <2>2, SourceAround DEF Read
  <2>4. y = ev'[e].yaml /\ K = ev'[e].key /\ m = ev'[e].model /\ x = ev'[e].mixed
    BY <2>2 DEF Around
  <2> QED
    BY <2>1, <2>2, <2>3, <2>4 DEF SourceOf, Matches, RightFor, Excuse, RowsOf, Lists
<1>3. ASSUME NEW e \in Events
      PROVE  ReadBy(e)' /\ Decided(e)'
  <2>1. ReadBy(e) /\ Decided(e) /\ ev'[e] = ev[e] /\ known \subseteq known'
    BY DEF PolicyInv, Around
  <2>2. ~Calls(e, "idle") => (SaidOn(e) => SaidOn(e)') /\ (SaidOff(e) => SaidOff(e)')
    BY <2>1, AnswersGrow DEF Calls
  <2>3. ReadBy(e)'
    BY <2>1, <2>2 DEF ReadBy, Keyed, Calls
  <2>4. Decided(e)'
    BY <1>0, <2>1, <2>2 DEF Decided, Excused, Excuse, Compiled, Calls, ReadBy
  <2> QED
    BY <2>3, <2>4
<1> QED
  BY <1>0, <1>1, <1>2, <1>3, AnswersGrow DEF Sources

\* A step that saves no row.
LEMMA TableKept ==
  ASSUME PolicyInv, Around, Witness, table' = table, sweeps > 0 => sweeps' > 0,
         sweeps \in Nat, sweeps' \in Nat, edits \in Nat, edits' \in Nat,
         \A h \in Handlers : At(h, "row")' => job'[h] = job[h]
  PROVE  \A e \in Events : TableSaid(e)'
<1> SUFFICES ASSUME NEW e \in Events,
                    edits' = 0, sweeps' = 0, Compiled(e)', ev'[e].model.ok, ~ev'[e].model.exists
             PROVE  /\ IF table'[ev'[e].chan] = "on" THEN SaidOn(e)' ELSE SaidOff(e)'
                    /\ \A h \in Handlers : At(h, "row")' /\ job'[h].chan = ev'[e].chan =>
                         IF job'[h].change = "on" THEN SaidOn(e)' ELSE SaidOff(e)'
  BY DEF TableSaid
<1>1. edits = 0 /\ sweeps = 0 /\ ev'[e] = ev[e] /\ Compiled(e) /\ ~Calls(e, "idle")'
  BY DEF Around, Compiled, Calls
<1>2. /\ IF table[ev[e].chan] = "on" THEN SaidOn(e) ELSE SaidOff(e)
      /\ \A h \in Handlers : At(h, "row") /\ job[h].chan = ev[e].chan =>
           IF job[h].change = "on" THEN SaidOn(e) ELSE SaidOff(e)
  BY <1>1 DEF PolicyInv, TableSaid
<1>3. (SaidOn(e) => SaidOn(e)') /\ (SaidOff(e) => SaidOff(e)')
  BY <1>1, AnswersGrow
<1> QED
  BY <1>1, <1>2, <1>3 DEF At

LEMMA RequestedKept ==
  ASSUME NEW h \in Handlers, Requested(h), job'[h] = job[h], known \subseteq known',
         At(h, "write") => lock' = lock /\ ((config' = config /\ edits' = edits) \/ edits' > 0)
  PROVE  Requested(h)'
BY DEF Requested, At, Pending, RowsOf
-----------------------------------------------------------------------------
(* Requests, one action at a time. *)

JobType == [pc: {"idle", "entities", "lock", "write", "row", "mark"},
            kind: {"select", "row", "save"}, chan: Channels \cup {None},
            change: {"on", "off", "keep"}, sel: SUBSET Channels,
            ents: SUBSET Channels, text: Text]
EventType == [pc: {"idle", "dir", "key", "cache", "entities", "load", "store", "decide"},
              chan: Channels \cup {None}, yaml: Text, key: SUBSET Channels,
              ents: SUBSET Channels, model: Model, mixed: BOOLEAN]

\* TypeOK but for the requests, the file and the lock.
RestTyped ==
  /\ known \subseteq Channels
  /\ table \in [Channels -> {"none", "on", "off"}] /\ seeded \in BOOLEAN
  /\ marker \in BOOLEAN /\ sweep \in {"idle", "reading", "seeding"} /\ swept \in Text
  /\ cache \in [yaml: Text, key: SUBSET Channels, model: Model, mixed: BOOLEAN]
  /\ cache # NoCache => cache.model.ok
  /\ ev \in [Events -> EventType]
  /\ asked \in 0..MaxWrites /\ edits \in 0..MaxEdits
  /\ faults \in 0..MaxFaults /\ sweeps \in 0..MaxSweeps
  /\ answers \in [Events -> SUBSET BOOLEAN]
  /\ back \subseteq gone /\ gone \subseteq Text \ {Absent}

LEMMA TypeParts ==
  TypeOK <=> /\ RestTyped /\ config \in Text /\ lock \in Handlers \cup {None}
             /\ job \in [Handlers -> JobType] /\ \A h \in Handlers : lock = h => At(h, "write")
BY DEF TypeOK, RestTyped, JobType, EventType, At

LEMMA TypePartsNext ==
  TypeOK' <=> /\ RestTyped' /\ config' \in Text /\ lock' \in Handlers \cup {None}
              /\ job' \in [Handlers -> JobType] /\ \A h \in Handlers : lock' = h => At(h, "write")'
BY DEF TypeOK, RestTyped, JobType, EventType, At

\* Everything but requests, file and lock as it was, or as typed.
Beside == UNCHANGED <<known, table, seeded, marker, sweep, swept, sweeps, cache, ev, asked, edits, faults>>

LEMMA BesideTyped ==
  ASSUME TypeOK, Witness, Beside
  PROVE  RestTyped'
<1>1. RestTyped
  BY TypeParts
<1>2. Text' = Text
  BY DEF Text, Declared
<1> QED
  BY <1>1, <1>2, AnswersTypes DEF RestTyped, Beside

LEMMA JobFacts ==
  ASSUME TypeOK, NEW h \in Handlers
  PROVE  /\ job[h] \in JobType /\ job[h].pc \in {"idle", "entities", "lock", "write", "row", "mark"}
         /\ job[h].kind \in {"select", "row", "save"} /\ job[h].change \in {"on", "off", "keep"}
         /\ job[h].ents \subseteq Channels /\ job[h].sel \subseteq Channels
         /\ job[h].text \in Text
<1>1. job[h] \in JobType
  BY TypeParts
<1> QED
  BY <1>1 DEF JobType

LEMMA NoJobTyped == NoJob \in JobType /\ NoJob.pc = "idle" /\ NoJob.ents = {}
BY Texts DEF NoJob, JobType

LEMMA BeginSetKeeps ==
  ASSUME RequestInv, Witness, NEW h \in Handlers, NEW c \in Channels,
         NEW kind \in {"select", "row"}, NEW change \in {"on", "off", "keep"}, BeginSet(h, c, kind, change)
  PROVE  RequestInv'
<1>1. PICK r : r.pc = "entities" /\ r.kind = kind /\ r.chan = c /\ r.change = change /\ r.ents = {}
               /\ r \in JobType /\ job' = [job EXCEPT ![h] = r]
  <2>2. Ticked \subseteq Channels /\ known \subseteq Channels /\ c \in known
    BY DEF RequestInv, TypeOK, BeginSet, Ticked
  <2>3. PICK sel \in SUBSET Channels :
          job' = [job EXCEPT ![h] = [pc |-> "entities", kind |-> kind, chan |-> c, change |-> change,
                                     sel |-> sel, ents |-> {}, text |-> Absent]]
    BY <2>2 DEF BeginSet
  <2> QED
    BY <2>3, Texts DEF JobType
<1>2. asked' \in 0..MaxWrites /\ lock # h
  BY PolicyAssumption DEF RequestInv, TypeOK, BeginSet, At
<1>3. TypeOK'
  <2>1. RestTyped'
    BY <1>2, AnswersTypes DEF RequestInv, TypeOK, RestTyped, EventType, BeginSet, db, worker
  <2> QED
    BY <1>1, <1>2, <2>1, TypeParts, TypePartsNext DEF RequestInv, BeginSet, file, At
<1>4. Requested(h)'
  <2>1. job'[h] = [job EXCEPT ![h] = job'[h]][h] /\ job'[h].pc = "entities" /\ job'[h].kind = kind
        /\ job'[h].chan = c /\ job'[h].change = change /\ job'[h].ents = {}
    BY <1>1, TypeParts DEF RequestInv
  <2> QED
    BY <2>1 DEF Requested, At, Pending, BeginSet, db
<1>5. ASSUME NEW g \in Handlers \ {h}
      PROVE  Requested(g)'
  <2>1. job'[g] = job[g] /\ Requested(g)
    BY <1>1, TypeParts DEF RequestInv
  <2> QED
    BY <2>1, RequestedKept DEF BeginSet, file, db
<1> QED
  BY <1>3, <1>4, <1>5 DEF RequestInv
\* A step that changes one request and neither file, lock nor edits.
LEMMA OneRequest ==
  ASSUME RequestInv, NEW h \in Handlers, NEW r \in JobType, job' = [job EXCEPT ![h] = r],
         known \subseteq known', UNCHANGED <<file, edits>>, RestTyped', At(h, "write") => r.pc = "write",
         Requested(h)'
  PROVE  RequestInv'
<1>1. job'[h] = r /\ \A g \in Handlers \ {h} : job'[g] = job[g]
  BY TypeParts DEF RequestInv
<1>2. job' \in [Handlers -> JobType]
  BY TypeParts DEF RequestInv
<1>3. \A g \in Handlers \ {h} : Requested(g)'
  BY <1>1, RequestedKept DEF RequestInv, file
<1>4. TypeOK'
  BY <1>1, <1>2, TypeParts, TypePartsNext DEF RequestInv, file, At
<1> QED
  BY <1>3, <1>4 DEF RequestInv

LEMMA EndsKeeps ==
  ASSUME RequestInv, NEW h \in Handlers, Ends(h), ~At(h, "write"), known \subseteq known',
         UNCHANGED <<file, edits>>, RestTyped'
  PROVE  RequestInv'
<1>1. job'[h] = NoJob
  BY TypeParts DEF RequestInv, Ends
<1>2. Requested(h)'
  BY <1>1, NoJobTyped DEF Requested, At, Pending
<1> QED
  BY <1>2, NoJobTyped, OneRequest DEF Ends

LEMMA BeginSaveKeeps ==
  ASSUME RequestInv, Witness, NEW h \in Handlers, NEW t \in Declared, BeginSave(h, t)
  PROVE  RequestInv'
<1>1. asked + 1 \in 0..MaxWrites
  BY PolicyAssumption DEF RequestInv, TypeOK, BeginSave
<1>2. PICK r \in JobType : r.pc = "entities" /\ r.kind = "save" /\ r.text = t /\ r.ents = {}
                           /\ job' = [job EXCEPT ![h] = r]
  <2>1. PICK r : r = [NoJob EXCEPT !.pc = "entities", !.kind = "save", !.text = t]
    OBVIOUS
  <2>2. r \in JobType
    BY <2>1, NoJobTyped, Texts DEF JobType
  <2>3. r.pc = "entities" /\ r.kind = "save" /\ r.text = t /\ r.ents = {}
    BY <2>1, NoJobTyped DEF JobType
  <2> QED
    BY <2>1, <2>2, <2>3 DEF BeginSave
<1>3. RestTyped'
  BY <1>1, AnswersTypes DEF RequestInv, TypeOK, RestTyped, EventType, BeginSave, db, worker
<1>4. job'[h] = r
  BY <1>2, TypeParts DEF RequestInv
<1>5. Requested(h)'
  <2>1. t \in Declared'
    BY DEF Declared
  <2> QED
    BY <1>2, <1>4, <2>1 DEF Requested, At, Pending
<1> QED
  BY <1>2, <1>3, <1>5, OneRequest DEF BeginSave, file, db, At

LEMMA ReadEntitiesKeeps ==
  ASSUME RequestInv, Witness, NEW h \in Handlers, ReadEntities(h)
  PROVE  RequestInv'
<1>1. /\ job[h] \in JobType /\ known \subseteq Channels /\ Requested(h)
  BY JobFacts DEF RequestInv, TypeOK
<1>2. PICK r \in JobType : r = [job[h] EXCEPT !.pc = "lock", !.ents = known]
  BY <1>1 DEF JobType
<1>3. job' = [job EXCEPT ![h] = r]
  BY <1>2, TypeParts DEF RequestInv, ReadEntities
<1>4. r.pc = "lock" /\ r.ents = known /\ r.kind = job[h].kind /\ r.chan = job[h].chan /\ r.change = job[h].change
      /\ r.text = job[h].text
  BY <1>1, <1>2 DEF JobType
<1>5. RestTyped'
  BY BesideTyped DEF RequestInv, ReadEntities, Beside, db, worker, bounds
<1>6. job'[h] = r
  BY <1>3, TypeParts DEF RequestInv
<1>7. Requested(h)'
  <2>1. At(h, "entities") /\ known' = known
    BY DEF ReadEntities, db
  <2>2. /\ r.kind # "save" => r.chan \in known
        /\ r.kind = "select" => r.change # "keep"
        /\ r.kind = "save" => r.text \in Declared
    BY <1>1, <1>4, <2>1 DEF Requested, At, Pending
  <2> QED
    BY <1>4, <1>6, <2>1, <2>2 DEF Requested, At, Declared
<1> QED
  BY <1>3, <1>5, <1>7, OneRequest DEF ReadEntities, file, db, bounds, At

\* What a request makes of the file it read.
LEMMA PatchedText ==
  ASSUME NEW h \in Handlers, job[h] \in JobType, config \in Text, job[h].kind # "save", job[h].chan \in Channels,
         Accepted(h)
  PROVE  /\ Result(h) \in Declared /\ RowsOf(Result(h)) \subseteq job[h].ents
         /\ job[h].change # "keep" => Result(h).own[job[h].chan] = job[h].change
         /\ config.file = "valid" => \A c \in Channels \ {job[h].chan} : Result(h).own[c] = config.own[c]
<1>1. PICK j : j = job[h]
  OBVIOUS
<1>2. j.sel \subseteq Channels /\ j.change \in {"on", "off", "keep"} /\ j.ents \subseteq Channels
  BY <1>1 DEF JobType
<1>3. PICK seed : seed = [file |-> "valid", star |-> FALSE,
                          own |-> [c \in Channels |-> IF c \in j.sel THEN "on" ELSE "unset"]]
  OBVIOUS
<1>4. seed \in Declared
  <2>1. [c \in Channels |-> IF c \in j.sel THEN "on" ELSE "unset"] \in [Channels -> {"unset", "on", "off"}]
    OBVIOUS
  <2> QED
    BY <1>3, <2>1 DEF Declared
<1>5. PICK start \in Declared : start = (IF config.file = "valid" THEN config ELSE seed)
  BY <1>4, TextTypes
<1>6. PICK row \in {"on", "off"} :
        /\ j.change # "keep" => row = j.change
        /\ Patched(j, config) = [start EXCEPT !.own[j.chan] = row]
  <2>1. PICK was : was = (IF config.file = "valid" THEN j.chan \in Compile(config, j.ents).imports ELSE j.chan \in j.sel)
    OBVIOUS
  <2>2. PICK row : row = (IF j.change # "keep" THEN j.change ELSE IF was THEN "on" ELSE "off")
    OBVIOUS
  <2>3. row \in {"on", "off"} /\ (j.change # "keep" => row = j.change)
    BY <1>2, <2>2
  <2>4. Patched(j, config) = [start EXCEPT !.own[j.chan] = row]
    BY <1>3, <1>5, <2>1, <2>2 DEF Patched
  <2> QED
    BY <2>3, <2>4
<1>7. PICK r : r = [start EXCEPT !.own[j.chan] = row]
  OBVIOUS
<1>8. r \in Declared /\ r.own[j.chan] = row /\ \A c \in Channels \ {j.chan} : r.own[c] = start.own[c]
  BY <1>1, <1>5, <1>6, <1>7 DEF Declared
<1>9. Result(h) = r
  BY <1>1, <1>6, <1>7 DEF Result
<1>10. RowsOf(r) \subseteq j.ents
  <2>1. Compile(r, j.ents).ok /\ r # Absent
    BY <1>1, <1>8, <1>9, Texts, TextTypes DEF Accepted
  <2> QED
    BY <1>2, <1>8, <2>1, Texts, Compiles
<1> QED
  BY <1>1, <1>5, <1>6, <1>8, <1>9, <1>10

LEMMA LockKeeps ==
  ASSUME RequestInv, Witness, NEW h \in Handlers, Lock(h)
  PROVE  RequestInv'
<1>1. /\ job[h] \in JobType /\ known \subseteq Channels /\ Requested(h) /\ config \in Text /\ At(h, "lock")
      /\ job[h].ents \subseteq Channels
  BY JobFacts DEF RequestInv, TypeOK, Lock
<1>2. Result(h) \in Declared /\ RowsOf(Result(h)) \subseteq job[h].ents
  <2>1. CASE job[h].kind = "save"
    <3>1. Result(h) = job[h].text /\ job[h].text \in Declared
      BY <1>1, <2>1, Texts DEF Result, Requested, Pending, At
    <3>2. Compile(job[h].text, job[h].ents).ok /\ job[h].text # Absent /\ job[h].text \in Text
      BY <3>1, Texts, TextTypes DEF Lock, Accepted
    <3>3. RowsOf(job[h].text) \subseteq job[h].ents
      BY <1>1, <3>2, Compiles
    <3> QED
      BY <3>1, <3>3
  <2>2. CASE job[h].kind # "save"
    BY <1>1, <2>2, PatchedText DEF Requested, At, Lock
  <2> QED
    BY <2>1, <2>2
<1>3. PICK r : r = [job[h] EXCEPT !.pc = "write", !.text = Result(h)]
  OBVIOUS
<1>4. /\ r \in JobType /\ r.pc = "write" /\ r.text = Result(h) /\ r.kind = job[h].kind /\ r.chan = job[h].chan
      /\ r.change = job[h].change /\ r.ents = job[h].ents
  BY <1>1, <1>2, <1>3, Texts DEF JobType
<1>5. job' = [job EXCEPT ![h] = r]
  BY <1>3, TypeParts DEF RequestInv, Lock
<1>6. job'[h] = r /\ (\A g \in Handlers \ {h} : job'[g] = job[g]) /\ job' \in [Handlers -> JobType]
  BY <1>4, <1>5, TypeParts DEF RequestInv
<1>7. RestTyped'
  BY BesideTyped DEF RequestInv, Lock, Beside, db, worker, bounds
<1>8. config' = config /\ lock' = h /\ lock = None /\ known' = known /\ edits' = edits
  BY DEF Lock, db, bounds
<1>9. TypeOK'
  BY <1>1, <1>4, <1>6, <1>7, <1>8, TypePartsNext DEF At
<1>10. Requested(h)'
  <2>1. job[h].kind # "save" /\ config.file = "valid" =>
          \A c \in Channels \ {job[h].chan} : Result(h).own[c] = config.own[c]
    BY <1>1, PatchedText DEF Requested, At, Lock
  <2>2. job[h].kind = "select" => Result(h).own[job[h].chan] = job[h].change
    BY <1>1, PatchedText DEF Requested, At, Lock
  <2>3. RowsOf(job[h].text)' \subseteq job'[h].ents
    BY <1>2, <1>4, <1>6 DEF RowsOf
  <2>4. job'[h].text \in Declared'
    BY <1>2, <1>4, <1>6 DEF Declared
  <2> QED
    BY <1>1, <1>4, <1>6, <1>8, <2>1, <2>2, <2>3, <2>4 DEF Requested, At, Pending
<1>11. ASSUME NEW g \in Handlers \ {h}
       PROVE  Requested(g)'
  <2>1. ~At(g, "write") /\ Requested(g)
    BY <1>8, PolicyAssumption DEF RequestInv, Requested
  <2> QED
    BY <1>6, <1>8, <2>1, RequestedKept
<1> QED
  BY <1>9, <1>10, <1>11 DEF RequestInv

LEMMA RefuseKeeps ==
  ASSUME RequestInv, Witness, NEW h \in Handlers, Refuse(h)
  PROVE  RequestInv'
<1>1. RestTyped'
  BY BesideTyped DEF RequestInv, Refuse, Beside, db, worker, bounds
<1> QED
  BY <1>1, EndsKeeps DEF Refuse, At, file, db, bounds

LEMMA PublishKeeps ==
  ASSUME RequestInv, Witness, NEW h \in Handlers, Publish(h)
  PROVE  RequestInv' /\ config' \in Text /\ config' # Absent
<1>1. /\ job[h] \in JobType /\ Requested(h) /\ config \in Text /\ At(h, "write")
      /\ lock = h /\ job[h].text \in Declared
  BY JobFacts DEF RequestInv, TypeOK, Publish, Requested
<1>2. config' \in Text /\ config' # Absent
  BY <1>1, Texts, TextTypes DEF Publish
<1>3. PICK pc \in {"row", "mark"} : pc = (IF job[h].kind = "select" THEN "row" ELSE "mark")
  OBVIOUS
<1>4. PICK r : r = [job[h] EXCEPT !.pc = pc]
  OBVIOUS
<1>5. /\ r \in JobType /\ r.pc = pc /\ r.kind = job[h].kind /\ r.chan = job[h].chan
      /\ r.change = job[h].change /\ r.ents = job[h].ents
  BY <1>1, <1>3, <1>4 DEF JobType
<1>6. job' = [job EXCEPT ![h] = r]
  BY <1>3, <1>4, TypeParts DEF RequestInv, Publish, Goes
<1>7. job'[h] = r /\ (\A g \in Handlers \ {h} : job'[g] = job[g]) /\ job' \in [Handlers -> JobType]
  BY <1>5, <1>6, TypeParts DEF RequestInv
<1>8. RestTyped'
  BY BesideTyped DEF RequestInv, Publish, Beside, db, worker, bounds
<1>9. lock' = None /\ known' = known /\ None \notin Handlers
  BY PolicyAssumption DEF Publish, db
<1>10. TypeOK'
  BY <1>2, <1>7, <1>8, <1>9, TypePartsNext
<1>11. Requested(h)'
  BY <1>1, <1>3, <1>5, <1>7, <1>9 DEF Requested, At, Pending
<1>12. ASSUME NEW g \in Handlers \ {h}
       PROVE  Requested(g)'
  <2>1. ~At(g, "write") /\ Requested(g)
    BY <1>1 DEF RequestInv, Requested
  <2> QED
    BY <1>7, <1>9, <2>1, RequestedKept
<1> QED
  BY <1>2, <1>10, <1>11, <1>12 DEF RequestInv

LEMMA SaveRowKeeps ==
  ASSUME RequestInv, Witness, NEW h \in Handlers, SaveRow(h)
  PROVE  RequestInv'
<1>1. job[h] \in JobType /\ Requested(h) /\ At(h, "row") /\ job[h].kind = "select" /\ job[h].change \in {"on", "off"}
  BY JobFacts DEF RequestInv, SaveRow, Requested, At
<1>2. PICK r : r = [job[h] EXCEPT !.pc = "mark"]
  OBVIOUS
<1>3. /\ r \in JobType /\ r.pc = "mark" /\ r.kind = job[h].kind /\ r.chan = job[h].chan
      /\ r.change = job[h].change /\ r.ents = job[h].ents
  BY <1>1, <1>2 DEF JobType
<1>4. job' = [job EXCEPT ![h] = r] /\ job'[h] = r
  BY <1>2, TypeParts DEF RequestInv, SaveRow, Goes
<1>5. RestTyped'
  BY <1>1, AnswersTypes DEF RequestInv, TypeOK, RestTyped, EventType, SaveRow, worker, bounds
<1>6. Requested(h)'
  BY <1>1, <1>3, <1>4 DEF Requested, At, Pending, SaveRow
<1> QED
  BY <1>1, <1>3, <1>4, <1>5, <1>6, OneRequest DEF SaveRow, file, bounds, At

LEMMA RowFailsKeeps ==
  ASSUME RequestInv, Witness, NEW h \in Handlers, RowFails(h)
  PROVE  RequestInv'
<1>1. faults' \in 0..MaxFaults
  BY PolicyAssumption DEF RequestInv, TypeOK, RowFails
<1>2. RestTyped'
  BY <1>1, AnswersTypes DEF RequestInv, TypeOK, RestTyped, EventType, RowFails, db, worker
<1> QED
  BY <1>2, EndsKeeps DEF RowFails, At, file, db

LEMMA MarkKeeps ==
  ASSUME RequestInv, Witness, NEW h \in Handlers, Mark(h)
  PROVE  RequestInv'
<1>1. RestTyped'
  BY AnswersTypes DEF RequestInv, TypeOK, RestTyped, EventType, Mark, db, bounds
<1> QED
  BY <1>1, EndsKeeps DEF Mark, At, file, db, bounds
-----------------------------------------------------------------------------
(* The steps of others. *)

LEMMA RequestsStay ==
  ASSUME RequestInv, job' = job, lock' = lock, known \subseteq known', config' \in Text, RestTyped',
         (config' = config /\ edits' = edits) \/ edits' > 0
  PROVE  RequestInv'
<1>1. TypeOK'
  BY TypeParts, TypePartsNext DEF RequestInv, At
<1>2. \A h \in Handlers : Requested(h)'
  BY RequestedKept DEF RequestInv
<1> QED
  BY <1>1, <1>2 DEF RequestInv

LEMMA EditText ==
  ASSUME RequestInv, Edit
  PROVE  config' \in Text /\ edits' > 0 /\ edits' \in 0..MaxEdits /\ asked' \in 0..MaxWrites
BY PolicyAssumption DEF Edit, RequestInv, TypeOK

LEMMA EditKeeps ==
  ASSUME RequestInv, Witness, Edit
  PROVE  RequestInv'
<1>1. RestTyped'
  BY EditText, AnswersTypes DEF RequestInv, TypeOK, RestTyped, EventType, Edit, db, worker
<1> QED
  BY <1>1, EditText, RequestsStay DEF Edit, db

LEMMA DiscoverKeeps ==
  ASSUME RequestInv, Witness, NEW c \in Channels, Discover(c)
  PROVE  RequestInv'
<1>1. RestTyped'
  BY AnswersTypes DEF RequestInv, TypeOK, RestTyped, EventType, Discover, worker, bounds
<1> QED
  BY <1>1, RequestsStay DEF Discover, file, bounds, RequestInv, TypeOK

LEMMA SweepKeeps ==
  ASSUME RequestInv, Witness, StartSweep \/ ReadModel \/ Seed
  PROVE  RequestInv' /\ known \subseteq known'
<1>1. CASE StartSweep
  <2>1. sweeps' \in 0..MaxSweeps
    BY <1>1, PolicyAssumption DEF RequestInv, TypeOK, StartSweep
  <2>2. RestTyped'
    BY <1>1, <2>1, AnswersTypes DEF RequestInv, TypeOK, RestTyped, EventType, StartSweep, db, bounds
  <2> QED
    BY <1>1, <2>2, RequestsStay DEF StartSweep, file, db, bounds, RequestInv, TypeOK
<1>2. CASE ReadModel
  <2>1. RestTyped'
    BY <1>2, AnswersTypes DEF RequestInv, TypeOK, RestTyped, EventType, ReadModel, db, bounds
  <2> QED
    BY <1>2, <2>1, RequestsStay DEF ReadModel, file, db, bounds, RequestInv, TypeOK
<1>3. CASE Seed
  <2>1. table' \in [Channels -> {"none", "on", "off"}]
    BY <1>3 DEF RequestInv, TypeOK, Seed
  <2>2. RestTyped'
    BY <1>3, <2>1, AnswersTypes, PolicyAssumption DEF RequestInv, TypeOK, RestTyped, EventType, Seed, bounds
  <2> QED
    BY <1>3, <2>2, RequestsStay DEF Seed, file, bounds, RequestInv, TypeOK
<1> QED
  BY <1>1, <1>2, <1>3

-----------------------------------------------------------------------------
(* The steps of an event: what it becomes. *)

LEMMA EventFacts ==
  ASSUME TypeOK, NEW e \in Events
  PROVE  /\ ev[e] \in EventType /\ ev[e].yaml \in Text /\ ev[e].key \subseteq Channels /\ ev[e].ents \subseteq Channels
         /\ ev[e].model \in Model /\ ev[e].model.ok \in BOOLEAN /\ ev[e].model.exists \in BOOLEAN
         /\ ev[e].pc \in {"idle", "dir", "key", "cache", "entities", "load", "store", "decide"}
<1>1. ev[e] \in EventType
  BY DEF TypeOK, EventType
<1> QED
  BY <1>1 DEF EventType, Model

\* e becomes r; the cache is replaced only by Store.
Becomes(e, r) ==
  /\ r \in EventType /\ ev' = [ev EXCEPT ![e] = r] /\ ev'[e] = r /\ \A f \in Events \ {e} : ev'[f] = ev[f]
  /\ UNCHANGED <<file, db, worker, job, bounds>>

LEMMA NoEventTyped ==
  NoEvent \in EventType /\ NoEvent.pc = "idle" /\ NoEvent.yaml = Absent /\ NoEvent.key = {} /\ NoEvent.ents = {}
  /\ ~NoEvent.mixed
BY Texts DEF NoEvent, EventType, NoModel, Model

LEMMA ReadYamlStep ==
  ASSUME RequestInv, NEW e \in Events, NEW c \in Channels, ReadYaml(e, c)
  PROVE  \E r : /\ Becomes(e, r) /\ r.chan = c /\ r.yaml = config /\ r.ents = {} /\ r.key = {}
                /\ r.pc = (IF config = Absent THEN "dir" ELSE "key") /\ cache' = cache
<1>1. config \in Text /\ ev \in [Events -> EventType]
  BY DEF RequestInv, TypeOK, EventType
<1>2. PICK pc \in {"dir", "key"} : pc = (IF config = Absent THEN "dir" ELSE "key")
  OBVIOUS
<1>3. PICK r : r = [NoEvent EXCEPT !.chan = c, !.yaml = config, !.pc = pc]
  OBVIOUS
<1>4. r \in EventType
  BY <1>1, <1>3, NoEventTyped DEF EventType
<1>5. r.chan = c /\ r.yaml = config /\ r.pc = pc /\ r.ents = {} /\ r.key = {}
  BY <1>3, NoEventTyped DEF EventType
<1>6. ev' = [ev EXCEPT ![e] = r]
  BY <1>2, <1>3 DEF ReadYaml
<1> QED
  BY <1>1, <1>2, <1>4, <1>5, <1>6 DEF Becomes, ReadYaml

LEMMA ReadDirStep ==
  ASSUME RequestInv, NEW e \in Events, ReadDir(e)
  PROVE  \E r : /\ Becomes(e, r) /\ r.chan = ev[e].chan /\ r.yaml = ev[e].yaml /\ r.ents = ev[e].ents
                /\ r.pc = (IF config = Absent THEN "decide" ELSE "entities") /\ r.model = Compile(Absent, {})
                /\ r.key = ev[e].key /\ cache' = cache
<1>1. ev[e] \in EventType /\ ev \in [Events -> EventType] /\ Compile(Absent, {}) \in Model
  BY Texts, Compiles DEF RequestInv, TypeOK, EventType
<1>2. PICK pc \in {"decide", "entities"} : pc = (IF config = Absent THEN "decide" ELSE "entities")
  OBVIOUS
<1>3. PICK m \in Model : m = Compile(Absent, {})
  BY <1>1
<1>4. PICK r : r = [ev[e] EXCEPT !.pc = pc, !.model = m]
  OBVIOUS
<1>5. r \in EventType /\ r.chan = ev[e].chan /\ r.yaml = ev[e].yaml /\ r.ents = ev[e].ents /\ r.pc = pc /\ r.model = m
      /\ r.key = ev[e].key
  BY <1>1, <1>4 DEF EventType
<1>6. ev' = [ev EXCEPT ![e] = r]
  BY <1>1, <1>2, <1>3, <1>4 DEF ReadDir
<1> QED
  BY <1>1, <1>2, <1>3, <1>5, <1>6 DEF Becomes, ReadDir

LEMMA ReadKeyStep ==
  ASSUME RequestInv, NEW e \in Events, ReadKey(e)
  PROVE  \E r : /\ Becomes(e, r) /\ r.chan = ev[e].chan /\ r.yaml = ev[e].yaml /\ r.ents = ev[e].ents
                /\ r.pc = "cache" /\ r.key = known /\ cache' = cache
<1>1. ev[e] \in EventType /\ ev \in [Events -> EventType] /\ known \subseteq Channels
  BY DEF RequestInv, TypeOK, EventType
<1>2. PICK r : r = [ev[e] EXCEPT !.pc = "cache", !.key = known]
  OBVIOUS
<1>3. r \in EventType /\ r.chan = ev[e].chan /\ r.yaml = ev[e].yaml /\ r.ents = ev[e].ents /\ r.pc = "cache" /\ r.key = known
  BY <1>1, <1>2 DEF EventType
<1>4. ev' = [ev EXCEPT ![e] = r]
  BY <1>1, <1>2 DEF ReadKey
<1> QED
  BY <1>1, <1>3, <1>4 DEF Becomes, ReadKey

LEMMA ReadCacheStep ==
  ASSUME RequestInv, NEW e \in Events, ReadCache(e)
  PROVE  \E r : /\ Becomes(e, r) /\ r.chan = ev[e].chan /\ r.yaml = ev[e].yaml /\ r.ents = ev[e].ents
                /\ r.key = ev[e].key /\ cache' = cache
                /\ IF Hit(e) THEN r.pc = "decide" /\ r.model = cache.model /\ r.mixed = cache.mixed
                          ELSE r.pc = "entities"
<1>1. ev[e] \in EventType /\ ev \in [Events -> EventType] /\ cache.model \in Model /\ cache.mixed \in BOOLEAN
  BY DEF RequestInv, TypeOK, EventType
<1>2. CASE Hit(e)
  <2>1. PICK r : r = [ev[e] EXCEPT !.pc = "decide", !.model = cache.model, !.mixed = cache.mixed]
    OBVIOUS
  <2>2. r \in EventType /\ r.chan = ev[e].chan /\ r.yaml = ev[e].yaml /\ r.ents = ev[e].ents /\ r.pc = "decide"
        /\ r.key = ev[e].key /\ r.model = cache.model /\ r.mixed = cache.mixed
    BY <1>1, <2>1 DEF EventType
  <2>3. ev' = [ev EXCEPT ![e] = r]
    BY <1>1, <1>2, <2>1 DEF ReadCache
  <2> QED
    BY <1>1, <1>2, <2>2, <2>3 DEF Becomes, ReadCache
<1>3. CASE ~Hit(e)
  <2>1. PICK r : r = [ev[e] EXCEPT !.pc = "entities"]
    OBVIOUS
  <2>2. r \in EventType /\ r.chan = ev[e].chan /\ r.yaml = ev[e].yaml /\ r.ents = ev[e].ents /\ r.pc = "entities"
        /\ r.key = ev[e].key
    BY <1>1, <2>1 DEF EventType
  <2>3. ev' = [ev EXCEPT ![e] = r]
    BY <1>1, <1>3, <2>1 DEF ReadCache
  <2> QED
    BY <1>1, <1>3, <2>2, <2>3 DEF Becomes, ReadCache
<1> QED
  BY <1>2, <1>3

LEMMA ReadModelEntitiesStep ==
  ASSUME RequestInv, NEW e \in Events, ReadModelEntities(e)
  PROVE  \E r : /\ Becomes(e, r) /\ r.chan = ev[e].chan /\ r.yaml = ev[e].yaml /\ r.ents = known
                /\ r.pc = "load" /\ r.key = ev[e].key /\ cache' = cache
<1>1. ev[e] \in EventType /\ ev \in [Events -> EventType] /\ known \subseteq Channels
  BY DEF RequestInv, TypeOK, EventType
<1>2. PICK r : r = [ev[e] EXCEPT !.pc = "load", !.ents = known]
  OBVIOUS
<1>3. r \in EventType /\ r.chan = ev[e].chan /\ r.yaml = ev[e].yaml /\ r.ents = known /\ r.pc = "load" /\ r.key = ev[e].key
  BY <1>1, <1>2 DEF EventType
<1>4. ev' = [ev EXCEPT ![e] = r]
  BY <1>1, <1>2 DEF ReadModelEntities
<1> QED
  BY <1>1, <1>3, <1>4 DEF Becomes, ReadModelEntities

LEMMA LoadStep ==
  ASSUME RequestInv, NEW e \in Events, Load(e)
  PROVE  \E r : /\ Becomes(e, r) /\ r.chan = ev[e].chan /\ r.yaml = ev[e].yaml /\ r.ents = ev[e].ents
                /\ r.key = ev[e].key /\ cache' = cache /\ r.model = Compile(config, ev[e].ents)
                /\ r.pc = (IF r.model.ok /\ r.yaml # Absent THEN "store" ELSE "decide")
                /\ r.mixed <=> r.pc = "store" /\ config # r.yaml
<1>1. ev[e] \in EventType /\ ev \in [Events -> EventType] /\ Compile(config, ev[e].ents) \in Model
  BY Compiles, EventFacts DEF RequestInv, TypeOK, EventType
<1>2. PICK m \in Model : m = Compile(config, ev[e].ents)
  BY <1>1
<1>3. PICK pc \in {"store", "decide"} : pc = (IF m.ok /\ ev[e].yaml # Absent THEN "store" ELSE "decide")
  OBVIOUS
<1>0. PICK x \in BOOLEAN : x = (m.ok /\ ev[e].yaml # Absent /\ config # ev[e].yaml)
  OBVIOUS
<1>4. PICK r : r = [ev[e] EXCEPT !.model = m, !.pc = pc, !.mixed = x]
  OBVIOUS
<1>5. r \in EventType /\ r.chan = ev[e].chan /\ r.yaml = ev[e].yaml /\ r.ents = ev[e].ents /\ r.pc = pc /\ r.model = m
      /\ r.key = ev[e].key /\ r.mixed = x
  BY <1>1, <1>4 DEF EventType
<1>6. ev' = [ev EXCEPT ![e] = r]
  BY <1>0, <1>1, <1>2, <1>3, <1>4 DEF Load
<1>8. x <=> pc = "store" /\ config # ev[e].yaml
  BY <1>0, <1>3
<1>7. Becomes(e, r) /\ cache' = cache
  BY <1>1, <1>5, <1>6 DEF Becomes, Load
<1> QED
  BY <1>2, <1>3, <1>5, <1>7, <1>8

LEMMA StoreStep ==
  ASSUME RequestInv, NEW e \in Events, Store(e)
  PROVE  \E r : /\ Becomes(e, r) /\ r.chan = ev[e].chan /\ r.yaml = ev[e].yaml /\ r.ents = ev[e].ents
                /\ r.key = ev[e].key /\ r.model = ev[e].model /\ r.pc = "decide" /\ r.mixed = FALSE
                /\ cache'.yaml = ev[e].yaml /\ cache'.key = ev[e].key /\ cache'.model = ev[e].model
                /\ cache'.mixed = ev[e].mixed
                /\ cache' \in [yaml: Text, key: SUBSET Channels, model: Model, mixed: BOOLEAN]
<1>1. ev[e] \in EventType /\ ev \in [Events -> EventType]
  BY DEF RequestInv, TypeOK, EventType
<1>2. PICK r : r = [ev[e] EXCEPT !.pc = "decide", !.mixed = FALSE]
  OBVIOUS
<1>3. r \in EventType /\ r.chan = ev[e].chan /\ r.yaml = ev[e].yaml /\ r.ents = ev[e].ents /\ r.pc = "decide"
      /\ r.key = ev[e].key /\ r.model = ev[e].model /\ r.mixed = FALSE
  BY <1>1, <1>2 DEF EventType
<1>4. ev' = [ev EXCEPT ![e] = r]
  BY <1>1, <1>2 DEF Store
<1>5. cache' = [yaml |-> ev[e].yaml, key |-> ev[e].key, model |-> ev[e].model, mixed |-> ev[e].mixed]
  BY DEF Store
<1>6. cache' \in [yaml: Text, key: SUBSET Channels, model: Model, mixed: BOOLEAN]
  BY <1>1, <1>5 DEF EventType
<1>7. /\ cache'.yaml = ev[e].yaml /\ cache'.key = ev[e].key /\ cache'.model = ev[e].model
      /\ cache'.mixed = ev[e].mixed
  BY <1>5
<1>8. Becomes(e, r)
  BY <1>1, <1>3, <1>4 DEF Becomes, Store
<1> QED
  BY <1>3, <1>6, <1>7, <1>8

LEMMA DecideStep ==
  ASSUME RequestInv, NEW e \in Events, Decide(e)
  PROVE  Becomes(e, NoEvent) /\ cache' = cache
<1>1. ev \in [Events -> EventType]
  BY DEF RequestInv, TypeOK, EventType
<1> QED
  BY <1>1, NoEventTyped DEF Becomes, Decide

LEMMA BecomesKeeps ==
  ASSUME RequestInv, Witness, NEW e \in Events, NEW r, Becomes(e, r),
         cache' = cache \/ (cache' \in [yaml: Text, key: SUBSET Channels, model: Model, mixed: BOOLEAN] /\ cache'.model.ok)
  PROVE  RequestInv'
<1>1. RestTyped'
  BY AnswersTypes DEF RequestInv, TypeOK, RestTyped, Becomes, EventType, db, worker, bounds
<1> QED
  BY <1>1, RequestsStay DEF Becomes, file, db, bounds, RequestInv, TypeOK
LEMMA DispatchKeeps ==
  ASSUME RequestInv, Storable, Witness, NEW e \in Events, Dispatch(e)
  PROVE  RequestInv' /\ Storable' /\ \E r : Becomes(e, r)
<1>1. PICK r : /\ Becomes(e, r) /\ (r.pc = "store" => r.model.ok /\ r.yaml # Absent)
               /\ cache' = cache \/ (cache' \in [yaml: Text, key: SUBSET Channels, model: Model, mixed: BOOLEAN] /\ cache'.model.ok)
  <2>1. CASE \E c \in Channels : ReadYaml(e, c)
    <3>1. PICK c \in Channels : ReadYaml(e, c)
      BY <2>1
    <3> QED
      BY <3>1, ReadYamlStep
  <2>2. CASE ReadDir(e)
    BY <2>2, ReadDirStep
  <2>3. CASE ReadKey(e)
    BY <2>3, ReadKeyStep
  <2>4. CASE ReadCache(e)
    BY <2>4, ReadCacheStep
  <2>5. CASE ReadModelEntities(e)
    BY <2>5, ReadModelEntitiesStep
  <2>6. CASE Load(e)
    BY <2>6, LoadStep
  <2>7. CASE Store(e)
    <3>1. ev[e].model.ok
      BY <2>7 DEF Storable, Store
    <3> QED
      BY <2>7, <3>1, StoreStep
  <2>8. CASE Decide(e)
    BY <2>8, DecideStep, NoEventTyped
  <2> QED
    BY <2>1, <2>2, <2>3, <2>4, <2>5, <2>6, <2>7, <2>8 DEF Dispatch
<1>2. RequestInv'
  BY <1>1, BecomesKeeps
<1>3. Storable'
  BY <1>1 DEF Storable, Becomes, Calls
<1> QED
  BY <1>1, <1>2, <1>3

LEMMA RequestKeeps ==
  ASSUME RequestInv, Witness, NEW h \in Handlers, Request(h)
  PROVE  RequestInv'
<1>1. CASE \E c \in Channels, kind \in {"select", "row"}, change \in {"on", "off", "keep"} : BeginSet(h, c, kind, change)
  BY <1>1, BeginSetKeeps
<1>2. CASE \E t \in Declared : BeginSave(h, t)
  BY <1>2, BeginSaveKeeps
<1> QED
  BY <1>1, <1>2, ReadEntitiesKeeps, LockKeeps, RefuseKeeps, PublishKeeps, SaveRowKeeps, RowFailsKeeps, MarkKeeps
  DEF Request

LEMMA RequestNext ==
  ASSUME RequestInv, Storable, [Next]_pvars
  PROVE  RequestInv' /\ Storable'
<1>1. CASE UNCHANGED pvars
  <2>1. TypeOK'
    BY <1>1 DEF pvars, file, db, worker, bounds, history, RequestInv, TypeOK
  <2>2. \A h \in Handlers : Requested(h)'
    BY <1>1, RequestedKept DEF pvars, file, db, bounds, RequestInv
  <2> QED
    BY <1>1, <2>1, <2>2 DEF pvars, RequestInv, Storable, Calls
<1>2. CASE Step /\ Witness
  <2>1. CASE Edit
    BY <1>2, <2>1, EditKeeps DEF Edit, Storable, Calls
  <2>2. CASE \E c \in Channels : Discover(c)
    BY <1>2, <2>2, DiscoverKeeps DEF Discover, Storable, Calls
  <2>3. CASE \E h \in Handlers : Request(h)
    <3>1. ev' = ev
      BY <2>3 DEF Request, BeginSet, BeginSave, ReadEntities, Lock, Refuse, Publish, SaveRow, RowFails, Mark
    <3> QED
      BY <1>2, <2>3, <3>1, RequestKeeps DEF Storable, Calls
  <2>4. CASE StartSweep \/ ReadModel \/ Seed
    <3>1. ev' = ev
      BY <2>4 DEF StartSweep, ReadModel, Seed
    <3> QED
      BY <1>2, <2>4, <3>1, SweepKeeps DEF Storable, Calls
  <2>5. CASE \E e \in Events : Dispatch(e)
    BY <1>2, <2>5, DispatchKeeps
  <2> QED
    BY <1>2, <2>1, <2>2, <2>3, <2>4, <2>5 DEF Step
<1> QED
  BY <1>1, <1>2 DEF Next

\* The file is written by hand or under the lock.
LEMMA FileWrites ==
  ASSUME [Next]_pvars
  PROVE  config' = config \/ Edit \/ \E h \in Handlers : Publish(h)
<1>1. CASE \E h \in Handlers : Request(h)
  BY <1>1 DEF Request, BeginSet, BeginSave, ReadEntities, Lock, Refuse, SaveRow, RowFails, Mark, file
<1>2. CASE \E e \in Events : Dispatch(e)
  BY <1>2 DEF Dispatch, ReadYaml, ReadDir, ReadKey, ReadCache, ReadModelEntities, Load, Store, Decide, file
<1>3. CASE StartSweep \/ ReadModel \/ Seed \/ \E c \in Channels : Discover(c)
  BY <1>3 DEF StartSweep, ReadModel, Seed, Discover, file
<1> QED
  BY <1>1, <1>2, <1>3 DEF Next, Step, pvars, file

LEMMA FirstConfig ==
  ASSUME Init
  PROVE  config \in Text /\ (config = Absent \/ config \in Declared)
BY Texts DEF Init

LEMMA InitRequests ==
  ASSUME Init
  PROVE  RequestInv /\ Storable
<1>1. /\ NoCache \in [yaml: Text, key: SUBSET Channels, model: Model, mixed: BOOLEAN]
      /\ 0 \in 0..MaxWrites /\ 0 \in 0..MaxEdits /\ 0 \in 0..MaxFaults /\ 0 \in 0..MaxSweeps
  BY Texts, PolicyAssumption DEF NoCache, NoModel, Model
<1>2. RestTyped
  BY <1>1, FirstConfig, NoEventTyped DEF Init, RestTyped
<1>3. TypeOK
  BY <1>2, FirstConfig, NoJobTyped, PolicyAssumption, TypeParts DEF Init
<1>4. \A h \in Handlers : Requested(h)
  BY NoJobTyped DEF Init, Requested, At, Pending
<1> QED
  BY <1>3, <1>4, NoEventTyped DEF RequestInv, Storable, Calls, Init

\* Requests do what they rely on, with any number of them, of events and of edits by
\* hand (selected, set_channel and _config_lock).
THEOREM RequestsAreSound == Spec => [](RequestInv /\ Storable)
<1>1. Init => RequestInv /\ Storable
  BY InitRequests
<1>2. RequestInv /\ Storable /\ [Next]_pvars => (RequestInv /\ Storable)'
  BY RequestNext
<1> QED
  BY <1>1, <1>2, PTL DEF Spec

\* Setting one channel leaves the others as they are (_config_lock, dc_model.py).
THEOREM RowsAreApart == Spec => OneRowAtATime
<1>1. ASSUME RequestInv, [Next]_pvars
      PROVE  [\A h \in Handlers :
                At(h, "write") /\ job'[h].pc # "write" /\ job[h].kind # "save" /\ config.file = "valid" /\ edits = 0 =>
                  \A c \in Channels \ {job[h].chan} : config'.own[c] = config.own[c]]_pvars
  <2> SUFFICES ASSUME NEW h \in Handlers, At(h, "write"), job'[h].pc # "write", job[h].kind # "save",
                      config.file = "valid", edits = 0, NEW c \in Channels \ {job[h].chan}
               PROVE  config'.own[c] = config.own[c]
    OBVIOUS
  <2>1. CASE config' = config
    BY <2>1
  <2>2. CASE Edit
    BY <2>2 DEF Edit, At
  <2>3. CASE \E g \in Handlers : Publish(g)
    <3>1. PICK g \in Handlers : Publish(g)
      BY <2>3
    <3>2. g = h
      BY <1>1, <3>1 DEF RequestInv, Requested, Publish
    <3>3. job[h].text.own[c] = config.own[c]
      BY <1>1 DEF RequestInv, Requested
    <3>4. config'.own = job[h].text.own
      BY <3>1, <3>2 DEF Publish
    <3> QED
      BY <3>3, <3>4
  <2>4. config' = config \/ Edit \/ \E g \in Handlers : Publish(g)
    BY <1>1, FileWrites
  <2> QED
    BY <2>1, <2>2, <2>3, <2>4
<1> QED
  BY <1>1, RequestsAreSound, PTL DEF Spec, OneRowAtATime
\* A request that is to write its marker.
ToMark(h) == job[h].pc \in {"row", "mark"}

LEMMA RequestMarks ==
  ASSUME RequestInv, NEW h \in Handlers, Request(h), NEW g \in Handlers, ToMark(g), faults' = 0
  PROVE  marker' \/ ToMark(g)'
<1>0. faults \in Nat /\ job \in [Handlers -> JobType]
  BY PolicyAssumption, TypeParts DEF RequestInv, TypeOK
<1>1. CASE g # h \/ ~ToMark(h)
  <2>1. job'[g] = job[g] \/ g = h
    BY <1>0 DEF Request, BeginSet, BeginSave, ReadEntities, Lock, Refuse, Publish, SaveRow, RowFails, Mark, Ends, Goes
  <2> QED
    BY <1>1, <2>1 DEF ToMark
<1>2. CASE g = h /\ ToMark(h)
  <2>0. ~At(h, "idle") /\ ~At(h, "entities") /\ ~At(h, "lock") /\ ~At(h, "write")
    BY <1>2 DEF ToMark, At
  <2>1. SaveRow(h) \/ RowFails(h) \/ Mark(h)
    <3>1. /\ ~\E c \in Channels, kind \in {"select", "row"}, change \in {"on", "off", "keep"} : BeginSet(h, c, kind, change)
          /\ ~\E t \in Declared : BeginSave(h, t)
      BY <2>0 DEF BeginSet, BeginSave
    <3>2. ~ReadEntities(h) /\ ~Lock(h) /\ ~Refuse(h) /\ ~Publish(h)
      BY <2>0 DEF ReadEntities, Lock, Refuse, Publish
    <3> QED
      BY <3>1, <3>2 DEF Request
  <2>2. CASE SaveRow(h)
    BY <1>0, <1>2, <2>2 DEF SaveRow, Goes, ToMark
  <2>3. CASE RowFails(h)
    BY <1>0, <2>3 DEF RowFails
  <2>4. CASE Mark(h)
    BY <2>4 DEF Mark
  <2> QED
    BY <2>1, <2>2, <2>3, <2>4
<1> QED
  BY <1>1, <1>2

LEMMA WakeKept ==
  ASSUME RequestInv, SavesWake, [Next]_pvars
  PROVE  SavesWake'
<1> SUFFICES ASSUME swept' # config', faults' = 0, edits' = 0
             PROVE  marker' \/ sweep' = "reading" \/ \E h \in Handlers : ToMark(h)'
  BY DEF SavesWake, ToMark
<1>0. faults \in Nat /\ edits \in Nat /\ job \in [Handlers -> JobType]
  BY PolicyAssumption, TypeParts DEF RequestInv, TypeOK
<1>1. CASE \E h \in Handlers : Publish(h)
  <2>1. PICK h \in Handlers : Publish(h)
    BY <1>1
  <2>2. ToMark(h)'
    BY <1>0, <2>1 DEF Publish, Goes, ToMark
  <2> QED
    BY <2>2
<1>2. CASE \E h \in Handlers : Request(h) /\ ~Publish(h)
  <2>1. PICK h \in Handlers : Request(h) /\ ~Publish(h)
    BY <1>2
  <2>2. config' = config /\ swept' = swept /\ sweep' = sweep /\ (marker' = marker \/ Mark(h)) /\ edits' = edits
        /\ (faults' = faults \/ faults' = faults + 1)
    <3>1. ASSUME NEW c \in Channels, NEW kind \in {"select", "row"}, NEW change \in {"on", "off", "keep"}, BeginSet(h, c, kind, change)
          PROVE  UNCHANGED <<config, swept, sweep, marker, edits, faults>>
      BY <3>1 DEF BeginSet, file, worker
    <3>2. ASSUME NEW t \in Declared, BeginSave(h, t)
          PROVE  UNCHANGED <<config, swept, sweep, marker, edits, faults>>
      BY <3>2 DEF BeginSave, file, worker
    <3>3. CASE ReadEntities(h) \/ Lock(h) \/ Refuse(h) \/ SaveRow(h)
      BY <3>3 DEF ReadEntities, Lock, Refuse, SaveRow, file, worker, bounds
    <3>4. CASE RowFails(h)
      BY <3>4 DEF RowFails, file, worker
    <3>5. CASE Mark(h)
      BY <3>5 DEF Mark, file, bounds
    <3> QED
      BY <2>1, <3>1, <3>2, <3>3, <3>4, <3>5 DEF Request
  <2>4. Mark(h) => marker'
    BY DEF Mark
  <2>3. marker \/ sweep = "reading" \/ \E g \in Handlers : ToMark(g)
    BY <1>0, <2>2 DEF SavesWake, ToMark
  <2> QED
    BY <2>1, <2>2, <2>3, <2>4, RequestMarks
<1>3. CASE UNCHANGED pvars \/ (\E c \in Channels : Discover(c)) \/ Seed \/ \E e \in Events : Dispatch(e)
  <2>1. UNCHANGED <<config, swept, marker, job, edits, faults>> /\ (sweep' = sweep \/ sweep = "seeding")
    BY <1>3 DEF pvars, Discover, Seed, Dispatch, ReadYaml, ReadDir, ReadKey, ReadCache, ReadModelEntities, Load, Store, Decide,
                file, worker, bounds
  <2> QED
    BY <2>1 DEF SavesWake, ToMark
<1>4. CASE StartSweep
  BY <1>4 DEF StartSweep
<1>5. CASE ReadModel
  BY <1>5 DEF ReadModel, file
<1>6. CASE Edit
  BY <1>0, <1>6 DEF Edit
<1> QED
  BY <1>1, <1>2, <1>3, <1>4, <1>5, <1>6 DEF Next, Step

\* A saved model is read by a sweep that starts after it, or the sweep is on its way, for
\* any number of saves, rows and sweeps (the "mark" of hook 220 and the poll of service.py).
THEOREM SavesAlwaysWake == Spec => []SavesWake
<1>1. Init => SavesWake
  BY DEF Init, SavesWake
<1>2. RequestInv /\ SavesWake /\ [Next]_pvars => SavesWake'
  BY WakeKept
<1> QED
  BY <1>1, <1>2, RequestsAreSound, PTL DEF Spec
-----------------------------------------------------------------------------
(* The steps around the events. *)

LEMMA Assembled ==
  ASSUME PolicyInv, Witness, Around, RequestInv', Storable', FirstFile',
         \A e \in Events : TableSaid(e)'
  PROVE  PolicyInv'
<1>1. Sources' /\ Past' /\ \A e \in Events : Heard(e)' /\ ReadBy(e)' /\ Decided(e)'
  BY AroundKeeps
<1> QED
  BY <1>1 DEF PolicyInv

LEMMA Counters ==
  ASSUME RequestInv
  PROVE  asked \in Nat /\ edits \in Nat /\ faults \in Nat /\ sweeps \in Nat /\ MaxWrites \in Nat
BY PolicyAssumption DEF RequestInv, TypeOK

LEMMA EditPolicy ==
  ASSUME PolicyInv, Witness, Edit
  PROVE  PolicyInv'
<1>0. RequestInv /\ RequestInv' /\ Storable' /\ FirstFile
  BY EditKeeps DEF PolicyInv, Storable, Edit, Calls
<1>1. edits' > 0 /\ UNCHANGED <<cache, ev, job, db, worker>>
  BY <1>0, Counters DEF Edit
<1>2. Around
  BY <1>1 DEF Around, db
<1>3. FirstFile'
  BY <1>0, <1>1, Counters DEF FirstFile, Ticked, db, worker
<1>4. \A e \in Events : TableSaid(e)'
  BY <1>1 DEF TableSaid
<1> QED
  BY <1>0, <1>2, <1>3, <1>4, Assembled

LEMMA DiscoverPolicy ==
  ASSUME PolicyInv, Witness, NEW c \in Channels, Discover(c)
  PROVE  PolicyInv'
<1>0. RequestInv /\ RequestInv' /\ Storable'
  BY DiscoverKeeps DEF PolicyInv, Storable, Discover, Calls
<1>1. Around
  BY DEF Around, Discover, file, bounds
<1>3. FirstFile'
  BY DEF PolicyInv, FirstFile, Ticked, Discover, file, worker, bounds, At
<1>4. \A e \in Events : TableSaid(e)'
  <2>1. table' = table /\ sweeps' = sweeps /\ edits' = edits /\ job' = job
    BY DEF Discover, worker, bounds
  <2> QED
    BY <1>0, <1>1, <2>1, Counters, TableKept
<1> QED
  BY <1>0, <1>1, <1>3, <1>4, Assembled

LEMMA SweepPolicy ==
  ASSUME PolicyInv, Witness, StartSweep \/ ReadModel \/ Seed
  PROVE  PolicyInv'
<1>0. RequestInv /\ RequestInv' /\ Storable' /\ known \subseteq known'
  BY SweepKeeps DEF PolicyInv, Storable, StartSweep, ReadModel, Seed, Calls
<1>1. /\ UNCHANGED <<config, lock, cache, ev, job, asked, edits>>
      /\ sweeps' = sweeps \/ sweeps' = sweeps + 1
  BY DEF StartSweep, ReadModel, Seed, file, bounds
<1>2. Around
  BY <1>0, <1>1 DEF Around
<1>4. (sweep' # "idle" => sweeps' > 0) /\ (table' # table => sweeps' > 0)
  BY <1>0, Counters DEF PolicyInv, FirstFile, StartSweep, ReadModel, Seed, db
<1>5. Ticked' \subseteq known'
  <2>1. CASE table' = table
    BY <1>0, <2>1 DEF PolicyInv, FirstFile, Ticked
  <2>2. CASE Seed
    BY <2>2 DEF PolicyInv, FirstFile, Ticked, Seed
  <2> QED
    BY <2>1, <2>2 DEF StartSweep, ReadModel, db
<1>6. FirstFile'
  BY <1>1, <1>4, <1>5 DEF PolicyInv, FirstFile, At
<1>7. \A e \in Events : TableSaid(e)'
  <2>1. CASE table' = table
    BY <1>0, <1>1, <1>2, <2>1, Counters, TableKept
  <2>2. CASE table' # table
    BY <1>4, <2>2 DEF TableSaid
  <2> QED
    BY <2>1, <2>2
<1> QED
  BY <1>0, <1>2, <1>6, <1>7, Assembled
-----------------------------------------------------------------------------
(* The steps of a request. *)

StillAround == UNCHANGED <<config, known, sweep, sweeps, cache, ev, edits>>

LEMMA StillIsAround == StillAround => Around
BY DEF StillAround, Around

LEMMA FirstFileStays ==
  ASSUME FirstFile, StillAround, table' = table, \A h \in Handlers : At(h, "row")' => At(h, "row")
  PROVE  FirstFile'
BY DEF FirstFile, StillAround, Ticked

LEMMA QuietPolicy ==
  ASSUME PolicyInv, Witness, RequestInv', StillAround, table' = table,
         \A g \in Handlers : At(g, "row")' => job'[g] = job[g]
  PROVE  PolicyInv'
<1>0. RequestInv /\ FirstFile /\ Storable' /\ edits' = edits /\ sweeps' = sweeps
  BY DEF PolicyInv, Storable, StillAround, Calls
<1>1. FirstFile'
  BY <1>0, FirstFileStays DEF At
<1>2. \A e \in Events : TableSaid(e)'
  BY <1>0, Counters, StillIsAround, TableKept
<1> QED
  BY <1>0, <1>1, <1>2, StillIsAround, Assembled

LEMMA PublishPolicy ==
  ASSUME PolicyInv, Witness, NEW h \in Handlers, Publish(h)
  PROVE  PolicyInv'
<1>0. /\ RequestInv /\ RequestInv' /\ Storable' /\ FirstFile
      /\ config' \in Text /\ config' # Absent
  BY PublishKeeps DEF PolicyInv, Storable, Publish, Calls
<1>1. /\ UNCHANGED <<known, table, sweep, sweeps, cache, ev, asked, edits>>
      /\ At(h, "write") /\ Pending(h) /\ Requested(h) /\ job[h].text \in Declared
  BY <1>0 DEF Publish, db, worker, bounds, RequestInv, Requested, Pending, At
<1>2. config'.file = "valid" /\ config' = job[h].text
  <2>1. job[h].text \in Text /\ job[h].text # Absent /\ job[h].text.file = "valid"
    BY <1>1, Texts, TextTypes
  <2> QED
    BY <2>1 DEF Publish
<1>3. PICK pc \in {"row", "mark"} : pc = (IF job[h].kind = "select" THEN "row" ELSE "mark")
  OBVIOUS
<1>4. job[h] \in JobType
  BY <1>0, JobFacts DEF RequestInv
<1>5. /\ job'[h].pc = pc /\ job'[h].kind = job[h].kind /\ job'[h].chan = job[h].chan /\ job'[h].change = job[h].change
      /\ \A g \in Handlers \ {h} : job'[g] = job[g]
  BY <1>0, <1>3, <1>4, TypeParts DEF Publish, Goes, RequestInv, JobType
<1>6. Around
  BY <1>1 DEF Around
<1>8. FirstFile'
  BY <1>0, <1>1 DEF FirstFile, Ticked
<1>9. ASSUME NEW e \in Events
      PROVE  TableSaid(e)'
  <2> SUFFICES ASSUME edits' = 0, sweeps' = 0, Compiled(e)', ev'[e].model.ok, ~ev'[e].model.exists
               PROVE  /\ IF table'[ev'[e].chan] = "on" THEN SaidOn(e)' ELSE SaidOff(e)'
                      /\ \A g \in Handlers : At(g, "row")' /\ job'[g].chan = ev'[e].chan =>
                           IF job'[g].change = "on" THEN SaidOn(e)' ELSE SaidOff(e)'
    BY DEF TableSaid
  <2>1. edits = 0 /\ sweeps = 0 /\ ev'[e] = ev[e] /\ Compiled(e) /\ ~Calls(e, "idle")' /\ ~Calls(e, "idle")
    BY <1>1 DEF Compiled, Calls
  <2>2. /\ IF table[ev[e].chan] = "on" THEN SaidOn(e) ELSE SaidOff(e)
        /\ \A g \in Handlers : At(g, "row") /\ job[g].chan = ev[e].chan =>
             IF job[g].change = "on" THEN SaidOn(e) ELSE SaidOff(e)
    BY <1>1, <2>1 DEF PolicyInv, TableSaid
  <2>3. (SaidOn(e) => SaidOn(e)') /\ (SaidOff(e) => SaidOff(e)')
    BY <2>1, AnswersGrow
  <2>4. ASSUME At(h, "row")', job'[h].chan = ev'[e].chan
        PROVE  IF job'[h].change = "on" THEN SaidOn(e)' ELSE SaidOff(e)'
    <3>1. /\ job[h].kind = "select" /\ job[h].change \in {"on", "off"} /\ job[h].chan = ev[e].chan
          /\ ev[e].chan \in Channels /\ ev[e].chan \in known
      BY <1>0, <1>1, <1>3, <1>5, <2>1, <2>4, JobFacts DEF At, Requested, RequestInv, TypeOK
    <3>2. /\ config'.own[ev[e].chan] = job[h].change /\ RowsOf(config') \subseteq known
      BY <1>1, <1>2, <3>1 DEF Requested, RowsOf
    <3>3. SaysSo(ev[e].chan)' <=> job[h].change = "on"
      BY <1>0, <1>1, <1>2, <2>1, <3>1, <3>2 DEF SaysSo, Lists
    <3>4. Says(ev[e].chan)' <=> job[h].change = "on"
      <4>1. PICK c \in Channels : c = ev[e].chan
        BY <3>1
      <4>2. Says(c)' <=> SaysSo(c)'
        BY <1>0, SaysNext DEF SaysKnown, RequestInv
      <4>3. Says(ev[e].chan)' <=> Says(c)'
        BY <2>1, <4>1
      <4>4. SaysSo(ev[e].chan)' <=> SaysSo(c)'
        BY <2>1, <4>1
      <4> QED
        BY <3>3, <4>2, <4>3, <4>4
    <3>5. IF Says(ev[e].chan)' THEN SaidOn(e)' ELSE SaidOff(e)'
      BY <2>1, AnswersGrow DEF Heard
    <3> QED
      BY <1>5, <3>4, <3>5
  <2>5. \A g \in Handlers \ {h} : At(g, "row")' => At(g, "row")
    BY <1>5 DEF At
  <2> QED
    BY <1>1, <1>5, <2>1, <2>2, <2>3, <2>4, <2>5
<1> QED
  BY <1>0, <1>6, <1>8, <1>9, Assembled

LEMMA SaveRowPolicy ==
  ASSUME PolicyInv, Witness, NEW h \in Handlers, SaveRow(h)
  PROVE  PolicyInv'
<1>0. RequestInv /\ RequestInv' /\ Storable' /\ FirstFile
  BY SaveRowKeeps DEF PolicyInv, Storable, SaveRow, Calls
<1>1. /\ StillAround /\ asked' = asked /\ At(h, "row") /\ table' = [table EXCEPT ![job[h].chan] = job[h].change]
      /\ UNCHANGED <<edits, sweeps>>
  BY DEF SaveRow, StillAround, file, worker, bounds
<1>2. Requested(h) /\ job[h].kind = "select" /\ job[h].chan \in known /\ known \subseteq Channels /\ job[h] \in JobType
  BY <1>0, <1>1, JobFacts DEF RequestInv, Requested, At, TypeOK
<1>3. job'[h].pc = "mark" /\ \A g \in Handlers \ {h} : job'[g] = job[g]
  BY <1>0, <1>2, TypeParts DEF SaveRow, Goes, RequestInv, JobType
<1>4. table' \in [Channels -> {"none", "on", "off"}] /\ table'[job[h].chan] = job[h].change
      /\ \A c \in Channels \ {job[h].chan} : table'[c] = table[c]
  BY <1>0, <1>1, <1>2 DEF RequestInv, TypeOK
<1>6. FirstFile'
  <2>1. Ticked' \subseteq known'
    BY <1>0, <1>1, <1>2, <1>4 DEF FirstFile, Ticked, StillAround
  <2> QED
    BY <1>0, <1>1, <1>3, <2>1 DEF FirstFile, StillAround, At
<1>7. ASSUME NEW e \in Events
      PROVE  TableSaid(e)'
  <2> SUFFICES ASSUME edits' = 0, sweeps' = 0, Compiled(e)', ev'[e].model.ok, ~ev'[e].model.exists
               PROVE  /\ IF table'[ev'[e].chan] = "on" THEN SaidOn(e)' ELSE SaidOff(e)'
                      /\ \A g \in Handlers : At(g, "row")' /\ job'[g].chan = ev'[e].chan =>
                           IF job'[g].change = "on" THEN SaidOn(e)' ELSE SaidOff(e)'
    BY DEF TableSaid
  <2>1. edits = 0 /\ sweeps = 0 /\ ev'[e] = ev[e] /\ Compiled(e) /\ ~Calls(e, "idle")' /\ ev[e].chan \in Channels
    BY <1>1 DEF Compiled, Calls, StillAround, PolicyInv, ReadBy
  <2>2. /\ IF table[ev[e].chan] = "on" THEN SaidOn(e) ELSE SaidOff(e)
        /\ \A g \in Handlers : At(g, "row") /\ job[g].chan = ev[e].chan =>
             IF job[g].change = "on" THEN SaidOn(e) ELSE SaidOff(e)
    BY <1>1, <2>1 DEF PolicyInv, TableSaid
  <2>3. (SaidOn(e) => SaidOn(e)') /\ (SaidOff(e) => SaidOff(e)')
    BY <2>1, AnswersGrow
  <2>4. \A g \in Handlers : At(g, "row")' => g # h /\ At(g, "row") /\ job'[g] = job[g]
    BY <1>3 DEF At
  <2>5. CASE ev[e].chan = job[h].chan
    BY <1>1, <1>4, <2>1, <2>2, <2>3, <2>4, <2>5
  <2>6. CASE ev[e].chan # job[h].chan
    BY <1>4, <2>1, <2>2, <2>3, <2>4, <2>6
  <2> QED
    BY <2>5, <2>6
<1> QED
  BY <1>0, <1>1, <1>6, <1>7, StillIsAround, Assembled

LEMMA RequestPolicy ==
  ASSUME PolicyInv, Witness, NEW h \in Handlers, Request(h)
  PROVE  PolicyInv'
<1>0. RequestInv /\ RequestInv' /\ job \in [Handlers -> JobType] /\ job[h] \in JobType
  BY RequestKeeps, TypeParts, JobFacts DEF PolicyInv, RequestInv
<1>1. ASSUME NEW c \in Channels, NEW kind \in {"select", "row"}, NEW change \in {"on", "off", "keep"}, BeginSet(h, c, kind, change)
      PROVE  PolicyInv'
  <2>1. StillAround /\ table' = table
    BY <1>1 DEF StillAround, BeginSet, file, db, worker
  <2>2. job'[h].pc = "entities" /\ \A g \in Handlers \ {h} : job'[g] = job[g]
    BY <1>0, <1>1 DEF BeginSet
  <2> QED
    BY <1>0, <2>1, <2>2, QuietPolicy DEF At
<1>2. ASSUME NEW t \in Declared, BeginSave(h, t)
      PROVE  PolicyInv'
  <2>1. StillAround /\ table' = table
    BY <1>2 DEF StillAround, BeginSave, file, db, worker
  <2>2. PICK r : r = [NoJob EXCEPT !.pc = "entities", !.kind = "save", !.text = t]
    OBVIOUS
  <2>3. r.pc = "entities"
    BY <2>2, NoJobTyped DEF JobType
  <2>4. job'[h] = r /\ \A g \in Handlers \ {h} : job'[g] = job[g]
    BY <1>0, <1>2, <2>2 DEF BeginSave
  <2> QED
    BY <1>0, <2>1, <2>3, <2>4, QuietPolicy DEF At
<1>3. CASE ReadEntities(h) \/ Lock(h) \/ Refuse(h) \/ RowFails(h) \/ Mark(h)
  <2>1. StillAround /\ table' = table
    BY <1>3 DEF StillAround, ReadEntities, Lock, Refuse, RowFails, Mark, file, db, worker, bounds
  <2>2. job'[h].pc \in {"lock", "write", "idle"} /\ \A g \in Handlers \ {h} : job'[g] = job[g]
    BY <1>0, <1>3, NoJobTyped DEF ReadEntities, Lock, Refuse, RowFails, Mark, Ends, JobType
  <2> QED
    BY <1>0, <2>1, <2>2, QuietPolicy DEF At
<1> QED
  BY <1>1, <1>2, <1>3, PublishPolicy, SaveRowPolicy DEF Request
-----------------------------------------------------------------------------
(* The steps of an event: e becomes r, and no other event moves. *)

\* What the policy says now is what e hears.
LEMMA HearsSo ==
  ASSUME RequestInv', Witness, UNCHANGED <<config, known, table>>,
         NEW e \in Events, ~Calls(e, "idle")', NEW c \in Channels, c = ev'[e].chan
  PROVE  IF SaysSo(c) THEN SaidOn(e)' ELSE SaidOff(e)'
<1>1. Says(c)' <=> SaysSo(c)'
  BY SaysNext DEF SaysKnown, RequestInv
<1>2. SaysSo(c)' <=> SaysSo(c)
  BY DEF SaysSo, RowsOf, Lists
<1>3. Heard(e)'
  BY AnswersGrow
<1>4. Says(ev[e].chan)' <=> Says(c)'
  OBVIOUS
<1> QED
  BY <1>1, <1>2, <1>3, <1>4 DEF Heard

LEMMA OthersHear ==
  ASSUME PolicyInv, Witness, NEW e \in Events, NEW r, Becomes(e, r), NEW f \in Events \ {e}
  PROVE  ReadBy(f)' /\ Decided(f)' /\ TableSaid(f)'
<1>1. /\ ReadBy(f) /\ Decided(f) /\ TableSaid(f) /\ ev'[f] = ev[f]
      /\ known' = known /\ table' = table /\ job' = job /\ edits' = edits /\ sweeps' = sweeps
  BY DEF PolicyInv, Becomes, db, bounds, worker
<1>2. ~Calls(f, "idle") => (SaidOn(f) => SaidOn(f)') /\ (SaidOff(f) => SaidOff(f)')
  BY <1>1, AnswersGrow DEF Calls
<1>3. ReadBy(f)'
  BY <1>1, <1>2 DEF ReadBy, Keyed, Calls
<1>6. back \subseteq back'
  BY DEF Witness
<1>4. Decided(f)'
  BY <1>1, <1>2, <1>6 DEF Decided, Excused, Excuse, Compiled, Calls
<1>5. TableSaid(f)'
  BY <1>1, <1>2 DEF TableSaid, Compiled, Calls, At
<1> QED
  BY <1>3, <1>4, <1>5

LEMMA SourceTurns ==
  ASSUME PolicyInv, Witness, NEW e \in Events, NEW r, Becomes(e, r),
         NEW y, NEW K, NEW m, NEW x, SourceOf(y, K, m, x), RightFor(y, K, m, x, e)'
  PROVE  SourceOf(y, K, m, x)'
<1>1. known' = known /\ config' = config /\ edits' = edits /\ back' = back
  BY DEF Becomes, db, file, bounds, Witness
<1>2. Matches(y, K, m, x)'
  BY <1>1 DEF SourceOf, Matches, Excuse, RowsOf, Lists
<1>3. ASSUME NEW f \in Events \ {e}
      PROVE  RightFor(y, K, m, x, f)'
  <2>1. ev'[f] = ev[f]
    BY DEF Becomes
  <2>2. ~Calls(f, "idle") => (SaidOn(f) => SaidOn(f)') /\ (SaidOff(f) => SaidOff(f)')
    BY <2>1, AnswersGrow DEF Calls
  <2>3. RightFor(y, K, m, x, f)
    BY DEF SourceOf
  <2> QED
    BY <1>1, <2>1, <2>2, <2>3 DEF RightFor, Excuse, Calls
<1>4. m.exists => m.imports \subseteq known'
  BY <1>1 DEF SourceOf
<1>5. ~m.exists => edits' > 0
  BY <1>1 DEF SourceOf
<1> QED
  BY <1>2, <1>3, <1>4, <1>5 DEF SourceOf, Matches, RightFor

\* A source stays right for an event that goes on, or that ends.
LEMMA RightStays ==
  ASSUME PolicyInv, Witness, NEW e \in Events, NEW r, Becomes(e, r),
         r.pc = "idle" \/ (~Calls(e, "idle") /\ r.yaml = ev[e].yaml /\ r.chan = ev[e].chan)
  PROVE  \A y, K, m, x : SourceOf(y, K, m, x) => RightFor(y, K, m, x, e)'
<1> SUFFICES ASSUME NEW y, NEW K, NEW m, NEW x, SourceOf(y, K, m, x)
             PROVE  RightFor(y, K, m, x, e)'
  OBVIOUS
<1>1. RightFor(y, K, m, x, e)
  BY DEF SourceOf
<1>2. ev'[e] = r /\ back \subseteq back'
  BY DEF Becomes, Witness
<1>3. r.pc # "idle" => (SaidOn(e) => SaidOn(e)') /\ (SaidOff(e) => SaidOff(e)')
  BY <1>2, AnswersGrow DEF Calls
<1> QED
  BY <1>1, <1>2, <1>3 DEF RightFor, Excuse, Calls

LEMMA SourcesTurn ==
  ASSUME PolicyInv, Witness, NEW e \in Events, NEW r, Becomes(e, r),
         \/ cache' = cache
         \/ /\ Calls(e, "store") /\ cache'.yaml = ev[e].yaml /\ cache'.key = ev[e].key
            /\ cache'.model = ev[e].model /\ cache'.mixed = ev[e].mixed,
         \A y, K, m, x : SourceOf(y, K, m, x) => RightFor(y, K, m, x, e)',
         \A y, K, m, x : r.pc = "store" /\ y = r.yaml /\ K = r.key /\ m = r.model /\ x = r.mixed => SourceOf(y, K, m, x)'
  PROVE  Sources'
<1>1. \A y, K, m, x : SourceOf(y, K, m, x) => SourceOf(y, K, m, x)'
  BY SourceTurns
<1>2. Sources /\ Storable
  BY DEF PolicyInv
<1>3. ASSUME cache'.model.ok
      PROVE  cache'.yaml # Absent /\ SourceOf(cache.yaml, cache.key, cache.model, cache.mixed)'
  <2>1. PICK y, K, m, x : y = cache'.yaml /\ K = cache'.key /\ m = cache'.model /\ x = cache'.mixed
    OBVIOUS
  <2>2. y # Absent /\ SourceOf(y, K, m, x)
    <3>1. CASE cache' = cache
      BY <1>2, <1>3, <2>1, <3>1 DEF Sources
    <3>2. CASE /\ Calls(e, "store") /\ cache'.yaml = ev[e].yaml /\ cache'.key = ev[e].key
               /\ cache'.model = ev[e].model /\ cache'.mixed = ev[e].mixed
      BY <1>2, <2>1, <3>2 DEF Sources, Storable
    <3> QED
      BY <3>1, <3>2
  <2>3. SourceOf(y, K, m, x)'
    BY <1>1, <2>2
  <2> QED
    BY <2>1, <2>2, <2>3 DEF SourceOf, Matches, RightFor, Excuse, RowsOf, Lists
<1>4. ASSUME NEW f \in Events, Calls(f, "store")'
      PROVE  SourceOf(ev[f].yaml, ev[f].key, ev[f].model, ev[f].mixed)'
  <2>1. PICK y, K, m, x : y = ev'[f].yaml /\ K = ev'[f].key /\ m = ev'[f].model /\ x = ev'[f].mixed
    OBVIOUS
  <2>2. SourceOf(y, K, m, x)'
    <3>1. CASE f = e
      BY <1>4, <2>1, <3>1 DEF Becomes, Calls
    <3>2. CASE f # e
      <4>1. ev'[f] = ev[f] /\ Calls(f, "store")
        BY <1>4, <3>2 DEF Becomes, Calls
      <4> QED
        BY <1>1, <1>2, <2>1, <4>1 DEF Sources
    <3> QED
      BY <3>1, <3>2
  <2> QED
    BY <2>1, <2>2 DEF SourceOf, Matches, RightFor, Excuse, RowsOf, Lists
<1> QED
  BY <1>3, <1>4 DEF Sources

LEMMA Turned ==
  ASSUME PolicyInv, Witness, RequestInv', Storable', NEW e \in Events, NEW r, Becomes(e, r),
         cache' = cache \/ cache'.yaml = ev[e].yaml,
         r.yaml \in {ev[e].yaml, config, Absent},
         Sources', ReadBy(e)', Decided(e)', TableSaid(e)'
  PROVE  PolicyInv'
<1>1. /\ ev'[e] = r /\ \A f \in Events \ {e} : ev'[f] = ev[f]
      /\ UNCHANGED <<config, lock, known, table, sweep, sweeps, job, asked, edits>>
  BY DEF Becomes, file, db, worker, bounds
<1>2. Past /\ FirstFile /\ RequestInv
  BY DEF PolicyInv
<1>3. Past'
  <2>1. ASSUME NEW t, Read(t)'
        PROVE  Read(t) \/ t = config
    <3>1. CASE cache'.model.ok /\ cache'.yaml = t
      BY <2>1, <3>1 DEF Read
    <3>2. CASE \E f \in Events : ev'[f].yaml = t
      BY <1>1, <2>1, <3>2 DEF Read
    <3> QED
      BY <2>1, <3>1, <3>2 DEF Read
  <2> QED
    BY <1>2, <2>1, PastKept
<1>4. FirstFile'
  BY <1>1, <1>2 DEF FirstFile, Ticked, At
<1>5. \A f \in Events : ReadBy(f)' /\ Decided(f)' /\ TableSaid(f)'
  BY OthersHear
<1> QED
  BY <1>3, <1>4, <1>5, AnswersGrow DEF PolicyInv

LEMMA StepFrame ==
  ASSUME Witness, NEW e \in Events, NEW r, Becomes(e, r)
  PROVE  /\ ev'[e] = r /\ UNCHANGED <<config, known, table, job, sweeps, edits, back>>
         /\ r.pc # "idle" => (SaidOn(e) => SaidOn(e)') /\ (SaidOff(e) => SaidOff(e)')
<1>1. ev'[e] = r
  BY DEF Becomes
<1>2. config' = config
  BY DEF Becomes, file
<1> QED
  BY <1>1, <1>2, AnswersGrow DEF Becomes, Calls, Witness, file, db, worker, bounds

\* The table's answer, where there is no file.
LEMMA TableNow ==
  ASSUME PolicyInv, Witness, RequestInv', NEW e \in Events, NEW r, Becomes(e, r), r.pc # "idle",
         NEW c \in Channels, r.chan = c, config = Absent
  PROVE  TableSaid(e)'
<1>1. ev'[e] = r /\ UNCHANGED <<config, known, table, job, sweeps, edits, back>>
  BY StepFrame
<1>2. IF SaysSo(c) THEN SaidOn(e)' ELSE SaidOff(e)'
  BY <1>1, HearsSo DEF Calls
<1>3. SaysSo(c) <=> table[c] = "on"
  BY DEF SaysSo, PolicyInv, FirstFile, Ticked
<1>4. edits = 0 => \A h \in Handlers : ~At(h, "row")
  BY DEF PolicyInv, FirstFile
<1> QED
  BY <1>1, <1>2, <1>3, <1>4 DEF TableSaid, At

LEMMA ReadYamlPolicy ==
  ASSUME PolicyInv, Witness, RequestInv', Storable', NEW e \in Events, NEW c \in Channels, ReadYaml(e, c)
  PROVE  PolicyInv'
<1>1. PICK r : /\ Becomes(e, r) /\ r.chan = c /\ r.yaml = config /\ r.ents = {} /\ r.key = {}
               /\ r.pc = (IF config = Absent THEN "dir" ELSE "key") /\ cache' = cache
  BY ReadYamlStep DEF PolicyInv
<1>2. ev'[e] = r /\ UNCHANGED <<config, known, table, job, sweeps, edits, back>>
  BY <1>1, StepFrame
<1>3. config \in Text /\ known \subseteq Channels
  BY DEF PolicyInv, RequestInv, TypeOK
<1>4. ReadBy(e)' /\ Decided(e)' /\ TableSaid(e)'
  BY <1>1, <1>2 DEF ReadBy, Decided, TableSaid, Keyed, Compiled, Calls
<1>5. IF SaysSo(c) THEN SaidOn(e)' ELSE SaidOff(e)'
  BY <1>1, <1>2, HearsSo DEF Calls, PolicyInv
<1>6. ASSUME NEW y, NEW K, NEW m, NEW x, SourceOf(y, K, m, x)
      PROVE  RightFor(y, K, m, x, e)'
  <2> SUFFICES ASSUME m.exists, config = y, ~Excuse(y, x)
               PROVE  /\ c \in m.imports => SaidOn(e)'
                      /\ c \in K \ m.imports => SaidOff(e)'
    BY <1>1, <1>2 DEF RightFor, Excuse
  <2>1. /\ y.file = "valid" /\ RowsOf(y) \subseteq known /\ m.imports \subseteq known
        /\ \A d \in m.imports : Lists(y, d)
        /\ \A d \in K \ m.imports : ~Lists(y, d)
    BY <1>6 DEF SourceOf, Matches
  <2>2. config # Absent
    BY <1>3, <2>1, TextTypes
  <2> QED
    BY <1>5, <2>1, <2>2 DEF SaysSo
<1>7. Sources'
  BY <1>1, <1>6, SourcesTurn
<1> QED
  BY <1>1, <1>4, <1>7, Turned

LEMMA ReadDirPolicy ==
  ASSUME PolicyInv, Witness, RequestInv', Storable', NEW e \in Events, ReadDir(e)
  PROVE  PolicyInv'
<1>1. PICK r : /\ Becomes(e, r) /\ r.chan = ev[e].chan /\ r.yaml = ev[e].yaml /\ r.ents = ev[e].ents
               /\ r.pc = (IF config = Absent THEN "decide" ELSE "entities") /\ r.model = Compile(Absent, {})
               /\ r.key = ev[e].key /\ cache' = cache
  BY ReadDirStep DEF PolicyInv
<1>2. ev'[e] = r /\ UNCHANGED <<config, known, table, job, sweeps, edits, back>>
  BY <1>1, StepFrame
<1>3. Calls(e, "dir") /\ ev[e].chan \in Channels /\ ev[e].yaml = Absent /\ ev[e].ents \subseteq known
  BY DEF ReadDir, PolicyInv, ReadBy, Calls
<1>4. r.model.ok /\ ~r.model.exists
  BY <1>1, Compiles, Texts
<1>5. ReadBy(e)' /\ Decided(e)'
  BY <1>1, <1>2, <1>3, <1>4 DEF ReadBy, Decided, Keyed, Compiled, Calls
<1>6. TableSaid(e)'
  <2>1. CASE config = Absent
    BY <1>1, <1>3, <2>1, TableNow
  <2>2. CASE config # Absent
    BY <1>1, <1>2, <2>2 DEF TableSaid, Compiled
  <2> QED
    BY <2>1, <2>2
<1>7. Sources'
  BY <1>1, <1>3, RightStays, SourcesTurn DEF Calls
<1> QED
  BY <1>1, <1>5, <1>6, <1>7, Turned

LEMMA ReadKeyPolicy ==
  ASSUME PolicyInv, Witness, RequestInv', Storable', NEW e \in Events, ReadKey(e)
  PROVE  PolicyInv'
<1>1. PICK r : /\ Becomes(e, r) /\ r.chan = ev[e].chan /\ r.yaml = ev[e].yaml /\ r.ents = ev[e].ents
               /\ r.pc = "cache" /\ r.key = known /\ cache' = cache
  BY ReadKeyStep DEF PolicyInv
<1>2. ev'[e] = r /\ UNCHANGED <<config, known, table, job, sweeps, edits, back>>
  BY <1>1, StepFrame
<1>3. Calls(e, "key") /\ ev[e].chan \in Channels /\ ev[e].yaml # Absent /\ ev[e].ents \subseteq known
  BY DEF ReadKey, PolicyInv, ReadBy, Calls
<1>4. ev[e].chan \notin known => SaidOff(e)'
  BY <1>1, <1>2, <1>3, HearsSo DEF Calls, PolicyInv, SaysSo
<1>5. ReadBy(e)' /\ Decided(e)' /\ TableSaid(e)'
  BY <1>1, <1>2, <1>3, <1>4 DEF ReadBy, Decided, TableSaid, Keyed, Compiled, Calls
<1>6. Sources'
  BY <1>1, <1>3, RightStays, SourcesTurn DEF Calls
<1> QED
  BY <1>1, <1>5, <1>6, Turned

LEMMA ReadCachePolicy ==
  ASSUME PolicyInv, Witness, RequestInv', Storable', NEW e \in Events, ReadCache(e)
  PROVE  PolicyInv'
<1>1. PICK r : /\ Becomes(e, r) /\ r.chan = ev[e].chan /\ r.yaml = ev[e].yaml /\ r.ents = ev[e].ents
               /\ r.key = ev[e].key /\ cache' = cache
               /\ IF Hit(e) THEN r.pc = "decide" /\ r.model = cache.model /\ r.mixed = cache.mixed
                         ELSE r.pc = "entities"
  BY ReadCacheStep DEF PolicyInv
<1>2. /\ ev'[e] = r /\ UNCHANGED <<config, known, table, job, sweeps, edits, back>>
      /\ (SaidOn(e) => SaidOn(e)') /\ (SaidOff(e) => SaidOff(e)')
  BY <1>1, StepFrame
<1>3. /\ Calls(e, "cache") /\ ev[e].chan \in Channels /\ ev[e].yaml # Absent /\ ev[e].ents \subseteq known
      /\ ev[e].key \subseteq known /\ (ev[e].chan \notin ev[e].key => SaidOff(e))
  BY DEF ReadCache, PolicyInv, ReadBy, Keyed, Calls
<1>4. ReadBy(e)'
  BY <1>1, <1>2, <1>3 DEF ReadBy, Keyed, Calls
<1>5. Decided(e)' /\ TableSaid(e)'
  <2>1. CASE Hit(e)
    <3>1. /\ cache.model.ok /\ r.pc = "decide" /\ r.model = cache.model /\ r.mixed = cache.mixed
          /\ RightFor(ev[e].yaml, ev[e].key, cache.model, cache.mixed, e)
          /\ cache.model.exists => cache.model.imports \subseteq known
          /\ ~cache.model.exists => edits > 0
      BY <1>1, <2>1 DEF Hit, PolicyInv, Sources, SourceOf
    <3>2. cache.model.exists /\ ~Excuse(ev[e].yaml, cache.mixed) =>
            IF ev[e].chan \in cache.model.imports THEN SaidOn(e) ELSE SaidOff(e)
      BY <1>3, <3>1 DEF RightFor, Calls
    <3>3. Decided(e)'
      BY <1>1, <1>2, <3>1, <3>2 DEF Decided, Excused, Excuse, Compiled, Calls
    <3>4. edits > 0 => edits # 0
      BY Counters DEF PolicyInv
    <3> QED
      BY <1>2, <3>1, <3>3, <3>4 DEF TableSaid
  <2>2. CASE ~Hit(e)
    BY <1>1, <1>2, <2>2 DEF Decided, TableSaid, Compiled, Calls
  <2> QED
    BY <2>1, <2>2
<1>6. Sources'
  BY <1>1, <1>3, RightStays, SourcesTurn DEF Calls
<1> QED
  BY <1>1, <1>4, <1>5, <1>6, Turned

LEMMA ReadModelEntitiesPolicy ==
  ASSUME PolicyInv, Witness, RequestInv', Storable', NEW e \in Events, ReadModelEntities(e)
  PROVE  PolicyInv'
<1>1. PICK r : /\ Becomes(e, r) /\ r.chan = ev[e].chan /\ r.yaml = ev[e].yaml /\ r.ents = known
               /\ r.pc = "load" /\ r.key = ev[e].key /\ cache' = cache
  BY ReadModelEntitiesStep DEF PolicyInv
<1>2. /\ ev'[e] = r /\ UNCHANGED <<config, known, table, job, sweeps, edits, back>>
      /\ (SaidOn(e) => SaidOn(e)') /\ (SaidOff(e) => SaidOff(e)')
  BY <1>1, StepFrame
<1>3. /\ Calls(e, "entities") /\ ev[e].chan \in Channels
      /\ ev[e].yaml # Absent => ev[e].key \subseteq known /\ (ev[e].chan \notin ev[e].key => SaidOff(e))
  BY DEF ReadModelEntities, PolicyInv, ReadBy, Keyed, Calls
<1>4. ev[e].chan \notin known => SaidOff(e)'
  BY <1>1, <1>2, <1>3, HearsSo DEF Calls, PolicyInv, SaysSo
<1>5. ReadBy(e)' /\ Decided(e)' /\ TableSaid(e)'
  BY <1>1, <1>2, <1>3, <1>4 DEF ReadBy, Decided, TableSaid, Keyed, Compiled, Calls
<1>6. Sources'
  BY <1>1, <1>3, RightStays, SourcesTurn DEF Calls
<1> QED
  BY <1>1, <1>5, <1>6, Turned

LEMMA StorePolicy ==
  ASSUME PolicyInv, Witness, RequestInv', Storable', NEW e \in Events, Store(e)
  PROVE  PolicyInv'
<1>1. PICK r : /\ Becomes(e, r) /\ r.chan = ev[e].chan /\ r.yaml = ev[e].yaml /\ r.ents = ev[e].ents
               /\ r.key = ev[e].key /\ r.model = ev[e].model /\ r.pc = "decide" /\ r.mixed = FALSE
               /\ cache'.yaml = ev[e].yaml /\ cache'.key = ev[e].key /\ cache'.model = ev[e].model
               /\ cache'.mixed = ev[e].mixed
  BY StoreStep DEF PolicyInv
<1>2. /\ ev'[e] = r /\ UNCHANGED <<config, known, table, job, sweeps, edits, back>>
      /\ (SaidOn(e) => SaidOn(e)') /\ (SaidOff(e) => SaidOff(e)')
  BY <1>1, StepFrame
<1>3. Calls(e, "store") /\ ReadBy(e) /\ Decided(e) /\ TableSaid(e) /\ ev[e].model.ok
  BY DEF Store, PolicyInv, Storable
<1>4. ReadBy(e)'
  BY <1>1, <1>2, <1>3 DEF ReadBy, Keyed, Calls
<1>5. Decided(e)'
  BY <1>1, <1>2, <1>3 DEF Decided, Excused, Compiled, Calls
<1>6. TableSaid(e)'
  BY <1>1, <1>2, <1>3 DEF TableSaid, Compiled, Calls, At
<1>7. Sources'
  BY <1>1, <1>3, RightStays, SourcesTurn DEF Calls
<1> QED
  BY <1>1, <1>4, <1>5, <1>6, <1>7, Turned

LEMMA DecidePolicy ==
  ASSUME PolicyInv, Witness, RequestInv', Storable', NEW e \in Events, Decide(e)
  PROVE  PolicyInv'
<1>1. Becomes(e, NoEvent) /\ cache' = cache /\ ev'[e] = NoEvent /\ known' = known
  BY DecideStep, StepFrame DEF PolicyInv
<1>2. ReadBy(e)' /\ Decided(e)' /\ TableSaid(e)'
  BY <1>1, NoEventTyped DEF ReadBy, Decided, TableSaid, Keyed, Compiled, Calls
<1>3. Sources'
  BY <1>1, NoEventTyped, RightStays, SourcesTurn
<1> QED
  BY <1>1, <1>2, <1>3, NoEventTyped, Turned

\* What a model compiled now says, on the channels it was given.
LEMMA CompiledNow ==
  ASSUME TypeOK, NEW K \in SUBSET Channels, K \subseteq known, NEW m, m = Compile(config, K), m.ok, m.exists
  PROVE  /\ config # Absent /\ config.file = "valid" /\ RowsOf(config) \subseteq known
         /\ m.imports \subseteq K
         /\ \A c \in K : c \in m.imports <=> Lists(config, c)
         /\ \A c \in K : c \in m.imports <=> SaysSo(c)
<1>1. config \in Text
  BY DEF TypeOK
<1>2. /\ config # Absent /\ config.file = "valid" /\ RowsOf(config) \subseteq K /\ m.imports \subseteq K
      /\ \A c \in K : c \in m.imports <=> Lists(config, c)
  BY <1>1, Compiles
<1> QED
  BY <1>2 DEF SaysSo

\* A model just compiled is a source for the text the event read, and right for
\* whichever event read that text.
LEMMA LoadSource ==
  ASSUME PolicyInv, Witness, RequestInv', NEW e \in Events, NEW r, Becomes(e, r), Calls(e, "load"), r.pc = "store",
         r.chan = ev[e].chan,
         NEW y, y = ev[e].yaml, y # Absent, NEW K, K = ev[e].key, NEW m, m = Compile(config, ev[e].ents), m.ok,
         NEW x, x <=> config # y
  PROVE  SourceOf(y, K, m, x)'
<1>1. ev'[e] = r /\ UNCHANGED <<config, known, table, job, sweeps, edits, back>>
  BY StepFrame
<1>2. /\ TypeOK /\ config \in Text /\ ev[e].ents \in SUBSET Channels /\ ev[e].ents \subseteq known /\ K \subseteq ev[e].ents
      /\ edits = 0 /\ config = Absent => y = Absent
  BY EventFacts DEF PolicyInv, RequestInv, TypeOK, ReadBy, FirstFile, Keyed, Calls
<1>3. ~m.exists => edits' > 0
  BY <1>1, <1>2, Compiles, Counters DEF PolicyInv
<1>4. ASSUME m.exists
      PROVE  /\ m.imports \subseteq known'
             /\ Matches(y, K, m, x)'
             /\ \A f \in Events : RightFor(y, K, m, x, f)'
  <2>1. /\ config # Absent /\ config.file = "valid" /\ RowsOf(config) \subseteq known
        /\ m.imports \subseteq ev[e].ents
        /\ \A c \in ev[e].ents : c \in m.imports <=> Lists(config, c)
        /\ \A c \in ev[e].ents : c \in m.imports <=> SaysSo(c)
    BY <1>2, <1>4, CompiledNow
  <2>2. Matches(y, K, m, x)
    BY <1>2, <2>1 DEF Matches
  <2>3. Matches(y, K, m, x)'
    BY <1>1, <2>2 DEF Matches, Excuse, RowsOf, Lists
  <2>4. ASSUME NEW f \in Events, ~Calls(f, "idle")', ev'[f].chan \in m.imports \cup K
        PROVE  IF ev'[f].chan \in m.imports THEN SaidOn(f)' ELSE SaidOff(f)'
    <3>1. PICK c \in Channels : c = ev'[f].chan
      BY <1>2, <2>1, <2>4
    <3>2. IF SaysSo(c) THEN SaidOn(f)' ELSE SaidOff(f)'
      BY <1>1, <2>4, <3>1, HearsSo
    <3> QED
      BY <1>2, <2>1, <2>4, <3>1, <3>2
  <2>5. \A f \in Events : RightFor(y, K, m, x, f)'
    BY <2>4 DEF RightFor
  <2> QED
    BY <1>1, <1>2, <2>1, <2>3, <2>5
<1> QED
  BY <1>3, <1>4 DEF SourceOf, Matches, RightFor

LEMMA LoadPolicy ==
  ASSUME PolicyInv, Witness, RequestInv', Storable', NEW e \in Events, Load(e)
  PROVE  PolicyInv'
<1>1. PICK r : /\ Becomes(e, r) /\ r.chan = ev[e].chan /\ r.yaml = ev[e].yaml /\ r.ents = ev[e].ents
               /\ r.key = ev[e].key /\ cache' = cache /\ r.model = Compile(config, ev[e].ents)
               /\ r.pc = (IF r.model.ok /\ r.yaml # Absent THEN "store" ELSE "decide")
               /\ r.mixed <=> r.pc = "store" /\ config # r.yaml
  BY LoadStep DEF PolicyInv
<1>2. /\ ev'[e] = r /\ UNCHANGED <<config, known, table, job, sweeps, edits, back>>
      /\ (SaidOn(e) => SaidOn(e)') /\ (SaidOff(e) => SaidOff(e)')
  BY <1>1, StepFrame
<1>3. Calls(e, "load") /\ ReadBy(e) /\ TypeOK /\ config \in Text
  BY DEF Load, PolicyInv, RequestInv, TypeOK
<1>4. /\ ev[e].chan \in Channels /\ ev[e].ents \subseteq known /\ ev[e].ents \in SUBSET Channels
      /\ ev[e].chan \notin ev[e].ents => SaidOff(e)
  BY <1>3, EventFacts DEF ReadBy, Calls
<1>5. ReadBy(e)'
  BY <1>1, <1>2, <1>3 DEF ReadBy, Keyed, Calls
<1>6. PICK c \in Channels : c = ev[e].chan
  BY <1>4
<1>7. IF SaysSo(c) THEN SaidOn(e)' ELSE SaidOff(e)'
  BY <1>1, <1>2, <1>6, HearsSo DEF Calls, PolicyInv
<1>8. Decided(e)'
  <2>1. ASSUME r.model.ok, r.model.exists
        PROVE  r.model.imports \subseteq known /\ IF c \in r.model.imports THEN SaidOn(e)' ELSE SaidOff(e)'
    <3>1. r.model.imports \subseteq ev[e].ents /\ \A d \in ev[e].ents : d \in r.model.imports <=> SaysSo(d)
      BY <1>1, <1>3, <1>4, <2>1, CompiledNow
    <3> QED
      BY <1>2, <1>4, <1>6, <1>7, <3>1
  <2>2. ASSUME ~r.model.ok, ev[e].ents = known
        PROVE  SaidOff(e)'
    <3>1. config # Absent /\ ~(config.file = "valid" /\ RowsOf(config) \subseteq known)
      BY <1>1, <1>3, <1>4, <2>2, Compiles
    <3>2. ~SaysSo(c)
      BY <3>1 DEF SaysSo
    <3> QED
      BY <1>7, <3>2
  <2> QED
    BY <1>1, <1>2, <1>6, <2>1, <2>2 DEF Decided, Compiled, Calls
<1>9. TableSaid(e)'
  <2>1. CASE config = Absent
    BY <1>1, <1>6, <2>1, TableNow
  <2>2. CASE config # Absent
    <3>1. r.model.exists
      BY <1>1, <1>3, <1>4, <2>2, Compiles
    <3> QED
      BY <1>2, <3>1 DEF TableSaid
  <2> QED
    BY <2>1, <2>2
<1>10. \A y, K, m, x : r.pc = "store" /\ y = r.yaml /\ K = r.key /\ m = r.model /\ x = r.mixed => SourceOf(y, K, m, x)'
  <2> SUFFICES ASSUME NEW y, NEW K, NEW m, NEW x, r.pc = "store", y = r.yaml, K = r.key, m = r.model, x = r.mixed
               PROVE  SourceOf(y, K, m, x)'
    OBVIOUS
  <2>1. m.ok /\ y # Absent /\ (x <=> config # y)
    BY <1>1
  <2> QED
    BY <1>1, <1>3, <2>1, LoadSource
<1>11. Sources'
  BY <1>1, <1>3, <1>10, RightStays, SourcesTurn DEF Calls
<1> QED
  BY <1>1, <1>5, <1>8, <1>9, <1>11, Turned

LEMMA DispatchPolicy ==
  ASSUME PolicyInv, Witness, NEW e \in Events, Dispatch(e)
  PROVE  PolicyInv'
<1>1. RequestInv' /\ Storable'
  BY DispatchKeeps DEF PolicyInv
<1> QED
  BY <1>1, ReadYamlPolicy, ReadDirPolicy, ReadKeyPolicy, ReadCachePolicy, ReadModelEntitiesPolicy, LoadPolicy,
     StorePolicy, DecidePolicy
  DEF Dispatch

-----------------------------------------------------------------------------
(* The invariant, and what an event decides. *)

LEMMA InitPolicy ==
  ASSUME Init
  PROVE  PolicyInv
<1>1. RequestInv /\ Storable
  BY InitRequests
<1>2. Past
  BY NoEventTyped DEF Init, Past, Read, NoCache, NoModel
<1>3. FirstFile
  BY NoJobTyped, NoEventTyped DEF Init, FirstFile, Ticked, At
<1>4. Sources
  BY NoEventTyped DEF Init, Sources, NoCache, NoModel, Calls
<1>5. ASSUME NEW e \in Events
      PROVE  Heard(e) /\ ReadBy(e) /\ Decided(e) /\ TableSaid(e)
  BY NoEventTyped DEF Init, Heard, ReadBy, Decided, TableSaid, Keyed, Compiled, Calls
<1> QED
  BY <1>1, <1>2, <1>3, <1>4, <1>5 DEF PolicyInv

LEMMA QuietStep ==
  ASSUME PolicyInv, UNCHANGED pvars
  PROVE  PolicyInv'
<1>1. UNCHANGED <<config, lock, known, table, seeded, marker, sweep, swept, sweeps, cache, ev, job, asked, edits, faults, answers, gone, back>>
  BY DEF pvars, file, db, worker, bounds, history
<1>2. RequestInv' /\ Storable'
  BY RequestNext DEF PolicyInv
<1>3. Past'
  BY <1>1 DEF PolicyInv, Past, Read
<1>4. FirstFile'
  BY <1>1 DEF PolicyInv, FirstFile, Ticked, At
<1>5. Sources'
  <2>1. Sources
    BY DEF PolicyInv
  <2>2. cache'.model.ok => cache'.yaml # Absent /\ SourceOf(cache.yaml, cache.key, cache.model, cache.mixed)'
    BY <1>1, <2>1 DEF Sources, SourceOf, Matches, RightFor, Excuse, RowsOf, Lists, SaidOn, SaidOff, Calls
  <2>3. ASSUME NEW e \in Events, Calls(e, "store")'
        PROVE  SourceOf(ev[e].yaml, ev[e].key, ev[e].model, ev[e].mixed)'
    <3>1. SourceOf(ev[e].yaml, ev[e].key, ev[e].model, ev[e].mixed)
      BY <1>1, <2>1, <2>3 DEF Sources, Calls
    <3> QED
      BY <1>1, <3>1 DEF SourceOf, Matches, RightFor, Excuse, RowsOf, Lists, SaidOn, SaidOff, Calls
  <2> QED
    BY <2>2, <2>3 DEF Sources
<1>6. ASSUME NEW e \in Events
      PROVE  Heard(e)' /\ ReadBy(e)' /\ Decided(e)' /\ TableSaid(e)'
  <2>1. Says(ev[e].chan)' <=> Says(ev[e].chan)
    BY <1>1 DEF Says, Compile
  <2>2. Heard(e)'
    BY <1>1, <2>1 DEF PolicyInv, Heard, SaidOn, SaidOff, Calls
  <2>3. ReadBy(e)' /\ Decided(e)' /\ TableSaid(e)'
    BY <1>1 DEF PolicyInv, ReadBy, Decided, Excused, Excuse, TableSaid, Keyed, Compiled, SaidOn, SaidOff, Calls, At
  <2> QED
    BY <2>2, <2>3
<1> QED
  BY <1>2, <1>3, <1>4, <1>5, <1>6 DEF PolicyInv

LEMMA PolicyNext ==
  ASSUME PolicyInv, [Next]_pvars
  PROVE  PolicyInv'
<1>1. CASE UNCHANGED pvars
  BY <1>1, QuietStep
<1>2. CASE Step /\ Witness
  BY <1>2, EditPolicy, DiscoverPolicy, RequestPolicy, SweepPolicy, DispatchPolicy DEF Step
<1> QED
  BY <1>1, <1>2 DEF Next

\* Everything an event reads was right for its channel at some moment since it came,
\* the cached model included, whatever texts the file has had and has again; but a model
\* cached under another text than its own, once this text is back (liveModel, dc_api.js).
THEOREM PolicyInvariant == Spec => []PolicyInv
<1>1. Init => PolicyInv
  BY InitPolicy
<1>2. PolicyInv /\ [Next]_pvars => PolicyInv'
  BY PolicyNext
<1> QED
  BY <1>1, <1>2, PTL DEF Spec

LEMMA DecidesAsSaid ==
  ASSUME PolicyInv
  PROVE  DecisionCurrent
<1> SUFFICES ASSUME NEW e \in Events, Calls(e, "decide")
             PROVE  AsSaid(e) \/ Excused(e)
  BY DEF DecisionCurrent, Excused, Excuse
<1>1. Heard(e) /\ ReadBy(e) /\ Decided(e) /\ TableSaid(e) /\ FirstFile /\ TypeOK
  BY DEF PolicyInv, RequestInv
<1>2. PICK b \in BOOLEAN : b <=> Stored(e)
  OBVIOUS
<1>3. Stored(e) = b
  BY <1>2 DEF Stored, Grants
<1>4. (b /\ SaidOn(e)) \/ (~b /\ SaidOff(e)) => Stored(e) \in answers[e]
  BY <1>3 DEF SaidOn, SaidOff
<1>5. PICK c \in Channels : c = ev[e].chan
  BY <1>1 DEF ReadBy, Calls
<1>6. CASE ~ev[e].model.ok
  BY <1>1, <1>2, <1>4, <1>6 DEF AsSaid, Decided, Stored, Grants
<1>7. CASE ev[e].model.ok /\ ev[e].model.exists
  BY <1>1, <1>2, <1>4, <1>7 DEF AsSaid, Decided, Compiled, Stored, Grants, Calls
<1>8. CASE ev[e].model.ok /\ ~ev[e].model.exists
  <2>1. b <=> table[c] = "on"
    BY <1>1, <1>2, <1>5, <1>8 DEF Stored, Grants, FirstFile, Ticked
  <2>2. CASE config = Absent
    <3>1. Says(c) <=> SaysSo(c)
      BY <1>1, SaysNow DEF SaysKnown
    <3>2. SaysSo(c) <=> table[c] = "on"
      BY <1>1, <2>2 DEF SaysSo, FirstFile, Ticked
    <3>3. IF Says(c) THEN SaidOn(e) ELSE SaidOff(e)
      BY <1>1, <1>5 DEF Heard, Calls
    <3> QED
      BY <1>4, <2>1, <3>1, <3>2, <3>3 DEF AsSaid
  <2>3. CASE config # Absent /\ edits = 0 /\ sweeps = 0
    BY <1>1, <1>4, <1>5, <1>8, <2>1, <2>3 DEF AsSaid, TableSaid, Compiled, Calls
  <2>4. CASE config # Absent /\ (edits # 0 \/ sweeps # 0)
    BY <1>8, <2>4, Counters DEF AsSaid, PolicyInv
  <2> QED
    BY <2>2, <2>3, <2>4
<1> QED
  BY <1>6, <1>7, <1>8

\* A live event is archived or ignored as the declared model said of its channel at some
\* moment since it came, for any number of channels, events, requests, edits and sweeps
\* (liveModel and its cache, dc_api.js), texts that come back included; but by a model
\* compiled from another text than the one it was cached under, once this text is back.
THEOREM DecisionsAreCurrent == Spec => []DecisionCurrent
<1>1. PolicyInv => DecisionCurrent
  BY DecidesAsSaid
<1> QED
  BY <1>1, PolicyInvariant, PTL

-----------------------------------------------------------------------------
(* The write routes. *)

\* What is known of a request at each step.
WriteType == [stage: {"model", "call", "over"}, verb: Verbs, query: Query, asks: BOOLEAN,
              rows: [WriteChannels -> ChannelName], channel: WriteChannels,
              todo: {<<>>, <<"message">>, <<"message", "thread">>, <<"thread">>, <<"look", "pin">>, <<"pin">>, <<"archive">>},
              answer: {"none", "allowed", "denied", "done", "failed"}, lost: BOOLEAN]

\* The channel is the one the request meant, and the write is granted, by something
\* that held since it came.
Meant(w) ==
  LET r == write[w]
  IN  r.rows \in moments[w].titles /\ Resolves(r.rows, r.query, Kinds(r.verb), r.channel)
Granted(w) == \E m \in moments[w].models : Allowed(write[w].rows, m, write[w].verb, write[w].channel)

\* What has been done and what is to be done are the whole.
Underway(w) ==
  LET r == write[w]
      first == r.todo = DiscordCalls(r.verb, r.channel) /\ effects[w] = <<>>
  IN  \/ first
      \/ r.verb = "pin" /\ r.todo = <<"pin">> /\ effects[w] = <<>>
      \/ r.verb = "thread" /\ r.channel \notin Forums /\ r.todo = <<"thread">> /\ effects[w] = In(r.channel, <<"message">>)

Ended(w) ==
  LET r == write[w]
  IN  CASE r.answer = "done" -> effects[w] = In(r.channel, Whole(r.verb, r.channel))
        [] r.answer = "failed" ->
              \/ r.lost \/ effects[w] = <<>>
              \/ r.verb = "thread" /\ effects[w] = In(r.channel, <<"message">>)
        [] OTHER -> effects[w] = <<>>

Resolved(w) == write[w].stage # "none" /\ write[w] # Unresolved
Known(w) ==
  /\ write[w].stage = "none" => effects[w] = <<>>
  /\ write[w].stage = "over" => Ended(w)
  /\ Resolved(w) =>
       /\ write[w] \in WriteType
       /\ \A i \in DOMAIN effects[w] : effects[w][i].channel = write[w].channel
       /\ write[w].stage = "model" => effects[w] = <<>> /\ (~write[w].asks => Meant(w)) /\ write[w].answer = "none"
       /\ write[w].stage = "call" => Meant(w) /\ Granted(w) /\ Underway(w)
       /\ effects[w] # <<>> => Meant(w) /\ Granted(w)

WritesInv ==
  /\ ChannelWritesTypeOK
  /\ write = [w \in Writes |-> write[w]] /\ effects = [w \in Writes |-> effects[w]]
  /\ options.allow_post \in BOOLEAN
  /\ \A w \in Writes : moments[w].models \subseteq Models \cup {MissingModel, BrokenModel}
  /\ \A w \in Writes : Known(w)

Did(c, what) == [what |-> what, channel |-> c]

LEMMA CallLists ==
  /\ Head(<<"message">>) = "message" /\ Tail(<<"message">>) = <<>>
  /\ Head(<<"thread">>) = "thread" /\ Tail(<<"thread">>) = <<>>
  /\ Head(<<"pin">>) = "pin" /\ Tail(<<"pin">>) = <<>>
  /\ Head(<<"archive">>) = "archive" /\ Tail(<<"archive">>) = <<>>
  /\ Head(<<"message", "thread">>) = "message" /\ Tail(<<"message", "thread">>) = <<"thread">>
  /\ Head(<<"look", "pin">>) = "look" /\ Tail(<<"look", "pin">>) = <<"pin">>
  /\ <<"thread">> # <<>> /\ <<"pin">> # <<>>
OBVIOUS

LEMMA Wholes ==
  ASSUME NEW c
  PROVE  /\ \A x : In(c, <<x>>) = <<Did(c, x)>>
         /\ In(c, <<"message", "thread">>) = <<Did(c, "message"), Did(c, "thread")>>
         /\ In(c, <<>>) = <<>>
<1>3. In(c, <<>>) = <<>>
  BY DEF In
<1>1. ASSUME NEW x
      PROVE  In(c, <<x>>) = <<Did(c, x)>>
  BY DEF In, Did
<1>2. In(c, <<"message", "thread">>) = <<Did(c, "message"), Did(c, "thread")>>
  BY DEF In, Did
<1> QED
  BY <1>1, <1>2, <1>3

LEMMA Appended ==
  ASSUME NEW x, NEW y
  PROVE  /\ Append(<<>>, x) = <<x>> /\ Append(<<x>>, y) = <<x, y>>
         /\ <<x>> # <<>> /\ <<x, y>> # <<>>
         /\ \A i \in DOMAIN <<x>> : <<x>>[i] = x
         /\ \A i \in DOMAIN <<x, y>> : <<x, y>>[i] \in {x, y}
<1>1. Append(<<>>, x) = <<x>> /\ <<x>> # <<>> /\ <<x, y>> # <<>>
  OBVIOUS
<1>2. <<x>> \in Seq({x, y}) /\ <<x, y>> \in Seq({x, y}) /\ Len(<<x, y>>) = 2 /\ <<x, y>>[1] = x /\ <<x, y>>[2] = y
  OBVIOUS
<1>3. Append(<<x>>, y) \in Seq({x, y}) /\ Len(Append(<<x>>, y)) = 2 /\ Append(<<x>>, y)[1] = x /\ Append(<<x>>, y)[2] = y
  BY <1>2
<1>4. \A i \in 1..2 : Append(<<x>>, y)[i] = <<x, y>>[i]
  BY <1>2, <1>3
<1>5. Append(<<x>>, y) = <<x, y>>
  BY <1>2, <1>3, <1>4, SeqEqual
<1>6. \A i \in DOMAIN <<x>> : <<x>>[i] = x
  OBVIOUS
<1>7. \A i \in DOMAIN <<x, y>> : <<x, y>>[i] \in {x, y}
  OBVIOUS
<1> QED
  BY <1>1, <1>5, <1>6, <1>7

\* One channel is left by resolveEntity when it alone matches best.
LEMMA ResolvesMeans ==
  ASSUME NEW rows, NEW q, NEW kind, NEW c, Resolves(rows, q, kind, c)
  PROVE  Means(rows, q, kind, c)
<1> DEFINE exact == {d \in kind : Spelling(rows[d], q)}
           folded == {d \in kind : Folded(rows[d], q)}
           partial == {d \in kind : PartialMatch(rows[d], q)}
<1>1. CASE q \in WriteChannels
  BY <1>1 DEF Resolves, Candidates, Means
<1>2. CASE q \notin WriteChannels
  <2>1. {c} = IF exact # {} THEN exact ELSE IF folded # {} THEN folded ELSE partial
    BY <1>2 DEF Resolves, Candidates
  <2>2. c \in kind
    BY <2>1
  <2>3. CASE exact = {c}
    BY <1>2, <2>2, <2>3 DEF Means, Best, Spelling
  <2>4. CASE exact = {} /\ folded = {c}
    BY <1>2, <2>2, <2>4 DEF Means, Best, Spelling, Folded
  <2>5. CASE exact = {} /\ folded = {} /\ partial = {c}
    BY <1>2, <2>2, <2>5 DEF Means, Best, Spelling, Folded, PartialMatch
  <2> QED
    BY <2>1, <2>3, <2>4, <2>5
<1> QED
  BY <1>1, <1>2

\* A write that was allowed is one the README allows.
LEMMA AllowedMeans ==
  ASSUME ChannelWritesTypeOK, NEW rows, NEW m, NEW verb, NEW c, Allowed(rows, m, verb, c),
         m \in Models \cup {MissingModel, BrokenModel}
  PROVE  \/ m \in Models /\ <<verb, c>> \in m
         \/ /\ m = MissingModel /\ options.allow_post
            /\ \E q \in options.post_channels : Means(rows, q, WriteChannels, c)
<1>1. CASE m = MissingModel
  BY <1>1, ResolvesMeans DEF Allowed, ByOptions
<1>2. CASE m # MissingModel
  BY <1>2 DEF Allowed
<1> QED
  BY <1>1, <1>2

\* Names and models are remembered for as long as a request is under way.
LEMMA Remembered ==
  ASSUME WriteWitness, NEW w \in Writes
  PROVE  /\ write[w].stage = "none" \/ Under(w) =>
              title \in moments'[w].titles /\ model \in moments'[w].models
         /\ Under(w) => moments[w].titles \subseteq moments'[w].titles /\ moments[w].models \subseteq moments'[w].models
         /\ write[w].stage # "none" /\ ~Under(w) => moments'[w] = moments[w]
BY DEF WriteWitness

LEMMA StillMeant ==
  ASSUME WriteWitness, NEW w \in Writes, write[w].stage # "none", options' = options,
         write'[w].rows = write[w].rows, write'[w].channel = write[w].channel,
         write'[w].verb = write[w].verb, write'[w].query = write[w].query
  PROVE  (Meant(w) => Meant(w)') /\ (Granted(w) => Granted(w)')
<1>1. moments[w].titles \subseteq moments'[w].titles /\ moments[w].models \subseteq moments'[w].models
  BY Remembered
<1>2. Meant(w) => Meant(w)'
  BY <1>1 DEF Meant, Resolves, Candidates
<1>3. Granted(w) => Granted(w)'
  BY <1>1 DEF Granted, Allowed, ByOptions, Resolves, Candidates
<1> QED
  BY <1>2, <1>3

LEMMA Unmoved ==
  ASSUME WritesInv, WriteWitness, options' = options, NEW w \in Writes, write'[w] = write[w], effects'[w] = effects[w]
  PROVE  Known(w)'
<1>1. Known(w)
  BY DEF WritesInv
<1>2. write[w].stage # "none" => (Meant(w) => Meant(w)') /\ (Granted(w) => Granted(w)')
  BY StillMeant
<1>3. Resolved(w)' <=> Resolved(w)
  BY DEF Resolved
<1>4. (Underway(w) => Underway(w)') /\ (Ended(w) => Ended(w)')
  BY DEF Underway, Ended
<1> QED
  BY <1>1, <1>2, <1>3, <1>4 DEF Known, Resolved

LEMMA MomentsTyped ==
  ASSUME WritesInv, WriteWitness, ChannelWritesTypeOK', NEW w \in Writes
  PROVE  moments'[w].models \subseteq Models \cup {MissingModel, BrokenModel}
<1>1. model \in Models \cup {MissingModel, BrokenModel} /\ model' \in Models \cup {MissingModel, BrokenModel}
  BY DEF WritesInv, ChannelWritesTypeOK
<1>2. moments[w].models \subseteq Models \cup {MissingModel, BrokenModel}
  BY DEF WritesInv
<1> QED
  BY <1>1, <1>2 DEF WriteWitness

\* One request goes on to r.
GoesTo(w, r) ==
  /\ write' = [write EXCEPT ![w] = r] /\ options' = options
  /\ UNCHANGED <<title, model, changes>>
LEMMA OneGoes ==
  ASSUME WritesInv, WriteWitness, NEW w \in Writes, NEW r, GoesTo(w, r), r.stage \in {"model", "call", "over"},
         effects' = effects \/ (\E s : effects' = [effects EXCEPT ![w] = s]),
         failures' \in 0..MaxFailures,
         write'[w] = r => Known(w)'
  PROVE  WritesInv'
<1>1. /\ write = [v \in Writes |-> write[v]] /\ effects = [v \in Writes |-> effects[v]]
      /\ ChannelWritesTypeOK
  BY DEF WritesInv
<1>2. /\ write' = [v \in Writes |-> write'[v]] /\ effects' = [v \in Writes |-> effects'[v]]
      /\ write'[w] = r /\ \A v \in Writes \ {w} : write'[v] = write[v] /\ effects'[v] = effects[v]
  BY <1>1 DEF GoesTo
<1>3. ChannelWritesTypeOK'
  BY <1>1, <1>2 DEF ChannelWritesTypeOK, GoesTo
<1>4. \A v \in Writes : Known(v)'
  BY <1>2, Unmoved DEF GoesTo
<1>5. \A v \in Writes : moments'[v].models \subseteq Models \cup {MissingModel, BrokenModel}
  BY <1>3, MomentsTyped
<1> QED
  BY <1>2, <1>3, <1>4, <1>5 DEF WritesInv, GoesTo

LEMMA ResolveKeeps ==
  ASSUME WritesInv, WriteWitness, NEW w \in Writes, NEW verb \in Verbs, NEW q \in Query, NEW asks \in BOOLEAN,
         ResolveChannel(w, verb, q, asks)
  PROVE  WritesInv'
<1> DEFINE kind == IF asks THEN WriteChannels ELSE Kinds(verb)
<1>0. /\ ChannelWritesTypeOK /\ Known(w) /\ write[w].stage = "none" /\ effects[w] = <<>>
      /\ UNCHANGED <<title, model, options, effects, changes, failures>>
  BY DEF WritesInv, Known, ResolveChannel
<1>1. kind \subseteq WriteChannels
  BY DEF Kinds, WriteChannels
<1>2. ASSUME NEW c \in kind, Resolves(title, q, kind, c),
             write' = [write EXCEPT ![w] =
                        [stage |-> "model", verb |-> verb, query |-> q, asks |-> asks, rows |-> title,
                         channel |-> c, todo |-> <<>>, answer |-> "none", lost |-> FALSE]]
      PROVE  WritesInv'
  <2>1. PICK r : r = [stage |-> "model", verb |-> verb, query |-> q, asks |-> asks, rows |-> title,
                      channel |-> c, todo |-> <<>>, answer |-> "none", lost |-> FALSE]
    OBVIOUS
  <2>2. r \in WriteType
    BY <1>0, <1>1, <2>1 DEF WriteType, ChannelWritesTypeOK
  <2>3. r.stage = "model" /\ r.rows = title /\ r.query = q /\ r.verb = verb /\ r.channel = c /\ r.asks = asks /\ r.answer = "none"
    BY <2>1
  <2>4. title \in moments'[w].titles
    BY <1>0, Remembered
  <2>5. ~asks => Resolves(title, q, Kinds(verb), c)'
    BY <1>0, <1>2 DEF Resolves, Candidates
  <2>6. write'[w] = r => Known(w)'
    BY <1>0, <2>2, <2>3, <2>4, <2>5 DEF Known, Resolved, Meant, Resolves, Candidates
  <2> QED
    BY <1>0, <1>2, <2>1, <2>3, <2>6, OneGoes DEF GoesTo, ChannelWritesTypeOK
<1>3. ASSUME write' = [write EXCEPT ![w] = Unresolved]
      PROVE  WritesInv'
  <2>1. Unresolved.stage = "over" /\ Unresolved.answer = "unresolved"
    BY DEF Unresolved
  <2>2. write'[w] = Unresolved => Known(w)'
    BY <1>0, <2>1 DEF Known, Resolved, Ended
  <2> QED
    BY <1>0, <1>3, <2>1, <2>2, OneGoes DEF GoesTo, ChannelWritesTypeOK
<1> QED
  BY <1>2, <1>3 DEF ResolveChannel

\* What is known of a request that is under way.
LEMMA InHand ==
  ASSUME WritesInv, NEW w \in Writes, Under(w)
  PROVE  /\ write[w] \in WriteType /\ Known(w) /\ write[w].stage # "none" /\ ChannelWritesTypeOK
         /\ \A i \in DOMAIN effects[w] : effects[w][i].channel = write[w].channel
         /\ write[w].stage = "model" => effects[w] = <<>> /\ (~write[w].asks => Meant(w)) /\ write[w].answer = "none"
         /\ write[w].stage = "call" => Meant(w) /\ Granted(w) /\ Underway(w)
<1>1. write[w] # Unresolved /\ write[w].stage # "none"
  BY DEF Under, Unresolved
<1> QED
  BY <1>1 DEF WritesInv, Known, Resolved

LEMMA TodoTyped ==
  ASSUME NEW verb \in Verbs, NEW c
  PROVE  DiscordCalls(verb, c) \in {<<"message">>, <<"message", "thread">>, <<"thread">>, <<"look", "pin">>, <<"archive">>}
BY DEF DiscordCalls, Verbs

LEMMA CheckKeeps ==
  ASSUME WritesInv, WriteWitness, NEW w \in Writes, CheckPolicy(w)
  PROVE  WritesInv'
<1>1. /\ write[w].stage = "model" /\ Under(w) /\ UNCHANGED <<title, model, options, effects, changes, failures>>
  BY DEF CheckPolicy, Under
<1>2. /\ write[w] \in WriteType /\ Known(w) /\ ChannelWritesTypeOK /\ effects[w] = <<>>
      /\ ~write[w].asks => Meant(w)
      /\ failures \in 0..MaxFailures
  BY <1>1, InHand DEF ChannelWritesTypeOK
<1>3. model \in moments'[w].models
  BY <1>1, Remembered
<1>4. CASE Allowed(write[w].rows, model, write[w].verb, write[w].channel) /\ ~write[w].asks
  <2>1. PICK t : t = DiscordCalls(write[w].verb, write[w].channel)
    OBVIOUS
  <2>2. t \in {<<"message">>, <<"message", "thread">>, <<"thread">>, <<"look", "pin">>, <<"archive">>}
    BY <1>2, <2>1, TodoTyped DEF WriteType
  <2>3. PICK r : r = [write[w] EXCEPT !.stage = "call", !.todo = t]
    OBVIOUS
  <2>4. /\ r \in WriteType /\ r.stage = "call" /\ r.todo = t /\ r.rows = write[w].rows /\ r.verb = write[w].verb
        /\ r.query = write[w].query /\ r.channel = write[w].channel /\ r.asks = write[w].asks
    BY <1>2, <2>2, <2>3 DEF WriteType
  <2>5. write' = [write EXCEPT ![w] = r]
    BY <1>4, <2>1, <2>3 DEF CheckPolicy, WritesInv
  <2>6. ASSUME write'[w] = r
        PROVE  Known(w)'
    <3>1. Meant(w)'
      BY <1>1, <1>2, <1>4, <2>4, <2>6, StillMeant
    <3>2. Granted(w)'
      BY <1>1, <1>3, <1>4, <2>4, <2>6 DEF Granted, Allowed, ByOptions, Resolves, Candidates
    <3>3. Underway(w)'
      BY <1>1, <1>2, <2>1, <2>4, <2>6 DEF Underway
    <3> QED
      BY <1>1, <1>2, <2>4, <2>6, <3>1, <3>2, <3>3 DEF Known, Resolved
  <2> QED
    BY <1>1, <1>2, <2>4, <2>5, <2>6, OneGoes DEF GoesTo
<1>5. CASE ~(Allowed(write[w].rows, model, write[w].verb, write[w].channel) /\ ~write[w].asks)
  <2>1. PICK a \in {"allowed", "denied"} :
          a = IF Allowed(write[w].rows, model, write[w].verb, write[w].channel) THEN "allowed" ELSE "denied"
    OBVIOUS
  <2>3. PICK r : r = [write[w] EXCEPT !.stage = "over", !.answer = a]
    OBVIOUS
  <2>4. /\ r \in WriteType /\ r.stage = "over" /\ r.answer = a /\ r.channel = write[w].channel
    BY <1>2, <2>1, <2>3 DEF WriteType
  <2>5. write' = [write EXCEPT ![w] = r]
    BY <1>5, <2>1, <2>3 DEF CheckPolicy, Answer, WritesInv
  <2>6. write'[w] = r => Known(w)'
    BY <1>1, <1>2, <2>1, <2>4 DEF Known, Resolved, Ended
  <2> QED
    BY <1>1, <1>2, <2>4, <2>5, <2>6, OneGoes DEF GoesTo
<1> QED
  BY <1>4, <1>5

\* The states a call may be made in: what is to be done, what was done and the whole.
CallState(w, todo, done, whole) ==
  LET c == write[w].channel
  IN  write[w].todo = todo /\ effects[w] = In(c, done) /\ Whole(write[w].verb, c) = whole
OfText(w) == write[w].verb = "thread" /\ write[w].channel \notin Forums
Callable(w) ==
  \/ \E x \in {"message", "thread", "pin", "archive"} : CallState(w, <<x>>, <<>>, <<x>>)
  \/ OfText(w) /\ CallState(w, <<"message", "thread">>, <<>>, <<"message", "thread">>)
  \/ OfText(w) /\ CallState(w, <<"thread">>, <<"message">>, <<"message", "thread">>)
  \/ write[w].verb = "pin" /\ CallState(w, <<"look", "pin">>, <<>>, <<"pin">>)

LEMMA CallStates ==
  ASSUME WritesInv, NEW w \in Writes, write[w].stage = "call"
  PROVE  Callable(w)
<1>0. \A c : In(c, <<>>) = <<>>
  BY Wholes
<1>1. write[w] \in WriteType /\ Underway(w)
  BY InHand DEF Under
<1>2. PICK verb \in Verbs : verb = write[w].verb
  BY <1>1 DEF WriteType
<1>3. PICK c : c = write[w].channel
  OBVIOUS
<1>4. CASE write[w].todo = DiscordCalls(verb, c) /\ effects[w] = <<>>
  <2>1. CASE verb = "post"
    <3>1. DiscordCalls(verb, c) = <<"message">> /\ Whole(verb, c) = <<"message">>
      BY <2>1 DEF DiscordCalls, Whole
    <3> QED
      BY <1>0, <1>2, <1>3, <1>4, <3>1 DEF Callable, CallState
  <2>2. CASE verb = "thread" /\ c \in Forums
    <3>1. DiscordCalls(verb, c) = <<"thread">> /\ Whole(verb, c) = <<"thread">>
      BY <2>2 DEF DiscordCalls, Whole
    <3> QED
      BY <1>0, <1>2, <1>3, <1>4, <3>1 DEF Callable, CallState
  <2>3. CASE verb = "thread" /\ c \notin Forums
    <3>1. DiscordCalls(verb, c) = <<"message", "thread">> /\ Whole(verb, c) = <<"message", "thread">>
      BY <2>3 DEF DiscordCalls, Whole
    <3> QED
      BY <1>0, <1>2, <1>3, <1>4, <2>3, <3>1 DEF Callable, CallState, OfText
  <2>4. CASE verb = "pin"
    <3>1. DiscordCalls(verb, c) = <<"look", "pin">> /\ Whole(verb, c) = <<"pin">>
      BY <2>4 DEF DiscordCalls, Whole
    <3> QED
      BY <1>0, <1>2, <1>3, <1>4, <2>4, <3>1 DEF Callable, CallState
  <2>5. CASE verb = "archive"
    <3>1. DiscordCalls(verb, c) = <<"archive">> /\ Whole(verb, c) = <<"archive">>
      BY <2>5 DEF DiscordCalls, Whole
    <3> QED
      BY <1>0, <1>2, <1>3, <1>4, <3>1 DEF Callable, CallState
  <2> QED
    BY <2>1, <2>2, <2>3, <2>4, <2>5 DEF Verbs
<1>5. CASE verb = "pin" /\ write[w].todo = <<"pin">> /\ effects[w] = <<>>
  <2>1. Whole(verb, c) = <<"pin">>
    BY <1>5 DEF Whole
  <2> QED
    BY <1>0, <1>2, <1>3, <1>5, <2>1 DEF Callable, CallState
<1>6. CASE verb = "thread" /\ c \notin Forums /\ write[w].todo = <<"thread">> /\ effects[w] = In(c, <<"message">>)
  <2>1. Whole(verb, c) = <<"message", "thread">>
    BY <1>6 DEF Whole
  <2> QED
    BY <1>2, <1>3, <1>6, <2>1 DEF Callable, CallState, OfText
<1> QED
  BY <1>1, <1>2, <1>3, <1>4, <1>5, <1>6 DEF Underway

\* A call that was done at Discord leaves the whole, or a beginning and the rest.
After(w, s) ==
  LET r == write[w]
  IN  \/ Tail(r.todo) = <<>> /\ s = In(r.channel, Whole(r.verb, r.channel))
      \/ OfText(w) /\ Tail(r.todo) = <<"thread">> /\ s = In(r.channel, <<"message">>)
      \/ r.verb = "pin" /\ Tail(r.todo) = <<"pin">> /\ s = <<>>

LEMMA CallStep ==
  ASSUME WritesInv, NEW w \in Writes, write[w].stage = "call", NEW c, c = write[w].channel,
         NEW x, x = Head(write[w].todo),
         NEW s, s = (IF x = "look" THEN effects[w] ELSE Append(effects[w], Did(c, x)))
  PROVE  After(w, s)
<1>1. ASSUME NEW y
      PROVE  Append(<<>>, Did(c, y)) = In(c, <<y>>)
  <2>1. PICK d : d = Did(c, y)
    OBVIOUS
  <2>2. In(c, <<y>>) = <<d>> /\ Append(<<>>, d) = <<d>>
    BY <2>1, Wholes
  <2> QED
    BY <2>1, <2>2
<1>2. Append(In(c, <<"message">>), Did(c, "thread")) = In(c, <<"message", "thread">>)
  <2>1. PICK d : d = Did(c, "message")
    OBVIOUS
  <2>2. PICK e : e = Did(c, "thread")
    OBVIOUS
  <2>3. In(c, <<"message">>) = <<d>> /\ In(c, <<"message", "thread">>) = <<d, e>>
    BY <2>1, <2>2, Wholes
  <2>4. Append(<<d>>, e) = <<d, e>>
    BY Appended
  <2> QED
    BY <2>2, <2>3, <2>4
<1>0. In(c, <<>>) = <<>>
  BY Wholes
<1>3. ASSUME NEW y \in {"message", "thread", "pin", "archive"}, CallState(w, <<y>>, <<>>, <<y>>)
      PROVE  After(w, s)
  <2>1. x = y /\ Tail(write[w].todo) = <<>> /\ effects[w] = <<>> /\ Whole(write[w].verb, c) = <<y>>
    BY <1>0, <1>3, CallLists DEF CallState
  <2>2. s = In(c, <<y>>)
    BY <1>1, <2>1
  <2> QED
    BY <2>1, <2>2 DEF After
<1>4. ASSUME OfText(w), CallState(w, <<"message", "thread">>, <<>>, <<"message", "thread">>)
      PROVE  After(w, s)
  <2>1. x = "message" /\ Tail(write[w].todo) = <<"thread">> /\ effects[w] = <<>>
    BY <1>0, <1>4, CallLists DEF CallState
  <2>2. s = In(c, <<"message">>)
    BY <1>1, <2>1
  <2> QED
    BY <1>4, <2>1, <2>2 DEF After
<1>5. ASSUME CallState(w, <<"thread">>, <<"message">>, <<"message", "thread">>)
      PROVE  After(w, s)
  <2>1. /\ x = "thread" /\ Tail(write[w].todo) = <<>> /\ effects[w] = In(c, <<"message">>)
        /\ Whole(write[w].verb, c) = <<"message", "thread">>
    BY <1>5, CallLists DEF CallState
  <2>2. s = In(c, <<"message", "thread">>)
    BY <1>2, <2>1
  <2> QED
    BY <2>1, <2>2 DEF After
<1>6. ASSUME write[w].verb = "pin", CallState(w, <<"look", "pin">>, <<>>, <<"pin">>)
      PROVE  After(w, s)
  <2>1. x = "look" /\ Tail(write[w].todo) = <<"pin">> /\ effects[w] = <<>>
    BY <1>0, <1>6, CallLists DEF CallState
  <2> QED
    BY <1>6, <2>1 DEF After
<1> QED
  BY <1>3, <1>4, <1>5, <1>6, CallStates DEF Callable

LEMMA InOneChannel ==
  ASSUME NEW c, NEW whats, NEW s, s = In(c, whats)
  PROVE  \A i \in DOMAIN s : s[i].channel = c
BY DEF In

LEMMA TakenKeeps ==
  ASSUME WritesInv, WriteWitness, NEW w \in Writes, NEW answered \in BOOLEAN, CallTaken(w, answered)
  PROVE  WritesInv'
<1>1. write[w].stage = "call" /\ Under(w) /\ UNCHANGED <<title, model, options, changes>>
  BY DEF CallTaken, Under
<1>2. PICK old : old = write[w]
  OBVIOUS
<1>3. PICK c : c = old.channel
  OBVIOUS
<1>4. /\ old \in WriteType /\ Known(w) /\ ChannelWritesTypeOK /\ Meant(w) /\ Granted(w) /\ Underway(w)
      /\ failures \in Nat /\ failures \in 0..MaxFailures /\ MaxFailures \in Nat
  BY <1>1, <1>2, InHand, ChannelWritesAssumption DEF ChannelWritesTypeOK
<1>12. PICK x : x = Head(old.todo)
  OBVIOUS
<1>5. PICK s : s = (IF x = "look" THEN effects[w] ELSE Append(effects[w], Did(c, x)))
  OBVIOUS
<1>6. /\ effects' = [effects EXCEPT ![w] = s] /\ effects'[w] = s
  BY <1>2, <1>3, <1>5, <1>12 DEF CallTaken, Did, WritesInv
<1>7. \/ Tail(old.todo) = <<>> /\ s = In(c, Whole(old.verb, c))
      \/ /\ old.verb = "thread" /\ c \notin Forums /\ Tail(old.todo) = <<"thread">>
         /\ s = In(c, <<"message">>)
      \/ old.verb = "pin" /\ Tail(old.todo) = <<"pin">> /\ s = <<>>
  <2>1. After(w, s)
    BY <1>1, <1>2, <1>3, <1>5, <1>12, CallStep
  <2> QED
    BY <1>2, <1>3, <2>1 DEF After, OfText
<1>8. \A i \in DOMAIN s : s[i].channel = c
  <2>1. PICK whats : s = In(c, whats)
    <3>1. In(c, <<>>) = <<>>
      BY Wholes
    <3> QED
      BY <1>7, <3>1
  <2> QED
    BY <2>1, InOneChannel
<1>9. CASE answered /\ Tail(old.todo) = <<>>
  <2>1. PICK r : r = [old EXCEPT !.stage = "over", !.answer = "done"]
    OBVIOUS
  <2>2. r \in WriteType /\ r.stage = "over" /\ r.answer = "done" /\ r.rows = old.rows /\ r.verb = old.verb
        /\ r.query = old.query /\ r.channel = c
    BY <1>3, <1>4, <2>1 DEF WriteType
  <2>3. write' = [write EXCEPT ![w] = r] /\ failures' = failures
    BY <1>2, <1>9, <2>1 DEF CallTaken, Answer, WritesInv
  <2>4. s = In(c, Whole(old.verb, c))
    BY <1>7, <1>9, CallLists
  <2>5. ASSUME write'[w] = r
        PROVE  Known(w)'
    <3>1. Meant(w)' /\ Granted(w)'
      BY <1>1, <1>2, <1>3, <1>4, <2>2, <2>5, StillMeant
    <3>2. Ended(w)'
      BY <1>6, <2>2, <2>4, <2>5 DEF Ended
    <3> QED
      BY <1>6, <1>8, <2>2, <2>5, <3>1, <3>2 DEF Known, Resolved
  <2> QED
    BY <1>1, <1>4, <1>6, <2>2, <2>3, <2>5, OneGoes DEF GoesTo
<1>10. CASE answered /\ Tail(old.todo) # <<>>
  <2>0. PICK t \in {<<"thread">>, <<"pin">>} : t = Tail(old.todo)
    BY <1>7, <1>10
  <2>1. PICK r : r = [old EXCEPT !.todo = t]
    OBVIOUS
  <2>2. r \in WriteType /\ r.stage = "call" /\ r.rows = old.rows /\ r.verb = old.verb
        /\ r.query = old.query /\ r.channel = c /\ r.todo = t
    BY <1>1, <1>2, <1>3, <1>4, <2>1 DEF WriteType
  <2>3. write' = [write EXCEPT ![w] = r] /\ failures' = failures
    BY <1>2, <1>10, <2>0, <2>1 DEF CallTaken, WritesInv
  <2>5. ASSUME write'[w] = r
        PROVE  Known(w)'
    <3>1. Meant(w)' /\ Granted(w)'
      BY <1>1, <1>2, <1>3, <1>4, <2>2, <2>5, StillMeant
    <3>2. Underway(w)'
      BY <1>6, <1>7, <1>10, <2>0, <2>2, <2>5 DEF Underway
    <3> QED
      BY <1>6, <1>8, <2>2, <2>5, <3>1, <3>2 DEF Known, Resolved
  <2> QED
    BY <1>1, <1>4, <1>6, <2>2, <2>3, <2>5, OneGoes DEF GoesTo
<1>11. CASE ~answered
  <2>1. PICK r : r = [old EXCEPT !.stage = "over", !.answer = "failed", !.lost = TRUE]
    OBVIOUS
  <2>2. r \in WriteType /\ r.stage = "over" /\ r.answer = "failed" /\ r.rows = old.rows /\ r.verb = old.verb
        /\ r.query = old.query /\ r.channel = c /\ r.lost
    BY <1>3, <1>4, <2>1 DEF WriteType
  <2>3. write' = [write EXCEPT ![w] = r] /\ failures' \in 0..MaxFailures
    BY <1>2, <1>4, <1>11, <2>1 DEF CallTaken, WritesInv
  <2>5. ASSUME write'[w] = r
        PROVE  Known(w)'
    <3>1. Meant(w)' /\ Granted(w)'
      BY <1>1, <1>2, <1>3, <1>4, <2>2, <2>5, StillMeant
    <3>2. Ended(w)'
      BY <2>2, <2>5 DEF Ended
    <3> QED
      BY <1>6, <1>8, <2>2, <2>5, <3>1, <3>2 DEF Known, Resolved
  <2> QED
    BY <1>1, <1>4, <1>6, <2>2, <2>3, <2>5, OneGoes DEF GoesTo
<1> QED
  BY <1>9, <1>10, <1>11

LEMMA RefusedKeeps ==
  ASSUME WritesInv, WriteWitness, NEW w \in Writes, CallRefused(w)
  PROVE  WritesInv'
<1>1. write[w].stage = "call" /\ Under(w) /\ UNCHANGED <<title, model, options, effects, changes>>
  BY DEF CallRefused, Under
<1>2. PICK old : old = write[w]
  OBVIOUS
<1>4. /\ old \in WriteType /\ Known(w) /\ ChannelWritesTypeOK /\ Meant(w) /\ Granted(w)
      /\ \A i \in DOMAIN effects[w] : effects[w][i].channel = old.channel
      /\ failures \in Nat /\ MaxFailures \in Nat
  BY <1>1, <1>2, InHand, ChannelWritesAssumption DEF ChannelWritesTypeOK
<1>5. effects[w] = <<>> \/ (old.verb = "thread" /\ effects[w] = In(old.channel, <<"message">>))
  <2>1. Callable(w) /\ In(old.channel, <<>>) = <<>>
    BY <1>1, CallStates, Wholes
  <2> QED
    BY <1>2, <2>1 DEF Callable, CallState, OfText
<1>6. PICK r : r = [old EXCEPT !.stage = "over", !.answer = "failed"]
  OBVIOUS
<1>7. r \in WriteType /\ r.stage = "over" /\ r.answer = "failed" /\ r.rows = old.rows /\ r.verb = old.verb
      /\ r.query = old.query /\ r.channel = old.channel
  BY <1>4, <1>6 DEF WriteType
<1>10. write' = [write EXCEPT ![w] = r]
  BY <1>2, <1>6 DEF CallRefused, Answer, WritesInv
<1>11. failures < MaxFailures /\ failures' = failures + 1
  BY DEF CallRefused
<1>8. write' = [write EXCEPT ![w] = r] /\ failures' \in 0..MaxFailures
  BY <1>4, <1>10, <1>11
<1>9. ASSUME write'[w] = r
      PROVE  Known(w)'
  <2>1. Meant(w)' /\ Granted(w)'
    BY <1>1, <1>2, <1>4, <1>7, <1>9, StillMeant
  <2>2. Ended(w)'
    BY <1>1, <1>5, <1>7, <1>9 DEF Ended
  <2> QED
    BY <1>1, <1>4, <1>7, <1>9, <2>1, <2>2 DEF Known, Resolved
<1> QED
  BY <1>1, <1>4, <1>7, <1>8, <1>9, OneGoes DEF GoesTo

\* Names and models change beside the requests.
LEMMA OthersKeep ==
  ASSUME WritesInv, WriteWitness, UNCHANGED <<options, write, effects>>, ChannelWritesTypeOK'
  PROVE  WritesInv'
<1>1. \A w \in Writes : Known(w)'
  BY Unmoved
<1>2. \A w \in Writes : moments'[w].models \subseteq Models \cup {MissingModel, BrokenModel}
  BY MomentsTyped
<1> QED
  BY <1>1, <1>2 DEF WritesInv

LEMMA RenameKeeps ==
  ASSUME WritesInv, WriteWitness, NEW c \in WriteChannels, NEW t \in ChannelName, RenameChannel(c, t)
  PROVE  WritesInv'
<1>1. ChannelWritesTypeOK'
  BY ChannelWritesAssumption DEF WritesInv, ChannelWritesTypeOK, RenameChannel
<1> QED
  BY <1>1, OthersKeep DEF RenameChannel

LEMMA EditModelKeeps ==
  ASSUME WritesInv, WriteWitness, NEW m \in Models \cup {MissingModel, BrokenModel}, EditModel(m)
  PROVE  WritesInv'
<1>1. ChannelWritesTypeOK'
  BY ChannelWritesAssumption DEF WritesInv, ChannelWritesTypeOK, EditModel
<1> QED
  BY <1>1, OthersKeep DEF EditModel

LEMMA WritesStutter ==
  ASSUME WritesInv, UNCHANGED writeVars
  PROVE  WritesInv'
<1>1. ASSUME NEW w \in Writes, Known(w)
      PROVE  Known(w)'
  <2>1. (Meant(w) => Meant(w)') /\ (Granted(w) => Granted(w)') /\ (Underway(w) => Underway(w)') /\ (Ended(w) => Ended(w)')
    BY DEF writeVars, Meant, Granted, Underway, Ended, Resolves, Candidates, Allowed, ByOptions
  <2> QED
    BY <1>1, <2>1 DEF writeVars, Known, Resolved
<1> QED
  BY <1>1 DEF WritesInv, writeVars, ChannelWritesTypeOK

LEMMA WritesInitially ==
  ASSUME ChannelWritesInit
  PROVE  WritesInv
<1>1. ChannelWritesTypeOK
  BY ChannelWritesAssumption DEF ChannelWritesInit, ChannelWritesTypeOK, NoWrite
<1>2. \A w \in Writes : write[w].stage = "none" /\ effects[w] = <<>> /\ moments[w].models = {}
  BY DEF ChannelWritesInit, NoWrite
<1>3. \A w \in Writes : Known(w)
  BY <1>2 DEF Known, Resolved
<1>4. options.allow_post \in BOOLEAN
  BY DEF ChannelWritesInit
<1>5. write = [w \in Writes |-> write[w]] /\ effects = [w \in Writes |-> effects[w]]
  BY DEF ChannelWritesInit
<1> QED
  BY <1>1, <1>2, <1>3, <1>4, <1>5 DEF WritesInv

LEMMA WritesKept ==
  ASSUME WritesInv, ChannelWritesNext
  PROVE  WritesInv'
<1>1. WriteWitness
  BY DEF ChannelWritesNext
<1>2. ASSUME NEW w \in Writes, NEW verb \in Verbs, NEW q \in Query, NEW asks \in BOOLEAN, ResolveChannel(w, verb, q, asks)
      PROVE  WritesInv'
  BY <1>1, <1>2, ResolveKeeps
<1>3. ASSUME NEW w \in Writes, CheckPolicy(w)
      PROVE  WritesInv'
  BY <1>1, <1>3, CheckKeeps
<1>4. ASSUME NEW w \in Writes, CallRefused(w)
      PROVE  WritesInv'
  BY <1>1, <1>4, RefusedKeeps
<1>5. ASSUME NEW w \in Writes, NEW answered \in BOOLEAN, CallTaken(w, answered)
      PROVE  WritesInv'
  BY <1>1, <1>5, TakenKeeps
<1>6. ASSUME NEW c \in WriteChannels, NEW t \in ChannelName, RenameChannel(c, t)
      PROVE  WritesInv'
  BY <1>1, <1>6, RenameKeeps
<1>7. ASSUME NEW m \in Models \cup {MissingModel, BrokenModel}, EditModel(m)
      PROVE  WritesInv'
  BY <1>1, <1>7, EditModelKeeps
<1> QED
  BY <1>2, <1>3, <1>4, <1>5, <1>6, <1>7 DEF ChannelWritesNext, WriteStep

\* What is known of a request is enough: a write is as the README says.
LEMMA KnownIsTrue ==
  ASSUME WritesInv
  PROVE  WritesTrue
<1>1. ASSUME NEW w \in Writes, NEW i \in DOMAIN effects[w]
      PROVE  LET r == write[w]
                 c == effects[w][i].channel
             IN  \E rows \in moments[w].titles, m \in moments[w].models :
                   /\ Means(rows, r.query, Kinds(r.verb), c)
                   /\ \/ m \in Models /\ <<r.verb, c>> \in m
                      \/ /\ m = MissingModel /\ options.allow_post
                         /\ \E q \in options.post_channels : Means(rows, q, WriteChannels, c)
  <2>1. effects[w] # <<>>
    BY <1>1
  <2>2. Known(w)
    BY DEF WritesInv
  <2>3. write[w].stage # "none"
    BY <2>1, <2>2 DEF Known
  <2>4. write[w] # Unresolved
    <3>1. SUFFICES ASSUME write[w] = Unresolved
                   PROVE  FALSE
      OBVIOUS
    <3>2. write[w].stage = "over" /\ write[w].answer = "unresolved"
      BY <3>1 DEF Unresolved
    <3> QED
      BY <2>1, <2>2, <3>2 DEF Known, Ended
  <2>5. Meant(w) /\ Granted(w) /\ effects[w][i].channel = write[w].channel
    BY <2>1, <2>2, <2>3, <2>4 DEF Known, Resolved
  <2>6. PICK m \in moments[w].models : Allowed(write[w].rows, m, write[w].verb, write[w].channel)
    BY <2>5 DEF Granted
  <2>7. m \in Models \cup {MissingModel, BrokenModel} /\ ChannelWritesTypeOK
    BY DEF WritesInv
  <2>8. /\ write[w].rows \in moments[w].titles
        /\ Means(write[w].rows, write[w].query, Kinds(write[w].verb), write[w].channel)
    BY <2>5, ResolvesMeans DEF Meant
  <2>9. \/ m \in Models /\ <<write[w].verb, write[w].channel>> \in m
        \/ /\ m = MissingModel /\ options.allow_post
           /\ \E q \in options.post_channels : Means(write[w].rows, q, WriteChannels, write[w].channel)
    BY <2>6, <2>7, AllowedMeans
  <2> QED
    BY <2>5, <2>8, <2>9
<1>2. WrittenAllowed
  BY <1>1 DEF WrittenAllowed
<1>3. ASSUME NEW w \in Writes, write[w].stage = "over"
      PROVE  Ended(w)
  BY <1>3 DEF WritesInv, Known
<1>4. AnswerTrue
  BY <1>3 DEF AnswerTrue, Ended
<1> QED
  BY <1>2, <1>4 DEF WritesTrue, WritesInv

\* What is known of every request stays true (220_dc.pb.js).
THEOREM WritesInvariant == ChannelWritesSpec => []WritesInv
<1>1. ChannelWritesInit => WritesInv
  BY WritesInitially
<1>2. WritesInv /\ [ChannelWritesNext]_writeVars => WritesInv'
  BY WritesKept, WritesStutter
<1> QED
  BY <1>1, <1>2, PTL DEF ChannelWritesSpec

\* A write goes where the request meant, by a policy in force since it came, and
\* its answer says what came of it (resolveEntity, assertWritePolicy, discord).
THEOREM WritesAreTrue == ChannelWritesSpec => []WritesTrue
<1>1. WritesInv => WritesTrue
  BY KnownIsTrue
<1> QED
  BY <1>1, WritesInvariant, PTL

=============================================================================
