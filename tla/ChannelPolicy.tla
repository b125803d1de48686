----------------------------- MODULE ChannelPolicy -----------------------------
(***************************************************************************)
(* Which channels are imported, in 09-discord_pb.  The declared model      *)
(* (/data/dc.config.yaml) is edited by checkbox, by row, as a whole or by  *)
(* hand; the checkbox table and the "channels" option stand in while no    *)
(* file exists.  Live events ask for the policy through a cache of the     *)
(* compiled model, the sweeps of backfill.py read it once a run.           *)
(*                                                                         *)
(* One guild, declared by every valid file; names, purposes and the other  *)
(* policy fields are left out, and so is how the text is laid out: dc_model *)
(* writes the same model as the same text again.                           *)
(***************************************************************************)
EXTENDS Naturals, FiniteSets

CONSTANTS Channels,
          Initial,     \* the "channels" option, resolved
          Events,      \* live dispatches handled at the same time
          Handlers,    \* administrators' requests handled at the same time
          None,        \* no handler, no channel
          MaxWrites, MaxEdits, MaxFaults, MaxSweeps   \* bounds

ASSUME PolicyAssumption ==
  /\ Initial \subseteq Channels
  /\ None \notin Handlers \cup Channels
  /\ MaxWrites \in Nat /\ MaxEdits \in Nat /\ MaxFaults \in Nat /\ MaxSweeps \in Nat

VARIABLES config,   \* the text of dc.config.yaml
          lock,     \* who holds its .lock
          known,    \* channels in discord_entities
          table,    \* dc_channel_selection
          seeded,   \* selection_initialized
          marker,   \* /data/backfill-request
          sweep,    \* the worker: between runs, reading or seeding
          swept,    \* what the last sweep read
          cache,    \* live-policy.json
          ev,       \* per event: its call of liveModel
          job,      \* per handler: its request
          asked, edits, faults, sweeps,
          \* History, for the properties: what the policy has said of an event's
          \* channel since the event came, the texts the file no longer had at some
          \* time, and those of them that it came to have again.
          answers, gone, back

file == <<config, lock>>
db == <<known, table, seeded>>
worker == <<marker, sweep, swept, sweeps>>
bounds == <<asked, edits, faults>>
history == <<answers, gone, back>>
pvars == <<file, db, worker, cache, ev, job, bounds, history>>

Unset == [c \in Channels |-> "unset"]
Absent == [file |-> "absent", star |-> FALSE, own |-> Unset]
Broken == [file |-> "broken", star |-> FALSE, own |-> Unset]
Declared == [file: {"valid"}, star: BOOLEAN, own: [Channels -> {"unset", "on", "off"}]]
Text == {Absent, Broken} \cup Declared
Model == [ok: BOOLEAN, exists: BOOLEAN, imports: SUBSET Channels]
NoModel == [ok |-> FALSE, exists |-> FALSE, imports |-> {}]

\* mixed is history: the model was compiled from another text than the one it is
\* or will be stored under.
NoCache == [yaml |-> Broken, key |-> {}, model |-> NoModel, mixed |-> FALSE]
NoEvent == [pc |-> "idle", chan |-> None, yaml |-> Absent, key |-> {}, ents |-> {}, model |-> NoModel,
            mixed |-> FALSE]
NoJob == [pc |-> "idle", kind |-> "row", chan |-> None, change |-> "keep", sel |-> {}, ents |-> {},
          text |-> Absent]

TypeOK ==
  /\ config \in Text /\ lock \in Handlers \cup {None}
  /\ \A h \in Handlers : lock = h => job[h].pc = "write"
  /\ known \subseteq Channels
  /\ table \in [Channels -> {"none", "on", "off"}] /\ seeded \in BOOLEAN
  /\ marker \in BOOLEAN /\ sweep \in {"idle", "reading", "seeding"} /\ swept \in Text
  /\ cache \in [yaml: Text, key: SUBSET Channels, model: Model, mixed: BOOLEAN]
  /\ cache # NoCache => cache.model.ok
  /\ ev \in [Events -> [pc: {"idle", "dir", "key", "cache", "entities", "load", "store", "decide"},
                        chan: Channels \cup {None}, yaml: Text, key: SUBSET Channels,
                        ents: SUBSET Channels, model: Model, mixed: BOOLEAN]]
  /\ job \in [Handlers -> [pc: {"idle", "entities", "lock", "write", "row", "mark"},
                           kind: {"select", "row", "save"}, chan: Channels \cup {None},
                           change: {"on", "off", "keep"}, sel: SUBSET Channels,
                           ents: SUBSET Channels, text: Text]]
  /\ asked \in 0..MaxWrites /\ edits \in 0..MaxEdits
  /\ faults \in 0..MaxFaults /\ sweeps \in 0..MaxSweeps
  /\ answers \in [Events -> SUBSET BOOLEAN]
  /\ back \subseteq gone /\ gone \subseteq Text \ {Absent}

\* validate_model: a reference to a channel not discovered refuses the file.
Compile(text, ents) ==
  IF text.file = "absent" THEN [NoModel EXCEPT !.ok = TRUE]
  ELSE IF text.file = "broken" \/ \E c \in Channels \ ents : text.own[c] # "unset"
    THEN [NoModel EXCEPT !.exists = TRUE]
    ELSE [ok |-> TRUE, exists |-> TRUE,
          imports |-> {c \in ents : text.own[c] = "on" \/ (text.own[c] = "unset" /\ text.star)}]

Ticked == {c \in Channels : table[c] = "on"}

\* Mutant: an invalid model leaves the decision to the table.
GrantsByTable(model, c) == IF model.ok /\ model.exists THEN c \in model.imports ELSE c \in Ticked

\* selected: the model decides, and the table while there is none.
Grants(model, c) == model.ok /\ IF model.exists THEN c \in model.imports ELSE c \in Ticked

\* What is said of a channel, for the properties: the declared model's answer,
\* nothing while it is invalid, the table's while there is none.
Says(c) ==
  LET m == Compile(config, known)
  IN  c \in known /\ m.ok /\ (IF m.exists THEN c \in m.imports ELSE table[c] = "on")

Init ==
  /\ config \in {Absent} \cup {d \in Declared : \A c \in Channels : d.own[c] # "off"}
  /\ lock = None
  /\ known \in SUBSET Channels
  /\ table = [c \in Channels |-> "none"] /\ seeded = FALSE
  /\ marker = FALSE /\ sweep = "idle" /\ swept = config
  /\ cache = NoCache
  /\ ev = [e \in Events |-> NoEvent] /\ job = [h \in Handlers |-> NoJob]
  /\ asked = 0 /\ edits = 0 /\ faults = 0 /\ sweeps = 0
  /\ answers = [e \in Events |-> {}] /\ gone = {} /\ back = {}

-----------------------------------------------------------------------------
\* The file is edited or removed by hand, without the lock.
Edit ==
  /\ edits < MaxEdits /\ asked < MaxWrites
  /\ edits' = edits + 1 /\ asked' = asked + 1
  /\ config' \in Text
  /\ UNCHANGED <<lock, db, worker, cache, ev, job, faults>>

\* A channel is discovered.
Discover(c) ==
  /\ c \notin known
  /\ known' = known \cup {c}
  /\ UNCHANGED <<file, table, seeded, worker, cache, ev, job, bounds>>

-----------------------------------------------------------------------------
\* An administrator's request.
At(h, pc) == job[h].pc = pc
Goes(h, pc) == job' = [job EXCEPT ![h].pc = pc]
Ends(h) == job' = [job EXCEPT ![h] = NoJob]

\* POST .../select and POST .../config/channel: the ticked channels are read
\* before anything else; a checkbox counts itself in or out.
BeginSet(h, c, kind, change) ==
  /\ At(h, "idle") /\ asked < MaxWrites
  /\ c \in known /\ (kind = "select" => change # "keep")
  /\ asked' = asked + 1
  /\ LET own == IF change = "on" THEN {c} ELSE {}
         sel == IF kind = "select" THEN (Ticked \ {c}) \cup own ELSE Ticked
     IN  job' = [job EXCEPT ![h] = [pc |-> "entities", kind |-> kind, chan |-> c, change |-> change,
                                    sel |-> sel, ents |-> {}, text |-> Absent]]
  /\ UNCHANGED <<file, db, worker, cache, ev, edits, faults>>

\* POST .../config/save
BeginSave(h, text) ==
  /\ At(h, "idle") /\ asked < MaxWrites
  /\ asked' = asked + 1
  /\ job' = [job EXCEPT ![h] = [NoJob EXCEPT !.pc = "entities", !.kind = "save", !.text = text]]
  /\ UNCHANGED <<file, db, worker, cache, ev, edits, faults>>

\* modelEntities, for the request handed to dc_model.py.
ReadEntities(h) ==
  /\ At(h, "entities")
  /\ job' = [job EXCEPT ![h].pc = "lock", ![h].ents = known]
  /\ UNCHANGED <<file, db, worker, cache, ev, bounds>>

\* set_channel: the file with the row of one channel set; _seed_config makes
\* the file from the ticked channels when there is none.
Patched(j, text) ==
  LET start == IF text.file = "valid" THEN text
               ELSE [file |-> "valid", star |-> FALSE,
                     own |-> [c \in Channels |-> IF c \in j.sel THEN "on" ELSE "unset"]]
      was == IF text.file = "valid" THEN j.chan \in Compile(text, j.ents).imports ELSE j.chan \in j.sel
      row == IF j.change # "keep" THEN j.change ELSE IF was THEN "on" ELSE "off"
  IN  [start EXCEPT !.own[j.chan] = row]

\* What dc_model.py makes of the request under the lock, or refuses.
Result(h) == IF job[h].kind = "save" THEN job[h].text ELSE Patched(job[h], config)
Accepted(h) ==
  /\ job[h].kind # "save" => Compile(config, job[h].ents).ok
  /\ Compile(Result(h), job[h].ents).ok

\* Mutant: the lock is not waited for.
LockAnyway(h) ==
  /\ At(h, "lock") /\ Accepted(h)
  /\ lock' = h
  /\ job' = [job EXCEPT ![h].pc = "write", ![h].text = Result(h)]
  /\ UNCHANGED <<config, db, worker, cache, ev, bounds>>

\* The lock is taken and the file read.
Lock(h) ==
  /\ At(h, "lock") /\ lock = None /\ Accepted(h)
  /\ lock' = h
  /\ job' = [job EXCEPT ![h].pc = "write", ![h].text = Result(h)]
  /\ UNCHANGED <<config, db, worker, cache, ev, bounds>>

Refuse(h) ==
  /\ At(h, "lock") /\ lock = None /\ ~Accepted(h)
  /\ Ends(h)
  /\ UNCHANGED <<file, db, worker, cache, ev, bounds>>

\* _atomic_write replaces the file; the lock goes with it.
Publish(h) ==
  /\ At(h, "write")
  /\ config' = job[h].text
  /\ lock' = None
  /\ Goes(h, IF job[h].kind = "select" THEN "row" ELSE "mark")
  /\ UNCHANGED <<db, worker, cache, ev, bounds>>

\* The checkbox row is saved after the file, or fails and ends the request.
SaveRow(h) ==
  /\ At(h, "row")
  /\ table' = [table EXCEPT ![job[h].chan] = job[h].change]
  /\ Goes(h, "mark")
  /\ UNCHANGED <<file, known, seeded, worker, cache, ev, bounds>>

RowFails(h) ==
  /\ At(h, "row") /\ faults < MaxFaults
  /\ faults' = faults + 1
  /\ Ends(h)
  /\ UNCHANGED <<file, db, worker, cache, ev, asked, edits>>

\* Mutant: the poller is not woken for a row.
MarkSelectOnly(h) ==
  /\ At(h, "mark")
  /\ marker' = (marker \/ job[h].kind # "row")
  /\ Ends(h)
  /\ UNCHANGED <<file, db, sweep, swept, sweeps, cache, ev, bounds>>

Mark(h) ==
  /\ At(h, "mark")
  /\ marker' = TRUE
  /\ Ends(h)
  /\ UNCHANGED <<file, db, sweep, swept, sweeps, cache, ev, bounds>>

-----------------------------------------------------------------------------
\* The supervisor's marker, then the worker's read of the selection: it seeds
\* the table from the "channels" option when there is neither a model nor a seed.
StartSweep ==
  /\ sweep = "idle" /\ sweeps < MaxSweeps
  /\ sweeps' = sweeps + 1
  /\ sweep' = "reading" /\ marker' = FALSE
  /\ UNCHANGED <<file, db, swept, cache, ev, job, bounds>>

ReadModel ==
  /\ sweep = "reading"
  /\ swept' = config
  /\ sweep' = IF config = Absent /\ ~seeded THEN "seeding" ELSE "idle"
  /\ UNCHANGED <<file, db, marker, sweeps, cache, ev, job, bounds>>

\* seed_selection indexes the channels, then ticks those without a row.
Seed ==
  /\ sweep = "seeding"
  /\ known' = known \cup Initial
  /\ table' = [c \in Channels |-> IF c \in Initial /\ table[c] = "none" THEN "on" ELSE table[c]]
  /\ seeded' = TRUE
  /\ sweep' = "idle"
  /\ UNCHANGED <<file, marker, swept, sweeps, cache, ev, job, bounds>>

-----------------------------------------------------------------------------
\* A live event: dispatch asks liveModel.
Calls(e, pc) == ev[e].pc = pc

\* The text is read; no text, and the directory is asked.
ReadYaml(e, c) ==
  /\ Calls(e, "idle")
  /\ ev' = [ev EXCEPT ![e] = [NoEvent EXCEPT !.chan = c, !.yaml = config,
                                !.pc = IF config = Absent THEN "dir" ELSE "key"]]
  /\ UNCHANGED <<file, db, worker, cache, job, bounds>>

ReadDir(e) ==
  /\ Calls(e, "dir")
  /\ ev' = [ev EXCEPT ![e].pc = IF config = Absent THEN "decide" ELSE "entities",
                      ![e].model = Compile(Absent, {})]
  /\ UNCHANGED <<file, db, worker, cache, job, bounds>>

ReadKey(e) ==
  /\ Calls(e, "key")
  /\ ev' = [ev EXCEPT ![e].pc = "cache", ![e].key = known]
  /\ UNCHANGED <<file, db, worker, cache, job, bounds>>

Hit(e) == cache.model.ok /\ cache.yaml = ev[e].yaml /\ cache.key = ev[e].key

ReadCache(e) ==
  /\ Calls(e, "cache")
  /\ ev' = IF Hit(e) THEN [ev EXCEPT ![e].pc = "decide", ![e].model = cache.model, ![e].mixed = cache.mixed]
                     ELSE [ev EXCEPT ![e].pc = "entities"]
  /\ UNCHANGED <<file, db, worker, cache, job, bounds>>

\* getModel: the entities are read again, and dc_model.py reads the file again.
ReadModelEntities(e) ==
  /\ Calls(e, "entities")
  /\ ev' = [ev EXCEPT ![e].pc = "load", ![e].ents = known]
  /\ UNCHANGED <<file, db, worker, cache, job, bounds>>

Load(e) ==
  /\ Calls(e, "load")
  /\ LET m == Compile(config, ev[e].ents)
         stores == m.ok /\ ev[e].yaml # Absent
     IN  ev' = [ev EXCEPT ![e].model = m, ![e].pc = IF stores THEN "store" ELSE "decide",
                          ![e].mixed = stores /\ config # ev[e].yaml]
  /\ UNCHANGED <<file, db, worker, cache, job, bounds>>

\* The cache is replaced under the text and the entities read at first.
Store(e) ==
  /\ Calls(e, "store")
  /\ cache' = [yaml |-> ev[e].yaml, key |-> ev[e].key, model |-> ev[e].model, mixed |-> ev[e].mixed]
  /\ ev' = [ev EXCEPT ![e].pc = "decide", ![e].mixed = FALSE]
  /\ UNCHANGED <<file, db, worker, job, bounds>>

\* The message is archived or ignored.
Stored(e) == ev[e].chan \in known /\ Grants(ev[e].model, ev[e].chan)
Decide(e) ==
  /\ Calls(e, "decide")
  /\ ev' = [ev EXCEPT ![e] = NoEvent]
  /\ UNCHANGED <<file, db, worker, cache, job, bounds>>

-----------------------------------------------------------------------------
Request(h) ==
  \/ \E c \in Channels, kind \in {"select", "row"}, change \in {"on", "off", "keep"} : BeginSet(h, c, kind, change)
  \/ \E t \in Declared : BeginSave(h, t)
  \/ ReadEntities(h) \/ Lock(h) \/ Refuse(h) \/ Publish(h) \/ SaveRow(h) \/ RowFails(h) \/ Mark(h)

Dispatch(e) ==
  \/ \E c \in Channels : ReadYaml(e, c)
  \/ ReadDir(e) \/ ReadKey(e) \/ ReadCache(e) \/ ReadModelEntities(e) \/ Load(e) \/ Store(e) \/ Decide(e)

\* What the policy says of an event's channel, from the moment it came; and a
\* text goes, or is back.
Witness ==
  /\ answers' = [e \in Events |->
                   IF ev'[e].pc = "idle" THEN {} ELSE answers[e] \cup {Says(ev[e].chan)'}]
  /\ gone' = IF config' # config THEN gone \cup ({config} \ {Absent}) ELSE gone
  /\ back' = IF config' # config THEN back \cup (gone \cap {config'}) ELSE back

Step ==
  \/ Edit \/ \E c \in Channels : Discover(c)
  \/ \E h \in Handlers : Request(h)
  \/ StartSweep \/ ReadModel \/ Seed
  \/ \E e \in Events : Dispatch(e)

Next == Step /\ Witness

Spec == Init /\ [][Next]_pvars

-----------------------------------------------------------------------------
\* An event is archived or ignored as the declared model said at some moment
\* since it came.  Two exceptions: it is ignored when the file it compiles names a
\* channel discovered after it read the entities; and when there was no file, the
\* table decides, which is read later, when a sweep may have seeded it or a file
\* come and gone by hand.
AsSaid(e) ==
  \/ Stored(e) \in answers[e]
  \/ ~ev[e].model.ok /\ ev[e].ents # known
  \/ ev[e].model.ok /\ ~ev[e].model.exists /\ config # Absent /\ (edits > 0 \/ sweeps > 0)

\* "Cache the expensive Python compilation, not its authority" (dc_api.js): an
\* event decides by the declared model whoever compiled it (liveModel), but for
\* one case: getModel reads the file after liveModel has, so a model may be
\* cached under a text it was not compiled from, and is used when the file
\* comes back to that text.
DecisionCurrent ==
  \A e \in Events : Calls(e, "decide") =>
    AsSaid(e) \/ (ev[e].mixed /\ ev[e].yaml \in back)

\* Two requests at once, a set of one channel leaves every other as it was,
\* and no request writes over what it has not read (_config_lock).  An edit by
\* hand takes no lock and is excluded.
OneRowAtATime ==
  [][\A h \in Handlers :
       At(h, "write") /\ job'[h].pc # "write" /\ job[h].kind # "save" /\ config.file = "valid" /\ edits = 0 =>
         \A c \in Channels \ {job[h].chan} : config'.own[c] = config.own[c]]_pvars

\* A saved model is read by a sweep that starts after it, or its marker is
\* there or about to be ("saves wake the poller", README.md of 09-discord_pb):
\* of the saves that did not fail half-way (an edit by hand writes no marker).
SavesWake ==
  swept # config /\ faults = 0 /\ edits = 0 =>
    marker \/ sweep = "reading" \/ \E h \in Handlers : job[h].pc \in {"row", "mark"}
=============================================================================
