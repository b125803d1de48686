------------------------------ MODULE SidebarSync ------------------------------
(***************************************************************************)
(* Which servers of the Discord archive the sidebars show: the shared      *)
(* preferences (POST and GET /api/dc/sidebar, 240_sidebar.pb.js and        *)
(* lib/dc_sidebar.js) and tools/ha-sidebar.ts, which keeps one Home        *)
(* Assistant dashboard per server, a run of it being a chain of websocket  *)
(* requests any of which may fail or lose its answer.                      *)
(*                                                                         *)
(* Titles, the order and the collapsed categories are left out.            *)
(***************************************************************************)
EXTENDS Naturals, FiniteSets

CONSTANTS Guilds,     \* servers; each has the dashboard path dc-<id>
          Timeline,   \* the path dc-timeline
          Runs,       \* runs of the tool, each an operating system process
          Saves,      \* requests that save preferences
          MaxBreaks,  \* bound: requests of the tool that fail
          MaxMeddles  \* bound: dashboards changed on Home Assistant's own pages

ASSUME SidebarAssumption ==
  /\ IsFiniteSet(Guilds) /\ Timeline \notin Guilds /\ "?" \notin Guilds
  /\ MaxBreaks \in Nat /\ MaxMeddles \in Nat

Paths == Guilds \cup {Timeline}

VARIABLES known,    \* servers in discord_entities
          prefs,    \* dc_settings "sidebar"
          save,     \* per request: what it does and what it has merged
          wanted,   \* history: every stored patch applied in order
          overlap,  \* history: two requests were being answered at once
          dash,     \* Home Assistant's dashboards
          run,      \* per run of the tool, where it is
          calm,     \* history, per run: nothing else has changed since it read
          breaks, meddles

prefVars == <<known, prefs, save, wanted, overlap>>
sidebarVars == <<prefVars, dash, run, calm, breaks, meddles>>

Prefs == [hidden: SUBSET Guilds, closed: SUBSET Guilds]
NoPrefs == [hidden |-> {}, closed |-> {}]
Damaged == [hidden |-> {"?"}, closed |-> {"?"}]   \* a stored value that cannot be read
\* normalizePrefs: an unreadable value stands for no preferences.
Parsed(p) == IF p = Damaged THEN NoPrefs ELSE p
Dashboard == [there: BOOLEAN, shown: BOOLEAN, frame: {"none", "own", "other"}]
NoDashboard == [there |-> FALSE, shown |-> FALSE, frame |-> "none"]
Patch == [key: {"hidden", "hide", "show", "open", "close"}, guild: Guilds]
NoSave == [stage |-> "none", merged |-> NoPrefs]
NoRun == [stage |-> "none", cmd |-> "none", path |-> Timeline, todo |-> {}, seen |-> NoPrefs, have |-> {}]
Commands == {"sync", "pin", "pin-timeline", "hide", "show", "unpin"}

SidebarTypeOK ==
  /\ known \subseteq Guilds /\ Parsed(prefs) \in Prefs /\ wanted \in Prefs /\ overlap \in BOOLEAN
  /\ \A n \in Saves : save[n].stage \in {"none", "merged", "over"} /\ save[n].merged \in Prefs
  /\ dash \in [Paths -> Dashboard] /\ calm \in [Runs -> BOOLEAN]
  /\ \A r \in Runs : run[r].cmd \in Commands \cup {"none"} /\ run[r].path \in Paths /\ run[r].todo \subseteq Guilds
  /\ breaks \in 0..MaxBreaks /\ meddles \in 0..MaxMeddles

SidebarInit ==
  /\ known \in SUBSET Guilds \ {{}} /\ prefs \in {NoPrefs, Damaged} /\ save = [n \in Saves |-> NoSave]
  /\ wanted = NoPrefs /\ overlap = FALSE
  /\ dash = [p \in Paths |-> NoDashboard] /\ run = [r \in Runs |-> NoRun]
  /\ calm = [r \in Runs |-> FALSE] /\ breaks = 0 /\ meddles = 0

-----------------------------------------------------------------------------
\* The preferences.

\* mergePrefs of a patch that names one server.
Merged(p, patch) ==
  LET g == {patch.guild} IN
  CASE patch.key = "hidden" -> [p EXCEPT !.hidden = g]
    [] patch.key = "hide"  -> [p EXCEPT !.hidden = @ \cup g]
    [] patch.key = "show"  -> [p EXCEPT !.hidden = @ \ g]
    [] patch.key = "open"  -> [p EXCEPT !.closed = @ \ g]
    [] patch.key = "close" -> [p EXCEPT !.closed = @ \cup g]

\* The stored preferences are read and merged, and ids unknown to the archive
\* dropped, before the transaction begins.
MergePrefs(n, patch) ==
  /\ save[n].stage = "none"
  /\ LET m == Merged(Parsed(prefs), patch)
     IN  save' = [save EXCEPT ![n] = [stage |-> "merged", patch |-> patch,
                                      merged |-> [m EXCEPT !.hidden = @ \cap known]]]
  /\ overlap' = (overlap \/ \E k \in Saves : save[k].stage = "merged")
  /\ UNCHANGED <<known, prefs, wanted, dash, run, breaks, meddles>>

\* Mutant: what is stored is what the request said, not what was merged.
StorePatch(n) ==
  /\ save[n].stage = "merged"
  /\ prefs' = Merged(NoPrefs, save[n].patch) /\ wanted' = Merged(wanted, save[n].patch)
  /\ save' = [save EXCEPT ![n].stage = "over"]
  /\ UNCHANGED <<known, overlap, dash, run, breaks, meddles>>
\* The transaction stores the merged value.
StorePrefs(n) ==
  /\ save[n].stage = "merged"
  /\ prefs' = save[n].merged /\ wanted' = Merged(wanted, save[n].patch)
  /\ save' = [save EXCEPT ![n].stage = "over"]
  /\ UNCHANGED <<known, overlap, dash, run, breaks, meddles>>

SaveRefused(n) ==
  /\ save[n].stage = "merged" /\ breaks < MaxBreaks /\ breaks' = breaks + 1
  /\ save' = [save EXCEPT ![n].stage = "over"]
  /\ UNCHANGED <<known, prefs, wanted, overlap, dash, run, meddles>>

DiscoverServer(g) ==
  /\ g \notin known /\ known' = known \cup {g}
  /\ UNCHANGED <<prefs, save, wanted, overlap, dash, run, breaks, meddles>>

-----------------------------------------------------------------------------
\* The tool.
At(r, s) == run[r].stage = s
Goes(r, s) == run' = [run EXCEPT ![r].stage = s]

\* The process logs in and runs one command.
StartRun(r, c, p) ==
  /\ At(r, "none")
  /\ c \in {"sync", "pin-timeline"} => p = Timeline
  /\ c = "pin" => p \in Guilds
  /\ run' = [run EXCEPT ![r] = [NoRun EXCEPT !.cmd = c, !.path = p,
               !.stage = CASE c = "sync" -> "servers"
                           [] c \in {"pin", "pin-timeline"} -> "look"
                           [] c \in {"hide", "show", "unpin"} -> "find"]]
  /\ UNCHANGED <<prefVars, dash, breaks, meddles>>

\* servers(): what GET /api/dc/sidebar says.
ReadServers(r) ==
  /\ At(r, "servers")
  /\ run' = [run EXCEPT ![r] = [@ EXCEPT !.stage = "dashboards", !.todo = known, !.seen = Parsed(prefs)]]
  /\ UNCHANGED <<prefVars, dash, breaks, meddles>>

\* dashboards(): the dc-* dashboards, read once for the whole loop.
ReadDashboards(r) ==
  /\ At(r, "dashboards")
  /\ run' = [run EXCEPT ![r] = [@ EXCEPT !.stage = "next", !.have = {p \in Paths : dash[p].shown}]]
  /\ UNCHANGED <<prefVars, dash, breaks, meddles>>

\* The loop of sync: a hidden server's dashboard is hidden if it is shown, any
\* other server is pinned.
NextServer(r, g) ==
  /\ At(r, "next") /\ g \in run[r].todo
  /\ run' = [run EXCEPT ![r] = [@ EXCEPT !.todo = run[r].todo \ {g}, !.path = g,
               !.stage = IF g \notin run[r].seen.hidden THEN "look"
                         ELSE IF g \in run[r].have THEN "find" ELSE "next"]]
  /\ UNCHANGED <<prefVars, dash, breaks, meddles>>

\* What follows a server's last request.
After(r) == IF run[r].cmd = "sync" THEN "next" ELSE "done"

SyncEnds(r) ==
  /\ At(r, "next") /\ run[r].todo = {} /\ Goes(r, "done")
  /\ UNCHANGED <<prefVars, dash, breaks, meddles>>

\* Mutant: a dashboard that is there and shown is taken to be complete.
LookTrusting(r) ==
  /\ At(r, "look")
  /\ LET d == dash[run[r].path]
     IN  Goes(r, IF ~d.there THEN "create" ELSE IF d.shown THEN After(r) ELSE "update")
  /\ UNCHANGED <<prefVars, dash, breaks, meddles>>
\* pin(): is the dashboard there, and shown?  Its config is saved in any case.
Look(r) ==
  /\ At(r, "look")
  /\ LET d == dash[run[r].path]
     IN  Goes(r, IF ~d.there THEN "create" ELSE IF d.shown THEN "config" ELSE "update")
  /\ UNCHANGED <<prefVars, dash, breaks, meddles>>

\* setVisible() and unpin: a dashboard that is not there ends the process.
FindDashboard(r) ==
  /\ At(r, "find")
  /\ Goes(r, IF ~dash[run[r].path].there THEN "died"
             ELSE IF run[r].cmd = "unpin" THEN "delete" ELSE "visible")
  /\ UNCHANGED <<prefVars, dash, breaks, meddles>>

\* What a request makes of its dashboard, and whether Home Assistant takes it.
Taken(s, d) == (s = "create") # d.there
Effect(r, d) ==
  CASE At(r, "create")  -> [there |-> TRUE, shown |-> TRUE, frame |-> "none"]
    [] At(r, "update")  -> [d EXCEPT !.shown = TRUE]
    [] At(r, "visible") -> [d EXCEPT !.shown = run[r].cmd = "show"]
    [] At(r, "config")  -> [d EXCEPT !.frame = "own"]
    [] At(r, "delete")  -> NoDashboard

Then(r) == CASE run[r].stage \in {"create", "update"} -> "config"
             [] run[r].stage \in {"config", "delete"} -> "check"
             [] At(r, "visible") -> After(r)

\* A request that changes a dashboard; its answer may be lost, and with it the run.
ChangeDashboard(r) ==
  /\ run[r].stage \in {"create", "update", "visible", "config", "delete"}
  /\ LET p == run[r].path
         d == dash[p]
     IN \/ /\ Taken(run[r].stage, d) /\ dash' = [dash EXCEPT ![p] = Effect(r, d)]
           /\ \/ Goes(r, Then(r)) /\ UNCHANGED breaks
              \/ breaks < MaxBreaks /\ breaks' = breaks + 1 /\ Goes(r, "died")
        \/ ~Taken(run[r].stage, d) /\ Goes(r, "died") /\ UNCHANGED <<dash, breaks>>
  /\ UNCHANGED <<prefVars, meddles>>

\* The config is read back, or the list after a deletion; what is not as it was
\* left ends the process.
CheckDashboard(r) ==
  /\ At(r, "check")
  /\ LET d == dash[run[r].path]
     IN  Goes(r, IF (IF run[r].cmd = "unpin" THEN ~d.there ELSE d.frame = "own") THEN After(r) ELSE "died")
  /\ UNCHANGED <<prefVars, dash, breaks, meddles>>

\* A request fails or times out, or the process is interrupted.
RunDies(r) ==
  /\ run[r].stage \notin {"none", "done", "died"} /\ breaks < MaxBreaks /\ breaks' = breaks + 1
  /\ Goes(r, "died") /\ UNCHANGED <<prefVars, dash, meddles>>

\* Somebody uses Home Assistant's own dashboard settings.
Meddle(p) ==
  /\ dash[p].there /\ meddles < MaxMeddles /\ meddles' = meddles + 1
  /\ \E d \in {NoDashboard, [dash[p] EXCEPT !.shown = ~@], [dash[p] EXCEPT !.frame = "other"]} :
       dash' = [dash EXCEPT ![p] = d]
  /\ UNCHANGED <<prefVars, run, breaks>>

RunStep(r) ==
  \/ \E c \in Commands, p \in Paths : StartRun(r, c, p)
  \/ ReadServers(r) \/ ReadDashboards(r) \/ \E g \in Guilds : NextServer(r, g)
  \/ SyncEnds(r) \/ Look(r) \/ FindDashboard(r) \/ ChangeDashboard(r) \/ CheckDashboard(r) \/ RunDies(r)

SidebarStep ==
  \/ \E n \in Saves, patch \in Patch : patch.guild \in known /\ MergePrefs(n, patch)
  \/ \E n \in Saves : StorePrefs(n) \/ SaveRefused(n)
  \/ \E g \in Guilds : DiscoverServer(g)
  \/ \E r \in Runs : RunStep(r)
  \/ \E p \in Paths : Meddle(p)

\* A run has been undisturbed since it read the servers.
Witness ==
  calm' = [r \in Runs |->
             \/ At(r, "servers") /\ run'[r].stage = "dashboards"
             \/ calm[r] /\ (run'[r] # run[r] \/ <<known, prefs, dash>>' = <<known, prefs, dash>>)]

SidebarNext == SidebarStep /\ Witness

SidebarSpec == SidebarInit /\ [][SidebarNext]_sidebarVars

-----------------------------------------------------------------------------
\* ha-sidebar.ts: sync pins every server and hides hidden ones, "mirrors the
\* add-on's hidden list into show_in_sidebar" (docs/design.md).  When a sync ends
\* well and nothing else changed meanwhile, that is so of every server, the
\* iframe included, whatever an earlier run that died half-way, another command
\* or a person at the settings page had left behind.
Mirrored ==
  \A r \in Runs : run[r].cmd = "sync" /\ At(r, "done") /\ calm[r] =>
    \A g \in known : IF g \in Parsed(prefs).hidden THEN ~dash[g].shown
                     ELSE dash[g] = [there |-> TRUE, shown |-> TRUE, frame |-> "own"]

\* dc_sidebar.js: hide, show, open and collapsed are merged per id.  What is
\* stored is every answered patch applied in turn, unless two requests ran at
\* once: the second to store then undoes the first (read outside the transaction).
PrefsKept == ~overlap => Parsed(prefs) = wanted

\* The sidebar is as the preferences say after a sync, and the preferences are as
\* they were set (ha-sidebar.ts, dc_sidebar.js).
SidebarTrue == SidebarTypeOK /\ Mirrored /\ PrefsKept

=============================================================================
