------------------------------- MODULE MCReaders -------------------------------
(* The ways messages are read: the archive's row, the panel, the timeline, the *)
(* SDK's stream, the sidebar and the room tree.  They share no variable; in a  *)
(* behavior one of them runs, the others stay at one of their initial states.  *)
EXTENDS MessageArchive, ArchivePanel, CentralTimeline, SidebarSync, RoomTree, MessageStream

VARIABLE side

MCMessages == 1..2
MCQueries == {{1, 2}, {1}}
MCDays == {{1}}
MCMessageIds == {1, 2, 4}
MCThreadIds == {3}
MCInstant(i) == IF i = 4 THEN 2 ELSE 1
MCFilters == {[kinds |-> {"message", "thread"}, versions |-> {1, 2}],
              [kinds |-> {"message", "thread"}, versions |-> {1}],
              [kinds |-> {}, versions |-> {1, 2}]}

\* The panel and the timeline have one message at least from the start, and one
\* thing goes wrong with the panel's connection.  The sidebar: saves that overlap without the tool; or the tool, one save at most
\* and one thing that goes wrong on readable preferences.
SidebarSmall ==
  \/ \A r \in Runs : At(r, "none")
  \/ Cardinality({n \in Saves : save[n].stage # "none"}) <= 1 /\ breaks + meddles <= 1 /\ prefs # Damaged

MCInit ==
  /\ side \in {"archive", "panel", "timeline", "sidebar", "tree", "stream"}
  /\ Init /\ (side # "archive" => truth.body = 0)
  /\ PanelInit /\ archive[1] = 1 /\ (side # "panel" => archive[2] = 0)
  /\ TimelineInit /\ version[1] = 1 /\ (side # "timeline" => 2 \notin filter.versions /\ version[2] + version[4] = 0)
  /\ SidebarInit /\ (side # "sidebar" => known = Guilds /\ prefs = NoPrefs)
  /\ RoomTreeInit /\ serverName[2] = 1 /\ (side # "tree" => serverName[1] = 1)
  /\ StreamInit

MCNext ==
  /\ UNCHANGED side
  /\ \/ /\ side = "archive" /\ Next
        /\ UNCHANGED <<panelVars, timelineVars, sidebarVars, treeVars, streamVars>>
     \/ /\ side = "panel" /\ PanelNext /\ fails' + drops' <= 1
        /\ UNCHANGED <<vars, timelineVars, sidebarVars, treeVars, streamVars>>
     \/ /\ side = "timeline" /\ TimelineNext
        /\ UNCHANGED <<vars, panelVars, sidebarVars, treeVars, streamVars>>
     \/ /\ side = "sidebar" /\ SidebarStep /\ SidebarSmall' /\ Witness
        /\ UNCHANGED <<vars, panelVars, timelineVars, treeVars, streamVars>>
     \/ /\ side = "tree" /\ RoomTreeNext
        /\ UNCHANGED <<vars, panelVars, timelineVars, sidebarVars, streamVars>>
     \/ /\ side = "stream" /\ StreamNext
        /\ UNCHANGED <<vars, panelVars, timelineVars, sidebarVars, treeVars>>

MCSpec == MCInit /\ [][MCNext]_<<side, vars, panelVars, timelineVars, sidebarVars, treeVars, streamVars>>
=============================================================================
