------------------------------- MODULE MCPolicy -------------------------------
(* Which channels are read and written: the policy of discord_pb and, beside  *)
(* it, the write routes.  They share no variable; in a behavior one of them    *)
(* runs and the other stays at one of its initial states.                      *)
(*                                                                            *)
(* Few things happen at once, of events being decided, requests being *)
(* answered and a sweep.  What surrounds them is one of: two events and an    *)
(* edit by hand, or an event and a request, on one channel; requests on two   *)
(* channels; sweeps and requests on one; or an event and the save of a model, *)
(* with every channel selected by it or two channels known, or with a sweep.  *)
EXTENDS ChannelPolicy, ChannelWrites, TLC

CONSTANTS a, b, text1, text2, thread1
VARIABLE side

EventsAtMost(n) == Cardinality({e \in Events : ev[e].pc # "idle"}) <= n
RequestsAtMost(n) == Cardinality({h \in Handlers : job[h].pc # "idle"}) <= n
NoEvents == cache = NoCache /\ EventsAtMost(0)
NoEdits == edits = 0
NoSweeps == sweeps = 0
NoFaults == faults = 0
NoStar == ~config.star /\ \A h \in Handlers : ~job[h].text.star
OneChannel ==
  /\ b \notin known /\ config.own[b] = "unset"
  /\ \A h \in Handlers : job[h].text.own[b] = "unset"

OnlySaves ==
  /\ a \in known /\ \A h \in Handlers : job[h].pc = "idle" \/ job[h].kind = "save"
  /\ asked <= 1 /\ (NoStar \/ OneChannel)

Small ==
  \/ OneChannel /\ NoSweeps /\ EventsAtMost(2) /\ RequestsAtMost(0) /\ NoFaults /\ NoStar /\ (asked = edits \/ EventsAtMost(1))
  \/ OneChannel /\ NoSweeps /\ EventsAtMost(1) /\ RequestsAtMost(1) /\ NoFaults /\ NoStar /\ NoEdits
  \/ NoEvents /\ NoSweeps /\ NoEdits /\ RequestsAtMost(2) /\ NoFaults /\ NoStar
  \/ NoEvents /\ OneChannel /\ NoEdits /\ RequestsAtMost(2) /\ NoStar
  \/ OnlySaves /\ OneChannel /\ NoEdits /\ EventsAtMost(1) /\ RequestsAtMost(1) /\ NoFaults /\ NoStar /\ sweeps <= 1
  \/ OnlySaves /\ NoSweeps /\ NoEdits /\ EventsAtMost(1) /\ RequestsAtMost(1) /\ NoFaults

\* post_channels is empty when writing is off, and with different names where
\* there is a model; a name or the model changes while
\* a request is being answered, or a call fails.
MCModels == {{}, {<<"post", text1>>, <<"thread", text1>>, <<"thread", text2>>, <<"pin", thread1>>}}
SameNames == title = [c \in WriteChannels |-> [upper |-> FALSE, longer |-> FALSE]]
SomeWrites ==
  /\ options.allow_post \/ options.post_channels = {}
  /\ model = MissingModel \/ options.post_channels = {} \/ SameNames
NoWrites ==
  /\ SameNames /\ model = MissingModel /\ ~options.allow_post

MCInit ==
  /\ side \in {"policy", "writes"}
  /\ Init /\ Small /\ (side = "writes" => config = Absent /\ known = {})
  /\ ChannelWritesInit /\ SomeWrites /\ (side = "policy" => NoWrites)
MCNext ==
  /\ UNCHANGED side
  /\ \/ side = "policy" /\ Step /\ Small' /\ Witness /\ UNCHANGED writeVars
     \/ /\ side = "writes" /\ ChannelWritesNext /\ UNCHANGED pvars
        /\ changes' + failures' <= 1 /\ (changes' # changes => \E w \in Writes : Under(w))
MCSpec == MCInit /\ [][MCNext]_<<side, pvars, writeVars>>
Symmetry == Permutations(Events) \cup Permutations(Handlers)
=============================================================================
