-------------------------------- MODULE MCPage --------------------------------
(* Who sends files: the peers of the dropbox page, its queue of dropped files   *)
(* with the upload route behind it, and a run of send.ts.  They share no        *)
(* variable; in a behavior one of them runs and the others stay at one of their *)
(* initial states.  The queue has two drops at once; f3 needs the channel.      *)
EXTENDS BrowserPeer, DropQueue, SendTarget

CONSTANTS f1, f2, f3
VARIABLE side

Runs(s) == side = s

MCDrops == <<<<f1, f3>>, <<f2>>>>
MCChunks == [f \in {f1, f2, f3} |-> IF f = f3 THEN 2 ELSE 1]

MCInit ==
  /\ side \in {"browser", "drop", "send"}
  /\ BrowserInit /\ DropInit /\ SendInit
  /\ ~Runs("drop") => channel = "none"
  /\ ~Runs("send") => own = Wanted /\ asked = "send"

\* The page connects anew, or a side does; a second passes, or the server restarts.
MCNext ==
  /\ UNCHANGED side
  /\ \/ Runs("browser") /\ BrowserNext /\ (connects' = 0 \/ nextId' <= 3) /\ UNCHANGED <<dvars, sendVars>>
     \/ Runs("drop") /\ DropNext /\ second' + crashes' <= 1 /\ UNCHANGED <<bvars, sendVars>>
     \/ Runs("send") /\ SendNext /\ UNCHANGED <<bvars, dvars>>

\* The fairness of BrowserPeer and DropQueue, of the one that runs.
MCFairness ==
  /\ WF_bvars(Runs("browser") /\ ReadMessage) /\ WF_bvars(Runs("browser") /\ ReadAtReceiver)
  /\ WF_bvars(Runs("browser") /\ Retarget)
  /\ \A g \in Offers : /\ WF_bvars(Runs("browser") /\ SendOffer(g))
                       /\ WF_bvars(Runs("browser") /\ SendAnswer(g))
  /\ \A l \in Loops : /\ WF_dvars(Runs("drop") /\ LoopStep(l))
                      /\ WF_dvars(Runs("drop") /\ ServerStep(l))
                      /\ WF_dvars(Runs("drop") /\ AckTimeout(l))

MCSpec == MCInit /\ [][MCNext]_<<side, bvars, dvars, sendVars>> /\ MCFairness

\* DropsEnd, in the behaviors it is about (LoopStep).
QueueEnds == Runs("drop") => DropsEnd
=============================================================================
