-------------------------------- MODULE MCLive --------------------------------
(* What keeps messages coming in: the gateway listener of discord_pb, the       *)
(* import and embedding of line_lance, and the forwarder of MQTT readings.      *)
(* They share no variable; in a behavior one of them runs and the others stay   *)
(* at their initial states.                                                     *)
(*                                                                              *)
(* Beside them, the choice of an allowlist: a behavior has any configuration of *)
(* the filter and stays at its start.  With the option set the map is not       *)
(* looked at; its second entry has two levels.                                  *)
EXTENDS GatewayListener, LineArchive, MqttForwarder, TopicFilter

CONSTANTS name  \* the level that stands for itself in the running behaviors
VARIABLE side

At(s) == side = s

Small ==
  /\ option # NoDb => topicMap = <<>>
  /\ Len(topicMap) = 2 => Len(topicMap[2].pattern) <= 2
OneFilter == option = NoDb /\ topicMap = <<>> /\ topic = <<name>> /\ \A d \in DbNames : fieldMap[d] = NoList

\* The broker's answers have one length, and its last publish is a plain one.
SmallStream ==
  \A i \in DOMAIN stream :
    /\ stream[i].id \in {0, MaxPublish} => stream[i].size = 2
    /\ stream[i].id = MaxPublish => stream[i].kind = "sensor"

MCInit ==
  /\ side \in {"gateway", "line", "mqtt", "filter"}
  /\ GatewayInit /\ LineInit /\ Init
  /\ FilterInit /\ Small /\ (~At("filter") => OneFilter)

MCNext ==
  /\ UNCHANGED <<side, tvars>>
  /\ \/ At("gateway") /\ GatewayNext /\ UNCHANGED <<lvars, fvars>>
     \/ At("line") /\ LineNext /\ UNCHANGED <<gatewayVars, fvars>>
     \/ At("mqtt") /\ Next /\ SmallStream' /\ UNCHANGED <<gatewayVars, lvars>>

\* The fairness of the three, of the one that runs.
MCFairness ==
  /\ WF_gatewayVars(At("gateway") /\ Dial) /\ WF_gatewayVars(At("gateway") /\ Read)
  /\ WF_gatewayVars(At("gateway") /\ Joined) /\ WF_gatewayVars(At("gateway") /\ Park)
  /\ WF_gatewayVars(At("gateway") /\ Work) /\ WF_gatewayVars(At("gateway") /\ Heart)
  /\ WF_lvars(At("line") /\ Join)
  /\ \A u \in Urls : WF_lvars(At("line") /\ (TakeBatch(u) \/ Done(u) \/ Flush(u) \/ Retire(u)))
  /\ WF_fvars(At("mqtt") /\ Arrival)

MCSpec == MCInit /\ [][MCNext]_<<side, gatewayVars, lvars, fvars, tvars>> /\ MCFairness
=============================================================================
