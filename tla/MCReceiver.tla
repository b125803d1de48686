------------------------------- MODULE MCReceiver -------------------------------
(* Who may send: the dropbox receiver in front of two channels whose peers send *)
(* anything, with two ids and one chunk value; the sessions of its web page;    *)
(* and the bots of line_lance's page.  They share no variable; in a behavior    *)
(* one of them runs, the others stay at one of their initial states.            *)
EXTENDS TransferReceiver, IngressSession, BotRegistry, TLC

CONSTANTS c1, c2, i1, i2, plain, secret, byte
VARIABLE side

MCNames == {plain, secret}
MCSizes == {-1, 0, 1, 2}
Symmetry == Permutations({c1, c2}) \cup Permutations({i1, i2})

MCInit ==
  /\ side \in {"receiver", "ingress", "registry"}
  /\ Init
  /\ IngressInit /\ (side # "ingress" => admin /\ saved = "none")
  /\ RegistryInit

\* A third attempt only while the role stays; three requests or stops of the gateway.
MCNext ==
  /\ UNCHANGED side
  /\ \/ /\ side = "receiver" /\ Next /\ UNCHANGED <<ivars, registryVars>>
     \/ /\ side = "ingress" /\ IngressNext /\ (attempt' = 3 => changes' = 0)
        /\ UNCHANGED <<rvars, registryVars>>
     \/ /\ side = "registry" /\ RegistryNext /\ requests' + stops' <= 3
        /\ UNCHANGED <<rvars, ivars>>

MCSpec == MCInit /\ [][MCNext]_<<side, rvars, ivars, registryVars>>
=============================================================================
