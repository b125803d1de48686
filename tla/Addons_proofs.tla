--------------------------- MODULE Addons_proofs ------------------------------
(***************************************************************************)
(* Add-ons 04-line_lance and 02-mz_forwarder, with two components each,    *)
(* and the SDK's stream of 09-discord_pb, which reads a wire that is cut   *)
(* anywhere like the forwarder's.                                          *)
(*                                                                         *)
(* For any pages, endpoints and bounds: the pool of workers of LineArchive *)
(* takes the steps of EmbedPool and no others.  What a run has left is     *)
(* spread over the queue and the workers' hands.  LeftOnce says a batch is *)
(* there once, so that a flush takes it out of both; Quiet that nobody     *)
(* holds one after the pool was joined, so that an empty queue means       *)
(* success.                                                                *)
(*                                                                         *)
(* For any bots, any number of saves, removals and stops of the gateway: a *)
(* bot's credential is its own, and the last that was asked for.  InForm   *)
(* carries what is typed from the bot that is edited to the request, and   *)
(* Keyed says that the key on disk is the one of every envelope: it is     *)
(* never made anew once there may be one.                                  *)
(*                                                                         *)
(* For any option, filters, allowlists and topic: the loops of the topic   *)
(* filter find what MQTT's matching and the order of the entries say.      *)
(* MatchesFrom is what is left of a filter to be matched.                  *)
(*                                                                         *)
(* For any frames and however the bytes are cut: readings are made in the  *)
(* order of sending, each at most once.  Numbered says that what is read   *)
(* lies before what is still in the stream, and that in its own order.     *)
(*                                                                         *)
(* For any messages, line ends and chunks: the SDK's stream loses nothing  *)
(* while a connection lasts.  Decoding what the decoder keeps with the     *)
(* next chunk is decoding all at once (CutAnywhere), and the characters of *)
(* an event are read as that event (EventRead); AllThere says that what    *)
(* was handed over, waits and is still held is what was sent.              *)
(***************************************************************************)
EXTENDS LineArchive, BotRegistry, TopicFilter, MqttForwarder, MessageStream, FiniteSetTheorems,
        WellFoundedInduction, SequenceTheorems, TLAPS

-----------------------------------------------------------------------------
(* The import and the pool of workers. *)

\* A batch waits once or is in one hand.
LeftOnce ==
  /\ \A i, j \in DOMAIN batches : batches[i] = batches[j] => i = j
  /\ \A u \in Urls, i \in DOMAIN batches : batches[i] # held[u]
  /\ \A u, v \in Urls : held[u] = held[v] /\ held[u] # NoPage => u = v

\* The run has read a text for what it has left.
LeftRead == \A p \in Waiting \cup InHand : texts[p] # 0

Quiet == pool # "running" => \A u \in Urls : held[u] = NoPage /\ embedder[u] \in {"off", "retired", "done"}

PoolInv == LineTypeOK /\ LeftOnce /\ LeftRead /\ Quiet

-----------------------------------------------------------------------------
LEMMA PoolBegins == LineInit => PoolInv
<1> SUFFICES ASSUME LineInit PROVE PoolInv
  OBVIOUS
<1>1. LineTypeOK
  <2>1. 0 \in Versions /\ 1 \in Versions /\ 0 \in 0..MaxFails /\ 0 \in 0..MaxRuns
    BY LineAssumption DEF Versions
  <2>2. batches \in Seq(Pages) /\ imp = NoImport
    BY DEF LineInit
  <2> QED
    BY <2>1, <2>2 DEF LineInit, LineTypeOK, NoImport, Import
<1> QED
  BY <1>1 DEF LineInit, PoolInv, LeftOnce, LeftRead, Quiet, Waiting, InHand

\* The queue a run starts with: the messages to do, each once.
LEMMA OrdersQueue ==
  ASSUME NEW S \in SUBSET Pages, S # {}, NEW s \in Orders(S)
  PROVE  /\ s \in Seq(Pages) /\ s # <<>>
         /\ \A i \in DOMAIN s : s[i] \in S
         /\ \A i, j \in DOMAIN s : s[i] = s[j] => i = j
         /\ \E i \in DOMAIN s : TRUE
<1>1. IsFiniteSet(S)
  BY LineAssumption, FS_Subset
<1>2. Cardinality(S) \in Nat /\ Cardinality(S) # 0
  BY <1>1, FS_CardinalityType, FS_EmptySet
<1>3. s \in [1..Cardinality(S) -> S] /\ \A i, j \in DOMAIN s : s[i] = s[j] => i = j
  BY DEF Orders
<1>4. s \in Seq(Pages) /\ Len(s) = Cardinality(S)
  BY <1>2, <1>3
<1>5. 1 \in DOMAIN s
  BY <1>2, <1>3
<1> QED
  BY <1>2, <1>3, <1>4, <1>5

LEMMA TypesKept == LineTypeOK /\ Quiet /\ [LineNext]_lvars => LineTypeOK'
<1> SUFFICES ASSUME LineTypeOK, Quiet, [LineNext]_lvars PROVE LineTypeOK'
  OBVIOUS
<1> USE LineAssumption DEF LineTypeOK, Versions
<1>1. ASSUME NEW p \in Pages, WritePage(p) PROVE LineTypeOK'
  BY <1>1 DEF WritePage, ivars, pvars
<1>2. ASSUME NEW p \in Pages, ReadPage(p) PROVE LineTypeOK'
  <2>1. imp' \in Import
    BY <1>2 DEF ReadPage, Import
  <2> QED
    BY <1>2, <2>1 DEF ReadPage, pvars
<1>3. CASE StartImport
  <2> DEFINE due == {p \in Pages : file[p] # 0 /\ manifest[p] # file[p]}
  <2>1. imp' = [step |-> "pages", todo |-> due, page |-> NoPage, content |-> 0, rows |-> [p \in Pages |-> 0]]
    BY <1>3 DEF StartImport, NoImport
  <2>2. due \in SUBSET Pages
    OBVIOUS
  <2> HIDE DEF due
  <2>3. runs' \in 0..MaxRuns
    BY <1>3 DEF StartImport
  <2>4. imp' \in Import
    BY <2>1, <2>2 DEF Import
  <2> QED
    BY <1>3, <2>3, <2>4 DEF StartImport, pvars
<1>4. CASE UpsertPage
  <2>1. messages' \in [Pages -> Versions]
    BY <1>4 DEF UpsertPage, Import
  <2>2. imp.rows \in [Pages -> Versions] /\ imp.todo \in SUBSET Pages
    BY DEF Import
  <2>3. [imp.rows EXCEPT ![imp.page] = file[imp.page]] \in [Pages -> Versions]
    BY <2>2
  <2>4. imp' = [step |-> "pages", todo |-> imp.todo, page |-> NoPage, content |-> 0,
                rows |-> [imp.rows EXCEPT ![imp.page] = file[imp.page]]]
    BY <1>4 DEF UpsertPage, Import
  <2>5. imp' \in Import
    BY <2>2, <2>3, <2>4 DEF Import
  <2> QED
    BY <1>4, <2>1, <2>5 DEF UpsertPage, pvars
<1> NoImport \in Import
  BY DEF NoImport, Import
<1>5. CASE ImportFails
  <2>1. fails' \in 0..MaxFails
    BY <1>5 DEF ImportFails
  <2> QED
    BY <1>5, <2>1 DEF ImportFails, pvars
<1>6. CASE FinishImport
  <2>1. manifest' \in [Pages -> Versions]
    BY <1>6 DEF FinishImport, Import
  <2> QED
    BY <1>6, <2>1 DEF FinishImport, pvars
<1>7. CASE StartEmbed
  <2> DEFINE due == {p \in Pages : messages[p] # 0 /\ vectors[p] = 0}
  <2>1. batches' \in Seq(Pages)
    BY <1>7, OrdersQueue DEF StartEmbed
  <2>2. runs' \in 0..MaxRuns /\ texts' \in [Pages -> Versions] /\ pool' = "running"
    BY <1>7 DEF StartEmbed
  <2>3. /\ embedder' \in [Urls -> {"off", "taking", "calling", "retired", "done"}]
        /\ held' = held /\ \A u \in Urls : embedder'[u] = "taking" /\ held'[u] = NoPage
    BY <1>7 DEF StartEmbed, Quiet
  <2> QED
    BY <1>7, <2>1, <2>2, <2>3 DEF StartEmbed, ivars
<1>8. CASE Join
  BY <1>8 DEF Join, ivars
<1>9. ASSUME NEW u \in Urls, TakeBatch(u) PROVE LineTypeOK'
  <2>1. Head(batches) \in Pages /\ batches' \in Seq(Pages)
    BY <1>9 DEF TakeBatch
  <2> QED
    BY <1>9, <2>1 DEF TakeBatch, ivars
<1>10. ASSUME NEW u \in Urls, Done(u) PROVE LineTypeOK'
  BY <1>10 DEF Done, ivars
<1>11. ASSUME NEW u \in Urls, Flush(u) PROVE LineTypeOK'
  BY <1>11 DEF Flush, ivars
<1>12. ASSUME NEW u \in Urls, Retire(u) PROVE LineTypeOK'
  <2>1. held[u] \in Pages
    BY <1>12 DEF Retire
  <2>2. batches' \in Seq(Pages) /\ fails' \in 0..MaxFails
    BY <1>12, <2>1 DEF Retire
  <2> QED
    BY <1>12, <2>2 DEF Retire, ivars
<1>13. CASE UNCHANGED lvars
  BY <1>13 DEF lvars, ivars, pvars
<1> QED
  BY <1>1, <1>2, <1>3, <1>4, <1>5, <1>6, <1>7, <1>8, <1>9, <1>10, <1>11, <1>12, <1>13 DEF LineNext

\* The queue, of all batches or of those but the first.
LEMMA QueueParts ==
  LineTypeOK => /\ batches # <<>> =>
                     /\ Head(batches) = batches[1] /\ 1 \in DOMAIN batches
                     /\ DOMAIN Tail(batches) = {i \in Nat : i + 1 \in DOMAIN batches /\ i # 0}
                     /\ \A i \in DOMAIN Tail(batches) : Tail(batches)[i] = batches[i + 1]
                /\ \A i \in DOMAIN batches : i \in Nat \ {0} /\ batches[i] \in Pages
                /\ \A p \in Pages : LET more == Append(batches, p)
                                   IN  /\ DOMAIN more = DOMAIN batches \cup {Len(batches) + 1}
                                       /\ Len(batches) + 1 \notin DOMAIN batches
                                       /\ more[Len(batches) + 1] = p
                                       /\ \A i \in DOMAIN batches : more[i] = batches[i]
<1> SUFFICES ASSUME LineTypeOK
             PROVE  /\ batches # <<>> =>
                         /\ Head(batches) = batches[1] /\ 1 \in DOMAIN batches
                         /\ DOMAIN Tail(batches) = {i \in Nat : i + 1 \in DOMAIN batches /\ i # 0}
                         /\ \A i \in DOMAIN Tail(batches) : Tail(batches)[i] = batches[i + 1]
                    /\ \A i \in DOMAIN batches : i \in Nat \ {0} /\ batches[i] \in Pages
                    /\ \A p \in Pages : LET more == Append(batches, p)
                                       IN  /\ DOMAIN more = DOMAIN batches \cup {Len(batches) + 1}
                                           /\ Len(batches) + 1 \notin DOMAIN batches
                                           /\ more[Len(batches) + 1] = p
                                           /\ \A i \in DOMAIN batches : more[i] = batches[i]
  OBVIOUS
<1>1. batches \in Seq(Pages)
  BY DEF LineTypeOK
<1> QED
  BY <1>1

LEMMA LeftOnceKept == PoolInv /\ [LineNext]_lvars => LeftOnce'
<1> SUFFICES ASSUME PoolInv, [LineNext]_lvars PROVE LeftOnce'
  OBVIOUS
<1>t. LineTypeOK /\ LeftOnce /\ Quiet
  BY DEF PoolInv
<1>1. ASSUME UNCHANGED <<batches, held>> PROVE LeftOnce'
  BY <1>t, <1>1 DEF LeftOnce
<1>2. CASE StartEmbed
  <2>1. \A i, j \in DOMAIN batches' : batches'[i] = batches'[j] => i = j
    BY <1>2, OrdersQueue DEF StartEmbed
  <2>2. \A u \in Urls : held'[u] = NoPage
    BY <1>t, <1>2 DEF StartEmbed, Quiet
  <2>3. \A i \in DOMAIN batches' : batches'[i] \in Pages
    BY <1>2, OrdersQueue DEF StartEmbed
  <2> QED
    BY <2>1, <2>2, <2>3, LineAssumption DEF LeftOnce, LineAssumption
<1>3. ASSUME NEW u \in Urls, TakeBatch(u) PROVE LeftOnce'
  <2>1. batches # <<>> /\ batches' = Tail(batches) /\ held' = [held EXCEPT ![u] = batches[1]]
    BY <1>t, <1>3, QueueParts DEF TakeBatch
  <2>2. \A i \in DOMAIN batches' : i + 1 \in DOMAIN batches /\ i \in Nat \ {0} /\ batches'[i] = batches[i + 1]
    BY <1>t, <2>1, QueueParts
  <2>3. held \in [Urls -> Pages \cup {NoPage}] /\ 1 \in DOMAIN batches
    BY <1>t, <2>1, QueueParts DEF LineTypeOK
  <2>4. \A i, j \in DOMAIN batches' : batches'[i] = batches'[j] => i = j
    BY <1>t, <2>2 DEF LeftOnce
  <2>5. \A v \in Urls, i \in DOMAIN batches' : batches'[i] # held'[v]
    BY <1>t, <2>1, <2>2, <2>3 DEF LeftOnce
  <2>6. \A v, w \in Urls : held'[v] = held'[w] /\ held'[v] # NoPage => v = w
    BY <1>t, <2>1, <2>3 DEF LeftOnce
  <2> QED
    BY <2>4, <2>5, <2>6 DEF LeftOnce
<1>4. ASSUME NEW u \in Urls, Flush(u) PROVE LeftOnce'
  <2>1. batches' = batches /\ held' = [held EXCEPT ![u] = NoPage] /\ held \in [Urls -> Pages \cup {NoPage}]
    BY <1>t, <1>4 DEF Flush, LineTypeOK
  <2>2. \A i \in DOMAIN batches : batches[i] # NoPage
    BY <1>t, QueueParts, LineAssumption DEF LineAssumption
  <2> QED
    BY <1>t, <2>1, <2>2 DEF LeftOnce
<1>5. ASSUME NEW u \in Urls, Retire(u) PROVE LeftOnce'
  <2>1. /\ held \in [Urls -> Pages \cup {NoPage}] /\ held[u] \in Pages
        /\ batches' = Append(batches, held[u]) /\ held' = [held EXCEPT ![u] = NoPage]
    BY <1>t, <1>5 DEF Retire, LineTypeOK
  <2>2. /\ DOMAIN batches' = DOMAIN batches \cup {Len(batches) + 1} /\ Len(batches) + 1 \notin DOMAIN batches
        /\ batches'[Len(batches) + 1] = held[u] /\ \A i \in DOMAIN batches : batches'[i] = batches[i]
    BY <1>t, <2>1, QueueParts
  <2>3. NoPage \notin Pages /\ \A i \in DOMAIN batches : batches[i] \in Pages
    BY <1>t, QueueParts, LineAssumption DEF LineAssumption
  <2>4. \A i, j \in DOMAIN batches' : batches'[i] = batches'[j] => i = j
    BY <1>t, <2>2 DEF LeftOnce
  <2>5. \A v \in Urls, i \in DOMAIN batches' : batches'[i] # held'[v]
    BY <1>t, <2>1, <2>2, <2>3 DEF LeftOnce
  <2>6. \A v, w \in Urls : held'[v] = held'[w] /\ held'[v] # NoPage => v = w
    BY <1>t, <2>1 DEF LeftOnce
  <2> QED
    BY <2>4, <2>5, <2>6 DEF LeftOnce
<1> QED
  BY <1>1, <1>2, <1>3, <1>4, <1>5
  DEF LineNext, lvars, ivars, pvars, WritePage, ReadPage, StartImport, UpsertPage, ImportFails, FinishImport, Join, Done

LEMMA QuietKept == PoolInv /\ [LineNext]_lvars => Quiet'
<1> SUFFICES ASSUME PoolInv, [LineNext]_lvars PROVE Quiet'
  OBVIOUS
<1>t. LineTypeOK /\ Quiet
  BY DEF PoolInv
<1>1. ASSUME UNCHANGED <<held, embedder, pool>> PROVE Quiet'
  BY <1>t, <1>1 DEF Quiet
<1>2. CASE StartEmbed
  BY <1>2 DEF StartEmbed, Quiet
<1>3. CASE Join
  BY <1>t, <1>3 DEF Join, Quiet, LineTypeOK
<1>4. ASSUME NEW u \in Urls, TakeBatch(u) \/ Done(u) \/ Flush(u) \/ Retire(u) PROVE Quiet'
  <2>1. embedder[u] \in {"taking", "calling"} /\ pool' = pool
    BY <1>4 DEF TakeBatch, Done, Flush, Retire
  <2> QED
    BY <1>t, <2>1 DEF Quiet
<1> QED
  BY <1>1, <1>2, <1>3, <1>4
  DEF LineNext, lvars, ivars, pvars, WritePage, ReadPage, StartImport, UpsertPage, ImportFails, FinishImport

-----------------------------------------------------------------------------
\* What is left, from one state to the next.
Left == Waiting \cup InHand

LEMMA LeftByTake ==
  ASSUME PoolInv, NEW u \in Urls, TakeBatch(u)
  PROVE  Left' = Left
<1>1. batches # <<>> /\ batches' = Tail(batches) /\ held' = [held EXCEPT ![u] = batches[1]]
  BY QueueParts DEF PoolInv, TakeBatch
<1>2. held \in [Urls -> Pages \cup {NoPage}] /\ held[u] = NoPage /\ batches[1] # NoPage
  BY QueueParts, <1>1, LineAssumption DEF PoolInv, LineTypeOK, TakeBatch, LineAssumption
<1>3. InHand' = InHand \cup {batches[1]}
  BY <1>1, <1>2 DEF InHand
<1>4. Waiting = Waiting' \cup {batches[1]}
  <2>1. /\ 1 \in DOMAIN batches /\ \A i \in DOMAIN batches : i \in Nat \ {0}
        /\ DOMAIN batches' = {i \in Nat : i + 1 \in DOMAIN batches /\ i # 0}
        /\ \A i \in DOMAIN batches' : batches'[i] = batches[i + 1]
    BY QueueParts, <1>1 DEF PoolInv
  <2>2. \A i \in DOMAIN batches : i # 1 => (i - 1) \in DOMAIN batches' /\ batches'[i - 1] = batches[i]
    BY <2>1
  <2> QED
    BY <2>1, <2>2 DEF Waiting
<1> QED
  BY <1>3, <1>4 DEF Left

LEMMA LeftByRetire ==
  ASSUME PoolInv, NEW u \in Urls, Retire(u)
  PROVE  Left' = Left
<1>1. /\ held \in [Urls -> Pages \cup {NoPage}] /\ held[u] \in Pages /\ held[u] # NoPage
      /\ batches' = Append(batches, held[u]) /\ held' = [held EXCEPT ![u] = NoPage]
  BY LineAssumption DEF PoolInv, Retire, LineTypeOK
<1>2. Waiting' = Waiting \cup {held[u]}
  BY <1>1, QueueParts DEF PoolInv, Waiting
<1>3. InHand = InHand' \cup {held[u]}
  BY <1>1 DEF InHand
<1> QED
  BY <1>2, <1>3 DEF Left

LEMMA LeftByFlush ==
  ASSUME PoolInv, NEW u \in Urls, Flush(u)
  PROVE  /\ pool = "running" /\ pool' = pool
         /\ held[u] \in Left /\ held[u] \in Pages
         /\ Left' = Left \ {held[u]}
         /\ Embedded' = Embedded \cup {held[u]}
<1>1. /\ held \in [Urls -> Pages \cup {NoPage}] /\ held[u] \in Pages /\ held[u] # NoPage
      /\ batches' = batches /\ held' = [held EXCEPT ![u] = NoPage] /\ pool' = pool
  BY LineAssumption DEF PoolInv, Flush, LineTypeOK
<1>2. pool = "running"
  BY <1>1 DEF PoolInv, Quiet
<1>3. held[u] \in Left
  BY <1>1 DEF Left, InHand
<1>4. Waiting' = Waiting /\ held[u] \notin Waiting
  BY <1>1 DEF Waiting, PoolInv, LeftOnce
<1>5. InHand' = InHand \ {held[u]}
  BY <1>1 DEF InHand, PoolInv, LeftOnce
<1>6. texts[held[u]] # 0
  BY <1>3 DEF PoolInv, LeftRead, Left
<1>7. vectors \in [Pages -> Versions] /\ vectors' = [vectors EXCEPT ![held[u]] = texts[held[u]]]
  BY DEF PoolInv, LineTypeOK, Flush
<1>8. Embedded' = Embedded \cup {held[u]}
  BY <1>1, <1>6, <1>7 DEF Embedded
<1> QED
  BY <1>1, <1>2, <1>3, <1>4, <1>5, <1>8 DEF Left

LEMMA LeftByStart ==
  ASSUME PoolInv, StartEmbed
  PROVE  /\ pool # "running" /\ pool' = "running" /\ Embedded' = Embedded
         /\ Left' \in SUBSET (Pages \ Embedded) /\ Left' # {}
         /\ \A p \in Left' : texts'[p] # 0
<1> DEFINE due == {p \in Pages : messages[p] # 0 /\ vectors[p] = 0}
<1>1. /\ pool # "running" /\ pool' = "running" /\ vectors' = vectors /\ held' = held /\ texts' = messages
      /\ due # {} /\ batches' \in Orders(due)
  BY DEF StartEmbed
<1>2. InHand' = {}
  BY <1>1 DEF InHand, PoolInv, Quiet
<1>3. (\A i \in DOMAIN batches' : batches'[i] \in due) /\ \E i \in DOMAIN batches' : TRUE
  BY <1>1, OrdersQueue
<1>4. Waiting' \subseteq due /\ Waiting' # {}
  BY <1>3 DEF Waiting
<1> QED
  BY <1>1, <1>2, <1>4 DEF Left, Embedded

LEMMA LeftReadKept == PoolInv /\ [LineNext]_lvars => LeftRead'
<1> SUFFICES ASSUME PoolInv, [LineNext]_lvars PROVE LeftRead'
  OBVIOUS
<1>1. ASSUME UNCHANGED <<batches, held, texts>> PROVE LeftRead'
  BY <1>1 DEF PoolInv, LeftRead, Waiting, InHand
<1>2. CASE StartEmbed
  BY <1>2, LeftByStart DEF LeftRead, Left
<1>3. ASSUME NEW u \in Urls, TakeBatch(u) PROVE LeftRead'
  BY <1>3, LeftByTake DEF TakeBatch, PoolInv, LeftRead, Left
<1>4. ASSUME NEW u \in Urls, Flush(u) PROVE LeftRead'
  BY <1>4, LeftByFlush DEF Flush, PoolInv, LeftRead, Left
<1>5. ASSUME NEW u \in Urls, Retire(u) PROVE LeftRead'
  BY <1>5, LeftByRetire DEF Retire, PoolInv, LeftRead, Left
<1> QED
  BY <1>1, <1>2, <1>3, <1>4, <1>5
  DEF LineNext, lvars, ivars, pvars, WritePage, ReadPage, StartImport, UpsertPage, ImportFails, FinishImport, Join, Done

LEMMA PoolInvKept == PoolInv /\ [LineNext]_lvars => PoolInv'
  BY TypesKept, LeftOnceKept, LeftReadKept, QuietKept DEF PoolInv

\* The inductive invariant of the import and the pool (store.py).
THEOREM PoolInvariant == LineSpec => []PoolInv
  BY PoolBegins, PoolInvKept, PTL DEF LineSpec

\* The variables of the import and of the pool keep their types (store.py).
THEOREM LineTypes == LineSpec => []LineTypeOK
<1>1. PoolInv => LineTypeOK
  BY DEF PoolInv
<1> QED
  BY <1>1, PoolInvariant, PTL

-----------------------------------------------------------------------------
LEMMA InitMaps == LineInit => Pool!PoolInit
<1> SUFFICES ASSUME LineInit PROVE Pool!PoolInit
  OBVIOUS
<1>1. Waiting = {} /\ InHand = {} /\ Embedded = {}
  BY DEF LineInit, Waiting, InHand, Embedded
<1> QED
  BY <1>1 DEF LineInit, Pool!PoolInit

LEMMA StepMaps == PoolInv /\ [LineNext]_lvars => [Pool!PoolNext]_(Pool!poolVars)
<1> SUFFICES ASSUME PoolInv, [LineNext]_lvars PROVE [Pool!PoolNext]_(Pool!poolVars)
  OBVIOUS
<1>1. ASSUME UNCHANGED <<batches, held, vectors, pool>> PROVE UNCHANGED Pool!poolVars
  BY <1>1 DEF Pool!poolVars, Waiting, InHand, Embedded
<1>2. CASE StartEmbed
  BY <1>2, LeftByStart DEF Left, Pool!PoolNext, Pool!Begin
<1>3. CASE Join
  <2>1. /\ pool = "running" /\ pool' = (IF batches = <<>> THEN "finished" ELSE "stopped")
        /\ \A u \in Urls : held[u] = NoPage /\ UNCHANGED <<batches, held, vectors>>
    BY <1>3 DEF Join, PoolInv, LineTypeOK
  <2>2. InHand = {}
    BY <2>1 DEF InHand
  <2>3. UNCHANGED <<Waiting, InHand, Embedded>>
    BY <1>3 DEF Join, Waiting, InHand, Embedded
  <2>4. Waiting = {} <=> batches = <<>>
    BY QueueParts DEF PoolInv, Waiting
  <2> QED
    BY <2>1, <2>2, <2>3, <2>4 DEF Pool!PoolNext, Pool!Progress, Pool!Finish, Pool!Stop
<1>4. ASSUME NEW u \in Urls, TakeBatch(u) PROVE UNCHANGED Pool!poolVars
  BY <1>4, LeftByTake DEF TakeBatch, Left, Pool!poolVars, Embedded
<1>5. ASSUME NEW u \in Urls, Flush(u) PROVE Pool!PoolNext
  BY <1>5, LeftByFlush DEF Left, Pool!PoolNext, Pool!Progress, Pool!Embed
<1>6. ASSUME NEW u \in Urls, Retire(u) PROVE UNCHANGED Pool!poolVars
  BY <1>6, LeftByRetire DEF Retire, Left, Pool!poolVars, Embedded
<1> QED
  BY <1>1, <1>2, <1>3, <1>4, <1>5, <1>6
  DEF LineNext, lvars, ivars, pvars, WritePage, ReadPage, StartImport, UpsertPage, ImportFails, FinishImport, Done

\* Whatever the endpoints do, an embedding run is one of EmbedPool: it takes
\* messages without a vector, embeds each once, and reports success only when
\* none is left (embed_messages, store.py).
THEOREM EmbedsAsPool == LineSpec => Pool!PoolSafety
  BY InitMaps, StepMaps, PoolInvariant, PTL DEF LineSpec, Pool!PoolSafety

-----------------------------------------------------------------------------
(* The registry of bots. *)

\* What the form holds was typed for the bot it is about.
InForm ==
  /\ form.credential \in {Blank, IF editing = Blank THEN New ELSE editing}
  /\ editing # Blank => form.id = editing

\* A request names a bot.
Addressed == saving.stage = "sent" => saving.id \in Bots

\* The gateway seals with the key on disk, which is whole when something is
\* sealed.
Keyed ==
  /\ gateway = "up" => key = keyFile /\ keyFile > 0
  /\ gateway = "keyed" => keyFile = -1
  /\ \A b \in DOMAIN bots : bots[b] # Blank => keyFile > 0

RegistryInv == RegistryTypeOK /\ InForm /\ Addressed /\ Keyed /\ OwnCredential /\ CredentialsKept

-----------------------------------------------------------------------------
LEMMA RegistryValues ==
  /\ Blank \notin Bots /\ New \notin Bots /\ New # Blank
  /\ \A e \in Envelopes : e # Blank
  /\ Blank \in BotIds /\ Blank \in Credentials /\ Bots \subseteq BotIds /\ BotIds \subseteq Credentials
BY RegistryAssumption DEF RegistryAssumption, Envelopes, BotIds, Credentials

LEMMA SealTypes ==
  ASSUME RegistryTypeOK, NEW c \in Bots
  PROVE  Seal(c) \in Envelopes /\ Seal(c).credential = c /\ Seal(c) # Blank
<1>1. Seal(c) \in Envelopes /\ Seal(c).credential = c
  BY DEF Seal, RegistryTypeOK, Envelopes
<1> QED
  BY <1>1, RegistryValues

LEMMA EmptyRows == SomeRows([b \in {} |-> FALSE])
BY DEF SomeRows

LEMMA EmptyTypes ==
  /\ EmptyForm \in [id : BotIds, credential : Credentials, clear : BOOLEAN] /\ EmptyForm.credential = Blank
  /\ \A save \in {NoSave, [NoSave EXCEPT !.stage = "listing"]} :
       /\ save \in [stage : Stages \cup {"listing"}, id : BotIds, credential : Credentials,
                     clear : BOOLEAN, update : BOOLEAN]
       /\ save.credential = Blank /\ save.stage # "sent"
<1> DEFINE Saves == [stage : Stages \cup {"listing"}, id : BotIds, credential : Credentials,
                     clear : BOOLEAN, update : BOOLEAN]
<1>1. EmptyForm \in [id : BotIds, credential : Credentials, clear : BOOLEAN] /\ EmptyForm.credential = Blank
  BY RegistryValues DEF EmptyForm
<1>2. NoSave \in Saves /\ NoSave.credential = Blank /\ NoSave.stage = "none"
  BY RegistryValues DEF NoSave, Stages
<1>3. /\ [NoSave EXCEPT !.stage = "listing"] \in Saves
      /\ [NoSave EXCEPT !.stage = "listing"].credential = Blank
      /\ [NoSave EXCEPT !.stage = "listing"].stage = "listing"
  BY <1>2
<1> QED
  BY <1>1, <1>2, <1>3

\* The form stays as it is or is emptied.
LEMMA FormEmptied ==
  ASSUME RegistryInv, UNCHANGED <<form, editing>> \/ (form' = EmptyForm /\ editing' = Blank)
  PROVE  /\ form' \in [id : BotIds, credential : Credentials, clear : BOOLEAN] /\ editing' \in BotIds
         /\ InForm'
<1>1. CASE UNCHANGED <<form, editing>>
  BY <1>1 DEF RegistryInv, RegistryTypeOK, InForm
<1>2. CASE form' = EmptyForm /\ editing' = Blank
  BY <1>2, EmptyTypes, RegistryValues DEF InForm
<1> QED
  BY <1>1, <1>2

LEMMA RegistryBegins == RegistryInit => RegistryInv
<1> SUFFICES ASSUME RegistryInit PROVE RegistryInv
  OBVIOUS
<1>1. RegistryTypeOK
  <2>1. DOMAIN bots \subseteq Bots /\ bots \in [DOMAIN bots -> Envelopes \cup {Blank}]
    BY DEF RegistryInit
  <2>2. told \in [Bots -> Credentials] /\ SomeRows(rows)
    BY RegistryValues, EmptyRows DEF RegistryInit
  <2>3. form \in [id : BotIds, credential : Credentials, clear : BOOLEAN] /\ editing \in BotIds
    BY RegistryValues DEF RegistryInit, EmptyForm
  <2>4. saving \in [stage : Stages \cup {"listing"}, id : BotIds, credential : Credentials,
                    clear : BOOLEAN, update : BOOLEAN]
    BY RegistryValues DEF RegistryInit, NoSave, Stages
  <2>5. removing \in [Bots -> [stage : Stages, editing : BotIds]]
    BY RegistryValues DEF RegistryInit, NoRemoval, Stages
  <2>6. DOMAIN loading = Callers /\ \A c \in Callers : loading[c].stage \in Stages /\ SomeRows(loading[c].rows)
    BY EmptyRows DEF RegistryInit, NoRows, Stages
  <2>7. requests \in 0..MaxRequests /\ stops \in 0..MaxStops /\ keyFile \in Int /\ key \in Int
    BY RegistryAssumption DEF RegistryInit, RegistryAssumption
  <2> QED
    BY <2>1, <2>2, <2>3, <2>4, <2>5, <2>6, <2>7 DEF RegistryInit, RegistryTypeOK
<1>2. InForm /\ Addressed /\ Keyed
  BY DEF RegistryInit, InForm, Addressed, Keyed, EmptyForm, NoSave
<1>3. OwnCredential /\ CredentialsKept
  BY DEF RegistryInit, OwnCredential, CredentialsKept, NoSave, Held, HasRow
<1> QED
  BY <1>1, <1>2, <1>3 DEF RegistryInv

-----------------------------------------------------------------------------
\* Start and stop of the gateway.

LEMMA OnlyGateway ==
  ASSUME RegistryInv, UNCHANGED <<bots, told, registryPage>>,
         keyFile' \in Int, key' \in Int, gateway' \in {"down", "keyed", "up"}, stops' \in 0..MaxStops,
         keyFile > 0 => keyFile' = keyFile,
         gateway' = "up" => key' = keyFile' /\ keyFile' > 0,
         gateway' = "keyed" => keyFile' = -1
  PROVE  RegistryInv'
<1>1. RegistryTypeOK'
  BY DEF RegistryInv, RegistryTypeOK, registryPage, SomeRows
<1>2. InForm' /\ Addressed' /\ OwnCredential'
  BY DEF RegistryInv, InForm, Addressed, OwnCredential, registryPage
<1>3. Keyed'
  BY DEF RegistryInv, Keyed
<1>4. CredentialsKept'
  <2> SUFFICES ASSUME NEW b \in Bots, told[b] # Blank \/ Held(b) # Blank
               PROVE  Held(b) # Blank /\ Held(b) = [key |-> keyFile', credential |-> told[b]]
    BY DEF CredentialsKept, Held, HasRow
  <2>1. Held(b) # Blank /\ Held(b) = [key |-> keyFile, credential |-> told[b]]
    BY DEF RegistryInv, CredentialsKept
  <2>2. keyFile > 0
    BY <2>1 DEF Held, HasRow, RegistryInv, Keyed
  <2> QED
    BY <2>1, <2>2
<1> QED
  BY <1>1, <1>2, <1>3, <1>4 DEF RegistryInv

LEMMA GatewayKeeps ==
  ASSUME RegistryInv, OpenKey \/ WriteKey \/ ReadKey \/ Stop
  PROVE  RegistryInv'
<1>1. CASE OpenKey
  BY <1>1, OnlyGateway DEF OpenKey, RegistryInv, RegistryTypeOK
<1>2. CASE WriteKey
  BY <1>2, OnlyGateway DEF WriteKey, RegistryInv, RegistryTypeOK, Keyed
<1>3. CASE ReadKey
  BY <1>3, OnlyGateway DEF ReadKey, RegistryInv, RegistryTypeOK
<1>4. CASE Stop
  <2>1. stops' \in 0..MaxStops
    BY <1>4, RegistryAssumption DEF Stop, RegistryInv, RegistryTypeOK, RegistryAssumption
  <2> QED
    BY <1>4, <2>1, OnlyGateway DEF Stop, RegistryInv, RegistryTypeOK
<1> QED
  BY <1>1, <1>2, <1>3, <1>4

-----------------------------------------------------------------------------
\* The routes.

LEMMA SaveServed ==
  ASSUME RegistryInv, ServeSave
  PROVE  RegistryInv'
<1> DEFINE given == saving.clear \/ saving.credential # Blank
           c == IF saving.clear THEN Blank ELSE saving.credential
<1>1. /\ saving.stage = "sent" /\ gateway = "up"
      /\ UNCHANGED <<keyFile, gateway, key, stops, rows, form, editing, removing, loading, listed, requests>>
  BY DEF ServeSave
<1>2. /\ saving.id \in Bots /\ c \in {Blank, saving.id} /\ key = keyFile /\ keyFile > 0
      /\ saving' \in [stage : Stages \cup {"listing"}, id : BotIds, credential : Credentials,
                      clear : BOOLEAN, update : BOOLEAN]
      /\ saving'.stage # "sent" /\ saving'.id = saving.id /\ saving'.credential = saving.credential
  BY <1>1 DEF ServeSave, RegistryInv, Addressed, OwnCredential, Keyed, RegistryTypeOK, Stages
<1>3. InForm' /\ Addressed'
  BY <1>1, <1>2 DEF RegistryInv, InForm, Addressed
<1>4. CASE saving.update /\ ~HasRow(saving.id)
  <2>1. UNCHANGED <<bots, told>>
    BY <1>4 DEF ServeSave
  <2> QED
    BY <1>1, <1>2, <1>3, <2>1
    DEF RegistryInv, RegistryTypeOK, Keyed, OwnCredential, CredentialsKept, Held, HasRow, SomeRows
<1>5. CASE ~(saving.update /\ ~HasRow(saving.id))
  <2>1. /\ bots' = Create(saving.id, given, c)
        /\ told' = [told EXCEPT ![saving.id] = IF given THEN c ELSE @]
    BY <1>5 DEF ServeSave
  <2>2. /\ DOMAIN bots' = DOMAIN bots \cup {saving.id}
        /\ \A b \in DOMAIN bots \ {saving.id} : bots'[b] = bots[b]
        /\ bots'[saving.id] = IF ~given THEN Held(saving.id) ELSE IF c = Blank THEN Blank ELSE Seal(c)
    BY <2>1 DEF Create
  <2>3. /\ Held(saving.id) \in Envelopes \cup {Blank}
        /\ Held(saving.id) # Blank => Held(saving.id).credential = saving.id
    BY DEF Held, HasRow, RegistryInv, RegistryTypeOK, OwnCredential
  <2>4. /\ bots'[saving.id] \in Envelopes \cup {Blank}
        /\ bots'[saving.id] # Blank => bots'[saving.id].credential = saving.id
    BY <1>2, <2>2, <2>3, SealTypes DEF RegistryInv
  <2>5. /\ DOMAIN bots' \subseteq Bots /\ bots' \in [DOMAIN bots' -> Envelopes \cup {Blank}]
        /\ told' \in [Bots -> Credentials]
    <3>1. DOMAIN bots' \subseteq Bots
      BY <1>2, <2>2 DEF RegistryInv, RegistryTypeOK
    <3>2. \A b \in DOMAIN bots' : bots'[b] \in Envelopes \cup {Blank}
      BY <2>2, <2>4 DEF RegistryInv, RegistryTypeOK
    <3>3. bots' = [b \in DOMAIN bots' |-> bots'[b]]
      BY <2>1 DEF Create
    <3>4. bots' \in [DOMAIN bots' -> Envelopes \cup {Blank}]
      BY <3>2, <3>3
    <3>5. told' \in [Bots -> Credentials]
      BY <1>2, <2>1, RegistryValues DEF RegistryInv, RegistryTypeOK
    <3> QED
      BY <3>1, <3>4, <3>5
  <2>6. RegistryTypeOK'
    BY <1>1, <1>2, <2>5 DEF RegistryInv, RegistryTypeOK, SomeRows
  <2>7. Keyed' /\ OwnCredential'
    BY <1>1, <1>2, <2>2, <2>4 DEF RegistryInv, Keyed, OwnCredential
  <2>8. CredentialsKept'
    <3> SUFFICES ASSUME NEW b \in Bots, told'[b] # Blank \/ Held(b)' # Blank
                 PROVE  Held(b)' # Blank /\ Held(b)' = [key |-> keyFile, credential |-> told'[b]]
      BY <1>1 DEF CredentialsKept
    <3>1. told \in [Bots -> Credentials]
      BY DEF RegistryInv, RegistryTypeOK
    <3>2. CASE b # saving.id
      <4>1. told'[b] = told[b] /\ Held(b)' = Held(b)
        BY <2>1, <2>2, <3>1, <3>2 DEF Held, HasRow
      <4> QED
        BY <4>1 DEF RegistryInv, CredentialsKept
    <3>3. CASE b = saving.id /\ ~given
      <4>1. told'[b] = told[b] /\ Held(b)' = Held(b)
        BY <1>2, <2>1, <2>2, <3>1, <3>3 DEF Held, HasRow
      <4> QED
        BY <4>1 DEF RegistryInv, CredentialsKept
    <3>4. CASE b = saving.id /\ given
      <4>1. told'[b] = c /\ Held(b)' = IF c = Blank THEN Blank ELSE Seal(c)
        BY <1>2, <2>1, <2>2, <3>1, <3>4 DEF Held, HasRow
      <4>2. c \in Bots
        BY <1>2, <4>1
      <4> QED
        BY <1>2, <4>1, <4>2, SealTypes, RegistryValues DEF Seal, RegistryInv
    <3> QED
      BY <3>2, <3>3, <3>4
  <2> QED
    BY <1>3, <2>6, <2>7, <2>8 DEF RegistryInv
<1> QED
  BY <1>4, <1>5

LEMMA RemovalServed ==
  ASSUME RegistryInv, NEW b \in Bots, ServeRemoval(b)
  PROVE  RegistryInv'
<1>1. /\ gateway = "up"
      /\ bots' = [i \in DOMAIN bots \ {b} |-> bots[i]] /\ told' = [told EXCEPT ![b] = Blank]
      /\ UNCHANGED <<keyFile, gateway, key, stops, rows, form, editing, saving, loading, listed, requests>>
  BY DEF ServeRemoval
<1>2. removing' \in [Bots -> [stage : Stages, editing : BotIds]]
  BY DEF ServeRemoval, RegistryInv, RegistryTypeOK, Stages
<1>3. /\ DOMAIN bots' = DOMAIN bots \ {b} /\ \A i \in DOMAIN bots' : bots'[i] = bots[i]
      /\ bots' \in [DOMAIN bots' -> Envelopes \cup {Blank}]
  BY <1>1 DEF RegistryInv, RegistryTypeOK
<1>4. told \in [Bots -> Credentials] /\ told' \in [Bots -> Credentials]
  BY <1>1, RegistryValues DEF RegistryInv, RegistryTypeOK
<1>5. RegistryTypeOK'
  BY <1>1, <1>2, <1>3, <1>4 DEF RegistryInv, RegistryTypeOK, SomeRows
<1>6. InForm' /\ Addressed' /\ Keyed' /\ OwnCredential'
  BY <1>1, <1>3 DEF RegistryInv, InForm, Addressed, Keyed, OwnCredential
<1>7. CredentialsKept'
  <2> SUFFICES ASSUME NEW i \in Bots, told'[i] # Blank \/ Held(i)' # Blank
               PROVE  Held(i)' # Blank /\ Held(i)' = [key |-> keyFile, credential |-> told'[i]]
    BY <1>1 DEF CredentialsKept
  <2>1. i # b
    BY <1>1, <1>3, <1>4 DEF Held, HasRow
  <2>2. told'[i] = told[i] /\ Held(i)' = Held(i)
    BY <1>1, <1>3, <1>4, <2>1 DEF Held, HasRow
  <2> QED
    BY <2>2 DEF RegistryInv, CredentialsKept
<1> QED
  BY <1>5, <1>6, <1>7 DEF RegistryInv

-----------------------------------------------------------------------------
\* The page, and what comes back to it: the store stays.
LEMMA OnlyPage ==
  ASSUME RegistryInv, UNCHANGED store, RegistryTypeOK', InForm', Addressed',
         saving'.credential \in {Blank, saving'.id}
  PROVE  RegistryInv'
<1>1. Keyed' /\ OwnCredential'
  BY DEF RegistryInv, Keyed, OwnCredential, store
<1>2. CredentialsKept'
  BY DEF RegistryInv, CredentialsKept, Held, HasRow, store
<1> QED
  BY <1>1, <1>2 DEF RegistryInv

LEMMA LostKeeps == RegistryInv /\ Lost => RegistryInv'
<1> SUFFICES ASSUME RegistryInv, Lost PROVE RegistryInv'
  OBVIOUS
<1>1. UNCHANGED <<store, rows, form, editing, listed, requests>>
  BY DEF Lost
<1>2. CASE saving' = [saving EXCEPT !.stage = "failed"] /\ UNCHANGED <<removing, loading>>
  <2>1. RegistryTypeOK'
    BY <1>1, <1>2 DEF RegistryInv, RegistryTypeOK, SomeRows, Stages, store
  <2>2. saving'.stage = "failed" /\ saving'.id = saving.id /\ saving'.credential = saving.credential
    BY <1>2 DEF RegistryInv, RegistryTypeOK
  <2>3. InForm' /\ Addressed' /\ saving'.credential \in {Blank, saving'.id}
    BY <1>1, <2>2 DEF RegistryInv, InForm, Addressed, OwnCredential
  <2> QED
    BY <1>1, <2>1, <2>3, OnlyPage
<1>3. CASE /\ UNCHANGED saving
           /\ \/ /\ UNCHANGED loading
                 /\ \E b \in Bots : removing' = [removing EXCEPT ![b].stage = "failed"]
              \/ /\ UNCHANGED removing
                 /\ \E c \in Callers : loading' = [loading EXCEPT ![c] = [NoRows EXCEPT !.stage = "failed"]]
  <2>1. removing' \in [Bots -> [stage : Stages, editing : BotIds]]
    BY <1>3 DEF RegistryInv, RegistryTypeOK, Stages
  <2>2. DOMAIN loading' = Callers /\ \A c \in Callers : loading'[c].stage \in Stages /\ SomeRows(loading'[c].rows)
    <3>1. CASE UNCHANGED loading
      BY <3>1 DEF RegistryInv, RegistryTypeOK, SomeRows
    <3>2. ASSUME NEW c \in Callers, loading' = [loading EXCEPT ![c] = [NoRows EXCEPT !.stage = "failed"]]
          PROVE  DOMAIN loading' = Callers /\ \A d \in Callers : loading'[d].stage \in Stages /\ SomeRows(loading'[d].rows)
      <4>1. [NoRows EXCEPT !.stage = "failed"].stage = "failed" /\ SomeRows([NoRows EXCEPT !.stage = "failed"].rows)
        BY EmptyRows DEF NoRows
      <4> QED
        BY <3>2, <4>1 DEF RegistryInv, RegistryTypeOK, SomeRows, Stages
    <3> QED
      BY <1>3, <3>1, <3>2
  <2>3. RegistryTypeOK'
    BY <1>1, <1>3, <2>1, <2>2 DEF RegistryInv, RegistryTypeOK, SomeRows, store
  <2>4. InForm' /\ Addressed' /\ saving'.credential \in {Blank, saving'.id}
    BY <1>1, <1>3 DEF RegistryInv, InForm, Addressed, OwnCredential
  <2> QED
    BY <1>1, <2>3, <2>4, OnlyPage
<1> QED
  BY <1>2, <1>3 DEF Lost

\* Add, Edit and Type: the form.
LEMMA FormKeeps ==
  ASSUME RegistryInv, Add \/ Type \/ \E b \in Bots : Edit(b)
  PROVE  RegistryInv'
<1>1. UNCHANGED <<store, rows, saving, removing, loading, listed, requests>>
  BY DEF Add, Type, Edit
<1>2. /\ form' \in [id : BotIds, credential : Credentials, clear : BOOLEAN] /\ editing' \in BotIds
      /\ InForm'
  <2>1. CASE Add
    BY <2>1, RegistryValues DEF Add, EmptyForm, InForm
  <2>2. ASSUME NEW b \in Bots, Edit(b)
        PROVE  /\ form' \in [id : BotIds, credential : Credentials, clear : BOOLEAN] /\ editing' \in BotIds
               /\ InForm'
    BY <2>2, RegistryValues DEF Edit, Edited, EmptyForm, InForm
  <2>3. CASE Type
    <3>1. editing' = editing /\ editing \in BotIds /\ New \in Credentials
      BY <2>3 DEF Type, RegistryInv, RegistryTypeOK, Credentials
    <3>2. CASE form' = [form EXCEPT !.credential = IF @ # Blank THEN Blank ELSE IF editing = Blank THEN New ELSE editing]
      BY <3>1, <3>2, RegistryValues DEF RegistryInv, RegistryTypeOK, InForm
    <3>3. CASE editing = Blank /\ \E b \in Bots : form' = [form EXCEPT !.id = b]
      BY <3>1, <3>3, RegistryValues DEF RegistryInv, RegistryTypeOK, InForm
    <3>4. CASE form' = [form EXCEPT !.clear = ~@]
      BY <3>1, <3>4 DEF RegistryInv, RegistryTypeOK, InForm
    <3> QED
      BY <2>3, <3>2, <3>3, <3>4 DEF Type
  <2> QED
    BY <2>1, <2>2, <2>3
<1>3. RegistryTypeOK'
  BY <1>1, <1>2 DEF RegistryInv, RegistryTypeOK, SomeRows, store
<1>4. Addressed' /\ saving'.credential \in {Blank, saving'.id}
  BY <1>1 DEF RegistryInv, Addressed, OwnCredential
<1> QED
  BY <1>1, <1>2, <1>3, <1>4, OnlyPage

LEMMA SaveKeeps ==
  ASSUME RegistryInv, Save
  PROVE  RegistryInv'
<1>1. /\ form.id # Blank
      /\ UNCHANGED <<store, rows, form, editing, removing, loading, listed>>
      /\ saving' = [stage |-> "sent", id |-> form.id,
                    credential |-> IF form.credential = New /\ editing = Blank THEN form.id ELSE form.credential,
                    clear |-> editing # Blank /\ form.clear, update |-> editing # Blank]
  BY DEF Save
<1>2. form.id \in Bots /\ form.clear \in BOOLEAN /\ form.credential \in Credentials
  BY <1>1 DEF RegistryInv, RegistryTypeOK, BotIds
<1>3. saving'.stage = "sent" /\ saving'.id = form.id /\ saving'.credential \in {Blank, form.id}
  BY <1>1, RegistryValues DEF RegistryInv, InForm
<1>4. saving' \in [stage : Stages \cup {"listing"}, id : BotIds, credential : Credentials,
                   clear : BOOLEAN, update : BOOLEAN]
  BY <1>1, <1>2, RegistryValues DEF Stages
<1>5. requests' \in 0..MaxRequests
  BY RegistryAssumption DEF Save, RegistryInv, RegistryTypeOK, RegistryAssumption
<1>6. RegistryTypeOK'
  BY <1>1, <1>4, <1>5 DEF RegistryInv, RegistryTypeOK, SomeRows, store
<1>7. InForm' /\ Addressed'
  BY <1>1, <1>2, <1>3 DEF RegistryInv, InForm, Addressed
<1> QED
  BY <1>1, <1>3, <1>6, <1>7, OnlyPage

\* Saved, SaveFails and ListLoaded: the save's end and the lists.
LEMMA SaveEnds ==
  ASSUME RegistryInv, Saved \/ SaveFails \/ Retry \/ \E c \in Callers : ListLoaded(c)
  PROVE  RegistryInv'
<1> DEFINE AllLists == DOMAIN loading = Callers /\ \A c \in Callers : loading[c].stage \in Stages /\ SomeRows(loading[c].rows)
<1>1. UNCHANGED <<store, removing, requests>> /\ listed' \in {"loading", "shown", "error"}
  BY DEF Saved, SaveFails, Retry, ListLoaded, RegistryInv, RegistryTypeOK
<1>2. /\ UNCHANGED <<form, editing>> \/ (form' = EmptyForm /\ editing' = Blank)
      /\ saving' = saving \/ saving' = NoSave \/ saving' = [NoSave EXCEPT !.stage = "listing"]
  BY DEF Saved, SaveFails, Retry, ListLoaded
<1>3. AllLists' /\ SomeRows(rows)'
  <2>1. AllLists /\ SomeRows(rows) /\ "sent" \in Stages /\ "none" \in Stages
    BY DEF RegistryInv, RegistryTypeOK, Stages
  <2>2. /\ NoRows.stage = "none" /\ SomeRows(NoRows.rows)
        /\ [NoRows EXCEPT !.stage = "sent"].stage = "sent" /\ SomeRows([NoRows EXCEPT !.stage = "sent"].rows)
    BY EmptyRows DEF NoRows
  <2>3. CASE Saved \/ Retry
    BY <2>1, <2>2, <2>3 DEF Saved, Retry, SomeRows
  <2>4. CASE SaveFails
    BY <2>1, <2>4 DEF SaveFails, SomeRows
  <2>5. ASSUME NEW c \in Callers, ListLoaded(c) PROVE AllLists' /\ SomeRows(rows)'
    BY <2>1, <2>2, <2>5 DEF ListLoaded, SomeRows
  <2> QED
    BY <2>3, <2>4, <2>5
<1>4. /\ saving' \in [stage : Stages \cup {"listing"}, id : BotIds, credential : Credentials,
                      clear : BOOLEAN, update : BOOLEAN]
      /\ saving'.credential \in {Blank, saving'.id} /\ Addressed'
  <2>1. CASE saving' = saving
    BY <2>1 DEF RegistryInv, RegistryTypeOK, OwnCredential, Addressed
  <2>2. CASE saving' # saving
    BY <1>2, <2>2, EmptyTypes DEF Addressed
  <2> QED
    BY <2>1, <2>2
<1>5. /\ form' \in [id : BotIds, credential : Credentials, clear : BOOLEAN] /\ editing' \in BotIds
      /\ InForm'
  BY <1>2, FormEmptied
<1>6. RegistryTypeOK'
  BY <1>1, <1>3, <1>4, <1>5 DEF RegistryInv, RegistryTypeOK, SomeRows, store
<1> QED
  BY <1>1, <1>4, <1>5, <1>6, OnlyPage

LEMMA RemovalKeeps ==
  ASSUME RegistryInv, NEW b \in Bots, Remove(b) \/ Removed(b) \/ RemoveFails(b)
  PROVE  RegistryInv'
<1>1. UNCHANGED <<store, saving, loading, listed>>
  BY DEF Remove, Removed, RemoveFails
<1>2. UNCHANGED <<form, editing>> \/ (form' = EmptyForm /\ editing' = Blank)
  BY DEF Remove, Removed, RemoveFails
<1>3. removing' \in [Bots -> [stage : Stages, editing : BotIds]]
  BY RegistryValues DEF Remove, Removed, RemoveFails, NoRemoval, RegistryInv, RegistryTypeOK, Stages
<1>4. SomeRows(rows)'
  BY DEF Remove, Removed, RemoveFails, RegistryInv, RegistryTypeOK, SomeRows
<1>5. requests' \in 0..MaxRequests
  BY RegistryAssumption DEF Remove, Removed, RemoveFails, RegistryInv, RegistryTypeOK, RegistryAssumption
<1>6. /\ form' \in [id : BotIds, credential : Credentials, clear : BOOLEAN] /\ editing' \in BotIds
      /\ InForm'
  BY <1>2, FormEmptied
<1>7. RegistryTypeOK'
  BY <1>1, <1>3, <1>4, <1>5, <1>6 DEF RegistryInv, RegistryTypeOK, SomeRows, store
<1>8. Addressed' /\ saving'.credential \in {Blank, saving'.id}
  BY <1>1 DEF RegistryInv, Addressed, OwnCredential
<1> QED
  BY <1>1, <1>6, <1>7, <1>8, OnlyPage

\* GET /api/bots changes nothing but the answer.
LEMMA ListServed ==
  ASSUME RegistryInv, NEW c \in Callers, ServeList(c)
  PROVE  RegistryInv'
<1>1. UNCHANGED <<store, rows, form, editing, saving, removing, listed, requests>>
  BY DEF ServeList
<1>2. SomeRows([b \in DOMAIN bots |-> bots[b] # Blank])
  BY DEF SomeRows, RegistryInv, RegistryTypeOK
<1>3. DOMAIN loading' = Callers /\ \A d \in Callers : loading'[d].stage \in Stages /\ SomeRows(loading'[d].rows)
  <2>1. loading' = [loading EXCEPT ![c] = [stage |-> "done", rows |-> [b \in DOMAIN bots |-> bots[b] # Blank]]]
    BY DEF ServeList
  <2>2. \A d \in Callers \ {c} : loading'[d] = loading[d]
    BY <2>1 DEF RegistryInv, RegistryTypeOK
  <2>3. loading'[c].stage = "done" /\ loading'[c].rows = [b \in DOMAIN bots |-> bots[b] # Blank]
    BY <2>1 DEF RegistryInv, RegistryTypeOK
  <2>4. SomeRows(loading'[c].rows)
    BY <1>2, <2>3
  <2>5. \A d \in Callers \ {c} : loading'[d].stage \in Stages /\ SomeRows(loading'[d].rows)
    BY <2>2 DEF RegistryInv, RegistryTypeOK
  <2> QED
    BY <2>1, <2>3, <2>4, <2>5 DEF RegistryInv, RegistryTypeOK, Stages
<1>4. RegistryTypeOK'
  BY <1>1, <1>3 DEF RegistryInv, RegistryTypeOK, SomeRows, store
<1>5. InForm' /\ Addressed' /\ saving'.credential \in {Blank, saving'.id}
  BY <1>1 DEF RegistryInv, InForm, Addressed, OwnCredential
<1> QED
  BY <1>1, <1>4, <1>5, OnlyPage

-----------------------------------------------------------------------------
LEMMA RegistryNextKeeps == RegistryInv /\ [RegistryNext]_registryVars => RegistryInv'
<1> SUFFICES ASSUME RegistryInv, [RegistryNext]_registryVars PROVE RegistryInv'
  OBVIOUS
<1>1. CASE OpenKey \/ WriteKey \/ ReadKey \/ Stop
  BY <1>1, GatewayKeeps
<1>2. CASE ServeSave \/ Lost
  BY <1>2, SaveServed, LostKeeps
<1>3. CASE Add \/ Type \/ \E b \in Bots : Edit(b)
  BY <1>3, FormKeeps
<1>4. CASE Save
  BY <1>4, SaveKeeps
<1>5. CASE Saved \/ SaveFails \/ Retry \/ \E c \in Callers : ListLoaded(c)
  BY <1>5, SaveEnds
<1>6. CASE \E b \in Bots : Remove(b) \/ Removed(b) \/ RemoveFails(b) \/ ServeRemoval(b)
  BY <1>6, RemovalKeeps, RemovalServed
<1>7. CASE \E c \in Callers : ServeList(c)
  BY <1>7, ListServed
<1>8. CASE UNCHANGED registryVars
  <2>1. RegistryTypeOK' /\ InForm' /\ Addressed' /\ saving'.credential \in {Blank, saving'.id}
    BY <1>8 DEF RegistryInv, RegistryTypeOK, SomeRows, InForm, Addressed, OwnCredential, registryVars, store, registryPage
  <2> QED
    BY <1>8, <2>1, OnlyPage DEF registryVars
<1> QED
  BY <1>1, <1>2, <1>3, <1>4, <1>5, <1>6, <1>7, <1>8 DEF RegistryNext

\* CredentialsTrue is an invariant of page, routes, store and key file
\* (Bots.tsx, app.ts, control-db.ts): no credential ends up with another bot,
\* and what was last asked for is what the key on disk opens.
THEOREM RegistryTrue == RegistrySpec => []CredentialsTrue
<1>1. RegistryInv => CredentialsTrue
  BY DEF RegistryInv, CredentialsTrue
<1> QED
  BY <1>1, RegistryBegins, RegistryNextKeeps, PTL DEF RegistrySpec

-----------------------------------------------------------------------------
(* The topic filters. *)

\* The levels from i on match, as MQTT says.
MatchesFrom(p, s, i) ==
  LET n == Len(p) IN
  IF i = n + 1 THEN Len(s) = n
  ELSE IF p[n] = "#" THEN i = n \/ (Len(s) >= n - 1 /\ \A j \in i..(n - 1) : Names(p[j], s[j]))
  ELSE Len(s) = n /\ \A j \in i..n : Names(p[j], s[j])

\* A set of numbers that is not empty has a least one.
LEMMA LeastNumber == ASSUME NEW T \in SUBSET Nat, T # {} PROVE \E m \in T : \A y \in T : m <= y
<1> DEFINE R == {p \in Nat \X Nat : p[1] < p[2]}
<1>1. IsWellFoundedOn(R, Nat)
  BY NatLessThanWellFounded DEF OpToRel
<1>2. \A x, y \in Nat : <<y, x>> \in R <=> y < x
  OBVIOUS
<1> HIDE DEF R
<1>3. PICK x \in T : \A y \in T : ~(<<y, x>> \in R)
  BY <1>1, WFMin
<1>4. ASSUME NEW y \in T PROVE x <= y
  <2>1. x \in Nat /\ y \in Nat /\ ~(y < x)
    BY <1>2, <1>3
  <2> QED
    BY <2>1
<1> QED
  BY <1>4

\* The round of the loop of topicMatches at level i, given the next one.
Round(p, s, m, i) ==
  \/ i > Len(p) /\ Len(p) = Len(s)
  \/ i <= Len(p) /\ \/ p[i] = "#"
                    \/ i <= Len(s) /\ p[i] \in {"+", s[i]} /\ m[i + 1]

LEMMA RoundMatches ==
  ASSUME FilterAssumption, NEW p \in Filters, NEW s \in Upto(Levels),
         NEW m, \A i \in 1..(Len(p) + 1) : m[i] <=> MatchesFrom(p, s, i),
         NEW i \in 1..(Len(p) + 1)
  PROVE  Round(p, s, m, i) <=> MatchesFrom(p, s, i)
<1> DEFINE n == Len(p)
<1>0. n \in Nat \ {0} /\ i \in 1..(n + 1)
  BY DEF FilterAssumption, Filters, Upto
<1>1. /\ n \in Nat \ {0} /\ Len(s) \in Nat /\ \A j \in 1..(n - 1) : p[j] # "#"
  BY DEF FilterAssumption, Filters, Upto
<1>2. \A j \in 1..Len(s) : s[j] \notin {"+", "#"}
  BY DEF FilterAssumption, Upto
<1>3. CASE i = n + 1
  BY <1>1, <1>3 DEF Round, MatchesFrom
<1>4. CASE i = n
  <2>1. m[n + 1] <=> Len(s) = n
    BY <1>1 DEF MatchesFrom
  <2>2. MatchesFrom(p, s, n) <=> p[n] = "#" \/ (Len(s) = n /\ Names(p[n], s[n]))
    BY <1>1, <1>4 DEF MatchesFrom
  <2> QED
    BY <1>1, <1>4, <2>1, <2>2 DEF Round, Names
<1>5. CASE i < n /\ p[n] = "#"
  <2>1. m[i + 1] <=> (i + 1 = n \/ (Len(s) >= n - 1 /\ \A j \in (i + 1)..(n - 1) : Names(p[j], s[j])))
    BY <1>1, <1>5 DEF MatchesFrom
  <2>2. MatchesFrom(p, s, i) <=> (Len(s) >= n - 1 /\ \A j \in i..(n - 1) : Names(p[j], s[j]))
    BY <1>1, <1>5 DEF MatchesFrom
  <2>3. (\A j \in i..(n - 1) : Names(p[j], s[j])) <=> Names(p[i], s[i]) /\ \A j \in (i + 1)..(n - 1) : Names(p[j], s[j])
    BY <1>1, <1>5
  <2> QED
    BY <1>1, <1>5, <2>1, <2>2, <2>3 DEF Round, Names
<1>6. CASE i < n /\ p[n] # "#"
  <2>1. m[i + 1] <=> (Len(s) = n /\ \A j \in (i + 1)..n : Names(p[j], s[j]))
    BY <1>1, <1>6 DEF MatchesFrom
  <2>2. MatchesFrom(p, s, i) <=> (Len(s) = n /\ \A j \in i..n : Names(p[j], s[j]))
    BY <1>1, <1>6 DEF MatchesFrom
  <2>3. (\A j \in i..n : Names(p[j], s[j])) <=> Names(p[i], s[i]) /\ \A j \in (i + 1)..n : Names(p[j], s[j])
    BY <1>1, <1>6
  <2> QED
    BY <1>1, <1>6, <2>1, <2>2, <2>3 DEF Round, Names
<1> QED
  BY <1>0, <1>3, <1>4, <1>5, <1>6

LEMMA TopicMatchesMeans ==
  ASSUME FilterAssumption, NEW p \in Filters, NEW s \in Upto(Levels)
  PROVE  topicMatches(p, s) = MatchesFrom(p, s, 1)
<1> DEFINE D == 1..(Len(p) + 1)
           loop(m) == [i \in D |-> Round(p, s, m, i)]
           chosen == CHOOSE m : m = loop(m)
<1>0. Len(p) \in Nat \ {0}
  BY DEF FilterAssumption, Filters, Upto
<1>1. \E m : m = loop(m)
  <2> DEFINE M == [i \in D |-> MatchesFrom(p, s, i)]
  <2>1. \A i \in D : M[i] = MatchesFrom(p, s, i)
    OBVIOUS
  <2>2. \A i \in D : Round(p, s, M, i) <=> MatchesFrom(p, s, i)
    BY <2>1, RoundMatches
  <2>3. \A i \in D : Round(p, s, M, i) = MatchesFrom(p, s, i)
    BY <2>2 DEF Round, MatchesFrom
  <2>4. M = loop(M)
    BY <2>3
  <2> QED
    BY <2>4
<1>2. chosen = loop(chosen)
  <2> HIDE DEF loop
  <2> QED
    BY <1>1
<1>3. topicMatches(p, s) = chosen[1]
  BY DEF topicMatches, Round
<1>4. \A i \in D : chosen[i] <=> MatchesFrom(p, s, i)
  <2> DEFINE wrong == {k \in 0..Len(p) : ~(chosen[Len(p) + 1 - k] <=> MatchesFrom(p, s, Len(p) + 1 - k))}
  <2> HIDE DEF chosen
  <2>1. \A i \in D : chosen[i] = Round(p, s, chosen, i)
    BY <1>2
  <2>2. wrong = {}
    <3> SUFFICES ASSUME wrong # {} PROVE FALSE
      OBVIOUS
    <3>0. wrong \in SUBSET Nat
      BY <1>0
    <3>1. PICK k \in wrong : \A j \in wrong : k <= j
      <4> HIDE DEF wrong
      <4> QED
        BY <3>0, LeastNumber
    <3> DEFINE i == Len(p) + 1 - k
               m == [j \in D |-> MatchesFrom(p, s, j)]
    <3>2. i \in D
      BY <1>0
    <3>3. i <= Len(p) => chosen[i + 1] <=> MatchesFrom(p, s, i + 1)
      BY <1>0, <3>1
    <3>4. Round(p, s, chosen, i) <=> Round(p, s, m, i)
      BY <1>0, <3>2, <3>3 DEF Round
    <3>5. Round(p, s, m, i) <=> MatchesFrom(p, s, i)
      BY <3>2, RoundMatches
    <3> QED
      BY <2>1, <3>2, <3>4, <3>5
  <2> SUFFICES ASSUME NEW i \in D PROVE chosen[i] <=> MatchesFrom(p, s, i)
    OBVIOUS
  <2>3. Len(p) + 1 - i \in 0..Len(p) /\ Len(p) + 1 - (Len(p) + 1 - i) = i
    BY <1>0
  <2> QED
    BY <2>2, <2>3
<1>5. chosen[1] \in BOOLEAN
  <2>1. 1 \in D /\ Round(p, s, chosen, 1) \in BOOLEAN
    BY <1>0 DEF Round
  <2> HIDE DEF chosen
  <2> QED
    BY <1>2, <2>1
<1> HIDE DEF chosen
<1>6. chosen[1] <=> MatchesFrom(p, s, 1)
  BY <1>0, <1>4
<1>7. MatchesFrom(p, s, 1) \in BOOLEAN
  BY DEF MatchesFrom
<1> QED
  BY <1>3, <1>5, <1>6, <1>7

LEMMA AsMqtt == ASSUME FilterAssumption, FilterInit PROVE MatchesAsMqtt
<1> SUFFICES ASSUME NEW i \in DOMAIN topicMap
             PROVE  LET p == topicMap[i].pattern
                        n == Len(p)
                    IN  topicMatches(p, topic) =
                          IF p[n] = "#"
                            THEN Len(topic) >= n - 1 /\ \A j \in 1..(n - 1) : Names(p[j], topic[j])
                            ELSE Len(topic) = n /\ \A j \in 1..n : Names(p[j], topic[j])
  BY DEF MatchesAsMqtt
<1> DEFINE p == topicMap[i].pattern
<1>1. p \in Filters /\ topic \in Upto(Levels)
  <2>1. PICK n \in 0..MaxEntries : topicMap \in [1..n -> Entry]
    BY DEF FilterInit
  <2>2. topicMap[i] \in Entry
    BY <2>1
  <2> QED
    BY <2>2 DEF FilterInit, Entry
<1>2. Len(p) \in Nat \ {0} /\ Len(topic) \in Nat
  BY <1>1 DEF FilterAssumption, Filters, Upto
<1>3. topicMatches(p, topic) = MatchesFrom(p, topic, 1)
  BY <1>1, TopicMatchesMeans
<1>4. MatchesFrom(p, topic, 1) <=>
        IF p[Len(p)] = "#"
          THEN Len(topic) >= Len(p) - 1 /\ \A j \in 1..(Len(p) - 1) : Names(p[j], topic[j])
          ELSE Len(topic) = Len(p) /\ \A j \in 1..Len(p) : Names(p[j], topic[j])
  BY <1>2 DEF MatchesFrom
<1> QED
  BY <1>3, <1>4 DEF MatchesFrom

LEMMA Guessless == ASSUME FilterAssumption, FilterInit PROVE NeverGuesses
<1>1. PICK n \in 0..MaxEntries : topicMap \in [1..n -> Entry]
  BY DEF FilterInit
<1> SUFFICES ASSUME option = NoDb, resolveDbname # NoDb,
                    NEW i \in DOMAIN topicMap, topicMatches(topicMap[i].pattern, topic)
             PROVE  ListOf(i) = fieldMap[resolveDbname]
  BY DEF NeverGuesses
<1>2. /\ Hits # {} /\ \A j \in Hits : ListOf(j) = ListOf(FirstHit)
      /\ resolveDbname = topicMap[FirstHit].dbname
  BY DEF resolveDbname
<1>3. ListOf(FirstHit) = fieldMap[resolveDbname]
  BY <1>2 DEF ListOf
<1>4. i \in Hits
  BY DEF Hits
<1> QED
  BY <1>2, <1>3, <1>4

\* The fields a topic is filtered by are those of the data base, or data bases
\* with one list, whose pattern matches it as MQTT says, for any patterns, topics
\* and number of entries (topicMatches, resolveDbname).
THEOREM FilterIsTrue == FilterSpec => []FilterTrue
<1>1. FilterInit => FilterTrue
  BY FilterAssumption, AsMqtt, Guessless DEF FilterTrue
<1>2. FilterTrue /\ [FALSE]_tvars => FilterTrue'
  BY DEF tvars, FilterTrue, MatchesAsMqtt, NeverGuesses, resolveDbname, Hits, FirstHit, ListOf
<1> QED
  BY <1>1, <1>2, PTL DEF FilterSpec

-----------------------------------------------------------------------------
(* The connection to the broker. *)
\* What is read lies before what is still in the stream, and both in the order
\* of sending.
PublishAt(i) == i \in DOMAIN stream /\ Publish(stream[i])
Numbered ==
  /\ \A i \in DOMAIN readings : readings[i].id <= sent
  /\ \A i \in DOMAIN stream : PublishAt(i) => stream[i].id <= sent
  /\ \A i, j \in DOMAIN stream : PublishAt(i) /\ PublishAt(j) /\ i < j => stream[i].id < stream[j].id
  /\ \A i \in DOMAIN readings, j \in DOMAIN stream : PublishAt(j) => readings[i].id < stream[j].id
ForwarderInv == TypeOK /\ Numbered /\ InOrder

-----------------------------------------------------------------------------
\* The ends of the first m frames.
EndsUpto(e, m) ==
  e \in [0..m -> Nat] /\ e[0] = 0 /\ \A k \in 1..m : e[k] = e[k - 1] + stream[k].size

LEMMA FrameSizes ==
  ASSUME ForwarderAssumption, stream \in Seq(Frame)
  PROVE  /\ Len(stream) \in Nat /\ DOMAIN stream = 1..Len(stream)
         /\ \A k \in 1..Len(stream) : stream[k] \in Frame /\ stream[k].size \in Nat \ (0..1)
<1>1. /\ Len(stream) \in Nat /\ DOMAIN stream = 1..Len(stream)
      /\ \A k \in 1..Len(stream) : stream[k] \in Frame
  OBVIOUS
<1>2. \A f \in Frame : f.size \in Lengths
  BY DEF Frame, Control
<1> QED
  BY <1>1, <1>2 DEF ForwarderAssumption

LEMMA EndsExist ==
  ASSUME ForwarderAssumption, stream \in Seq(Frame)
  PROVE  \E e : EndsUpto(e, Len(stream))
<1> DEFINE n == Len(stream)
           without == {m \in 0..n : ~\E e : EndsUpto(e, m)}
<1>1. n \in Nat /\ \A k \in 1..n : stream[k].size \in Nat
  BY FrameSizes
<1>2. without \in SUBSET Nat
  BY <1>1
<1>3. without = {}
  <2> SUFFICES ASSUME without # {} PROVE FALSE
    OBVIOUS
  <2>1. PICK m \in without : \A j \in without : m <= j
    <3> HIDE DEF without
    <3> QED
      BY <1>2, LeastNumber
  <2>2. CASE m = 0
    <3>1. EndsUpto([k \in 0..0 |-> 0], 0)
      BY DEF EndsUpto
    <3> QED
      BY <2>2, <3>1
  <2>3. CASE m # 0
    <3>1. m - 1 \in 0..n /\ ~(m <= m - 1) /\ m \in 1..n /\ m \in Nat
      BY <1>1, <2>3
    <3>2. PICK e : EndsUpto(e, m - 1)
      BY <2>1, <3>1
    <3> DEFINE f == [k \in 0..m |-> IF k = m THEN e[m - 1] + stream[m].size ELSE e[k]]
    <3>3. e[m - 1] \in Nat /\ stream[m].size \in Nat
      BY <1>1, <3>1, <3>2 DEF EndsUpto
    <3>4. f \in [0..m -> Nat]
      BY <3>1, <3>2, <3>3 DEF EndsUpto
    <3>5. f[0] = 0
      BY <3>1, <3>2 DEF EndsUpto
    <3>6. ASSUME NEW k \in 1..m PROVE f[k] = f[k - 1] + stream[k].size
      <4>1. CASE k = m
        BY <3>1, <4>1
      <4>2. CASE k # m
        BY <3>1, <3>2, <4>2 DEF EndsUpto
      <4> QED
        BY <4>1, <4>2
    <3> HIDE DEF f
    <3>7. EndsUpto(f, m)
      BY <3>4, <3>5, <3>6 DEF EndsUpto
    <3> QED
      BY <3>7
  <2> QED
    BY <2>2, <2>3
<1>4. n \in 0..n
  BY <1>1
<1> QED
  BY <1>3, <1>4

\* EndOf is the running sum of the frames' sizes.
LEMMA FrameEnds ==
  ASSUME ForwarderAssumption, stream \in Seq(Frame)
  PROVE  EndsUpto(EndOf, Len(stream))
<1> DEFINE n == Len(stream)
           next(e) == [k \in 0..n |-> IF k = 0 THEN 0 ELSE e[k - 1] + stream[k].size]
           chosen == CHOOSE e : e = next(e)
<1>0. n \in Nat /\ \A k \in 1..n : stream[k].size \in Nat
  BY FrameSizes
<1>1. \E e : e = next(e)
  <2>1. PICK e : EndsUpto(e, n)
    BY EndsExist
  <2>2. e = next(e)
    BY <1>0, <2>1 DEF EndsUpto
  <2> QED
    BY <2>2
<1>2. chosen = next(chosen)
  <2> HIDE DEF next
  <2> QED
    BY <1>1
<1>3. EndOf = chosen
  BY DEF EndOf
<1> HIDE DEF chosen
<1>4. /\ chosen[0] = 0
      /\ \A k \in 1..n : chosen[k] = chosen[k - 1] + stream[k].size
      /\ DOMAIN chosen = 0..n /\ chosen = [k \in 0..n |-> chosen[k]]
  BY <1>0, <1>2
<1>5. \A k \in 0..n : chosen[k] \in Nat
  <2> DEFINE untyped == {k \in 0..n : chosen[k] \notin Nat}
  <2> SUFFICES ASSUME untyped # {} PROVE FALSE
    OBVIOUS
  <2>1. untyped \in SUBSET Nat
    BY <1>0
  <2>2. PICK k \in untyped : \A j \in untyped : k <= j
    <3> HIDE DEF untyped
    <3> QED
      BY <2>1, LeastNumber
  <2>3. k # 0 /\ k \in 1..n
    BY <1>0, <1>4
  <2>4. k - 1 \in 0..n /\ ~(k <= k - 1)
    BY <1>0, <2>3
  <2>5. chosen[k - 1] \in Nat /\ stream[k].size \in Nat
    BY <1>0, <2>2, <2>3, <2>4
  <2>6. chosen[k] = chosen[k - 1] + stream[k].size
    BY <1>4, <2>3
  <2>7. chosen[k] \notin Nat
    BY <2>2
  <2> QED
    BY <2>5, <2>6, <2>7
<1> QED
  BY <1>3, <1>4, <1>5 DEF EndsUpto

\* The loop of the decoder takes whole frames that have arrived.
LEMMA TakenArrived ==
  ASSUME ForwarderAssumption, stream \in Seq(Frame), NEW n \in Nat
  PROVE  Taken(n) \in 0..Len(stream) /\ EndOf[Taken(n)] \in 0..n
<1> DEFINE l == Len(stream)
           end == EndOf
           halts(k) == k = l \/ end[k + 1] > n \/ Unidentifiable(stream[k + 1])
           where == {k \in 0..l : halts(k)}
<1>1. l \in Nat /\ EndsUpto(EndOf, l)
  BY FrameSizes, FrameEnds
<1>2. where \in SUBSET Nat /\ l \in where
  BY <1>1
<1>3. PICK k \in where : \A j \in where : k <= j
  <2> HIDE DEF where
  <2> QED
    BY <1>2, LeastNumber
<1>4. k \in 0..l /\ halts(k) /\ \A j \in 0..(k - 1) : ~halts(j)
  <2> HIDE DEF halts
  <2> QED
    BY <1>1, <1>3
<1>5. Taken(n) = CHOOSE i \in 0..l : halts(i) /\ \A j \in 0..(i - 1) : ~halts(j)
  BY DEF Taken
<1>6. Taken(n) \in 0..l /\ \A j \in 0..(Taken(n) - 1) : ~halts(j)
  <2> HIDE DEF halts
  <2> QED
    BY <1>4, <1>5
<1>7. CASE Taken(n) = 0
  BY <1>1, <1>6, <1>7 DEF EndsUpto
<1>8. CASE Taken(n) # 0
  <2>1. Taken(n) - 1 \in 0..(Taken(n) - 1) /\ Taken(n) - 1 + 1 = Taken(n)
    BY <1>1, <1>6, <1>8
  <2>2. ~(end[Taken(n)] > n)
    BY <1>6, <2>1
  <2>3. end[Taken(n)] \in Nat
    BY <1>1, <1>6 DEF EndsUpto
  <2> QED
    BY <1>6, <2>2, <2>3
<1> QED
  BY <1>7, <1>8

-----------------------------------------------------------------------------
LEMMA ForwarderStarts == ASSUME ForwarderAssumption, Init PROVE ForwarderInv
<1>1. TypeOK
  <2>1. asked \in BOOLEAN /\ connected \in BOOLEAN /\ ping \in BOOLEAN
    BY DEF Init
  <2>2. stream \in Seq(Frame) /\ have \in Nat /\ readings \in Seq(BrokerReading) /\ posts \subseteq 1..MaxPublish
    BY DEF Init
  <2>3. /\ conn \in {"wait", "dialing", "open"} /\ mapping \in {"loading", "loaded", "failed"}
        /\ sent \in 0..MaxPublish /\ downs \in 0..MaxDown
        /\ received \in Nat /\ dropped \in Nat /\ forwarded \in Nat /\ failed \in Nat
    BY DEF ForwarderAssumption, Init
  <2>4. conn # "open" => stream = <<>> /\ have = 0 /\ ~connected
    BY DEF Init
  <2> QED
    BY <2>1, <2>2, <2>3, <2>4 DEF TypeOK
<1>2. Numbered /\ InOrder
  BY DEF Init, Numbered, InOrder
<1> QED
  BY <1>1, <1>2 DEF ForwarderInv

\* A step that leaves the stream, or empties it, and reads nothing.
LEMMA StreamKept ==
  ASSUME ForwarderInv, TypeOK', UNCHANGED <<sent, readings>>, (stream' = stream) \/ (stream' = <<>>)
  PROVE  ForwarderInv'
<1>1. Numbered'
  BY DEF ForwarderInv, Numbered, PublishAt, Publish
<1>2. InOrder'
  BY DEF ForwarderInv, InOrder
<1> QED
  BY <1>1, <1>2 DEF ForwarderInv

\* A step that adds a frame, which is numbered after all there are.
LEMMA FrameAdded ==
  ASSUME ForwarderInv, TypeOK', NEW f \in Frame, stream' = Append(stream, f), UNCHANGED readings,
         IF Publish(f) THEN sent' = sent + 1 /\ f.id = sent + 1 ELSE UNCHANGED sent
  PROVE  ForwarderInv'
<1>t. /\ stream \in Seq(Frame) /\ readings \in Seq(BrokerReading) /\ sent \in Nat
      /\ \A i \in DOMAIN readings : readings[i].id \in Nat
      /\ \A i \in DOMAIN stream : Publish(stream[i]) => stream[i].id \in Nat
  <2>1. /\ stream \in Seq(Frame) /\ readings \in Seq(BrokerReading) /\ sent \in Nat
    BY ForwarderAssumption DEF ForwarderInv, TypeOK, ForwarderAssumption
  <2>2. \A r \in BrokerReading : r.id \in Nat
    BY ForwarderAssumption DEF BrokerReading, ForwarderAssumption
  <2>3. \A g \in Frame : g.id \in Nat
    BY ForwarderAssumption DEF Frame, Control, ForwarderAssumption
  <2> QED
    BY <2>1, <2>2, <2>3
<1>1. /\ Len(stream) \in Nat /\ Len(stream') = Len(stream) + 1
      /\ \A i \in 1..Len(stream) : stream'[i] = stream[i]
      /\ stream'[Len(stream) + 1] = f
  BY <1>t
<1>2. \A i \in DOMAIN stream' : (i \in DOMAIN stream /\ stream'[i] = stream[i]) \/ i = Len(stream) + 1
  BY <1>t, <1>1
<1>3. /\ \A i \in DOMAIN readings' : readings'[i].id <= sent'
      /\ \A i \in DOMAIN stream' : Publish(stream'[i]) => stream'[i].id <= sent'
  BY <1>t, <1>1, <1>2 DEF ForwarderInv, Numbered, PublishAt
<1>4. \A i, j \in DOMAIN stream' :
        Publish(stream'[i]) /\ Publish(stream'[j]) /\ i < j => stream'[i].id < stream'[j].id
  <2> SUFFICES ASSUME NEW i \in DOMAIN stream', NEW j \in DOMAIN stream',
                      Publish(stream'[i]), Publish(stream'[j]), i < j
               PROVE  stream'[i].id < stream'[j].id
    OBVIOUS
  <2>1. i \in DOMAIN stream /\ stream'[i] = stream[i]
    BY <1>t, <1>1, <1>2
  <2>2. CASE j \in DOMAIN stream /\ stream'[j] = stream[j]
    BY <2>1, <2>2 DEF ForwarderInv, Numbered, PublishAt
  <2>3. CASE j = Len(stream) + 1
    <3>1. stream[i].id <= sent /\ stream'[j].id = sent + 1
      BY <1>1, <2>1, <2>3 DEF ForwarderInv, Numbered, PublishAt
    <3> QED
      BY <1>t, <2>1, <3>1
  <2> QED
    BY <1>2, <2>2, <2>3
<1>5. \A i \in DOMAIN readings', j \in DOMAIN stream' :
        Publish(stream'[j]) => readings'[i].id < stream'[j].id
  BY <1>t, <1>1, <1>2 DEF ForwarderInv, Numbered, PublishAt
<1>6. Numbered'
  BY <1>3, <1>4, <1>5 DEF Numbered, PublishAt, Publish
<1>7. InOrder'
  BY DEF ForwarderInv, InOrder
<1> QED
  BY <1>6, <1>7 DEF ForwarderInv

\* connect and what becomes of the connection.
LEMMA ConnectionKeeps ==
  ASSUME ForwarderAssumption, ForwarderInv,
         LoadMapping \/ DialBroker \/ DialBrokerFails \/ Close \/ Redial
  PROVE  ForwarderInv'
<1>t. TypeOK
  BY DEF ForwarderInv
<1>1. CASE DialBroker
  <2>1. PICK f \in Control : stream' = <<f>>
    BY <1>1 DEF DialBroker, Control
  <2>2. f \in Frame /\ ~Publish(f) /\ stream = <<>> /\ stream' = Append(stream, f)
    BY <1>t, <1>1, <2>1 DEF Frame, Control, Publish, PublishKinds, TypeOK, DialBroker
  <2>3. TypeOK'
    <3>1. asked' \in BOOLEAN /\ connected' \in BOOLEAN /\ ping' \in BOOLEAN
      BY <1>t, <1>1, <2>1, <2>2 DEF TypeOK, DialBroker, stats
    <3>2. stream' \in Seq(Frame) /\ have' \in Nat /\ readings' \in Seq(BrokerReading) /\ posts' \subseteq 1..MaxPublish
      BY <1>t, <1>1, <2>1, <2>2 DEF TypeOK, DialBroker, stats
    <3>3. /\ conn' \in {"wait", "dialing", "open"} /\ mapping' \in {"loading", "loaded", "failed"}
        /\ sent' \in 0..MaxPublish /\ downs' \in 0..MaxDown
        /\ received' \in Nat /\ dropped' \in Nat /\ forwarded' \in Nat /\ failed' \in Nat
      BY <1>t, <1>1, <2>1, <2>2 DEF TypeOK, DialBroker, stats
    <3>4. conn' # "open" => stream' = <<>> /\ have' = 0 /\ ~connected'
      BY <1>t, <1>1, <2>1, <2>2 DEF TypeOK, DialBroker, stats
    <3> QED
      BY <3>1, <3>2, <3>3, <3>4 DEF TypeOK
  <2>4. UNCHANGED <<sent, readings>>
    BY <1>1 DEF DialBroker
  <2> QED
    BY <2>2, <2>3, <2>4, FrameAdded
<1>2. CASE ~DialBroker
  <2>1. TypeOK'
    <3>1. asked' \in BOOLEAN /\ connected' \in BOOLEAN /\ ping' \in BOOLEAN
      BY <1>t, <1>2, ForwarderAssumption DEF TypeOK, LoadMapping, DialBrokerFails, Close, Redial, link, stats, ForwarderAssumption
    <3>2. stream' \in Seq(Frame) /\ have' \in Nat /\ readings' \in Seq(BrokerReading) /\ posts' \subseteq 1..MaxPublish
      <4>1. (stream' = stream \/ stream' = <<>>) /\ have' \in Nat /\ UNCHANGED <<readings, posts>>
        BY <1>t, <1>2 DEF TypeOK, LoadMapping, DialBrokerFails, Close, Redial, link
      <4>2. /\ stream \in Seq(Frame) /\ <<>> \in Seq(Frame) /\ readings \in Seq(BrokerReading)
            /\ posts \subseteq 1..MaxPublish
        BY <1>t DEF TypeOK
      <4> QED
        BY <4>1, <4>2
    <3>3. /\ conn' \in {"wait", "dialing", "open"} /\ mapping' \in {"loading", "loaded", "failed"}
        /\ sent' \in 0..MaxPublish /\ downs' \in 0..MaxDown
        /\ received' \in Nat /\ dropped' \in Nat /\ forwarded' \in Nat /\ failed' \in Nat
      BY <1>t, <1>2, ForwarderAssumption DEF TypeOK, LoadMapping, DialBrokerFails, Close, Redial, link, stats, ForwarderAssumption
    <3>4. conn' # "open" => stream' = <<>> /\ have' = 0 /\ ~connected'
      BY <1>t, <1>2, ForwarderAssumption DEF TypeOK, LoadMapping, DialBrokerFails, Close, Redial, link, stats, ForwarderAssumption
    <3> QED
      BY <3>1, <3>2, <3>3, <3>4 DEF TypeOK
  <2>2. UNCHANGED <<sent, readings>> /\ (stream' = stream \/ stream' = <<>>)
    BY <1>2 DEF LoadMapping, DialBrokerFails, Close, Redial, link
  <2> QED
    BY <2>1, <2>2, StreamKept
<1> QED
  BY <1>1, <1>2

\* The broker's frames.
LEMMA BrokerKeeps ==
  ASSUME ForwarderAssumption, ForwarderInv, Suback \/ \E k \in PublishKinds : Send(k)
  PROVE  ForwarderInv'
<1>t. TypeOK
  BY DEF ForwarderInv
<1>1. CASE Suback
  <2>1. PICK f \in Control : stream' = Append(stream, f)
    BY <1>1 DEF Suback, Control
  <2>2. f \in Frame /\ ~Publish(f)
    BY <2>1 DEF Frame, Control, Publish, PublishKinds
  <2>3. TypeOK'
    <3>1. asked' \in BOOLEAN /\ connected' \in BOOLEAN /\ ping' \in BOOLEAN
      BY <1>t, <1>1, <2>1, <2>2 DEF TypeOK, Suback, stats
    <3>2. stream' \in Seq(Frame) /\ have' \in Nat /\ readings' \in Seq(BrokerReading) /\ posts' \subseteq 1..MaxPublish
      BY <1>t, <1>1, <2>1, <2>2 DEF TypeOK, Suback, stats
    <3>3. /\ conn' \in {"wait", "dialing", "open"} /\ mapping' \in {"loading", "loaded", "failed"}
        /\ sent' \in 0..MaxPublish /\ downs' \in 0..MaxDown
        /\ received' \in Nat /\ dropped' \in Nat /\ forwarded' \in Nat /\ failed' \in Nat
      BY <1>t, <1>1, <2>1, <2>2 DEF TypeOK, Suback, stats
    <3>4. conn' # "open" => stream' = <<>> /\ have' = 0 /\ ~connected'
      BY <1>t, <1>1, <2>1, <2>2 DEF TypeOK, Suback, stats
    <3> QED
      BY <3>1, <3>2, <3>3, <3>4 DEF TypeOK
  <2>4. UNCHANGED <<sent, readings>>
    BY <1>1 DEF Suback
  <2> QED
    BY <2>1, <2>2, <2>3, <2>4, FrameAdded
<1>2. ASSUME NEW k \in PublishKinds, Send(k) PROVE ForwarderInv'
  <2>1. PICK n \in Lengths : stream' = Append(stream, [kind |-> k, id |-> sent + 1, size |-> n])
    BY <1>2 DEF Send
  <2> DEFINE f == [kind |-> k, id |-> sent + 1, size |-> n]
  <2>2. sent + 1 \in 1..MaxPublish /\ sent' = sent + 1 /\ sent' \in 0..MaxPublish /\ conn = "open"
    BY <1>t, <1>2 DEF Send, TypeOK, ForwarderAssumption
  <2>3. f \in Frame /\ Publish(f) /\ f.id = sent + 1
    BY <2>2 DEF Frame, Publish
  <2>4. TypeOK'
    <3>1. asked' \in BOOLEAN /\ connected' \in BOOLEAN /\ ping' \in BOOLEAN
      BY <1>t, <1>2, <2>1, <2>2, <2>3 DEF TypeOK, Send, stats
    <3>2. stream' \in Seq(Frame) /\ have' \in Nat /\ readings' \in Seq(BrokerReading) /\ posts' \subseteq 1..MaxPublish
      BY <1>t, <1>2, <2>1, <2>2, <2>3 DEF TypeOK, Send, stats
    <3>3. /\ conn' \in {"wait", "dialing", "open"} /\ mapping' \in {"loading", "loaded", "failed"}
        /\ sent' \in 0..MaxPublish /\ downs' \in 0..MaxDown
        /\ received' \in Nat /\ dropped' \in Nat /\ forwarded' \in Nat /\ failed' \in Nat
      BY <1>t, <1>2, <2>1, <2>2, <2>3 DEF TypeOK, Send, stats
    <3>4. conn' # "open" => stream' = <<>> /\ have' = 0 /\ ~connected'
      BY <1>t, <1>2, <2>1, <2>2, <2>3 DEF TypeOK, Send, stats
    <3> QED
      BY <3>1, <3>2, <3>3, <3>4 DEF TypeOK
  <2>5. UNCHANGED readings
    BY <1>2 DEF Send
  <2> HIDE DEF f
  <2> QED
    BY <2>1, <2>2, <2>3, <2>4, <2>5, FrameAdded DEF f
<1> QED
  BY <1>1, <1>2

\* forward's answer.
LEMMA PostKeeps ==
  ASSUME ForwarderInv, NEW i \in posts, NEW ok \in BOOLEAN, PostEnds(i, ok)
  PROVE  ForwarderInv'
<1>1. TypeOK'
  BY DEF ForwarderInv, TypeOK, PostEnds, link
<1>2. UNCHANGED <<sent, readings, stream>>
  BY DEF PostEnds, link
<1> QED
  BY <1>1, <1>2, StreamKept

\* The decoder: what it reads were the first publishes of the stream.
LEMMA DataKeeps ==
  ASSUME ForwarderAssumption, ForwarderInv, NEW n \in Nat, Data(n)
  PROVE  ForwarderInv'
<1>t. /\ TypeOK /\ stream \in Seq(Frame) /\ readings \in Seq(BrokerReading) /\ have \in Nat
      /\ Numbered /\ InOrder
  BY DEF ForwarderInv, TypeOK
<1> DEFINE k == Taken(have + n)
           made == {i \in 1..k : Publish(stream[i])}
<1>0. have + n \in Nat
  BY <1>t
<1>1. k \in 0..Len(stream) /\ EndOf[k] \in 0..(have + n) /\ Len(stream) \in Nat
  <2>1. ASSUME NEW x \in Nat PROVE Taken(x) \in 0..Len(stream) /\ EndOf[Taken(x)] \in 0..x
    BY <1>t, TakenArrived
  <2>2. Taken(have + n) \in 0..Len(stream)
    BY <1>0, <2>1
  <2>3. EndOf[Taken(have + n)] \in 0..(have + n)
    BY <1>0, <2>1
  <2>4. Len(stream) \in Nat
    BY <1>t
  <2> QED
    BY <2>2, <2>3, <2>4
<1>2. PICK broke \in BOOLEAN :
        /\ conn = "open" /\ Slice(k, have + n)
        /\ received' = received + Cardinality(made) + (IF broke THEN 1 ELSE 0)
        /\ dropped' = dropped + (IF broke THEN 1 ELSE 0)
        /\ (\E at \in OneByOne(made) : readings' = readings \o [i \in DOMAIN at |-> ReadingOf(stream[at[i]])])
        /\ posts' = IF DryRun THEN posts ELSE posts \cup {stream[i].id : i \in made}
        /\ connected' \in BOOLEAN /\ ping' \in BOOLEAN /\ asked' \in BOOLEAN
        /\ UNCHANGED <<conn, mapping, sent, forwarded, failed, downs>>
  BY <1>t DEF Data, TypeOK
<1> HIDE DEF k
<1>3. IsFiniteSet(made) /\ Cardinality(made) \in Nat
  <2>1. IsFiniteSet(1..k)
    BY <1>1, FS_Interval
  <2> QED
    BY <2>1, FS_Subset, FS_CardinalityType
<1>4. PICK at \in OneByOne(made) : readings' = readings \o [i \in DOMAIN at |-> ReadingOf(stream[at[i]])]
  BY <1>2
<1> DEFINE c == Cardinality(made)
           new == [i \in 1..c |-> ReadingOf(stream[at[i]])]
<1>5. DOMAIN at = 1..c /\ readings' = readings \o new
  BY <1>4 DEF OneByOne
<1>6. \A i \in 1..c : at[i] \in made
  BY <1>4 DEF OneByOne
<1>7. \A i, j \in 1..c : i < j => at[i] < at[j]
  BY <1>4, <1>5 DEF OneByOne
<1>8. \A i \in made : /\ i \in DOMAIN stream /\ i <= k /\ Publish(stream[i]) /\ PublishAt(i)
                      /\ stream[i].id \in 1..MaxPublish /\ ReadingOf(stream[i]) \in BrokerReading
                      /\ ReadingOf(stream[i]).id = stream[i].id
  <2> SUFFICES ASSUME NEW i \in made
               PROVE  /\ i \in DOMAIN stream /\ i <= k /\ Publish(stream[i])
                      /\ stream[i].id \in 1..MaxPublish /\ ReadingOf(stream[i]) \in BrokerReading
                      /\ ReadingOf(stream[i]).id = stream[i].id
    BY DEF PublishAt
  <2>1. i \in DOMAIN stream /\ i <= k /\ Publish(stream[i]) /\ stream[i] \in Frame
    BY <1>t, <1>1
  <2>2. stream[i].id \in 1..MaxPublish
    BY <2>1 DEF Frame, Control, Publish, PublishKinds
  <2> QED
    BY <2>1, <2>2 DEF ReadingOf, BrokerReading
<1> HIDE DEF made, c
<1>9. /\ new \in Seq(BrokerReading) /\ Len(new) = c
      /\ \A i \in 1..c : new[i].id = stream[at[i]].id
  BY <1>3, <1>6, <1>8 DEF c
<1> HIDE DEF new
<1>10. /\ readings' \in Seq(BrokerReading) /\ Len(readings') = Len(readings) + c
       /\ c \in Nat /\ Len(readings) \in Nat
       /\ \A i \in 1..Len(readings) : readings'[i] = readings[i]
       /\ \A i \in (Len(readings) + 1)..(Len(readings) + c) : readings'[i] = new[i - Len(readings)]
  BY <1>t, <1>3, <1>5, <1>9 DEF c
<1>11. /\ stream' \in Seq(Frame) /\ Len(stream') = Len(stream) - k
       /\ \A i \in 1..Len(stream') : stream'[i] = stream[i + k] /\ i + k \in DOMAIN stream
       /\ have' \in Nat
  <2>1. stream' = SubSeq(stream, k + 1, Len(stream)) /\ have' = (have + n) - EndOf[k]
    BY <1>2 DEF Slice
  <2> QED
    BY <1>t, <1>1, <2>1
<1>12. TypeOK'
  <2>1. posts' \subseteq 1..MaxPublish
    BY <1>t, <1>2, <1>8 DEF TypeOK
  <2>2. received' \in Nat /\ dropped' \in Nat
    BY <1>t, <1>2, <1>3 DEF TypeOK
  <2> QED
    BY <1>t, <1>2, <1>10, <1>11, <2>1, <2>2 DEF TypeOK
<1>13. \A i \in DOMAIN readings' :
         \/ i \in DOMAIN readings /\ readings'[i] = readings[i]
         \/ /\ i > Len(readings) /\ i - Len(readings) \in 1..c
            /\ readings'[i].id = stream[at[i - Len(readings)]].id
  <2> SUFFICES ASSUME NEW i \in 1..(Len(readings) + c), ~(i \in 1..Len(readings))
               PROVE  /\ i > Len(readings) /\ i - Len(readings) \in 1..c
                      /\ readings'[i].id = stream[at[i - Len(readings)]].id
    BY <1>t, <1>10
  <2>1. i > Len(readings) /\ i - Len(readings) \in 1..c /\ i \in (Len(readings) + 1)..(Len(readings) + c)
    BY <1>10
  <2>2. readings'[i] = new[i - Len(readings)]
    BY <1>10, <2>1
  <2> QED
    BY <1>9, <2>1, <2>2
<1>t2. sent' = sent /\ \A i \in DOMAIN readings : readings[i].id \in Nat
  <2>1. \A r \in BrokerReading : r.id \in Nat
    BY DEF BrokerReading
  <2> QED
    BY <1>t, <1>2, <2>1
<1>14. InOrder'
  <2> SUFFICES ASSUME NEW i \in DOMAIN readings', NEW j \in DOMAIN readings', i < j
               PROVE  readings'[i].id < readings'[j].id
    BY DEF InOrder
  <2>1. CASE j \in DOMAIN readings /\ readings'[j] = readings[j]
    BY <1>t, <1>10, <2>1 DEF InOrder
  <2>2. CASE j - Len(readings) \in 1..c /\ readings'[j].id = stream[at[j - Len(readings)]].id
    <3> DEFINE q == at[j - Len(readings)]
    <3>1. q \in made
      BY <1>6, <2>2
    <3>2. CASE i \in DOMAIN readings /\ readings'[i] = readings[i]
      BY <1>t, <1>8, <2>2, <3>1, <3>2 DEF Numbered
    <3>3. CASE i > Len(readings) /\ i - Len(readings) \in 1..c /\ readings'[i].id = stream[at[i - Len(readings)]].id
      <4>1. at[i - Len(readings)] \in made
        BY <1>6, <3>3
      <4>2. at[i - Len(readings)] < q
        BY <1>7, <1>10, <2>2, <3>3
      <4> DEFINE r == at[i - Len(readings)]
      <4>3. r \in made /\ q \in made /\ r < q
        BY <3>1, <4>1, <4>2
      <4>4. readings'[i].id = stream[r].id /\ readings'[j].id = stream[q].id
        BY <2>2, <3>3
      <4> HIDE DEF r, q
      <4>5. stream[r].id < stream[q].id
        BY <1>t, <1>8, <4>3 DEF Numbered
      <4> QED
        BY <4>4, <4>5
    <3> QED
      BY <1>13, <3>2, <3>3
  <2> QED
    BY <1>13, <2>1, <2>2
<1>15. Numbered'
  <2>1. \A i \in DOMAIN readings' : readings'[i].id <= sent'
    BY <1>t, <1>t2, <1>6, <1>8, <1>13 DEF Numbered
  <2>2. \A i \in DOMAIN stream' : /\ i + k \in DOMAIN stream /\ stream'[i] = stream[i + k]
                                  /\ PublishAt(i)' => PublishAt(i + k)
    BY <1>1, <1>11 DEF PublishAt, Publish
  <2>3. \A i \in DOMAIN stream' : PublishAt(i)' => stream'[i].id <= sent'
    BY <1>t, <1>t2, <2>2 DEF Numbered
  <2>4. \A i, j \in DOMAIN stream' : PublishAt(i)' /\ PublishAt(j)' /\ i < j => stream'[i].id < stream'[j].id
    <3> SUFFICES ASSUME NEW i \in DOMAIN stream', NEW j \in DOMAIN stream', PublishAt(i)', PublishAt(j)', i < j
                 PROVE  stream'[i].id < stream'[j].id
      OBVIOUS
    <3>1. i + k < j + k
      BY <1>1, <1>11
    <3> QED
      BY <1>t, <2>2, <3>1 DEF Numbered
  <2>5. ASSUME NEW i \in DOMAIN readings', NEW j \in DOMAIN stream', PublishAt(j)'
        PROVE  readings'[i].id < stream'[j].id
    <3>1. CASE i \in DOMAIN readings /\ readings'[i] = readings[i]
      BY <1>t, <2>2, <2>5, <3>1 DEF Numbered
    <3>2. CASE i - Len(readings) \in 1..c /\ readings'[i].id = stream[at[i - Len(readings)]].id
      <4> DEFINE q == at[i - Len(readings)]
      <4>1. q \in made /\ q \in DOMAIN stream /\ q <= k
        BY <1>6, <1>8, <3>2
      <4>2. q < j + k
        BY <1>t, <1>1, <1>11, <4>1
      <4> QED
        BY <1>t, <1>8, <2>2, <2>5, <3>2, <4>1, <4>2 DEF Numbered
    <3> QED
      BY <1>13, <3>1, <3>2
  <2> QED
    BY <2>1, <2>3, <2>4, <2>5 DEF Numbered
<1> QED
  BY <1>12, <1>14, <1>15 DEF ForwarderInv

\* The inductive invariant of the forwarder.
THEOREM ForwarderInvariant == Spec => []ForwarderInv
<1>1. Init => ForwarderInv
  BY ForwarderAssumption, ForwarderStarts
<1>2. ForwarderInv /\ [Next]_fvars => ForwarderInv'
  <2> SUFFICES ASSUME ForwarderInv, [Next]_fvars PROVE ForwarderInv'
    OBVIOUS
  <2>1. CASE LoadMapping \/ DialBroker \/ DialBrokerFails \/ Close \/ Redial
    BY <2>1, ForwarderAssumption, ConnectionKeeps
  <2>2. CASE Suback \/ \E k \in PublishKinds : Send(k)
    BY <2>2, ForwarderAssumption, BrokerKeeps
  <2>3. ASSUME NEW i \in posts, NEW ok \in BOOLEAN, PostEnds(i, ok) PROVE ForwarderInv'
    BY <2>3, PostKeeps
  <2>4. CASE Arrival
    <3>1. PICK n \in 1..(Bytes - have) : Data(n)
      BY <2>4 DEF Arrival
    <3>2. n \in Nat
      OBVIOUS
    <3> QED
      BY <3>1, <3>2, ForwarderAssumption, DataKeeps
  <2>5. CASE UNCHANGED fvars
    <3>1. TypeOK'
      <4>1. asked' \in BOOLEAN /\ connected' \in BOOLEAN /\ ping' \in BOOLEAN
        BY <2>5 DEF ForwarderInv, TypeOK, fvars, link, stats
      <4>2. stream' \in Seq(Frame) /\ have' \in Nat /\ readings' \in Seq(BrokerReading) /\ posts' \subseteq 1..MaxPublish
        BY <2>5 DEF ForwarderInv, TypeOK, fvars, link, stats
      <4>3. /\ conn' \in {"wait", "dialing", "open"} /\ mapping' \in {"loading", "loaded", "failed"}
          /\ sent' \in 0..MaxPublish /\ downs' \in 0..MaxDown
          /\ received' \in Nat /\ dropped' \in Nat /\ forwarded' \in Nat /\ failed' \in Nat
        BY <2>5 DEF ForwarderInv, TypeOK, fvars, link, stats
      <4>4. conn' # "open" => stream' = <<>> /\ have' = 0 /\ ~connected'
        BY <2>5 DEF ForwarderInv, TypeOK, fvars, link, stats
      <4> QED
        BY <4>1, <4>2, <4>3, <4>4 DEF TypeOK
    <3> QED
      BY <2>5, <3>1, StreamKept DEF fvars, link
  <2> QED
    BY <2>1, <2>2, <2>3, <2>4, <2>5 DEF Next
<1> QED
  BY <1>1, <1>2, PTL DEF Spec

\* A publish is read at most once and in the broker's order, for any frames,
\* chunks and connections (the decoder's loop of connect, server.ts).
THEOREM ReadingsInOrder == Spec => []InOrder
<1>1. ForwarderInv => InOrder
  BY DEF ForwarderInv
<1> QED
  BY <1>1, ForwarderInvariant, PTL

-----------------------------------------------------------------------------
(* Functions on the places of a sequence. *)

\* Two functions that go on alike are alike.
GoAlike(f, g, n) == f[0] = g[0] /\ \A k \in 1..n : f[k - 1] = g[k - 1] => f[k] = g[k]
LEMMA Alike == ASSUME NEW n \in Nat, NEW f, NEW g, GoAlike(f, g, n) PROVE f[n] = g[n]
<1>0. f[0] = g[0] /\ \A k \in 1..n : f[k - 1] = g[k - 1] => f[k] = g[k]
  BY DEF GoAlike
<1> DEFINE T == {k \in 0..n : f[k] # g[k]}
<1>1. T \in SUBSET Nat /\ \A k \in T : k \in 1..n /\ f[k] # g[k]
  BY <1>0
<1>2. \A k \in 0..n : k \notin T => f[k] = g[k]
  OBVIOUS
<1> HIDE DEF T
<1>3. CASE T # {}
  <2>1. PICK k \in T : \A m \in T : k <= m
    BY <1>1, <1>3, LeastNumber
  <2>2. k \in 1..n /\ k - 1 \in 0..n /\ ~(k <= k - 1)
    BY <1>1, <2>1
  <2>3. f[k - 1] = g[k - 1]
    BY <1>2, <2>1, <2>2
  <2> QED
    BY <1>0, <1>1, <2>1, <2>2, <2>3
<1>4. CASE T = {}
  BY <1>2, <1>4
<1> QED
  BY <1>3, <1>4

\* What is defined from one place to the next is defined.
Runs(h, A, base, n, G) == h \in [0..n -> A] /\ h[0] = base /\ \A k \in 1..n : h[k] = G[<<h[k - 1], k>>]
LEMMA Recursion ==
  ASSUME NEW A, NEW base \in A, NEW n \in Nat, NEW G \in [A \X (1..n) -> A]
  PROVE  \E h : Runs(h, A, base, n, G)
<1> DEFINE Reached(h, m) == Runs(h, A, base, m, G)
           Some(m) == \E h : Reached(h, m)
           T == {m \in 0..n : ~Some(m)}
<1>1. Some(0)
  <2> DEFINE h == [k \in 0..0 |-> base]
  <2>1. h \in [0..0 -> A] /\ h[0] = base /\ 1..0 = {}
    OBVIOUS
  <2>2. Reached(h, 0)
    BY <2>1 DEF Runs
  <2> HIDE DEF Reached, h
  <2> QED
    BY <2>2
<1>2. ASSUME NEW m \in 1..n, Some(m - 1) PROVE Some(m)
  <2>1. PICK h : Reached(h, m - 1)
    BY <1>2
  <2>2. h \in [0..(m - 1) -> A] /\ h[0] = base /\ \A k \in 1..(m - 1) : h[k] = G[<<h[k - 1], k>>]
    BY <2>1 DEF Runs
  <2>3. m \in Nat /\ m - 1 \in 0..(m - 1)
    OBVIOUS
  <2>4. PICK e \in A : e = G[<<h[m - 1], m>>]
    BY <2>2, <2>3
  <2> DEFINE g == [k \in 0..m |-> IF k = m THEN e ELSE h[k]]
  <2>5. g \in [0..m -> A] /\ g[0] = base /\ g[m] = e /\ \A k \in 0..(m - 1) : g[k] = h[k]
    BY <2>2, <2>3
  <2> HIDE DEF g
  <2>6. ASSUME NEW k \in 1..m PROVE g[k] = G[<<g[k - 1], k>>]
    <3>1. k - 1 \in 0..(m - 1) /\ (k = m \/ k \in 1..(m - 1))
      OBVIOUS
    <3> QED
      BY <2>2, <2>4, <2>5, <3>1
  <2>7. Reached(g, m)
    BY <2>5, <2>6 DEF Runs
  <2> HIDE DEF Reached
  <2> QED
    BY <2>7
<1> HIDE DEF Some
<1>3. T \in SUBSET Nat /\ \A m \in T : m \in 1..n /\ ~Some(m)
  BY <1>1
<1>4. \A m \in 0..n : m \notin T => Some(m)
  OBVIOUS
<1> HIDE DEF T
<1>5. CASE T # {}
  <2>1. PICK m \in T : \A k \in T : m <= k
    BY <1>3, <1>5, LeastNumber
  <2>2. m \in 1..n /\ m - 1 \in 0..n /\ ~(m <= m - 1)
    BY <1>3, <2>1
  <2>3. Some(m - 1)
    BY <1>4, <2>1, <2>2
  <2> QED
    BY <1>2, <1>3, <2>1, <2>2, <2>3
<1>6. CASE T = {}
  <2>1. Some(n)
    BY <1>4, <1>6
  <2> QED
    BY <2>1 DEF Some
<1> QED
  BY <1>5, <1>6

LEMMA TheLast ==
  ASSUME NEW V, NEW s \in Seq(V), NEW x \in V
  PROVE  /\ Append(s, x) \in Seq(V) /\ Len(Append(s, x)) = Len(s) + 1 /\ Len(s) \in Nat
         /\ Append(s, x)[Len(s) + 1] = x
         /\ \A k \in 1..Len(s) : Append(s, x)[k] = s[k] /\ s[k] \in V
  OBVIOUS

LEMMA Joined == ASSUME NEW V, NEW s \in Seq(V), NEW t \in Seq(V) PROVE s \o t \in Seq(V)
OBVIOUS

LEMMA AllButTheLast ==
  ASSUME NEW V, NEW s \in Seq(V), s # <<>>
  PROVE  \E q \in Seq(V), x \in V : s = Append(q, x) /\ x = s[Len(s)] /\ Len(s) = Len(q) + 1
<1>1. PICK n \in Nat : n = Len(s) /\ n >= 1
  BY EmptySeq
<1>2. PICK m \in Nat : n = m + 1
  <2>1. n - 1 \in Nat /\ n = (n - 1) + 1
    BY <1>1
  <2> QED
    BY <2>1
<1>3. s[n] \in V /\ \A k \in 1..n : s[k] \in V
  BY <1>1
<1>4. PICK q \in [1..m -> V] : \A k \in 1..m : q[k] = s[k]
  <2>1. [k \in 1..m |-> s[k]] \in [1..m -> V]
    BY <1>2, <1>3
  <2> QED
    BY <2>1
<1>5. q \in Seq(V) /\ Len(q) = m
  OBVIOUS
<1>6. PICK t \in Seq(V) : t = Append(q, s[n])
  <2>1. PICK x \in V : x = s[n]
    BY <1>3
  <2>2. Append(q, x) \in Seq(V)
    BY <1>5, TheLast, Zenon
  <2> QED
    BY <2>1, <2>2
<1>7. Len(t) = n /\ \A k \in 1..n : t[k] = s[k]
  <2>1. Len(t) = n /\ t[n] = s[n] /\ \A k \in 1..m : t[k] = q[k]
    BY <1>2, <1>3, <1>5, <1>6, TheLast
  <2>2. \A k \in 1..n : k = n \/ k \in 1..m
    BY <1>2
  <2> QED
    BY <1>4, <2>1, <2>2
<1>8. t = s
  BY <1>1, <1>7
<1> QED
  BY <1>1, <1>2, <1>3, <1>5, <1>6, <1>8

\* What holds of the empty sequence and stays with one more element holds of all.
GoesOn(V, P) == <<>> \in P /\ \A q \in Seq(V), x \in V : q \in P => Append(q, x) \in P
LEMMA OnAndOn == ASSUME NEW V, NEW P, GoesOn(V, P), NEW s \in Seq(V) PROVE s \in P
<1> DEFINE T == {n \in Nat : \E b \in Seq(V) : Len(b) = n /\ b \notin P}
<1>1. T \in SUBSET Nat /\ \A n \in T : \E b \in Seq(V) : Len(b) = n /\ b \notin P
  OBVIOUS
<1>2. \A b \in Seq(V) : Len(b) \in Nat /\ (Len(b) \notin T => b \in P)
  OBVIOUS
<1> HIDE DEF T
<1>3. T = {}
  <2> SUFFICES ASSUME T # {} PROVE FALSE
    OBVIOUS
  <2>1. PICK n \in T : \A m \in T : n <= m
    BY <1>1, LeastNumber
  <2>2. PICK b \in Seq(V) : Len(b) = n /\ b \notin P
    BY <1>1, <2>1
  <2>3. b # <<>>
    BY <2>2 DEF GoesOn
  <2>4. PICK q \in Seq(V), x \in V : b = Append(q, x) /\ Len(b) = Len(q) + 1
    BY <2>3, AllButTheLast
  <2>5. Len(q) \in Nat /\ ~(n <= Len(q))
    BY <2>2, <2>4
  <2>6. q \in P
    BY <1>2, <2>1, <2>5
  <2> QED
    BY <2>2, <2>4, <2>6 DEF GoesOn
<1> QED
  BY <1>2, <1>3

-----------------------------------------------------------------------------
(* Only. *)

IsOnly(f, s, S) ==
  /\ f \in [0..Len(s) -> Seq(S)] /\ f[0] = <<>> /\ Only(s, S) = f[Len(s)]
  /\ \A k \in 1..Len(s) : f[k] = IF s[k] \in S THEN Append(f[k - 1], s[k]) ELSE f[k - 1]
LEMMA OnlyIs == ASSUME NEW V, NEW s \in Seq(V), NEW S PROVE \E f : IsOnly(f, s, S)
<1> DEFINE n == Len(s)
           After(f, k) == IF k = 0 THEN <<>> ELSE IF s[k] \in S THEN Append(f[k - 1], s[k]) ELSE f[k - 1]
           Is(f) == f = [k \in 0..n |-> After(f, k)]
           g == CHOOSE f : Is(f)
<1>1. n \in Nat
  OBVIOUS
<1>2. Only(s, S) = g[n]
  BY DEF Only
<1> HIDE DEF n
<1>3. PICK h \in [0..n -> Seq(S)] :
        h[0] = <<>> /\ \A k \in 1..n : h[k] = IF s[k] \in S THEN Append(h[k - 1], s[k]) ELSE h[k - 1]
  <2>1. PICK A : A = Seq(S)
    OBVIOUS
  <2> DEFINE G == [p \in A \X (1..n) |-> IF s[p[2]] \in S THEN Append(p[1], s[p[2]]) ELSE p[1]]
  <2>2. \A a \in A, k \in 1..n : (IF s[k] \in S THEN Append(a, s[k]) ELSE a) \in A
    BY <2>1
  <2>3. G \in [A \X (1..n) -> A]
    BY <2>2
  <2>4. \A a \in A, k \in 1..n : G[<<a, k>>] = IF s[k] \in S THEN Append(a, s[k]) ELSE a
    OBVIOUS
  <2>5. <<>> \in A
    BY <2>1
  <2> HIDE DEF G
  <2>a. PICK h : Runs(h, A, <<>>, n, G)
    BY <1>1, <2>3, <2>5, Recursion
  <2>6. h \in [0..n -> A] /\ h[0] = <<>> /\ \A k \in 1..n : h[k] = G[<<h[k - 1], k>>]
    BY <2>a DEF Runs
  <2>7. \A k \in 1..n : h[k] = IF s[k] \in S THEN Append(h[k - 1], s[k]) ELSE h[k - 1]
    <3> TAKE k \in 1..n
    <3>1. k - 1 \in 0..n
      BY <1>1
    <3>2. h[k - 1] \in A
      BY <2>6, <3>1
    <3> QED
      BY <2>4, <2>6, <3>2
  <2> QED
    BY <2>1, <2>6, <2>7
<1>4. Is(h)
  <2>1. \A k \in 0..n : h[k] = After(h, k)
    <3> TAKE k \in 0..n
    <3>1. k = 0 \/ k \in 1..n
      BY <1>1
    <3> QED
      BY <1>3, <3>1
  <2>2. h = [k \in 0..n |-> h[k]]
    OBVIOUS
  <2> HIDE DEF After
  <2> QED
    BY <2>1, <2>2
<1>5. Is(g)
  <2> HIDE DEF Is
  <2> QED
    BY <1>4
<1> HIDE DEF g
<1>6. \A k \in 0..n : g[k] = After(g, k)
  <2> DEFINE e(k) == After(g, k)
  <2>1. g = [k \in 0..n |-> e(k)]
    BY <1>5
  <2> HIDE DEF e
  <2>2. \A k \in 0..n : g[k] = e(k)
    BY <2>1
  <2> QED
    BY <2>2 DEF e
<1>7. g[0] = h[0]
  BY <1>1, <1>3, <1>6
<1>8. ASSUME NEW k \in 1..n, g[k - 1] = h[k - 1] PROVE g[k] = h[k]
  <2>1. k \in 0..n /\ k # 0
    BY <1>1
  <2>2. g[k] = After(g, k)
    BY <1>6, <2>1
  <2>3. h[k] = IF s[k] \in S THEN Append(h[k - 1], s[k]) ELSE h[k - 1]
    BY <1>3
  <2> QED
    BY <1>8, <2>1, <2>2, <2>3
<1>9. g[n] = h[n]
  <2>1. GoAlike(g, h, n)
    BY <1>7, <1>8 DEF GoAlike
  <2> QED
    BY <1>1, <2>1, Alike
<1>10. IsOnly(h, s, S)
  BY <1>2, <1>3, <1>9 DEF IsOnly, n
<1> QED
  BY <1>10

LEMMA OnlyEmpty == ASSUME NEW S PROVE Only(<<>>, S) = <<>>
<1>1. PICK s : s = <<>>
  OBVIOUS
<1>2. s \in Seq({}) /\ Len(s) = 0
  BY <1>1
<1>3. PICK f : IsOnly(f, s, S)
  BY <1>2, OnlyIs
<1> QED
  BY <1>1, <1>2, <1>3 DEF IsOnly

LEMMA OnlyAppend ==
  ASSUME NEW V, NEW s \in Seq(V), NEW x \in V, NEW S
  PROVE  /\ Only(Append(s, x), S) = IF x \in S THEN Append(Only(s, S), x) ELSE Only(s, S)
         /\ Only(s, S) \in Seq(S)
<1>1. PICK t : t = Append(s, x)
  OBVIOUS
<1>2. PICK n \in Nat : n = Len(s)
  OBVIOUS
<1>3. t \in Seq(V) /\ Len(t) = n + 1 /\ t[n + 1] = x /\ \A k \in 1..n : t[k] = s[k]
  BY <1>1, <1>2, TheLast
<1>4. PICK f : IsOnly(f, s, S)
  BY OnlyIs
<1>a. PICK g : IsOnly(g, t, S)
  BY <1>3, OnlyIs
<1>5. /\ f[0] = <<>> /\ Only(s, S) = f[n] /\ f \in [0..n -> Seq(S)]
      /\ \A k \in 1..n : f[k] = IF s[k] \in S THEN Append(f[k - 1], s[k]) ELSE f[k - 1]
  BY <1>2, <1>4 DEF IsOnly
<1>b. /\ g[0] = <<>> /\ Only(t, S) = g[n + 1]
      /\ \A k \in 1..(n + 1) : g[k] = IF t[k] \in S THEN Append(g[k - 1], t[k]) ELSE g[k - 1]
  BY <1>3, <1>a DEF IsOnly
<1>6. g[n] = f[n]
  <2>1. ASSUME NEW k \in 1..n, f[k - 1] = g[k - 1] PROVE f[k] = g[k]
    <3>1. k \in 1..(n + 1) /\ t[k] = s[k]
      BY <1>3
    <3> QED
      BY <1>5, <1>b, <2>1, <3>1
  <2>2. GoAlike(f, g, n)
    BY <1>5, <1>b, <2>1 DEF GoAlike
  <2> QED
    BY <2>2, Alike
<1>7. n + 1 \in 1..(n + 1) /\ (n + 1) - 1 = n /\ n \in 0..n
  OBVIOUS
<1>8. Only(t, S) = IF x \in S THEN Append(f[n], x) ELSE f[n]
  BY <1>3, <1>b, <1>6, <1>7
<1>9. f[n] \in Seq(S)
  BY <1>5, <1>7
<1> QED
  BY <1>1, <1>5, <1>8, <1>9

LEMMA OnlyTyped == ASSUME NEW V, NEW s \in Seq(V), NEW S PROVE Only(s, S) \in Seq(S)
<1>1. Len(s) \in Nat /\ Len(s) \in 0..Len(s)
  OBVIOUS
<1>2. PICK f : IsOnly(f, s, S)
  BY OnlyIs
<1> QED
  BY <1>1, <1>2 DEF IsOnly

Behind(u, w, x) == Append(u \o w, x) = u \o Append(w, x)
LEMMA AppendBehind == ASSUME NEW V, NEW u \in Seq(V), NEW w \in Seq(V), NEW x \in V PROVE Behind(u, w, x)
BY DEF Behind

LEMMA OnlyConcat ==
  ASSUME NEW V, NEW s \in Seq(V), NEW t \in Seq(V), NEW S
  PROVE  Only(s \o t, S) = Only(s, S) \o Only(t, S)
<1> DEFINE Holds(b) == Only(s \o b, S) = Only(s, S) \o Only(b, S)
           P == {b \in Seq(V) : Holds(b)}
<1>1. Holds(<<>>)
  <2>1. s \o <<>> = s
    OBVIOUS
  <2>2. PICK u \in Seq(S) : u = Only(s, S)
    BY OnlyTyped
  <2>3. u \o <<>> = u
    OBVIOUS
  <2> QED
    BY <2>1, <2>2, <2>3, OnlyEmpty
<1>2. ASSUME NEW q \in Seq(V), NEW x \in V, Holds(q) PROVE Holds(Append(q, x))
  <2>1. s \o Append(q, x) = Append(s \o q, x) /\ s \o q \in Seq(V)
    OBVIOUS
  <2>2. Only(s \o Append(q, x), S) = IF x \in S THEN Append(Only(s \o q, S), x) ELSE Only(s \o q, S)
    <3>1. PICK r \in Seq(V) : r = s \o q
      BY <2>1
    <3> QED
      BY <2>1, <3>1, OnlyAppend
  <2>3. Only(Append(q, x), S) = IF x \in S THEN Append(Only(q, S), x) ELSE Only(q, S)
    BY OnlyAppend
  <2>4. PICK u \in Seq(S) : u = Only(s, S)
    BY OnlyTyped
  <2>5. PICK w \in Seq(S) : w = Only(q, S)
    BY OnlyTyped
  <2>6. x \in S => Append(u \o w, x) = u \o Append(w, x)
    <3> SUFFICES ASSUME x \in S PROVE Append(u \o w, x) = u \o Append(w, x)
      OBVIOUS
    <3>1. Behind(u, w, x)
      BY AppendBehind
    <3> QED
      BY <3>1 DEF Behind
  <2> QED
    BY <1>2, <2>2, <2>3, <2>4, <2>5, <2>6
<1> HIDE DEF Holds
<1>3. GoesOn(V, P)
  BY <1>1, <1>2 DEF GoesOn
<1> HIDE DEF P
<1>4. t \in P
  BY <1>3, OnAndOn
<1>5. Holds(t)
  BY <1>4 DEF P
<1> QED
  BY <1>5 DEF Holds

-----------------------------------------------------------------------------
(* What one more character changes. *)

Chars == Contents \cup {"event", "LF", "CR"}

IsNormal(f, b) ==
  /\ f \in [0..Len(b) -> Seq(Chars)] /\ f[0] = <<>> /\ Normal(b) = f[Len(b)]
  /\ \A k \in 1..Len(b) : f[k] = f[k - 1] \o Piece(b, k)

LEMMA PieceTyped == ASSUME NEW b \in Seq(Chars), NEW k \in 1..Len(b) PROVE Piece(b, k) \in Seq(Chars)
<1>1. b[k] \in Chars /\ "LF" \in Chars
  BY DEF Chars
<1>2. <<b[k]>> \in Seq(Chars) /\ <<>> \in Seq(Chars) /\ <<"LF">> \in Seq(Chars)
  BY <1>1
<1> QED
  BY <1>2 DEF Piece

LEMMA NormalIs == ASSUME NEW b \in Seq(Chars) PROVE \E f : IsNormal(f, b)
<1> DEFINE n == Len(b)
           After(f, k) == IF k = 0 THEN <<>> ELSE f[k - 1] \o Piece(b, k)
           Is(f) == f = [k \in 0..n |-> After(f, k)]
           g == CHOOSE f : Is(f)
<1>1. n \in Nat /\ \A k \in 1..n : Piece(b, k) \in Seq(Chars)
  BY PieceTyped
<1>2. Normal(b) = g[n]
  BY DEF Normal
<1> HIDE DEF n
<1>3. PICK h \in [0..n -> Seq(Chars)] : h[0] = <<>> /\ \A k \in 1..n : h[k] = h[k - 1] \o Piece(b, k)
  <2>1. PICK A : A = Seq(Chars)
    OBVIOUS
  <2> DEFINE G == [p \in A \X (1..n) |-> p[1] \o Piece(b, p[2])]
  <2>2. \A a \in A, k \in 1..n : a \o Piece(b, k) \in A
    BY <1>1, <2>1
  <2>3. G \in [A \X (1..n) -> A]
    BY <2>2
  <2>4. \A a \in A, k \in 1..n : G[<<a, k>>] = a \o Piece(b, k)
    OBVIOUS
  <2>5. <<>> \in A
    BY <2>1
  <2> HIDE DEF G
  <2>6. PICK h : Runs(h, A, <<>>, n, G)
    BY <1>1, <2>3, <2>5, Recursion
  <2>7. h \in [0..n -> A] /\ h[0] = <<>> /\ \A k \in 1..n : h[k] = G[<<h[k - 1], k>>]
    BY <2>6 DEF Runs
  <2>8. \A k \in 1..n : h[k] = h[k - 1] \o Piece(b, k)
    <3> TAKE k \in 1..n
    <3>1. k - 1 \in 0..n
      BY <1>1
    <3>2. h[k - 1] \in A
      BY <2>7, <3>1
    <3> QED
      BY <2>4, <2>7, <3>2
  <2> QED
    BY <2>1, <2>7, <2>8
<1>4. Is(h)
  <2>1. \A k \in 0..n : h[k] = After(h, k)
    <3> TAKE k \in 0..n
    <3>1. k = 0 \/ k \in 1..n
      BY <1>1
    <3> QED
      BY <1>3, <3>1
  <2>2. h = [k \in 0..n |-> h[k]]
    OBVIOUS
  <2> HIDE DEF After
  <2> QED
    BY <2>1, <2>2
<1>5. Is(g)
  <2> HIDE DEF Is
  <2> QED
    BY <1>4
<1> HIDE DEF g
<1>6. \A k \in 0..n : g[k] = After(g, k)
  <2> DEFINE e(k) == After(g, k)
  <2>1. g = [k \in 0..n |-> e(k)]
    BY <1>5
  <2> HIDE DEF e
  <2>2. \A k \in 0..n : g[k] = e(k)
    BY <2>1
  <2> QED
    BY <2>2 DEF e
<1>7. g[0] = h[0]
  BY <1>1, <1>3, <1>6
<1>8. ASSUME NEW k \in 1..n, g[k - 1] = h[k - 1] PROVE g[k] = h[k]
  <2>1. k \in 0..n /\ k # 0
    BY <1>1
  <2>2. g[k] = After(g, k)
    BY <1>6, <2>1
  <2>3. h[k] = h[k - 1] \o Piece(b, k)
    BY <1>3
  <2> QED
    BY <1>8, <2>1, <2>2, <2>3
<1>9. g[n] = h[n]
  <2>1. GoAlike(g, h, n)
    BY <1>7, <1>8 DEF GoAlike
  <2> QED
    BY <1>1, <2>1, Alike
<1>10. IsNormal(h, b)
  BY <1>2, <1>3, <1>9 DEF IsNormal, n
<1> QED
  BY <1>10

LEMMA NormalTyped == ASSUME NEW b \in Seq(Chars) PROVE Normal(b) \in Seq(Chars)
<1>1. Len(b) \in Nat /\ Len(b) \in 0..Len(b)
  OBVIOUS
<1>2. PICK f : IsNormal(f, b)
  BY NormalIs
<1> QED
  BY <1>1, <1>2 DEF IsNormal

LEMMA NormalEmpty == Normal(<<>>) = <<>>
<1>1. PICK b : b = <<>>
  OBVIOUS
<1>2. b \in Seq(Chars) /\ Len(b) = 0
  BY <1>1
<1>3. PICK f : IsNormal(f, b)
  BY <1>2, NormalIs
<1> QED
  BY <1>1, <1>2, <1>3 DEF IsNormal

\* A character goes behind what is there, unless that ends with a CR.
EndsInCR(b) == b # <<>> /\ b[Len(b)] = "CR"
LEMMA NormalAppend ==
  ASSUME NEW b \in Seq(Chars), NEW x \in Chars
  PROVE  /\ ~EndsInCR(b) => Normal(Append(b, x)) = Append(Normal(b), x)
         /\ EndsInCR(b) => \E M \in Seq(Chars) :
              /\ Normal(b) = Append(M, "CR")
              /\ Normal(Append(b, x)) = IF x = "LF" THEN Append(M, "LF") ELSE Append(Append(M, "LF"), x)
<1>1. PICK t : t = Append(b, x)
  OBVIOUS
<1>2. PICK n \in Nat : n = Len(b)
  OBVIOUS
<1>3. t \in Seq(Chars) /\ Len(t) = n + 1 /\ t[n + 1] = x /\ \A k \in 1..n : t[k] = b[k]
  BY <1>1, <1>2, TheLast
<1>4. PICK f : IsNormal(f, b)
  BY NormalIs
<1>5. PICK g : IsNormal(g, t)
  BY <1>3, NormalIs
<1>6. /\ f \in [0..n -> Seq(Chars)] /\ f[0] = <<>> /\ Normal(b) = f[n]
      /\ \A k \in 1..n : f[k] = f[k - 1] \o Piece(b, k)
  BY <1>2, <1>4 DEF IsNormal
<1>7. /\ g[0] = <<>> /\ Normal(t) = g[n + 1]
      /\ \A k \in 1..(n + 1) : g[k] = g[k - 1] \o Piece(t, k)
  BY <1>3, <1>5 DEF IsNormal
<1>8. \A k \in 1..n : k < n => Piece(t, k) = Piece(b, k)
  <2> TAKE k \in 1..n
  <2> HAVE k < n
  <2>1. t[k] = b[k] /\ t[k + 1] = b[k + 1] /\ k # Len(t) /\ k # Len(b)
    BY <1>2, <1>3
  <2> QED
    BY <2>1 DEF Piece
<1>9. Piece(t, n + 1) = <<x>>
  BY <1>3 DEF Piece
<1>10. Normal(t) = g[n] \o <<x>>
  <2>1. n + 1 \in 1..(n + 1) /\ (n + 1) - 1 = n
    OBVIOUS
  <2>2. g[n + 1] = g[n] \o Piece(t, n + 1)
    BY <1>7, <2>1
  <2> QED
    BY <1>7, <1>9, <2>2
<1>11. ASSUME NEW m \in Nat, m <= n, \A k \in 1..m : Piece(t, k) = Piece(b, k) PROVE f[m] = g[m]
  <2>1. ASSUME NEW k \in 1..m, f[k - 1] = g[k - 1] PROVE f[k] = g[k]
    <3>1. k \in 1..n /\ k \in 1..(n + 1)
      BY <1>11
    <3> QED
      BY <1>6, <1>7, <1>11, <2>1, <3>1
  <2>2. GoAlike(f, g, m)
    BY <1>6, <1>7, <2>1 DEF GoAlike
  <2> QED
    BY <2>2, Alike
<1>12. CASE ~EndsInCR(b)
  <2>1. ASSUME NEW k \in 1..n PROVE Piece(t, k) = Piece(b, k)
    <3>1. CASE k < n
      BY <1>8, <3>1
    <3>2. CASE k = n
      <4>1. b # <<>> /\ b[k] # "CR" /\ t[k] = b[k]
        BY <1>2, <1>3, <1>12, <3>2 DEF EndsInCR
      <4> QED
        BY <4>1 DEF Piece
    <3> QED
      BY <3>1, <3>2
  <2>2. f[n] = g[n]
    BY <1>11, <2>1
  <2>3. PICK u \in Seq(Chars) : u = Normal(b)
    BY NormalTyped
  <2>4. u \o <<x>> = Append(u, x)
    OBVIOUS
  <2> QED
    BY <1>1, <1>6, <1>10, <1>12, <2>2, <2>3, <2>4
<1>13. CASE EndsInCR(b)
  <2>1. n \in 1..n /\ n # 0 /\ b[n] = "CR"
    BY <1>2, <1>13, EmptySeq DEF EndsInCR
  <2>2. PICK m \in Nat : n = m + 1
    <3>1. n - 1 \in Nat /\ n = (n - 1) + 1
      BY <2>1
    <3> QED
      BY <3>1
  <2>3. \A k \in 1..m : k \in 1..n /\ k < n
    BY <2>2
  <2>4. f[m] = g[m]
    BY <1>8, <1>11, <2>2, <2>3
  <2>5. PICK M \in Seq(Chars) : M = f[m]
    <3>1. m \in 0..n
      BY <2>2
    <3> QED
      BY <1>6, <3>1
  <2>6. n - 1 = m /\ n \in 1..(n + 1)
    BY <2>2
  <2>7. f[n] = M \o <<"CR">>
    <3>1. Piece(b, n) = <<"CR">>
      BY <1>2, <2>1 DEF Piece
    <3> QED
      BY <1>6, <2>1, <2>5, <2>6, <3>1
  <2>8. g[n] = M \o IF x = "LF" THEN <<>> ELSE <<"LF">>
    <3>1. t[n] = "CR" /\ n # Len(t) /\ t[n + 1] = x
      BY <1>3, <2>1
    <3>2. Piece(t, n) = IF x = "LF" THEN <<>> ELSE <<"LF">>
      BY <3>1 DEF Piece
    <3>3. g[n] = M \o Piece(t, n)
      BY <1>7, <2>4, <2>5, <2>6
    <3> QED
      BY <3>2, <3>3
  <2>9. /\ M \o <<>> = M /\ M \o <<"LF">> = Append(M, "LF") /\ M \o <<x>> = Append(M, x)
        /\ M \o <<"CR">> = Append(M, "CR")
    OBVIOUS
  <2>10. Append(M, "LF") \o <<x>> = Append(Append(M, "LF"), x)
    <3>1. PICK u \in Seq(Chars) : u = Append(M, "LF")
      <4>1. PICK y \in Chars : y = "LF"
        BY DEF Chars
      <4>2. Append(M, y) \in Seq(Chars)
        OBVIOUS
      <4> QED
        BY <4>1, <4>2
    <3>2. u \o <<x>> = Append(u, x)
      OBVIOUS
    <3> QED
      BY <3>1, <3>2
  <2>11. Normal(t) = IF x = "LF" THEN Append(M, "LF") ELSE Append(Append(M, "LF"), x)
    <3>1. CASE x = "LF"
      <4>1. g[n] = M
        BY <2>8, <2>9, <3>1
      <4> QED
        BY <1>10, <2>9, <3>1, <4>1
    <3>2. CASE x # "LF"
      <4>1. g[n] = Append(M, "LF")
        BY <2>8, <2>9, <3>2
      <4> QED
        BY <1>10, <2>10, <3>2, <4>1
    <3> QED
      BY <3>1, <3>2
  <2>12. Normal(b) = Append(M, "CR")
    BY <1>6, <2>7, <2>9
  <2> QED
    BY <1>1, <1>13, <2>11, <2>12
<1> QED
  BY <1>12, <1>13

-----------------------------------------------------------------------------
(* The blocks. *)

Decoded == [events: Seq(Contents), rest: Seq(Chars)]
Start == [events |-> <<>>, rest |-> <<>>]

LEMMA EventTyped == ASSUME NEW block \in Seq(Chars) PROVE EventOf(block) \in Seq(Contents)
<1>1. <<>> \in Seq(Contents)
  OBVIOUS
<1> QED
  BY <1>1, OnlyTyped DEF EventOf

LEMMA CutIs ==
  ASSUME NEW acc \in Decoded, NEW x \in Chars
  PROVE  /\ Cut(acc, x) \in Decoded
         /\ EndsBlock(Append(acc.rest, x)) =>
              Cut(acc, x) = [events |-> acc.events \o EventOf(Append(acc.rest, x)), rest |-> <<>>]
         /\ ~EndsBlock(Append(acc.rest, x)) =>
              Cut(acc, x) = [events |-> acc.events, rest |-> Append(acc.rest, x)]
<1>1. PICK e \in Seq(Contents), r \in Seq(Chars) : acc = [events |-> e, rest |-> r]
  BY DEF Decoded
<1>2. PICK block \in Seq(Chars) : block = Append(r, x)
  <2>1. Append(r, x) \in Seq(Chars)
    BY TheLast
  <2> QED
    BY <2>1
<1>3. EventOf(block) \in Seq(Contents)
  BY EventTyped
<1>4. e \o EventOf(block) \in Seq(Contents) /\ <<>> \in Seq(Chars)
  BY <1>3
<1>5. acc.events = e /\ acc.rest = r
  BY <1>1
<1>6. CASE EndsBlock(block)
  <2>1. Cut(acc, x) = [events |-> e \o EventOf(block), rest |-> <<>>]
    BY <1>2, <1>5, <1>6 DEF Cut
  <2> QED
    BY <1>2, <1>4, <1>5, <1>6, <2>1 DEF Decoded
<1>7. CASE ~EndsBlock(block)
  <2>1. Cut(acc, x) = [events |-> e, rest |-> block]
    BY <1>1, <1>2, <1>5, <1>7 DEF Cut
  <2> QED
    BY <1>2, <1>5, <1>7, <2>1 DEF Decoded
<1> QED
  BY <1>6, <1>7

IsBlocks(f, b) ==
  /\ f \in [0..Len(b) -> Decoded] /\ f[0] = Start /\ Blocks(b) = f[Len(b)]
  /\ \A k \in 1..Len(b) : f[k] = Cut(f[k - 1], b[k])

LEMMA BlocksIs == ASSUME NEW b \in Seq(Chars) PROVE \E f : IsBlocks(f, b)
<1> DEFINE n == Len(b)
           After(f, k) == IF k = 0 THEN Start ELSE Cut(f[k - 1], b[k])
           Is(f) == f = [k \in 0..n |-> After(f, k)]
           g == CHOOSE f : Is(f)
<1>1. n \in Nat /\ \A k \in 1..n : b[k] \in Chars
  OBVIOUS
<1>2. Blocks(b) = g[n]
  BY DEF Blocks, Start
<1> HIDE DEF n
<1>3. PICK h \in [0..n -> Decoded] : h[0] = Start /\ \A k \in 1..n : h[k] = Cut(h[k - 1], b[k])
  <2>1. PICK A : A = Decoded
    OBVIOUS
  <2> DEFINE G == [p \in A \X (1..n) |-> Cut(p[1], b[p[2]])]
  <2>2. \A a \in A, k \in 1..n : Cut(a, b[k]) \in A
    BY <1>1, <2>1, CutIs
  <2>3. G \in [A \X (1..n) -> A]
    BY <2>2
  <2>4. \A a \in A, k \in 1..n : G[<<a, k>>] = Cut(a, b[k])
    OBVIOUS
  <2>5. Start \in A
    BY <2>1 DEF Start, Decoded
  <2> HIDE DEF G
  <2>6. PICK h : Runs(h, A, Start, n, G)
    BY <1>1, <2>3, <2>5, Recursion
  <2>7. h \in [0..n -> A] /\ h[0] = Start /\ \A k \in 1..n : h[k] = G[<<h[k - 1], k>>]
    BY <2>6 DEF Runs
  <2>8. \A k \in 1..n : h[k] = Cut(h[k - 1], b[k])
    <3> TAKE k \in 1..n
    <3>1. k - 1 \in 0..n
      BY <1>1
    <3>2. h[k - 1] \in A
      BY <2>7, <3>1
    <3> QED
      BY <2>4, <2>7, <3>2
  <2> QED
    BY <2>1, <2>7, <2>8
<1>4. Is(h)
  <2>1. \A k \in 0..n : h[k] = After(h, k)
    <3> TAKE k \in 0..n
    <3>1. k = 0 \/ k \in 1..n
      BY <1>1
    <3> QED
      BY <1>3, <3>1
  <2>2. h = [k \in 0..n |-> h[k]]
    OBVIOUS
  <2> HIDE DEF After
  <2> QED
    BY <2>1, <2>2
<1>5. Is(g)
  <2> HIDE DEF Is
  <2> QED
    BY <1>4
<1> HIDE DEF g
<1>6. \A k \in 0..n : g[k] = After(g, k)
  <2> DEFINE e(k) == After(g, k)
  <2>1. g = [k \in 0..n |-> e(k)]
    BY <1>5
  <2> HIDE DEF e
  <2>2. \A k \in 0..n : g[k] = e(k)
    BY <2>1
  <2> QED
    BY <2>2 DEF e
<1>7. g[0] = h[0]
  BY <1>1, <1>3, <1>6
<1>8. ASSUME NEW k \in 1..n, g[k - 1] = h[k - 1] PROVE g[k] = h[k]
  <2>1. k \in 0..n /\ k # 0
    BY <1>1
  <2>2. g[k] = After(g, k)
    BY <1>6, <2>1
  <2>3. h[k] = Cut(h[k - 1], b[k])
    BY <1>3
  <2> QED
    BY <1>8, <2>1, <2>2, <2>3
<1>9. g[n] = h[n]
  <2>1. GoAlike(g, h, n)
    BY <1>7, <1>8 DEF GoAlike
  <2> QED
    BY <1>1, <2>1, Alike
<1>10. IsBlocks(h, b)
  BY <1>2, <1>3, <1>9 DEF IsBlocks, n
<1> QED
  BY <1>10

LEMMA BlocksTyped == ASSUME NEW b \in Seq(Chars) PROVE Blocks(b) \in Decoded
<1>1. Len(b) \in Nat /\ Len(b) \in 0..Len(b)
  OBVIOUS
<1>2. PICK f : IsBlocks(f, b)
  BY BlocksIs
<1> QED
  BY <1>1, <1>2 DEF IsBlocks

LEMMA BlocksEmpty == Blocks(<<>>) = Start
<1>1. PICK b : b = <<>>
  OBVIOUS
<1>2. b \in Seq(Chars) /\ Len(b) = 0
  BY <1>1
<1>3. PICK f : IsBlocks(f, b)
  BY <1>2, BlocksIs
<1> QED
  BY <1>1, <1>2, <1>3 DEF IsBlocks

LEMMA BlocksAppend ==
  ASSUME NEW b \in Seq(Chars), NEW x \in Chars PROVE Blocks(Append(b, x)) = Cut(Blocks(b), x)
<1>1. PICK t : t = Append(b, x)
  OBVIOUS
<1>2. PICK n \in Nat : n = Len(b)
  OBVIOUS
<1>3. t \in Seq(Chars) /\ Len(t) = n + 1 /\ t[n + 1] = x /\ \A k \in 1..n : t[k] = b[k]
  BY <1>1, <1>2, TheLast
<1>4. PICK f : IsBlocks(f, b)
  BY BlocksIs
<1>5. PICK g : IsBlocks(g, t)
  BY <1>3, BlocksIs
<1>6. f[0] = Start /\ Blocks(b) = f[n] /\ \A k \in 1..n : f[k] = Cut(f[k - 1], b[k])
  BY <1>2, <1>4 DEF IsBlocks
<1>7. g[0] = Start /\ Blocks(t) = g[n + 1] /\ \A k \in 1..(n + 1) : g[k] = Cut(g[k - 1], t[k])
  BY <1>3, <1>5 DEF IsBlocks
<1>8. f[n] = g[n]
  <2>1. ASSUME NEW k \in 1..n, f[k - 1] = g[k - 1] PROVE f[k] = g[k]
    <3>1. k \in 1..(n + 1) /\ t[k] = b[k]
      BY <1>3
    <3> QED
      BY <1>6, <1>7, <2>1, <3>1
  <2>2. GoAlike(f, g, n)
    BY <1>6, <1>7, <2>1 DEF GoAlike
  <2> QED
    BY <2>2, Alike
<1>9. n + 1 \in 1..(n + 1) /\ (n + 1) - 1 = n
  OBVIOUS
<1>10. g[n + 1] = Cut(g[n], t[n + 1])
  BY <1>7, <1>9
<1> QED
  BY <1>1, <1>3, <1>6, <1>7, <1>8, <1>10

-----------------------------------------------------------------------------
(* The decoder, a character at a time. *)

Decode(text) == Blocks(Normal(text))

\* What is there before a CR at the end.
BeforeCR(s) == CHOOSE q : q \in Seq(Chars) /\ s = Append(q, "CR")
LEMMA TheBeforeCR == ASSUME NEW q \in Seq(Chars) PROVE BeforeCR(Append(q, "CR")) = q /\ EndsInCR(Append(q, "CR"))
<1>1. PICK c \in Chars : c = "CR"
  BY DEF Chars
<1>2. PICK s : s = Append(q, c)
  OBVIOUS
<1>3. ASSUME NEW p \in Seq(Chars), s = Append(p, c) PROVE p = q
  <2>1. Len(s) = Len(p) + 1 /\ Len(p) \in Nat /\ \A k \in 1..Len(p) : s[k] = p[k]
    BY <1>3, TheLast
  <2>2. Len(s) = Len(q) + 1 /\ Len(q) \in Nat /\ \A k \in 1..Len(q) : s[k] = q[k]
    BY <1>2, TheLast
  <2>3. Len(p) = Len(q)
    BY <2>1, <2>2
  <2>4. \A k \in 1..Len(q) : p[k] = q[k]
    BY <2>1, <2>2, <2>3
  <2> QED
    BY <2>3, <2>4
<1>4. BeforeCR(s) = q
  BY <1>1, <1>2, <1>3 DEF BeforeCR
<1>5. EndsInCR(s)
  <2>1. s \in Seq(Chars) /\ Len(s) = Len(q) + 1 /\ Len(q) \in Nat /\ s[Len(q) + 1] = c
    BY <1>2, TheLast
  <2>2. s # <<>>
    BY <2>1
  <2> QED
    BY <1>1, <2>1, <2>2 DEF EndsInCR
<1> QED
  BY <1>1, <1>2, <1>4, <1>5

After(r, x) ==
  IF ~EndsInCR(r.rest) THEN Cut(r, x)
  ELSE LET d == [events |-> r.events, rest |-> BeforeCR(r.rest)]
       IN  IF x = "LF" THEN Cut(d, "LF") ELSE Cut(Cut(d, "LF"), x)

LEMMA EndsOfAppend == ASSUME NEW q \in Seq(Chars), NEW x \in Chars PROVE EndsInCR(Append(q, x)) <=> x = "CR"
<1>1. PICK s : s = Append(q, x)
  OBVIOUS
<1>2. s \in Seq(Chars) /\ Len(s) = Len(q) + 1 /\ Len(q) \in Nat /\ s[Len(q) + 1] = x
  BY <1>1, TheLast
<1>3. s # <<>>
  BY <1>2
<1> QED
  BY <1>1, <1>2, <1>3 DEF EndsInCR

LEMMA DecodeTyped == ASSUME NEW t \in Seq(Chars) PROVE Decode(t) \in Decoded
BY NormalTyped, BlocksTyped DEF Decode

LEMMA NoCRInTheEnd == ~EndsInCR(<<>>)
BY DEF EndsInCR

\* A CR at the end is kept.
LEMMA CRWaits == ASSUME NEW t \in Seq(Chars) PROVE EndsInCR(Decode(t).rest) <=> EndsInCR(t)
<1>1. EndsInCR(Normal(t)) <=> EndsInCR(t)
  <2>1. CASE t = <<>>
    BY <2>1, NormalEmpty
  <2>2. CASE t # <<>>
    <3>1. PICK q \in Seq(Chars), x \in Chars : t = Append(q, x)
      BY <2>2, AllButTheLast
    <3>2. EndsInCR(t) <=> x = "CR"
      BY <3>1, EndsOfAppend
    <3>3. CASE ~EndsInCR(q)
      <4>1. Normal(t) = Append(Normal(q), x)
        BY <3>1, <3>3, NormalAppend
      <4> QED
        BY <3>2, <4>1, NormalTyped, EndsOfAppend
    <3>4. CASE EndsInCR(q)
      <4>1. PICK M \in Seq(Chars) : Normal(t) = IF x = "LF" THEN Append(M, "LF") ELSE Append(Append(M, "LF"), x)
        BY <3>1, <3>4, NormalAppend
      <4>2. PICK c \in Chars : c = "LF"
        BY DEF Chars
      <4>3. Append(M, c) \in Seq(Chars)
        BY TheLast
      <4>4. CASE x = "LF"
        <5>1. Normal(t) = Append(M, c)
          BY <4>1, <4>2, <4>4
        <5>2. EndsInCR(Normal(t)) <=> c = "CR"
          BY <5>1, EndsOfAppend
        <5> QED
          BY <3>2, <4>2, <4>4, <5>2
      <4>5. CASE x # "LF"
        <5>1. Normal(t) = Append(Append(M, c), x)
          BY <4>1, <4>2, <4>5
        <5>2. EndsInCR(Normal(t)) <=> x = "CR"
          BY <4>3, <5>1, EndsOfAppend
        <5> QED
          BY <3>2, <5>2
      <4> QED
        BY <4>4, <4>5
    <3> QED
      BY <3>3, <3>4
  <2> QED
    BY <2>1, <2>2
<1>2. PICK u \in Seq(Chars) : u = Normal(t)
  BY NormalTyped
<1>3. EndsInCR(Blocks(u).rest) <=> EndsInCR(u)
  <2>1. CASE u = <<>>
    BY <2>1, BlocksEmpty DEF Start
  <2>2. CASE u # <<>>
    <3>1. PICK q \in Seq(Chars), x \in Chars : u = Append(q, x)
      BY <2>2, AllButTheLast
    <3>2. EndsInCR(u) <=> x = "CR"
      BY <3>1, EndsOfAppend
    <3>3. PICK acc \in Decoded : acc = Blocks(q) /\ Blocks(u) = Cut(acc, x)
      BY <3>1, BlocksTyped, BlocksAppend
    <3>4. PICK r \in Seq(Chars) : r = acc.rest
      BY DEF Decoded
    <3>5. CASE EndsBlock(Append(r, x))
      <4>1. Len(Append(r, x)) = Len(r) + 1 /\ Append(r, x)[Len(r) + 1] = x
        BY TheLast
      <4>2. x = "LF"
        BY <3>5, <4>1 DEF EndsBlock
      <4>3. Blocks(u).rest = <<>>
        <5>1. Cut(acc, x) = [events |-> acc.events \o EventOf(Append(acc.rest, x)), rest |-> <<>>]
          BY <3>4, <3>5, CutIs
        <5>2. Cut(acc, x).rest = <<>>
          BY <5>1
        <5> QED
          BY <3>3, <5>2
      <4> QED
        BY <3>2, <4>2, <4>3, NoCRInTheEnd
    <3>6. CASE ~EndsBlock(Append(r, x))
      <4>1. Blocks(u).rest = Append(r, x)
        <5>1. Cut(acc, x) = [events |-> acc.events, rest |-> Append(acc.rest, x)]
          BY <3>4, <3>6, CutIs
        <5>2. Cut(acc, x).rest = Append(acc.rest, x)
          BY <5>1
        <5> QED
          BY <3>3, <3>4, <5>2
      <4> QED
        BY <3>2, <4>1, EndsOfAppend
    <3> QED
      BY <3>5, <3>6
  <2> QED
    BY <2>1, <2>2
<1> QED
  BY <1>1, <1>2, <1>3 DEF Decode

LEMMA DecodeEmpty == Decode(<<>>) = Start
BY NormalEmpty, BlocksEmpty DEF Decode

LEMMA DecodeAppend ==
  ASSUME NEW t \in Seq(Chars), NEW x \in Chars PROVE Decode(Append(t, x)) = After(Decode(t), x)
<1>1. CASE ~EndsInCR(t)
  <2>1. Normal(Append(t, x)) = Append(Normal(t), x)
    BY <1>1, NormalAppend
  <2>2. Blocks(Append(Normal(t), x)) = Cut(Blocks(Normal(t)), x)
    BY NormalTyped, BlocksAppend
  <2>3. ~EndsInCR(Decode(t).rest)
    BY <1>1, CRWaits
  <2> QED
    BY <2>1, <2>2, <2>3 DEF Decode, After
<1>2. CASE EndsInCR(t)
  <2>1. PICK M \in Seq(Chars) :
          /\ Normal(t) = Append(M, "CR")
          /\ Normal(Append(t, x)) = IF x = "LF" THEN Append(M, "LF") ELSE Append(Append(M, "LF"), x)
    BY <1>2, NormalAppend
  <2>2. PICK cr \in Chars : cr = "CR"
    BY DEF Chars
  <2>3. PICK lf \in Chars : lf = "LF"
    BY DEF Chars
  <2>4. PICK d \in Decoded : d = Blocks(M)
    BY BlocksTyped
  <2>5. PICK e \in Seq(Contents), r \in Seq(Chars) : d = [events |-> e, rest |-> r]
    BY DEF Decoded
  <2>6. Decode(t) = [events |-> e, rest |-> Append(r, cr)]
    <3>1. Decode(t) = Cut(d, cr)
      BY <2>1, <2>2, <2>4, BlocksAppend DEF Decode
    <3>2. ~EndsBlock(Append(r, cr))
      <4>1. Len(Append(r, cr)) = Len(r) + 1 /\ Append(r, cr)[Len(r) + 1] = cr
        BY TheLast
      <4>2. cr # "LF"
        BY <2>2
      <4> QED
        BY <4>1, <4>2 DEF EndsBlock
    <3>3. d.rest = r /\ d.events = e
      BY <2>5
    <3> QED
      BY <3>1, <3>2, <3>3, CutIs
  <2>7. EndsInCR(Decode(t).rest) /\ BeforeCR(Decode(t).rest) = r
    BY <2>2, <2>6, TheBeforeCR
  <2>8. d = [events |-> Decode(t).events, rest |-> BeforeCR(Decode(t).rest)]
    BY <2>5, <2>6, <2>7
  <2>9. PICK u \in Seq(Chars) : u = Append(M, lf)
    BY TheLast
  <2>10. Blocks(u) = Cut(d, lf)
    BY <2>4, <2>9, BlocksAppend
  <2>11. CASE x = "LF"
    <3>1. Decode(Append(t, x)) = Cut(d, "LF")
      BY <2>1, <2>3, <2>9, <2>10, <2>11 DEF Decode
    <3> QED
      BY <2>7, <2>8, <2>11, <3>1 DEF After
  <2>12. CASE x # "LF"
    <3>1. Normal(Append(t, x)) = Append(u, x)
      BY <2>1, <2>3, <2>9, <2>12
    <3>2. Blocks(Append(u, x)) = Cut(Blocks(u), x)
      BY BlocksAppend
    <3>3. Decode(Append(t, x)) = Cut(Cut(d, "LF"), x)
      BY <2>3, <2>10, <3>1, <3>2 DEF Decode
    <3> QED
      BY <2>7, <2>8, <2>12, <3>3 DEF After
  <2> QED
    BY <2>11, <2>12
<1> QED
  BY <1>1, <1>2

-----------------------------------------------------------------------------
(* What a decoder holds is decoded again with the next chunk. *)

\* No line end waits but a CR at the end, and no block is complete.
Settled(s) ==
  \A i \in 1..Len(s) : i < Len(s) => s[i] # "CR" /\ ~(s[i] = "LF" /\ s[i + 1] = "LF")

LEMMA SettledEmpty == Settled(<<>>)
<1>1. PICK s : s = <<>>
  OBVIOUS
<1>2. Len(s) = 0 /\ 1..0 = {}
  BY <1>1
<1> QED
  BY <1>1, <1>2 DEF Settled

LEMMA SettledAppend ==
  ASSUME NEW q \in Seq(Chars), NEW x \in Chars
  PROVE  Settled(Append(q, x)) <=> Settled(q) /\ ~EndsInCR(q) /\ ~EndsBlock(Append(q, x))
<1>1. PICK s : s = Append(q, x)
  OBVIOUS
<1>2. PICK n \in Nat : n = Len(q)
  OBVIOUS
<1>3. Len(s) = n + 1 /\ s[n + 1] = x /\ \A k \in 1..n : s[k] = q[k]
  BY <1>1, <1>2, TheLast
<1>4. EndsInCR(q) <=> n # 0 /\ q[n] = "CR"
  <2>1. q = <<>> <=> n = 0
    BY <1>2
  <2> QED
    BY <1>2, <2>1 DEF EndsInCR
<1>5. EndsBlock(s) <=> n # 0 /\ s[n + 1] = "LF" /\ s[n] = "LF"
  BY <1>3 DEF EndsBlock
<1>6. Settled(q) <=> \A i \in 1..n : i < n => q[i] # "CR" /\ ~(q[i] = "LF" /\ q[i + 1] = "LF")
  BY <1>2 DEF Settled
<1>7. Settled(s) <=> \A i \in 1..(n + 1) : i < n + 1 => s[i] # "CR" /\ ~(s[i] = "LF" /\ s[i + 1] = "LF")
  BY <1>3 DEF Settled
<1>8. ASSUME Settled(s) PROVE Settled(q) /\ ~EndsInCR(q) /\ ~EndsBlock(s)
  <2>1. Settled(q)
    <3>1. ASSUME NEW i \in 1..n, i < n PROVE q[i] # "CR" /\ ~(q[i] = "LF" /\ q[i + 1] = "LF")
      <4>1. i \in 1..(n + 1) /\ i < n + 1 /\ i + 1 \in 1..n
        BY <3>1
      <4> QED
        BY <1>3, <1>7, <1>8, <4>1
    <3> QED
      BY <1>6, <3>1
  <2>2. n # 0 => s[n] # "CR" /\ ~(s[n] = "LF" /\ s[n + 1] = "LF") /\ s[n] = q[n]
    <3>1. n # 0 => n \in 1..(n + 1) /\ n < n + 1 /\ n \in 1..n
      OBVIOUS
    <3> QED
      BY <1>3, <1>7, <1>8, <3>1
  <2> QED
    BY <1>4, <1>5, <2>1, <2>2
<1>9. ASSUME Settled(q), ~EndsInCR(q), ~EndsBlock(s) PROVE Settled(s)
  <2>1. ASSUME NEW i \in 1..(n + 1), i < n + 1 PROVE s[i] # "CR" /\ ~(s[i] = "LF" /\ s[i + 1] = "LF")
    <3>1. CASE i < n
      <4>1. i \in 1..n /\ i + 1 \in 1..n
        BY <3>1
      <4> QED
        BY <1>3, <1>6, <1>9, <3>1, <4>1
    <3>2. CASE i = n
      <4>1. n # 0 /\ n \in 1..n
        BY <3>2
      <4> QED
        BY <1>3, <1>4, <1>5, <1>9, <3>2, <4>1
    <3> QED
      BY <2>1, <3>1, <3>2
  <2> QED
    BY <1>7, <2>1
<1> QED
  BY <1>1, <1>8, <1>9

LEMMA SettledDecode == ASSUME NEW s \in Seq(Chars), Settled(s) PROVE Decode(s) = [events |-> <<>>, rest |-> s]
<1> DEFINE Holds(b) == Settled(b) => Decode(b) = [events |-> <<>>, rest |-> b]
           P == {b \in Seq(Chars) : Holds(b)}
<1>1. Holds(<<>>)
  BY DecodeEmpty DEF Start
<1>2. ASSUME NEW q \in Seq(Chars), NEW x \in Chars, Holds(q) PROVE Holds(Append(q, x))
  <2> SUFFICES ASSUME Settled(Append(q, x)) PROVE Decode(Append(q, x)) = [events |-> <<>>, rest |-> Append(q, x)]
    OBVIOUS
  <2>1. Settled(q) /\ ~EndsInCR(q) /\ ~EndsBlock(Append(q, x))
    BY SettledAppend
  <2>2. PICK r \in Decoded : r = [events |-> <<>>, rest |-> q]
    <3>1. <<>> \in Seq(Contents)
      OBVIOUS
    <3>2. [events |-> <<>>, rest |-> q] \in Decoded
      BY <3>1 DEF Decoded
    <3> QED
      BY <3>2
  <2>3. r.rest = q /\ r.events = <<>>
    BY <2>2
  <2>4. Decode(Append(q, x)) = Cut(r, x)
    BY <1>2, <2>1, <2>2, <2>3, DecodeAppend DEF After
  <2> QED
    BY <2>1, <2>3, <2>4, CutIs
<1> HIDE DEF Holds
<1>3. GoesOn(Chars, P)
  BY <1>1, <1>2 DEF GoesOn
<1> HIDE DEF P
<1>4. s \in P
  BY <1>3, OnAndOn
<1>5. Holds(s)
  BY <1>4 DEF P
<1> QED
  BY <1>5 DEF Holds

LEMMA CutSettled ==
  ASSUME NEW acc \in Decoded, NEW x \in Chars, Settled(acc.rest), ~EndsInCR(acc.rest)
  PROVE  Settled(Cut(acc, x).rest) /\ (x # "CR" => ~EndsInCR(Cut(acc, x).rest))
<1>1. PICK q \in Seq(Chars) : q = acc.rest
  BY DEF Decoded
<1>2. CASE EndsBlock(Append(q, x))
  <2>1. Cut(acc, x) = [events |-> acc.events \o EventOf(Append(acc.rest, x)), rest |-> <<>>]
    BY <1>1, <1>2, CutIs
  <2>2. Cut(acc, x).rest = <<>>
    BY <2>1
  <2> QED
    BY <2>2, SettledEmpty, NoCRInTheEnd
<1>3. CASE ~EndsBlock(Append(q, x))
  <2>1. Cut(acc, x) = [events |-> acc.events, rest |-> Append(acc.rest, x)]
    BY <1>1, <1>3, CutIs
  <2>2. Cut(acc, x).rest = Append(q, x)
    BY <1>1, <2>1
  <2>3. Settled(Append(q, x))
    BY <1>1, <1>3, SettledAppend
  <2>4. EndsInCR(Append(q, x)) <=> x = "CR"
    BY EndsOfAppend
  <2> QED
    BY <2>2, <2>3, <2>4
<1> QED
  BY <1>2, <1>3

\* What is decoded when the CR at the end turns out to be a line end.
LEMMA WithoutCR ==
  ASSUME NEW r \in Decoded, EndsInCR(r.rest)
  PROVE  /\ BeforeCR(r.rest) \in Seq(Chars) /\ r.rest = Append(BeforeCR(r.rest), "CR")
         /\ [events |-> r.events, rest |-> BeforeCR(r.rest)] \in Decoded
<1>1. PICK s \in Seq(Chars), e \in Seq(Contents) : s = r.rest /\ e = r.events
  BY DEF Decoded
<1>2. s # <<>> /\ s[Len(s)] = "CR"
  BY <1>1 DEF EndsInCR
<1>3. PICK q \in Seq(Chars), x \in Chars : s = Append(q, x) /\ x = s[Len(s)]
  BY <1>2, AllButTheLast
<1>4. s = Append(q, "CR") /\ BeforeCR(s) = q
  BY <1>2, <1>3, TheBeforeCR
<1> QED
  BY <1>1, <1>4 DEF Decoded

LEMMA AfterSettled ==
  ASSUME NEW r \in Decoded, NEW x \in Chars, Settled(r.rest)
  PROVE  After(r, x) \in Decoded /\ Settled(After(r, x).rest)
<1>1. CASE ~EndsInCR(r.rest)
  <2>1. After(r, x) = Cut(r, x)
    BY <1>1 DEF After
  <2> QED
    BY <1>1, <2>1, CutIs, CutSettled
<1>2. CASE EndsInCR(r.rest)
  <2>1. PICK lf \in Chars : lf = "LF"
    BY DEF Chars
  <2>2. PICK cr \in Chars : cr = "CR"
    BY DEF Chars
  <2>3. PICK q \in Seq(Chars) : q = BeforeCR(r.rest) /\ r.rest = Append(q, cr)
    BY <1>2, <2>2, WithoutCR
  <2>4. PICK d \in Decoded : d = [events |-> r.events, rest |-> BeforeCR(r.rest)]
    BY <1>2, WithoutCR
  <2>5. d.rest = q /\ Settled(q) /\ ~EndsInCR(q)
    BY <2>3, <2>4, SettledAppend
  <2>6. PICK c \in Decoded : c = Cut(d, lf)
    BY CutIs
  <2>7. Settled(c.rest) /\ ~EndsInCR(c.rest)
    BY <2>1, <2>5, <2>6, CutSettled
  <2>8. Cut(c, x) \in Decoded /\ Settled(Cut(c, x).rest)
    BY <2>7, CutIs, CutSettled
  <2>9. After(r, x) = IF x = "LF" THEN c ELSE Cut(c, x)
    BY <1>2, <2>1, <2>4, <2>6 DEF After
  <2> QED
    BY <2>7, <2>8, <2>9
<1> QED
  BY <1>1, <1>2

LEMMA RestSettled == ASSUME NEW t \in Seq(Chars) PROVE Settled(Decode(t).rest)
<1> DEFINE Holds(b) == Settled(Decode(b).rest)
           P == {b \in Seq(Chars) : Holds(b)}
<1>1. Holds(<<>>)
  BY DecodeEmpty, SettledEmpty DEF Start
<1>2. ASSUME NEW q \in Seq(Chars), NEW x \in Chars, Holds(q) PROVE Holds(Append(q, x))
  BY <1>2, DecodeTyped, DecodeAppend, AfterSettled
<1> HIDE DEF Holds
<1>3. GoesOn(Chars, P)
  BY <1>1, <1>2 DEF GoesOn
<1> HIDE DEF P
<1>4. t \in P
  BY <1>3, OnAndOn
<1>5. Holds(t)
  BY <1>4 DEF P
<1> QED
  BY <1>5 DEF Holds

Behindhand(e, r) == [events |-> e \o r.events, rest |-> r.rest]

LEMMA CutBehind ==
  ASSUME NEW e \in Seq(Contents), NEW acc \in Decoded, NEW x \in Chars
  PROVE  Cut(Behindhand(e, acc), x) = Behindhand(e, Cut(acc, x)) /\ Behindhand(e, acc) \in Decoded
<1>1. PICK v \in Seq(Contents), q \in Seq(Chars) : v = acc.events /\ q = acc.rest
  BY DEF Decoded
<1>2. PICK later \in Decoded : later = Behindhand(e, acc)
  <2>1. PICK w \in Seq(Contents) : w = e \o v
    BY Joined
  <2>2. [events |-> w, rest |-> q] \in Decoded
    BY DEF Decoded
  <2> QED
    BY <1>1, <2>1, <2>2 DEF Behindhand
<1>3. later.events = e \o v /\ later.rest = q
  BY <1>1, <1>2 DEF Behindhand
<1>4. PICK block \in Seq(Chars) : block = Append(q, x)
  BY TheLast
<1>5. CASE EndsBlock(block)
  <2>1. PICK n \in Seq(Contents) : n = EventOf(block)
    BY EventTyped
  <2>2. Cut(later, x) = [events |-> (e \o v) \o n, rest |-> <<>>]
    BY <1>3, <1>4, <1>5, <2>1, CutIs
  <2>3. Cut(acc, x) = [events |-> v \o n, rest |-> <<>>]
    BY <1>1, <1>4, <1>5, <2>1, CutIs
  <2>4. (e \o v) \o n = e \o (v \o n)
    OBVIOUS
  <2> QED
    BY <1>2, <2>2, <2>3, <2>4 DEF Behindhand
<1>6. CASE ~EndsBlock(block)
  <2>1. Cut(later, x) = [events |-> e \o v, rest |-> block]
    BY <1>3, <1>4, <1>6, CutIs
  <2>2. Cut(acc, x) = [events |-> v, rest |-> block]
    BY <1>1, <1>4, <1>6, CutIs
  <2> QED
    BY <1>2, <2>1, <2>2 DEF Behindhand
<1> QED
  BY <1>2, <1>5, <1>6

LEMMA AfterBehind ==
  ASSUME NEW e \in Seq(Contents), NEW r \in Decoded, NEW x \in Chars
  PROVE  After(Behindhand(e, r), x) = Behindhand(e, After(r, x))
<1>1. PICK later \in Decoded : later = Behindhand(e, r)
  BY CutBehind
<1>2. later.rest = r.rest /\ later.events = e \o r.events
  BY <1>1 DEF Behindhand
<1>3. CASE ~EndsInCR(r.rest)
  BY <1>1, <1>2, <1>3, CutBehind DEF After
<1>4. CASE EndsInCR(r.rest)
  <2>1. PICK lf \in Chars : lf = "LF"
    BY DEF Chars
  <2>2. PICK d \in Decoded : d = [events |-> r.events, rest |-> BeforeCR(r.rest)]
    BY <1>4, WithoutCR
  <2>3. [events |-> later.events, rest |-> BeforeCR(later.rest)] = Behindhand(e, d)
    BY <1>2, <2>2 DEF Behindhand
  <2>4. PICK c \in Decoded : c = Cut(d, lf)
    BY CutIs
  <2>5. Cut(Behindhand(e, d), lf) = Behindhand(e, c)
    BY <2>4, CutBehind
  <2>6. Cut(Behindhand(e, c), x) = Behindhand(e, Cut(c, x))
    BY CutBehind
  <2>7. After(later, x) = IF x = "LF" THEN Behindhand(e, c) ELSE Behindhand(e, Cut(c, x))
    BY <1>2, <1>4, <2>1, <2>3, <2>5, <2>6 DEF After
  <2>8. After(r, x) = IF x = "LF" THEN c ELSE Cut(c, x)
    BY <1>4, <2>1, <2>2, <2>4 DEF After
  <2> QED
    BY <1>1, <2>7, <2>8
<1> QED
  BY <1>3, <1>4

\* It makes no difference where the characters are cut.
LEMMA CutAnywhere ==
  ASSUME NEW t \in Seq(Chars), NEW c \in Seq(Chars)
  PROVE  Decode(t \o c) = Behindhand(Decode(t).events, Decode(Decode(t).rest \o c))
<1>1. PICK e \in Seq(Contents), q \in Seq(Chars) : Decode(t) = [events |-> e, rest |-> q]
  BY DecodeTyped DEF Decoded
<1>2. Settled(q)
  BY <1>1, RestSettled
<1> DEFINE Holds(b) == Decode(t \o b) = Behindhand(e, Decode(q \o b))
           P == {b \in Seq(Chars) : Holds(b)}
<1>3. Holds(<<>>)
  <2>1. t \o <<>> = t /\ q \o <<>> = q /\ e \o <<>> = e
    OBVIOUS
  <2>2. Decode(q) = [events |-> <<>>, rest |-> q]
    BY <1>2, SettledDecode
  <2> QED
    BY <1>1, <2>1, <2>2 DEF Behindhand
<1>4. ASSUME NEW b \in Seq(Chars), NEW x \in Chars, Holds(b) PROVE Holds(Append(b, x))
  <2>1. Append(t \o b, x) = t \o Append(b, x) /\ Append(q \o b, x) = q \o Append(b, x)
    <3>1. Behind(t, b, x) /\ Behind(q, b, x)
      BY AppendBehind
    <3> QED
      BY <3>1 DEF Behind
  <2>2. PICK u \in Seq(Chars) : u = t \o b
    BY Joined
  <2>3. PICK v \in Seq(Chars) : v = q \o b
    BY Joined
  <2>4. PICK r \in Decoded : r = Decode(v)
    BY DecodeTyped
  <2>5. Decode(Append(u, x)) = After(Behindhand(e, r), x)
    BY <1>4, <2>2, <2>3, <2>4, DecodeAppend
  <2>6. Decode(Append(v, x)) = After(r, x)
    BY <2>4, DecodeAppend
  <2> QED
    BY <2>1, <2>2, <2>3, <2>5, <2>6, AfterBehind
<1> HIDE DEF Holds
<1>5. GoesOn(Chars, P)
  BY <1>3, <1>4 DEF GoesOn
<1> HIDE DEF P
<1>6. c \in P
  BY <1>5, OnAndOn
<1>7. Holds(c)
  BY <1>6 DEF P
<1> QED
  BY <1>1, <1>7 DEF Holds

-----------------------------------------------------------------------------
(* One event more. *)

\* The characters that are read and what the decoder makes of them.
Reads(t, e, r) == t \in Seq(Chars) /\ e \in Seq(Contents) /\ r \in Seq(Chars) /\ Decode(t) = [events |-> e, rest |-> r]

\* A character that ends no block and comes behind no CR.
LEMMA ReadsOn ==
  ASSUME NEW t, NEW e, NEW r, NEW x \in Chars, Reads(t, e, r), ~EndsInCR(r), ~EndsBlock(Append(r, x))
  PROVE  Reads(Append(t, x), e, Append(r, x))
<1>1. t \in Seq(Chars) /\ e \in Seq(Contents) /\ r \in Seq(Chars)
  BY DEF Reads
<1>2. PICK d \in Decoded : d = [events |-> e, rest |-> r]
  BY <1>1 DEF Decoded
<1>3. d.events = e /\ d.rest = r /\ Decode(t) = d
  BY <1>2 DEF Reads
<1>4. Decode(Append(t, x)) = Cut(d, x)
  BY <1>1, <1>3, DecodeAppend DEF After
<1>5. Cut(d, x) = [events |-> e, rest |-> Append(r, x)]
  BY <1>3, CutIs
<1>6. Append(t, x) \in Seq(Chars) /\ Append(r, x) \in Seq(Chars)
  BY <1>1, TheLast
<1> QED
  BY <1>1, <1>4, <1>5, <1>6 DEF Reads

\* One that ends it.
LEMMA ReadsEnd ==
  ASSUME NEW t, NEW e, NEW r, NEW x \in Chars, Reads(t, e, r), ~EndsInCR(r), EndsBlock(Append(r, x))
  PROVE  Reads(Append(t, x), e \o EventOf(Append(r, x)), <<>>)
<1>1. t \in Seq(Chars) /\ e \in Seq(Contents) /\ r \in Seq(Chars)
  BY DEF Reads
<1>2. PICK d \in Decoded : d = [events |-> e, rest |-> r]
  BY <1>1 DEF Decoded
<1>3. d.events = e /\ d.rest = r /\ Decode(t) = d
  BY <1>2 DEF Reads
<1>4. Decode(Append(t, x)) = Cut(d, x)
  BY <1>1, <1>3, DecodeAppend DEF After
<1>5. Cut(d, x) = [events |-> e \o EventOf(Append(r, x)), rest |-> <<>>]
  BY <1>3, CutIs
<1>6. PICK block \in Seq(Chars) : block = Append(r, x)
  BY <1>1, TheLast
<1>7. e \o EventOf(block) \in Seq(Contents)
  BY <1>1, EventTyped, Joined
<1>8. Append(t, x) \in Seq(Chars) /\ <<>> \in Seq(Chars)
  BY <1>1, TheLast
<1> QED
  BY <1>4, <1>5, <1>6, <1>7, <1>8 DEF Reads

\* A CR that waits is read as the line end it is: with the LF behind it, or alone.
LEMMA ReadsCR ==
  ASSUME NEW t, NEW e, NEW r, Reads(t, e, Append(r, "CR")),
         NEW u, Reads(u, e, r), ~EndsInCR(r), NEW lf \in Chars, lf = "LF", NEW x \in Chars
  PROVE  Decode(Append(t, x)) = IF x = "LF" THEN Decode(Append(u, lf)) ELSE Decode(Append(Append(u, lf), x))
<1>1. t \in Seq(Chars) /\ u \in Seq(Chars) /\ e \in Seq(Contents) /\ r \in Seq(Chars)
  BY DEF Reads
<1>2. PICK d \in Decoded : d = [events |-> e, rest |-> r]
  BY <1>1 DEF Decoded
<1>3. d.rest = r /\ Decode(u) = d
  BY <1>2 DEF Reads
<1>4. Decode(Append(u, lf)) = Cut(d, lf)
  BY <1>1, <1>3, DecodeAppend DEF After
<1>5. PICK v \in Seq(Chars) : v = Append(u, lf)
  BY <1>1, TheLast
<1>6. ~EndsInCR(Decode(v).rest)
  <2>1. EndsInCR(v) <=> lf = "CR"
    BY <1>1, <1>5, EndsOfAppend
  <2>2. EndsInCR(Decode(v).rest) <=> EndsInCR(v)
    BY CRWaits
  <2> QED
    BY <2>1, <2>2
<1>7. Decode(Append(v, x)) = Cut(Decode(v), x)
  BY <1>6, DecodeAppend DEF After
<1>8. Decode(t).rest = Append(r, "CR") /\ Decode(t).events = e
  BY DEF Reads
<1>9. EndsInCR(Decode(t).rest) /\ BeforeCR(Decode(t).rest) = r
  BY <1>1, <1>8, TheBeforeCR
<1>10. After(Decode(t), x) = IF x = "LF" THEN Cut(d, lf) ELSE Cut(Cut(d, lf), x)
  BY <1>2, <1>8, <1>9 DEF After
<1>11. Decode(Append(t, x)) = After(Decode(t), x)
  BY <1>1, DecodeAppend
<1> QED
  BY <1>4, <1>5, <1>7, <1>10, <1>11

LEMMA BlockEnds ==
  ASSUME NEW q \in Seq(Chars), NEW y \in Chars, NEW x \in Chars
  PROVE  EndsBlock(Append(Append(q, y), x)) <=> x = "LF" /\ y = "LF"
<1>1. PICK p \in Seq(Chars) : p = Append(q, y)
  BY TheLast
<1>2. PICK b \in Seq(Chars) : b = Append(p, x)
  BY TheLast
<1>3. PICK n \in Nat : n = Len(q) /\ Len(p) = n + 1 /\ p[n + 1] = y
  BY <1>1, TheLast
<1>4. Len(b) = (n + 1) + 1 /\ b[(n + 1) + 1] = x /\ b[n + 1] = y
  <2>1. n + 1 \in 1..(n + 1)
    OBVIOUS
  <2> QED
    BY <1>2, <1>3, <2>1, TheLast
<1>5. Len(b) - 1 = n + 1 /\ Len(b) > 1
  BY <1>4
<1> QED
  BY <1>1, <1>2, <1>4, <1>5 DEF EndsBlock

LEMMA Within ==
  ASSUME NEW q \in Seq(Chars), NEW x \in Chars, NEW v, v \in Range(q) \/ v = x PROVE v \in Range(Append(q, x))
<1>1. PICK b \in Seq(Chars) : b = Append(q, x)
  BY TheLast
<1>2. PICK n \in Nat : n = Len(q)
  OBVIOUS
<1>3. Len(b) = n + 1 /\ b[n + 1] = x /\ \A k \in 1..n : b[k] = q[k]
  BY <1>1, <1>2, TheLast
<1>4. DOMAIN b = 1..(n + 1) /\ DOMAIN q = 1..n
  BY <1>2, <1>3
<1>5. \E k \in DOMAIN b : b[k] = v
  <2>1. CASE v = x
    BY <1>3, <1>4, <2>1
  <2>2. CASE v # x
    <3>1. PICK k \in 1..n : q[k] = v
      BY <1>4, <2>2 DEF Range
    <3> QED
      BY <1>3, <1>4, <3>1
  <2> QED
    BY <2>1, <2>2
<1> QED
  BY <1>1, <1>5 DEF Range

LEMMA Letters ==
  /\ "event" \in Chars /\ "LF" \in Chars /\ "CR" \in Chars
  /\ "event" # "LF" /\ "event" # "CR" /\ "LF" # "CR"
  /\ \A m \in Contents : m \in Chars /\ m # "event" /\ m # "LF" /\ m # "CR"
BY MessageStreamAssumption DEF Chars, Contents, Hello

LEMMA OnlyContents ==
  ASSUME NEW q \in Seq(Chars), NEW x \in Chars
  PROVE  /\ x \in Contents => Only(Append(q, x), Contents) = Append(Only(q, Contents), x)
         /\ x \notin Contents => Only(Append(q, x), Contents) = Only(q, Contents)
<1>1. PICK S : S = Contents
  OBVIOUS
<1>2. Only(Append(q, x), S) = IF x \in S THEN Append(Only(q, S), x) ELSE Only(q, S)
  BY OnlyAppend
<1> QED
  BY <1>1, <1>2

\* The characters of an event, and what holds of each of its beginnings.
Grows(ev, lf, m, b0, b1, b2, b3, b4) ==
  /\ ev = "event" /\ lf = "LF" /\ {ev, lf, m} \subseteq Chars /\ m \in Contents
  /\ b0 = Append(<<>>, ev) /\ b1 = Append(b0, lf) /\ b2 = Append(b1, m) /\ b3 = Append(b2, lf) /\ b4 = Append(b3, lf)
IsAnEvent(m, b0, b1, b2, b3, b4) ==
  /\ {<<>>, b0, b1, b2, b3, b4} \subseteq Seq(Chars)
  /\ ~EndsInCR(b0) /\ ~EndsInCR(b1) /\ ~EndsInCR(b2) /\ ~EndsInCR(b3)
  /\ ~EndsBlock(b0) /\ ~EndsBlock(b1) /\ ~EndsBlock(b2) /\ ~EndsBlock(b3) /\ EndsBlock(b4)
  /\ EventOf(b4) = Append(<<>>, m)

LEMMA TheEvent ==
  ASSUME NEW ev, NEW lf, NEW m, NEW b0, NEW b1, NEW b2, NEW b3, NEW b4, Grows(ev, lf, m, b0, b1, b2, b3, b4)
  PROVE  IsAnEvent(m, b0, b1, b2, b3, b4)
<1>a. /\ ev = "event" /\ lf = "LF" /\ ev \in Chars /\ lf \in Chars /\ m \in Contents
      /\ b0 = Append(<<>>, ev) /\ b1 = Append(b0, lf) /\ b2 = Append(b1, m) /\ b3 = Append(b2, lf) /\ b4 = Append(b3, lf)
  BY DEF Grows
<1>0. m \in Chars /\ m # "event" /\ m # "LF" /\ m # "CR" /\ ev # "CR" /\ ev # "LF" /\ lf # "CR" /\ lf # "event"
  BY <1>a, Letters
<1>1. <<>> \in Seq(Chars)
  OBVIOUS
<1>2. b0 \in Seq(Chars) /\ b1 \in Seq(Chars) /\ b2 \in Seq(Chars) /\ b3 \in Seq(Chars) /\ b4 \in Seq(Chars)
  <2>1. b0 \in Seq(Chars)
    BY <1>a, <1>1, TheLast
  <2>2. b1 \in Seq(Chars)
    BY <1>a, <2>1, TheLast
  <2>3. b2 \in Seq(Chars)
    BY <1>a, <1>0, <2>2, TheLast
  <2>4. b3 \in Seq(Chars)
    BY <1>a, <2>3, TheLast
  <2>5. b4 \in Seq(Chars)
    BY <1>a, <2>4, TheLast
  <2> QED
    BY <1>a, <2>1, <2>2, <2>3, <2>4, <2>5
<1>3. ~EndsInCR(b0) /\ ~EndsInCR(b1) /\ ~EndsInCR(b2) /\ ~EndsInCR(b3)
  BY <1>a, <1>0, <1>1, <1>2, EndsOfAppend
<1>4. ~EndsBlock(b0)
  <2>1. Len(b0) = 1
    BY <1>a, <1>1, TheLast
  <2> QED
    BY <1>a, <2>1 DEF EndsBlock
<1>5. ~EndsBlock(b1) /\ ~EndsBlock(b2) /\ ~EndsBlock(b3) /\ EndsBlock(b4)
  <2>1. ~EndsBlock(b1)
    BY <1>a, <1>0, <1>1, BlockEnds
  <2>2. ~EndsBlock(b2)
    BY <1>a, <1>0, <1>2, BlockEnds
  <2>3. ~EndsBlock(b3)
    BY <1>a, <1>0, <1>2, BlockEnds
  <2>4. EndsBlock(b4)
    BY <1>a, <1>2, BlockEnds
  <2> QED
    BY <1>a, <2>1, <2>2, <2>3, <2>4
<1>6. "event" \in Range(b4)
  <2>1. ev \in Range(b0)
    BY <1>a, <1>1, Within
  <2>2. ev \in Range(b1)
    BY <1>a, <1>2, <2>1, Within
  <2>3. ev \in Range(b2)
    BY <1>a, <1>0, <1>2, <2>2, Within
  <2>4. ev \in Range(b3)
    BY <1>a, <1>2, <2>3, Within
  <2> QED
    BY <1>a, <1>2, <2>4, Within
<1>7. Only(b4, Contents) = Append(<<>>, m)
  <2>0. lf \notin Contents /\ ev \notin Contents
    BY <1>a, Letters
  <2>1. Only(b0, Contents) = <<>>
    BY <1>a, <1>1, <2>0, OnlyContents, OnlyEmpty
  <2>2. Only(b1, Contents) = <<>>
    BY <1>a, <1>2, <2>0, <2>1, OnlyContents
  <2>3. Only(b2, Contents) = Append(<<>>, m)
    <3>1. Only(b2, Contents) = Append(Only(b1, Contents), m)
      BY <1>a, <1>0, <1>2, OnlyContents
    <3> QED
      BY <1>a, <2>2, <3>1
  <2>4. Only(b3, Contents) = Append(<<>>, m)
    BY <1>a, <1>2, <2>0, <2>3, OnlyContents
  <2> QED
    BY <1>a, <1>2, <2>0, <2>4, OnlyContents
<1>8. EventOf(b4) = Append(<<>>, m)
  BY <1>a, <1>6, <1>7 DEF EventOf
<1> QED
  BY <1>a, <1>1, <1>2, <1>3, <1>4, <1>5, <1>8 DEF IsAnEvent

\* The characters of an event, one after the other.
LEMMA OneMore == ASSUME NEW u \in Seq(Chars), NEW x \in Chars PROVE u \o <<x>> = Append(u, x)
OBVIOUS
LEMMA Two == ASSUME NEW x \in Chars, NEW y \in Chars PROVE Append(<<x>>, y) = <<x, y>>
<1>1. <<x>> \in Seq(Chars) /\ Len(<<x>>) = 1 /\ <<x>>[1] = x
  OBVIOUS
<1>2. PICK s \in Seq(Chars) : s = Append(<<x>>, y)
  BY <1>1, TheLast
<1>3. Len(s) = 2 /\ s[2] = y /\ s[1] = x
  BY <1>1, <1>2, TheLast
<1>4. PICK t \in Seq(Chars) : t = <<x, y>> /\ Len(t) = 2 /\ t[1] = x /\ t[2] = y
  <2>1. <<x, y>> \in Seq(Chars) /\ Len(<<x, y>>) = 2 /\ <<x, y>>[1] = x /\ <<x, y>>[2] = y
    OBVIOUS
  <2> QED
    BY <2>1
<1>5. \A k \in 1..2 : s[k] = t[k]
  <2>1. \A k \in 1..2 : k = 1 \/ k = 2
    OBVIOUS
  <2> QED
    BY <1>3, <1>4, <2>1
<1>6. s = t
  BY <1>3, <1>4, <1>5
<1> QED
  BY <1>2, <1>4, <1>6
LEMMA TwoMore == ASSUME NEW u \in Seq(Chars), NEW x \in Chars, NEW y \in Chars PROVE u \o <<x, y>> = Append(Append(u, x), y)
<1>1. PICK v \in Seq(Chars) : v = <<x>>
  <2>1. <<x>> \in Seq(Chars)
    OBVIOUS
  <2> QED
    BY <2>1
<1>2. Append(v, y) = <<x, y>>
  <2>1. Append(<<x>>, y) = <<x, y>>
    BY Two
  <2> QED
    BY <1>1, <2>1
<1>3. Behind(u, v, y)
  BY AppendBehind
<1>4. u \o v = Append(u, x)
  BY <1>1, OneMore
<1> QED
  BY <1>2, <1>3, <1>4 DEF Behind

Assoc(s, t, u) == (s \o t) \o u = s \o (t \o u)
LEMMA Associative == ASSUME NEW s \in Seq(Chars), NEW t \in Seq(Chars), NEW u \in Seq(Chars) PROVE Assoc(s, t, u)
BY DEF Assoc

LineEnd(t, end, cr, lf) ==
  IF end = <<"LF">> THEN Append(t, lf) ELSE IF end = <<"CR">> THEN Append(t, cr) ELSE Append(Append(t, cr), lf)

LEMMA LineEndIs ==
  ASSUME NEW u \in Seq(Chars), NEW end \in LineEnds, NEW cr \in Chars, cr = "CR", NEW lf \in Chars, lf = "LF"
  PROVE  u \o end = LineEnd(u, end, cr, lf) /\ u \o end \in Seq(Chars) /\ end \in Seq(Chars)
<1>1. CASE end = <<"LF">>
  <2>1. u \o <<lf>> = Append(u, lf) /\ Append(u, lf) \in Seq(Chars)
    BY OneMore, TheLast
  <2>2. <<lf>> \in Seq(Chars)
    OBVIOUS
  <2> QED
    BY <1>1, <2>1, <2>2 DEF LineEnd
<1>2. CASE end = <<"CR">>
  <2>1. u \o <<cr>> = Append(u, cr) /\ Append(u, cr) \in Seq(Chars)
    BY OneMore, TheLast
  <2>2. <<cr>> \in Seq(Chars) /\ <<"CR">> # <<"LF">>
    OBVIOUS
  <2> QED
    BY <1>2, <2>1, <2>2 DEF LineEnd
<1>3. CASE end = <<"CR", "LF">>
  <2>1. u \o <<cr, lf>> = Append(Append(u, cr), lf)
    BY TwoMore
  <2>2. <<cr, lf>> \in Seq(Chars) /\ <<"CR", "LF">> # <<"LF">> /\ <<"CR", "LF">> # <<"CR">>
    OBVIOUS
  <2>3. Append(u, cr) \in Seq(Chars)
    BY TheLast
  <2>4. Append(Append(u, cr), lf) \in Seq(Chars)
    BY <2>3, TheLast
  <2> QED
    BY <1>3, <2>1, <2>2, <2>4 DEF LineEnd
<1> QED
  BY <1>1, <1>2, <1>3 DEF LineEnds

\* The characters of an event behind others.
InPieces(u, end, m, ev, cr, lf) ==
  /\ u \in Seq(Chars) /\ end \in LineEnds /\ {m, ev, cr, lf} \subseteq Chars
  /\ ev = "event" /\ cr = "CR" /\ lf = "LF"
Whole(u, end, m, ev, cr, lf) ==
  LineEnd(LineEnd(Append(LineEnd(Append(u, ev), end, cr, lf), m), end, cr, lf), end, cr, lf)
LEMMA EventIs ==
  ASSUME NEW u, NEW end, NEW m, NEW ev, NEW cr, NEW lf, InPieces(u, end, m, ev, cr, lf)
  PROVE  u \o EventChars(m, end) = Whole(u, end, m, ev, cr, lf) /\ EventChars(m, end) \in Seq(Chars)
<1>0. /\ u \in Seq(Chars) /\ end \in LineEnds /\ m \in Chars /\ ev \in Chars /\ cr \in Chars /\ lf \in Chars
      /\ ev = "event" /\ cr = "CR" /\ lf = "LF"
  BY DEF InPieces
<1>1. PICK a \in Seq(Chars) : a = <<ev>>
  <2>1. <<ev>> \in Seq(Chars)
    BY <1>0
  <2> QED
    BY <1>0, <2>1
<1>2. PICK c \in Seq(Chars) : c = <<m>>
  <2>1. <<m>> \in Seq(Chars)
    BY <1>0
  <2> QED
    BY <1>0, <2>1
<1>3. end \in Seq(Chars)
  BY <1>0, LineEndIs
<1>4. EventChars(m, end) = (((a \o end) \o c) \o end) \o end
  BY <1>0, <1>1, <1>2 DEF EventChars
<1>5. PICK w \in Seq(Chars) : w = u \o a
  BY <1>0, Joined
<1>6. PICK w1 \in Seq(Chars) : w1 = w \o end
  BY <1>0, <1>3, Joined
<1>7. PICK w2 \in Seq(Chars) : w2 = w1 \o c
  BY <1>0, Joined
<1>8. PICK w3 \in Seq(Chars) : w3 = w2 \o end
  BY <1>0, <1>3, Joined
<1>9. PICK e1 \in Seq(Chars) : e1 = a \o end
  BY <1>0, <1>3, Joined
<1>10. PICK e2 \in Seq(Chars) : e2 = e1 \o c
  BY <1>0, Joined
<1>11. PICK e3 \in Seq(Chars) : e3 = e2 \o end
  BY <1>0, <1>3, Joined
<1>12. EventChars(m, end) = e3 \o end
  BY <1>0, <1>4, <1>9, <1>10, <1>11
<1>13. u \o e1 = w1
  <2>1. Assoc(u, a, end)
    BY <1>0, <1>3, Associative
  <2> QED
    BY <1>0, <1>5, <1>6, <1>9, <2>1 DEF Assoc
<1>14. u \o e2 = w2
  <2>1. Assoc(u, e1, c)
    BY <1>0, <1>3, Associative
  <2> QED
    BY <1>0, <1>7, <1>10, <1>13, <2>1 DEF Assoc
<1>15. u \o e3 = w3
  <2>1. Assoc(u, e2, end)
    BY <1>0, <1>3, Associative
  <2> QED
    BY <1>0, <1>8, <1>11, <1>14, <2>1 DEF Assoc
<1>16. u \o (e3 \o end) = w3 \o end
  <2>1. Assoc(u, e3, end)
    BY <1>0, <1>3, Associative
  <2> QED
    BY <1>0, <1>15, <2>1 DEF Assoc
<1>17. w = Append(u, ev)
  BY <1>0, <1>1, <1>5, OneMore
<1>18. w1 = LineEnd(w, end, cr, lf)
  BY <1>0, <1>6, LineEndIs
<1>19. w2 = Append(w1, m)
  <2>1. w1 \o <<m>> = Append(w1, m)
    BY <1>0, OneMore
  <2> QED
    BY <1>0, <1>2, <1>7, <2>1
<1>20. w3 = LineEnd(w2, end, cr, lf)
  <2>1. w2 \o end = LineEnd(w2, end, cr, lf)
    BY <1>0, LineEndIs
  <2> QED
    BY <1>0, <1>8, <2>1
<1>21. w3 \o end = LineEnd(w3, end, cr, lf)
  BY <1>0, LineEndIs
<1>22. EventChars(m, end) \in Seq(Chars)
  BY <1>0, <1>3, <1>12, Joined
<1> QED
  BY <1>0, <1>12, <1>16, <1>17, <1>18, <1>19, <1>20, <1>21, <1>22 DEF Whole

-----------------------------------------------------------------------------
(* An event behind what was read: all line ends are read alike. *)

LEMMA LineEndTyped ==
  ASSUME NEW u \in Seq(Chars), NEW end \in LineEnds, NEW cr \in Chars, NEW lf \in Chars
  PROVE  LineEnd(u, end, cr, lf) \in Seq(Chars)
<1>1. Append(u, lf) \in Seq(Chars) /\ Append(u, cr) \in Seq(Chars)
  BY TheLast
<1>2. Append(Append(u, cr), lf) \in Seq(Chars)
  BY <1>1, TheLast
<1> QED
  BY <1>1, <1>2 DEF LineEnd

\* What is read alike is read alike with one character more.
LEMMA SameOn ==
  ASSUME NEW t \in Seq(Chars), NEW u \in Seq(Chars), Decode(t) = Decode(u), NEW x \in Chars
  PROVE  Decode(Append(t, x)) = Decode(Append(u, x))
<1>1. Decode(Append(t, x)) = After(Decode(t), x)
  BY DecodeAppend
<1>2. Decode(Append(u, x)) = After(Decode(u), x)
  BY DecodeAppend
<1> QED
  BY <1>1, <1>2

\* A CR where no CR waits: it waits.
LEMMA WithCR ==
  ASSUME NEW u, NEW e, NEW r, Reads(u, e, r), ~EndsInCR(r), NEW cr \in Chars, cr = "CR"
  PROVE  Reads(Append(u, cr), e, Append(r, "CR"))
<1>1. r \in Seq(Chars)
  BY DEF Reads
<1>2. ~EndsBlock(Append(r, cr))
  <2>1. PICK b \in Seq(Chars) : b = Append(r, cr)
    BY <1>1, TheLast
  <2>2. PICK n \in Nat : n = Len(r)
    BY <1>1
  <2>3. Len(b) = n + 1 /\ b[n + 1] = cr
    BY <1>1, <2>1, <2>2, TheLast
  <2>4. b[Len(b)] # "LF"
    BY <2>3, Letters
  <2> QED
    BY <2>1, <2>4 DEF EndsBlock
<1>3. Reads(Append(u, cr), e, Append(r, cr))
  BY <1>2, ReadsOn
<1> QED
  BY <1>3

\* A line end and what comes behind it.
LEMMA LineEndThen ==
  ASSUME NEW u, NEW e, NEW r, Reads(u, e, r), ~EndsInCR(r), NEW end \in LineEnds,
         NEW cr \in Chars, cr = "CR", NEW lf \in Chars, lf = "LF", NEW x \in Chars, x # "LF"
  PROVE  Decode(Append(LineEnd(u, end, cr, lf), x)) = Decode(Append(Append(u, lf), x))
<1>1. u \in Seq(Chars)
  BY DEF Reads
<1>2. PICK v \in Seq(Chars) : v = Append(u, lf)
  BY <1>1, TheLast
<1>3. PICK w \in Seq(Chars) : w = Append(u, cr)
  BY <1>1, TheLast
<1>4. Reads(w, e, Append(r, "CR"))
  BY <1>3, WithCR
<1>5. CASE end = <<"LF">>
  BY <1>5 DEF LineEnd
<1>6. CASE end = <<"CR">>
  <2>1. end # <<"LF">>
    BY <1>6
  <2>2. LineEnd(u, end, cr, lf) = w
    BY <1>3, <1>6, <2>1 DEF LineEnd
  <2>3. Decode(Append(w, x)) = Decode(Append(Append(u, lf), x))
    BY <1>4, ReadsCR
  <2> QED
    BY <2>2, <2>3
<1>7. CASE end = <<"CR", "LF">>
  <2>1. end # <<"LF">> /\ end # <<"CR">>
    BY <1>7
  <2>2. LineEnd(u, end, cr, lf) = Append(w, lf)
    BY <1>3, <2>1 DEF LineEnd
  <2>3. Decode(Append(w, lf)) = Decode(Append(u, lf))
    BY <1>4, ReadsCR
  <2>4. PICK y \in Seq(Chars) : y = Append(w, lf)
    BY TheLast
  <2>5. Decode(y) = Decode(v)
    BY <1>2, <2>3, <2>4
  <2>6. Decode(Append(y, x)) = Decode(Append(v, x))
    BY <2>5, SameOn
  <2> QED
    BY <1>2, <2>2, <2>4, <2>6
<1> QED
  BY <1>5, <1>6, <1>7 DEF LineEnds

\* Two of them: the first is as good as an LF.
LEMMA TwoLineEnds ==
  ASSUME NEW u, NEW e, NEW r, Reads(u, e, r), ~EndsInCR(r), NEW end \in LineEnds,
         NEW cr \in Chars, cr = "CR", NEW lf \in Chars, lf = "LF"
  PROVE  Decode(LineEnd(LineEnd(u, end, cr, lf), end, cr, lf)) = Decode(LineEnd(Append(u, lf), end, cr, lf))
<1>1. u \in Seq(Chars)
  BY DEF Reads
<1>2. PICK v \in Seq(Chars) : v = Append(u, lf)
  BY <1>1, TheLast
<1>3. PICK w \in Seq(Chars) : w = Append(u, cr)
  BY <1>1, TheLast
<1>4. Reads(w, e, Append(r, "CR"))
  BY <1>3, WithCR
<1>5. CASE end = <<"LF">>
  BY <1>5 DEF LineEnd
<1>6. CASE end = <<"CR">>
  <2>1. end # <<"LF">>
    BY <1>6
  <2>2. LineEnd(u, end, cr, lf) = w /\ LineEnd(w, end, cr, lf) = Append(w, cr) /\ LineEnd(v, end, cr, lf) = Append(v, cr)
    BY <1>3, <1>6, <2>1 DEF LineEnd
  <2>3. cr # "LF"
    BY Letters
  <2>4. Decode(Append(w, cr)) = Decode(Append(Append(u, lf), cr))
    BY <1>4, <2>3, ReadsCR
  <2> QED
    BY <1>2, <2>2, <2>4
<1>7. CASE end = <<"CR", "LF">>
  <2>1. end # <<"LF">> /\ end # <<"CR">>
    BY <1>7
  <2>2. PICK y \in Seq(Chars) : y = Append(w, lf)
    BY TheLast
  <2>3. LineEnd(u, end, cr, lf) = y
    BY <1>3, <2>1, <2>2 DEF LineEnd
  <2>4. Decode(y) = Decode(v)
    <3>1. Decode(Append(w, lf)) = Decode(Append(u, lf))
      BY <1>4, ReadsCR
    <3> QED
      BY <1>2, <2>2, <3>1
  <2>5. PICK y1 \in Seq(Chars) : y1 = Append(y, cr)
    BY TheLast
  <2>6. PICK v1 \in Seq(Chars) : v1 = Append(v, cr)
    BY TheLast
  <2>7. Decode(y1) = Decode(v1)
    BY <2>4, <2>5, <2>6, SameOn
  <2>8. Decode(Append(y1, lf)) = Decode(Append(v1, lf))
    BY <2>7, SameOn
  <2>9. LineEnd(y, end, cr, lf) = Append(y1, lf) /\ LineEnd(v, end, cr, lf) = Append(v1, lf)
    BY <2>1, <2>5, <2>6 DEF LineEnd
  <2> QED
    BY <1>2, <2>3, <2>8, <2>9
<1> QED
  BY <1>5, <1>6, <1>7 DEF LineEnds

\* The characters of an event behind a text that ends with the next event's name.
LEMMA EventRead ==
  ASSUME NEW u \in Seq(Chars), NEW end \in LineEnds, NEW m \in Contents, NEW e,
         NEW ev \in Chars, ev = "event", Reads(Append(u, ev), e, Append(<<>>, ev))
  PROVE  /\ u \o EventChars(m, end) \in Seq(Chars) /\ EventChars(m, end) \in Seq(Chars)
         /\ Reads(Append(u \o EventChars(m, end), ev), Append(e, m), Append(<<>>, ev))
<1>0. PICK cr \in Chars : cr = "CR"
  BY Letters
<1>1. PICK lf \in Chars : lf = "LF"
  BY Letters
<1>2. m \in Chars /\ m # "LF" /\ m # "CR" /\ ev # "LF" /\ ev # "CR"
  BY Letters
<1>3. <<>> \in Seq(Chars)
  OBVIOUS
<1>b0. PICK b0 \in Seq(Chars) : b0 = Append(<<>>, ev)
  BY <1>3, TheLast
<1>b1. PICK b1 \in Seq(Chars) : b1 = Append(b0, lf)
  BY TheLast
<1>b2. PICK b2 \in Seq(Chars) : b2 = Append(b1, m)
  BY <1>2, TheLast
<1>b3. PICK b3 \in Seq(Chars) : b3 = Append(b2, lf)
  BY TheLast
<1>b4. PICK b4 \in Seq(Chars) : b4 = Append(b3, lf)
  BY TheLast
<1>4. /\ ~EndsInCR(b0) /\ ~EndsInCR(b1) /\ ~EndsInCR(b2) /\ ~EndsInCR(b3)
      /\ ~EndsBlock(b0) /\ ~EndsBlock(b1) /\ ~EndsBlock(b2) /\ ~EndsBlock(b3) /\ EndsBlock(b4)
      /\ EventOf(b4) = Append(<<>>, m)
  <2>1. Grows(ev, lf, m, b0, b1, b2, b3, b4)
    BY <1>1, <1>2, <1>b0, <1>b1, <1>b2, <1>b3, <1>b4 DEF Grows
  <2>2. IsAnEvent(m, b0, b1, b2, b3, b4)
    BY <2>1, TheEvent
  <2> QED
    BY <2>2 DEF IsAnEvent
<1>5. PICK u0 \in Seq(Chars) : u0 = Append(u, ev)
  BY TheLast
<1>6. Reads(u0, e, b0)
  BY <1>5, <1>b0
<1>7. PICK l \in Seq(Chars) : l = LineEnd(u0, end, cr, lf)
  BY LineEndTyped
<1>8. PICK q \in Seq(Chars) : q = Append(l, m)
  BY <1>2, TheLast
<1>9. PICK q1 \in Seq(Chars) : q1 = LineEnd(q, end, cr, lf)
  BY LineEndTyped
<1>10. PICK q2 \in Seq(Chars) : q2 = LineEnd(q1, end, cr, lf)
  BY LineEndTyped
<1>11. u \o EventChars(m, end) = q2 /\ EventChars(m, end) \in Seq(Chars)
  <2>1. InPieces(u, end, m, ev, cr, lf)
    BY <1>0, <1>1, <1>2 DEF InPieces
  <2>2. u \o EventChars(m, end) = Whole(u, end, m, ev, cr, lf) /\ EventChars(m, end) \in Seq(Chars)
    BY <2>1, EventIs
  <2>3. Whole(u, end, m, ev, cr, lf) = q2
    BY <1>5, <1>7, <1>8, <1>9, <1>10 DEF Whole
  <2> QED
    BY <2>2, <2>3
<1>12. Reads(q, e, b2)
  <2>1. PICK u1 \in Seq(Chars) : u1 = Append(u0, lf)
    BY TheLast
  <2>2. Reads(u1, e, b1)
    BY <1>4, <1>6, <1>b1, <2>1, ReadsOn
  <2>3. Reads(Append(u1, m), e, b2)
    BY <1>2, <1>4, <1>b2, <2>2, ReadsOn
  <2>4. Decode(q) = Decode(Append(u1, m))
    <3>1. Decode(Append(LineEnd(u0, end, cr, lf), m)) = Decode(Append(Append(u0, lf), m))
      BY <1>0, <1>1, <1>2, <1>4, <1>6, LineEndThen
    <3> QED
      BY <1>7, <1>8, <2>1, <3>1
  <2> QED
    BY <2>3, <2>4 DEF Reads
<1>13. PICK v \in Seq(Chars) : v = Append(q, lf)
  BY TheLast
<1>14. Reads(v, e, b3)
  BY <1>4, <1>12, <1>13, <1>b3, ReadsOn
<1>15. PICK v1 \in Seq(Chars) : v1 = Append(v, lf)
  BY TheLast
<1>16. Reads(v1, Append(e, m), <<>>)
  <2>1. Reads(v1, e \o EventOf(b4), <<>>)
    BY <1>4, <1>14, <1>15, <1>b4, ReadsEnd
  <2>2. e \o Append(<<>>, m) = Append(e, m)
    BY <1>6 DEF Reads
  <2> QED
    BY <1>4, <2>1, <2>2
<1>17. Reads(Append(v1, ev), Append(e, m), b0)
  BY <1>4, <1>16, <1>b0, NoCRInTheEnd, ReadsOn
<1>18. Decode(Append(q2, ev)) = Decode(Append(v1, ev))
  <2>1. PICK y \in Seq(Chars) : y = LineEnd(v, end, cr, lf)
    BY LineEndTyped
  <2>2. Decode(q2) = Decode(y)
    <3>1. Decode(LineEnd(LineEnd(q, end, cr, lf), end, cr, lf)) = Decode(LineEnd(Append(q, lf), end, cr, lf))
      BY <1>0, <1>1, <1>4, <1>12, TwoLineEnds
    <3> QED
      BY <1>9, <1>10, <1>13, <2>1, <3>1
  <2>3. Decode(Append(q2, ev)) = Decode(Append(y, ev))
    BY <2>2, SameOn
  <2>4. Decode(Append(LineEnd(v, end, cr, lf), ev)) = Decode(Append(Append(v, lf), ev))
    BY <1>0, <1>1, <1>2, <1>4, <1>14, LineEndThen
  <2> QED
    BY <1>15, <2>1, <2>3, <2>4
<1>19. Append(q2, ev) \in Seq(Chars)
  BY TheLast
<1>20. Reads(Append(q2, ev), Append(e, m), b0)
  BY <1>17, <1>18, <1>19 DEF Reads
<1> QED
  BY <1>11, <1>20, <1>b0

\* The first event of a connection.
LEMMA NothingRead ==
  ASSUME NEW ev \in Chars, ev = "event"
  PROVE  Reads(Append(<<>>, ev), <<>>, Append(<<>>, ev))
<1>1. <<>> \in Seq(Chars) /\ <<>> \in Seq(Contents)
  OBVIOUS
<1>2. Reads(<<>>, <<>>, <<>>)
  BY <1>1, DecodeEmpty DEF Reads, Start
<1>3. ~EndsBlock(Append(<<>>, ev))
  <2>1. Len(Append(<<>>, ev)) = 1
    BY <1>1, TheLast
  <2> QED
    BY <2>1 DEF EndsBlock
<1> QED
  BY <1>2, <1>3, NoCRInTheEnd, ReadsOn

-----------------------------------------------------------------------------
(* Nothing is lost. *)

Feeds == [end: LineEnds, subscribed: BOOLEAN, sent: Seq(OwnMessages), count: 0..MaxWritten]
Concatenated(s, t, u) == (s \o t) \o u = s \o (t \o u)
LEMMA Concatenation == ASSUME NEW V, NEW s \in Seq(V), NEW t \in Seq(V), NEW u \in Seq(V) PROVE Concatenated(s, t, u)
BY DEF Concatenated
LEMMA InTwo ==
  ASSUME NEW V, NEW s \in Seq(V), NEW n \in 1..Len(s)
  PROVE  /\ SubSeq(s, 1, n) \in Seq(V) /\ SubSeq(s, n + 1, Len(s)) \in Seq(V)
         /\ s = SubSeq(s, 1, n) \o SubSeq(s, n + 1, Len(s))
<1>1. SubSeq(s, 1, n) \in Seq(V)
  <2>1. n \in 0..Len(s) /\ 1 \in 1..(Len(s) + 1)
    OBVIOUS
  <2> QED
    BY <2>1, SubSeqProperties
<1>2. SubSeq(s, n + 1, Len(s)) \in Seq(V)
  <2>1. Len(s) \in 0..Len(s) /\ n + 1 \in 1..(Len(s) + 1)
    OBVIOUS
  <2> QED
    BY <2>1, SubSeqProperties
<1> QED
  BY <1>1, <1>2
LEMMA HeadAndTail ==
  ASSUME NEW V, NEW t \in Seq(V), t # <<>>
  PROVE  Head(t) \in V /\ Tail(t) \in Seq(V) /\ t = Append(<<>>, Head(t)) \o Tail(t)
<1>1. Head(t) \in V /\ Tail(t) \in Seq(V)
  BY HeadTailProperties
<1> QED
  BY <1>1
LEMMA WithNothing == ASSUME NEW V, NEW s \in Seq(V) PROVE s \o <<>> = s /\ <<>> \o s = s
OBVIOUS

\* The events that decoder and wire still hold.
Pending(d, w) == Decode(Append(d \o w, "event")).events

\* What was handed over, what waits and what is still held are all that was sent.
AllThere(d, w, t, g, f) ==
  /\ d \in Seq(Chars) /\ w \in Seq(Chars) /\ t \in Seq(Contents) /\ g \in Seq(OwnMessages) /\ f \in Feeds
  /\ Settled(d)
  /\ Reads(Append(d \o w, "event"), Pending(d, w), Append(<<>>, "event"))
  /\ g \o Own(t) \o Own(Pending(d, w)) = f.sent
  /\ ~f.subscribed => f.sent = <<>>

LEMMA OwnTyped == ASSUME NEW e \in Seq(Contents) PROVE Own(e) \in Seq(OwnMessages)
BY OnlyTyped DEF Own
LEMMA OwnNone == Own(<<>>) = <<>>
BY OnlyEmpty DEF Own
LEMMA OwnAppend ==
  ASSUME NEW e \in Seq(Contents), NEW m \in Contents
  PROVE  Own(Append(e, m)) = IF m \in OwnMessages THEN Append(Own(e), m) ELSE Own(e)
BY OnlyAppend DEF Own
LEMMA OwnConcat ==
  ASSUME NEW e \in Seq(Contents), NEW v \in Seq(Contents) PROVE Own(e \o v) = Own(e) \o Own(v)
BY OnlyConcat DEF Own

\* A feed that nothing was read from and nothing sent on.
Fresh(f) == f \in Feeds /\ f.sent = <<>>
LEMMA NothingThere == ASSUME NEW f, Fresh(f) PROVE AllThere(<<>>, <<>>, <<>>, <<>>, f)
<1>1. PICK ev \in Chars : ev = "event"
  BY Letters
<1>2. PICK s \in Seq(Chars) : s = <<>>
  <2>1. <<>> \in Seq(Chars)
    OBVIOUS
  <2> QED
    BY <2>1
<1>3. s \o s = s
  BY <1>2
<1>4. Reads(Append(s, ev), <<>>, Append(<<>>, ev))
  <2>1. Reads(Append(<<>>, ev), <<>>, Append(<<>>, ev))
    BY <1>1, NothingRead
  <2> QED
    BY <1>2, <2>1
<1>5. Pending(s, s) = <<>>
  BY <1>1, <1>3, <1>4 DEF Pending, Reads
<1>6. Reads(Append(s \o s, "event"), Pending(s, s), Append(<<>>, "event"))
  BY <1>1, <1>3, <1>4, <1>5
<1>7. Own(Pending(s, s)) = <<>>
  BY <1>5, OwnNone
<1>8. <<>> \in Seq(Contents) /\ <<>> \in Seq(OwnMessages)
  OBVIOUS
<1>9. <<>> \o <<>> \o <<>> = <<>>
  <2>1. <<>> \in Seq({})
    OBVIOUS
  <2>2. <<>> \o <<>> = <<>>
    BY <2>1, WithNothing
  <2> QED
    BY <2>2
<1>10. <<>> \o Own(<<>>) \o Own(Pending(s, s)) = f.sent
  BY <1>7, <1>9, OwnNone DEF Fresh
<1> QED
  BY <1>2, <1>6, <1>8, <1>10, SettledEmpty DEF AllThere, Fresh

\* An event is written: what is pending is one event more.
LEMMA PendingMore ==
  ASSUME NEW d \in Seq(Chars), NEW w \in Seq(Chars), NEW m \in Contents, NEW end \in LineEnds,
         Reads(Append(d \o w, "event"), Pending(d, w), Append(<<>>, "event"))
  PROVE  /\ w \o EventChars(m, end) \in Seq(Chars)
         /\ Pending(d, w \o EventChars(m, end)) = Append(Pending(d, w), m)
         /\ Reads(Append(d \o (w \o EventChars(m, end)), "event"), Pending(d, w \o EventChars(m, end)), Append(<<>>, "event"))
<1>1. PICK ev \in Chars : ev = "event"
  BY Letters
<1>2. PICK u \in Seq(Chars) : u = d \o w
  BY Joined
<1>3. PICK e : e = Pending(d, w)
  OBVIOUS
<1>4. Reads(Append(u, ev), e, Append(<<>>, ev))
  BY <1>1, <1>2, <1>3
<1>5. PICK c : c = EventChars(m, end)
  OBVIOUS
<1>6. c \in Seq(Chars) /\ Reads(Append(u \o c, ev), Append(e, m), Append(<<>>, ev))
  BY <1>1, <1>4, <1>5, EventRead
<1>7. u \o c = d \o (w \o c)
  <2>1. Concatenated(d, w, c)
    BY <1>6, Concatenation
  <2> QED
    BY <1>2, <2>1 DEF Concatenated
<1>8. w \o c \in Seq(Chars)
  BY <1>6, Joined
<1>9. Reads(Append(d \o (w \o c), "event"), Append(e, m), Append(<<>>, "event"))
  BY <1>1, <1>6, <1>7
<1>10. Pending(d, w \o c) = Append(e, m)
  BY <1>9 DEF Pending, Reads
<1> QED
  BY <1>3, <1>5, <1>8, <1>9, <1>10

LEMMA HelloComes ==
  ASSUME NEW f, Fresh(f), NEW end \in LineEnds PROVE AllThere(<<>>, EventChars(Hello, end), <<>>, <<>>, f)
<1>1. PICK s \in Seq(Chars) : s = <<>>
  <2>1. <<>> \in Seq(Chars)
    OBVIOUS
  <2> QED
    BY <2>1
<1>2. AllThere(s, s, <<>>, <<>>, f)
  BY <1>1, NothingThere
<1>3. PICK h \in Contents : h = Hello
  BY DEF Contents
<1>4. Reads(Append(s \o s, "event"), Pending(s, s), Append(<<>>, "event"))
  BY <1>2 DEF AllThere
<1>5. PICK w : w = s \o EventChars(h, end)
  OBVIOUS
<1>6. PICK e \in Seq(Contents) : e = Pending(s, s)
  BY <1>4 DEF Reads
<1>7. /\ w \in Seq(Chars) /\ Pending(s, w) = Append(e, h)
      /\ Reads(Append(s \o w, "event"), Pending(s, w), Append(<<>>, "event"))
  BY <1>4, <1>5, <1>6, PendingMore
<1>8. Own(Append(e, h)) = Own(e)
  <2>1. h \notin OwnMessages
    BY <1>3, MessageStreamAssumption
  <2> QED
    BY <2>1, OwnAppend
<1>9. <<>> \o Own(<<>>) \o Own(Pending(s, w)) = f.sent
  <2>1. <<>> \o Own(<<>>) \o Own(Pending(s, s)) = f.sent
    BY <1>2 DEF AllThere
  <2> QED
    BY <1>6, <1>7, <1>8, <2>1
<1>10. AllThere(s, w, <<>>, <<>>, f)
  BY <1>2, <1>7, <1>9 DEF AllThere
<1>11. w = EventChars(Hello, end)
  <2>1. PICK c : c = EventChars(h, end)
    OBVIOUS
  <2>2. c \in Seq(Chars)
    <3>1. PICK ev \in Chars : ev = "event"
      BY Letters
    <3>2. Reads(Append(s, ev), <<>>, Append(<<>>, ev))
      <4>1. Reads(Append(<<>>, ev), <<>>, Append(<<>>, ev))
        BY <3>1, NothingRead
      <4> QED
        BY <1>1, <4>1
    <3> QED
      BY <2>1, <3>1, <3>2, EventRead
  <2>3. s \o c = c
    BY <1>1, <2>2, WithNothing
  <2> QED
    BY <1>3, <1>5, <2>1, <2>3
<1> QED
  BY <1>1, <1>10, <1>11

LEMMA EventSent ==
  ASSUME NEW d, NEW w, NEW t, NEW g, NEW f, AllThere(d, w, t, g, f), f.subscribed,
         NEW m \in OwnMessages \cup OtherMessages,
         NEW f1 \in Feeds, f1.subscribed, f1.sent = IF m \in OwnMessages THEN Append(f.sent, m) ELSE f.sent
  PROVE  AllThere(d, w \o EventChars(m, f.end), t, g, f1)
<1>1. d \in Seq(Chars) /\ w \in Seq(Chars) /\ t \in Seq(Contents) /\ g \in Seq(OwnMessages) /\ f \in Feeds
  BY DEF AllThere
<1>2. Reads(Append(d \o w, "event"), Pending(d, w), Append(<<>>, "event"))
  BY DEF AllThere
<1>3. m \in Contents /\ f.end \in LineEnds
  BY <1>1 DEF Contents, Feeds
<1>4. PICK v : v = w \o EventChars(m, f.end)
  OBVIOUS
<1>5. PICK e \in Seq(Contents) : e = Pending(d, w)
  BY <1>2 DEF Reads
<1>6. /\ v \in Seq(Chars) /\ Pending(d, v) = Append(e, m)
      /\ Reads(Append(d \o v, "event"), Pending(d, v), Append(<<>>, "event"))
  BY <1>1, <1>2, <1>3, <1>4, <1>5, PendingMore
<1>7. PICK o \in Seq(OwnMessages) : o = Own(e)
  BY OwnTyped
<1>8. PICK p \in Seq(OwnMessages) : p = g \o Own(t)
  <2>1. Own(t) \in Seq(OwnMessages)
    BY <1>1, OwnTyped
  <2> QED
    BY <1>1, <2>1, Joined
<1>9. p \o o = f.sent
  BY <1>5, <1>7, <1>8 DEF AllThere
<1>10. p \o Own(Append(e, m)) = f1.sent
  <2>1. Own(Append(e, m)) = IF m \in OwnMessages THEN Append(o, m) ELSE o
    BY <1>3, <1>7, OwnAppend
  <2>2. CASE m \in OwnMessages
    <3>1. Behind(p, o, m)
      BY <2>2, AppendBehind
    <3> QED
      BY <1>9, <2>1, <2>2, <3>1 DEF Behind
  <2>3. CASE m \notin OwnMessages
    BY <1>9, <2>1, <2>3
  <2> QED
    BY <2>2, <2>3
<1>11. g \o Own(t) \o Own(Pending(d, v)) = f1.sent
  BY <1>6, <1>8, <1>10
<1>12. Settled(d)
  BY DEF AllThere
<1> QED
  BY <1>1, <1>4, <1>6, <1>11, <1>12 DEF AllThere

\* A chunk of any size.
LEMMA ChunkRead ==
  ASSUME NEW d, NEW w, NEW g, NEW f, AllThere(d, w, <<>>, g, f), NEW n \in 1..Len(w),
         NEW fed, fed = Feed(d, SubSeq(w, 1, n))
  PROVE  AllThere(fed.rest, SubSeq(w, n + 1, Len(w)), fed.events, g, f)
<1>1. d \in Seq(Chars) /\ w \in Seq(Chars) /\ g \in Seq(OwnMessages) /\ f \in Feeds
  BY DEF AllThere
<1>2. PICK ev \in Chars : ev = "event"
  BY Letters
<1>3. PICK p \in Seq(Chars) : p = SubSeq(w, 1, n)
  BY <1>1, InTwo
<1>4. PICK q \in Seq(Chars) : q = SubSeq(w, n + 1, Len(w))
  BY <1>1, InTwo
<1>5. w = p \o q
  BY <1>1, <1>3, <1>4, InTwo
<1>6. PICK c \in Seq(Chars) : c = Append(q, ev)
  BY TheLast
<1>7. PICK dp \in Seq(Chars) : dp = d \o p
  BY <1>1, Joined
<1>8. PICK text : text = Append(d \o w, ev)
  OBVIOUS
<1>9. text = dp \o c
  <2>1. Concatenated(d, p, q)
    BY <1>1, Concatenation
  <2>2. d \o w = dp \o q
    BY <1>5, <1>7, <2>1 DEF Concatenated
  <2>3. Behind(dp, q, ev)
    BY AppendBehind
  <2> QED
    BY <1>6, <1>8, <2>2, <2>3 DEF Behind
<1>10. fed = Decode(dp)
  BY <1>3, <1>7 DEF Feed, Decode
<1>11. PICK e1 \in Seq(Contents), r \in Seq(Chars) : fed = [events |-> e1, rest |-> r]
  BY <1>10, DecodeTyped DEF Decoded
<1>12. fed.events = e1 /\ fed.rest = r
  BY <1>11
<1>13. Settled(r)
  BY <1>10, <1>12, RestSettled
<1>14. r \o c \in Seq(Chars) /\ r \o c = Append(r \o q, ev)
  <2>1. Behind(r, q, ev)
    BY AppendBehind
  <2> QED
    BY <1>6, <2>1, Joined DEF Behind
<1>15. PICK y \in Seq(Chars) : y = r \o c
  BY <1>14
<1>16. PICK e2 \in Seq(Contents), z \in Seq(Chars) : Decode(y) = [events |-> e2, rest |-> z]
  BY DecodeTyped DEF Decoded
<1>17. Decode(text) = [events |-> e1 \o e2, rest |-> z]
  <2>1. Decode(dp \o c) = Behindhand(Decode(dp).events, Decode(Decode(dp).rest \o c))
    BY CutAnywhere
  <2>2. Decode(text) = Behindhand(e1, Decode(y))
    BY <1>9, <1>10, <1>12, <1>15, <2>1
  <2> QED
    BY <1>16, <2>2 DEF Behindhand
<1>18. Reads(text, Pending(d, w), Append(<<>>, ev))
  BY <1>2, <1>8 DEF AllThere
<1>19. Decode(text) = [events |-> Pending(d, w), rest |-> Append(<<>>, ev)]
  BY <1>18 DEF Reads
<1>20. Pending(d, w) = e1 \o e2 /\ z = Append(<<>>, ev)
  BY <1>17, <1>19
<1>21. Pending(r, q) = e2
  BY <1>2, <1>14, <1>15, <1>16 DEF Pending
<1>22. Reads(Append(r \o q, "event"), Pending(r, q), Append(<<>>, "event"))
  <2>1. Append(<<>>, ev) \in Seq(Chars)
    BY <1>20
  <2>2. Reads(y, e2, Append(<<>>, ev))
    BY <1>16, <1>20, <2>1 DEF Reads
  <2> QED
    BY <1>2, <1>14, <1>15, <1>21, <2>2
<1>23. g \o Own(e1) \o Own(e2) = f.sent
  <2>1. g \o Own(<<>>) \o Own(Pending(d, w)) = f.sent
    BY DEF AllThere
  <2>2. g \o Own(<<>>) = g
    BY <1>1, OwnNone, WithNothing
  <2>3. Own(Pending(d, w)) = Own(e1) \o Own(e2)
    BY <1>20, OwnConcat
  <2>4. PICK o1 \in Seq(OwnMessages) : o1 = Own(e1)
    BY OwnTyped
  <2>5. PICK o2 \in Seq(OwnMessages) : o2 = Own(e2)
    BY OwnTyped
  <2>6. Concatenated(g, o1, o2)
    BY <1>1, Concatenation
  <2> QED
    BY <2>1, <2>2, <2>3, <2>4, <2>5, <2>6 DEF Concatenated
<1>24. ~f.subscribed => f.sent = <<>>
  BY DEF AllThere
<1>25. AllThere(r, q, e1, g, f)
  BY <1>1, <1>13, <1>21, <1>22, <1>23, <1>24 DEF AllThere
<1> QED
  BY <1>4, <1>12, <1>25

\* The next event of the chunk.
LEMMA EventTaken ==
  ASSUME NEW d, NEW w, NEW t, NEW g, NEW f, AllThere(d, w, t, g, f), t # <<>>
  PROVE  /\ Head(t) \in Contents /\ Tail(t) \in Seq(Contents)
         /\ Head(t) \in OwnMessages => f.subscribed /\ AllThere(d, w, Tail(t), Append(g, Head(t)), f)
         /\ Head(t) \notin OwnMessages => AllThere(d, w, Tail(t), g, f)
<1>1. d \in Seq(Chars) /\ w \in Seq(Chars) /\ t \in Seq(Contents) /\ g \in Seq(OwnMessages) /\ f \in Feeds
  BY DEF AllThere
<1>2. PICK h \in Contents : h = Head(t)
  BY <1>1, HeadAndTail
<1>3. PICK s \in Seq(Contents) : s = Tail(t)
  BY <1>1, HeadAndTail
<1>4. PICK a \in Seq(Contents) : a = Append(<<>>, h)
  <2>1. <<>> \in Seq(Contents)
    OBVIOUS
  <2> QED
    BY <2>1, TheLast
<1>5. t = a \o s
  BY <1>1, <1>2, <1>3, <1>4, HeadAndTail
<1>6. Own(t) = Own(a) \o Own(s)
  BY <1>5, OwnConcat
<1>7. Own(a) = IF h \in OwnMessages THEN Append(<<>>, h) ELSE <<>>
  <2>1. PICK v \in Seq(Contents) : v = <<>>
    <3>1. <<>> \in Seq(Contents)
      OBVIOUS
    <3> QED
      BY <3>1
  <2>2. Own(Append(v, h)) = IF h \in OwnMessages THEN Append(Own(v), h) ELSE Own(v)
    BY OwnAppend
  <2> QED
    BY <1>4, <2>1, <2>2, OwnNone
<1>8. PICK os \in Seq(OwnMessages) : os = Own(s)
  BY OwnTyped
<1>9. PICK oe \in Seq(OwnMessages) : oe = Own(Pending(d, w))
  <2>1. Pending(d, w) \in Seq(Contents)
    BY DEF AllThere, Reads
  <2> QED
    BY <2>1, OwnTyped
<1>10. g \o Own(t) \o oe = f.sent
  BY <1>9 DEF AllThere
<1>11. ASSUME h \in OwnMessages PROVE f.subscribed /\ AllThere(d, w, s, Append(g, h), f)
  <2>1. PICK x \in OwnMessages : x = h
    BY <1>11
  <2>2. PICK ox \in Seq(OwnMessages) : ox = Append(<<>>, x)
    <3>1. <<>> \in Seq(OwnMessages)
      OBVIOUS
    <3> QED
      BY <3>1, TheLast
  <2>3. Own(t) = ox \o os
    BY <1>6, <1>7, <1>8, <2>1, <2>2
  <2>4. g \o (ox \o os) = Append(g, x) \o os
    BY <1>1, <2>2
  <2>5. Append(g, x) \o os \o oe = f.sent
    BY <1>10, <2>3, <2>4
  <2>6. f.sent # <<>>
    <3>1. PICK v \in Seq(OwnMessages) : v = Append(g, x)
      BY <1>1, TheLast
    <3>2. Len(v) >= 1
      BY <1>1, <3>1
    <3>3. PICK v1 \in Seq(OwnMessages) : v1 = v \o os
      BY Joined
    <3>4. Len(v1) >= 1
      BY <3>2, <3>3
    <3>5. PICK v2 \in Seq(OwnMessages) : v2 = v1 \o oe
      BY Joined
    <3>6. Len(v2) >= 1
      BY <3>4, <3>5
    <3>7. v2 # <<>>
      BY <3>6
    <3> QED
      BY <2>5, <3>1, <3>3, <3>5, <3>7
  <2>7. f.subscribed
    BY <2>6 DEF AllThere
  <2>8. Append(g, x) \in Seq(OwnMessages)
    BY <1>1
  <2>9. AllThere(d, w, s, Append(g, x), f)
    BY <1>8, <1>9, <2>5, <2>8 DEF AllThere
  <2> QED
    BY <2>1, <2>7, <2>9
<1>12. ASSUME h \notin OwnMessages PROVE AllThere(d, w, s, g, f)
  <2>1. Own(t) = <<>> \o os
    BY <1>6, <1>7, <1>8, <1>12
  <2>2. <<>> \o os = os
    BY WithNothing
  <2>3. g \o os \o oe = f.sent
    BY <1>10, <2>1, <2>2
  <2> QED
    BY <1>8, <1>9, <2>3 DEF AllThere
<1> QED
  BY <1>2, <1>3, <1>11, <1>12

-----------------------------------------------------------------------------
(* The invariant of the stream: what the client remembers of its connections, *)
(* and that nothing of the connection that lasts is lost.                     *)

Clients == [stage: {"resolve", "connect", "reading", "subscribing", "waiting", "ended"},
            ready: {"pending", "yes", "no"}, connected: BOOLEAN, subscribed: BOOLEAN]
Remembers(c, over, f) ==
  /\ c \in Clients /\ over \in BOOLEAN
  /\ c.stage = "ended" /\ ~over => ~c.connected /\ c.ready = "no"
  /\ c.connected <=> c.ready = "yes"
  /\ c.stage = "resolve" => ~c.connected
  /\ c.stage = "reading" /\ f.subscribed => c.subscribed

StreamInv ==
  /\ Remembers(client, closed, feedOf) /\ AllThere(decoder, wire, todo, got, feedOf)
  /\ connects \in 0..MaxConnects

LEMMA NoFeedIsFresh == Fresh(NoFeed) /\ ~NoFeed.subscribed
<1>1. <<>> \in Seq(OwnMessages) /\ <<"LF">> \in LineEnds /\ 0 \in 0..MaxWritten
  BY MessageStreamAssumption DEF LineEnds
<1> QED
  BY <1>1 DEF Fresh, NoFeed, Feeds

LEMMA StreamStarts == StreamInit => StreamInv
<1> SUFFICES ASSUME StreamInit PROVE StreamInv
  OBVIOUS
<1>1. AllThere(<<>>, <<>>, <<>>, <<>>, NoFeed)
  BY NoFeedIsFresh, NothingThere
<1>2. AllThere(decoder, wire, todo, got, feedOf)
  BY <1>1 DEF StreamInit
<1>3. client = [stage |-> "resolve", ready |-> "pending", connected |-> FALSE, subscribed |-> FALSE] /\ closed = FALSE
  BY DEF StreamInit
<1>4. Remembers(client, closed, feedOf)
  BY <1>3 DEF Remembers, Clients
<1>5. connects \in 0..MaxConnects
  BY MessageStreamAssumption DEF StreamInit
<1> QED
  BY <1>2, <1>4, <1>5 DEF StreamInv

\* A connection fails: nothing is kept of it but what the client remembers.
LEMMA FailsKeeps ==
  ASSUME StreamInv, NEW refused \in BOOLEAN, ConnectionFails(refused) PROVE StreamInv'
<1>1. AllThere(<<>>, <<>>, <<>>, <<>>, NoFeed)
  BY NoFeedIsFresh, NothingThere
<1>2. AllThere(decoder, wire, todo, got, feedOf)'
  BY <1>1 DEF ConnectionFails
<1>3. PICK c \in Clients, over \in BOOLEAN : c = client /\ over = closed
  BY DEF StreamInv, Remembers
<1>4. PICK f : f = feedOf
  OBVIOUS
<1>5. Remembers(c, over, f)
  BY <1>3, <1>4 DEF StreamInv
<1>6. PICK c1 : c1 = [c EXCEPT !.stage = IF over \/ Fatal(refused) THEN "ended" ELSE "waiting",
                               !.ready = IF ~over /\ Fatal(refused) THEN "no" ELSE c.ready]
  OBVIOUS
<1>7. client' = c1 /\ closed' = over /\ connects' = connects /\ feedOf' = NoFeed
  BY <1>3, <1>6 DEF ConnectionFails
<1>8. PICK fatal \in BOOLEAN : fatal = Fatal(refused)
  BY DEF Fatal
<1>9. fatal => ~c.connected
  BY <1>3, <1>8 DEF Fatal
<1>10. /\ c1.stage = (IF over \/ fatal THEN "ended" ELSE "waiting") /\ c1.ready = (IF ~over /\ fatal THEN "no" ELSE c.ready)
       /\ c1.connected = c.connected /\ c1.subscribed = c.subscribed /\ c1 \in Clients
  BY <1>6, <1>8 DEF Clients
<1>11. Remembers(c1, over, NoFeed)
  BY <1>5, <1>9, <1>10 DEF Remembers
<1> QED
  BY <1>2, <1>7, <1>11 DEF StreamInv

\* The client's steps that leave decoder, wire and what was handed over as they are.
Untouched == UNCHANGED <<decoder, todo, wire, got, connects>>
LEMMA UntouchedKeeps ==
  ASSUME StreamInv, Untouched, feedOf' = feedOf, Remembers(client', closed', feedOf) PROVE StreamInv'
<1>1. AllThere(decoder, wire, todo, got, feedOf)'
  BY DEF StreamInv, Untouched
<1> QED
  BY <1>1 DEF StreamInv, Untouched

LEMMA TheClient ==
  ASSUME StreamInv PROVE \E c \in Clients, over \in BOOLEAN, f \in Feeds : Remembers(c, over, f) /\ c = client /\ over = closed /\ f = feedOf
<1>1. client \in Clients /\ closed \in BOOLEAN /\ feedOf \in Feeds /\ Remembers(client, closed, feedOf)
  BY DEF StreamInv, Remembers, AllThere
<1> QED
  BY <1>1

LEMMA ResolveKeeps == ASSUME StreamInv, NEW found \in BOOLEAN, ResolveTarget(found) PROVE StreamInv'
<1>1. PICK c \in Clients, over \in BOOLEAN, f \in Feeds : Remembers(c, over, f) /\ c = client /\ over = closed /\ f = feedOf
  BY TheClient
<1>2. PICK c1 : c1 = [c EXCEPT !.stage = IF found /\ ~over THEN "connect" ELSE "ended", !.ready = IF found THEN c.ready ELSE "no"]
  OBVIOUS
<1>3. c.stage = "resolve" /\ client' = c1 /\ closed' = over /\ feedOf' = f /\ Untouched
  BY <1>1, <1>2 DEF ResolveTarget, Untouched
<1>4. /\ c1.stage = (IF found /\ ~over THEN "connect" ELSE "ended") /\ c1.ready = (IF found THEN c.ready ELSE "no")
      /\ c1.connected = c.connected /\ c1 \in Clients
  BY <1>2 DEF Clients
<1>5. Remembers(c1, over, f)
  BY <1>1, <1>3, <1>4 DEF Remembers
<1> QED
  BY <1>1, <1>3, <1>5, UntouchedKeeps

LEMMA ConnectKeeps == ASSUME StreamInv, NEW end \in LineEnds, Connect(end) PROVE StreamInv'
<1>1. PICK c \in Clients, over \in BOOLEAN, f \in Feeds : Remembers(c, over, f) /\ c = client /\ over = closed /\ f = feedOf
  BY TheClient
<1>2. PICK f1 : f1 = [NoFeed EXCEPT !.end = end]
  OBVIOUS
<1>3. Fresh(f1) /\ ~f1.subscribed
  <2>1. NoFeed \in Feeds /\ NoFeed.sent = <<>> /\ ~NoFeed.subscribed
    BY NoFeedIsFresh DEF Fresh
  <2>2. f1.sent = NoFeed.sent /\ f1.subscribed = NoFeed.subscribed /\ f1 \in Feeds
    BY <1>2, <2>1 DEF Feeds
  <2> QED
    BY <2>1, <2>2 DEF Fresh
<1>4. AllThere(<<>>, EventChars(Hello, end), <<>>, <<>>, f1)
  BY <1>3, HelloComes
<1>5. AllThere(decoder, wire, todo, got, feedOf)'
  BY <1>2, <1>4 DEF Connect
<1>6. PICK c1 : c1 = [c EXCEPT !.stage = "reading", !.subscribed = FALSE]
  OBVIOUS
<1>7. client' = c1 /\ closed' = over /\ feedOf' = f1
  BY <1>1, <1>2, <1>6 DEF Connect
<1>8. c1.stage = "reading" /\ c1.ready = c.ready /\ c1.connected = c.connected /\ c1 \in Clients
  BY <1>6 DEF Clients
<1>9. Remembers(c1, over, f1)
  BY <1>1, <1>3, <1>8 DEF Remembers
<1>10. connects' \in 0..MaxConnects
  BY MessageStreamAssumption DEF Connect, StreamInv
<1> QED
  BY <1>5, <1>7, <1>9, <1>10 DEF StreamInv

LEMMA ChunkKeeps == ASSUME StreamInv, NEW n \in 1..Len(wire), ReadChunk(n) PROVE StreamInv'
<1>1. PICK d, w, g, f : d = decoder /\ w = wire /\ g = got /\ f = feedOf
  OBVIOUS
<1>2. todo = <<>>
  BY DEF ReadChunk
<1>3. AllThere(d, w, <<>>, g, f)
  BY <1>1, <1>2 DEF StreamInv
<1>4. PICK fed : fed = Feed(d, SubSeq(w, 1, n))
  OBVIOUS
<1>5. AllThere(fed.rest, SubSeq(w, n + 1, Len(w)), fed.events, g, f)
  BY <1>1, <1>3, <1>4, ChunkRead
<1>6. /\ decoder' = fed.rest /\ todo' = fed.events /\ wire' = SubSeq(w, n + 1, Len(w))
      /\ client' = client /\ closed' = closed /\ feedOf' = f /\ got' = g /\ connects' = connects
  BY <1>1, <1>4 DEF ReadChunk
<1>7. AllThere(decoder, wire, todo, got, feedOf)'
  BY <1>5, <1>6
<1> QED
  BY <1>1, <1>6, <1>7 DEF StreamInv

LEMMA HandleKeeps == ASSUME StreamInv, HandleEvent PROVE StreamInv'
<1>1. PICK c \in Clients, over \in BOOLEAN, f \in Feeds : Remembers(c, over, f) /\ c = client /\ over = closed /\ f = feedOf
  BY TheClient
<1>2. PICK d, w, t, g : d = decoder /\ w = wire /\ t = todo /\ g = got
  OBVIOUS
<1>3. AllThere(d, w, t, g, f) /\ t # <<>>
  BY <1>1, <1>2 DEF StreamInv, HandleEvent
<1>4. PICK h : h = Head(t)
  OBVIOUS
<1>5. /\ h \in OwnMessages => f.subscribed /\ AllThere(d, w, Tail(t), Append(g, h), f)
      /\ h \notin OwnMessages => AllThere(d, w, Tail(t), g, f)
  BY <1>3, <1>4, EventTaken
<1>6. /\ decoder' = d /\ wire' = w /\ todo' = Tail(t) /\ feedOf' = f /\ closed' = over /\ connects' = connects
      /\ c.stage = "reading"
  BY <1>1, <1>2 DEF HandleEvent
<1>7. CASE h = Hello
  <2>1. h \notin OwnMessages
    BY <1>7, MessageStreamAssumption
  <2>2. PICK c1 : c1 = [c EXCEPT !.stage = "subscribing"]
    OBVIOUS
  <2>3. client' = c1 /\ got' = g
    BY <1>1, <1>2, <1>4, <1>7, <2>2 DEF HandleEvent, ToStage
  <2>4. c1.stage = "subscribing" /\ c1.ready = c.ready /\ c1.connected = c.connected /\ c1 \in Clients
    BY <2>2 DEF Clients
  <2>5. Remembers(c1, over, f)
    BY <1>1, <2>4 DEF Remembers
  <2>6. AllThere(decoder, wire, todo, got, feedOf)'
    BY <1>5, <1>6, <2>1, <2>3
  <2> QED
    BY <1>6, <2>3, <2>5, <2>6 DEF StreamInv
<1>8. CASE h # Hello
  <2>1. client' = c /\ got' = IF c.subscribed /\ h \in OwnMessages THEN Append(g, h) ELSE g
    BY <1>1, <1>2, <1>4, <1>8 DEF HandleEvent
  <2>2. AllThere(d, w, Tail(t), got', f)
    <3>1. CASE h \in OwnMessages
      <4>1. c.subscribed
        BY <1>1, <1>5, <1>6, <3>1 DEF Remembers
      <4> QED
        BY <1>5, <2>1, <3>1, <4>1
    <3>2. CASE h \notin OwnMessages
      BY <1>5, <2>1, <3>2
    <3> QED
      BY <3>1, <3>2
  <2>3. AllThere(decoder, wire, todo, got, feedOf)'
    BY <1>6, <2>2
  <2> QED
    BY <1>1, <1>6, <2>1, <2>3 DEF StreamInv
<1> QED
  BY <1>7, <1>8

LEMMA AnsweredKeeps == ASSUME StreamInv, SubscribeAnswered PROVE StreamInv'
<1>1. PICK c \in Clients, over \in BOOLEAN, f \in Feeds : Remembers(c, over, f) /\ c = client /\ over = closed /\ f = feedOf
  BY TheClient
<1>2. PICK c1 : c1 = [c EXCEPT !.stage = "reading", !.subscribed = TRUE, !.connected = TRUE,
                              !.ready = IF c.connected THEN c.ready ELSE "yes"]
  OBVIOUS
<1>3. client' = c1 /\ closed' = over /\ feedOf' = f /\ Untouched
  BY <1>1, <1>2 DEF SubscribeAnswered, Untouched
<1>4. /\ c1.stage = "reading" /\ c1.subscribed = TRUE /\ c1.connected = TRUE
      /\ c1.ready = (IF c.connected THEN c.ready ELSE "yes") /\ c1 \in Clients
  BY <1>2 DEF Clients
<1>5. Remembers(c1, over, f)
  BY <1>1, <1>4 DEF Remembers
<1> QED
  BY <1>1, <1>3, <1>5, UntouchedKeeps

LEMMA PauseKeeps == ASSUME StreamInv, PauseEnds PROVE StreamInv'
<1>1. PICK c \in Clients, over \in BOOLEAN, f \in Feeds : Remembers(c, over, f) /\ c = client /\ over = closed /\ f = feedOf
  BY TheClient
<1>2. PICK c1 : c1 = [c EXCEPT !.stage = IF over THEN "ended" ELSE "connect"]
  OBVIOUS
<1>3. client' = c1 /\ closed' = over /\ feedOf' = f /\ Untouched
  BY <1>1, <1>2 DEF PauseEnds, ToStage, Untouched
<1>4. c1.stage = (IF over THEN "ended" ELSE "connect") /\ c1.ready = c.ready /\ c1.connected = c.connected /\ c1 \in Clients
  BY <1>2 DEF Clients
<1>5. Remembers(c1, over, f)
  BY <1>1, <1>4 DEF Remembers
<1> QED
  BY <1>1, <1>3, <1>5, UntouchedKeeps

LEMMA CloseKeeps == ASSUME StreamInv, CloseStream PROVE StreamInv'
<1>1. PICK c \in Clients, over \in BOOLEAN, f \in Feeds : Remembers(c, over, f) /\ c = client /\ over = closed /\ f = feedOf
  BY TheClient
<1>2. client' = c /\ closed' = TRUE /\ feedOf' = f /\ Untouched
  BY <1>1 DEF CloseStream, Untouched
<1>3. Remembers(c, TRUE, f)
  BY <1>1 DEF Remembers
<1> QED
  BY <1>1, <1>2, <1>3, UntouchedKeeps

LEMMA SubscribesKeeps == ASSUME StreamInv, ServerSubscribes PROVE StreamInv'
<1>1. PICK c \in Clients, over \in BOOLEAN, f \in Feeds : Remembers(c, over, f) /\ c = client /\ over = closed /\ f = feedOf
  BY TheClient
<1>2. PICK d, w, t, g : d = decoder /\ w = wire /\ t = todo /\ g = got
  OBVIOUS
<1>3. AllThere(d, w, t, g, f)
  BY <1>1, <1>2 DEF StreamInv
<1>4. PICK f1 : f1 = [f EXCEPT !.subscribed = TRUE]
  OBVIOUS
<1>5. f1 \in Feeds /\ f1.sent = f.sent /\ f1.subscribed = TRUE
  BY <1>4 DEF Feeds
<1>6. AllThere(d, w, t, g, f1)
  BY <1>3, <1>5 DEF AllThere
<1>7. /\ c.stage = "subscribing" /\ client' = c /\ closed' = over /\ feedOf' = f1 /\ connects' = connects
      /\ decoder' = d /\ wire' = w /\ todo' = t /\ got' = g
  BY <1>1, <1>2, <1>4 DEF ServerSubscribes
<1>8. Remembers(c, over, f1)
  BY <1>1, <1>7 DEF Remembers
<1>9. AllThere(decoder, wire, todo, got, feedOf)'
  BY <1>6, <1>7
<1> QED
  BY <1>7, <1>8, <1>9 DEF StreamInv

LEMMA WritesKeeps == ASSUME StreamInv, NEW m \in OwnMessages \cup OtherMessages, ServerWrites(m) PROVE StreamInv'
<1>1. PICK c \in Clients, over \in BOOLEAN, f \in Feeds : Remembers(c, over, f) /\ c = client /\ over = closed /\ f = feedOf
  BY TheClient
<1>2. PICK d, w, t, g : d = decoder /\ w = wire /\ t = todo /\ g = got
  OBVIOUS
<1>3. AllThere(d, w, t, g, f) /\ f.subscribed /\ f.count < MaxWritten
  BY <1>1, <1>2 DEF StreamInv, ServerWrites
<1>4. PICK f1 : f1 = [f EXCEPT !.count = f.count + 1, !.sent = IF m \in OwnMessages THEN Append(f.sent, m) ELSE f.sent]
  OBVIOUS
<1>5. f1 \in Feeds /\ f1.subscribed = f.subscribed /\ f1.sent = IF m \in OwnMessages THEN Append(f.sent, m) ELSE f.sent
  <2>1. f.count + 1 \in 0..MaxWritten
    BY <1>3, MessageStreamAssumption DEF Feeds
  <2>2. f.sent \in Seq(OwnMessages)
    BY DEF Feeds
  <2>3. (IF m \in OwnMessages THEN Append(f.sent, m) ELSE f.sent) \in Seq(OwnMessages)
    BY <2>2
  <2> QED
    BY <1>4, <2>1, <2>3 DEF Feeds
<1>6. AllThere(d, w \o EventChars(m, f.end), t, g, f1)
  BY <1>3, <1>5, EventSent
<1>7. /\ client' = c /\ closed' = over /\ feedOf' = f1 /\ connects' = connects
      /\ decoder' = d /\ wire' = w \o EventChars(m, f.end) /\ todo' = t /\ got' = g
  BY <1>1, <1>2, <1>4 DEF ServerWrites
<1>8. Remembers(c, over, f1)
  BY <1>1, <1>5 DEF Remembers
<1>9. AllThere(decoder, wire, todo, got, feedOf)'
  BY <1>6, <1>7
<1> QED
  BY <1>7, <1>8, <1>9 DEF StreamInv

LEMMA StreamKeeps == StreamInv /\ [StreamNext]_streamVars => StreamInv'
<1> SUFFICES ASSUME StreamInv, [StreamNext]_streamVars PROVE StreamInv'
  OBVIOUS
<1>1. CASE \E found \in BOOLEAN : ResolveTarget(found)
  BY <1>1, ResolveKeeps
<1>2. CASE \E end \in LineEnds : Connect(end)
  BY <1>2, ConnectKeeps
<1>3. CASE \E refused \in BOOLEAN : ConnectFails(refused) \/ SubscribeFails(refused)
  BY <1>3, FailsKeeps DEF ConnectFails, SubscribeFails
<1>4. CASE \E n \in 1..Len(wire) : ReadChunk(n)
  BY <1>4, ChunkKeeps
<1>5. CASE HandleEvent
  BY <1>5, HandleKeeps
<1>6. CASE SubscribeAnswered
  BY <1>6, AnsweredKeeps
<1>7. CASE StreamEnds
  BY <1>7, FailsKeeps DEF StreamEnds
<1>8. CASE PauseEnds
  BY <1>8, PauseKeeps
<1>9. CASE CloseStream
  BY <1>9, CloseKeeps
<1>10. CASE ServerSubscribes
  BY <1>10, SubscribesKeeps
<1>11. CASE \E m \in OwnMessages \cup OtherMessages : ServerWrites(m)
  BY <1>11, WritesKeeps
<1>12. CASE UNCHANGED streamVars
  <2>1. AllThere(decoder, wire, todo, got, feedOf)'
    BY <1>12 DEF streamVars, StreamInv
  <2> QED
    BY <1>12, <2>1 DEF streamVars, StreamInv
<1> QED
  BY <1>1, <1>2, <1>3, <1>4, <1>5, <1>6, <1>7, <1>8, <1>9, <1>10, <1>11, <1>12 DEF StreamNext

\* The inductive invariant of the stream: however the wire is cut into chunks and
\* whatever line ends the server writes, the messages handed over, those of the
\* chunk and those still in decoder and wire are, in this order, the messages that
\* were sent since the subscription (SSEDecoder.feed, stream).
THEOREM StreamInvariant == StreamSpec => []StreamInv
BY StreamStarts, StreamKeeps, PTL DEF StreamSpec

LEMMA StreamIs == StreamInv => StreamTrue
<1> SUFFICES ASSUME StreamInv PROVE StreamTrue
  OBVIOUS
<1>1. PICK c \in Clients, over \in BOOLEAN, f \in Feeds : Remembers(c, over, f) /\ c = client /\ over = closed /\ f = feedOf
  BY TheClient
<1>2. AllThere(decoder, wire, todo, got, feedOf)
  BY DEF StreamInv
<1>3. StreamTypeOK
  <2>1. todo \in Seq(Contents) /\ got \in Seq(OwnMessages)
    BY <1>2 DEF AllThere
  <2>2. Range(todo) \subseteq Contents /\ Range(got) \subseteq OwnMessages
    BY <2>1 DEF Range
  <2>3. c.stage \in {"resolve", "connect", "reading", "subscribing", "waiting", "ended"} /\ c.ready \in {"pending", "yes", "no"}
    BY DEF Clients
  <2>4. {c.connected, c.subscribed, over} \subseteq BOOLEAN
    BY DEF Clients
  <2>5. f.end \in LineEnds /\ f.count \in 0..MaxWritten
    BY DEF Feeds
  <2>6. connects \in 0..MaxConnects
    BY DEF StreamInv
  <2> QED
    BY <1>1, <2>2, <2>3, <2>4, <2>5, <2>6 DEF StreamTypeOK
<1>4. NothingLost
  <2>1. got \o Own(todo) \o Own(Pending(decoder, wire)) = feedOf.sent /\ decoder \in Seq(Chars) /\ wire \in Seq(Chars)
    BY <1>2 DEF AllThere
  <2>2. PICK ev \in Chars : ev = "event"
    BY Letters
  <2>3. Behind(decoder, wire, ev)
    BY <2>1, AppendBehind
  <2>4. Append(decoder \o wire, "event") = decoder \o Append(wire, "event")
    BY <2>2, <2>3 DEF Behind
  <2>5. Feed(decoder, Append(wire, "event")).events = Pending(decoder, wire)
    BY <2>4 DEF Feed, Pending, Decode
  <2> QED
    BY <2>1, <2>5 DEF NothingLost
<1>5. OnlyCloseEnds
  BY <1>1 DEF OnlyCloseEnds, Remembers
<1> QED
  BY <1>3, <1>4, <1>5 DEF StreamTrue

\* While a connection of the SDK's stream lasts nothing of the channel is lost,
\* repeated or out of order, for any messages, line ends and cuts of the chunks; and
\* once it was connected only close() ends it (SSEDecoder.feed, stream).
THEOREM StreamIsTrue == StreamSpec => []StreamTrue
BY StreamInvariant, StreamIs, PTL
=============================================================================
