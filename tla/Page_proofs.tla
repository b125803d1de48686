------------------------------ MODULE Page_proofs ------------------------------
(***************************************************************************)
(* Who sends files, for any numbers of them: a run of send.ts sends to the *)
(* peer meant, the page reports no dropped file as delivered or saved that *)
(* is not (DropQueue), and its connections do not take each other's        *)
(* messages (BrowserPeer).                                                 *)
(*                                                                         *)
(* Send: SentTrue speaks of what was received; Meant carries it from the   *)
(* list over the choice, and Sent what the run knows of each file.         *)
(* Drops: chunks carry no id, so that a stored file is its own by counting *)
(* (Counted): on the ordered wire the chunks between a start and an end    *)
(* are those of the loop that sent both, and a strange one makes too many. *)
(* Peers: a handshake is at one place at a time (Places), and a connection *)
(* is replaced only when its handshake is done (Settled), which the list   *)
(* the page shows tells (Listed); a receiver does not come back under its  *)
(* id (NoneReturns), so that each has at most one further connection.      *)
(***************************************************************************)
EXTENDS SendTarget, BrowserPeer, DropQueue, FiniteSetTheorems, WellFoundedInduction, TLAPS


\* The choice was the right one in the list, which is not asked for again.
Meant ==
  chosen # None =>
    /\ stage \in {"answer", "send", "exited"}
    /\ chosen.name \in Longer \cup {Wanted}
    /\ chosen.name \in Longer => \A p \in listed \ {Self} : p.name \in Unlike \/ p = chosen

\* What arrived came from here, and what counts as sent has arrived.
Sent ==
  /\ stage \in {"answer", "send"} => chosen # None
  /\ \A r \in received : r[2] = chosen /\ chosen # None
  /\ \A f \in FileList : counted[f] = "ok" => <<f, chosen>> \in received

\* Exit code 0 of a run that sends follows the last file.
Zero ==
  /\ code # None => stage = "exited"
  /\ code = 0 /\ asked = "send" => chosen # None /\ \A f \in FileList : counted[f] = "ok"

SendInv == SendTypeOK /\ Meant /\ Sent /\ Zero

-----------------------------------------------------------------------------
LEMMA SendBegins == SendInit => SendInv
<1> SUFFICES ASSUME SendInit PROVE SendInv
  OBVIOUS
<1>1. SendTypeOK
  <2>1. 0 \in 0..MaxJoins
    BY SendAssumption DEF SendAssumption
  <2>2. online \in [PeerNames -> 0..MaxJoins] /\ joined \in 0..MaxJoins
    BY <2>1 DEF SendInit
  <2>3. counted \in [FileList -> {"pending", "ok", "fail"}]
    BY DEF SendInit
  <2>4. listed \subseteq Peer /\ received \subseteq FileList \X Peer
    BY DEF SendInit
  <2>5. /\ own \in PeerNames /\ asked \in {"send", "list"}
        /\ stage = "start" /\ chosen = None /\ dataChannel = "none"
        /\ limit = FALSE /\ code = None
    BY DEF SendInit
  <2> QED
    BY <2>2, <2>3, <2>4, <2>5 DEF SendTypeOK
<1>2. code # 0 /\ chosen = None /\ stage = "start" /\ received = {}
  BY SendAssumption DEF SendInit, SendAssumption
<1>3. \A f \in FileList : counted[f] # "ok"
  BY DEF SendInit
<1>4. code = None
  BY DEF SendInit
<1>5. Meant /\ Sent /\ Zero
  BY <1>2, <1>3, <1>4 DEF Meant, Sent, Zero
<1> QED
  BY <1>1, <1>5 DEF SendInv

\* resolveTarget: the only peer of that name, or of a name like it.
LEMMA ResolveMeans ==
  ASSUME listed \subseteq Peer, NEW p \in Resolve(listed)
  PROVE  /\ p \in Peer /\ p.name \in Longer \cup {Wanted}
         /\ p.name \in Longer => \A q \in listed \ {Self} : q.name \in Unlike \/ q = p
<1> DEFINE others == listed \ {Self}
<1>1. CASE Exact(others) # {}
  BY <1>1, SendAssumption DEF Resolve, TheOne, Exact, SendAssumption
<1>2. CASE Exact(others) = {}
  <2>1. Containing(others) = {p} /\ p \in others
    BY <1>2 DEF Resolve, TheOne, Containing
  <2>2. \A q \in others : q.name \in PeerNames
    BY DEF Peer
  <2> QED
    BY <2>1, <2>2 DEF Containing, PeerNames
<1> QED
  BY <1>1, <1>2

LEMMA PeersKeep ==
  ASSUME SendInv, NEW n \in PeerNames, PeerJoins(n) \/ PeerLeaves(n)
  PROVE  SendInv'
<1>1. SendTypeOK'
  <2>1. CASE PeerJoins(n)
    BY <2>1, SendAssumption DEF PeerJoins, SendInv, SendTypeOK, SendAssumption
  <2>2. CASE PeerLeaves(n)
    BY <2>2, SendAssumption DEF PeerLeaves, SendInv, SendTypeOK, SendAssumption
  <2> QED
    BY <2>1, <2>2
<1>2. UNCHANGED <<own, asked, stage, listed, chosen, counted, received, code>>
  BY DEF PeerJoins, PeerLeaves
<1>3. Meant' /\ Sent' /\ Zero'
  BY <1>2 DEF SendInv, Meant, Sent, Zero, Self
<1> QED
  BY <1>1, <1>3 DEF SendInv

\* An exit keeps what the run has; with 0 it must have all of it.
LEMMA ExitKeeps ==
  ASSUME SendInv, NEW c \in {0, 1, 2}, ExitWith(c), Kept, UNCHANGED <<listed, chosen, dataChannel, counted, received>>,
         c = 0 /\ asked = "send" => chosen # None /\ \A f \in FileList : counted[f] = "ok"
  PROVE  SendInv'
<1>1. SendTypeOK'
  BY DEF SendInv, SendTypeOK, ExitWith, Kept
<1>2. Meant' /\ Sent' /\ Zero'
  BY DEF SendInv, Meant, Sent, Zero, ExitWith, Kept, Self
<1> QED
  BY <1>1, <1>2 DEF SendInv

LEMMA SendStepHolds == SendInv /\ [SendNext]_sendVars => SendInv'
<1> SUFFICES ASSUME SendInv, [SendNext]_sendVars PROVE SendInv'
  OBVIOUS
<1>t. SendTypeOK /\ Meant /\ Sent /\ Zero
  BY DEF SendInv
<1>1. ASSUME NEW n \in PeerNames, PeerJoins(n) \/ PeerLeaves(n) PROVE SendInv'
  BY <1>1, PeersKeep
<1>2. CASE FileMissing \/ NameTaken \/ NoTarget \/ Timeout \/ SocketError \/ LinkError \/ PrintList
  <2>1. CASE PrintList
    BY <2>1, ExitKeeps DEF PrintList
  <2>2. CASE ~PrintList
    <3>1. PICK c \in {1, 2} : ExitWith(c) /\ Kept /\ UNCHANGED <<listed, chosen, dataChannel, counted, received>>
      BY <1>2, <2>2 DEF FileMissing, NameTaken, NoTarget, Timeout, SocketError, LinkError
    <3> QED
      BY <3>1, ExitKeeps
  <2> QED
    BY <2>1, <2>2
<1>3. CASE Done
  <2>1. CASE \E f \in FileList : counted[f] = "fail"
    BY <1>3, <2>1, ExitKeeps DEF Done
  <2>2. CASE ~\E f \in FileList : counted[f] = "fail"
    <3>1. \A f \in FileList : counted[f] = "ok"
      BY <1>t, <1>3, <2>2 DEF Done, SendTypeOK
    <3>2. chosen # None
      BY <1>t, <1>3 DEF Done, Sent
    <3> QED
      BY <1>3, <2>2, <3>1, <3>2, ExitKeeps DEF Done
  <2> QED
    BY <2>1, <2>2
<1>4. CASE Start \/ Welcome \/ Snapshot \/ ChannelOpen \/ ChannelBreaks
  <2>1. SendTypeOK'
    <3>1. CASE Start \/ Welcome \/ ChannelOpen \/ ChannelBreaks
      BY <1>t, <3>1 DEF SendTypeOK, Start, Welcome, ChannelOpen, ChannelBreaks, Goes, Kept
    <3>2. CASE Snapshot
      <4>1. listed' \subseteq Peer
        BY <1>t, <3>2, SendAssumption DEF Snapshot, Room, Self, Peer, SendTypeOK, SendAssumption
      <4> QED
        BY <1>t, <3>2, <4>1 DEF SendTypeOK, Snapshot, Goes, Kept
    <3> QED
      BY <1>4, <3>1, <3>2
  <2>2. UNCHANGED <<own, asked, chosen, counted, received, code>> /\ (stage # "welcome" => listed' = listed)
    BY <1>4 DEF Start, Welcome, Snapshot, ChannelOpen, ChannelBreaks, Goes, Kept
  <2>3. \/ stage' = stage
        \/ stage \notin {"answer", "send", "exited"} /\ stage' \in {"socket", "welcome", "list"}
        \/ stage = "answer" /\ stage' = "send"
    BY <1>4 DEF Start, Welcome, Snapshot, ChannelOpen, ChannelBreaks, Goes
  <2>4. Meant' /\ Sent' /\ Zero'
    BY <1>t, <2>2, <2>3 DEF Meant, Sent, Zero, Self
  <2> QED
    BY <2>1, <2>4 DEF SendInv
<1>5. CASE Offer
  <2>1. PICK p \in Resolve(listed) :
          chosen' = p /\ dataChannel' = IF online[p.name] = p.id THEN "offered" ELSE "broken"
    BY <1>5 DEF Offer
  <2>2. /\ p \in Peer /\ p # None /\ p.name \in Longer \cup {Wanted}
        /\ p.name \in Longer => \A q \in listed \ {Self} : q.name \in Unlike \/ q = p
    BY <1>t, ResolveMeans, SendAssumption DEF SendTypeOK, SendAssumption
  <2>3. /\ stage = "list" /\ stage' = "answer" /\ chosen = None
        /\ UNCHANGED <<own, asked, online, joined, listed, limit, counted, received, code>>
    BY <1>t, <1>5 DEF Offer, Goes, Kept, Meant
  <2>4. SendTypeOK'
    BY <1>t, <2>1, <2>2, <2>3 DEF SendTypeOK
  <2>5. Meant'
    BY <2>1, <2>2, <2>3 DEF Meant, Self
  <2>6. Sent' /\ Zero'
    BY <1>t, <2>1, <2>2, <2>3 DEF Sent, Zero
  <2> QED
    BY <2>4, <2>5, <2>6 DEF SendInv
<1>6. ASSUME NEW f \in FileList, NEW result \in {"ok", "fail"}, SendFile(f, result) PROVE SendInv'
  <2>1. chosen # None /\ chosen \in Peer
    BY <1>t, <1>6 DEF SendFile, Sent, SendTypeOK
  <2>2. /\ counted' = [counted EXCEPT ![f] = result]
        /\ received' \in {received, received \cup {<<f, chosen>>}}
        /\ result = "ok" => <<f, chosen>> \in received'
        /\ UNCHANGED <<own, asked, online, joined, stage, listed, chosen, dataChannel, limit, code>>
    BY <1>6 DEF SendFile, Kept
  <2>3. SendTypeOK'
    BY <1>t, <2>1, <2>2 DEF SendTypeOK
  <2>4. Meant'
    BY <1>t, <2>2 DEF Meant, Self
  <2>5. Sent'
    BY <1>t, <2>1, <2>2 DEF Sent, SendTypeOK
  <2>6. Zero'
    BY <1>t, <1>6, <2>2, SendAssumption DEF Zero, SendFile, SendAssumption
  <2> QED
    BY <2>3, <2>4, <2>5, <2>6 DEF SendInv
<1>7. CASE UNCHANGED sendVars
  BY <1>t, <1>7 DEF sendVars, SendInv, SendTypeOK, Meant, Sent, Zero, Self
<1> QED
  BY <1>1, <1>2, <1>3, <1>4, <1>5, <1>6, <1>7 DEF SendNext, RunStep

\* The inductive invariant of a run of send.ts.
THEOREM SendInvariant == SendSpec => []SendInv
  BY SendBegins, SendStepHolds, PTL DEF SendSpec

\* No file reaches a peer that was not meant, and exit code 0 follows a
\* confirmation of every file (resolveTarget, run, send.ts).
THEOREM SentIsTrue == SendSpec => []SentTrue
<1>1. SendInv => SentTrue
  <2> SUFFICES ASSUME SendInv PROVE OnlyNamed /\ ZeroIsDelivered
    BY DEF SentTrue
  <2>1. OnlyNamed
    BY DEF SendInv, Meant, Sent, OnlyNamed
  <2>2. ZeroIsDelivered
    BY DEF SendInv, Sent, Zero, ZeroIsDelivered, SendTypeOK
  <2> QED
    BY <2>1, <2>2
<1> QED
  BY <1>1, SendInvariant, PTL

-----------------------------------------------------------------------------
(* DropQueue. *)

DropTypes ==
  /\ pos \in [Loops -> Nat] /\ step \in [Loops -> {"next", "sending", "waiting", "http"}]
  /\ offset \in [Loops -> Nat]
  /\ outcome \in [Files -> {"none", "rejected", "failed", "delivered", "saved"}]
  /\ channel \in {"none", "open", "closed"} /\ acks \subseteq Files
  /\ wire \in Seq({"start", "chunk", "end"} \X Files) /\ back \in Seq(Files \X BOOLEAN)
  /\ active \in Files \cup {NoFile} /\ got \in Seq(Files)
  /\ DOMAIN stored = Files
  /\ busy \in BOOLEAN /\ http \in [Loops -> {"none", "sent", "reading", "ok", "refused"}]
  /\ dir \in [Names -> Files \cup {NoFile}] /\ second \in 0..MaxSecond /\ crashes \in Nat
  /\ \A l \in Loops : pos[l] \in 1..(Len(Drops[l]) + 1)

\* How often x is in s.
Times(s, x) == Cardinality({i \in DOMAIN s : s[i] = x})

\* A transfer the receiver has begun or is about to, and the chunks it will have.
Begun(f) == active = f \/ \E i \in DOMAIN wire : wire[i] = <<"start", f>>
Total(f) == Times(wire, <<"chunk", f>>) + (IF active = f THEN Times(got, f) ELSE 0)

\* The place i of drop l whose file nothing has been sent of.
Unsent(l, i) == i > pos[l] \/ (i = pos[l] /\ step[l] \in {"next", "http"})

\* A file's messages are on the wire from its start to its end.
WireOrder ==
  /\ channel # "open" => wire = <<>> /\ back = <<>> /\ active = NoFile /\ got = <<>>
  /\ \A i, j \in DOMAIN wire : i < j /\ wire[i][2] = wire[j][2] => wire[j][1] # "start" /\ wire[i][1] # "end"
  /\ \A i \in DOMAIN wire : wire[i][1] = "start" => active # wire[i][2]
  /\ \A l \in Loops : \A i \in DOMAIN Drops[l] : Unsent(l, i) =>
       active # Drops[l][i] /\ \A k \in DOMAIN wire : wire[k][2] # Drops[l][i]
  /\ \A l \in Loops : At(l, "sending") => \A k \in DOMAIN wire : wire[k] # <<"end", File(l)>>

\* No chunk is lost on the way.
Counted ==
  /\ \A l \in Loops : step[l] = "next" => offset[l] = 0
  /\ \A l \in Loops : At(l, "sending") /\ Begun(File(l)) => Total(File(l)) = offset[l]
  /\ \A f \in Files : Begun(f) /\ (\E k \in DOMAIN wire : wire[k] = <<"end", f>>) => Total(f) = Chunks[f]

AllOf(f) == [i \in 1..Chunks[f] |-> f]
StoredWhole ==
  /\ \A i \in DOMAIN back : back[i][2] => stored[back[i][1]] = AllOf(back[i][1])
  /\ \A f \in Files : outcome[f] = "delivered" => stored[f] = AllOf(f)

\* The place i of drop l whose file has no name yet.
Unnamed(l, i) == i > pos[l] \/ (i = pos[l] /\ (step[l] = "next" \/ http[l] \in {"sent", "reading"}))
Has(f) == \E n \in Names : dir[n] = f
Named ==
  /\ \A m, n \in Names : dir[m] = dir[n] /\ dir[m] # NoFile => m = n
  /\ \A l \in Loops : \A i \in DOMAIN Drops[l] : Unnamed(l, i) => ~Has(Drops[l][i])
  /\ \A l \in Loops : http[l] # "none" => At(l, "http")
  /\ \A l \in Loops : http[l] = "ok" => Has(File(l))
  /\ \A f \in Files : outcome[f] = "saved" => Has(f)

WireInv == WireOrder /\ Counted /\ StoredWhole
DropInv == DropTypes /\ WireInv /\ Named
-----------------------------------------------------------------------------
(* How often something is in a sequence. *)

LEMMA TimesNat ==
  ASSUME NEW S, NEW s \in Seq(S), NEW x
  PROVE  IsFiniteSet({i \in DOMAIN s : s[i] = x}) /\ Times(s, x) \in Nat
<1>1. DOMAIN s = 1..Len(s) /\ Len(s) \in Nat
  OBVIOUS
<1>2. IsFiniteSet(DOMAIN s)
  BY <1>1, FS_Interval
<1> QED
  BY <1>2, FS_Subset, FS_CardinalityType DEF Times

LEMMA TimesNone ==
  ASSUME NEW s, NEW x, \A i \in DOMAIN s : s[i] # x
  PROVE  Times(s, x) = 0
<1>1. {i \in DOMAIN s : s[i] = x} = {}
  OBVIOUS
<1> QED
  BY <1>1, FS_EmptySet DEF Times

LEMMA TimesAppend ==
  ASSUME NEW S, NEW s \in Seq(S), NEW y \in S, NEW x
  PROVE  Times(Append(s, y), x) = Times(s, x) + (IF y = x THEN 1 ELSE 0)
<1> DEFINE P == {i \in DOMAIN s : s[i] = x}
           Q == {i \in DOMAIN Append(s, y) : Append(s, y)[i] = x}
           n == Len(s) + 1
<1>1. n \notin P
  OBVIOUS
<1>0. IsFiniteSet(P) /\ Cardinality(P) \in Nat
  BY TimesNat DEF Times
<1>2. Q = IF y = x THEN P \cup {n} ELSE P
  OBVIOUS
<1>3. Cardinality(P \cup {n}) = Cardinality(P) + 1
  <2> HIDE DEF P, n
  <2> QED
    BY <1>0, <1>1, FS_AddElement
<1>4. Times(s, x) = Cardinality(P) /\ Times(Append(s, y), x) = Cardinality(Q)
  BY DEF Times
<1> HIDE DEF P, Q, n
<1> QED
  BY <1>0, <1>2, <1>3, <1>4

LEMMA TimesTail ==
  ASSUME NEW S, NEW s \in Seq(S), s # <<>>, NEW x
  PROVE  Times(s, x) = Times(Tail(s), x) + (IF Head(s) = x THEN 1 ELSE 0)
<1> DEFINE t == Tail(s)
           P == {i \in DOMAIN t : t[i] = x}
           Q == {i \in DOMAIN s : s[i] = x}
           f == [i \in P |-> i + 1]
<1>1. /\ t \in Seq(S) /\ Len(s) \in Nat /\ DOMAIN s = 1..Len(s) /\ DOMAIN t = 1..(Len(s) - 1)
      /\ \A i \in DOMAIN t : t[i] = s[i + 1]
      /\ 1 \in DOMAIN s /\ Head(s) = s[1]
  OBVIOUS
<1> HIDE DEF t
<1>2. IsFiniteSet(P) /\ Cardinality(P) \in Nat /\ IsFiniteSet(Q) /\ Cardinality(Q) \in Nat
  BY <1>1, TimesNat DEF Times
<1>3. f \in Bijection(P, Q \ {1})
  <2>1. \A i \in P : f[i] \in Q \ {1} /\ i \in Nat
    BY <1>1
  <2>2. \A q \in Q \ {1} : q - 1 \in P /\ f[q - 1] = q
    <3> SUFFICES ASSUME NEW q \in Q \ {1} PROVE q - 1 \in P /\ f[q - 1] = q
      OBVIOUS
    <3>1. q - 1 \in P
      BY <1>1
    <3> QED
      BY <1>1, <3>1
  <2>3. \A i, j \in P : f[i] = f[j] => i = j
    BY <2>1
  <2> QED
    BY <2>1, <2>2, <2>3 DEF Bijection, Injection, Surjection, IsInjective
<1>4. Cardinality(Q \ {1}) = Cardinality(P)
  <2> HIDE DEF P, Q, f
  <2> QED
    BY <1>2, <1>3, FS_Bijection DEF ExistsBijection
<1>5. Cardinality(Q \ {1}) = IF 1 \in Q THEN Cardinality(Q) - 1 ELSE Cardinality(Q)
  <2> HIDE DEF P, Q, f
  <2> QED
    BY <1>2, FS_RemoveElement
<1>6. 1 \in Q <=> Head(s) = x
  BY <1>1
<1>7. Times(s, x) = Cardinality(Q) /\ Times(Tail(s), x) = Cardinality(P)
  BY DEF Times, t
<1> HIDE DEF P, Q, f
<1> QED
  BY <1>2, <1>4, <1>5, <1>6, <1>7

LEMMA TimesAll ==
  ASSUME NEW S, NEW s \in Seq(S), NEW x, Times(s, x) = Len(s)
  PROVE  s = [i \in 1..Len(s) |-> x]
<1> DEFINE P == {i \in DOMAIN s : s[i] = x}
<1>1. DOMAIN s = 1..Len(s) /\ Len(s) \in Nat
  OBVIOUS
<1>2. IsFiniteSet(1..Len(s)) /\ Cardinality(1..Len(s)) = Len(s)
  <2>1. 1 \in Int /\ Len(s) \in Int /\ (IF 1 > Len(s) THEN 0 ELSE Len(s) - 1 + 1) = Len(s)
    BY <1>1
  <2>2. /\ IsFiniteSet(1..Len(s))
        /\ Cardinality(1..Len(s)) = IF 1 > Len(s) THEN 0 ELSE Len(s) - 1 + 1
    BY <2>1, FS_Interval
  <2> QED
    BY <2>1, <2>2
<1>3. P \in SUBSET (1..Len(s)) /\ Cardinality(P) = Len(s)
  BY <1>1 DEF Times
<1>4. P = 1..Len(s)
  <2> HIDE DEF P
  <2> QED
    BY <1>2, <1>3, FS_Subset
<1> QED
  BY <1>1, <1>4

-----------------------------------------------------------------------------
(* The loops of the page. *)

LEMMA FileIs ==
  ASSUME NEW l \in Loops, NEW i \in DOMAIN Drops[l]
  PROVE  /\ Drops[l][i] \in Files /\ Chunks[Drops[l][i]] \in Nat /\ Drops[l][i] # NoFile
         /\ Len(Drops[l]) \in Nat /\ i \in 1..Len(Drops[l])
<1>1. Drops[l] \in Seq(Files)
  BY DropAssumption DEF DropAssumption, Loops
<1> QED
  BY <1>1, DropAssumption DEF DropAssumption

LEMMA Once ==
  ASSUME NEW l \in Loops, NEW m \in Loops, NEW i \in DOMAIN Drops[l], NEW j \in DOMAIN Drops[m],
         Drops[l][i] = Drops[m][j]
  PROVE  l = m /\ i = j
BY DropAssumption DEF DropAssumption, Loops

LEMMA FileAt ==
  ASSUME DropTypes, NEW l \in Loops, pos[l] <= Len(Drops[l])
  PROVE  /\ pos[l] \in DOMAIN Drops[l] /\ File(l) \in Files /\ Size(l) \in Nat /\ File(l) # NoFile
         /\ \A m \in Loops : \A i \in DOMAIN Drops[m] : Drops[m][i] = File(l) => m = l /\ i = pos[l]
<1>1. Drops[l] \in Seq(Files) /\ pos[l] \in 1..(Len(Drops[l]) + 1)
  BY DropAssumption DEF DropAssumption, DropTypes, Loops
<1>2. pos[l] \in DOMAIN Drops[l]
  BY <1>1
<1>3. \A m \in Loops : \A i \in DOMAIN Drops[m] : Drops[m][i] = File(l) => m = l /\ i = pos[l]
  <2> SUFFICES ASSUME NEW m \in Loops, NEW i \in DOMAIN Drops[m], Drops[m][i] = Drops[l][pos[l]]
               PROVE  m = l /\ i = pos[l]
    BY DEF File
  <2> QED
    BY <1>2, Once
<1> QED
  BY <1>2, <1>3, FileIs DEF File, Size

\* What a report changes.
LEMMA Reported ==
  ASSUME DropTypes, NEW l \in Loops, pos[l] <= Len(Drops[l]),
         NEW w \in {"rejected", "failed", "delivered", "saved"}, Report(l, w)
  PROVE  /\ pos' \in [Loops -> Nat] /\ step' \in [Loops -> {"next", "sending", "waiting", "http"}]
         /\ offset' \in [Loops -> Nat]
         /\ outcome' \in [Files -> {"none", "rejected", "failed", "delivered", "saved"}]
         /\ \A m \in Loops : pos'[m] \in 1..(Len(Drops[m]) + 1)
         /\ pos'[l] = pos[l] + 1 /\ step'[l] = "next" /\ offset'[l] = 0
         /\ \A m \in Loops : m # l => pos'[m] = pos[m] /\ step'[m] = step[m] /\ offset'[m] = offset[m]
         /\ outcome'[File(l)] = w
         /\ \A f \in Files \ {File(l)} : outcome'[f] = outcome[f]
<1>1. /\ pos \in [Loops -> Nat] /\ step \in [Loops -> {"next", "sending", "waiting", "http"}]
      /\ offset \in [Loops -> Nat]
      /\ outcome \in [Files -> {"none", "rejected", "failed", "delivered", "saved"}]
      /\ \A m \in Loops : pos[m] \in 1..(Len(Drops[m]) + 1)
  BY DEF DropTypes
<1>2. File(l) \in Files
  BY FileAt
<1>3. /\ outcome' = [outcome EXCEPT ![File(l)] = w]
      /\ pos' = [pos EXCEPT ![l] = @ + 1] /\ step' = [step EXCEPT ![l] = "next"]
      /\ offset' = [offset EXCEPT ![l] = 0]
  BY DEF Report
<1>4. Len(Drops[l]) \in Nat
  BY FileAt, FileIs
<1>5. \A m \in Loops : pos'[m] \in 1..(Len(Drops[m]) + 1)
  <2>1. pos'[l] = pos[l] + 1 /\ pos[l] \in Nat /\ pos[l] \in 1..Len(Drops[l])
    BY <1>1, <1>3, <1>4
  <2>2. \A m \in Loops : m # l => pos'[m] = pos[m]
    BY <1>1, <1>3
  <2>3. pos'[l] \in 1..(Len(Drops[l]) + 1)
    BY <1>4, <2>1
  <2> QED
    BY <1>1, <2>2, <2>3
<1>6. /\ pos' \in [Loops -> Nat] /\ pos'[l] = pos[l] + 1
      /\ \A m \in Loops : m # l => pos'[m] = pos[m]
  BY <1>1, <1>3
<1>7. /\ step' \in [Loops -> {"next", "sending", "waiting", "http"}] /\ step'[l] = "next"
      /\ \A m \in Loops : m # l => step'[m] = step[m]
  BY <1>1, <1>3
<1>8. /\ offset' \in [Loops -> Nat] /\ offset'[l] = 0
      /\ \A m \in Loops : m # l => offset'[m] = offset[m]
  BY <1>1, <1>3
<1>9. /\ outcome' \in [Files -> {"none", "rejected", "failed", "delivered", "saved"}]
      /\ outcome'[File(l)] = w /\ \A f \in Files \ {File(l)} : outcome'[f] = outcome[f]
  BY <1>1, <1>2, <1>3
<1> QED
  BY <1>5, <1>6, <1>7, <1>8, <1>9

\* What going on to another step changes.
LEMMA Gone ==
  ASSUME DropTypes, NEW l \in Loops, NEW s \in {"sending", "waiting", "http"}, Go(l, s)
  PROVE  /\ UNCHANGED <<pos, outcome>> /\ step' \in [Loops -> {"next", "sending", "waiting", "http"}]
         /\ step'[l] = s /\ \A m \in Loops : m # l => step'[m] = step[m]
BY DEF DropTypes, Go

\* A step that sends nothing, and of which the receiver reads nothing.
Onward ==
  /\ \A m \in Loops : \A i \in DOMAIN Drops[m] : Unsent(m, i)' => Unsent(m, i)
  /\ \A m \in Loops : At(m, "sending")' => At(m, "sending") /\ pos'[m] = pos[m] /\ offset'[m] = offset[m]
  /\ \A m \in Loops : step'[m] = "next" => offset'[m] = 0

LEMMA ReportOnward ==
  ASSUME DropTypes, Counted, NEW l \in Loops, pos[l] <= Len(Drops[l]),
         NEW w \in {"rejected", "failed", "delivered", "saved"}, Report(l, w)
  PROVE  Onward
<1>1. /\ \A m \in Loops : pos[m] \in Nat /\ pos'[m] \in Nat
      /\ pos'[l] = pos[l] + 1 /\ step'[l] = "next" /\ offset'[l] = 0
      /\ \A m \in Loops : m # l => pos'[m] = pos[m] /\ step'[m] = step[m] /\ offset'[m] = offset[m]
  <2>1. /\ pos' \in [Loops -> Nat] /\ pos'[l] = pos[l] + 1 /\ step'[l] = "next" /\ offset'[l] = 0
        /\ \A m \in Loops : m # l => pos'[m] = pos[m] /\ step'[m] = step[m] /\ offset'[m] = offset[m]
    BY Reported
  <2>2. pos \in [Loops -> Nat]
    BY DEF DropTypes
  <2> QED
    BY <2>1, <2>2
<1>2. \A m \in Loops : \A i \in DOMAIN Drops[m] : i \in Nat
  BY FileIs
<1>3. \A m \in Loops : \A i \in DOMAIN Drops[m] : Unsent(m, i)' => Unsent(m, i)
  <2> SUFFICES ASSUME NEW m \in Loops, NEW i \in DOMAIN Drops[m], Unsent(m, i)'
               PROVE  Unsent(m, i)
    OBVIOUS
  <2>1. CASE m = l
    BY <1>1, <1>2, <2>1 DEF Unsent
  <2>2. CASE m # l
    BY <1>1, <2>2 DEF Unsent
  <2> QED
    BY <2>1, <2>2
<1>4. \A m \in Loops : At(m, "sending")' => At(m, "sending") /\ pos'[m] = pos[m] /\ offset'[m] = offset[m]
  BY <1>1 DEF At
<1>5. \A m \in Loops : step'[m] = "next" => offset'[m] = 0
  <2>1. \A m \in Loops : step[m] = "next" => offset[m] = 0
    BY DEF Counted
  <2> QED
    BY <1>1, <2>1
<1> QED
  BY <1>3, <1>4, <1>5 DEF Onward

LEMMA StillOnward == ASSUME Counted, UNCHANGED <<pos, step, offset>> PROVE Onward
BY DEF Onward, Counted, Unsent, At

\* The wire and the receiver are left alone; answers may be read, or lost.
LEMMA WireStays ==
  ASSUME WireInv, Onward, UNCHANGED <<wire, active, got, stored>>,
         channel' # "open" => wire = <<>> /\ back' = <<>> /\ active = NoFile /\ got = <<>>,
         \A i \in DOMAIN back' : \E j \in DOMAIN back : back'[i] = back[j],
         \A f \in Files : outcome'[f] = "delivered" => stored[f] = AllOf(f)
  PROVE  WireInv'
<1>1. WireOrder'
  BY DEF WireInv, WireOrder, Onward, At, File
<1>2. \A f : (Begun(f)' <=> Begun(f)) /\ Total(f)' = Total(f)
  BY DEF Begun, Total, Times
<1>3. Counted'
  <2>1. \A m \in Loops : At(m, "sending")' /\ Begun(File(m))' => Total(File(m))' = offset'[m]
    <3> SUFFICES ASSUME NEW m \in Loops, At(m, "sending")', Begun(File(m))'
                 PROVE  Total(File(m))' = offset'[m]
      OBVIOUS
    <3>1. At(m, "sending") /\ File(m)' = File(m) /\ offset'[m] = offset[m]
      BY DEF Onward, File
    <3>2. Begun(File(m)) /\ Total(File(m))' = Total(File(m))
      BY <3>1 DEF Begun, Total, Times
    <3> QED
      BY <3>1, <3>2 DEF WireInv, Counted
  <2>2. \A f \in Files : Begun(f)' /\ (\E k \in DOMAIN wire' : wire'[k] = <<"end", f>>) => Total(f)' = Chunks[f]
    BY <1>2 DEF WireInv, Counted
  <2>3. \A m \in Loops : step'[m] = "next" => offset'[m] = 0
    BY DEF Onward
  <2> QED
    BY <2>1, <2>2, <2>3 DEF Counted
<1>4. StoredWhole'
  BY DEF WireInv, StoredWhole, AllOf
<1> QED
  BY <1>1, <1>3, <1>4 DEF WireInv

-----------------------------------------------------------------------------
(* The wire. *)

LEMMA WireParts ==
  ASSUME DropTypes
  PROVE  /\ wire \in Seq({"start", "chunk", "end"} \X Files) /\ got \in Seq(Files) /\ back \in Seq(Files \X BOOLEAN)
         /\ active \in Files \cup {NoFile} /\ NoFile \notin Files
         /\ \A i \in DOMAIN wire : /\ wire[i][1] \in {"start", "chunk", "end"} /\ wire[i][2] \in Files
                                   /\ wire[i] = <<wire[i][1], wire[i][2]>>
<1>1. /\ wire \in Seq({"start", "chunk", "end"} \X Files) /\ got \in Seq(Files) /\ back \in Seq(Files \X BOOLEAN)
      /\ active \in Files \cup {NoFile}
  BY DEF DropTypes
<1>2. \A i \in DOMAIN wire : wire[i] \in {"start", "chunk", "end"} \X Files
  BY <1>1
<1> QED
  BY <1>1, <1>2, DropAssumption DEF DropAssumption

\* A loop sends a message of the file it is at: the first, one more or the last.
LEMMA WireGrows ==
  ASSUME DropTypes, WireInv, NEW l \in Loops, NEW k \in {"start", "chunk", "end"},
         channel = "open", wire' = Append(wire, <<k, File(l)>>),
         UNCHANGED <<channel, back, active, got, stored, pos, outcome>>,
         k = "start" => At(l, "next") /\ step'[l] = "sending" /\ offset'[l] = offset[l],
         k = "chunk" => At(l, "sending") /\ step'[l] = "sending" /\ offset'[l] = offset[l] + 1,
         k = "end" => At(l, "sending") /\ step'[l] = "waiting" /\ offset[l] = Size(l),
         \A m \in Loops : m # l => step'[m] = step[m] /\ offset'[m] = offset[m]
  PROVE  WireInv'
<1> DEFINE F == File(l)
           n == Len(wire) + 1
<1>1. /\ wire \in Seq({"start", "chunk", "end"} \X Files) /\ got \in Seq(Files)
      /\ active \in Files \cup {NoFile} /\ NoFile \notin Files /\ offset[l] \in Nat /\ Len(wire) \in Nat
      /\ \A i \in DOMAIN wire : /\ wire[i][1] \in {"start", "chunk", "end"} /\ wire[i][2] \in Files
                                /\ wire[i] = <<wire[i][1], wire[i][2]>>
  BY WireParts DEF DropTypes
<1>2. pos[l] <= Len(Drops[l])
  BY DEF At
<1>3. /\ F \in Files /\ pos[l] \in DOMAIN Drops[l] /\ F = Drops[l][pos[l]]
      /\ \A m \in Loops : \A i \in DOMAIN Drops[m] : Drops[m][i] = F => m = l /\ i = pos[l]
  BY <1>2, FileAt DEF File
<1>4. \A m \in Loops : m # l /\ At(m, "sending") => File(m) # F
  <2> SUFFICES ASSUME NEW m \in Loops, m # l, At(m, "sending") PROVE File(m) # F
    OBVIOUS
  <2>1. pos[m] \in DOMAIN Drops[m]
    BY FileAt DEF At
  <2> QED
    BY <1>3, <2>1 DEF File
<1> HIDE DEF F
<1>5. /\ DOMAIN wire' = 1..n /\ DOMAIN wire = 1..Len(wire) /\ wire'[n] = <<k, F>>
      /\ \A i \in DOMAIN wire : i \in DOMAIN wire' /\ wire'[i] = wire[i] /\ i < n
      /\ \A i \in DOMAIN wire' : i \in DOMAIN wire \/ i = n
  BY <1>1, <1>3 DEF F
<1>6. WireOrder
  BY DEF WireInv
<1>7. k = "start" => active # F /\ \A i \in DOMAIN wire : wire[i][2] # F
  BY <1>3, <1>6 DEF WireOrder, Unsent, At
<1>8. k # "start" => \A i \in DOMAIN wire : wire[i] # <<"end", F>>
  BY <1>6 DEF WireOrder, F
<1> HIDE DEF n
<1>9. \A i \in DOMAIN wire : wire[i] # <<"end", F>>
  BY <1>1, <1>7, <1>8
<1>10. WireOrder'
  <2>1. channel' # "open" => wire' = <<>> /\ back' = <<>> /\ active' = NoFile /\ got' = <<>>
    OBVIOUS
  <2>2. \A i, j \in DOMAIN wire' : i < j /\ wire'[i][2] = wire'[j][2] => wire'[j][1] # "start" /\ wire'[i][1] # "end"
    <3> SUFFICES ASSUME NEW i \in DOMAIN wire', NEW j \in DOMAIN wire', i < j, wire'[i][2] = wire'[j][2]
                 PROVE  wire'[j][1] # "start" /\ wire'[i][1] # "end"
      OBVIOUS
    <3>1. i \in DOMAIN wire /\ wire'[i] = wire[i]
      <4>1. i # n
        BY <1>1, <1>5 DEF n
      <4> QED
        BY <1>5, <4>1
    <3>2. CASE j = n
      <4>1. wire[i][2] = F /\ wire'[j][1] = k
        BY <1>5, <3>1, <3>2
      <4>2. k # "start"
        BY <1>7, <3>1, <4>1
      <4>3. wire[i][1] # "end"
        BY <1>1, <1>9, <3>1, <4>1
      <4> QED
        BY <3>1, <4>1, <4>2, <4>3
    <3>3. CASE j \in DOMAIN wire
      <4>1. wire'[j] = wire[j]
        BY <1>5, <3>3
      <4> QED
        BY <1>6, <3>1, <3>3, <4>1 DEF WireOrder
    <3> QED
      BY <1>5, <3>2, <3>3
  <2>3. \A i \in DOMAIN wire' : wire'[i][1] = "start" => active' # wire'[i][2]
    <3> SUFFICES ASSUME NEW i \in DOMAIN wire', wire'[i][1] = "start" PROVE active # wire'[i][2]
      OBVIOUS
    <3>1. CASE i = n
      BY <1>5, <1>7, <3>1
    <3>2. CASE i \in DOMAIN wire
      BY <1>5, <1>6, <3>2 DEF WireOrder
    <3> QED
      BY <1>5, <3>1, <3>2
  <2>4. ASSUME NEW m \in Loops, NEW i \in DOMAIN Drops[m], Unsent(m, i)'
        PROVE  active' # Drops[m][i] /\ \A j \in DOMAIN wire' : wire'[j][2] # Drops[m][i]
    <3>1. Unsent(m, i) /\ Drops[m][i] # F
      <4>1. CASE m = l
        <5>1. step'[l] \in {"sending", "waiting"} /\ i > pos[l] /\ pos[l] \in Nat /\ i \in Nat
          BY <2>4, <4>1, FileIs DEF Unsent, DropTypes
        <5> QED
          BY <1>3, <4>1, <5>1 DEF Unsent
      <4>2. CASE m # l
        BY <1>3, <2>4, <4>2 DEF Unsent
      <4> QED
        BY <4>1, <4>2
    <3>2. active # Drops[m][i] /\ \A j \in DOMAIN wire : wire[j][2] # Drops[m][i]
      BY <1>6, <3>1 DEF WireOrder
    <3> QED
      BY <1>5, <3>1, <3>2
  <2>5. ASSUME NEW m \in Loops, At(m, "sending")', NEW j \in DOMAIN wire' PROVE wire'[j] # <<"end", File(m)'>>
    <3>0. File(m)' = File(m)
      BY DEF File
    <3>1. CASE m = l
      <4>1. k # "end" /\ File(m) = F
        BY <2>5, <3>1 DEF At, F
      <4> QED
        BY <1>5, <1>9, <3>0, <4>1
    <3>2. CASE m # l
      <4>1. At(m, "sending")
        BY <2>5, <3>2 DEF At
      <4>2. File(m) # F /\ \A i \in DOMAIN wire : wire[i] # <<"end", File(m)>>
        BY <1>4, <1>6, <3>2, <4>1 DEF WireOrder
      <4> QED
        BY <1>5, <3>0, <4>2
    <3> QED
      BY <3>1, <3>2
  <2> QED
    BY <2>1, <2>2, <2>3, <2>4, <2>5 DEF WireOrder
<1>11. ASSUME NEW f \in Files, f = F => k # "start", Begun(f)'
       PROVE  /\ Begun(f) /\ Total(f) \in Nat
              /\ Total(f)' = Total(f) + (IF k = "chunk" /\ f = F THEN 1 ELSE 0)
  <2>1. Begun(f)
    <3>1. CASE active' = f
      BY <3>1 DEF Begun
    <3>2. ASSUME NEW i \in DOMAIN wire', wire'[i] = <<"start", f>> PROVE Begun(f)
      <4>1. i # n
        BY <1>5, <1>11, <3>2
      <4> QED
        BY <1>5, <3>2, <4>1 DEF Begun
    <3> QED
      BY <1>11, <3>1, <3>2 DEF Begun
  <2>2. <<k, F>> \in {"start", "chunk", "end"} \X Files
    BY <1>3
  <2>3. /\ Times(wire, <<"chunk", f>>) \in Nat /\ Times(got, f) \in Nat
        /\ Times(wire', <<"chunk", f>>) = Times(wire, <<"chunk", f>>) + (IF <<k, F>> = <<"chunk", f>> THEN 1 ELSE 0)
    <3>1. Times(wire, <<"chunk", f>>) \in Nat
      BY <1>1, TimesNat
    <3>2. Times(got, f) \in Nat
      BY <1>1, TimesNat
    <3>3. wire' = Append(wire, <<k, F>>)
      BY DEF F
    <3>4. Times(Append(wire, <<k, F>>), <<"chunk", f>>)
            = Times(wire, <<"chunk", f>>) + (IF <<k, F>> = <<"chunk", f>> THEN 1 ELSE 0)
      <4> DEFINE S == {"start", "chunk", "end"} \X Files
                 y == <<k, F>>
                 x == <<"chunk", f>>
      <4>1. wire \in Seq(S) /\ y \in S
        BY <1>1, <2>2
      <4> HIDE DEF S, y, x
      <4>2. Times(Append(wire, y), x) = Times(wire, x) + (IF y = x THEN 1 ELSE 0)
        BY <4>1, TimesAppend
      <4> QED
        BY <4>2 DEF x, y
    <3> QED
      BY <3>1, <3>2, <3>3, <3>4
  <2>4. <<k, F>> = <<"chunk", f>> <=> k = "chunk" /\ f = F
    OBVIOUS
  <2>5. Total(f) = Times(wire, <<"chunk", f>>) + (IF active = f THEN Times(got, f) ELSE 0)
    BY DEF Total
  <2>6. Total(f)' = Times(wire', <<"chunk", f>>) + (IF active = f THEN Times(got, f) ELSE 0)
    BY DEF Total
  <2> QED
    BY <2>1, <2>3, <2>4, <2>5, <2>6
<1>12. Counted'
  <2>0. Counted /\ \A m \in Loops : step[m] = "next" => offset[m] = 0
    BY DEF WireInv, Counted
  <2>1. \A m \in Loops : step'[m] = "next" => offset'[m] = 0
    BY <2>0
  <2>2. ASSUME NEW m \in Loops, At(m, "sending")', Begun(File(m))'
        PROVE  Total(File(m))' = offset'[m]
    <3>0. pos'[m] = pos[m] /\ pos[m] <= Len(Drops[m]) /\ File(m)' = File(m) /\ File(m) \in Files
      BY <2>2, FileAt DEF At, File
    <3>4. PICK f \in Files : f = File(m)
      BY <3>0
    <3>5. Begun(f)' /\ Total(File(m))' = Total(f)'
      BY <2>2, <3>0, <3>4 DEF Begun, Total
    <3>1. CASE m # l
      <4>1. At(m, "sending") /\ offset'[m] = offset[m]
        BY <2>2, <3>1 DEF At
      <4>2. File(m) # F
        BY <1>4, <3>1, <4>1
      <4>3. Begun(f) /\ Total(f)' = Total(f) + 0 /\ Total(f) \in Nat
        BY <1>11, <3>4, <3>5, <4>2
      <4>4. Total(f) = offset[m]
        BY <2>0, <3>4, <4>1, <4>3 DEF Counted
      <4> QED
        BY <3>5, <4>1, <4>3, <4>4
    <3>2. CASE m = l /\ k = "start"
      <4>1. Times(wire', <<"chunk", F>>) = 0 /\ active' # F
        <5>1. \A i \in DOMAIN wire' : wire'[i] # <<"chunk", F>>
          BY <1>1, <1>5, <1>7, <3>2
        <5> QED
          BY <1>7, <3>2, <5>1, TimesNone
      <4>2. Total(File(m))' = 0
        BY <3>0, <3>2, <4>1 DEF Total, F
      <4> QED
        BY <2>0, <3>2, <4>2 DEF At
    <3>3. CASE m = l /\ k # "start"
      <4>1. k = "chunk" /\ At(l, "sending") /\ offset'[l] = offset[l] + 1 /\ File(m) = F
        BY <2>2, <3>3 DEF At, F
      <4>2. f = F
        BY <3>4, <4>1
      <4>3. Begun(f) /\ Total(f)' = Total(f) + 1
        BY <1>11, <3>5, <4>1, <4>2
      <4>4. Total(f) = offset[l]
        BY <2>0, <3>4, <3>3, <4>1, <4>3 DEF Counted
      <4> QED
        BY <3>3, <3>5, <4>1, <4>3, <4>4
    <3> QED
      BY <3>1, <3>2, <3>3
  <2>3. ASSUME NEW f \in Files, Begun(f)', NEW j \in DOMAIN wire', wire'[j] = <<"end", f>>
        PROVE  Total(f)' = Chunks[f]
    <3>1. CASE j = n
      <4>1. k = "end" /\ f = F
        BY <1>5, <2>3, <3>1
      <4>2. Begun(f) /\ Total(f)' = Total(f) + 0 /\ Total(f) \in Nat
        BY <1>11, <2>3, <4>1
      <4>3. Total(f) = offset[l] /\ offset[l] = Chunks[f]
        BY <2>0, <4>1, <4>2 DEF Counted, F, Size
      <4> QED
        BY <4>2, <4>3
    <3>2. CASE j \in DOMAIN wire
      <4>1. wire[j] = <<"end", f>>
        BY <1>5, <2>3, <3>2
      <4>2. f # F
        BY <1>9, <3>2, <4>1
      <4>3. Begun(f) /\ Total(f)' = Total(f) + 0 /\ Total(f) \in Nat
        BY <1>11, <2>3, <4>2
      <4> QED
        BY <2>0, <3>2, <4>1, <4>3 DEF Counted
    <3> QED
      BY <1>5, <3>1, <3>2
  <2> QED
    BY <2>1, <2>2, <2>3 DEF Counted
<1>13. StoredWhole'
  BY DEF WireInv, StoredWhole, AllOf
<1> QED
  BY <1>10, <1>12, <1>13 DEF WireInv

\* The receiver reads the first message.
LEMMA WireShrinks ==
  ASSUME DropTypes, WireOrder, Counted, wire # <<>>, channel = "open", wire' = Tail(wire),
         UNCHANGED <<channel, pos, step, offset>>,
         active' \in {active, NoFile} \/ active' = wire[1][2],
         \A f \in Files : Begun(f)' => Begun(f) /\ Total(f)' = Total(f)
  PROVE  WireOrder' /\ Counted'
<1>1. /\ wire \in Seq({"start", "chunk", "end"} \X Files)
      /\ active \in Files \cup {NoFile} /\ NoFile \notin Files
      /\ \A i \in DOMAIN wire : /\ wire[i][1] \in {"start", "chunk", "end"} /\ wire[i][2] \in Files
                                /\ wire[i] = <<wire[i][1], wire[i][2]>>
  BY WireParts
<1>2. /\ 1 \in DOMAIN wire
      /\ \A i \in DOMAIN wire' : i + 1 \in DOMAIN wire /\ wire'[i] = wire[i + 1] /\ 1 < i + 1 /\ i \in Nat
  BY <1>1
<1>3. WireOrder'
  <2>1. \A i, j \in DOMAIN wire' : i < j /\ wire'[i][2] = wire'[j][2] => wire'[j][1] # "start" /\ wire'[i][1] # "end"
    <3> SUFFICES ASSUME NEW i \in DOMAIN wire', NEW j \in DOMAIN wire', i < j, wire'[i][2] = wire'[j][2]
                 PROVE  wire'[j][1] # "start" /\ wire'[i][1] # "end"
      OBVIOUS
    <3>1. i + 1 < j + 1
      BY <1>2
    <3> QED
      BY <1>2, <3>1 DEF WireOrder
  <2>2. \A i \in DOMAIN wire' : wire'[i][1] = "start" => active' # wire'[i][2]
    <3> SUFFICES ASSUME NEW i \in DOMAIN wire', wire'[i][1] = "start" PROVE active' # wire'[i][2]
      OBVIOUS
    <3>1. wire'[i] = wire[i + 1] /\ i + 1 \in DOMAIN wire /\ 1 < i + 1
      BY <1>2
    <3>2. wire[i + 1][2] # wire[1][2]
      BY <1>2, <3>1 DEF WireOrder
    <3>3. active # wire[i + 1][2] /\ wire[i + 1][2] \in Files
      BY <1>1, <3>1 DEF WireOrder
    <3> QED
      BY <1>1, <3>1, <3>2, <3>3
  <2>3. ASSUME NEW m \in Loops, NEW i \in DOMAIN Drops[m], Unsent(m, i)'
        PROVE  active' # Drops[m][i] /\ \A j \in DOMAIN wire' : wire'[j][2] # Drops[m][i]
    <3>1. active # Drops[m][i] /\ \A j \in DOMAIN wire : wire[j][2] # Drops[m][i]
      BY <2>3 DEF Unsent, WireOrder
    <3>2. Drops[m][i] # NoFile
      BY FileIs
    <3> QED
      BY <1>2, <3>1, <3>2
  <2>4. ASSUME NEW m \in Loops, At(m, "sending")', NEW j \in DOMAIN wire' PROVE wire'[j] # <<"end", File(m)'>>
    <3>1. At(m, "sending") /\ File(m)' = File(m)
      BY <2>4 DEF At, File
    <3> QED
      BY <1>2, <3>1 DEF WireOrder
  <2> QED
    BY <2>1, <2>2, <2>3, <2>4 DEF WireOrder
<1>4. Counted'
  <2>1. \A m \in Loops : step'[m] = "next" => offset'[m] = 0
    BY DEF Counted
  <2>2. ASSUME NEW m \in Loops, At(m, "sending")', Begun(File(m))'
        PROVE  Total(File(m))' = offset'[m]
    <3>1. At(m, "sending") /\ File(m)' = File(m) /\ offset'[m] = offset[m] /\ File(m) \in Files
      BY <2>2, FileAt DEF At, File
    <3>2. PICK f \in Files : f = File(m)
      BY <3>1
    <3>3. Begun(f)' /\ Total(File(m))' = Total(f)'
      BY <2>2, <3>1, <3>2 DEF Begun, Total
    <3>4. Begun(f) /\ Total(f)' = Total(f)
      BY <3>3
    <3>5. Total(f) = offset[m]
      BY <3>1, <3>2, <3>4 DEF Counted
    <3> QED
      BY <3>1, <3>3, <3>4, <3>5
  <2>3. ASSUME NEW f \in Files, Begun(f)', NEW j \in DOMAIN wire', wire'[j] = <<"end", f>>
        PROVE  Total(f)' = Chunks[f]
    <3>1. Begun(f) /\ Total(f)' = Total(f) /\ j + 1 \in DOMAIN wire /\ wire[j + 1] = <<"end", f>>
      BY <1>2, <2>3
    <3> QED
      BY <3>1 DEF Counted
  <2> QED
    BY <2>1, <2>2, <2>3 DEF Counted
<1> QED
  BY <1>3, <1>4

\* What the first message leaves of a transfer that goes on.
LEMMA FirstRead ==
  ASSUME DropTypes, WireOrder, wire # <<>>, wire' = Tail(wire), NEW f \in Files
  PROVE  /\ wire[1] = Head(wire) /\ 1 \in DOMAIN wire /\ wire[1] = <<wire[1][1], wire[1][2]>> /\ wire[1][2] \in Files
         /\ Times(wire, <<"chunk", f>>) = Times(wire', <<"chunk", f>>) + (IF Head(wire) = <<"chunk", f>> THEN 1 ELSE 0)
         /\ Times(wire', <<"chunk", f>>) \in Nat /\ Times(got, f) \in Nat
         /\ \A i \in DOMAIN wire' : wire'[i] = <<"start", f>> =>
              Begun(f) /\ wire[1][2] # f /\ active # f /\ Head(wire) # <<"chunk", f>>
<1>1. /\ wire \in Seq({"start", "chunk", "end"} \X Files) /\ got \in Seq(Files)
      /\ \A i \in DOMAIN wire : wire[i] = <<wire[i][1], wire[i][2]>> /\ wire[i][2] \in Files
  BY WireParts
<1>2. /\ 1 \in DOMAIN wire /\ Head(wire) = wire[1]
      /\ \A i \in DOMAIN wire' : i + 1 \in DOMAIN wire /\ wire'[i] = wire[i + 1] /\ 1 < i + 1
  BY <1>1
<1>3. Times(wire, <<"chunk", f>>) = Times(wire', <<"chunk", f>>) + (IF Head(wire) = <<"chunk", f>> THEN 1 ELSE 0)
  <2> DEFINE S == {"start", "chunk", "end"} \X Files
             x == <<"chunk", f>>
  <2>1. wire \in Seq(S)
    BY <1>1
  <2> HIDE DEF S, x
  <2>2. Times(wire, x) = Times(Tail(wire), x) + (IF Head(wire) = x THEN 1 ELSE 0)
    BY <2>1, TimesTail
  <2> QED
    BY <2>2 DEF x
<1>4. Times(wire', <<"chunk", f>>) \in Nat
  <2>1. wire' \in Seq({"start", "chunk", "end"} \X Files)
    BY <1>1
  <2> QED
    BY <2>1, TimesNat
<1>5. Times(got, f) \in Nat
  BY <1>1, TimesNat
<1>6. ASSUME NEW i \in DOMAIN wire', wire'[i] = <<"start", f>>
      PROVE  Begun(f) /\ wire[1][2] # f /\ active # f /\ Head(wire) # <<"chunk", f>>
  <2>1. i + 1 \in DOMAIN wire /\ wire[i + 1] = <<"start", f>> /\ 1 < i + 1
    BY <1>2, <1>6
  <2>2. Begun(f)
    BY <2>1 DEF Begun
  <2>3. wire[1][2] # f /\ active # f
    BY <1>2, <2>1 DEF WireOrder
  <2> QED
    BY <1>2, <2>2, <2>3
<1> QED
  BY <1>1, <1>2, <1>3, <1>4, <1>5, <1>6

\* An answer to a transfer that was stored is believed, and others do no harm.
LEMMA AnswersAdded ==
  ASSUME StoredWhole, UNCHANGED <<stored, outcome>>,
         \A i \in DOMAIN back' : (i \in DOMAIN back /\ back'[i] = back[i]) \/ ~back'[i][2]
  PROVE  StoredWhole'
<1>1. ASSUME NEW i \in DOMAIN back', back'[i][2] PROVE stored[back'[i][1]] = AllOf(back'[i][1])
  BY <1>1 DEF StoredWhole
<1> QED
  BY <1>1 DEF StoredWhole, AllOf

LEMMA Joined ==
  ASSUME NEW S, NEW s \in Seq(S), NEW t \in Seq(S), NEW i \in DOMAIN (s \o t)
  PROVE  (i \in DOMAIN s /\ (s \o t)[i] = s[i]) \/ (i - Len(s) \in DOMAIN t /\ (s \o t)[i] = t[i - Len(s)])
OBVIOUS

LEMMA StartKeeps ==
  ASSUME DropTypes, WireInv, wire # <<>>, channel = "open", wire' = Tail(wire),
         wire[1][1] = "start", ReadStart(wire[1][2]), UNCHANGED <<channel, stored, pos, step, offset, outcome>>
  PROVE  WireInv'
<1> DEFINE F == wire[1][2]
<1>1. WireOrder /\ Counted /\ StoredWhole
  BY DEF WireInv
<1>2. /\ F \in Files /\ active \in Files \cup {NoFile} /\ NoFile \notin Files /\ back \in Seq(Files \X BOOLEAN)
      /\ 1 \in DOMAIN wire /\ wire[1] = <<"start", F>> /\ Head(wire) = wire[1]
  BY WireParts
<1>3. ASSUME NEW f \in Files, Begun(f)' PROVE Begun(f) /\ Total(f)' = Total(f)
  <2>1. /\ Times(wire, <<"chunk", f>>) = Times(wire', <<"chunk", f>>)
        /\ Times(wire', <<"chunk", f>>) \in Nat
    <3>1. Head(wire) # <<"chunk", f>>
      BY <1>2
    <3> QED
      BY <1>1, <3>1, FirstRead
  <2>2. CASE active' = f
    <3>1. active = NoFile /\ f = F /\ got' = <<>>
      BY <1>2, <2>2 DEF ReadStart
    <3>2. Begun(f)
      BY <1>2, <3>1 DEF Begun
    <3>3. Times(got', f) = 0
      BY <3>1, TimesNone
    <3> QED
      BY <1>2, <2>1, <2>2, <3>1, <3>2, <3>3 DEF Total
  <2>3. CASE active' # f
    <3>1. Begun(f) /\ active # f
      BY <1>1, <1>3, <2>3, FirstRead DEF Begun
    <3> QED
      BY <2>1, <2>3, <3>1 DEF Total
  <2> QED
    BY <2>2, <2>3
<1>4. active' \in {active, NoFile} \/ active' = F
  BY DEF ReadStart
<1>5. WireOrder' /\ Counted'
  BY <1>1, <1>3, <1>4, WireShrinks
<1>6. StoredWhole'
  <2>1. CASE active = NoFile
    BY <1>1, <2>1 DEF ReadStart, StoredWhole, AllOf
  <2>2. CASE active # NoFile
    <3>1. back' = back \o <<<<active, FALSE>>, <<F, FALSE>>>>
      BY <2>2 DEF ReadStart
    <3>2. \A i \in DOMAIN back' : (i \in DOMAIN back /\ back'[i] = back[i]) \/ ~back'[i][2]
      <4> DEFINE a == <<<<active, FALSE>>, <<F, FALSE>>>>
      <4>1. <<active, FALSE>> \in Files \X BOOLEAN /\ <<F, FALSE>> \in Files \X BOOLEAN
        BY <1>2, <2>2
      <4>2. a \in Seq(Files \X BOOLEAN) /\ Len(a) = 2
        BY <4>1
      <4>3. \A j \in 1..2 : ~a[j][2]
        <5>1. ~a[1][2] /\ ~a[2][2]
          OBVIOUS
        <5>2. \A j \in 1..2 : j = 1 \/ j = 2
          OBVIOUS
        <5> HIDE DEF a
        <5> QED
          BY <5>1, <5>2
      <4> HIDE DEF a
      <4>4. ASSUME NEW i \in DOMAIN (back \o a)
            PROVE  (i \in DOMAIN back /\ (back \o a)[i] = back[i])
                   \/ (i - Len(back) \in DOMAIN a /\ (back \o a)[i] = a[i - Len(back)])
        BY <1>2, <4>2, Joined
      <4>5. DOMAIN a = 1..2
        BY <4>2
      <4>7. back' = back \o a
        BY <3>1 DEF a
      <4> QED
        BY <4>3, <4>4, <4>5, <4>7
    <3> QED
      BY <1>1, <3>2, AnswersAdded
  <2> QED
    BY <2>1, <2>2
<1> QED
  BY <1>5, <1>6 DEF WireInv

LEMMA ChunkKeeps ==
  ASSUME DropTypes, WireInv, wire # <<>>, channel = "open", wire' = Tail(wire),
         wire[1][1] = "chunk", ReadChunk(wire[1][2]), UNCHANGED <<channel, stored, pos, step, offset, outcome>>
  PROVE  WireInv'
<1> DEFINE F == wire[1][2]
<1>1. WireOrder /\ Counted /\ StoredWhole
  BY DEF WireInv
<1>2. /\ F \in Files /\ active \in Files \cup {NoFile} /\ NoFile \notin Files /\ back \in Seq(Files \X BOOLEAN)
      /\ 1 \in DOMAIN wire /\ wire[1] = <<"chunk", F>> /\ Head(wire) = wire[1] /\ got \in Seq(Files)
  BY WireParts
<1>3. ASSUME NEW f \in Files, Begun(f)' PROVE Begun(f) /\ Total(f)' = Total(f)
  <2>1. Times(wire, <<"chunk", f>>) = Times(wire', <<"chunk", f>>) + (IF F = f THEN 1 ELSE 0)
    BY <1>1, <1>2, FirstRead
  <2>2. Times(wire', <<"chunk", f>>) \in Nat /\ Times(got, f) \in Nat
    BY <1>1, FirstRead
  <2>3. CASE active' = f
    <3>1. active = f /\ got' = Append(got, F)
      BY <1>2, <2>3 DEF ReadChunk
    <3>2. Times(Append(got, F), f) = Times(got, f) + (IF F = f THEN 1 ELSE 0)
      BY <1>2, TimesAppend
    <3>3. Begun(f)
      BY <3>1 DEF Begun
    <3>4. Total(f) = Times(wire, <<"chunk", f>>) + Times(got, f)
      BY <3>1 DEF Total
    <3>5. Total(f)' = Times(wire', <<"chunk", f>>) + Times(got', f)
      BY <2>3 DEF Total
    <3> QED
      BY <2>1, <2>2, <3>1, <3>2, <3>3, <3>4, <3>5
  <2>4. CASE active' # f
    <3>1. Begun(f) /\ active # f /\ F # f
      BY <1>1, <1>3, <2>4, FirstRead DEF Begun
    <3> QED
      BY <2>1, <2>2, <2>4, <3>1 DEF Total
  <2> QED
    BY <2>3, <2>4
<1>4. active' \in {active, NoFile}
  BY DEF ReadChunk
<1>5. WireOrder' /\ Counted'
  BY <1>1, <1>3, <1>4, WireShrinks
<1>6. StoredWhole'
  <2>1. CASE back' = back
    BY <1>1, <2>1 DEF StoredWhole, AllOf
  <2>2. CASE back' # back
    <3>1. back' = Append(back, <<active, FALSE>>)
      BY <2>2 DEF ReadChunk
    <3>2. \A i \in DOMAIN back' : (i \in DOMAIN back /\ back'[i] = back[i]) \/ ~back'[i][2]
      BY <1>2, <3>1
    <3> QED
      BY <1>1, <3>2, AnswersAdded
  <2> QED
    BY <2>1, <2>2
<1> QED
  BY <1>5, <1>6 DEF WireInv

\* The end of the transfer that is active: as many chunks as it has are its own.
LEMMA WholeAtEnd ==
  ASSUME DropTypes, WireOrder, Counted, wire # <<>>, wire' = Tail(wire),
         NEW f \in Files, wire[1] = <<"end", f>>, active = f, Len(got) = Chunks[f]
  PROVE  got = AllOf(f)
<1>1. wire \in Seq({"start", "chunk", "end"} \X Files) /\ got \in Seq(Files) /\ 1 \in DOMAIN wire
  BY WireParts
<1>2. Begun(f) /\ Total(f) = Chunks[f]
  BY <1>1 DEF Begun, Counted
<1>3. \A i \in DOMAIN wire : wire[i] # <<"chunk", f>>
  <2> SUFFICES ASSUME NEW i \in DOMAIN wire, wire[i] = <<"chunk", f>> PROVE FALSE
    OBVIOUS
  <2>1. i # 1 /\ i \in Nat /\ i >= 1
    BY <1>1
  <2>2. 1 < i /\ wire[1][2] = wire[i][2] /\ wire[1][1] = "end"
    BY <2>1
  <2> QED
    BY <1>1, <2>2 DEF WireOrder
<1>4. Times(wire, <<"chunk", f>>) = 0
  BY <1>3, TimesNone
<1>5. Times(got, f) \in Nat
  BY <1>1, TimesNat
<1>6. Times(got, f) = Len(got)
  BY <1>2, <1>4, <1>5 DEF Total
<1> QED
  BY <1>1, <1>6, TimesAll DEF AllOf

LEMMA EndKeeps ==
  ASSUME DropTypes, WireInv, wire # <<>>, channel = "open", wire' = Tail(wire),
         wire[1][1] = "end", NEW ok \in BOOLEAN, ReadEnd(wire[1][2], ok),
         UNCHANGED <<channel, pos, step, offset, outcome>>
  PROVE  WireInv' /\ DOMAIN stored' = Files
<1> DEFINE F == wire[1][2]
<1>1. WireOrder /\ Counted /\ StoredWhole
  BY DEF WireInv
<1>2. /\ F \in Files /\ active \in Files \cup {NoFile} /\ NoFile \notin Files /\ back \in Seq(Files \X BOOLEAN)
      /\ 1 \in DOMAIN wire /\ wire[1] = <<"end", F>> /\ Head(wire) = wire[1] /\ DOMAIN stored = Files
  BY WireParts DEF DropTypes
<1>3. /\ (active' = active /\ active # F /\ got' = got) \/ active' = NoFile
      /\ back' = Append(back, <<F, ok>>)
      /\ ok => active = F /\ Len(got) = Chunks[F] /\ stored' = [stored EXCEPT ![F] = got]
      /\ ~ok => stored' = stored
  BY DEF ReadEnd
<1>4. ASSUME NEW f \in Files, Begun(f)' PROVE Begun(f) /\ Total(f)' = Total(f)
  <2>1. Times(wire, <<"chunk", f>>) = Times(wire', <<"chunk", f>>) /\ Times(wire', <<"chunk", f>>) \in Nat
    <3>1. Head(wire) # <<"chunk", f>>
      BY <1>2
    <3> QED
      BY <1>1, <3>1, FirstRead
  <2>2. CASE active' = f
    BY <1>2, <1>3, <2>1, <2>2 DEF Begun, Total
  <2>3. CASE active' # f
    <3>1. Begun(f) /\ active # f
      BY <1>1, <1>4, <2>3, FirstRead DEF Begun
    <3> QED
      BY <2>1, <2>3, <3>1 DEF Total
  <2> QED
    BY <2>2, <2>3
<1>5. WireOrder' /\ Counted'
  BY <1>1, <1>3, <1>4, WireShrinks
<1>6. \A f \in Files : stored'[f] = stored[f] \/ stored'[f] = AllOf(f)
  <2>1. CASE ok
    <3>1. PICK f \in Files : f = F
      BY <1>2
    <3>2. got = AllOf(f)
      BY <1>1, <1>2, <1>3, <2>1, <3>1, WholeAtEnd
    <3> QED
      BY <1>2, <1>3, <2>1, <3>1, <3>2
  <2>2. CASE ~ok
    BY <1>3, <2>2
  <2> QED
    BY <2>1, <2>2
<1>7. ok => stored'[F] = AllOf(F)
  <2> SUFFICES ASSUME ok PROVE stored'[F] = AllOf(F)
    OBVIOUS
  <2>1. PICK f \in Files : f = F
    BY <1>2
  <2>2. got = AllOf(f)
    BY <1>1, <1>2, <1>3, <2>1, WholeAtEnd
  <2> QED
    BY <1>2, <1>3, <2>1, <2>2
<1>8. StoredWhole'
  <2>1. ASSUME NEW i \in DOMAIN back', back'[i][2] PROVE stored'[back'[i][1]] = AllOf(back'[i][1])
    <3>1. CASE i \in DOMAIN back /\ back'[i] = back[i]
      <4>1. back[i][1] \in Files /\ stored[back[i][1]] = AllOf(back[i][1])
        BY <1>1, <1>2, <2>1, <3>1 DEF StoredWhole
      <4> QED
        BY <1>6, <3>1, <4>1
    <3>2. CASE back'[i] = <<F, ok>>
      BY <1>7, <2>1, <3>2
    <3> QED
      BY <1>2, <1>3, <3>1, <3>2
  <2>2. \A f \in Files : outcome'[f] = "delivered" => stored'[f] = AllOf(f)
    BY <1>1, <1>6 DEF StoredWhole
  <2> QED
    BY <2>1, <2>2 DEF StoredWhole, AllOf
<1>9. DOMAIN stored' = Files
  BY <1>2, <1>3
<1> QED
  BY <1>5, <1>8, <1>9 DEF WireInv

-----------------------------------------------------------------------------
(* The names on the disk. *)

LEMMA LeastNumber == ASSUME NEW T \in SUBSET Nat, T # {} PROVE \E m \in T : \A y \in T : m <= y
<1> DEFINE R == {p \in Nat \X Nat : p[1] < p[2]}
<1>1. IsWellFoundedOn(R, Nat)
  BY NatLessThanWellFounded DEF OpToRel
<1>2. \A x, y \in Nat : <<y, x>> \in R <=> y < x
  OBVIOUS
<1> HIDE DEF R
<1>3. PICK x \in T : \A y \in T : ~(<<y, x>> \in R)
  BY <1>1, WFMin
<1>4. ASSUME NEW y \in T PROVE x <= y
  <2>1. x \in Nat /\ y \in Nat /\ ~(y < x)
    BY <1>2, <1>3
  <2> QED
    BY <2>1
<1> QED
  BY <1>4

\* There are more suffixes than files: one is free.
LEMMA FreeThere ==
  ASSUME DropTypes, Named
  PROVE  FreeName \in Names /\ dir[FreeName] = NoFile
<1> DEFINE C == Cardinality(Files)
           free == {s \in 0..C : dir[<<second, s>>] = NoFile}
           f == [s \in 0..C |-> dir[<<second, s>>]]
<1>1. IsFiniteSet(Files) /\ NoFile \notin Files
  BY DropAssumption DEF DropAssumption
<1>2. C \in Nat
  BY <1>1, FS_CardinalityType
<1>3. dir \in [Names -> Files \cup {NoFile}] /\ \A s \in 0..C : <<second, s>> \in Names
  BY DEF DropTypes, Names
<1>4. free # {}
  <2> SUFFICES ASSUME free = {} PROVE FALSE
    OBVIOUS
  <2>1. \A s \in 0..C : dir[<<second, s>>] \in Files
    BY <1>3
  <2>2. \A s, t \in 0..C : dir[<<second, s>>] = dir[<<second, t>>] => s = t
    <3> SUFFICES ASSUME NEW s \in 0..C, NEW t \in 0..C, dir[<<second, s>>] = dir[<<second, t>>] PROVE s = t
      OBVIOUS
    <3>1. <<second, s>> = <<second, t>>
      BY <1>1, <1>3, <2>1 DEF Named
    <3> QED
      BY <3>1
  <2>3. f \in Injection(0..C, Files)
    BY <2>1, <2>2 DEF Injection, IsInjective
  <2>4. Cardinality(0..C) <= C
    <3> HIDE DEF f
    <3> QED
      BY <1>1, <2>3, FS_Injection
  <2>5. Cardinality(0..C) = C + 1
    <3>1. 0 \in Int /\ C \in Int /\ (IF 0 > C THEN 0 ELSE C - 0 + 1) = C + 1
      BY <1>2
    <3>2. Cardinality(0..C) = IF 0 > C THEN 0 ELSE C - 0 + 1
      BY <3>1, FS_Interval
    <3> QED
      BY <3>1, <3>2
  <2> QED
    BY <1>2, <2>4, <2>5
<1>5. free \in SUBSET Nat
  BY <1>2
<1>6. PICK s \in free : \A t \in free : s <= t
  <2> HIDE DEF free
  <2> QED
    BY <1>4, <1>5, LeastNumber
<1>7. s \in 0..C /\ \A i \in 0..(s - 1) : i \in 0..C /\ dir[<<second, i>>] # NoFile
  BY <1>2, <1>6
<1> DEFINE w == <<second, s>>
<1>8. /\ w \in Names /\ w[1] = second /\ dir[w] = NoFile
      /\ \A i \in 0..(w[2] - 1) : dir[<<second, i>>] # NoFile
  BY <1>3, <1>6, <1>7
<1> QED
  BY <1>8 DEF FreeName

\* Nothing is saved.
LEMMA NamedMoves ==
  ASSUME Named, UNCHANGED dir,
         \A m \in Loops : \A i \in DOMAIN Drops[m] : Unnamed(m, i)' => Unnamed(m, i),
         \A m \in Loops : http'[m] # "none" => At(m, "http")',
         \A m \in Loops : http'[m] = "ok" => http[m] = "ok" /\ pos'[m] = pos[m],
         \A f \in Files : outcome'[f] = "saved" => Has(f)
  PROVE  Named'
BY DEF Named, Has, File

\* A loop that has no request open moves.
LEMMA NamedAside ==
  ASSUME DropTypes, Named, NEW l \in Loops, step[l] # "http" \/ http[l] = "none", UNCHANGED <<dir, http>>,
         step[l] = "next" \/ step'[l] # "next" \/ pos'[l] = pos[l] + 1,
         pos'[l] \in {pos[l], pos[l] + 1}, pos' \in [Loops -> Nat],
         \A m \in Loops : m # l => pos'[m] = pos[m] /\ step'[m] = step[m],
         \A f \in Files : outcome'[f] = "saved" => outcome[f] = "saved"
  PROVE  Named'
<1>1. http[l] = "none" /\ pos[l] \in Nat
  BY DEF Named, At, DropTypes
<1>2. ASSUME NEW m \in Loops, NEW i \in DOMAIN Drops[m], Unnamed(m, i)' PROVE Unnamed(m, i)
  <2>1. CASE m = l
    <3>1. i \in Nat
      BY FileIs
    <3> QED
      BY <1>1, <1>2, <2>1, <3>1 DEF Unnamed
  <2>2. CASE m # l
    BY <1>2, <2>2 DEF Unnamed
  <2> QED
    BY <2>1, <2>2
<1>3. ASSUME NEW m \in Loops, http'[m] # "none" PROVE At(m, "http")' /\ pos'[m] = pos[m]
  <2>1. m # l /\ At(m, "http")
    BY <1>1, <1>3 DEF Named
  <2> QED
    BY <2>1 DEF At
<1>4. \A m \in Loops : http'[m] = "ok" => http[m] = "ok" /\ pos'[m] = pos[m]
  BY <1>3
<1>5. \A f \in Files : outcome'[f] = "saved" => Has(f)
  BY DEF Named
<1> QED
  BY <1>2, <1>3, <1>4, <1>5, NamedMoves

\* The file of a request that is being read gets the free name.
LEMMA NamedSaved ==
  ASSUME DropTypes, Named, NEW l \in Loops, http[l] = "reading", dir' = [dir EXCEPT ![FreeName] = File(l)],
         UNCHANGED <<pos, step, outcome>>, http'[l] \notin {"sent", "reading"},
         \A m \in Loops : http'[m] # "none" => http[m] # "none",
         \A m \in Loops : http'[m] \in {"sent", "reading"} => http'[m] = http[m],
         \A m \in Loops : http'[m] = "ok" => m = l \/ http[m] = "ok"
  PROVE  Named' /\ dir' \in [Names -> Files \cup {NoFile}]
<1>1. At(l, "http") /\ pos[l] \in Nat
  BY DEF Named, DropTypes
<1>2. /\ File(l) \in Files /\ File(l) # NoFile /\ pos[l] \in DOMAIN Drops[l] /\ File(l) = Drops[l][pos[l]]
      /\ \A m \in Loops : \A i \in DOMAIN Drops[m] : Drops[m][i] = File(l) => m = l /\ i = pos[l]
  BY <1>1, FileAt DEF At, File
<1>3. FreeName \in Names /\ dir[FreeName] = NoFile
  BY FreeThere
<1>4. dir \in [Names -> Files \cup {NoFile}] /\ dir' \in [Names -> Files \cup {NoFile}]
  BY <1>2 DEF DropTypes
<1>5. dir'[FreeName] = File(l) /\ \A n \in Names : n # FreeName => dir'[n] = dir[n]
  BY <1>3, <1>4
<1>6. \A n \in Names : dir[n] # File(l)
  BY <1>1, <1>2 DEF Named, Unnamed, Has
<1>7. \A m, n \in Names : dir'[m] = dir'[n] /\ dir'[m] # NoFile => m = n
  <2> SUFFICES ASSUME NEW m \in Names, NEW n \in Names, dir'[m] = dir'[n], dir'[m] # NoFile PROVE m = n
    OBVIOUS
  <2>1. CASE m = FreeName
    BY <1>5, <1>6, <2>1
  <2>2. CASE n = FreeName
    BY <1>5, <1>6, <2>2
  <2>3. CASE m # FreeName /\ n # FreeName
    BY <1>5, <2>3 DEF Named
  <2> QED
    BY <2>1, <2>2, <2>3
<1>8. \A f \in Files : Has(f) => \E n \in Names : dir'[n] = f
  <2> SUFFICES ASSUME NEW f \in Files, NEW n \in Names, dir[n] = f PROVE \E k \in Names : dir'[k] = f
    BY DEF Has
  <2>1. n # FreeName
    BY <1>2, <1>3, FileIs, DropAssumption DEF DropAssumption
  <2> QED
    BY <1>5, <2>1
<1>9. \E n \in Names : dir'[n] = File(l)
  BY <1>3, <1>5
<1>10. ASSUME NEW m \in Loops, NEW i \in DOMAIN Drops[m], Unnamed(m, i)', NEW n \in Names
       PROVE  dir'[n] # Drops[m][i]
  <2>1. Unnamed(m, i)
    BY <1>10 DEF Unnamed
  <2>2. Drops[m][i] # File(l)
    <3> SUFFICES ASSUME m = l, i = pos[l] PROVE FALSE
      BY <1>2
    <3> QED
      BY <1>1, <1>10 DEF Unnamed, At
  <2>3. dir[n] # Drops[m][i]
    BY <2>1 DEF Named, Has
  <2> QED
    BY <1>5, <2>2, <2>3
<1>11. ASSUME NEW m \in Loops, http'[m] # "none" PROVE At(m, "http")' /\ File(m)' = File(m) /\ File(m) \in Files
  <2>1. At(m, "http")
    BY <1>11 DEF Named
  <2> QED
    BY <2>1, FileAt DEF At, File
<1>12. ASSUME NEW m \in Loops, http'[m] = "ok" PROVE \E n \in Names : dir'[n] = File(m)'
  <2>1. File(m)' = File(m) /\ File(m) \in Files
    BY <1>11, <1>12
  <2>2. CASE m = l
    BY <1>9, <2>1, <2>2
  <2>3. CASE m # l
    <3>1. Has(File(m))
      BY <1>12, <2>3 DEF Named
    <3> QED
      BY <1>8, <2>1, <3>1
  <2> QED
    BY <2>2, <2>3
<1>13. \A f \in Files : outcome'[f] = "saved" => \E n \in Names : dir'[n] = f
  BY <1>8 DEF Named
<1> QED
  BY <1>4, <1>7, <1>10, <1>11, <1>12, <1>13 DEF Named, Has

-----------------------------------------------------------------------------
(* The steps. *)

LEMMA DropBegins == DropInit => DropInv
<1> SUFFICES ASSUME DropInit PROVE DropInv
  OBVIOUS
<1>1. NoFile \notin Files /\ MaxSecond \in Nat /\ \A l \in Loops : Len(Drops[l]) \in Nat
  BY DropAssumption DEF DropAssumption, Loops
<1>2. DropTypes
  <2>1. /\ pos \in [Loops -> Nat] /\ step \in [Loops -> {"next", "sending", "waiting", "http"}]
        /\ offset \in [Loops -> Nat]
        /\ outcome \in [Files -> {"none", "rejected", "failed", "delivered", "saved"}]
        /\ channel \in {"none", "open", "closed"} /\ acks \subseteq Files
    BY DEF DropInit
  <2>2. /\ wire \in Seq({"start", "chunk", "end"} \X Files) /\ back \in Seq(Files \X BOOLEAN)
        /\ active \in Files \cup {NoFile} /\ got \in Seq(Files)
        /\ DOMAIN stored = Files
    BY DEF DropInit
  <2>3. /\ busy \in BOOLEAN /\ http \in [Loops -> {"none", "sent", "reading", "ok", "refused"}]
        /\ dir \in [Names -> Files \cup {NoFile}] /\ second \in 0..MaxSecond /\ crashes \in Nat
    <3>1. busy \in BOOLEAN /\ http \in [Loops -> {"none", "sent", "reading", "ok", "refused"}]
      BY DEF DropInit
    <3>2. dir \in [Names -> Files \cup {NoFile}]
      BY DEF DropInit
    <3>3. second \in 0..MaxSecond /\ crashes \in Nat
      BY <1>1 DEF DropInit
    <3> QED
      BY <3>1, <3>2, <3>3
  <2>4. \A l \in Loops : pos[l] \in 1..(Len(Drops[l]) + 1)
    BY <1>1 DEF DropInit
  <2> QED
    BY <2>1, <2>2, <2>3, <2>4 DEF DropTypes
<1>3. /\ wire = <<>> /\ back = <<>> /\ active = NoFile /\ got = <<>>
      /\ \A l \in Loops : step[l] = "next" /\ offset[l] = 0 /\ http[l] = "none"
      /\ \A n \in Names : dir[n] = NoFile
      /\ \A f \in Files : outcome[f] = "none"
  BY DEF DropInit
<1>4. WireOrder
  BY <1>3, FileIs DEF WireOrder, At
<1>5. Counted
  BY <1>1, <1>3 DEF Counted, At, Begun
<1>6. StoredWhole
  BY <1>3 DEF StoredWhole
<1>7. Named
  BY <1>1, <1>3, FileIs DEF Named, Has
<1> QED
  BY <1>2, <1>4, <1>5, <1>6, <1>7 DEF DropInv, WireInv

\* A loop reports a file of which nothing was saved just now, and goes on.
LEMMA ReportKeeps ==
  ASSUME DropInv, NEW l \in Loops, pos[l] <= Len(Drops[l]),
         NEW w \in {"rejected", "failed", "delivered", "saved"}, Report(l, w),
         http[l] = "none" \/ step[l] # "http",
         UNCHANGED <<channel, wire, active, got, stored, http, busy, dir, second, crashes>>,
         acks' \subseteq Files, back' \in Seq(Files \X BOOLEAN),
         channel # "open" => back' = back, \A i \in DOMAIN back' : \E j \in DOMAIN back : back'[i] = back[j],
         w = "delivered" => stored[File(l)] = AllOf(File(l)), w # "saved"
  PROVE  DropInv'
<1>1. DropTypes /\ WireInv /\ Named /\ Counted
  BY DEF DropInv, WireInv
<1>2. /\ pos' \in [Loops -> Nat] /\ step' \in [Loops -> {"next", "sending", "waiting", "http"}]
      /\ offset' \in [Loops -> Nat]
      /\ outcome' \in [Files -> {"none", "rejected", "failed", "delivered", "saved"}]
      /\ \A m \in Loops : pos'[m] \in 1..(Len(Drops[m]) + 1)
      /\ pos'[l] = pos[l] + 1 /\ step'[l] = "next"
      /\ \A m \in Loops : m # l => pos'[m] = pos[m] /\ step'[m] = step[m]
      /\ outcome'[File(l)] = w /\ \A f \in Files \ {File(l)} : outcome'[f] = outcome[f]
  BY <1>1, Reported
<1>3. DropTypes'
  <2>1. /\ pos' \in [Loops -> Nat] /\ step' \in [Loops -> {"next", "sending", "waiting", "http"}]
        /\ offset' \in [Loops -> Nat]
        /\ outcome' \in [Files -> {"none", "rejected", "failed", "delivered", "saved"}]
        /\ \A m \in Loops : pos'[m] \in 1..(Len(Drops[m]) + 1)
    BY <1>2
  <2> QED
    BY <1>1, <2>1 DEF DropTypes
<1>4. Onward
  BY <1>1, ReportOnward
<1>5. \A f \in Files : outcome'[f] = "delivered" => stored[f] = AllOf(f)
  <2> SUFFICES ASSUME NEW f \in Files, outcome'[f] = "delivered" PROVE stored[f] = AllOf(f)
    OBVIOUS
  <2>1. CASE f = File(l)
    BY <1>2, <2>1
  <2>2. CASE f # File(l)
    BY <1>1, <1>2, <2>2 DEF WireInv, StoredWhole
  <2> QED
    BY <2>1, <2>2
<1>6. WireInv'
  <2>1. channel' # "open" => wire = <<>> /\ back' = <<>> /\ active = NoFile /\ got = <<>>
    BY <1>1 DEF WireInv, WireOrder
  <2> QED
    BY <1>1, <1>4, <1>5, <2>1, WireStays
<1>7. Named'
  <2>1. \A f \in Files : outcome'[f] = "saved" => outcome[f] = "saved"
    BY <1>2
  <2> QED
    BY <1>1, <1>2, <2>1, NamedAside
<1> QED
  BY <1>3, <1>6, <1>7 DEF DropInv

LEMMA SendKeeps ==
  ASSUME DropInv, NEW l \in Loops, pos[l] <= Len(Drops[l]), NEW k \in {"start", "chunk", "end"},
         channel = "open", wire' = Append(wire, <<k, File(l)>>),
         UNCHANGED <<channel, back, active, got, stored, pos, outcome, httpVars>>, acks' \subseteq Files,
         k = "start" => step[l] = "next" /\ step' = [step EXCEPT ![l] = "sending"] /\ offset' = offset,
         k = "chunk" => step[l] = "sending" /\ step' = step /\ offset' = [offset EXCEPT ![l] = @ + 1],
         k = "end" => step[l] = "sending" /\ step' = [step EXCEPT ![l] = "waiting"] /\ offset' = offset
                      /\ offset[l] = Size(l)
  PROVE  DropInv'
<1>1. DropTypes /\ WireInv /\ Named
  BY DEF DropInv
<1>2. /\ step \in [Loops -> {"next", "sending", "waiting", "http"}] /\ offset \in [Loops -> Nat]
      /\ wire \in Seq({"start", "chunk", "end"} \X Files)
  BY <1>1 DEF DropTypes
<1>3. <<k, File(l)>> \in {"start", "chunk", "end"} \X Files
  BY <1>1, FileAt
<1>4. /\ step' \in [Loops -> {"next", "sending", "waiting", "http"}] /\ offset' \in [Loops -> Nat]
      /\ wire' \in Seq({"start", "chunk", "end"} \X Files)
  <2>1. step' \in [Loops -> {"next", "sending", "waiting", "http"}]
    BY <1>2
  <2>2. offset' \in [Loops -> Nat]
    BY <1>2
  <2>3. wire' \in Seq({"start", "chunk", "end"} \X Files)
    <3> DEFINE S == {"start", "chunk", "end"} \X Files
    <3>1. wire \in Seq(S) /\ <<k, File(l)>> \in S
      BY <1>2, <1>3
    <3> HIDE DEF S
    <3>2. Append(wire, <<k, File(l)>>) \in Seq(S)
      BY <3>1
    <3> QED
      BY <3>2 DEF S
  <2> QED
    BY <2>1, <2>2, <2>3
<1>5. DropTypes'
  BY <1>1, <1>4 DEF DropTypes, httpVars
<1>6. /\ k = "start" => At(l, "next") /\ step'[l] = "sending" /\ offset'[l] = offset[l]
      /\ k = "chunk" => At(l, "sending") /\ step'[l] = "sending" /\ offset'[l] = offset[l] + 1
      /\ k = "end" => At(l, "sending") /\ step'[l] = "waiting" /\ offset[l] = Size(l)
  BY <1>2 DEF At
<1>7. \A m \in Loops : m # l => step'[m] = step[m] /\ offset'[m] = offset[m]
  BY <1>2
<1>8. WireInv'
  BY <1>1, <1>6, <1>7, WireGrows
<1>9. Named'
  <2>1. step[l] # "http" /\ step'[l] # "next"
    BY <1>6 DEF At
  <2>2. pos' \in [Loops -> Nat] /\ pos'[l] \in {pos[l], pos[l] + 1} /\ \A m \in Loops : pos'[m] = pos[m]
    BY <1>1 DEF DropTypes
  <2>3. UNCHANGED <<dir, http>> /\ \A f \in Files : outcome'[f] = "saved" => outcome[f] = "saved"
    BY DEF httpVars
  <2> QED
    BY <1>1, <1>7, <2>1, <2>2, <2>3, NamedAside
<1> QED
  BY <1>5, <1>8, <1>9 DEF DropInv

LEMMA BeginKeeps == ASSUME DropInv, NEW l \in Loops, Begin(l) PROVE DropInv'
<1>1. DropTypes /\ WireInv /\ Named /\ At(l, "next") /\ pos[l] <= Len(Drops[l]) /\ step[l] = "next" /\ Counted
  BY DEF DropInv, WireInv, Begin, At
<1>2. CASE Report(l, "rejected") /\ UNCHANGED <<wire, http>>
  <2>1. UNCHANGED <<channel, wire, active, got, stored, http, busy, dir, second, crashes, acks, back>>
    BY <1>2 DEF Begin
  <2>2. acks \subseteq Files /\ back \in Seq(Files \X BOOLEAN)
    BY <1>1 DEF DropTypes
  <2> QED
    BY <1>1, <1>2, <2>1, <2>2, ReportKeeps
<1>3. CASE channel = "open" /\ wire' = Append(wire, <<"start", File(l)>>) /\ Go(l, "sending") /\ UNCHANGED <<offset, http>>
  <2>1. /\ UNCHANGED <<channel, back, active, got, stored, pos, outcome, httpVars, acks>>
        /\ step' = [step EXCEPT ![l] = "sending"]
    BY <1>3 DEF Begin, Go, httpVars
  <2>2. acks \subseteq Files
    BY <1>1 DEF DropTypes
  <2> QED
    BY <1>1, <1>3, <2>1, <2>2, SendKeeps
<1>4. CASE channel # "open" /\ http' = [http EXCEPT ![l] = "sent"] /\ Go(l, "http") /\ UNCHANGED <<offset, wire>>
  <2>1. /\ UNCHANGED <<channel, back, acks, active, got, stored, busy, dir, second, crashes, pos, outcome, offset, wire>>
        /\ step' = [step EXCEPT ![l] = "http"]
    BY <1>4 DEF Begin, Go
  <2>2. /\ step' \in [Loops -> {"next", "sending", "waiting", "http"}]
        /\ http' \in [Loops -> {"none", "sent", "reading", "ok", "refused"}]
        /\ step'[l] = "http" /\ http'[l] = "sent"
        /\ \A m \in Loops : m # l => step'[m] = step[m] /\ http'[m] = http[m]
    BY <1>1, <1>4, <2>1 DEF DropTypes
  <2>3. DropTypes'
    BY <1>1, <2>1, <2>2 DEF DropTypes
  <2>4. Onward
    <3>1. \A m \in Loops : \A i \in DOMAIN Drops[m] : Unsent(m, i)' => Unsent(m, i)
      BY <1>1, <2>1, <2>2 DEF Unsent
    <3>2. \A m \in Loops : At(m, "sending")' => At(m, "sending")
      BY <2>1, <2>2 DEF At
    <3>3. \A m \in Loops : step'[m] = "next" => offset'[m] = 0
      BY <1>1, <2>1, <2>2 DEF Counted
    <3> QED
      BY <2>1, <3>1, <3>2, <3>3 DEF Onward
  <2>5. WireInv'
    <3>1. wire = <<>> /\ back' = <<>> /\ active = NoFile /\ got = <<>>
      BY <1>1, <1>4, <2>1 DEF WireInv, WireOrder
    <3>2. \A f \in Files : outcome'[f] = "delivered" => stored[f] = AllOf(f)
      BY <1>1, <2>1 DEF WireInv, StoredWhole
    <3> QED
      BY <1>1, <2>1, <2>4, <3>1, <3>2, WireStays
  <2>6. Named'
    <3>1. \A m \in Loops : \A i \in DOMAIN Drops[m] : Unnamed(m, i)' => Unnamed(m, i)
      BY <1>1, <2>1, <2>2 DEF Unnamed
    <3>2. \A m \in Loops : http'[m] # "none" => At(m, "http")'
      BY <1>1, <2>1, <2>2 DEF Named, At
    <3>3. \A m \in Loops : http'[m] = "ok" => http[m] = "ok" /\ pos'[m] = pos[m]
      BY <2>1, <2>2
    <3>4. \A f \in Files : outcome'[f] = "saved" => Has(f)
      BY <1>1, <2>1 DEF Named
    <3> QED
      BY <1>1, <2>1, <3>1, <3>2, <3>3, <3>4, NamedMoves
  <2> QED
    BY <2>3, <2>5, <2>6 DEF DropInv
<1> QED
  BY <1>2, <1>3, <1>4 DEF Begin

LEMMA LoopFails ==
  ASSUME DropInv, NEW l \in Loops, pos[l] <= Len(Drops[l]), step[l] # "http", Report(l, "failed"),
         UNCHANGED <<channel, wire, back, active, got, stored, httpVars>>, acks' \subseteq Files
  PROVE  DropInv'
<1>1. UNCHANGED <<channel, wire, active, got, stored, http, busy, dir, second, crashes, back>>
  BY DEF httpVars
<1>2. back \in Seq(Files \X BOOLEAN)
  BY DEF DropInv, DropTypes
<1> QED
  BY <1>1, <1>2, ReportKeeps

LEMMA SendingKeeps ==
  ASSUME DropInv, NEW l \in Loops, SendChunk(l) \/ Stall(l) \/ SendEnd(l) \/ AckTimeout(l)
  PROVE  DropInv'
<1>1. DropTypes /\ acks \subseteq Files
  BY DEF DropInv, DropTypes
<1>2. CASE SendChunk(l)
  <2>1. /\ pos[l] <= Len(Drops[l]) /\ step[l] = "sending"
        /\ UNCHANGED <<channel, back, acks, active, got, stored, httpVars>>
    BY <1>2 DEF SendChunk, At
  <2>2. CASE channel = "open"
    <3>1. /\ wire' = Append(wire, <<"chunk", File(l)>>) /\ offset' = [offset EXCEPT ![l] = @ + 1]
          /\ UNCHANGED <<pos, step, outcome>>
      BY <1>2, <2>2 DEF SendChunk
    <3> QED
      BY <1>1, <2>1, <2>2, <3>1, SendKeeps
  <2>3. CASE channel # "open"
    BY <1>1, <1>2, <2>1, <2>3, LoopFails DEF SendChunk
  <2> QED
    BY <2>2, <2>3
<1>3. CASE Stall(l)
  <2>1. /\ pos[l] <= Len(Drops[l]) /\ step[l] = "sending" /\ Report(l, "failed")
        /\ UNCHANGED <<channel, wire, back, acks, active, got, stored, httpVars>>
    BY <1>3 DEF Stall, At, p2pVars
  <2> QED
    BY <1>1, <2>1, LoopFails
<1>4. CASE SendEnd(l)
  <2>1. /\ pos[l] <= Len(Drops[l]) /\ step[l] = "sending" /\ offset[l] = Size(l)
        /\ UNCHANGED <<channel, back, active, got, stored, httpVars>>
    BY <1>4 DEF SendEnd, At
  <2>2. CASE channel = "open"
    <3>1. /\ wire' = Append(wire, <<"end", File(l)>>) /\ step' = [step EXCEPT ![l] = "waiting"]
          /\ UNCHANGED <<pos, offset, outcome>> /\ acks' = acks \cup {File(l)}
      BY <1>4, <2>2 DEF SendEnd, Go
    <3>2. acks' \subseteq Files
      BY <1>1, <2>1, <3>1, FileAt
    <3> QED
      BY <2>1, <2>2, <3>1, <3>2, SendKeeps
  <2>3. CASE channel # "open"
    BY <1>1, <1>4, <2>1, <2>3, LoopFails DEF SendEnd
  <2> QED
    BY <2>2, <2>3
<1>5. CASE AckTimeout(l)
  <2>1. /\ pos[l] <= Len(Drops[l]) /\ step[l] = "waiting" /\ Report(l, "failed") /\ acks' \subseteq Files
        /\ UNCHANGED <<channel, wire, back, active, got, stored, httpVars>>
    BY <1>1, <1>5 DEF AckTimeout, At
  <2> QED
    BY <2>1, LoopFails
<1> QED
  BY <1>2, <1>3, <1>4, <1>5

LEMMA ReadAckKeeps == ASSUME DropInv, ReadAck PROVE DropInv'
<1>1. DropTypes /\ WireInv /\ Named /\ Counted /\ back \in Seq(Files \X BOOLEAN) /\ acks \subseteq Files
  BY DEF DropInv, DropTypes, WireInv
<1>2. /\ back # <<>> /\ channel = "open" /\ back' = Tail(back)
      /\ UNCHANGED <<channel, wire, active, got, stored, httpVars>>
  BY DEF ReadAck
<1>3. /\ back' \in Seq(Files \X BOOLEAN) /\ Head(back) = back[1] /\ 1 \in DOMAIN back
      /\ \A i \in DOMAIN back' : i + 1 \in DOMAIN back /\ back'[i] = back[i + 1]
  BY <1>1, <1>2
<1>4. ASSUME NEW l \in Loops, At(l, "waiting"), Answered(l, Head(back)), acks' = acks \ {File(l)},
             Report(l, IF Head(back)[2] THEN "delivered" ELSE "failed")
      PROVE  DropInv'
  <2> DEFINE w == IF Head(back)[2] THEN "delivered" ELSE "failed"
  <2>1. w \in {"rejected", "failed", "delivered", "saved"} /\ w # "saved"
    OBVIOUS
  <2>2. w = "delivered" => stored[File(l)] = AllOf(File(l))
    BY <1>1, <1>3, <1>4 DEF Answered, WireInv, StoredWhole
  <2>3. /\ pos[l] <= Len(Drops[l]) /\ step[l] # "http" /\ acks' \subseteq Files
        /\ UNCHANGED <<channel, wire, active, got, stored, http, busy, dir, second, crashes>>
    BY <1>1, <1>2, <1>4 DEF At, httpVars
  <2>4. Report(l, w)
    BY <1>4
  <2> HIDE DEF w
  <2> QED
    BY <1>2, <1>3, <2>1, <2>2, <2>3, <2>4, ReportKeeps
<1>5. CASE UNCHANGED <<loopVars, acks>>
  <2>1. UNCHANGED <<pos, step, offset, outcome, acks, dir, http, busy, second, crashes>>
    BY <1>2, <1>5 DEF loopVars, httpVars
  <2>2. DropTypes'
    BY <1>1, <1>2, <1>3, <2>1 DEF DropTypes
  <2>3. Onward
    BY <1>1, <2>1, StillOnward
  <2>4. \A f \in Files : outcome'[f] = "delivered" => stored[f] = AllOf(f)
    BY <1>1, <2>1 DEF WireInv, StoredWhole
  <2>5. WireInv'
    BY <1>1, <1>2, <1>3, <2>3, <2>4, WireStays
  <2>6. Named'
    BY <1>1, <2>1 DEF Named, Unnamed, Has, At, File
  <2> QED
    BY <2>2, <2>5, <2>6 DEF DropInv
<1> QED
  BY <1>4, <1>5 DEF ReadAck

LEMMA ReceiveKeeps == ASSUME DropInv, Receive PROVE DropInv'
<1>1. DropTypes /\ WireInv /\ Named
  BY DEF DropInv
<1>2. /\ wire \in Seq({"start", "chunk", "end"} \X Files) /\ got \in Seq(Files) /\ back \in Seq(Files \X BOOLEAN)
      /\ active \in Files \cup {NoFile} /\ NoFile \notin Files
  BY <1>1, WireParts
<1>3. /\ wire # <<>> /\ channel = "open" /\ wire' = Tail(wire)
      /\ UNCHANGED <<channel, acks, pos, step, offset, outcome, busy, http, dir, second, crashes>>
  BY DEF Receive, loopVars, httpVars
<1>4. /\ Head(wire) = wire[1] /\ wire[1][2] \in Files /\ wire' \in Seq({"start", "chunk", "end"} \X Files)
  <2>1. Head(wire) = wire[1] /\ 1 \in DOMAIN wire
    BY <1>2, <1>3
  <2>2. wire[1][2] \in Files
    BY <1>1, <2>1, WireParts
  <2>3. wire' \in Seq({"start", "chunk", "end"} \X Files)
    BY <1>2, <1>3
  <2> QED
    BY <2>1, <2>2, <2>3
<1>5. /\ got \in Seq(Files) /\ <<>> \in Seq(Files) /\ Append(got, wire[1][2]) \in Seq(Files)
  <2>1. got \in Seq(Files)
    BY <1>2
  <2>2. <<>> \in Seq(Files)
    OBVIOUS
  <2>3. wire[1][2] \in Files
    BY <1>4
  <2>4. Append(got, wire[1][2]) \in Seq(Files)
    BY <2>1, <2>3
  <2> QED
    BY <2>1, <2>2, <2>4
<1>6. /\ WireInv' /\ DOMAIN stored' = Files /\ active' \in Files \cup {NoFile}
      /\ got' \in Seq(Files) /\ back' \in Seq(Files \X BOOLEAN)
  <2>0. DOMAIN stored = Files
    BY <1>1 DEF DropTypes
  <2>1. CASE wire[1][1] = "start" /\ ReadStart(wire[1][2]) /\ UNCHANGED stored
    <3>1. WireInv'
      BY <1>1, <1>3, <2>1, StartKeeps
    <3>2. active' \in Files \cup {NoFile} /\ got' \in Seq(Files)
      <4>1. active' \in {NoFile, wire[1][2]} /\ got' = <<>>
        BY <2>1 DEF ReadStart
      <4> QED
        BY <1>4, <1>5, <4>1
    <3>3. back' \in Seq(Files \X BOOLEAN)
      <4>1. CASE active = NoFile
        BY <1>2, <2>1, <4>1 DEF ReadStart
      <4>2. CASE active # NoFile
        <5> DEFINE S == Files \X BOOLEAN
        <5>1. <<active, FALSE>> \in S /\ <<wire[1][2], FALSE>> \in S /\ back \in Seq(S)
          BY <1>2, <1>4, <4>2
        <5>2. back' = back \o <<<<active, FALSE>>, <<wire[1][2], FALSE>>>>
          BY <2>1, <4>2 DEF ReadStart
        <5> HIDE DEF S
        <5>3. back' \in Seq(S)
          BY <5>1, <5>2
        <5> QED
          BY <5>3 DEF S
      <4> QED
        BY <4>1, <4>2
    <3> QED
      BY <2>0, <2>1, <3>1, <3>2, <3>3
  <2>2. CASE wire[1][1] = "chunk" /\ ReadChunk(wire[1][2]) /\ UNCHANGED stored
    <3>1. WireInv'
      BY <1>1, <1>3, <2>2, ChunkKeeps
    <3>2. active' \in Files \cup {NoFile}
      BY <1>2, <2>2 DEF ReadChunk
    <3>3. got' \in Seq(Files)
      <4>1. got' = got \/ got' = <<>> \/ got' = Append(got, wire[1][2])
        BY <2>2 DEF ReadChunk
      <4> QED
        BY <1>5, <4>1
    <3>4. back' \in Seq(Files \X BOOLEAN)
      <4>1. CASE back' = back
        BY <1>2, <4>1
      <4>2. CASE back' # back
        <5> DEFINE S == Files \X BOOLEAN
        <5>1. <<active, FALSE>> \in S /\ back \in Seq(S) /\ back' = Append(back, <<active, FALSE>>)
          BY <1>2, <2>2, <4>2 DEF ReadChunk
        <5> HIDE DEF S
        <5>2. back' \in Seq(S)
          BY <5>1
        <5> QED
          BY <5>2 DEF S
      <4> QED
        BY <4>1, <4>2
    <3> QED
      BY <2>0, <2>2, <3>1, <3>2, <3>3, <3>4
  <2>3. CASE wire[1][1] = "end" /\ \E ok \in BOOLEAN : ReadEnd(wire[1][2], ok)
    <3>1. PICK ok \in BOOLEAN : ReadEnd(wire[1][2], ok)
      BY <2>3
    <3>2. WireInv' /\ DOMAIN stored' = Files
      BY <1>1, <1>3, <2>3, <3>1, EndKeeps
    <3>3. active' \in Files \cup {NoFile} /\ got' \in Seq(Files)
      <4>1. active' \in {NoFile, active} /\ (got' = got \/ got' = <<>>)
        BY <3>1 DEF ReadEnd
      <4> QED
        BY <1>2, <1>5, <4>1
    <3>4. back' \in Seq(Files \X BOOLEAN)
      <4> DEFINE S == Files \X BOOLEAN
      <4>1. <<wire[1][2], ok>> \in S /\ <<wire[1][2], FALSE>> \in S /\ back \in Seq(S)
        BY <1>2, <1>4
      <4>2. \E b \in BOOLEAN : back' = Append(back, <<wire[1][2], b>>)
        BY <3>1 DEF ReadEnd
      <4>3. \A b \in BOOLEAN : <<wire[1][2], b>> \in S
        BY <1>4
      <4> HIDE DEF S
      <4>4. back' \in Seq(S)
        BY <4>1, <4>2, <4>3
      <4> QED
        BY <4>4 DEF S
    <3> QED
      BY <3>2, <3>3, <3>4
  <2> QED
    BY <1>4, <2>1, <2>2, <2>3 DEF Receive
<1>7. DropTypes'
  BY <1>1, <1>3, <1>4, <1>6 DEF DropTypes
<1>8. Named'
  BY <1>1, <1>3 DEF Named, Unnamed, Has, At, File
<1> QED
  BY <1>6, <1>7, <1>8 DEF DropInv

LEMMA ChannelKeeps == ASSUME DropInv, Open \/ Close PROVE DropInv'
<1>1. DropTypes /\ WireInv /\ Named /\ Counted
  BY DEF DropInv, WireInv
<1>2. UNCHANGED <<acks, stored, pos, step, offset, outcome, busy, http, dir, second, crashes>>
  BY DEF Open, Close, loopVars, httpVars
<1>3. Named'
  BY <1>1, <1>2 DEF Named, Unnamed, Has, At, File
<1>4. CASE Open
  <2>1. UNCHANGED <<wire, back, active, got>> /\ channel' = "open"
    BY <1>4 DEF Open
  <2>2. DropTypes'
    BY <1>1, <1>2, <2>1 DEF DropTypes
  <2>3. Onward
    BY <1>1, <1>2, StillOnward
  <2>4. \A f \in Files : outcome'[f] = "delivered" => stored[f] = AllOf(f)
    BY <1>1, <1>2 DEF WireInv, StoredWhole
  <2>5. WireInv'
    BY <1>1, <1>2, <2>1, <2>3, <2>4, WireStays
  <2> QED
    BY <1>3, <2>2, <2>5 DEF DropInv
<1>5. CASE Close
  <2>1. channel' = "closed" /\ wire' = <<>> /\ back' = <<>> /\ active' = NoFile /\ got' = <<>>
    BY <1>5 DEF Close
  <2>2. DropTypes'
    BY <1>1, <1>2, <2>1 DEF DropTypes
  <2>3. WireOrder'
    BY <2>1, FileIs DEF WireOrder
  <2>4. Counted'
    <3>1. \A l \in Loops : step'[l] = "next" => offset'[l] = 0
      BY <1>1, <1>2 DEF Counted
    <3>2. \A l \in Loops : At(l, "sending")' => ~Begun(File(l))'
      <4> SUFFICES ASSUME NEW l \in Loops, At(l, "sending")' PROVE ~Begun(File(l))'
        OBVIOUS
      <4>1. pos'[l] = pos[l] /\ pos[l] <= Len(Drops[l])
        BY <1>2 DEF At
      <4>2. File(l)' # NoFile
        BY <1>1, <4>1, FileAt DEF File
      <4> QED
        BY <2>1, <4>2 DEF Begun
    <3>3. \A f \in Files : ~\E k \in DOMAIN wire' : wire'[k] = <<"end", f>>
      BY <2>1
    <3> QED
      BY <3>1, <3>2, <3>3 DEF Counted
  <2>5. StoredWhole'
    BY <1>1, <1>2, <2>1 DEF WireInv, StoredWhole, AllOf
  <2> QED
    BY <1>3, <2>2, <2>3, <2>4, <2>5 DEF DropInv, WireInv
<1> QED
  BY <1>4, <1>5

\* The server leaves the wire and the loops alone.
LEMMA ServerAlone ==
  ASSUME DropInv, UNCHANGED <<loopVars, p2pVars>>
  PROVE  WireInv'
<1>1. WireInv /\ Counted
  BY DEF DropInv, WireInv
<1>2. UNCHANGED <<pos, step, offset, outcome, channel, wire, back, acks, active, got, stored>>
  BY DEF loopVars, p2pVars
<1>3. Onward
  BY <1>1, <1>2, StillOnward
<1>4. \A f \in Files : outcome'[f] = "delivered" => stored[f] = AllOf(f)
  BY <1>1, <1>2 DEF WireInv, StoredWhole
<1>5. channel' # "open" => wire = <<>> /\ back' = <<>> /\ active = NoFile /\ got = <<>>
  BY <1>1, <1>2 DEF WireInv, WireOrder
<1> QED
  BY <1>1, <1>2, <1>3, <1>4, <1>5, WireStays

LEMMA ServerKeeps ==
  ASSUME DropInv, (\E l \in Loops : ServerStep(l)) \/ Crash \/ Tick
  PROVE  DropInv'
<1>1. /\ DropTypes /\ Named /\ http \in [Loops -> {"none", "sent", "reading", "ok", "refused"}]
      /\ dir \in [Names -> Files \cup {NoFile}] /\ busy \in BOOLEAN /\ second \in 0..MaxSecond /\ crashes \in Nat
  BY DEF DropInv, DropTypes
<1>2. UNCHANGED <<loopVars, p2pVars>>
  BY DEF ServerStep, Admit, Save, Crash, Tick
<1>3. UNCHANGED <<pos, step, offset, outcome, channel, wire, back, acks, active, got, stored>>
  BY <1>2 DEF loopVars, p2pVars
<1>4. WireInv'
  BY <1>2, ServerAlone
<1>5. second' \in 0..MaxSecond /\ crashes' \in Nat
  <2>1. second' \in {second, second + 1} /\ (second' # second => second < MaxSecond)
    BY DEF ServerStep, Admit, Save, Crash, Tick
  <2>2. crashes' \in {crashes, crashes + 1}
    BY DEF ServerStep, Admit, Save, Crash, Tick
  <2>3. MaxSecond \in Nat
    BY DropAssumption DEF DropAssumption
  <2> QED
    BY <1>1, <2>1, <2>2, <2>3
<1>6. busy' \in BOOLEAN
  BY <1>1 DEF ServerStep, Admit, Save, Freed, Crash, Tick
<1>7. CASE /\ UNCHANGED dir /\ http' \in [Loops -> {"none", "sent", "reading", "ok", "refused"}]
           /\ \A m \in Loops : \/ http'[m] = http[m]
                               \/ http[m] # "none" /\ http'[m] = "refused"
                               \/ http[m] = "sent" /\ http'[m] = "reading"
  <2>1. \A m \in Loops : \A i \in DOMAIN Drops[m] : Unnamed(m, i)' => Unnamed(m, i)
    BY <1>3, <1>7 DEF Unnamed
  <2>2. \A m \in Loops : http'[m] # "none" => At(m, "http")'
    BY <1>1, <1>3, <1>7 DEF Named, At
  <2>3. \A m \in Loops : http'[m] = "ok" => http[m] = "ok" /\ pos'[m] = pos[m]
    BY <1>3, <1>7
  <2>4. \A f \in Files : outcome'[f] = "saved" => Has(f)
    BY <1>1, <1>3 DEF Named
  <2>5. Named'
    BY <1>1, <1>7, <2>1, <2>2, <2>3, <2>4, NamedMoves
  <2>6. DropTypes'
    BY <1>1, <1>3, <1>5, <1>6, <1>7 DEF DropTypes
  <2> QED
    BY <1>4, <2>5, <2>6 DEF DropInv
<1>8. ASSUME NEW l \in Loops, http[l] = "reading", dir' = [dir EXCEPT ![FreeName] = File(l)],
             http' \in [Loops -> {"none", "sent", "reading", "ok", "refused"}], http'[l] \in {"ok", "refused"},
             \A m \in Loops : m # l => http'[m] = http[m] \/ (http[m] # "none" /\ http'[m] = "refused")
      PROVE  DropInv'
  <2>1. /\ http'[l] \notin {"sent", "reading"}
        /\ \A m \in Loops : http'[m] # "none" => http[m] # "none"
        /\ \A m \in Loops : http'[m] \in {"sent", "reading"} => http'[m] = http[m]
        /\ \A m \in Loops : http'[m] = "ok" => m = l \/ http[m] = "ok"
    BY <1>8
  <2>2. Named' /\ dir' \in [Names -> Files \cup {NoFile}]
    BY <1>1, <1>3, <1>8, <2>1, NamedSaved
  <2>3. DropTypes'
    BY <1>1, <1>3, <1>5, <1>6, <1>8, <2>2 DEF DropTypes
  <2> QED
    BY <1>4, <2>2, <2>3 DEF DropInv
<1>9. ASSUME NEW l \in Loops, Admit(l) PROVE DropInv'
  <2>1. UNCHANGED dir /\ http[l] = "sent" /\ \E h \in {"refused", "reading"} : http' = [http EXCEPT ![l] = h]
    BY <1>9 DEF Admit
  <2> QED
    BY <1>1, <1>7, <2>1
<1>10. ASSUME NEW l \in Loops, NEW ok \in BOOLEAN, Save(l, ok) PROVE DropInv'
  <2>1. http[l] = "reading" /\ http' = [http EXCEPT ![l] = IF ok THEN "ok" ELSE "refused"]
    BY <1>10 DEF Save
  <2>2. CASE ok
    <3>1. dir' = [dir EXCEPT ![FreeName] = File(l)]
      BY <1>10, <2>2 DEF Save
    <3> QED
      BY <1>1, <1>8, <2>1, <2>2, <3>1
  <2>3. CASE ~ok
    <3>1. UNCHANGED dir
      BY <1>10, <2>3 DEF Save
    <3> QED
      BY <1>1, <1>7, <2>1, <2>3, <3>1
  <2> QED
    BY <2>2, <2>3
<1>11. CASE Crash
  <2>1. http' = [l \in Loops |-> IF http[l] \in {"sent", "reading", "ok"} THEN "refused" ELSE http[l]]
    BY <1>11 DEF Crash
  <2>2. /\ http' \in [Loops -> {"none", "sent", "reading", "ok", "refused"}]
        /\ \A m \in Loops : http'[m] = http[m] \/ (http[m] # "none" /\ http'[m] = "refused")
        /\ \A m \in Loops : http[m] = "reading" => http'[m] = "refused"
    BY <1>1, <2>1
  <2>3. CASE UNCHANGED dir
    BY <1>7, <2>2, <2>3
  <2>4. ASSUME NEW l \in Loops, http[l] = "reading", dir' = [dir EXCEPT ![FreeName] = File(l)]
        PROVE  DropInv'
    BY <1>8, <2>2, <2>4
  <2> QED
    BY <1>11, <2>3, <2>4 DEF Crash
<1>12. CASE Tick
  <2>1. UNCHANGED <<dir, http>>
    BY <1>12 DEF Tick
  <2> QED
    BY <1>1, <1>7, <2>1
<1> QED
  BY <1>9, <1>10, <1>11, <1>12 DEF ServerStep

LEMMA HttpEndsKeeps == ASSUME DropInv, NEW l \in Loops, HttpEnds(l) PROVE DropInv'
<1> DEFINE w == IF http[l] = "ok" THEN "saved" ELSE "failed"
<1>1. DropTypes /\ WireInv /\ Named /\ Counted /\ pos[l] <= Len(Drops[l]) /\ step[l] = "http" /\ pos[l] \in Nat
  BY DEF DropInv, WireInv, HttpEnds, At, DropTypes
<1>2. /\ Report(l, w) /\ w \in {"rejected", "failed", "delivered", "saved"} /\ w # "delivered"
      /\ http' = [http EXCEPT ![l] = "none"]
      /\ UNCHANGED <<channel, wire, back, acks, active, got, stored, busy, dir, second, crashes>>
  BY DEF HttpEnds, p2pVars
<1>3. w = "saved" => Has(File(l))
  BY <1>1 DEF Named
<1> HIDE DEF w
<1>4. /\ pos' \in [Loops -> Nat] /\ step' \in [Loops -> {"next", "sending", "waiting", "http"}]
      /\ offset' \in [Loops -> Nat]
      /\ outcome' \in [Files -> {"none", "rejected", "failed", "delivered", "saved"}]
      /\ \A m \in Loops : pos'[m] \in 1..(Len(Drops[m]) + 1)
      /\ pos'[l] = pos[l] + 1 /\ step'[l] = "next"
      /\ \A m \in Loops : m # l => pos'[m] = pos[m] /\ step'[m] = step[m]
      /\ outcome'[File(l)] = w /\ \A f \in Files \ {File(l)} : outcome'[f] = outcome[f]
  BY <1>1, <1>2, Reported
<1>5. /\ http' \in [Loops -> {"none", "sent", "reading", "ok", "refused"}] /\ http'[l] = "none"
      /\ \A m \in Loops : m # l => http'[m] = http[m]
  BY <1>1, <1>2 DEF DropTypes
<1>6. DropTypes'
  <2>1. /\ pos' \in [Loops -> Nat] /\ step' \in [Loops -> {"next", "sending", "waiting", "http"}]
        /\ offset' \in [Loops -> Nat]
        /\ outcome' \in [Files -> {"none", "rejected", "failed", "delivered", "saved"}]
        /\ \A m \in Loops : pos'[m] \in 1..(Len(Drops[m]) + 1)
    BY <1>4
  <2> QED
    BY <1>1, <1>2, <1>5, <2>1 DEF DropTypes
<1>7. WireInv'
  <2>1. Onward
    BY <1>1, <1>2, ReportOnward
  <2>2. \A f \in Files : outcome'[f] = "delivered" => stored[f] = AllOf(f)
    <3> SUFFICES ASSUME NEW f \in Files, outcome'[f] = "delivered" PROVE stored[f] = AllOf(f)
      OBVIOUS
    <3>1. f # File(l)
      BY <1>2, <1>4
    <3> QED
      BY <1>1, <1>4, <3>1 DEF WireInv, StoredWhole
  <2>3. channel' # "open" => wire = <<>> /\ back' = <<>> /\ active = NoFile /\ got = <<>>
    BY <1>1, <1>2 DEF WireInv, WireOrder
  <2> QED
    BY <1>1, <1>2, <2>1, <2>2, <2>3, WireStays
<1>8. Named'
  <2>1. ASSUME NEW m \in Loops, NEW i \in DOMAIN Drops[m], Unnamed(m, i)' PROVE Unnamed(m, i)
    <3>1. CASE m = l
      <4>1. i \in Nat
        BY FileIs
      <4> QED
        BY <1>1, <1>4, <1>5, <2>1, <3>1, <4>1 DEF Unnamed
    <3>2. CASE m # l
      BY <1>4, <1>5, <2>1, <3>2 DEF Unnamed
    <3> QED
      BY <3>1, <3>2
  <2>2. ASSUME NEW m \in Loops, http'[m] # "none" PROVE At(m, "http")' /\ pos'[m] = pos[m] /\ http'[m] = http[m]
    <3>1. m # l /\ http'[m] = http[m]
      BY <1>5, <2>2
    <3>2. At(m, "http")
      BY <1>1, <2>2, <3>1 DEF Named
    <3> QED
      BY <1>4, <3>1, <3>2 DEF At
  <2>3. \A m \in Loops : http'[m] = "ok" => http[m] = "ok" /\ pos'[m] = pos[m]
    BY <2>2
  <2>4. ASSUME NEW f \in Files, outcome'[f] = "saved" PROVE Has(f)
    <3>1. CASE f = File(l)
      BY <1>3, <1>4, <2>4, <3>1
    <3>2. CASE f # File(l)
      BY <1>1, <1>4, <2>4, <3>2 DEF Named
    <3> QED
      BY <3>1, <3>2
  <2> QED
    BY <1>1, <1>2, <2>1, <2>2, <2>3, <2>4, NamedMoves
<1> QED
  BY <1>6, <1>7, <1>8 DEF DropInv

LEMMA DropStep == ASSUME DropInv, [DropNext]_dvars PROVE DropInv'
<1>1. CASE UNCHANGED dvars
  <2>1. UNCHANGED <<loopVars, p2pVars>> /\ UNCHANGED <<http, dir, busy, second, crashes>>
    BY <1>1 DEF dvars, httpVars
  <2>2. UNCHANGED <<pos, step, offset, outcome, channel, wire, back, acks, active, got, stored>>
    BY <2>1 DEF loopVars, p2pVars
  <2>3. WireInv'
    BY <2>1, ServerAlone
  <2>4. DropTypes'
    BY <2>1, <2>2 DEF DropInv, DropTypes
  <2>5. Named'
    BY <2>1, <2>2 DEF DropInv, Named, Unnamed, Has, At, File
  <2> QED
    BY <2>3, <2>4, <2>5 DEF DropInv
<1>2. ASSUME NEW l \in Loops, LoopStep(l) \/ Stall(l) \/ AckTimeout(l) PROVE DropInv'
  BY <1>2, BeginKeeps, SendingKeeps, HttpEndsKeeps DEF LoopStep
<1>3. CASE (\E l \in Loops : ServerStep(l)) \/ Crash \/ Tick
  BY <1>3, ServerKeeps
<1> QED
  BY <1>1, <1>2, <1>3, ReadAckKeeps, ReceiveKeeps, ChannelKeeps DEF DropNext

\* However the loops of any drops, the channel and the server interleave: what
\* is stored of a file are its chunks, and each saved file has a name of its own.
THEOREM DropInvariant == DropSpec => []DropInv
<1>1. DropInit => DropInv
  BY DropBegins
<1>2. DropInv /\ [DropNext]_dvars => DropInv'
  BY DropStep
<1> QED
  BY <1>1, <1>2, PTL DEF DropSpec

\* The page reports no file as delivered or saved that is not.
THEOREM ReportsTrue == DropSpec => []ReportTrue
<1>1. DropInv => ReportTrue
  BY DEF DropInv, WireInv, StoredWhole, Named, Has, AllOf, ReportTrue
<1> QED
  BY <1>1, DropInvariant, PTL

(* BrowserPeer. *)

-----------------------------------------------------------------------------
\* A peer the page has had a connection with.
Contacted(p) == \E g \in Offers : link[g].peer = p

\* Where an offer's handshake may still be under way: on its way to the
\* receiver, in its hands, or its answer on the way back.
Offered(h) == \E i \in DOMAIN toReceiver : toReceiver[i].type = "offer" /\ toReceiver[i].offer = h
Told(h) == \E i \in DOMAIN toPage : toPage[i].type \in {"answer", "ice"} /\ toPage[i].offer = h
Finished(h) == ~Offered(h) /\ h \notin answering /\ ~Told(h)

\* Only offers that have been made are spoken of, at most so many as the bounds allow.
OffersMade ==
  /\ \A g \in Offers : g >= nextOffer => link[g] = NoLink
  /\ \A g \in Offers : g < nextOffer => link[g].peer # Nobody
  /\ \A g \in Offers : \A h \in link[g].cands \cup {link[g].answer} : h < nextOffer
  /\ \A p \in Ids : \A h \in incoming[p] : h < nextOffer
  /\ nextOffer - 1 <= connects + Cardinality({p \in Ids : Contacted(p)})

\* The map holds the one connection with a peer that is not closed.
Present ==
  /\ \A g \in Offers : link[g].state \in {"offering", "offered", "stable"} => pcs[link[g].peer] = g
  /\ \A p \in Ids : pcs[p] # Nobody =>
       link[pcs[p]].peer = p /\ link[pcs[p]].state \in {"offering", "offered", "stable"}
  /\ \A g \in Offers : link[g].dc \in {"connecting", "open"} =>
       dcs[link[g].peer] = g /\ pcs[link[g].peer] = g
  /\ \A p \in Ids : dcs[p] # Nobody => dcs[p] = pcs[p]
  /\ \A g \in Offers : link[g].ice # "new" => link[g].state = "stable"
  /\ \A g \in Offers : link[g].state \in {"offering", "offered"} => link[g].answer = Nobody
  /\ \A g \in Offers : link[g].ice = "connected" => link[g].answer = g

\* A handshake is at one place at a time, and its answer comes last.
Places ==
  /\ \A i, j \in DOMAIN toReceiver : toReceiver[i].type = "offer" /\ toReceiver[j].type = "offer"
       /\ toReceiver[i].offer = toReceiver[j].offer => i = j
  /\ \A i, j \in DOMAIN toPage : i < j /\ toPage[i].type = "answer" /\ toPage[j].type \in {"answer", "ice"}
       => toPage[i].offer # toPage[j].offer
  /\ \A h \in Offers : Offered(h) => h \notin answering /\ ~Told(h)
  /\ \A h \in answering : ~Told(h)

\* None is under way before it begins, once the page has taken the answer, and
\* once the connection has been replaced.
Settled ==
  /\ \A h \in Offers : link[h].state \in {"none", "offering"} => Finished(h)
  /\ \A h \in Offers : link[h].answer = h => Finished(h)
  /\ \A h \in Offers : link[h].peer # Nobody /\ pcs[link[h].peer] \notin {Nobody, h} => Finished(h)
  /\ \A p \in Ids : pcs[p] # Nobody => \A h \in incoming[p] : h = pcs[p] \/ link[h].peer # p

\* A receiver that has left does not come back under its id.
NoneReturns ==
  /\ receiver < nextId /\ \A p \in Ids : Contacted(p) => p < nextId
  /\ \A i \in DOMAIN toPage : toPage[i].type = "receivers" =>
       \A p, q \in toPage[i].ids : p < nextId /\ p = q
  /\ \A i \in DOMAIN toPage : toPage[i].type = "left" =>
       /\ toPage[i].id < nextId /\ receiver # toPage[i].id
       /\ \A j \in DOMAIN toPage : i < j /\ toPage[j].type = "receivers" => toPage[i].id \notin toPage[j].ids
  /\ page = "on" => \A p \in Ids : Contacted(p) /\ pcs[p] = Nobody =>
       /\ receiver # p /\ incoming[p] = {}
       /\ \A i \in DOMAIN toPage : toPage[i].type = "receivers" => p \notin toPage[i].ids

\* The list on the page is what the client knows.
Listed ==
  /\ me = Nobody => toPage = <<>>
  /\ page = "off" => me = Nobody
  /\ page = "on" => \A p \in Ids : shown[p] = IF p \in peers THEN Status(p) ELSE "absent"
  /\ page = "on" => \A p \in peers : pcs[p] # Nobody

PeersInv == BrowserTypeOK /\ OffersMade /\ Present /\ Places /\ Settled /\ HandshakesApart /\ NoneReturns /\ Listed
-----------------------------------------------------------------------------
(* The two queues. *)

LEMMA QueueTail ==
  ASSUME NEW S, NEW s \in Seq(S), s # <<>>
  PROVE  /\ Tail(s) \in Seq(S) /\ 1 \in DOMAIN s /\ Head(s) = s[1] /\ s[1] \in S
         /\ \A i \in DOMAIN Tail(s) : i + 1 \in DOMAIN s /\ Tail(s)[i] = s[i + 1]
OBVIOUS

LEMMA QueueAppend ==
  ASSUME NEW S, NEW s \in Seq(S), NEW x \in S
  PROVE  /\ Append(s, x) \in Seq(S) /\ DOMAIN s \subseteq DOMAIN Append(s, x) /\ DOMAIN Append(s, x) \subseteq Nat
         /\ Len(s) + 1 \in DOMAIN Append(s, x) /\ Append(s, x)[Len(s) + 1] = x
         /\ \A i \in DOMAIN s : i < Len(s) + 1 /\ Append(s, x)[i] = s[i]
         /\ \A i \in DOMAIN Append(s, x) : i \in DOMAIN s \/ i = Len(s) + 1
OBVIOUS

\* What a message of each type says.
LEMMA Parts ==
  ASSUME NEW m \in Msg
  PROVE  /\ m.type \in {"welcome", "receivers", "left", "offer", "answer", "ice"}
         /\ m.type = "receivers" => m.ids \subseteq Ids
         /\ m.type = "left" => m.id \in Ids
         /\ m.type \in {"offer", "answer", "ice"} => m.from \in Ids /\ m.offer \in Offers
<1>1. CASE m \in [type: {"welcome"}]
  BY <1>1
<1>2. CASE m \in [type: {"receivers"}, ids: SUBSET Ids]
  BY <1>2
<1>3. CASE m \in [type: {"left"}, id: Ids]
  BY <1>3
<1>4. CASE m \in [type: {"offer", "answer", "ice"}, from: Ids, offer: Offers]
  BY <1>4
<1> QED
  BY <1>1, <1>2, <1>3, <1>4 DEF Msg

LEMMA IsMsg ==
  /\ [type |-> "welcome"] \in Msg
  /\ \A s \in SUBSET Ids : [type |-> "receivers", ids |-> s] \in Msg
  /\ \A p \in Ids : [type |-> "left", id |-> p] \in Msg
  /\ \A p \in Ids, h \in Offers : /\ [type |-> "offer", from |-> p, offer |-> h] \in Msg
                                  /\ [type |-> "answer", from |-> p, offer |-> h] \in Msg
                                  /\ [type |-> "ice", from |-> p, offer |-> h] \in Msg
BY DEF Msg

\* The handshakes on the queues are those that were, e and d messages further on.
PlacesStay(d, e) ==
  /\ \A i \in DOMAIN toPage' : toPage'[i].type \in {"answer", "ice"} =>
       i + d \in DOMAIN toPage /\ toPage'[i] = toPage[i + d]
  /\ \A i \in DOMAIN toReceiver' : toReceiver'[i].type = "offer" =>
       i + e \in DOMAIN toReceiver /\ toReceiver'[i] = toReceiver[i + e]
  /\ answering' \subseteq answering

LEMMA PlacesKeep ==
  ASSUME BrowserTypeOK, BrowserTypeOK', Places, NEW d \in {0, 1}, NEW e \in {0, 1}, PlacesStay(d, e)
  PROVE  Places' /\ \A h \in Offers : (Told(h)' => Told(h)) /\ (Finished(h) => Finished(h)')
<1>1. \A i \in DOMAIN toPage' : i \in Int
  BY DEF BrowserTypeOK
<1>2. \A i \in DOMAIN toReceiver' : i \in Int
  BY DEF BrowserTypeOK
<1>3. ASSUME NEW h, Told(h)' PROVE Told(h)
  BY <1>3 DEF Told, PlacesStay
<1>4. ASSUME NEW h, Offered(h)' PROVE Offered(h)
  BY <1>4 DEF Offered, PlacesStay
<1>5. ASSUME NEW i \in DOMAIN toReceiver', NEW j \in DOMAIN toReceiver',
             toReceiver'[i].type = "offer", toReceiver'[j].type = "offer",
             toReceiver'[i].offer = toReceiver'[j].offer
      PROVE  i = j
  <2>1. i + e = j + e
    BY <1>5 DEF Places, PlacesStay
  <2>2. \A a, b \in Int : a + e = b + e => a = b
    OBVIOUS
  <2> QED
    BY <1>2, <2>1, <2>2
<1>6. ASSUME NEW i \in DOMAIN toPage', NEW j \in DOMAIN toPage', i < j,
             toPage'[i].type = "answer", toPage'[j].type \in {"answer", "ice"}
      PROVE  toPage'[i].offer # toPage'[j].offer
  <2>1. /\ i + d \in DOMAIN toPage /\ toPage'[i] = toPage[i + d]
        /\ j + d \in DOMAIN toPage /\ toPage'[j] = toPage[j + d]
    BY <1>6 DEF PlacesStay
  <2>2. i + d < j + d
    BY <1>1, <1>6
  <2> QED
    BY <1>6, <2>1, <2>2 DEF Places
<1>7. answering' \subseteq answering
  BY DEF PlacesStay
<1>8. \A h \in Offers : Finished(h) => Finished(h)'
  BY <1>3, <1>4, <1>7 DEF Finished
<1>9. Places'
  BY <1>3, <1>4, <1>5, <1>6, <1>7 DEF Places
<1> QED
  BY <1>3, <1>8, <1>9

\* Of the receiver's comings and goings nothing new is heard.
NewsStay(d) ==
  /\ \A i \in DOMAIN toPage' : toPage'[i].type \in {"receivers", "left"} =>
       i + d \in DOMAIN toPage /\ toPage'[i] = toPage[i + d]
  /\ receiver' = receiver /\ nextId' \in Nat /\ nextId' >= nextId

\* The peers contacted stay those, and no connection is given up.
LinksStay ==
  /\ page' = "on" => page = "on"
  /\ \A p \in Ids : (Contacted(p)' => Contacted(p)) /\ (pcs[p] # Nobody /\ page' = "on" => pcs'[p] # Nobody)
  /\ \A p \in Ids : Contacted(p) /\ pcs[p] = Nobody => incoming'[p] \subseteq incoming[p]

LEMMA NewsKeeps ==
  ASSUME BrowserTypeOK, BrowserTypeOK', NoneReturns, NEW d \in {0, 1}, NewsStay(d), LinksStay
  PROVE  NoneReturns'
<1>1. \A i \in DOMAIN toPage' : i \in Int
  BY DEF BrowserTypeOK
<1>2. receiver < nextId' /\ receiver' = receiver
  BY DEF BrowserTypeOK, NoneReturns, NewsStay, Ids, Nobody
<1>3. \A p \in Ids : p < nextId => p < nextId'
  BY DEF BrowserTypeOK, NewsStay, Ids
<1>4. \A p \in Ids : Contacted(p)' => p < nextId'
  BY <1>3 DEF NoneReturns, LinksStay
<1>5. ASSUME NEW i \in DOMAIN toPage', toPage'[i].type = "receivers", NEW p \in toPage'[i].ids, NEW q \in toPage'[i].ids
      PROVE  p < nextId' /\ p = q
  <2>1. i + d \in DOMAIN toPage /\ toPage'[i] = toPage[i + d] /\ toPage[i + d] \in Msg
    BY <1>5 DEF NewsStay, BrowserTypeOK
  <2>2. p \in Ids
    BY <1>5, <2>1, Parts
  <2> QED
    BY <1>3, <1>5, <2>1, <2>2 DEF NoneReturns
<1>6. ASSUME NEW i \in DOMAIN toPage', toPage'[i].type = "left"
      PROVE  /\ toPage'[i].id < nextId' /\ receiver' # toPage'[i].id
             /\ \A j \in DOMAIN toPage' : i < j /\ toPage'[j].type = "receivers" => toPage'[i].id \notin toPage'[j].ids
  <2>1. i + d \in DOMAIN toPage /\ toPage'[i] = toPage[i + d] /\ toPage[i + d] \in Msg
    BY <1>6 DEF NewsStay, BrowserTypeOK
  <2>2. toPage'[i].id \in Ids
    BY <1>6, <2>1, Parts
  <2>3. ASSUME NEW j \in DOMAIN toPage', i < j, toPage'[j].type = "receivers" PROVE toPage'[i].id \notin toPage'[j].ids
    <3>1. j + d \in DOMAIN toPage /\ toPage'[j] = toPage[j + d] /\ i + d < j + d
      BY <1>1, <2>3 DEF NewsStay
    <3> QED
      BY <1>6, <2>1, <2>3, <3>1 DEF NoneReturns
  <2> QED
    BY <1>2, <1>3, <1>6, <2>1, <2>2, <2>3 DEF NoneReturns
<1>7. ASSUME page' = "on", NEW p \in Ids, Contacted(p)', pcs'[p] = Nobody
      PROVE  /\ receiver' # p /\ incoming'[p] = {}
             /\ \A i \in DOMAIN toPage' : toPage'[i].type = "receivers" => p \notin toPage'[i].ids
  <2>1. page = "on" /\ Contacted(p) /\ pcs[p] = Nobody /\ incoming'[p] \subseteq incoming[p]
    BY <1>7 DEF LinksStay
  <2> QED
    BY <1>2, <2>1 DEF NoneReturns, NewsStay
<1> QED
  BY <1>2, <1>4, <1>5, <1>6, <1>7 DEF NoneReturns
-----------------------------------------------------------------------------
(* What a step leaves alone. *)

\* Only connection g is written, one that is there, and it stays with its peer.
Touched(g) ==
  /\ \A x \in Offers : x # g => link'[x] = link[x]
  /\ link'[g].peer = link[g].peer
  /\ {link[g].state, link'[g].state} \subseteq {"offering", "offered", "stable"}
  /\ pcs' = pcs /\ nextOffer' = nextOffer /\ connects' = connects

\* It takes nothing of another connection with the same peer.
Takes(g) ==
  \A h \in link'[g].cands \cup {link'[g].answer} :
    h < nextOffer /\ (h \in {Nobody, g} \/ link[h].peer # link[g].peer)

\* Its channel is the one in the map, if it is not closed.
Keeps(g) ==
  /\ link'[g].dc \in {"connecting", "open"} => dcs'[link[g].peer] = g
  /\ \A p \in Ids : p # link[g].peer => dcs'[p] = dcs[p]
  /\ dcs'[link[g].peer] \in {Nobody, g}
  /\ link'[g].ice # "new" => link'[g].state = "stable"
  /\ link'[g].ice = "connected" => link'[g].answer = g
  /\ link'[g].state \in {"offering", "offered"} => link'[g].answer = Nobody

LEMMA LinkIs == ASSUME BrowserTypeOK, NEW g \in Offers
  PROVE  /\ link[g] \in Link /\ link[g].peer \in Ids \cup {Nobody} /\ link[g].answer \in Offers \cup {Nobody}
         /\ link[g].cands \subseteq Offers
         /\ link[g].state \in {"none", "offering", "offered", "stable", "closed"}
         /\ link[g].ice \in {"new", "connected", "failed"} /\ link[g].dc \in {"none", "connecting", "open", "closed"}
<1>1. link[g] \in Link
  BY DEF BrowserTypeOK
<1> QED
  BY <1>1 DEF Link

LEMMA Live == ASSUME BrowserTypeOK, OffersMade, Present, NEW g \in Offers, link[g].state \in {"offering", "offered", "stable"}
  PROVE  g < nextOffer /\ link[g].peer \in Ids /\ pcs[link[g].peer] = g
<1>1. g < nextOffer
  <2>1. CASE g >= nextOffer
    BY <2>1 DEF OffersMade, NoLink
  <2> QED
    BY <2>1 DEF BrowserTypeOK, Offers
<1> QED
  BY <1>1, LinkIs DEF OffersMade, Present

LEMMA SameContacts ==
  ASSUME \A x \in Offers : link'[x].peer = link[x].peer
  PROVE  /\ \A p : Contacted(p)' <=> Contacted(p)
         /\ {p \in Ids : Contacted(p)}' = {p \in Ids : Contacted(p)}
<1>1. \A p : Contacted(p)' <=> Contacted(p)
  BY DEF Contacted
<1> QED
  BY <1>1

LEMMA TouchedKeeps ==
  ASSUME BrowserTypeOK, BrowserTypeOK', OffersMade, Present, HandshakesApart, NEW g \in Offers,
         Touched(g), Takes(g), Keeps(g), \A p \in Ids : \A h \in incoming'[p] : h < nextOffer
  PROVE  OffersMade' /\ Present' /\ HandshakesApart' /\ \A p : Contacted(p)' <=> Contacted(p)
<1>1. g < nextOffer /\ link[g].peer \in Ids /\ pcs[link[g].peer] = g
  BY Live DEF Touched
<1>2. \A x \in Offers : link'[x].peer = link[x].peer
  BY DEF Touched
<1>3. /\ \A p : Contacted(p)' <=> Contacted(p)
      /\ {p \in Ids : Contacted(p)}' = {p \in Ids : Contacted(p)}
  BY <1>2, SameContacts
<1>4. OffersMade'
  <2>1. \A x \in Offers : x >= nextOffer => link'[x] = NoLink
    BY <1>1 DEF OffersMade, Touched, BrowserTypeOK, Offers
  <2>2. \A x \in Offers : x < nextOffer => link'[x].peer # Nobody
    BY <1>2 DEF OffersMade
  <2>3. \A x \in Offers : \A h \in link'[x].cands \cup {link'[x].answer} : h < nextOffer
    BY DEF OffersMade, Touched, Takes
  <2> QED
    BY <1>3, <2>1, <2>2, <2>3 DEF OffersMade, Touched
<1>5. Present'
  <2>1. ASSUME NEW x \in Offers, link'[x].state \in {"offering", "offered", "stable"} PROVE pcs'[link'[x].peer] = x
    BY <1>1, <1>2, <2>1 DEF Present, Touched
  <2>2. ASSUME NEW p \in Ids, pcs'[p] # Nobody
        PROVE  link'[pcs'[p]].peer = p /\ link'[pcs'[p]].state \in {"offering", "offered", "stable"}
    <3>1. pcs[p] \in Offers /\ pcs'[p] = pcs[p]
      BY <2>2 DEF BrowserTypeOK, Touched
    <3> QED
      BY <1>2, <2>2, <3>1 DEF Present, Touched
  <2>3. ASSUME NEW x \in Offers, link'[x].dc \in {"connecting", "open"}
        PROVE  dcs'[link'[x].peer] = x /\ pcs'[link'[x].peer] = x
    <3>1. CASE x = g
      BY <1>1, <1>2, <2>3, <3>1 DEF Keeps, Touched
    <3>2. CASE x # g
      <4>1. link'[x] = link[x] /\ dcs[link[x].peer] = x /\ pcs[link[x].peer] = x
        BY <2>3, <3>2 DEF Touched, Present
      <4>2. x < nextOffer \/ link[x] = NoLink
        BY DEF OffersMade, BrowserTypeOK, Offers
      <4>3. link[x].peer \in Ids
        BY <2>3, <4>1, <4>2, LinkIs DEF OffersMade, NoLink
      <4> QED
        BY <1>1, <3>2, <4>1, <4>3 DEF Keeps, Touched
    <3> QED
      BY <3>1, <3>2
  <2>4. ASSUME NEW p \in Ids, dcs'[p] # Nobody PROVE dcs'[p] = pcs'[p]
    BY <1>1, <2>4 DEF Present, Keeps, Touched
  <2>5. \A x \in Offers : link'[x].ice # "new" => link'[x].state = "stable"
    BY DEF Present, Keeps, Touched
  <2>6. \A x \in Offers : link'[x].ice = "connected" => link'[x].answer = x
    BY DEF Present, Keeps, Touched
  <2>7. \A x \in Offers : link'[x].state \in {"offering", "offered"} => link'[x].answer = Nobody
    BY DEF Present, Keeps, Touched
  <2> QED
    BY <2>1, <2>2, <2>3, <2>4, <2>5, <2>6, <2>7 DEF Present
<1>6. HandshakesApart'
  <2> SUFFICES ASSUME NEW x \in Offers, NEW h \in (link'[x].cands \cup {link'[x].answer}) \ {Nobody, x}
               PROVE  link'[h].peer # link'[x].peer
    BY DEF HandshakesApart
  <2>1. h \in Offers
    <3>1. link'[x].cands \subseteq Offers /\ link'[x].answer \in Offers \cup {Nobody}
      BY DEF BrowserTypeOK, Link
    <3> QED
      BY <3>1
  <2>2. link[h].peer # link[x].peer
    <3>1. CASE x = g
      BY <3>1 DEF Takes
    <3>2. CASE x # g
      BY <3>2 DEF Touched, HandshakesApart
    <3> QED
      BY <3>1, <3>2
  <2> QED
    BY <1>2, <2>1, <2>2
<1> QED
  BY <1>3, <1>4, <1>5, <1>6

LEMMA ClientStays ==
  ASSUME BrowserTypeOK, OffersMade, Present, HandshakesApart,
         link' = link, pcs' = pcs, dcs' = dcs, nextOffer' = nextOffer, incoming' = incoming, connects' = connects
  PROVE  /\ OffersMade' /\ Present' /\ HandshakesApart' /\ \A p : Contacted(p)' <=> Contacted(p)
         /\ page' = page => LinksStay
<1>1. /\ \A p : Contacted(p)' <=> Contacted(p)
      /\ {p \in Ids : Contacted(p)}' = {p \in Ids : Contacted(p)}
  BY SameContacts
<1>2. OffersMade'
  BY <1>1 DEF OffersMade
<1>3. Present' /\ HandshakesApart'
  BY DEF Present, HandshakesApart
<1> QED
  BY <1>1, <1>2, <1>3 DEF LinksStay

\* A connection is begun, answered or replaced only when no handshake is under way.
LEMMA SettledKeeps ==
  ASSUME Settled,
         \A h \in Offers :
           /\ link'[h].state \in {"none", "offering"} => Finished(h)'
           /\ link'[h].answer = h => Finished(h)'
           /\ link'[h].peer # Nobody /\ pcs'[link'[h].peer] \notin {Nobody, h} => Finished(h)',
         \A p \in Ids : pcs'[p] # Nobody => \A h \in incoming'[p] : h = pcs'[p] \/ link'[h].peer # p
  PROVE  Settled'
BY DEF Settled

\* Nothing that makes the list changes.
LEMMA ListStays ==
  ASSUME BrowserTypeOK, Listed, page' = "on" => page = "on", peers' = peers, shown' = shown, pcs' = pcs, dcs' = dcs,
         \A x \in Offers : link'[x].ice = link[x].ice /\ link'[x].dc = link[x].dc,
         me' = Nobody => toPage' = <<>>, page' = "off" => me' = Nobody
  PROVE  Listed'
<1>1. ASSUME NEW p \in Ids PROVE Status(p)' = Status(p)
  BY DEF Status, BrowserTypeOK
<1> QED
  BY <1>1 DEF Listed

\* The list is made anew.
LEMMA ListMade ==
  ASSUME Emit, me' = Nobody => toPage' = <<>>, page' = "off" => me' = Nobody,
         page' = "on" => \A p \in peers' : pcs'[p] # Nobody
  PROVE  Listed'
<1>1. \A p \in Ids : shown'[p] = IF p \in peers' THEN Status(p)' ELSE "absent"
  BY DEF Emit
<1> QED
  BY <1>1 DEF Listed
-----------------------------------------------------------------------------
(* The steps that write no connection of the page. *)

LEMMA SettledStays ==
  ASSUME Settled, link' = link, pcs' = pcs, incoming' = incoming, \A h \in Offers : Finished(h) => Finished(h)'
  PROVE  Settled'
BY DEF Settled

LEMMA Quiet ==
  ASSUME PeersInv, BrowserTypeOK', UNCHANGED <<client, ui, page>>, NEW d \in {0, 1}, NEW e \in {0, 1}, PlacesStay(d, e),
         me' = Nobody => toPage' = <<>>, page = "off" => me' = Nobody,
         NewsStay(d) \/ NoneReturns'
  PROVE  PeersInv'
<1>1. UNCHANGED <<link, pcs, dcs, nextOffer, incoming, connects, peers, shown, page>>
  BY DEF client, ui
<1>2. OffersMade' /\ Present' /\ HandshakesApart' /\ LinksStay
  BY <1>1, ClientStays DEF PeersInv
<1>3. Places' /\ \A h \in Offers : Finished(h) => Finished(h)'
  BY PlacesKeep DEF PeersInv
<1>4. Settled'
  BY <1>1, <1>3, SettledStays DEF PeersInv
<1>5. NoneReturns'
  BY <1>2, NewsKeeps DEF PeersInv
<1>6. Listed'
  BY <1>1, ListStays DEF PeersInv
<1> QED
  BY <1>2, <1>3, <1>4, <1>5, <1>6 DEF PeersInv

LEMMA OneAhead == ASSUME BrowserTypeOK, toPage # <<>>, toPage' = Tail(toPage)
  PROVE  /\ toPage' \in Seq(Msg) /\ 1 \in DOMAIN toPage /\ Head(toPage) = toPage[1] /\ toPage[1] \in Msg
         /\ \A i \in DOMAIN toPage' : i + 1 \in DOMAIN toPage /\ toPage'[i] = toPage[i + 1]
BY QueueTail DEF BrowserTypeOK

LEMMA OneAheadThere == ASSUME BrowserTypeOK, toReceiver # <<>>, toReceiver' = Tail(toReceiver)
  PROVE  /\ toReceiver' \in Seq(Msg) /\ 1 \in DOMAIN toReceiver /\ Head(toReceiver) = toReceiver[1] /\ toReceiver[1] \in Msg
         /\ \A i \in DOMAIN toReceiver' : i + 1 \in DOMAIN toReceiver /\ toReceiver'[i] = toReceiver[i + 1]
BY QueueTail DEF BrowserTypeOK

LEMMA OneMore == ASSUME BrowserTypeOK, NEW m \in Msg, toPage' = Append(toPage, m)
  PROVE  /\ toPage' \in Seq(Msg)
         /\ \A i \in DOMAIN toPage' : i \in Nat /\ \/ i \in DOMAIN toPage /\ i < Len(toPage) + 1 /\ toPage'[i] = toPage[i]
                                                   \/ i = Len(toPage) + 1 /\ toPage'[i] = m
<1>1. toPage \in Seq(Msg)
  BY DEF BrowserTypeOK
<1> QED
  BY <1>1, QueueAppend

LEMMA OneMoreThere == ASSUME BrowserTypeOK, NEW m \in Msg, toReceiver' = Append(toReceiver, m)
  PROVE  /\ toReceiver' \in Seq(Msg)
         /\ \A i \in DOMAIN toReceiver' : i \in Nat /\ \/ i \in DOMAIN toReceiver /\ i < Len(toReceiver) + 1 /\ toReceiver'[i] = toReceiver[i]
                                                       \/ i = Len(toReceiver) + 1 /\ toReceiver'[i] = m
<1>1. toReceiver \in Seq(Msg)
  BY DEF BrowserTypeOK
<1> QED
  BY <1>1, QueueAppend

LEMMA Same == ASSUME BrowserTypeOK
  PROVE  /\ \A i \in DOMAIN toPage : i + 0 = i
         /\ \A i \in DOMAIN toReceiver : i + 0 = i
BY DEF BrowserTypeOK

LEMMA NextIds == BrowserTypeOK => /\ nextId \in Nat /\ nextId + 1 \in Nat
                                  /\ nextId \in Ids => nextId + 1 \in 1..(MaxConns + 1)
BY BrowserAssumption DEF BrowserTypeOK, Ids, BrowserAssumption

LEMMA ReadOfferKeeps == ASSUME PeersInv, ReadOffer PROVE PeersInv'
<1>1. BrowserTypeOK /\ Places /\ Settled
  BY DEF PeersInv
<1>2. /\ toReceiver' = Tail(toReceiver) /\ toReceiver # <<>> /\ Head(toReceiver).type = "offer"
      /\ UNCHANGED <<hub, page, failures, toPage, client, ui>>
  BY DEF ReadOffer
<1>3. /\ toReceiver' \in Seq(Msg) /\ 1 \in DOMAIN toReceiver /\ Head(toReceiver) = toReceiver[1] /\ toReceiver[1] \in Msg
      /\ \A i \in DOMAIN toReceiver' : i + 1 \in DOMAIN toReceiver /\ toReceiver'[i] = toReceiver[i + 1]
  BY <1>1, <1>2, OneAheadThere
<1> DEFINE h == toReceiver[1].offer
<1>4. toReceiver[1].type = "offer" /\ toReceiver[1].from \in Ids /\ h \in Offers
  BY <1>2, <1>3, Parts
<1>5. answering' = answering \cup {h} /\ alive' = alive \cup {h} /\ rpcs' = [rpcs EXCEPT ![toReceiver[1].from] = h]
  BY <1>3 DEF ReadOffer
<1>6. UNCHANGED <<nextId, receiver, me, zombie, page, failures, toPage, peers, pcs, dcs, link, sent, outgoing, incoming, nextOffer, shown, target, dirty, connects>>
  BY <1>2 DEF hub, client, ui
<1>7. BrowserTypeOK'
  BY <1>1, <1>3, <1>4, <1>5, <1>6 DEF BrowserTypeOK
<1>8. ASSUME NEW x, Offered(x)' PROVE Offered(x) /\ x # h
  <2>1. PICK i \in DOMAIN toReceiver' : toReceiver'[i].type = "offer" /\ toReceiver'[i].offer = x
    BY <1>8 DEF Offered
  <2>2. i + 1 \in DOMAIN toReceiver /\ toReceiver[i + 1].type = "offer" /\ toReceiver[i + 1].offer = x /\ i + 1 # 1
    BY <1>3, <1>7, <2>1 DEF BrowserTypeOK
  <2> QED
    BY <1>1, <1>3, <1>4, <2>2 DEF Offered, Places
<1>9. Offered(h)
  BY <1>3, <1>4 DEF Offered
<1>10. \A x : Told(x)' <=> Told(x)
  BY <1>6 DEF Told
<1>11. \A x \in Offers : Finished(x) => Finished(x)'
  BY <1>5, <1>8, <1>9, <1>10 DEF Finished
<1>12. Places'
  <2>1. ASSUME NEW i \in DOMAIN toReceiver', NEW j \in DOMAIN toReceiver',
               toReceiver'[i].type = "offer", toReceiver'[j].type = "offer", toReceiver'[i].offer = toReceiver'[j].offer
        PROVE  i = j
    <3>1. i + 1 = j + 1
      BY <1>1, <1>3, <2>1 DEF Places
    <3>2. i \in Int /\ j \in Int
      BY <1>7 DEF BrowserTypeOK
    <3>3. \A a, b \in Int : a + 1 = b + 1 => a = b
      OBVIOUS
    <3> QED
      BY <3>1, <3>2, <3>3
  <2>2. \A x \in Offers : Offered(x)' => x \notin answering' /\ ~Told(x)'
    BY <1>1, <1>5, <1>8, <1>10 DEF Places
  <2>3. \A x \in answering' : ~Told(x)'
    BY <1>1, <1>4, <1>5, <1>9, <1>10 DEF Places
  <2> QED
    BY <1>1, <1>6, <2>1, <2>2, <2>3 DEF Places
<1>13. Settled'
  BY <1>1, <1>6, <1>11, SettledStays
<1>14. OffersMade' /\ Present' /\ HandshakesApart'
  BY <1>6, ClientStays DEF PeersInv
<1>15. NoneReturns' /\ Listed'
  <2>1. Listed'
    BY <1>6, ListStays DEF PeersInv, Listed
  <2>2. \A p : Contacted(p)' <=> Contacted(p)
    BY <1>6 DEF Contacted
  <2>3. NoneReturns'
    BY <1>6, <2>2 DEF PeersInv, NoneReturns
  <2> QED
    BY <2>1, <2>3
<1> QED
  BY <1>7, <1>12, <1>13, <1>14, <1>15 DEF PeersInv
LEMMA PageSocketKeeps == ASSUME PeersInv, PageConnects \/ PageDrops \/ ZombieEvicted PROVE PeersInv'
<1>1. BrowserTypeOK /\ NoneReturns /\ Listed
  BY DEF PeersInv
<1>2. CASE PageConnects
  <2>1. /\ page = "on" /\ nextId \in Ids /\ me' = nextId /\ nextId' = nextId + 1 /\ toPage' = <<[type |-> "welcome"]>>
        /\ UNCHANGED <<receiver, zombie, page, failures, toReceiver, client, ui, recv>>
    BY <1>2 DEF PageConnects
  <2>2. toPage' \in Seq(Msg)
    BY <2>1, IsMsg
  <2>3. BrowserTypeOK'
    BY <1>1, <2>1, <2>2, NextIds DEF BrowserTypeOK, client, ui, recv
  <2>4. \A i \in DOMAIN toPage' : toPage'[i].type = "welcome"
    BY <2>1
  <2>5. PlacesStay(0, 0) /\ NewsStay(0)
    BY <1>1, <2>1, <2>4, Same, NextIds DEF PlacesStay, NewsStay, recv
  <2>6. me' # Nobody
    BY <2>1 DEF Ids, Nobody
  <2> QED
    BY <2>1, <2>3, <2>5, <2>6, Quiet
<1>3. CASE PageDrops
  <2>1. /\ me # Nobody /\ me' = Nobody /\ toPage' = <<>>
        /\ UNCHANGED <<nextId, receiver, page, failures, client, ui, recv>>
    BY <1>3 DEF PageDrops
  <2>2. \/ zombie' = me /\ toReceiver' = toReceiver
        \/ zombie' = zombie /\ toReceiver' = toReceiver
        \/ zombie' = zombie /\ toReceiver' = Append(toReceiver, [type |-> "left", id |-> me])
    BY <1>3 DEF PageDrops
  <2>3. me \in Ids /\ [type |-> "left", id |-> me] \in Msg
    BY <1>1, <2>1, IsMsg DEF BrowserTypeOK
  <2>4. /\ toReceiver' \in Seq(Msg)
        /\ \A i \in DOMAIN toReceiver' : toReceiver'[i].type = "offer" => i + 0 \in DOMAIN toReceiver /\ toReceiver'[i] = toReceiver[i + 0]
    <3>1. CASE toReceiver' = toReceiver
      BY <1>1, <3>1, Same DEF BrowserTypeOK
    <3>2. CASE toReceiver' = Append(toReceiver, [type |-> "left", id |-> me])
      BY <1>1, <2>3, <3>2, OneMoreThere, Same
    <3> QED
      BY <2>2, <3>1, <3>2
  <2>5. toPage' \in Seq(Msg) /\ DOMAIN toPage' = {}
    BY <2>1
  <2>6. BrowserTypeOK'
    BY <1>1, <2>1, <2>2, <2>3, <2>4, <2>5 DEF BrowserTypeOK, client, ui, recv
  <2>7. PlacesStay(0, 0)
    BY <2>1, <2>4, <2>5 DEF PlacesStay, recv
  <2>8. NewsStay(0)
    BY <1>1, <2>1, <2>5, NextIds DEF NewsStay
  <2> QED
    BY <2>1, <2>6, <2>7, <2>8, Quiet
<1>4. CASE ZombieEvicted
  <2>1. /\ zombie # Nobody /\ zombie' = Nobody
        /\ UNCHANGED <<nextId, receiver, me, page, failures, toPage, client, ui, recv>>
    BY <1>4 DEF ZombieEvicted
  <2>2. toReceiver' = toReceiver \/ toReceiver' = Append(toReceiver, [type |-> "left", id |-> zombie])
    BY <1>4 DEF ZombieEvicted
  <2>3. [type |-> "left", id |-> zombie] \in Msg
    BY <1>1, <2>1, IsMsg DEF BrowserTypeOK
  <2>4. /\ toReceiver' \in Seq(Msg)
        /\ \A i \in DOMAIN toReceiver' : toReceiver'[i].type = "offer" => i + 0 \in DOMAIN toReceiver /\ toReceiver'[i] = toReceiver[i + 0]
    <3>1. CASE toReceiver' = toReceiver
      BY <1>1, <3>1, Same DEF BrowserTypeOK
    <3>2. CASE toReceiver' = Append(toReceiver, [type |-> "left", id |-> zombie])
      BY <1>1, <2>3, <3>2, OneMoreThere, Same
    <3> QED
      BY <2>2, <3>1, <3>2
  <2>5. BrowserTypeOK'
    BY <1>1, <2>1, <2>4 DEF BrowserTypeOK, client, ui, recv
  <2>6. PlacesStay(0, 0) /\ NewsStay(0)
    BY <1>1, <2>1, <2>4, Same, NextIds DEF PlacesStay, NewsStay, recv
  <2> QED
    BY <1>1, <2>1, <2>5, <2>6, Quiet DEF Listed
<1> QED
  BY <1>2, <1>3, <1>4

LEMMA ReceiverJoinsKeeps == ASSUME PeersInv, ReceiverJoins PROVE PeersInv'
<1>1. BrowserTypeOK /\ NoneReturns /\ Listed
  BY DEF PeersInv
<1> DEFINE m == [type |-> "receivers", ids |-> {nextId}]
<1>2. /\ receiver = Nobody /\ nextId \in Ids /\ receiver' = nextId /\ nextId' = nextId + 1
      /\ toPage' = toPage \/ (me # Nobody /\ toPage' = Append(toPage, m))
      /\ UNCHANGED <<me, zombie, page, failures, toReceiver, client, ui, recv>>
  BY DEF ReceiverJoins
<1>3. m \in Msg /\ m.type = "receivers" /\ m.ids = {nextId}
  BY <1>2, IsMsg
<1> HIDE DEF m
<1>4. /\ toPage' \in Seq(Msg)
      /\ \A i \in DOMAIN toPage' : i \in Nat /\ \/ i \in DOMAIN toPage /\ i < Len(toPage) + 1 /\ toPage'[i] = toPage[i]
                                                \/ i = Len(toPage) + 1 /\ toPage'[i] = m
  <2>1. CASE toPage' = toPage
    BY <1>1, <2>1 DEF BrowserTypeOK
  <2>2. CASE toPage' = Append(toPage, m)
    BY <1>1, <1>3, <2>2, OneMore
  <2> QED
    BY <1>2, <2>1, <2>2
<1>5. BrowserTypeOK'
  BY <1>1, <1>2, <1>4, NextIds DEF BrowserTypeOK, client, ui, recv
<1>6. PlacesStay(0, 0)
  BY <1>1, <1>2, <1>3, <1>4, Same DEF PlacesStay, recv
<1>7. UNCHANGED <<link, pcs, incoming, page>>
  BY <1>2 DEF client
<1>8. \A p : Contacted(p)' <=> Contacted(p)
  BY <1>7 DEF Contacted
<1>9. \A p \in Ids : p < nextId => p < nextId' /\ p # nextId
  BY <1>1, <1>2, NextIds DEF Ids
<1>10. nextId < nextId'
  BY <1>1, <1>2, NextIds
<1>11. ASSUME NEW i \in DOMAIN toPage', toPage'[i].type = "receivers", NEW p \in toPage'[i].ids, NEW q \in toPage'[i].ids
       PROVE  p < nextId' /\ p = q
  <2>1. CASE i \in DOMAIN toPage /\ toPage'[i] = toPage[i]
    <3>1. toPage[i] \in Msg
      BY <1>1, <2>1 DEF BrowserTypeOK
    <3>2. p \in Ids
      BY <1>11, <2>1, <3>1, Parts
    <3> QED
      BY <1>1, <1>9, <1>11, <2>1, <3>2 DEF NoneReturns
  <2>2. CASE toPage'[i] = m
    BY <1>3, <1>10, <1>11, <2>2
  <2> QED
    BY <1>4, <2>1, <2>2
<1>12. ASSUME NEW i \in DOMAIN toPage', toPage'[i].type = "left"
       PROVE  /\ toPage'[i].id < nextId' /\ receiver' # toPage'[i].id
              /\ \A j \in DOMAIN toPage' : i < j /\ toPage'[j].type = "receivers" => toPage'[i].id \notin toPage'[j].ids
  <2>1. i \in DOMAIN toPage /\ i < Len(toPage) + 1 /\ toPage'[i] = toPage[i]
    BY <1>3, <1>4, <1>12
  <2>2. toPage[i] \in Msg
    BY <1>1, <2>1 DEF BrowserTypeOK
  <2>3. toPage[i].id \in Ids /\ toPage[i].id < nextId
    BY <1>1, <1>12, <2>1, <2>2, Parts DEF NoneReturns
  <2>4. ASSUME NEW j \in DOMAIN toPage', i < j, toPage'[j].type = "receivers" PROVE toPage'[i].id \notin toPage'[j].ids
    <3>1. CASE j \in DOMAIN toPage /\ toPage'[j] = toPage[j]
      BY <1>1, <1>12, <2>1, <2>4, <3>1 DEF NoneReturns
    <3>2. CASE toPage'[j] = m
      BY <1>3, <1>9, <2>1, <2>3, <3>2
    <3> QED
      BY <1>4, <3>1, <3>2
  <2> QED
    BY <1>2, <1>9, <2>1, <2>3, <2>4
<1>13. ASSUME page' = "on", NEW p \in Ids, Contacted(p)', pcs'[p] = Nobody
       PROVE  /\ receiver' # p /\ incoming'[p] = {}
              /\ \A i \in DOMAIN toPage' : toPage'[i].type = "receivers" => p \notin toPage'[i].ids
  <2>1. p < nextId /\ p # nextId
    BY <1>1, <1>8, <1>9, <1>13 DEF NoneReturns
  <2> QED
    BY <1>1, <1>2, <1>3, <1>4, <1>7, <1>8, <1>13, <2>1 DEF NoneReturns
<1>14. NoneReturns'
  BY <1>1, <1>2, <1>8, <1>9, <1>10, <1>11, <1>12, <1>13 DEF NoneReturns
<1>15. me' = Nobody => toPage' = <<>>
  BY <1>1, <1>2 DEF Listed
<1> QED
  BY <1>1, <1>2, <1>5, <1>6, <1>14, <1>15, Quiet DEF Listed
LEMMA ReceiverLeavesKeeps == ASSUME PeersInv, ReceiverLeaves PROVE PeersInv'
<1>1. BrowserTypeOK /\ NoneReturns /\ Listed
  BY DEF PeersInv
<1> DEFINE m == [type |-> "left", id |-> receiver]
<1>2. /\ receiver # Nobody /\ receiver' = Nobody /\ toReceiver' = <<>>
      /\ toPage' = toPage \/ (me # Nobody /\ toPage' = Append(toPage, m))
      /\ UNCHANGED <<nextId, me, zombie, page, failures, client, ui>>
  BY DEF ReceiverLeaves
<1>3. m \in Msg /\ m.type = "left" /\ m.id = receiver /\ receiver \in Ids
  BY <1>1, <1>2, IsMsg DEF BrowserTypeOK
<1> HIDE DEF m
<1>4. /\ toPage' \in Seq(Msg)
      /\ \A i \in DOMAIN toPage' : i \in Nat /\ \/ i \in DOMAIN toPage /\ i < Len(toPage) + 1 /\ toPage'[i] = toPage[i]
                                                \/ i = Len(toPage) + 1 /\ toPage'[i] = m
  <2>1. CASE toPage' = toPage
    BY <1>1, <2>1 DEF BrowserTypeOK
  <2>2. CASE toPage' = Append(toPage, m)
    BY <1>1, <1>3, <2>2, OneMore
  <2> QED
    BY <1>2, <2>1, <2>2
<1>5. toReceiver' \in Seq(Msg) /\ DOMAIN toReceiver' = {}
  BY <1>2
<1>6. /\ rpcs' \in [Ids -> Offers \cup {Nobody}] /\ answering' \subseteq answering /\ alive' \subseteq alive
  BY <1>1 DEF ReceiverLeaves, recv, BrowserTypeOK
<1>7. BrowserTypeOK'
  BY <1>1, <1>2, <1>4, <1>5, <1>6 DEF BrowserTypeOK, client, ui
<1>8. PlacesStay(0, 0)
  BY <1>1, <1>3, <1>4, <1>5, <1>6, Same DEF PlacesStay
<1>9. UNCHANGED <<link, pcs, incoming, page, nextId>> /\ receiver < nextId
  BY <1>1, <1>2 DEF client, NoneReturns
<1>10. \A p : Contacted(p)' <=> Contacted(p)
  BY <1>9 DEF Contacted
<1>11. ASSUME NEW i \in DOMAIN toPage', toPage'[i].type = "receivers", NEW p \in toPage'[i].ids, NEW q \in toPage'[i].ids
       PROVE  p < nextId' /\ p = q
  <2>1. i \in DOMAIN toPage /\ toPage'[i] = toPage[i]
    BY <1>3, <1>4, <1>11
  <2> QED
    BY <1>1, <1>9, <1>11, <2>1 DEF NoneReturns
<1>12. ASSUME NEW i \in DOMAIN toPage', toPage'[i].type = "left"
       PROVE  /\ toPage'[i].id < nextId' /\ receiver' # toPage'[i].id
              /\ \A j \in DOMAIN toPage' : i < j /\ toPage'[j].type = "receivers" => toPage'[i].id \notin toPage'[j].ids
  <2>1. CASE i \in DOMAIN toPage /\ toPage'[i] = toPage[i]
    <3>1. toPage[i].id \in Ids
      BY <1>1, <1>12, <2>1, Parts DEF BrowserTypeOK
    <3>2. ASSUME NEW j \in DOMAIN toPage', i < j, toPage'[j].type = "receivers" PROVE toPage'[i].id \notin toPage'[j].ids
      <4>1. j \in DOMAIN toPage /\ toPage'[j] = toPage[j]
        BY <1>3, <1>4, <3>2
      <4> QED
        BY <1>1, <1>12, <2>1, <3>2, <4>1 DEF NoneReturns
    <3> QED
      BY <1>1, <1>2, <1>9, <1>12, <2>1, <3>1, <3>2 DEF NoneReturns, Ids, Nobody
  <2>2. CASE i = Len(toPage) + 1 /\ toPage'[i] = m
    <3>1. \A j \in DOMAIN toPage' : ~(i < j)
      BY <1>1, <1>4, <2>2 DEF BrowserTypeOK
    <3> QED
      BY <1>2, <1>3, <1>9, <2>2, <3>1
  <2> QED
    BY <1>4, <2>1, <2>2
<1>13. ASSUME page' = "on", NEW p \in Ids, Contacted(p)', pcs'[p] = Nobody
       PROVE  /\ receiver' # p /\ incoming'[p] = {}
              /\ \A i \in DOMAIN toPage' : toPage'[i].type = "receivers" => p \notin toPage'[i].ids
  <2>1. receiver' # p
    BY <1>2 DEF Ids, Nobody
  <2> QED
    BY <1>1, <1>3, <1>4, <1>9, <1>10, <1>13, <2>1 DEF NoneReturns
<1>14. receiver' < nextId'
  BY <1>1, <1>2, <1>9 DEF BrowserTypeOK, Nobody
<1>15. NoneReturns'
  BY <1>1, <1>9, <1>10, <1>11, <1>12, <1>13, <1>14 DEF NoneReturns
<1>16. me' = Nobody => toPage' = <<>>
  BY <1>1, <1>2 DEF Listed
<1> QED
  BY <1>1, <1>2, <1>7, <1>8, <1>15, <1>16, Quiet DEF Listed

LEMMA ReadWelcomeKeeps == ASSUME PeersInv, ReadWelcome PROVE PeersInv'
<1>1. BrowserTypeOK /\ NoneReturns /\ Listed
  BY DEF PeersInv
<1> DEFINE m == [type |-> "receivers", ids |-> {receiver} \ {Nobody}]
           T == Tail(toPage)
<1>2. /\ toPage # <<>> /\ failures' = 0 /\ toPage' = Append(T, m)
      /\ UNCHANGED <<hub, page, toReceiver, client, ui, recv>>
  BY DEF ReadWelcome
<1>3. m \in Msg /\ m.type = "receivers" /\ m.ids = {receiver} \ {Nobody}
  <2>1. {receiver} \ {Nobody} \in SUBSET Ids
    BY <1>1 DEF BrowserTypeOK
  <2> QED
    BY <2>1, IsMsg
<1> HIDE DEF m
<1>4. T \in Seq(Msg) /\ \A i \in DOMAIN T : i + 1 \in DOMAIN toPage /\ T[i] = toPage[i + 1]
  BY <1>1, <1>2, QueueTail DEF BrowserTypeOK
<1> HIDE DEF T
<1>5. /\ toPage' \in Seq(Msg)
      /\ \A i \in DOMAIN toPage' : i \in Nat /\ \/ i + 1 \in DOMAIN toPage /\ i < Len(T) + 1 /\ toPage'[i] = toPage[i + 1]
                                                \/ i = Len(T) + 1 /\ toPage'[i] = m
  BY <1>2, <1>3, <1>4, QueueAppend
<1>6. UNCHANGED <<link, pcs, incoming, page, nextId, receiver, me, zombie>>
  BY <1>2 DEF hub, client
<1>7. BrowserTypeOK'
  BY <1>1, <1>2, <1>5, <1>6 DEF BrowserTypeOK, client, ui, recv
<1>8. PlacesStay(1, 0)
  <2>1. \A i \in DOMAIN toPage' : toPage'[i].type \in {"answer", "ice"} => i + 1 \in DOMAIN toPage /\ toPage'[i] = toPage[i + 1]
    BY <1>3, <1>5
  <2> QED
    BY <1>1, <1>2, <2>1, Same DEF PlacesStay, recv
<1>9. \A p : Contacted(p)' <=> Contacted(p)
  BY <1>6 DEF Contacted
<1>10. ASSUME NEW i \in DOMAIN toPage', toPage'[i].type = "receivers", NEW p \in toPage'[i].ids, NEW q \in toPage'[i].ids
       PROVE  p < nextId' /\ p = q
  <2>1. CASE i + 1 \in DOMAIN toPage /\ toPage'[i] = toPage[i + 1]
    BY <1>1, <1>6, <1>10, <2>1 DEF NoneReturns
  <2>2. CASE toPage'[i] = m
    BY <1>1, <1>3, <1>6, <1>10, <2>2 DEF NoneReturns
  <2> QED
    BY <1>5, <2>1, <2>2
<1>11. ASSUME NEW i \in DOMAIN toPage', toPage'[i].type = "left"
       PROVE  /\ toPage'[i].id < nextId' /\ receiver' # toPage'[i].id
              /\ \A j \in DOMAIN toPage' : i < j /\ toPage'[j].type = "receivers" => toPage'[i].id \notin toPage'[j].ids
  <2>1. i \in Nat /\ i + 1 \in DOMAIN toPage /\ toPage'[i] = toPage[i + 1]
    BY <1>3, <1>5, <1>11
  <2>2. toPage[i + 1].id < nextId /\ receiver # toPage[i + 1].id
    BY <1>1, <1>11, <2>1 DEF NoneReturns
  <2>3. ASSUME NEW j \in DOMAIN toPage', i < j, toPage'[j].type = "receivers" PROVE toPage'[i].id \notin toPage'[j].ids
    <3>1. CASE j + 1 \in DOMAIN toPage /\ toPage'[j] = toPage[j + 1]
      <4>1. i + 1 < j + 1
        BY <1>5, <2>1, <2>3
      <4> QED
        BY <1>1, <1>11, <2>1, <2>3, <3>1, <4>1 DEF NoneReturns
    <3>2. CASE toPage'[j] = m
      BY <1>3, <2>1, <2>2, <3>2
    <3> QED
      BY <1>5, <3>1, <3>2
  <2> QED
    BY <1>6, <2>1, <2>2, <2>3
<1>12. ASSUME page' = "on", NEW p \in Ids, Contacted(p)', pcs'[p] = Nobody
       PROVE  /\ receiver' # p /\ incoming'[p] = {}
              /\ \A i \in DOMAIN toPage' : toPage'[i].type = "receivers" => p \notin toPage'[i].ids
  <2>1. receiver # p /\ incoming[p] = {} /\ \A i \in DOMAIN toPage : toPage[i].type = "receivers" => p \notin toPage[i].ids
    BY <1>1, <1>6, <1>9, <1>12 DEF NoneReturns
  <2> QED
    BY <1>3, <1>5, <1>6, <2>1
<1>13. NoneReturns'
  BY <1>1, <1>6, <1>9, <1>10, <1>11, <1>12 DEF NoneReturns
<1>14. me' # Nobody /\ page = "on"
  BY <1>1, <1>2, <1>6 DEF Listed, BrowserTypeOK
<1> QED
  BY <1>2, <1>7, <1>8, <1>13, <1>14, Quiet

LEMMA ReceiverReadsKeeps == ASSUME PeersInv, ReadCandidate \/ ReadPageLeft PROVE PeersInv'
<1>1. BrowserTypeOK /\ Listed
  BY DEF PeersInv
<1>2. /\ toReceiver # <<>> /\ toReceiver' = Tail(toReceiver)
      /\ UNCHANGED <<hub, page, failures, toPage, client, ui, answering>>
  BY DEF ReadCandidate, ReadPageLeft, recv
<1>3. /\ toReceiver' \in Seq(Msg) /\ \A i \in DOMAIN toReceiver' : i + 1 \in DOMAIN toReceiver /\ toReceiver'[i] = toReceiver[i + 1]
  BY <1>1, <1>2, OneAheadThere
<1>4. rpcs' \in [Ids -> Offers \cup {Nobody}] /\ alive' \subseteq Offers
  BY <1>1 DEF ReadCandidate, ReadPageLeft, recv, BrowserTypeOK
<1>5. UNCHANGED <<nextId, receiver, me, zombie>>
  BY <1>2 DEF hub
<1>6. BrowserTypeOK'
  BY <1>1, <1>2, <1>3, <1>4, <1>5 DEF BrowserTypeOK, client, ui
<1>7. PlacesStay(0, 1) /\ NewsStay(0)
  BY <1>1, <1>2, <1>3, <1>5, Same, NextIds DEF PlacesStay, NewsStay
<1> QED
  BY <1>1, <1>2, <1>5, <1>6, <1>7, Quiet DEF Listed
LEMMA TwoMore == ASSUME NEW S, NEW s \in Seq(S), NEW a \in S, NEW b \in S, NEW t, t = s \o <<a, b>>
  PROVE  /\ t \in Seq(S)
         /\ \A i \in DOMAIN t : i \in Nat /\ \/ i \in DOMAIN s /\ i < Len(s) + 1 /\ t[i] = s[i]
                                             \/ i = Len(s) + 1 /\ t[i] = a
                                             \/ i = Len(s) + 2 /\ t[i] = b
<1>1. <<a, b>> \in Seq(S) /\ Len(<<a, b>>) = 2 /\ <<a, b>>[1] = a /\ <<a, b>>[2] = b
  OBVIOUS
<1> DEFINE w == <<a, b>>
<1> HIDE DEF w
<1>2. w \in Seq(S) /\ Len(w) = 2 /\ w[1] = a /\ w[2] = b /\ t = s \o w
  BY <1>1 DEF w
<1>3. t \in Seq(S) /\ Len(t) = Len(s) + 2
  BY <1>2
<1>4. ASSUME NEW i \in DOMAIN t PROVE i \in Nat /\ t[i] = IF i <= Len(s) THEN s[i] ELSE w[i - Len(s)]
  BY <1>2, <1>3
<1>5. ASSUME NEW i \in DOMAIN t PROVE i \in 1..(Len(s) + 2)
  BY <1>3
<1>6. DOMAIN s = 1..Len(s) /\ Len(s) \in Nat
  OBVIOUS
<1> QED
  BY <1>2, <1>3, <1>4, <1>5, <1>6

LEMMA SendAnswerKeeps == ASSUME PeersInv, NEW g \in Offers, SendAnswer(g) PROVE PeersInv'
<1>1. BrowserTypeOK /\ NoneReturns /\ Listed /\ Places /\ Settled
  BY DEF PeersInv
<1>2. /\ g \in answering /\ answering' = answering \ {g}
      /\ UNCHANGED <<hub, page, failures, toReceiver, client, ui, rpcs, alive>>
  BY DEF SendAnswer
<1>3. UNCHANGED <<nextId, receiver, me, zombie, link, pcs, incoming>>
  BY <1>2 DEF hub, client
<1>4. CASE toPage' = toPage
  <2>1. BrowserTypeOK'
    BY <1>1, <1>2, <1>3, <1>4 DEF BrowserTypeOK, client, ui
  <2>2. PlacesStay(0, 0) /\ NewsStay(0)
    BY <1>1, <1>2, <1>3, <1>4, Same, NextIds DEF PlacesStay, NewsStay
  <2> QED
    BY <1>1, <1>2, <1>3, <1>4, <2>1, <2>2, Quiet DEF Listed
<1>5. CASE receiver # Nobody /\ me # Nobody /\ toPage' = toPage \o Answer(g, receiver)
  <2> DEFINE a == [type |-> "ice", from |-> receiver, offer |-> g]
             b == [type |-> "answer", from |-> receiver, offer |-> g]
  <2>1. a \in Msg /\ b \in Msg /\ a.type = "ice" /\ b.type = "answer" /\ a.offer = g /\ b.offer = g
    <3>1. receiver \in Ids
      BY <1>1, <1>5 DEF BrowserTypeOK
    <3> QED
      BY <3>1, IsMsg
  <2>2. toPage' = toPage \o <<a, b>>
    BY <1>5 DEF Answer
  <2> HIDE DEF a, b
  <2>3. toPage \in Seq(Msg)
    BY <1>1 DEF BrowserTypeOK
  <2>4. /\ toPage' \in Seq(Msg)
        /\ \A i \in DOMAIN toPage' : i \in Nat /\ \/ i \in DOMAIN toPage /\ i < Len(toPage) + 1 /\ toPage'[i] = toPage[i]
                                                  \/ i = Len(toPage) + 1 /\ toPage'[i] = a
                                                  \/ i = Len(toPage) + 2 /\ toPage'[i] = b
    BY <2>1, <2>2, <2>3, TwoMore
  <2>5. BrowserTypeOK'
    BY <1>1, <1>2, <1>3, <2>4 DEF BrowserTypeOK, client, ui
  <2>6. NewsStay(0)
    BY <1>1, <1>3, <2>1, <2>4, Same, NextIds DEF NewsStay
  <2>7. \A x : Offered(x)' <=> Offered(x)
    BY <1>2 DEF Offered
  <2>8. ASSUME NEW x, Told(x)' PROVE Told(x) \/ x = g
    <3>1. PICK i \in DOMAIN toPage' : toPage'[i].type \in {"answer", "ice"} /\ toPage'[i].offer = x
      BY <2>8 DEF Told
    <3> QED
      BY <2>1, <2>4, <3>1 DEF Told
  <2>9. \A x \in Offers : Finished(x) => Finished(x)'
    BY <1>2, <2>7, <2>8 DEF Finished
  <2>10. ~Told(g) /\ ~Offered(g)
    BY <1>1, <1>2 DEF Places
  <2>11. ASSUME NEW i \in DOMAIN toPage', NEW j \in DOMAIN toPage', i < j,
                toPage'[i].type = "answer", toPage'[j].type \in {"answer", "ice"}
         PROVE  toPage'[i].offer # toPage'[j].offer
    <3>1. i \in DOMAIN toPage /\ toPage'[i] = toPage[i]
      <4>1. CASE i = Len(toPage) + 1
        BY <2>1, <2>4, <2>11, <4>1, <2>3
      <4>2. CASE i = Len(toPage) + 2
        BY <2>3, <2>4, <2>11, <4>2
      <4> QED
        BY <2>4, <4>1, <4>2
    <3>2. toPage[i].offer # g
      BY <2>10, <2>11, <3>1 DEF Told
    <3>3. CASE j \in DOMAIN toPage /\ toPage'[j] = toPage[j]
      BY <1>1, <2>11, <3>1, <3>3 DEF Places
    <3> QED
      BY <2>1, <2>4, <3>1, <3>2, <3>3
  <2>12. Places'
    BY <1>1, <1>2, <2>7, <2>8, <2>10, <2>11 DEF Places
  <2>13. Settled'
    BY <1>1, <1>3, <2>9, SettledStays
  <2>14. UNCHANGED <<link, pcs, dcs, nextOffer, incoming, connects, peers, shown, page>>
    BY <1>2 DEF client, ui
  <2>15. OffersMade' /\ Present' /\ HandshakesApart' /\ LinksStay
    BY <2>14, ClientStays DEF PeersInv
  <2>16. NoneReturns'
    BY <1>1, <2>5, <2>6, <2>15, NewsKeeps
  <2>17. Listed'
    BY <1>1, <1>3, <1>5, <2>14, ListStays DEF Listed
  <2> QED
    BY <2>5, <2>12, <2>13, <2>15, <2>16, <2>17 DEF PeersInv
<1> QED
  BY <1>4, <1>5 DEF SendAnswer

-----------------------------------------------------------------------------
(* The steps that write one connection. *)

\* A step of connection g on its own: nothing is read or sent, and the list is made anew.
LEMMA LinkAlone ==
  ASSUME PeersInv, NEW g \in Offers, Touched(g), Takes(g), Keeps(g), link' \in [Offers -> Link],
         dcs' \in [Ids -> Offers \cup {Nobody}],
         link'[g].state = link[g].state, link'[g].answer = link[g].answer,
         UNCHANGED <<hub, page, failures, toPage, toReceiver, peers, sent, outgoing, incoming, target, recv>>, Emit
  PROVE  PeersInv'
<1>1. BrowserTypeOK /\ NoneReturns /\ Listed /\ Places /\ Settled /\ OffersMade
  BY DEF PeersInv
<1>2. UNCHANGED <<nextId, receiver, me, zombie, rpcs, answering, alive, pcs, nextOffer, connects>>
  BY DEF hub, recv, Touched
<1>3. shown' \in [Ids -> {"absent", "online", "connecting", "p2p", "failed"}] /\ dirty' \in BOOLEAN
  BY DEF Emit, Status
<1>4. BrowserTypeOK'
  BY <1>1, <1>2, <1>3 DEF BrowserTypeOK
<1>5. OffersMade' /\ Present' /\ HandshakesApart' /\ \A p : Contacted(p)' <=> Contacted(p)
  BY <1>1, <1>4, TouchedKeeps DEF PeersInv, OffersMade
<1>6. PlacesStay(0, 0) /\ NewsStay(0)
  BY <1>1, <1>2, Same, NextIds DEF PlacesStay, NewsStay
<1>7. Places' /\ \A x \in Offers : Finished(x) => Finished(x)'
  BY <1>1, <1>4, <1>6, PlacesKeep
<1>8. \A x \in Offers : link'[x].state = link[x].state /\ link'[x].answer = link[x].answer /\ link'[x].peer = link[x].peer
  BY DEF Touched
<1>9. Settled'
  <2>1. \A p \in Ids : pcs'[p] # Nobody => \A h \in incoming'[p] : h = pcs'[p] \/ link'[h].peer # p
    BY <1>1, <1>2, <1>8 DEF Settled, BrowserTypeOK
  <2> QED
    BY <1>1, <1>2, <1>7, <1>8, <2>1, SettledKeeps DEF Settled
<1>10. LinksStay
  BY <1>2, <1>5 DEF LinksStay
<1>11. NoneReturns'
  BY <1>1, <1>4, <1>6, <1>10, NewsKeeps
<1>12. Listed'
  BY <1>1, <1>2, ListMade DEF Listed
<1> QED
  BY <1>4, <1>5, <1>7, <1>9, <1>11, <1>12 DEF PeersInv
LEMMA TakesOwn ==
  ASSUME BrowserTypeOK, OffersMade, HandshakesApart, NEW g \in Offers,
         link'[g].cands = link[g].cands, link'[g].answer = link[g].answer
  PROVE  Takes(g)
BY DEF OffersMade, HandshakesApart, Takes

LEMMA IceKeeps == ASSUME PeersInv, NEW g \in Offers, IceConnects(g) \/ IceFails(g) \/ ChannelOpens(g) PROVE PeersInv'
<1>1. BrowserTypeOK /\ OffersMade /\ Present /\ HandshakesApart
  BY DEF PeersInv
<1>2. /\ UNCHANGED <<hub, page, failures, toPage, toReceiver, peers, sent, outgoing, incoming, target, recv>>
      /\ UNCHANGED <<pcs, dcs, nextOffer, connects>> /\ Emit
  BY DEF IceConnects, IceFails, ChannelOpens
<1>3. link[g].state = "stable"
  BY <1>1 DEF IceConnects, IceFails, ChannelOpens, Present
<1>4. \/ link' = [link EXCEPT ![g].ice = "connected"] /\ link[g].answer = g
      \/ link' = [link EXCEPT ![g].ice = "failed"]
      \/ link' = [link EXCEPT ![g].dc = "open"] /\ link[g].dc = "connecting"
  BY DEF IceConnects, IceFails, ChannelOpens
<1>5. link[g] \in Link
  BY <1>1 DEF BrowserTypeOK
<1>6. /\ link' \in [Offers -> Link] /\ \A x \in Offers : x # g => link'[x] = link[x]
      /\ link'[g].peer = link[g].peer /\ link'[g].state = link[g].state
      /\ link'[g].cands = link[g].cands /\ link'[g].answer = link[g].answer
      /\ link'[g].ice = "connected" => link'[g].answer = g
      /\ link'[g].dc \in {"connecting", "open"} => link[g].dc \in {"connecting", "open"}
  <2>1. CASE link' = [link EXCEPT ![g].ice = "connected"] /\ link[g].answer = g
    BY <1>1, <1>5, <2>1 DEF BrowserTypeOK, Link
  <2>2. CASE link' = [link EXCEPT ![g].ice = "failed"]
    BY <1>1, <1>5, <2>2 DEF BrowserTypeOK, Link
  <2>3. CASE link' = [link EXCEPT ![g].dc = "open"] /\ link[g].dc = "connecting"
    <3>1. link[g].ice = "connected" => link[g].answer = g
      BY <1>1 DEF Present
    <3> QED
      BY <1>1, <1>5, <2>3, <3>1 DEF BrowserTypeOK, Link
  <2> QED
    BY <1>4, <2>1, <2>2, <2>3
<1>7. Touched(g)
  BY <1>2, <1>3, <1>6 DEF Touched
<1>8. Takes(g)
  BY <1>1, <1>6, TakesOwn
<1>9. Keeps(g)
  <2>1. link[g].peer \in Ids /\ pcs[link[g].peer] = g
    BY <1>1, <1>3, Live
  <2> QED
    BY <1>1, <1>2, <1>3, <1>6, <2>1 DEF Keeps, Present
<1>10. dcs' \in [Ids -> Offers \cup {Nobody}]
  BY <1>1, <1>2 DEF BrowserTypeOK
<1> QED
  BY <1>2, <1>6, <1>7, <1>8, <1>9, <1>10, LinkAlone

LEMMA ChannelClosesKeeps == ASSUME PeersInv, NEW g \in Offers, ChannelCloses(g) PROVE PeersInv'
<1>1. BrowserTypeOK /\ OffersMade /\ Present /\ HandshakesApart
  BY DEF PeersInv
<1>2. /\ UNCHANGED <<hub, page, failures, toPage, toReceiver, peers, sent, outgoing, incoming, target, recv>>
      /\ UNCHANGED <<pcs, nextOffer, connects>> /\ Emit /\ link[g].state = "stable"
      /\ link' = [link EXCEPT ![g].dc = "closed"] /\ dcs' = [dcs EXCEPT ![link[g].peer] = Nobody]
  BY DEF ChannelCloses
<1>3. link[g].peer \in Ids /\ link[g] \in Link
  BY <1>1, <1>2, Live DEF BrowserTypeOK
<1>4. /\ link' \in [Offers -> Link] /\ \A x \in Offers : x # g => link'[x] = link[x]
      /\ link'[g].peer = link[g].peer /\ link'[g].state = link[g].state
      /\ link'[g].cands = link[g].cands /\ link'[g].answer = link[g].answer
      /\ link'[g].ice = link[g].ice /\ link'[g].dc = "closed"
  BY <1>1, <1>2, <1>3 DEF BrowserTypeOK, Link
<1>5. /\ dcs' \in [Ids -> Offers \cup {Nobody}] /\ dcs'[link[g].peer] = Nobody
      /\ \A p \in Ids : p # link[g].peer => dcs'[p] = dcs[p]
  BY <1>1, <1>2, <1>3 DEF BrowserTypeOK
<1>6. Touched(g)
  BY <1>2, <1>4 DEF Touched
<1>7. Takes(g)
  BY <1>1, <1>4, TakesOwn
<1>8. Keeps(g)
  BY <1>1, <1>2, <1>4, <1>5 DEF Keeps, Present
<1> QED
  BY <1>2, <1>4, <1>5, <1>6, <1>7, <1>8, LinkAlone

LEMMA CandidateKeeps == ASSUME PeersInv, NEW g \in Offers, Candidate(g) PROVE PeersInv'
<1>1. BrowserTypeOK /\ OffersMade /\ Present /\ HandshakesApart /\ Listed /\ Places /\ Settled /\ NoneReturns
  BY DEF PeersInv
<1> DEFINE p == link[g].peer
           m == [type |-> "ice", from |-> me, offer |-> g]
<1>2. /\ UNCHANGED <<hub, page, failures, toPage, peers, pcs, dcs, sent, incoming, nextOffer, ui, recv>>
      /\ link[g].state \in {"offering", "offered"} /\ link' = [link EXCEPT ![g].told = TRUE]
      /\ \/ outgoing' = outgoing /\ toReceiver' = toReceiver
         \/ outgoing' = outgoing /\ me # Nobody /\ toReceiver' = Append(toReceiver, m)
         \/ outgoing' = [outgoing EXCEPT ![p] = @ \cup {g}] /\ toReceiver' = toReceiver
  BY DEF Candidate, Relay
<1>3. UNCHANGED <<nextId, receiver, me, zombie, shown, target, dirty, connects, rpcs, answering, alive>>
  BY <1>2 DEF hub, ui, recv
<1>4. p \in Ids /\ link[g] \in Link
  BY <1>1, <1>2, Live DEF BrowserTypeOK
<1>5. /\ link' \in [Offers -> Link] /\ \A x \in Offers : x # g => link'[x] = link[x]
      /\ \A x \in Offers : /\ link'[x].peer = link[x].peer /\ link'[x].state = link[x].state
                           /\ link'[x].cands = link[x].cands /\ link'[x].answer = link[x].answer
                           /\ link'[x].ice = link[x].ice /\ link'[x].dc = link[x].dc
  BY <1>1, <1>2, <1>4 DEF BrowserTypeOK, Link
<1>6. /\ outgoing' \in [Ids -> SUBSET Offers] /\ toReceiver' \in Seq(Msg)
      /\ \A i \in DOMAIN toReceiver' : toReceiver'[i].type = "offer" => i + 0 \in DOMAIN toReceiver /\ toReceiver'[i] = toReceiver[i + 0]
  <2>1. outgoing' \in [Ids -> SUBSET Offers]
    BY <1>1, <1>2, <1>4 DEF BrowserTypeOK
  <2>2. CASE toReceiver' = toReceiver
    BY <1>1, <2>1, <2>2, Same DEF BrowserTypeOK
  <2>3. CASE me # Nobody /\ toReceiver' = Append(toReceiver, m)
    <3>1. me \in Ids
      BY <1>1, <2>3 DEF BrowserTypeOK
    <3>2. m \in Msg /\ m.type = "ice"
      BY <3>1, IsMsg
    <3> HIDE DEF m
    <3> QED
      BY <1>1, <2>1, <2>3, <3>2, OneMoreThere, Same
  <2> QED
    BY <1>2, <2>2, <2>3
<1>7. BrowserTypeOK'
  BY <1>1, <1>2, <1>3, <1>5, <1>6 DEF BrowserTypeOK
<1>8. Touched(g)
  BY <1>2, <1>3, <1>5 DEF Touched
<1>9. Takes(g)
  BY <1>1, <1>5, TakesOwn
<1>10. Keeps(g)
  <2>1. pcs[p] = g
    BY <1>1, <1>2, Live
  <2> QED
    BY <1>1, <1>2, <1>4, <1>5, <2>1 DEF Keeps, Present
<1>11. \A q \in Ids : \A h \in incoming'[q] : h < nextOffer
  BY <1>1, <1>2 DEF OffersMade
<1>12. OffersMade' /\ Present' /\ HandshakesApart' /\ \A q : Contacted(q)' <=> Contacted(q)
  BY <1>1, <1>7, <1>8, <1>9, <1>10, <1>11, TouchedKeeps
<1>13. PlacesStay(0, 0) /\ NewsStay(0)
  BY <1>1, <1>2, <1>3, <1>6, Same, NextIds DEF PlacesStay, NewsStay
<1>14. Places' /\ \A x \in Offers : Finished(x) => Finished(x)'
  BY <1>1, <1>7, <1>13, PlacesKeep
<1>15. Settled'
  <2>1. \A q \in Ids : pcs'[q] # Nobody => \A h \in incoming'[q] : h = pcs'[q] \/ link'[h].peer # q
    BY <1>1, <1>2, <1>5 DEF Settled, BrowserTypeOK
  <2> QED
    BY <1>1, <1>2, <1>14, <1>5, <2>1, SettledKeeps DEF Settled
<1>16. LinksStay
  BY <1>2, <1>12 DEF LinksStay
<1>17. NoneReturns'
  BY <1>1, <1>7, <1>13, <1>16, NewsKeeps
<1>18. Listed'
  BY <1>1, <1>2, <1>3, <1>5, ListStays DEF Listed
<1> QED
  BY <1>7, <1>12, <1>14, <1>15, <1>17, <1>18 DEF PeersInv
\* What is under way belongs to the connection its sender has, or to another sender's.
LEMMA UnderWay ==
  ASSUME BrowserTypeOK, OffersMade, Settled, NEW h \in Offers, ~Finished(h)
  PROVE  /\ h < nextOffer
         /\ \A p \in Ids : pcs[p] # Nobody => h = pcs[p] \/ link[h].peer # p
<1>1. h < nextOffer
  <2>1. CASE h >= nextOffer
    BY <2>1 DEF OffersMade, NoLink, Settled
  <2> QED
    BY <2>1 DEF BrowserTypeOK, Offers
<1>2. \A p \in Ids : pcs[p] # Nobody => h = pcs[p] \/ link[h].peer # p
  BY DEF Settled, Ids, Nobody
<1> QED
  BY <1>1, <1>2

LEMMA SendOfferKeeps == ASSUME PeersInv, NEW g \in Offers, SendOffer(g) PROVE PeersInv'
<1>1. BrowserTypeOK /\ OffersMade /\ Present /\ HandshakesApart /\ Listed /\ Places /\ Settled /\ NoneReturns
  BY DEF PeersInv
<1> DEFINE p == link[g].peer
           o == [type |-> "offer", from |-> me, offer |-> g]
           m == [type |-> "ice", from |-> me, offer |-> g]
<1>2. /\ UNCHANGED <<hub, page, failures, toPage, peers, pcs, dcs, incoming, nextOffer, ui, recv>>
      /\ link[g].state = "offering" /\ link' = [link EXCEPT ![g].state = "offered", ![g].conn = me]
      /\ sent' = sent \cup {p} /\ outgoing' = [outgoing EXCEPT ![p] = {}]
  BY DEF SendOffer
<1>3. UNCHANGED <<nextId, receiver, me, zombie, shown, target, dirty, connects, rpcs, answering, alive>>
  BY <1>2 DEF hub, ui, recv
<1>4. p \in Ids /\ link[g] \in Link /\ pcs[p] = g
  BY <1>1, <1>2, Live DEF BrowserTypeOK
<1>5. /\ link' \in [Offers -> Link] /\ \A x \in Offers : x # g => link'[x] = link[x]
      /\ \A x \in Offers : /\ link'[x].peer = link[x].peer
                           /\ link'[x].cands = link[x].cands /\ link'[x].answer = link[x].answer
                           /\ link'[x].ice = link[x].ice /\ link'[x].dc = link[x].dc
      /\ link'[g].state = "offered"
  <2>1. me \in Ids \cup {Nobody}
    BY <1>1 DEF BrowserTypeOK
  <2> QED
    BY <1>1, <1>2, <1>4, <2>1 DEF BrowserTypeOK, Link
<1>6. /\ toReceiver' \in Seq(Msg)
      /\ \A i \in DOMAIN toReceiver' : i \in Nat /\ \/ i \in DOMAIN toReceiver /\ toReceiver'[i] = toReceiver[i]
                                                    \/ i = Len(toReceiver) + 1 /\ toReceiver'[i].type = "offer" /\ toReceiver'[i].offer = g
                                                    \/ toReceiver'[i].type = "ice"
  <2>1. toReceiver \in Seq(Msg)
    BY <1>1 DEF BrowserTypeOK
  <2>2. CASE toReceiver' = toReceiver
    BY <2>1, <2>2
  <2>3. CASE me # Nobody /\ (toReceiver' = toReceiver \o <<o>> \o <<m>> \/ toReceiver' = toReceiver \o <<o>> \o <<>>)
    <3>1. me \in Ids
      BY <1>1, <2>3 DEF BrowserTypeOK
    <3>2. m \in Msg /\ m.type = "ice" /\ o \in Msg /\ o.type = "offer" /\ o.offer = g
      BY <3>1, IsMsg
    <3> HIDE DEF m, o
    <3>3. toReceiver' = toReceiver \o <<o, m>> \/ toReceiver' = Append(toReceiver, o)
      <4>1. toReceiver \o <<o>> \o <<m>> = toReceiver \o <<o, m>>
        <5>1. toReceiver \o <<o>> = Append(toReceiver, o) /\ Append(toReceiver, o) \in Seq(Msg)
          BY <2>1, <3>2
        <5>2. Append(toReceiver, o) \o <<m>> = Append(Append(toReceiver, o), m)
          BY <3>2, <5>1
        <5>3. toReceiver \o <<o, m>> = Append(Append(toReceiver, o), m)
          BY <2>1, <3>2
        <5> QED
          BY <5>1, <5>2, <5>3
      <4>2. toReceiver \o <<o>> \o <<>> = Append(toReceiver, o)
        <5>1. toReceiver \o <<o>> = Append(toReceiver, o) /\ Append(toReceiver, o) \in Seq(Msg)
          BY <2>1, <3>2
        <5>2. \A t \in Seq(Msg) : t \o <<>> = t
          OBVIOUS
        <5> QED
          BY <5>1, <5>2
      <4> QED
        BY <2>3, <4>1, <4>2
    <3>4. CASE toReceiver' = toReceiver \o <<o, m>>
      BY <2>1, <3>2, <3>4, TwoMore
    <3>5. CASE toReceiver' = Append(toReceiver, o)
      BY <1>1, <3>2, <3>5, OneMoreThere
    <3> QED
      BY <3>3, <3>4, <3>5
  <2> QED
    BY <2>2, <2>3 DEF SendOffer
<1>7. sent' \subseteq Ids /\ outgoing' \in [Ids -> SUBSET Offers]
  BY <1>1, <1>2, <1>4 DEF BrowserTypeOK
<1>8. BrowserTypeOK'
  BY <1>1, <1>2, <1>3, <1>5, <1>6, <1>7 DEF BrowserTypeOK
<1>9. Touched(g)
  BY <1>2, <1>3, <1>5 DEF Touched
<1>10. Takes(g)
  BY <1>1, <1>5, TakesOwn
<1>11. Keeps(g)
  <2>1. link[g].ice = "new" /\ link[g].answer = Nobody
    BY <1>1, <1>2 DEF Present
  <2> QED
    BY <1>1, <1>2, <1>4, <1>5, <2>1 DEF Keeps, Present
<1>12. \A q \in Ids : \A h \in incoming'[q] : h < nextOffer
  BY <1>1, <1>2 DEF OffersMade
<1>13. OffersMade' /\ Present' /\ HandshakesApart' /\ \A q : Contacted(q)' <=> Contacted(q)
  BY <1>1, <1>8, <1>9, <1>10, <1>11, <1>12, TouchedKeeps
<1>14. Finished(g)
  BY <1>1, <1>2 DEF Settled
<1>15. ASSUME NEW x, Offered(x)' PROVE Offered(x) \/ x = g
  BY <1>6, <1>15 DEF Offered
<1>16. \A x : Told(x)' <=> Told(x)
  BY <1>2 DEF Told
<1>17. \A x \in Offers : x # g /\ Finished(x) => Finished(x)'
  BY <1>3, <1>15, <1>16 DEF Finished
<1>18. Places'
  <2>1. ASSUME NEW i \in DOMAIN toReceiver', NEW j \in DOMAIN toReceiver',
               toReceiver'[i].type = "offer", toReceiver'[j].type = "offer", toReceiver'[i].offer = toReceiver'[j].offer
        PROVE  i = j
    <3>1. \A k \in DOMAIN toReceiver : toReceiver[k].type = "offer" => toReceiver[k].offer # g
      BY <1>14 DEF Finished, Offered
    <3>2. CASE i \in DOMAIN toReceiver /\ toReceiver'[i] = toReceiver[i] /\ j \in DOMAIN toReceiver /\ toReceiver'[j] = toReceiver[j]
      BY <1>1, <2>1, <3>2 DEF Places
    <3> QED
      BY <1>6, <2>1, <3>1, <3>2
  <2>2. \A x \in Offers : Offered(x)' => x \notin answering' /\ ~Told(x)'
    BY <1>1, <1>3, <1>14, <1>15, <1>16 DEF Places, Finished
  <2>3. \A x \in answering' : ~Told(x)'
    BY <1>1, <1>3, <1>16 DEF Places
  <2> QED
    BY <1>1, <1>2, <2>1, <2>2, <2>3 DEF Places
<1>19. Settled'
  <2>1. \A q \in Ids : pcs'[q] # Nobody => \A h \in incoming'[q] : h = pcs'[q] \/ link'[h].peer # q
    BY <1>1, <1>2, <1>5 DEF Settled, BrowserTypeOK
  <2>2. ASSUME NEW h \in Offers
        PROVE  /\ link'[h].state \in {"none", "offering"} => Finished(h)'
               /\ link'[h].answer = h => Finished(h)'
               /\ link'[h].peer # Nobody /\ pcs'[link'[h].peer] \notin {Nobody, h} => Finished(h)'
    <3>1. CASE h = g
      <4>1. link'[g].answer # g
        BY <1>1, <1>2, <1>5 DEF Present, Offers, Nobody
      <4> QED
        BY <1>2, <1>4, <1>5, <3>1, <4>1
    <3>2. CASE h # g
      BY <1>1, <1>2, <1>5, <1>17, <3>2 DEF Settled
    <3> QED
      BY <3>1, <3>2
  <2> QED
    BY <1>1, <2>1, <2>2, SettledKeeps
<1>20. LinksStay
  BY <1>2, <1>13 DEF LinksStay
<1>21. NoneReturns'
  <2>1. NewsStay(0)
    BY <1>1, <1>2, <1>3, Same, NextIds DEF NewsStay
  <2> QED
    BY <1>1, <1>8, <1>20, <2>1, NewsKeeps
<1>22. Listed'
  BY <1>1, <1>2, <1>3, <1>5, ListStays DEF Listed
<1> QED
  BY <1>8, <1>13, <1>18, <1>19, <1>21, <1>22 DEF PeersInv
\* A message of a handshake is read, and at most connection g is written.
LEMMA ReadsKeep ==
  ASSUME PeersInv, ReadAnswer \/ ReadIce
  PROVE  /\ BrowserTypeOK /\ OffersMade /\ Present /\ HandshakesApart /\ Listed /\ Places /\ Settled /\ NoneReturns
         /\ UNCHANGED <<hub, page, failures, toReceiver, peers, pcs, dcs, sent, outgoing, nextOffer, ui, recv>>
         /\ UNCHANGED <<nextId, receiver, me, zombie, shown, target, dirty, connects, rpcs, answering, alive>>
         /\ toPage' \in Seq(Msg) /\ 1 \in DOMAIN toPage /\ Head(toPage) = toPage[1]
         /\ toPage[1].type \in {"answer", "ice"} /\ toPage[1].from \in Ids /\ toPage[1].offer \in Offers
         /\ ~Finished(toPage[1].offer)
         /\ \A i \in DOMAIN toPage' : i + 1 \in DOMAIN toPage /\ toPage'[i] = toPage[i + 1]
         /\ PlacesStay(1, 0) /\ NewsStay(1)
<1>1. BrowserTypeOK /\ OffersMade /\ Present /\ HandshakesApart /\ Listed /\ Places /\ Settled /\ NoneReturns
  BY DEF PeersInv
<1>2. /\ UNCHANGED <<hub, page, failures, toReceiver, peers, pcs, dcs, sent, outgoing, nextOffer, ui, recv>>
      /\ toPage # <<>> /\ toPage' = Tail(toPage) /\ Head(toPage).type \in {"answer", "ice"}
  BY DEF ReadAnswer, ReadIce
<1>3. UNCHANGED <<nextId, receiver, me, zombie, shown, target, dirty, connects, rpcs, answering, alive>>
  BY <1>2 DEF hub, ui, recv
<1>4. /\ toPage' \in Seq(Msg) /\ 1 \in DOMAIN toPage /\ Head(toPage) = toPage[1] /\ toPage[1] \in Msg
      /\ \A i \in DOMAIN toPage' : i + 1 \in DOMAIN toPage /\ toPage'[i] = toPage[i + 1]
  BY <1>1, <1>2, OneAhead
<1>5. toPage[1].type \in {"answer", "ice"} /\ toPage[1].from \in Ids /\ toPage[1].offer \in Offers
  BY <1>2, <1>4, Parts
<1>6. ~Finished(toPage[1].offer)
  BY <1>4, <1>5 DEF Finished, Told
<1>7. PlacesStay(1, 0) /\ NewsStay(1)
  BY <1>1, <1>2, <1>3, <1>4, Same, NextIds DEF PlacesStay, NewsStay
<1> QED
  BY <1>1, <1>2, <1>3, <1>4, <1>5, <1>6, <1>7

\* What is left to show of it.
LEMMA ReadsThen ==
  ASSUME PeersInv, ReadAnswer \/ ReadIce, BrowserTypeOK',
         OffersMade' /\ Present' /\ HandshakesApart', \A q : Contacted(q)' <=> Contacted(q),
         \A h \in Offers : link'[h].peer = link[h].peer /\ link'[h].ice = link[h].ice /\ link'[h].dc = link[h].dc,
         \A h \in Offers : link'[h].state \in {"none", "offering"} => link[h].state \in {"none", "offering"},
         \A h \in Offers : link'[h].answer = h => link[h].answer = h \/ Finished(h)',
         \A q \in Ids : \A h \in incoming'[q] : h \in incoming[q] \/ (q = toPage[1].from /\ h = toPage[1].offer /\ pcs[q] # Nobody)
  PROVE  PeersInv'
<1>1. BrowserTypeOK /\ OffersMade /\ Listed /\ Places /\ Settled /\ NoneReturns
  BY ReadsKeep
<1>2. UNCHANGED <<hub, page, failures, toReceiver, peers, pcs, dcs, sent, outgoing, nextOffer, ui, recv>>
  BY ReadsKeep
<1>3. UNCHANGED <<nextId, receiver, me, zombie, shown, target, dirty, connects, rpcs, answering, alive>>
  BY ReadsKeep
<1>4. PlacesStay(1, 0) /\ NewsStay(1) /\ toPage[1].offer \in Offers /\ ~Finished(toPage[1].offer) /\ toPage # <<>>
  BY ReadsKeep
<1>5. Places' /\ \A x \in Offers : Finished(x) => Finished(x)'
  BY <1>1, <1>4, PlacesKeep
<1>6. Settled'
  <2>1. ASSUME NEW q \in Ids, pcs'[q] # Nobody, NEW h \in incoming'[q] PROVE h = pcs'[q] \/ link'[h].peer # q
    <3>1. h \in Offers
      BY <2>1 DEF BrowserTypeOK
    <3>2. pcs[q] # Nobody
      BY <1>2, <2>1
    <3>3. CASE h \in incoming[q]
      BY <1>1, <1>2, <3>1, <3>2, <3>3 DEF Settled
    <3>4. CASE h = toPage[1].offer
      BY <1>1, <1>2, <1>4, <3>1, <3>2, <3>4, UnderWay
    <3> QED
      BY <2>1, <3>3, <3>4
  <2>2. ASSUME NEW h \in Offers
        PROVE  /\ link'[h].state \in {"none", "offering"} => Finished(h)'
               /\ link'[h].answer = h => Finished(h)'
               /\ link'[h].peer # Nobody /\ pcs'[link'[h].peer] \notin {Nobody, h} => Finished(h)'
    BY <1>1, <1>2, <1>5 DEF Settled
  <2> QED
    BY <1>1, <2>1, <2>2, SettledKeeps
<1>7. LinksStay
  <2>1. ASSUME NEW p \in Ids, pcs[p] = Nobody PROVE incoming'[p] \subseteq incoming[p]
    BY <2>1
  <2> QED
    BY <1>2, <2>1 DEF LinksStay
<1>8. NoneReturns'
  BY <1>1, <1>4, <1>7, NewsKeeps
<1>9. Listed'
  <2>1. me' # Nobody
    BY <1>1, <1>3, <1>4 DEF Listed
  <2>2. page' = page
    BY <1>2
  <2>3. page' = "off" => me' = Nobody
    BY <1>1, <1>3, <2>2 DEF Listed
  <2> QED
    BY <1>1, <1>2, <1>3, <2>1, <2>2, <2>3, ListStays
<1> QED
  BY <1>5, <1>6, <1>8, <1>9 DEF PeersInv

\* Nothing but the queue of the page changes: no connection takes the message.
LEMMA ReadInVain == ASSUME PeersInv, ReadAnswer \/ ReadIce, UNCHANGED <<link, incoming>> PROVE PeersInv'
<1>1. BrowserTypeOK /\ OffersMade /\ Present /\ HandshakesApart
  BY ReadsKeep
<1>2. UNCHANGED <<hub, page, failures, toReceiver, peers, pcs, dcs, sent, outgoing, nextOffer, ui, recv>>
  BY ReadsKeep
<1>3. UNCHANGED <<nextId, receiver, me, zombie, shown, target, dirty, connects, rpcs, answering, alive>> /\ toPage' \in Seq(Msg)
  BY ReadsKeep
<1>4. BrowserTypeOK'
  BY <1>1, <1>2, <1>3 DEF BrowserTypeOK
<1>5. OffersMade' /\ Present' /\ HandshakesApart' /\ \A q : Contacted(q)' <=> Contacted(q)
  BY <1>1, <1>2, <1>3, ClientStays
<1> QED
  BY <1>4, <1>5, ReadsThen

LEMMA ReadAnswerKeeps == ASSUME PeersInv, ReadAnswer PROVE PeersInv'
<1>0. PICK q \in Ids, h \in Offers : q = toPage[1].from /\ h = toPage[1].offer /\ ~Finished(h)
  BY ReadsKeep
<1>1. BrowserTypeOK /\ OffersMade /\ Present /\ HandshakesApart /\ Places /\ Settled
  BY ReadsKeep
<1>2. UNCHANGED <<hub, page, failures, toReceiver, peers, pcs, dcs, sent, outgoing, nextOffer, ui, recv>>
  BY ReadsKeep
<1>3. UNCHANGED <<nextId, receiver, me, zombie, shown, target, dirty, connects, rpcs, answering, alive>>
  BY ReadsKeep
<1>4. /\ toPage' \in Seq(Msg) /\ 1 \in DOMAIN toPage /\ h = toPage[1].offer /\ ~Finished(h)
      /\ \A i \in DOMAIN toPage' : i + 1 \in DOMAIN toPage /\ toPage'[i] = toPage[i + 1]
  BY <1>0, ReadsKeep
<1>5. toPage[1].type = "answer"
  BY ReadsKeep DEF ReadAnswer
<1>6. CASE UNCHANGED <<link, incoming>>
  BY <1>6, ReadInVain
<1>7. ASSUME NEW g \in Offers, g = pcs[q], link[g].state = "offered",
             link' = [link EXCEPT ![g].state = "stable", ![g].answer = h, ![g].cands = incoming[q]],
             incoming' = [incoming EXCEPT ![q] = {}]
      PROVE  PeersInv'
  <2>1. link[g] \in Link /\ incoming[q] \subseteq Offers /\ link[g].peer = q /\ g # Nobody
    <3>1. g # Nobody
      BY DEF Offers, Nobody
    <3> QED
      BY <1>1, <1>7, <3>1 DEF BrowserTypeOK, Present
  <2>2. /\ link' \in [Offers -> Link] /\ \A x \in Offers : x # g => link'[x] = link[x]
        /\ \A x \in Offers : link'[x].peer = link[x].peer /\ link'[x].ice = link[x].ice /\ link'[x].dc = link[x].dc
        /\ link'[g].state = "stable" /\ link'[g].answer = h /\ link'[g].cands = incoming[q]
    BY <1>1, <1>4, <1>7, <2>1 DEF BrowserTypeOK, Link
  <2>3. incoming' \in [Ids -> SUBSET Offers] /\ \A p \in Ids : incoming'[p] \subseteq incoming[p]
    BY <1>1, <1>4, <1>7 DEF BrowserTypeOK
  <2>4. BrowserTypeOK'
    BY <1>1, <1>2, <1>3, <1>4, <2>2, <2>3 DEF BrowserTypeOK
  <2>5. Touched(g)
    BY <1>2, <1>3, <1>7, <2>2 DEF Touched
  <2>6. Takes(g)
    <3>1. ASSUME NEW x \in incoming[q] PROVE x < nextOffer /\ (x = g \/ link[x].peer # link[g].peer)
      BY <1>1, <1>4, <1>7, <2>1, <3>1 DEF OffersMade, Settled
    <3>2. h < nextOffer /\ (h = g \/ link[h].peer # link[g].peer)
      BY <1>1, <1>4, <1>7, <2>1, UnderWay
    <3> QED
      BY <2>2, <3>1, <3>2 DEF Takes
  <2>7. Keeps(g)
    <3>1. link[g].ice = "new"
      BY <1>1, <1>7, <2>1 DEF Present
    <3> QED
      BY <1>1, <1>2, <1>7, <2>1, <2>2, <3>1 DEF Keeps, Present
  <2>8. \A p \in Ids : \A x \in incoming'[p] : x < nextOffer
    BY <1>1, <2>3 DEF OffersMade
  <2>9. OffersMade' /\ Present' /\ HandshakesApart' /\ \A p : Contacted(p)' <=> Contacted(p)
    BY <1>1, <2>1, <2>4, <2>5, <2>6, <2>7, <2>8, TouchedKeeps
  <2>10. Finished(h)'
    <3>1. Told(h)
      BY <1>0, <1>4, <1>5 DEF Told
    <3>2. ~Offered(h) /\ h \notin answering
      BY <1>1, <3>1 DEF Places
    <3>3. ~Offered(h)' /\ h \notin answering'
      BY <1>2, <1>3, <3>2 DEF Offered
    <3>4. ASSUME NEW i \in DOMAIN toPage', toPage'[i].type \in {"answer", "ice"} PROVE toPage'[i].offer # h
      <4>1. i + 1 \in DOMAIN toPage /\ toPage'[i] = toPage[i + 1] /\ 1 < i + 1
        BY <1>4
      <4> QED
        BY <1>0, <1>1, <1>4, <1>5, <3>4, <4>1 DEF Places
    <3> QED
      BY <3>3, <3>4 DEF Finished, Told
  <2>11. \A x \in Offers : link'[x].answer = x => link[x].answer = x \/ Finished(x)'
    <3> SUFFICES ASSUME NEW x \in Offers, link'[x].answer = x PROVE link[x].answer = x \/ Finished(x)'
      OBVIOUS
    <3>1. CASE x = g
      BY <2>2, <2>10, <3>1
    <3>2. CASE x # g
      BY <2>2, <3>2
    <3> QED
      BY <3>1, <3>2
  <2>12. \A x \in Offers : link'[x].state \in {"none", "offering"} => link[x].state \in {"none", "offering"}
    BY <2>2
  <2> QED
    BY <2>2, <2>3, <2>4, <2>9, <2>11, <2>12, ReadsThen
<1>8. pcs[q] # Nobody => pcs[q] \in Offers
  BY <1>1 DEF BrowserTypeOK
<1>9. Head(toPage) = toPage[1]
  BY ReadsKeep
<1> QED
  BY <1>0, <1>6, <1>7, <1>8, <1>9 DEF ReadAnswer, AwaitsAnswer

LEMMA ReadIceKeeps == ASSUME PeersInv, ReadIce PROVE PeersInv'
<1>0. PICK q \in Ids, h \in Offers : q = toPage[1].from /\ h = toPage[1].offer /\ ~Finished(h)
  BY ReadsKeep
<1>1. BrowserTypeOK /\ OffersMade /\ Present /\ HandshakesApart /\ Places /\ Settled
  BY ReadsKeep
<1>2. UNCHANGED <<hub, page, failures, toReceiver, peers, pcs, dcs, sent, outgoing, nextOffer, ui, recv>>
  BY ReadsKeep
<1>3. UNCHANGED <<nextId, receiver, me, zombie, shown, target, dirty, connects, rpcs, answering, alive>>
  BY ReadsKeep
<1>4. toPage' \in Seq(Msg) /\ 1 \in DOMAIN toPage /\ ~Finished(h)
  BY <1>0, ReadsKeep
<1>5. h < nextOffer /\ (pcs[q] # Nobody => h = pcs[q] \/ link[h].peer # q)
  BY <1>1, <1>4, UnderWay
<1>6. CASE UNCHANGED <<link, incoming>>
  BY <1>6, ReadInVain
<1>7. CASE pcs[q] # Nobody /\ incoming' = [incoming EXCEPT ![q] = @ \cup {h}] /\ link' = link
  <2>1. incoming' \in [Ids -> SUBSET Offers]
    BY <1>1, <1>4, <1>7 DEF BrowserTypeOK
  <2>2. \A p \in Ids : \A x \in incoming'[p] : x \in incoming[p] \/ (p = toPage[1].from /\ x = toPage[1].offer /\ pcs[p] # Nobody)
    BY <1>0, <1>1, <1>7 DEF BrowserTypeOK
  <2>3. BrowserTypeOK'
    BY <1>1, <1>2, <1>3, <1>4, <1>7, <2>1 DEF BrowserTypeOK
  <2>4. \A p : Contacted(p)' <=> Contacted(p)
    BY <1>7, SameContacts
  <2>5. {p \in Ids : Contacted(p)}' = {p \in Ids : Contacted(p)}
    BY <1>7, SameContacts
  <2>6. OffersMade'
    <3>1. \A p \in Ids : \A x \in incoming'[p] : x < nextOffer
      BY <1>0, <1>1, <1>5, <2>2 DEF OffersMade
    <3>2. nextOffer' = nextOffer /\ connects' = connects /\ link' = link
      BY <1>2, <1>3, <1>7
    <3> QED
      BY <1>1, <2>5, <3>1, <3>2 DEF OffersMade
  <2>7. Present' /\ HandshakesApart'
    BY <1>1, <1>2, <1>7 DEF Present, HandshakesApart
  <2> QED
    BY <1>7, <2>2, <2>3, <2>4, <2>6, <2>7, ReadsThen
<1>8. ASSUME NEW g \in Offers, g = pcs[q], link' = [link EXCEPT ![g].cands = @ \cup {h}], incoming' = incoming
      PROVE  PeersInv'
  <2>1. link[g] \in Link /\ link[g].peer = q /\ link[g].state \in {"offering", "offered", "stable"}
    <3>1. g # Nobody
      BY DEF Offers, Nobody
    <3> QED
      BY <1>1, <1>8, <3>1 DEF BrowserTypeOK, Present
  <2>2. /\ link' \in [Offers -> Link] /\ \A x \in Offers : x # g => link'[x] = link[x]
        /\ \A x \in Offers : /\ link'[x].peer = link[x].peer /\ link'[x].ice = link[x].ice /\ link'[x].dc = link[x].dc
                             /\ link'[x].state = link[x].state /\ link'[x].answer = link[x].answer
        /\ link'[g].cands = link[g].cands \cup {h}
    BY <1>1, <1>4, <1>8, <2>1 DEF BrowserTypeOK, Link
  <2>3. BrowserTypeOK'
    BY <1>1, <1>2, <1>3, <1>4, <1>8, <2>2 DEF BrowserTypeOK
  <2>4. Touched(g)
    BY <1>2, <1>3, <2>1, <2>2 DEF Touched
  <2>5. Takes(g)
    <3>1. \A x \in link[g].cands \cup {link[g].answer} : x < nextOffer /\ (x \in {Nobody, g} \/ link[x].peer # link[g].peer)
      BY <1>1 DEF OffersMade, HandshakesApart
    <3>2. g # Nobody
      BY DEF Offers, Nobody
    <3>3. h < nextOffer /\ (h = g \/ link[h].peer # link[g].peer)
      BY <1>5, <1>8, <2>1, <3>2
    <3> QED
      BY <2>2, <3>1, <3>3 DEF Takes
  <2>6. Keeps(g)
    BY <1>1, <1>2, <2>1, <2>2 DEF Keeps, Present
  <2>7. \A p \in Ids : \A x \in incoming'[p] : x < nextOffer
    BY <1>1, <1>8 DEF OffersMade
  <2>8. OffersMade' /\ Present' /\ HandshakesApart' /\ \A p : Contacted(p)' <=> Contacted(p)
    BY <1>1, <2>1, <2>3, <2>4, <2>5, <2>6, <2>7, TouchedKeeps
  <2> QED
    BY <1>8, <2>2, <2>3, <2>8, ReadsThen
<1>9. Head(toPage) = toPage[1]
  BY ReadsKeep
<1>10. pcs[q] # Nobody => pcs[q] \in Offers
  BY <1>1 DEF BrowserTypeOK
<1> QED
  BY <1>0, <1>6, <1>7, <1>8, <1>9, <1>10 DEF ReadIce
-----------------------------------------------------------------------------
(* The steps that close connections, and those that begin one. *)

Shut(l) == [NoLink EXCEPT !.peer = l.peer, !.conn = l.conn, !.state = "closed", !.dc = "closed"]
Fresh(p) == [NoLink EXCEPT !.peer = p, !.state = "offering", !.dc = "connecting"]

LEMMA ShutIs == ASSUME NEW l \in Link
  PROVE  /\ Shut(l) \in Link /\ Shut(l).peer = l.peer /\ Shut(l).state = "closed" /\ Shut(l).dc = "closed"
         /\ Shut(l).cands = {} /\ Shut(l).answer = Nobody /\ Shut(l).ice = "new"
BY DEF Shut, NoLink, Link, Nobody

LEMMA FreshIs == ASSUME NEW p \in Ids
  PROVE  /\ Fresh(p) \in Link /\ Fresh(p).peer = p /\ Fresh(p).state = "offering" /\ Fresh(p).dc = "connecting"
         /\ Fresh(p).cands = {} /\ Fresh(p).answer = Nobody /\ Fresh(p).ice = "new"
BY DEF Fresh, NoLink, Link, Nobody

LEMMA NoLinkIs == /\ NoLink.peer = Nobody /\ NoLink.state = "none" /\ NoLink.dc = "none"
                  /\ NoLink.cands = {} /\ NoLink.answer = Nobody /\ NoLink.ice = "new"
BY DEF NoLink

\* The connections with the peers of P are closed and forgotten.
Closed(P) ==
  /\ \A x \in Offers : link'[x] = IF \E p \in P : pcs[p] = x THEN Shut(link[x]) ELSE link[x]
  /\ \A p \in Ids : /\ pcs'[p] = IF p \in P THEN Nobody ELSE pcs[p]
                    /\ dcs'[p] = IF p \in P THEN Nobody ELSE dcs[p]
                    /\ incoming'[p] \subseteq incoming[p]
  /\ nextOffer' = nextOffer /\ connects' = connects

LEMMA ClosedKeeps ==
  ASSUME BrowserTypeOK, OffersMade, Present, HandshakesApart, Settled, NEW P \in SUBSET Ids, Closed(P),
         \A h \in Offers : Finished(h) => Finished(h)'
  PROVE  OffersMade' /\ Present' /\ HandshakesApart' /\ Settled' /\ \A q : Contacted(q)' <=> Contacted(q)
<1> DEFINE D == {x \in Offers : \E p \in P : pcs[p] = x}
<1>0. \A x \in Offers : link[x] \in Link
  BY DEF BrowserTypeOK
<1>1. \A x \in D : /\ link'[x].peer = link[x].peer /\ link'[x].state = "closed" /\ link'[x].dc = "closed"
                   /\ link'[x].cands = {} /\ link'[x].answer = Nobody /\ link'[x].ice = "new"
  BY <1>0, ShutIs DEF Closed
<1>2. \A x \in Offers : x \notin D => link'[x] = link[x]
  BY DEF Closed
<1>3. \A x \in Offers : link'[x].peer = link[x].peer
  BY <1>1, <1>2
<1>4. \A p \in P : pcs[p] # Nobody => pcs[p] \in D
  BY DEF BrowserTypeOK
<1>5. \A x \in D : x # Nobody /\ link[x].peer \in P /\ x < nextOffer
  <2> SUFFICES ASSUME NEW x \in D PROVE x # Nobody /\ link[x].peer \in P /\ x < nextOffer
    OBVIOUS
  <2>1. PICK p \in P : pcs[p] = x
    OBVIOUS
  <2>2. x # Nobody
    BY DEF Offers, Nobody
  <2>3. link[x].peer = p /\ link[x].state \in {"offering", "offered", "stable"}
    BY <2>1, <2>2 DEF Present
  <2> QED
    BY <2>1, <2>2, <2>3, Live
<1>6. /\ \A p : Contacted(p)' <=> Contacted(p)
      /\ {p \in Ids : Contacted(p)}' = {p \in Ids : Contacted(p)}
  BY <1>3, SameContacts
<1>7. nextOffer' = nextOffer /\ connects' = connects /\ 0 < nextOffer
  BY DEF Closed, BrowserTypeOK
<1>8. \A p \in Ids : /\ p \in P => pcs'[p] = Nobody /\ dcs'[p] = Nobody
                     /\ p \notin P => pcs'[p] = pcs[p] /\ dcs'[p] = dcs[p]
                     /\ incoming'[p] \subseteq incoming[p]
  BY DEF Closed
<1> HIDE DEF D
<1>9. OffersMade'
  <2>1. \A g \in Offers : g >= nextOffer => link'[g] = NoLink
    <3> SUFFICES ASSUME NEW g \in Offers, g >= nextOffer PROVE link'[g] = NoLink
      OBVIOUS
    <3>1. g \notin D
      BY <1>5 DEF BrowserTypeOK, Offers
    <3> QED
      BY <1>2, <3>1 DEF OffersMade
  <2>2. \A g \in Offers : \A h \in link'[g].cands \cup {link'[g].answer} : h < nextOffer
    BY <1>1, <1>2, <1>7 DEF OffersMade, Nobody
  <2>3. \A p \in Ids : \A h \in incoming'[p] : h < nextOffer
    BY <1>8 DEF OffersMade
  <2> QED
    BY <1>3, <1>6, <1>7, <2>1, <2>2, <2>3 DEF OffersMade
<1>10. Present'
  <2>1. ASSUME NEW g \in Offers, link'[g].state \in {"offering", "offered", "stable"}
        PROVE  pcs'[link'[g].peer] = g /\ g \notin D
    <3>1. g \notin D /\ link'[g] = link[g]
      BY <1>1, <1>2, <2>1
    <3>2. link[g].peer \in Ids /\ pcs[link[g].peer] = g /\ g # Nobody
      BY <2>1, <3>1, Live DEF Offers, Nobody
    <3>3. link[g].peer \notin P
      BY <1>4, <3>1, <3>2
    <3> QED
      BY <1>8, <3>1, <3>2, <3>3
  <2>2. ASSUME NEW p \in Ids, pcs'[p] # Nobody
        PROVE  link'[pcs'[p]].peer = p /\ link'[pcs'[p]].state \in {"offering", "offered", "stable"}
    <3>1. p \notin P /\ pcs'[p] = pcs[p] /\ pcs[p] \in Offers
      BY <1>8, <2>2 DEF BrowserTypeOK
    <3>2. link[pcs[p]].peer = p /\ link[pcs[p]].state \in {"offering", "offered", "stable"}
      BY <2>2, <3>1 DEF Present
    <3>3. pcs[p] \notin D
      BY <1>5, <3>1, <3>2
    <3> QED
      BY <1>2, <3>1, <3>2, <3>3
  <2>3. ASSUME NEW g \in Offers, link'[g].dc \in {"connecting", "open"}
        PROVE  dcs'[link'[g].peer] = g /\ pcs'[link'[g].peer] = g
    <3>1. g \notin D /\ link'[g] = link[g]
      BY <1>1, <1>2, <2>3
    <3>2. dcs[link[g].peer] = g /\ pcs[link[g].peer] = g /\ g # Nobody
      BY <2>3, <3>1 DEF Present, Offers, Nobody
    <3>3. link[g].peer \in Ids
      <4>1. link[g] # NoLink
        BY <2>3, <3>1, NoLinkIs
      <4>2. g < nextOffer
        BY <4>1 DEF OffersMade, BrowserTypeOK, Offers
      <4> QED
        BY <4>2, LinkIs DEF OffersMade
    <3>4. link[g].peer \notin P
      BY <1>4, <3>1, <3>2
    <3> QED
      BY <1>8, <3>1, <3>2, <3>3, <3>4
  <2>4. \A p \in Ids : dcs'[p] # Nobody => dcs'[p] = pcs'[p]
    BY <1>8 DEF Present
  <2>5. \A g \in Offers : /\ link'[g].ice # "new" => link'[g].state = "stable"
                          /\ link'[g].state \in {"offering", "offered"} => link'[g].answer = Nobody
                          /\ link'[g].ice = "connected" => link'[g].answer = g
    BY <1>1, <1>2 DEF Present
  <2> QED
    BY <2>1, <2>2, <2>3, <2>4, <2>5 DEF Present
<1>11. HandshakesApart'
  <2> SUFFICES ASSUME NEW x \in Offers, NEW h \in (link'[x].cands \cup {link'[x].answer}) \ {Nobody, x}
               PROVE  link'[h].peer # link'[x].peer
    BY DEF HandshakesApart
  <2>1. x \notin D /\ link'[x] = link[x]
    BY <1>1, <1>2
  <2>2. h \in Offers
    BY <2>1, LinkIs
  <2> QED
    BY <1>3, <2>1, <2>2 DEF HandshakesApart
<1>12. Settled'
  <2>1. ASSUME NEW p \in Ids, pcs'[p] # Nobody, NEW h \in incoming'[p] PROVE h = pcs'[p] \/ link'[h].peer # p
    <3>1. p \notin P /\ pcs'[p] = pcs[p] /\ h \in incoming[p]
      BY <1>8, <2>1
    <3>2. h \in Offers
      BY <3>1 DEF BrowserTypeOK
    <3> QED
      BY <1>3, <2>1, <3>1, <3>2 DEF Settled
  <2>2. ASSUME NEW h \in Offers
        PROVE  /\ link'[h].state \in {"none", "offering"} => Finished(h)'
               /\ link'[h].answer = h => Finished(h)'
               /\ link'[h].peer # Nobody /\ pcs'[link'[h].peer] \notin {Nobody, h} => Finished(h)'
    <3>1. link'[h].state \in {"none", "offering"} => Finished(h)
      BY <1>1, <1>2 DEF Settled
    <3>2. link'[h].answer = h => Finished(h)
      BY <1>1, <1>2 DEF Settled, Offers, Nobody
    <3>3. link'[h].peer # Nobody /\ pcs'[link'[h].peer] \notin {Nobody, h} => Finished(h)
      BY <1>3, <1>8, LinkIs DEF Settled
    <3> QED
      BY <3>1, <3>2, <3>3
  <2> QED
    BY <2>1, <2>2, SettledKeeps
<1> QED
  BY <1>6, <1>9, <1>10, <1>11, <1>12

LEMMA CloseLinksIs == ASSUME NEW L \in [Offers -> Link], NEW D \in SUBSET Offers
  PROVE  /\ CloseLinks(L, D) \in [Offers -> Link]
         /\ \A x \in Offers : CloseLinks(L, D)[x] = IF x \in D THEN Shut(L[x]) ELSE L[x]
<1>1. \A x \in Offers : CloseLinks(L, D)[x] = IF x \in D THEN Shut(L[x]) ELSE L[x]
  BY DEF CloseLinks, Shut
<1>2. \A x \in Offers : L[x] \in Link /\ Shut(L[x]) \in Link
  BY ShutIs
<1>3. CloseLinks(L, D) = [x \in Offers |-> IF x \in D THEN Shut(L[x]) ELSE L[x]]
  BY DEF CloseLinks, Shut
<1> QED
  BY <1>1, <1>2, <1>3
LEMMA DisconnectKeeps == ASSUME PeersInv, PageRefused \/ PageRejected PROVE PeersInv'
<1>1. BrowserTypeOK /\ OffersMade /\ Present /\ HandshakesApart /\ Listed /\ Places /\ Settled /\ NoneReturns
  BY DEF PeersInv
<1>2. UNCHANGED <<hub, toPage, toReceiver, ui, recv>> /\ failures' \in 0..1 /\ me = Nobody
  BY <1>1 DEF PageRefused, PageRejected, BrowserTypeOK
<1>3. UNCHANGED <<nextId, receiver, me, zombie, shown, target, dirty, connects, rpcs, answering, alive>>
  BY <1>2 DEF hub, ui, recv
<1>4. PlacesStay(0, 0) /\ NewsStay(0)
  BY <1>1, <1>2, <1>3, Same, NextIds DEF PlacesStay, NewsStay
<1>5. me' = Nobody /\ toPage' = <<>>
  BY <1>1, <1>2, <1>3 DEF Listed
<1>6. CASE UNCHANGED <<page, client>>
  <2>1. BrowserTypeOK'
    BY <1>1, <1>2, <1>3, <1>6 DEF BrowserTypeOK, client
  <2> QED
    BY <1>1, <1>2, <1>4, <1>5, <1>6, <2>1, Quiet
<1>7. CASE Disconnect
  <2> DEFINE D == {pcs[p] : p \in Ids} \ {Nobody}
  <2>1. /\ page' = "off" /\ link' = CloseLinks(link, D)
        /\ pcs' = [p \in Ids |-> Nobody] /\ dcs' = [p \in Ids |-> Nobody]
        /\ UNCHANGED <<peers, sent, outgoing, incoming, nextOffer>>
    BY <1>7 DEF Disconnect
  <2>2. D \in SUBSET Offers
    BY <1>1 DEF BrowserTypeOK
  <2>3. link \in [Offers -> Link]
    BY <1>1 DEF BrowserTypeOK
  <2>4. \A x \in Offers : x \in D <=> \E p \in Ids : pcs[p] = x
    BY DEF Offers, Nobody
  <2> HIDE DEF D
  <2>5. /\ link' \in [Offers -> Link]
        /\ \A x \in Offers : link'[x] = IF x \in D THEN Shut(link[x]) ELSE link[x]
    BY <2>1, <2>2, <2>3, CloseLinksIs
  <2>6. BrowserTypeOK'
    BY <1>1, <1>2, <1>3, <2>1, <2>5 DEF BrowserTypeOK
  <2>7. Closed(Ids)
    BY <1>3, <2>1, <2>4, <2>5 DEF Closed
  <2>8. Places' /\ \A x \in Offers : Finished(x) => Finished(x)'
    BY <1>1, <1>4, <2>6, PlacesKeep
  <2>9. OffersMade' /\ Present' /\ HandshakesApart' /\ Settled' /\ \A q : Contacted(q)' <=> Contacted(q)
    BY <1>1, <2>7, <2>8, ClosedKeeps
  <2>10. LinksStay
    BY <2>1, <2>9 DEF LinksStay
  <2>11. NoneReturns'
    BY <1>1, <1>4, <2>6, <2>10, NewsKeeps
  <2>12. Listed'
    BY <1>5, <2>1 DEF Listed
  <2> QED
    BY <2>6, <2>8, <2>9, <2>11, <2>12 DEF PeersInv
<1> QED
  BY <1>6, <1>7 DEF PageRefused, PageRejected

\* What cleanupPeer leaves.
LEMMA CleanupIs ==
  ASSUME BrowserTypeOK, NEW p \in Ids
  PROVE  LET m == Cleanup(p) IN
         /\ m.link \in [Offers -> Link]
         /\ \A x \in Offers : m.link[x] = IF pcs[p] = x THEN Shut(link[x]) ELSE link[x]
         /\ m.pcs \in [Ids -> Offers \cup {Nobody}] /\ m.dcs \in [Ids -> Offers \cup {Nobody}]
         /\ m.sent \subseteq Ids /\ m.out \in [Ids -> SUBSET Offers] /\ m.in \in [Ids -> SUBSET Offers]
         /\ m.pcs = [pcs EXCEPT ![p] = Nobody] /\ m.dcs = [dcs EXCEPT ![p] = Nobody]
         /\ m.in = [incoming EXCEPT ![p] = {}] /\ m.next = nextOffer
<1> DEFINE D == {pcs[p]} \ {Nobody}
<1>1. D \in SUBSET Offers /\ link \in [Offers -> Link]
  BY DEF BrowserTypeOK
<1>2. \A x \in Offers : x \in D <=> pcs[p] = x
  BY DEF Offers, Nobody
<1>3. /\ CloseLinks(link, D) \in [Offers -> Link]
      /\ \A x \in Offers : CloseLinks(link, D)[x] = IF x \in D THEN Shut(link[x]) ELSE link[x]
  BY <1>1, CloseLinksIs
<1>4. /\ Cleanup(p).link = CloseLinks(link, D) /\ Cleanup(p).pcs = [pcs EXCEPT ![p] = Nobody]
      /\ Cleanup(p).dcs = [dcs EXCEPT ![p] = Nobody] /\ Cleanup(p).sent = sent \ {p}
      /\ Cleanup(p).out = [outgoing EXCEPT ![p] = {}] /\ Cleanup(p).in = [incoming EXCEPT ![p] = {}]
      /\ Cleanup(p).next = nextOffer
  BY DEF Cleanup
<1> HIDE DEF D
<1>5. \A x \in Offers : Cleanup(p).link[x] = IF pcs[p] = x THEN Shut(link[x]) ELSE link[x]
  BY <1>2, <1>3, <1>4
<1>6. /\ Cleanup(p).pcs \in [Ids -> Offers \cup {Nobody}] /\ Cleanup(p).dcs \in [Ids -> Offers \cup {Nobody}]
      /\ Cleanup(p).sent \subseteq Ids /\ Cleanup(p).out \in [Ids -> SUBSET Offers]
      /\ Cleanup(p).in \in [Ids -> SUBSET Offers]
  BY <1>4 DEF BrowserTypeOK
<1> QED
  BY <1>3, <1>4, <1>5, <1>6

LEMMA EmitTypes == Emit => /\ shown' \in [Ids -> {"absent", "online", "connecting", "p2p", "failed"}]
                           /\ dirty' = TRUE
BY DEF Emit, Status

LEMMA ReadLeftKeeps == ASSUME PeersInv, ReadLeft PROVE PeersInv'
<1>1. BrowserTypeOK /\ OffersMade /\ Present /\ HandshakesApart /\ Listed /\ Places /\ Settled /\ NoneReturns
  BY DEF PeersInv
<1>2. /\ toPage # <<>> /\ Head(toPage).type = "left" /\ toPage' = Tail(toPage)
      /\ peers' = peers \ {Head(toPage).id} /\ Become(Cleanup(Head(toPage).id))
      /\ UNCHANGED <<hub, page, failures, toReceiver, target, connects, recv>> /\ Emit
  BY DEF ReadLeft
<1>3. /\ toPage' \in Seq(Msg) /\ 1 \in DOMAIN toPage /\ Head(toPage) = toPage[1] /\ toPage[1] \in Msg
      /\ \A i \in DOMAIN toPage' : i + 1 \in DOMAIN toPage /\ toPage'[i] = toPage[i + 1]
  BY <1>1, <1>2, OneAhead
<1>4. PICK p \in Ids : p = toPage[1].id
  BY <1>2, <1>3, Parts
<1>5. UNCHANGED <<nextId, receiver, me, zombie, page, rpcs, answering, alive, connects>>
  BY <1>2 DEF hub, recv
<1>6. /\ link' = Cleanup(p).link /\ pcs' = Cleanup(p).pcs /\ dcs' = Cleanup(p).dcs /\ sent' = Cleanup(p).sent
      /\ outgoing' = Cleanup(p).out /\ incoming' = Cleanup(p).in /\ nextOffer' = Cleanup(p).next
  BY <1>2, <1>3, <1>4 DEF Become
<1>7. /\ link' \in [Offers -> Link]
      /\ \A x \in Offers : link'[x] = IF pcs[p] = x THEN Shut(link[x]) ELSE link[x]
      /\ pcs' \in [Ids -> Offers \cup {Nobody}] /\ dcs' \in [Ids -> Offers \cup {Nobody}]
      /\ sent' \subseteq Ids /\ outgoing' \in [Ids -> SUBSET Offers] /\ incoming' \in [Ids -> SUBSET Offers]
      /\ pcs' = [pcs EXCEPT ![p] = Nobody] /\ dcs' = [dcs EXCEPT ![p] = Nobody]
      /\ incoming' = [incoming EXCEPT ![p] = {}] /\ nextOffer' = nextOffer
  BY <1>1, <1>6, CleanupIs
<1>8. BrowserTypeOK'
  BY <1>1, <1>2, <1>3, <1>5, <1>7, EmitTypes DEF BrowserTypeOK
<1>9. PlacesStay(1, 0)
  BY <1>1, <1>2, <1>3, <1>5, Same DEF PlacesStay
<1>10. Places' /\ \A x \in Offers : Finished(x) => Finished(x)'
  BY <1>1, <1>8, <1>9, PlacesKeep
<1>11. Closed({p})
  BY <1>1, <1>5, <1>7 DEF Closed, BrowserTypeOK
<1>12. OffersMade' /\ Present' /\ HandshakesApart' /\ Settled' /\ \A q : Contacted(q)' <=> Contacted(q)
  BY <1>1, <1>10, <1>11, ClosedKeeps
<1>13. receiver # p /\ \A j \in DOMAIN toPage' : toPage'[j].type = "receivers" => p \notin toPage'[j].ids
  <2>1. toPage[1].type = "left"
    BY <1>2, <1>3
  <2>2. ASSUME NEW j \in DOMAIN toPage', toPage'[j].type = "receivers" PROVE p \notin toPage'[j].ids
    <3>1. j + 1 \in DOMAIN toPage /\ toPage'[j] = toPage[j + 1] /\ 1 < j + 1
      BY <1>3
    <3> QED
      BY <1>1, <1>3, <1>4, <2>1, <2>2, <3>1 DEF NoneReturns
  <2> QED
    BY <1>1, <1>3, <1>4, <2>1, <2>2 DEF NoneReturns
<1>14. NoneReturns'
  <2>1. ASSUME NEW i \in DOMAIN toPage', toPage'[i].type = "receivers", NEW a \in toPage'[i].ids, NEW b \in toPage'[i].ids
        PROVE  a < nextId' /\ a = b
    BY <1>1, <1>3, <1>5, <2>1 DEF NoneReturns
  <2>2. ASSUME NEW i \in DOMAIN toPage', toPage'[i].type = "left"
        PROVE  /\ toPage'[i].id < nextId' /\ receiver' # toPage'[i].id
               /\ \A j \in DOMAIN toPage' : i < j /\ toPage'[j].type = "receivers" => toPage'[i].id \notin toPage'[j].ids
    <3>1. i + 1 \in DOMAIN toPage /\ toPage'[i] = toPage[i + 1]
      BY <1>3
    <3>2. ASSUME NEW j \in DOMAIN toPage', i < j, toPage'[j].type = "receivers" PROVE toPage'[i].id \notin toPage'[j].ids
      <4>1. j + 1 \in DOMAIN toPage /\ toPage'[j] = toPage[j + 1] /\ i + 1 < j + 1
        BY <1>3, <3>2
      <4> QED
        BY <1>1, <2>2, <3>1, <3>2, <4>1 DEF NoneReturns
    <3> QED
      BY <1>1, <1>5, <2>2, <3>1, <3>2 DEF NoneReturns
  <2>3. ASSUME page' = "on", NEW q \in Ids, Contacted(q)', pcs'[q] = Nobody
        PROVE  /\ receiver' # q /\ incoming'[q] = {}
               /\ \A i \in DOMAIN toPage' : toPage'[i].type = "receivers" => q \notin toPage'[i].ids
    <3>1. CASE q = p
      BY <1>1, <1>5, <1>7, <1>13, <3>1 DEF BrowserTypeOK
    <3>2. CASE q # p
      <4>1. pcs[q] = Nobody /\ incoming'[q] = incoming[q] /\ Contacted(q) /\ page = "on"
        BY <1>1, <1>5, <1>7, <1>12, <2>3, <3>2 DEF BrowserTypeOK
      <4>2. receiver # q /\ incoming[q] = {} /\ \A i \in DOMAIN toPage : toPage[i].type = "receivers" => q \notin toPage[i].ids
        BY <1>1, <4>1 DEF NoneReturns
      <4> QED
        BY <1>3, <1>5, <4>1, <4>2
    <3> QED
      BY <3>1, <3>2
  <2> QED
    BY <1>1, <1>5, <1>12, <2>1, <2>2, <2>3 DEF NoneReturns
<1>15. Listed'
  <2>1. me' # Nobody /\ page' = page /\ page # "off"
    BY <1>1, <1>2, <1>5 DEF Listed
  <2>2. \A q \in peers' : pcs'[q] # Nobody
    BY <1>1, <1>2, <1>3, <1>4, <1>7, <2>1 DEF Listed, BrowserTypeOK
  <2> QED
    BY <1>2, <2>1, <2>2, ListMade
<1> QED
  BY <1>8, <1>10, <1>12, <1>14, <1>15 DEF PeersInv
\* A connection with p is begun, and the one there was closed.
Begins(p) ==
  /\ nextOffer \in Offers /\ nextOffer' = nextOffer + 1
  /\ \A x \in Offers : link'[x] = IF x = nextOffer THEN Fresh(p) ELSE IF pcs[p] = x THEN Shut(link[x]) ELSE link[x]
  /\ \A q \in Ids : /\ pcs'[q] = IF q = p THEN nextOffer ELSE pcs[q]
                    /\ dcs'[q] = IF q = p THEN nextOffer ELSE dcs[q]
                    /\ incoming'[q] \subseteq incoming[q]
  /\ pcs[p] # Nobody => incoming'[p] = {}

LEMMA BeginsKeeps ==
  ASSUME BrowserTypeOK, OffersMade, Present, HandshakesApart, Settled, NEW p \in Ids, Begins(p),
         \A h \in Offers : Finished(h) => Finished(h)',
         IF pcs[p] = Nobody THEN ~Contacted(p) ELSE Finished(pcs[p]),
         nextOffer <= connects' + Cardinality({q \in Ids : Contacted(q) \/ q = p})
  PROVE  OffersMade' /\ Present' /\ HandshakesApart' /\ Settled' /\ \A q \in Ids : Contacted(q)' <=> Contacted(q) \/ q = p
<1>1. PICK g \in Offers : g = nextOffer
  BY DEF Begins
<1>2. /\ link'[g] = Fresh(p) /\ nextOffer' = g + 1 /\ link[g] = NoLink /\ g # Nobody
  BY <1>1 DEF Begins, OffersMade, BrowserTypeOK, Offers, Nobody
<1>3. pcs[p] # Nobody => /\ pcs[p] \in Offers /\ pcs[p] < g /\ link[pcs[p]].peer = p
  <2> SUFFICES ASSUME pcs[p] # Nobody PROVE pcs[p] \in Offers /\ pcs[p] < g /\ link[pcs[p]].peer = p
    OBVIOUS
  <2>1. pcs[p] \in Offers /\ link[pcs[p]].peer = p /\ link[pcs[p]].state \in {"offering", "offered", "stable"}
    BY DEF Present, BrowserTypeOK
  <2> QED
    BY <1>1, <2>1, Live
<1>4. \A x \in Offers : x # g /\ x = pcs[p] => link'[x] = Shut(link[x])
  BY <1>1 DEF Begins
<1>5. \A x \in Offers : x # g /\ x # pcs[p] => link'[x] = link[x]
  BY <1>1 DEF Begins
<1>6. \A x \in Offers : link[x] \in Link
  BY DEF BrowserTypeOK
<1>7. \A x \in Offers : x # g => link'[x].peer = link[x].peer
  BY <1>4, <1>5, <1>6, ShutIs
<1>8. /\ link'[g].peer = p /\ link'[g].state = "offering" /\ link'[g].dc = "connecting"
      /\ link'[g].cands = {} /\ link'[g].answer = Nobody /\ link'[g].ice = "new"
  BY <1>2, FreshIs
<1>9. \A x \in Offers : x # g /\ x = pcs[p] =>
        /\ link'[x].state = "closed" /\ link'[x].dc = "closed"
        /\ link'[x].cands = {} /\ link'[x].answer = Nobody /\ link'[x].ice = "new"
  BY <1>4, <1>6, ShutIs
<1>10. \A q \in Ids : /\ q = p => pcs'[q] = g /\ dcs'[q] = g
                      /\ q # p => pcs'[q] = pcs[q] /\ dcs'[q] = dcs[q]
                      /\ incoming'[q] \subseteq incoming[q]
  BY <1>1 DEF Begins
<1>11. g \in Int /\ \A x \in Offers : x \in Int
  BY DEF Offers
<1>12. \A q \in Ids : Contacted(q)' <=> Contacted(q) \/ q = p
  <2>1. ASSUME NEW q \in Ids PROVE Contacted(q)' => Contacted(q) \/ q = p
    BY <1>7, <1>8 DEF Contacted
  <2>2. ASSUME NEW q \in Ids, Contacted(q) PROVE Contacted(q)'
    <3>1. PICK x \in Offers : link[x].peer = q
      BY <2>2 DEF Contacted
    <3>2. x # g
      BY <1>2, <3>1, NoLinkIs DEF Ids, Nobody
    <3> QED
      BY <1>7, <3>1, <3>2 DEF Contacted
  <2>3. Contacted(p)'
    BY <1>8 DEF Contacted
  <2> QED
    BY <2>1, <2>2, <2>3
<1>13. {q \in Ids : Contacted(q)}' = {q \in Ids : Contacted(q) \/ q = p}
  BY <1>12
<1>14. OffersMade'
  <2>1. \A x \in Offers : x >= nextOffer' => link'[x] = NoLink
    <3> SUFFICES ASSUME NEW x \in Offers, x >= nextOffer' PROVE link'[x] = NoLink
      OBVIOUS
    <3>1. x # g /\ x # pcs[p] /\ x >= nextOffer
      BY <1>1, <1>2, <1>3, <1>11 DEF Offers, Nobody
    <3> QED
      BY <1>5, <3>1 DEF OffersMade
  <2>2. \A x \in Offers : x < nextOffer' => link'[x].peer # Nobody
    <3> SUFFICES ASSUME NEW x \in Offers, x < nextOffer' PROVE link'[x].peer # Nobody
      OBVIOUS
    <3>1. CASE x = g
      BY <1>8, <3>1 DEF Ids, Nobody
    <3>2. CASE x # g
      <4>1. x < nextOffer
        BY <1>1, <1>2, <1>11, <3>2
      <4> QED
        BY <1>7, <3>2, <4>1 DEF OffersMade
    <3> QED
      BY <3>1, <3>2
  <2>3. \A x \in Offers : \A h \in link'[x].cands \cup {link'[x].answer} : h < nextOffer'
    <3> SUFFICES ASSUME NEW x \in Offers, NEW h \in link'[x].cands \cup {link'[x].answer} PROVE h < nextOffer'
      OBVIOUS
    <3>1. CASE h = Nobody
      BY <1>1, <1>2, <3>1 DEF Offers, Nobody
    <3>2. CASE h # Nobody
      <4>1. h \in link[x].cands \cup {link[x].answer}
        BY <1>5, <1>8, <1>9, <3>2
      <4>2. h < nextOffer /\ h \in Int
        BY <4>1, LinkIs DEF OffersMade, Offers, Nobody
      <4> QED
        BY <1>1, <1>2, <1>11, <4>2
    <3> QED
      BY <3>1, <3>2
  <2>4. \A q \in Ids : \A h \in incoming'[q] : h < nextOffer'
    <3> SUFFICES ASSUME NEW q \in Ids, NEW h \in incoming'[q] PROVE h < nextOffer'
      OBVIOUS
    <3>1. h \in incoming[q] /\ h \in Int
      BY <1>10 DEF BrowserTypeOK, Offers
    <3> QED
      BY <1>1, <1>2, <1>11, <3>1 DEF OffersMade
  <2>5. nextOffer' - 1 <= connects' + Cardinality({q \in Ids : Contacted(q)}')
    BY <1>1, <1>2, <1>11, <1>13
  <2> QED
    BY <2>1, <2>2, <2>3, <2>4, <2>5 DEF OffersMade
<1>15. Present'
  <2>1. ASSUME NEW x \in Offers, link'[x].state \in {"offering", "offered", "stable"} PROVE pcs'[link'[x].peer] = x
    <3>1. CASE x = g
      BY <1>8, <1>10, <3>1
    <3>2. CASE x # g
      <4>1. x # pcs[p] /\ link'[x] = link[x]
        BY <1>5, <1>9, <2>1, <3>2
      <4>2. link[x].peer \in Ids /\ pcs[link[x].peer] = x
        BY <2>1, <4>1, Live
      <4> QED
        BY <1>10, <4>1, <4>2
    <3> QED
      BY <3>1, <3>2
  <2>2. ASSUME NEW q \in Ids, pcs'[q] # Nobody
        PROVE  link'[pcs'[q]].peer = q /\ link'[pcs'[q]].state \in {"offering", "offered", "stable"}
    <3>1. CASE q = p
      BY <1>8, <1>10, <3>1
    <3>2. CASE q # p
      <4>1. pcs'[q] = pcs[q] /\ pcs[q] \in Offers
        BY <1>10, <2>2, <3>2 DEF BrowserTypeOK
      <4>2. link[pcs[q]].peer = q /\ link[pcs[q]].state \in {"offering", "offered", "stable"}
        BY <2>2, <4>1 DEF Present
      <4>3. pcs[q] # pcs[p]
        BY <1>3, <3>2, <4>1, <4>2 DEF Offers, Nobody
      <4>4. pcs[q] # g
        BY <1>2, <4>2, NoLinkIs
      <4> QED
        BY <1>5, <4>1, <4>2, <4>3, <4>4
    <3> QED
      BY <3>1, <3>2
  <2>3. ASSUME NEW x \in Offers, link'[x].dc \in {"connecting", "open"}
        PROVE  dcs'[link'[x].peer] = x /\ pcs'[link'[x].peer] = x
    <3>1. CASE x = g
      BY <1>8, <1>10, <3>1
    <3>2. CASE x # g
      <4>1. x # pcs[p] /\ link'[x] = link[x]
        BY <1>5, <1>9, <2>3, <3>2
      <4>2. dcs[link[x].peer] = x /\ pcs[link[x].peer] = x
        BY <2>3, <4>1 DEF Present
      <4>3. link[x].peer \in Ids
        <5>1. link[x] # NoLink
          BY <2>3, <4>1, NoLinkIs
        <5>2. x < nextOffer
          BY <5>1 DEF OffersMade, BrowserTypeOK, Offers
        <5> QED
          BY <5>2, LinkIs DEF OffersMade
      <4> QED
        BY <1>10, <4>1, <4>2, <4>3
    <3> QED
      BY <3>1, <3>2
  <2>4. \A q \in Ids : dcs'[q] # Nobody => dcs'[q] = pcs'[q]
    BY <1>10 DEF Present
  <2>5. \A x \in Offers : /\ link'[x].ice # "new" => link'[x].state = "stable"
                          /\ link'[x].state \in {"offering", "offered"} => link'[x].answer = Nobody
                          /\ link'[x].ice = "connected" => link'[x].answer = x
    <3> SUFFICES ASSUME NEW x \in Offers
                 PROVE  /\ link'[x].ice # "new" => link'[x].state = "stable"
                        /\ link'[x].state \in {"offering", "offered"} => link'[x].answer = Nobody
                        /\ link'[x].ice = "connected" => link'[x].answer = x
      OBVIOUS
    <3>1. CASE x = g
      BY <1>8, <3>1
    <3>2. CASE x # g /\ x = pcs[p]
      BY <1>9, <3>2
    <3>3. CASE x # g /\ x # pcs[p]
      BY <1>5, <3>3 DEF Present
    <3> QED
      BY <3>1, <3>2, <3>3
  <2> QED
    BY <2>1, <2>2, <2>3, <2>4, <2>5 DEF Present
<1>16. HandshakesApart'
  <2> SUFFICES ASSUME NEW x \in Offers, NEW h \in (link'[x].cands \cup {link'[x].answer}) \ {Nobody, x}
               PROVE  link'[h].peer # link'[x].peer
    BY DEF HandshakesApart
  <2>1. x # g /\ x # pcs[p] /\ link'[x] = link[x]
    BY <1>5, <1>8, <1>9
  <2>2. h \in Offers /\ h < nextOffer
    BY <2>1, LinkIs DEF OffersMade
  <2>3. h # g
    BY <1>1, <1>11, <2>2
  <2> QED
    BY <1>7, <2>1, <2>2, <2>3 DEF HandshakesApart
<1>17. Settled'
  <2>1. ASSUME NEW q \in Ids, pcs'[q] # Nobody, NEW h \in incoming'[q] PROVE h = pcs'[q] \/ link'[h].peer # q
    <3>1. h \in incoming[q] /\ h \in Offers
      BY <1>10 DEF BrowserTypeOK
    <3>2. h < nextOffer
      BY <3>1 DEF OffersMade
    <3>3. h # g
      BY <1>1, <1>11, <3>1, <3>2
    <3>4. CASE q = p
      <4>1. pcs[p] = Nobody
        BY <2>1, <3>4 DEF Begins
      <4> QED
        BY <1>7, <3>1, <3>3, <3>4, <4>1 DEF Contacted
    <3>5. CASE q # p
      BY <1>7, <1>10, <2>1, <3>1, <3>3, <3>5 DEF Settled
    <3> QED
      BY <3>4, <3>5
  <2>2. ASSUME NEW h \in Offers
        PROVE  /\ link'[h].state \in {"none", "offering"} => Finished(h)'
               /\ link'[h].answer = h => Finished(h)'
               /\ link'[h].peer # Nobody /\ pcs'[link'[h].peer] \notin {Nobody, h} => Finished(h)'
    <3>1. CASE h = g
      BY <1>2, <3>1, NoLinkIs DEF Settled
    <3>2. CASE h # g
      <4>1. link'[h].state \in {"none", "offering"} => Finished(h)
        BY <1>5, <1>9, <3>2 DEF Settled
      <4>2. link'[h].answer = h => Finished(h)
        BY <1>5, <1>9, <3>2 DEF Settled, Offers, Nobody
      <4>3. ASSUME link'[h].peer # Nobody, pcs'[link'[h].peer] \notin {Nobody, h} PROVE Finished(h)
        <5>1. link[h].peer \in Ids /\ link'[h].peer = link[h].peer
          BY <1>7, <3>2, <4>3, LinkIs
        <5>2. CASE link[h].peer # p
          BY <1>10, <4>3, <5>1, <5>2 DEF Settled
        <5>3. CASE link[h].peer = p
          <6>1. pcs[p] # Nobody
            BY <5>3 DEF Contacted
          <6>2. CASE h = pcs[p]
            BY <6>1, <6>2
          <6>3. CASE h # pcs[p]
            BY <4>3, <5>1, <5>3, <6>1, <6>3 DEF Settled
          <6> QED
            BY <6>2, <6>3
        <5> QED
          BY <5>2, <5>3
      <4> QED
        BY <4>1, <4>2, <4>3
    <3> QED
      BY <3>1, <3>2
  <2> QED
    BY <2>1, <2>2, SettledKeeps
<1> QED
  BY <1>12, <1>14, <1>15, <1>16, <1>17
\* There is an offer left for a peer that has had none, and for a connection made anew.
LEMMA OffersLeft ==
  ASSUME BrowserTypeOK, OffersMade, NEW p \in Ids
  PROVE  /\ ~Contacted(p) => nextOffer \in Offers /\ nextOffer <= connects + Cardinality({q \in Ids : Contacted(q) \/ q = p})
         /\ Contacted(p) /\ connects < MaxConnects =>
              nextOffer \in Offers /\ nextOffer <= connects + 1 + Cardinality({q \in Ids : Contacted(q) \/ q = p})
<1> DEFINE C == {q \in Ids : Contacted(q)}
           D == {q \in Ids : Contacted(q) \/ q = p}
<1>1. IsFiniteSet(Ids) /\ Cardinality(Ids) = MaxConns
  BY FS_Interval, BrowserAssumption DEF Ids, BrowserAssumption
<1>2. C \subseteq Ids /\ D \subseteq Ids
  OBVIOUS
<1>3. IsFiniteSet(C) /\ IsFiniteSet(D) /\ Cardinality(C) <= MaxConns /\ Cardinality(D) <= MaxConns
  BY <1>1, <1>2, FS_Subset
<1>4. Cardinality(C) \in Nat /\ Cardinality(D) \in Nat
  BY <1>3, FS_CardinalityType
<1>5. ~Contacted(p) => Cardinality(D) = Cardinality(C) + 1
  <2> SUFFICES ASSUME ~Contacted(p) PROVE Cardinality(D) = Cardinality(C) + 1
    OBVIOUS
  <2>1. D = C \cup {p} /\ p \notin C
    OBVIOUS
  <2> QED
    BY <1>3, <2>1, FS_AddElement
<1>6. Contacted(p) => D = C
  OBVIOUS
<1>7. nextOffer - 1 <= connects + Cardinality(C)
  BY DEF OffersMade
<1> HIDE DEF C, D
<1>8. /\ MaxConns \in Nat /\ MaxConnects \in Nat /\ connects \in Nat /\ connects <= MaxConnects
      /\ nextOffer \in Nat /\ 1 <= nextOffer
  BY BrowserAssumption DEF BrowserAssumption, BrowserTypeOK
<1>9. ~Contacted(p) => nextOffer \in Offers /\ nextOffer <= connects + Cardinality(D)
  BY <1>3, <1>4, <1>5, <1>7, <1>8 DEF Offers
<1>10. Contacted(p) /\ connects < MaxConnects => nextOffer \in Offers /\ nextOffer <= connects + 1 + Cardinality(D)
  BY <1>3, <1>4, <1>6, <1>7, <1>8 DEF Offers
<1> QED
  BY <1>9, <1>10 DEF D

LEMMA ReadReceiversKeeps == ASSUME PeersInv, ReadReceivers PROVE PeersInv'
<1>1. BrowserTypeOK /\ OffersMade /\ Present /\ HandshakesApart /\ Listed /\ Places /\ Settled /\ NoneReturns
  BY DEF PeersInv
<1>2. /\ toPage # <<>> /\ Head(toPage).type = "receivers" /\ toPage' = Tail(toPage)
      /\ peers' = peers \cup Head(toPage).ids
      /\ Become(IF Head(toPage).ids = {} THEN Maps ELSE Init2(Maps, CHOOSE q \in Head(toPage).ids : TRUE))
      /\ UNCHANGED <<hub, page, failures, toReceiver, target, connects, recv>> /\ Emit
  BY DEF ReadReceivers
<1>3. /\ toPage' \in Seq(Msg) /\ 1 \in DOMAIN toPage /\ Head(toPage) = toPage[1] /\ toPage[1] \in Msg
      /\ \A i \in DOMAIN toPage' : i + 1 \in DOMAIN toPage /\ toPage'[i] = toPage[i + 1]
  BY <1>1, <1>2, OneAhead
<1>4. UNCHANGED <<nextId, receiver, me, zombie, page, rpcs, answering, alive, connects>>
  BY <1>2 DEF hub, recv
<1>5. toPage[1].ids \subseteq Ids /\ toPage[1].type = "receivers"
  BY <1>2, <1>3, Parts
<1>6. PlacesStay(1, 0) /\ NewsStay(1)
  BY <1>1, <1>2, <1>3, <1>4, Same, NextIds DEF PlacesStay, NewsStay
<1>7. me' # Nobody /\ page' = page /\ page = "on"
  BY <1>1, <1>2, <1>4 DEF Listed, BrowserTypeOK
<1>8. ASSUME UNCHANGED <<link, pcs, dcs, sent, outgoing, incoming, nextOffer>>, \A q \in toPage[1].ids : pcs[q] # Nobody
      PROVE  PeersInv'
  <2>1. BrowserTypeOK'
    BY <1>1, <1>2, <1>3, <1>4, <1>5, <1>8, EmitTypes DEF BrowserTypeOK
  <2>2. OffersMade' /\ Present' /\ HandshakesApart' /\ LinksStay
    BY <1>1, <1>4, <1>8, ClientStays
  <2>3. Places' /\ \A x \in Offers : Finished(x) => Finished(x)'
    BY <1>1, <1>6, <2>1, PlacesKeep
  <2>4. Settled'
    BY <1>1, <1>8, <2>3, SettledStays
  <2>5. NoneReturns'
    BY <1>1, <1>6, <2>1, <2>2, NewsKeeps
  <2>6. Listed'
    BY <1>1, <1>2, <1>3, <1>7, <1>8, ListMade DEF Listed
  <2> QED
    BY <2>1, <2>2, <2>3, <2>4, <2>5, <2>6 DEF PeersInv
<1>9. CASE toPage[1].ids = {}
  <2>1. UNCHANGED <<link, pcs, dcs, sent, outgoing, incoming, nextOffer>>
    BY <1>2, <1>3, <1>9 DEF Become, Maps
  <2> QED
    BY <1>8, <1>9, <2>1
<1>10. CASE toPage[1].ids # {}
  <2>1. PICK p \in Ids : p = CHOOSE q \in toPage[1].ids : TRUE
    BY <1>5, <1>10
  <2>2. toPage[1].ids = {p} /\ p < nextId
    BY <1>1, <1>3, <1>5, <1>10, <2>1 DEF NoneReturns
  <2>3. Become(Init2(Maps, p))
    BY <1>2, <1>3, <1>10, <2>1
  <2>4. CASE pcs[p] # Nobody
    <3>1. UNCHANGED <<link, pcs, dcs, sent, outgoing, incoming, nextOffer>>
      BY <2>3, <2>4 DEF Become, Init2, Maps
    <3> QED
      BY <1>8, <2>2, <2>4, <3>1
  <2>5. CASE pcs[p] = Nobody
    <3>1. ~Contacted(p)
      BY <1>1, <1>3, <1>5, <1>7, <2>2, <2>5 DEF NoneReturns
    <3>2. /\ link' = [link EXCEPT ![nextOffer] = Fresh(p)]
          /\ pcs' = [pcs EXCEPT ![p] = nextOffer] /\ dcs' = [dcs EXCEPT ![p] = nextOffer]
          /\ sent' = sent /\ outgoing' = outgoing /\ incoming' = incoming /\ nextOffer' = nextOffer + 1
      BY <2>3, <2>5 DEF Become, Init2, Maps, Fresh
    <3>3. nextOffer \in Offers /\ nextOffer <= connects + Cardinality({q \in Ids : Contacted(q) \/ q = p})
      BY <1>1, <3>1, OffersLeft
    <3>4. /\ link' \in [Offers -> Link]
          /\ \A x \in Offers : link'[x] = IF x = nextOffer THEN Fresh(p) ELSE link[x]
      BY <1>1, <3>2, <3>3, FreshIs DEF BrowserTypeOK
    <3>5. \A x \in Offers : pcs[p] # x
      BY <2>5 DEF Offers, Nobody
    <3>6. nextOffer' \in 1..(MaxConns + MaxConnects + 1)
      BY <3>2, <3>3, BrowserAssumption DEF Offers, BrowserAssumption
    <3>7. BrowserTypeOK'
      BY <1>1, <1>2, <1>3, <1>4, <1>5, <3>2, <3>3, <3>4, <3>6, EmitTypes DEF BrowserTypeOK
    <3>8. Begins(p)
      BY <1>1, <2>5, <3>2, <3>3, <3>4, <3>5 DEF Begins, BrowserTypeOK
    <3>9. Places' /\ \A x \in Offers : Finished(x) => Finished(x)'
      BY <1>1, <1>6, <3>7, PlacesKeep
    <3>10. OffersMade' /\ Present' /\ HandshakesApart' /\ Settled' /\ \A q \in Ids : Contacted(q)' <=> Contacted(q) \/ q = p
      BY <1>1, <1>4, <2>5, <3>1, <3>3, <3>8, <3>9, BeginsKeeps
    <3>11. NoneReturns'
      <4>1. ASSUME NEW i \in DOMAIN toPage', toPage'[i].type = "receivers", NEW a \in toPage'[i].ids, NEW b \in toPage'[i].ids
            PROVE  a < nextId' /\ a = b
        BY <1>1, <1>3, <1>4, <4>1 DEF NoneReturns
      <4>2. ASSUME NEW i \in DOMAIN toPage', toPage'[i].type = "left"
            PROVE  /\ toPage'[i].id < nextId' /\ receiver' # toPage'[i].id
                   /\ \A j \in DOMAIN toPage' : i < j /\ toPage'[j].type = "receivers" => toPage'[i].id \notin toPage'[j].ids
        <5>1. i + 1 \in DOMAIN toPage /\ toPage'[i] = toPage[i + 1]
          BY <1>3
        <5>2. ASSUME NEW j \in DOMAIN toPage', i < j, toPage'[j].type = "receivers" PROVE toPage'[i].id \notin toPage'[j].ids
          <6>1. j + 1 \in DOMAIN toPage /\ toPage'[j] = toPage[j + 1] /\ i + 1 < j + 1
            BY <1>3, <5>2
          <6> QED
            BY <1>1, <4>2, <5>1, <5>2, <6>1 DEF NoneReturns
        <5> QED
          BY <1>1, <1>4, <4>2, <5>1, <5>2 DEF NoneReturns
      <4>3. ASSUME page' = "on", NEW q \in Ids, Contacted(q)', pcs'[q] = Nobody
            PROVE  /\ receiver' # q /\ incoming'[q] = {}
                   /\ \A i \in DOMAIN toPage' : toPage'[i].type = "receivers" => q \notin toPage'[i].ids
        <5>1. q # p
          BY <1>1, <3>2, <3>3, <4>3 DEF BrowserTypeOK, Offers, Nobody
        <5>2. Contacted(q) /\ pcs[q] = Nobody
          BY <1>1, <3>2, <3>10, <4>3, <5>1 DEF BrowserTypeOK
        <5>3. receiver # q /\ incoming[q] = {} /\ \A i \in DOMAIN toPage : toPage[i].type = "receivers" => q \notin toPage[i].ids
          BY <1>1, <1>7, <5>2 DEF NoneReturns
        <5> QED
          BY <1>3, <1>4, <3>2, <5>3
      <4> QED
        BY <1>1, <1>4, <2>2, <3>10, <4>1, <4>2, <4>3 DEF NoneReturns
    <3>12. Listed'
      <4>1. \A q \in peers' : pcs'[q] # Nobody
        BY <1>1, <1>2, <1>3, <1>7, <2>2, <3>2, <3>3 DEF Listed, BrowserTypeOK, Offers, Nobody
      <4> QED
        BY <1>2, <1>7, <4>1, ListMade
    <3> QED
      BY <3>7, <3>9, <3>10, <3>11, <3>12 DEF PeersInv
  <2> QED
    BY <2>4, <2>5
<1> QED
  BY <1>9, <1>10
\* Only a connection whose handshake is done is replaced: it is the one that shows as online.
LEMMA Reconnects ==
  ASSUME PeersInv, NEW p \in Ids, page = "on", shown[p] = "online", target' = p,
         connects < MaxConnects, connects' = connects + 1, Become(Init2(Cleanup(p), p)), peers' = peers, Emit,
         UNCHANGED <<hub, page, failures, toPage, toReceiver, recv>>
  PROVE  PeersInv'
<1>1. BrowserTypeOK /\ OffersMade /\ Present /\ HandshakesApart /\ Listed /\ Places /\ Settled /\ NoneReturns
  BY DEF PeersInv
<1>2. UNCHANGED <<nextId, receiver, me, zombie, rpcs, answering, alive>>
  BY DEF hub, recv
<1>3. p \in peers /\ Status(p) = "online" /\ pcs[p] # Nobody
  BY <1>1 DEF Listed
<1>4. pcs[p] \in Offers /\ link[pcs[p]].peer = p
  BY <1>1, <1>3 DEF BrowserTypeOK, Present
<1>5. link[pcs[p]].ice = "connected"
  BY <1>1, <1>3, <1>4, LinkIs DEF Status
<1>6. Finished(pcs[p]) /\ Contacted(p)
  BY <1>1, <1>4, <1>5 DEF Present, Settled, Contacted
<1>7. nextOffer \in Offers /\ nextOffer <= connects' + Cardinality({q \in Ids : Contacted(q) \/ q = p})
  BY <1>1, <1>6, OffersLeft
<1>8. PICK m : m = Cleanup(p)
  OBVIOUS
<1>9. /\ m.link \in [Offers -> Link]
      /\ \A x \in Offers : m.link[x] = IF pcs[p] = x THEN Shut(link[x]) ELSE link[x]
      /\ m.pcs \in [Ids -> Offers \cup {Nobody}] /\ m.dcs \in [Ids -> Offers \cup {Nobody}]
      /\ m.sent \subseteq Ids /\ m.out \in [Ids -> SUBSET Offers] /\ m.in \in [Ids -> SUBSET Offers]
      /\ m.pcs = [pcs EXCEPT ![p] = Nobody] /\ m.dcs = [dcs EXCEPT ![p] = Nobody]
      /\ m.in = [incoming EXCEPT ![p] = {}] /\ m.next = nextOffer
  BY <1>1, <1>8, CleanupIs
<1>10. m = [link |-> m.link, pcs |-> m.pcs, dcs |-> m.dcs, sent |-> m.sent, out |-> m.out, in |-> m.in, next |-> m.next]
  BY <1>8 DEF Cleanup
<1>11. /\ link' = [m.link EXCEPT ![nextOffer] = Fresh(p)]
       /\ pcs' = [m.pcs EXCEPT ![p] = nextOffer] /\ dcs' = [m.dcs EXCEPT ![p] = nextOffer]
       /\ sent' = m.sent /\ outgoing' = m.out /\ incoming' = m.in /\ nextOffer' = nextOffer + 1
  <2>1. m.pcs[p] = Nobody
    BY <1>1, <1>9 DEF BrowserTypeOK
  <2>2. Become(Init2(m, p))
    BY <1>8
  <2>3. Init2(m, p) = [m EXCEPT !.pcs[p] = m.next, !.dcs[p] = m.next, !.next = @ + 1, !.link[m.next] = Fresh(p)]
    BY <2>1 DEF Init2, Fresh
  <2>4. /\ Init2(m, p).link = [m.link EXCEPT ![nextOffer] = Fresh(p)]
        /\ Init2(m, p).pcs = [m.pcs EXCEPT ![p] = nextOffer] /\ Init2(m, p).dcs = [m.dcs EXCEPT ![p] = nextOffer]
        /\ Init2(m, p).sent = m.sent /\ Init2(m, p).out = m.out /\ Init2(m, p).in = m.in
        /\ Init2(m, p).next = nextOffer + 1
    BY <1>9, <1>10, <2>3
  <2> QED
    BY <2>2, <2>4 DEF Become
<1>12. /\ link' \in [Offers -> Link]
       /\ \A x \in Offers : link'[x] = IF x = nextOffer THEN Fresh(p) ELSE IF pcs[p] = x THEN Shut(link[x]) ELSE link[x]
  BY <1>7, <1>9, <1>11, FreshIs
<1>13. nextOffer' \in 1..(MaxConns + MaxConnects + 1) /\ connects' \in 0..MaxConnects
  BY <1>1, <1>7, <1>11, BrowserAssumption DEF Offers, BrowserAssumption, BrowserTypeOK
<1>14. pcs' \in [Ids -> Offers \cup {Nobody}] /\ dcs' \in [Ids -> Offers \cup {Nobody}]
  BY <1>7, <1>9, <1>11
<1>15. BrowserTypeOK'
  BY <1>1, <1>2, <1>9, <1>11, <1>12, <1>13, <1>14, EmitTypes DEF BrowserTypeOK
<1>16. PlacesStay(0, 0) /\ NewsStay(0)
  BY <1>1, <1>2, Same, NextIds DEF PlacesStay, NewsStay
<1>17. Places' /\ \A x \in Offers : Finished(x) => Finished(x)'
  BY <1>1, <1>15, <1>16, PlacesKeep
<1>18. Begins(p)
  <2>1. \A q \in Ids : /\ pcs'[q] = IF q = p THEN nextOffer ELSE pcs[q]
                       /\ dcs'[q] = IF q = p THEN nextOffer ELSE dcs[q]
                       /\ incoming'[q] \subseteq incoming[q]
    BY <1>1, <1>9, <1>11 DEF BrowserTypeOK
  <2>2. incoming'[p] = {}
    BY <1>1, <1>9, <1>11 DEF BrowserTypeOK
  <2> QED
    BY <1>7, <1>11, <1>12, <2>1, <2>2 DEF Begins
<1>19. OffersMade' /\ Present' /\ HandshakesApart' /\ Settled' /\ \A q \in Ids : Contacted(q)' <=> Contacted(q) \/ q = p
  BY <1>1, <1>3, <1>6, <1>7, <1>17, <1>18, BeginsKeeps
<1>20. LinksStay
  <2>1. \A q \in Ids : (pcs[q] # Nobody => pcs'[q] # Nobody) /\ incoming'[q] \subseteq incoming[q]
    BY <1>7, <1>18 DEF Begins, Offers, Nobody
  <2> QED
    BY <1>6, <1>19, <2>1 DEF LinksStay
<1>21. NoneReturns'
  BY <1>1, <1>15, <1>16, <1>20, NewsKeeps
<1>22. Listed'
  <2>1. \A q \in peers' : pcs'[q] # Nobody
    BY <1>1, <1>7, <1>18 DEF Listed, Begins, Offers, Nobody, BrowserTypeOK
  <2> QED
    BY <1>1, <1>2, <2>1, ListMade DEF Listed
<1> QED
  BY <1>15, <1>17, <1>19, <1>21, <1>22 DEF PeersInv

\* Nothing but the target, and whether the effect is due, changes.
LEMMA TargetMoves ==
  ASSUME PeersInv, target' \in Ids \cup {Nobody}, dirty' \in BOOLEAN,
         UNCHANGED <<client, shown, connects, hub, page, failures, toPage, toReceiver, recv>>
  PROVE  PeersInv'
<1>1. BrowserTypeOK /\ OffersMade /\ Present /\ HandshakesApart /\ Listed /\ Places /\ Settled /\ NoneReturns
  BY DEF PeersInv
<1>2. UNCHANGED <<nextId, receiver, me, zombie, rpcs, answering, alive, link, pcs, dcs, nextOffer, incoming, peers, sent, outgoing>>
  BY DEF hub, recv, client
<1>3. BrowserTypeOK'
  BY <1>1, <1>2 DEF BrowserTypeOK
<1>4. OffersMade' /\ Present' /\ HandshakesApart' /\ LinksStay
  BY <1>1, <1>2, ClientStays
<1>5. PlacesStay(0, 0) /\ NewsStay(0)
  BY <1>1, <1>2, Same, NextIds DEF PlacesStay, NewsStay
<1>6. Places' /\ \A x \in Offers : Finished(x) => Finished(x)'
  BY <1>1, <1>3, <1>5, PlacesKeep
<1>7. Settled' /\ NoneReturns'
  BY <1>1, <1>2, <1>3, <1>4, <1>5, <1>6, SettledStays, NewsKeeps
<1>8. Listed'
  BY <1>1, <1>2, ListStays DEF Listed
<1> QED
  BY <1>3, <1>4, <1>6, <1>7, <1>8 DEF PeersInv

LEMMA RetargetKeeps == ASSUME PeersInv, Retarget \/ \E p \in Ids : Select(p) PROVE PeersInv'
<1>1. UNCHANGED <<hub, page, failures, toPage, toReceiver, recv>> /\ page = "on"
  BY DEF Retarget, Select
<1>2. target \in Ids \cup {Nobody} /\ Receivers \subseteq Ids
  BY DEF PeersInv, BrowserTypeOK, Receivers
<1>3. ASSUME NEW p \in Ids, shown[p] = "online", target' = p, ConnectToPeer(p) PROVE PeersInv'
  <2>1. CASE UNCHANGED <<client, shown, connects>> /\ dirty' = FALSE
    BY <1>1, <1>3, <2>1, TargetMoves
  <2>2. CASE /\ connects < MaxConnects /\ connects' = connects + 1
             /\ Become(Init2(Cleanup(p), p)) /\ UNCHANGED peers /\ Emit
    BY <1>1, <1>3, <2>2, Reconnects
  <2> QED
    BY <1>3, <2>1, <2>2 DEF ConnectToPeer
<1>4. CASE Retarget
  <2>1. CASE target' \in {target, Nobody} /\ dirty' = FALSE /\ UNCHANGED <<client, shown, connects>>
    BY <1>1, <1>2, <2>1, TargetMoves
  <2>2. CASE \E p \in Receivers : target' = p /\ shown[p] = "online" /\ ConnectToPeer(p)
    BY <1>2, <1>3, <2>2
  <2>3. CASE \E p \in Receivers : target' = p /\ dirty' = FALSE /\ UNCHANGED <<client, shown, connects>>
    BY <1>1, <1>2, <2>3, TargetMoves
  <2> QED
    BY <1>4, <2>1, <2>2, <2>3 DEF Retarget
<1>5. ASSUME NEW p \in Ids, Select(p) PROVE PeersInv'
  <2>1. CASE shown[p] = "online"
    BY <1>3, <1>5, <2>1 DEF Select
  <2>2. CASE shown[p] # "online"
    <3>1. dirty' = dirty /\ dirty \in BOOLEAN
      BY <1>5, <2>2 DEF Select, PeersInv, BrowserTypeOK
    <3> QED
      BY <1>1, <1>5, <2>2, <3>1, TargetMoves DEF Select
  <2> QED
    BY <2>1, <2>2
<1> QED
  BY <1>4, <1>5

LEMMA PeersBegin == BrowserInit => PeersInv
<1> SUFFICES ASSUME BrowserInit PROVE PeersInv
  OBVIOUS
<1>1. /\ MaxConns \in Nat /\ MaxConnects \in Nat
  BY BrowserAssumption DEF BrowserAssumption
<1>2. \A g \in Offers : link[g] = NoLink
  BY DEF BrowserInit
<1>3. NoLink \in Link
  BY DEF NoLink, Link
<1>4. BrowserTypeOK
  <2>1. /\ nextId \in 1..(MaxConns + 1) /\ nextOffer \in 1..(MaxConns + MaxConnects + 1) /\ connects \in 0..MaxConnects
    BY <1>1 DEF BrowserInit
  <2>2. toPage \in Seq(Msg) /\ toReceiver \in Seq(Msg)
    BY DEF BrowserInit
  <2>3. link \in [Offers -> Link]
    BY <1>3 DEF BrowserInit
  <2>4. /\ pcs \in [Ids -> Offers \cup {Nobody}] /\ dcs \in [Ids -> Offers \cup {Nobody}]
        /\ rpcs \in [Ids -> Offers \cup {Nobody}]
        /\ outgoing \in [Ids -> SUBSET Offers] /\ incoming \in [Ids -> SUBSET Offers]
        /\ shown \in [Ids -> {"absent", "online", "connecting", "p2p", "failed"}]
    BY DEF BrowserInit
  <2>5. {receiver, me, zombie, target} \subseteq Ids \cup {Nobody} /\ page \in {"on", "off"} /\ dirty \in BOOLEAN
    BY DEF BrowserInit
  <2>6. failures \in 0..1
    BY DEF BrowserInit
  <2>7. peers \subseteq Ids /\ sent \subseteq Ids /\ answering \subseteq Offers /\ alive \subseteq Offers
    BY DEF BrowserInit
  <2> QED
    BY <2>1, <2>2, <2>3, <2>4, <2>5, <2>6, <2>7 DEF BrowserTypeOK
<1>5. \A p \in Ids : ~Contacted(p)
  BY <1>2, NoLinkIs DEF Contacted, Ids, Nobody
<1>6. OffersMade
  <2>1. {p \in Ids : Contacted(p)} = {}
    BY <1>5
  <2>2. Cardinality({p \in Ids : Contacted(p)}) = 0
    BY <2>1, FS_EmptySet
  <2>3. nextOffer = 1 /\ connects = 0 /\ \A g \in Offers : ~(g < nextOffer)
    BY DEF BrowserInit, Offers
  <2> QED
    BY <1>2, <2>2, <2>3, NoLinkIs DEF BrowserInit, OffersMade, Nobody
<1>7. Present
  <2>1. \A p \in Ids : pcs[p] = Nobody /\ dcs[p] = Nobody
    BY DEF BrowserInit
  <2> QED
    BY <1>2, <2>1, NoLinkIs DEF Present
<1>8. DOMAIN toPage = {} /\ DOMAIN toReceiver = {} /\ answering = {}
  BY DEF BrowserInit
<1>9. Places /\ \A h : Finished(h)
  BY <1>8 DEF Places, Finished, Offered, Told
<1>10. Settled
  BY <1>9 DEF Settled, BrowserInit
<1>11. HandshakesApart
  BY <1>2, NoLinkIs DEF HandshakesApart
<1>12. NoneReturns
  BY <1>5, <1>8 DEF NoneReturns, BrowserInit, Nobody
<1>13. Listed
  BY DEF Listed, BrowserInit
<1> QED
  BY <1>4, <1>6, <1>7, <1>9, <1>10, <1>11, <1>12, <1>13 DEF PeersInv

LEMMA PeersStep == ASSUME PeersInv, [BrowserNext]_bvars PROVE PeersInv'
<1>1. CASE UNCHANGED bvars
  <2>1. /\ target' \in Ids \cup {Nobody} /\ dirty' \in BOOLEAN
        /\ UNCHANGED <<client, shown, connects, hub, page, failures, toPage, toReceiver, recv>>
    BY <1>1 DEF bvars, ui, PeersInv, BrowserTypeOK
  <2> QED
    BY <2>1, TargetMoves
<1>2. CASE PageConnects \/ PageRefused \/ PageRejected \/ PageDrops \/ ZombieEvicted \/ ReceiverJoins \/ ReceiverLeaves
  BY <1>2, PageSocketKeeps, DisconnectKeeps, ReceiverJoinsKeeps, ReceiverLeavesKeeps
<1>3. CASE ReadMessage
  BY <1>3, ReadWelcomeKeeps, ReadReceiversKeeps, ReadLeftKeeps, ReadAnswerKeeps, ReadIceKeeps DEF ReadMessage
<1>4. CASE ReadAtReceiver
  BY <1>4, ReadOfferKeeps, ReceiverReadsKeeps DEF ReadAtReceiver
<1>5. ASSUME NEW g \in Offers, Progress(g) \/ Candidate(g) \/ IceConnects(g) \/ IceFails(g) \/ ChannelOpens(g) \/ ChannelCloses(g)
      PROVE  PeersInv'
  BY <1>5, SendOfferKeeps, SendAnswerKeeps, CandidateKeeps, IceKeeps, ChannelClosesKeeps DEF Progress
<1>6. CASE Retarget \/ \E p \in Ids : Select(p)
  BY <1>6, RetargetKeeps
<1> QED
  BY <1>1, <1>2, <1>3, <1>4, <1>5, <1>6 DEF BrowserNext

\* However the page, the hub and the receiver come and go: the map holds the one
\* connection of each peer, and what it can still be sent is its own.
THEOREM PeersInvariant == BrowserSpec => []PeersInv
<1>1. BrowserInit => PeersInv
  BY PeersBegin
<1>2. PeersInv /\ [BrowserNext]_bvars => PeersInv'
  BY PeersStep
<1> QED
  BY <1>1, <1>2, PTL DEF BrowserSpec

\* No connection of the page takes an answer, a candidate or a channel of another
\* one with the same peer.
THEOREM PeersAreApart == BrowserSpec => []PeersApart
<1>1. PeersInv => PeersApart
  <2> SUFFICES ASSUME PeersInv PROVE PeersApart
    OBVIOUS
  <2>1. \A p \in Ids : pcs[p] # Nobody /\ link[pcs[p]].dc = "open" => dcs[p] = pcs[p]
    BY DEF PeersInv, Present, BrowserTypeOK
  <2> QED
    BY <2>1 DEF PeersInv, Present, PeersApart, ChannelCurrent
<1> QED
  BY <1>1, PeersInvariant, PTL

=============================================================================
