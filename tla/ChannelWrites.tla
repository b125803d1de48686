------------------------------ MODULE ChannelWrites ------------------------------
(***************************************************************************)
(* Writing to Discord through the archive: post, thread, pin and archive,  *)
(* and the question whether one of them is allowed (220_dc.pb.js, with     *)
(* resolveEntity, assertWritePolicy and discord of lib/dc_api.js).  A      *)
(* request names its channel by id or by name; the rows, the declared      *)
(* model and the options are read one after the other while names and the  *)
(* model change; a write is one Discord call or two.                       *)
(*                                                                         *)
(* All rows fit one page (500) of entityRows.  Bodies are well formed.     *)
(***************************************************************************)
EXTENDS Naturals, FiniteSets, Sequences

CONSTANTS TextChannels, Forums, ThreadRooms,
          MissingModel, BrokenModel,  \* no dc.config.yaml, and one that does not validate
          Models,      \* what a valid dc.config.yaml may grant: sets of <<verb, channel>>
          Writes,      \* requests
          MaxChanges,  \* bound: channels renamed and models edited
          MaxFailures  \* bound: Discord calls refused or unanswered

WriteChannels == TextChannels \cup Forums \cup ThreadRooms
Verbs == {"post", "thread", "pin", "archive"}

ASSUME ChannelWritesAssumption ==
  /\ \A m \in Models : m \subseteq Verbs \X WriteChannels
  /\ MaxChanges \in Nat /\ MaxFailures \in Nat

\* "dev", "DEV" and "dev-x": names that match exactly, without case or in part.
ChannelName == {[upper |-> FALSE, longer |-> FALSE], [upper |-> TRUE, longer |-> FALSE],
                [upper |-> FALSE, longer |-> TRUE]}
Query == WriteChannels \cup ChannelName

VARIABLES title,    \* the channels' names in discord_entities
          model,    \* dc.config.yaml: missing, broken, or what it grants
          options,  \* options.json, written when the add-on starts
          write,    \* per request, where it is
          effects,  \* per request, what it has done at Discord, in order
          moments,  \* history, per request: the names and models since it came
          changes, failures

writeVars == <<title, model, options, write, effects, moments, changes, failures>>

NoWrite == [stage |-> "none", lost |-> FALSE]
Unresolved == [stage |-> "over", answer |-> "unresolved", lost |-> FALSE]

ChannelWritesTypeOK ==
  /\ title \in [WriteChannels -> ChannelName] /\ model \in Models \cup {MissingModel, BrokenModel}
  /\ options \in [allow_post: BOOLEAN, post_channels: SUBSET Query]
  /\ \A w \in Writes : write[w].stage \in {"none", "rows", "model", "call", "over"}
  /\ changes \in 0..MaxChanges /\ failures \in 0..MaxFailures

ChannelWritesInit ==
  /\ title \in [WriteChannels -> ChannelName] /\ model \in Models \cup {MissingModel, BrokenModel}
  /\ options \in [allow_post: BOOLEAN, post_channels: {s \in SUBSET Query : Cardinality(s) <= 1}]
  /\ write = [w \in Writes |-> NoWrite] /\ effects = [w \in Writes |-> <<>>]
  /\ moments = [w \in Writes |-> [titles |-> {}, models |-> {}]]
  /\ changes = 0 /\ failures = 0

-----------------------------------------------------------------------------
\* resolveEntity: an id, or else the tier of an exact, a folded or a partial match
\* that is met first.

Spelling(t, q) == t = q
Folded(t, q) == t.longer = q.longer
PartialMatch(t, q) == q.longer => t.longer

Candidates(rows, q, kind) ==
  IF q \in WriteChannels THEN kind \cap {q}
  ELSE LET exact == {c \in kind : Spelling(rows[c], q)}
           folded == {c \in kind : Folded(rows[c], q)}
       IN  IF exact # {} THEN exact
           ELSE IF folded # {} THEN folded ELSE {c \in kind : PartialMatch(rows[c], q)}

Resolves(rows, q, kind, c) == Candidates(rows, q, kind) = {c}

Kinds(verb) == CASE verb = "thread"  -> TextChannels \cup Forums
                 [] verb = "archive" -> ThreadRooms
                 [] OTHER            -> WriteChannels

\* allowedToWrite: every entry of post_channels must name one channel.
ByOptions(rows, c) ==
  /\ options.allow_post
  /\ \A q \in options.post_channels : \E d \in WriteChannels : Resolves(rows, q, WriteChannels, d)
  /\ \E q \in options.post_channels : Resolves(rows, q, WriteChannels, c)

\* Mutant: a model that cannot be read counts for none.
AllowedUnlessRead(rows, m, verb, c) ==
  IF m \in {MissingModel, BrokenModel} THEN ByOptions(rows, c) ELSE <<verb, c>> \in m
\* assertWritePolicy.
Allowed(rows, m, verb, c) ==
  IF m = MissingModel THEN ByOptions(rows, c) ELSE m # BrokenModel /\ <<verb, c>> \in m

-----------------------------------------------------------------------------
\* A request.

\* The Discord calls that make up a write.
DiscordCalls(verb, c) ==
  CASE verb = "post"    -> <<"message">>
    [] verb = "thread"  -> IF c \in Forums THEN <<"thread">> ELSE <<"message", "thread">>
    [] verb = "pin"     -> <<"look", "pin">>
    [] verb = "archive" -> <<"archive">>

Answer(w, answer) == write' = [write EXCEPT ![w].stage = "over", ![w].answer = answer]

\* entityRows, and resolveEntity of the path's channel.
ResolveChannel(w, verb, q, asks) ==
  /\ write[w].stage = "none"
  /\ LET kind == IF asks THEN WriteChannels ELSE Kinds(verb)
     IN \/ \E c \in kind :
             /\ Resolves(title, q, kind, c)
             /\ write' = [write EXCEPT ![w] =
                            [stage |-> "model", verb |-> verb, query |-> q, asks |-> asks, rows |-> title,
                             channel |-> c, todo |-> <<>>, answer |-> "none", lost |-> FALSE]]
        \/ /\ ~\E c \in kind : Resolves(title, q, kind, c)
           /\ write' = [write EXCEPT ![w] = Unresolved]
  /\ UNCHANGED <<title, model, options, effects, changes, failures>>

\* getModel, the options, and the policy they make.
CheckPolicy(w) ==
  /\ write[w].stage = "model"
  /\ LET r == write[w]
         allowed == Allowed(r.rows, model, r.verb, r.channel)
     IN IF allowed /\ ~r.asks
        THEN write' = [write EXCEPT ![w].stage = "call", ![w].todo = DiscordCalls(r.verb, r.channel)]
        ELSE Answer(w, IF allowed THEN "allowed" ELSE "denied")
  /\ UNCHANGED <<title, model, options, effects, changes, failures>>

\* The next call is done at Discord; its answer may be lost.
CallTaken(w, answered) ==
  /\ write[w].stage = "call"
  /\ LET r == write[w]
         rest == Tail(r.todo)
         done == [what |-> Head(r.todo), channel |-> r.channel]
     IN /\ effects' = IF Head(r.todo) = "look" THEN effects
                      ELSE [effects EXCEPT ![w] = Append(@, done)]
        /\ IF answered
           THEN /\ IF rest = <<>> THEN Answer(w, "done") ELSE write' = [write EXCEPT ![w].todo = rest]
                /\ UNCHANGED failures
           ELSE /\ failures < MaxFailures /\ failures' = failures + 1
                /\ write' = [write EXCEPT ![w].stage = "over", ![w].answer = "failed", ![w].lost = TRUE]
  /\ UNCHANGED <<title, model, options, changes>>

\* Mutant: a refused call is passed over.
CallRefusedGoesOn(w) ==
  /\ write[w].stage = "call" /\ failures < MaxFailures /\ failures' = failures + 1
  /\ LET rest == Tail(write[w].todo)
     IN  IF rest = <<>> THEN Answer(w, "done") ELSE write' = [write EXCEPT ![w].todo = rest]
  /\ UNCHANGED <<title, model, options, effects, changes>>
\* Discord refuses a call, or the message is not of this channel.
CallRefused(w) ==
  /\ write[w].stage = "call" /\ failures < MaxFailures /\ failures' = failures + 1
  /\ Answer(w, "failed")
  /\ UNCHANGED <<title, model, options, effects, changes>>

\* A channel is renamed at Discord and the gateway stores its new name.
RenameChannel(c, t) ==
  /\ changes < MaxChanges /\ changes' = changes + 1 /\ title[c] # t
  /\ title' = [title EXCEPT ![c] = t]
  /\ UNCHANGED <<model, options, write, effects, failures>>

\* dc.config.yaml is saved, removed or broken.
EditModel(m) ==
  /\ changes < MaxChanges /\ changes' = changes + 1 /\ m # model
  /\ model' = m /\ UNCHANGED <<title, options, write, effects, failures>>

WriteStep ==
  \/ \E w \in Writes, verb \in Verbs, q \in Query, asks \in BOOLEAN : ResolveChannel(w, verb, q, asks)
  \/ \E w \in Writes : CheckPolicy(w) \/ CallRefused(w) \/ \E answered \in BOOLEAN : CallTaken(w, answered)
  \/ \E c \in WriteChannels, t \in ChannelName : RenameChannel(c, t)
  \/ \E m \in Models \cup {MissingModel, BrokenModel} : EditModel(m)

Under(w) == write[w].stage \in {"model", "call"}
WriteWitness ==
  moments' = [w \in Writes |->
    IF write[w].stage = "none" \/ Under(w)
    THEN [titles |-> (IF Under(w) THEN moments[w].titles ELSE {}) \cup {title, title'},
          models |-> (IF Under(w) THEN moments[w].models ELSE {}) \cup {model, model'}]
    ELSE moments[w]]

ChannelWritesNext == WriteStep /\ WriteWitness

ChannelWritesSpec == ChannelWritesInit /\ [][ChannelWritesNext]_writeVars

-----------------------------------------------------------------------------
\* README.md, "Authorization and write policy": without a model the target must be
\* in post_channels by its id or an unambiguous name; a model that is there wins
\* over the options, and an invalid one fails closed.  Whatever reaches Discord
\* goes to the only channel that the request meant under the names of some moment
\* since it came, and is granted by the policy of some moment since.
Best(t, q) == IF t = q THEN 3 ELSE IF t.longer = q.longer THEN 2 ELSE IF t.longer \/ ~q.longer THEN 1 ELSE 0
Means(rows, q, kind, c) ==
  /\ c \in kind
  /\ \/ c = q
     \/ q \notin WriteChannels /\ Best(rows[c], q) > 0 /\ \A d \in kind \ {c} : Best(rows[d], q) < Best(rows[c], q)

WrittenAllowed ==
  \A w \in Writes : \A i \in DOMAIN effects[w] :
    LET r == write[w]
        c == effects[w][i].channel
    IN  \E rows \in moments[w].titles, m \in moments[w].models :
          /\ Means(rows, r.query, Kinds(r.verb), c)
          /\ \/ m \in Models /\ <<r.verb, c>> \in m
             \/ /\ m = MissingModel /\ options.allow_post
                /\ \E q \in options.post_channels : Means(rows, q, WriteChannels, c)

\* README.md: the two requests of a thread are "not an atomic transaction; failures
\* are surfaced and writes are never automatically retried".  A success means that
\* every call was done once and in that channel; a failure whose Discord answers
\* all came has left nothing but a thread's starter message.
Whole(verb, c) ==
  CASE verb = "pin"                         -> <<"pin">>
    [] verb = "thread" /\ c \notin Forums  -> <<"message", "thread">>
    [] verb = "thread" /\ c \in Forums     -> <<"thread">>
    [] verb = "post"                        -> <<"message">>
    [] verb = "archive"                     -> <<"archive">>
In(c, whats) == [i \in DOMAIN whats |-> [what |-> whats[i], channel |-> c]]
AnswerTrue ==
  \A w \in Writes : write[w].stage = "over" =>
    LET r == write[w]
    IN  CASE r.answer = "done" -> effects[w] = In(r.channel, Whole(r.verb, r.channel))
          [] r.answer = "failed" ->
               \/ r.lost \/ effects[w] = <<>>
               \/ r.verb = "thread" /\ effects[w] = In(r.channel, <<"message">>)
          [] OTHER -> effects[w] = <<>>

\* A write goes where the request meant, by a policy in force, and its answer says
\* what came of it (resolveEntity, assertWritePolicy, discord).
WritesTrue == ChannelWritesTypeOK /\ WrittenAllowed /\ AnswerTrue

=============================================================================
