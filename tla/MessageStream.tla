------------------------------ MODULE MessageStream ------------------------------
(***************************************************************************)
(* The live stream of one channel in the SDK, dc.channel(x).stream(...)    *)
(* (sdk/dc.ts): the channel is resolved once; then the client connects to  *)
(* PocketBase's /api/realtime, learns its client id from the first event,  *)
(* subscribes with a second request while the stream is already open,      *)
(* hands the channel's messages to the callback and reconnects after an    *)
(* error, until close().  SSEDecoder cuts events out of chunks of any size *)
(* and with any of the three line ends.                                    *)
(***************************************************************************)
EXTENDS Naturals, FiniteSets, Sequences, Functions

CONSTANTS OwnMessages,    \* messages of the streamed channel
          OtherMessages,  \* of other channels, or of the channel's threads
          MaxConnects,    \* bound: connections
          MaxWritten      \* bound: messages written per connection


Hello == "PB_CONNECT"
Contents == OwnMessages \cup OtherMessages \cup {Hello}
LineEnds == {<<"LF">>, <<"CR", "LF">>, <<"CR">>}

ASSUME MessageStreamAssumption ==
  /\ MaxConnects \in Nat /\ MaxWritten \in Nat
  /\ {Hello, "event", "LF", "CR"} \cap (OwnMessages \cup OtherMessages) = {}

VARIABLES client,   \* the loop of stream()
          closed,   \* close() has been called
          decoder,  \* what SSEDecoder holds
          todo,     \* events of the last chunk, not handled yet
          wire,     \* characters written by the server and not read yet
          feedOf,   \* the server's side of the connection
          got,      \* messages handed to the callback in this connection
          connects

streamVars == <<client, closed, decoder, todo, wire, feedOf, got, connects>>

NoFeed == [end |-> <<"LF">>, subscribed |-> FALSE, sent |-> <<>>, count |-> 0]

StreamTypeOK ==
  /\ client.stage \in {"resolve", "connect", "reading", "subscribing", "waiting", "ended"}
  /\ client.ready \in {"pending", "yes", "no"} /\ {client.connected, client.subscribed, closed} \subseteq BOOLEAN
  /\ Range(todo) \subseteq Contents /\ Range(got) \subseteq OwnMessages
  /\ feedOf.end \in LineEnds /\ feedOf.count \in 0..MaxWritten /\ connects \in 0..MaxConnects

StreamInit ==
  /\ client = [stage |-> "resolve", ready |-> "pending", connected |-> FALSE, subscribed |-> FALSE]
  /\ closed = FALSE /\ decoder = <<>> /\ todo = <<>> /\ wire = <<>>
  /\ feedOf = NoFeed /\ got = <<>> /\ connects = 0

-----------------------------------------------------------------------------
\* SSEDecoder.

\* The elements of s that are in S, in their order.
Only(s, S) ==
  LET upTo[k \in 0..Len(s)] ==
        IF k = 0 THEN <<>> ELSE IF s[k] \in S THEN Append(upTo[k - 1], s[k]) ELSE upTo[k - 1]
  IN  upTo[Len(s)]

\* Mutant: a CR at the end is a line end at once.
PieceAtOnce(b, i) ==
  IF b[i] # "CR" THEN <<b[i]>> ELSE IF i < Len(b) /\ b[i + 1] = "LF" THEN <<>> ELSE <<"LF">>
\* CRLF and CR become LF; a CR at the end may be half of a CRLF and waits.
Piece(b, i) ==
  IF b[i] # "CR" \/ i = Len(b) THEN <<b[i]>> ELSE IF b[i + 1] = "LF" THEN <<>> ELSE <<"LF">>
Normal(b) ==
  LET upTo[k \in 0..Len(b)] == IF k = 0 THEN <<>> ELSE upTo[k - 1] \o Piece(b, k)
  IN  upTo[Len(b)]

\* A block ends with an empty line.  An event has a line that names it and data;
\* what has no name is not one of PocketBase's.  The archive panel has the same
\* decoder (panel.js).
EndsBlock(block) == Len(block) > 1 /\ block[Len(block)] = "LF" /\ block[Len(block) - 1] = "LF"
EventOf(block) == IF "event" \in Range(block) THEN Only(block, Contents) ELSE <<>>

Cut(acc, char) ==
  LET block == Append(acc.rest, char) IN
  IF EndsBlock(block) THEN [events |-> acc.events \o EventOf(block), rest |-> <<>>]
  ELSE [acc EXCEPT !.rest = block]
Blocks(text) ==
  LET upTo[k \in 0..Len(text)] ==
        IF k = 0 THEN [events |-> <<>>, rest |-> <<>>] ELSE Cut(upTo[k - 1], text[k])
  IN  upTo[Len(text)]
Feed(buffer, chunk) == Blocks(Normal(buffer \o chunk))

-----------------------------------------------------------------------------
\* The client.

ToStage(stage) == client' = [client EXCEPT !.stage = stage]

\* Mutant: a refusal ends the stream at any time.
FatalAlways(refused) == refused
\* HTTP 400, 401, 403 or 404 ends a stream that never was connected.
Fatal(refused) == refused /\ ~client.connected

\* The loop's catch: the error ends the stream or is followed by the pause.
ConnectionFails(refused) ==
  /\ client' = [client EXCEPT !.stage = IF closed \/ Fatal(refused) THEN "ended" ELSE "waiting",
                              !.ready = IF ~closed /\ Fatal(refused) THEN "no" ELSE @]
  /\ decoder' = <<>> /\ todo' = <<>> /\ wire' = <<>> /\ feedOf' = NoFeed /\ got' = <<>>
  /\ UNCHANGED <<closed, connects>>

\* read?limit=1 names the channel; it is not aborted by close().
ResolveTarget(found) ==
  /\ client.stage = "resolve"
  /\ client' = [client EXCEPT !.stage = IF found /\ ~closed THEN "connect" ELSE "ended",
                              !.ready = IF found THEN @ ELSE "no"]
  /\ UNCHANGED <<closed, decoder, todo, wire, feedOf, got, connects>>

EventChars(content, end) == <<"event">> \o end \o <<content>> \o end \o end

Connect(end) ==
  /\ client.stage = "connect" /\ ~closed /\ connects < MaxConnects /\ connects' = connects + 1
  /\ client' = [client EXCEPT !.stage = "reading", !.subscribed = FALSE]
  /\ feedOf' = [NoFeed EXCEPT !.end = end] /\ wire' = EventChars(Hello, end)
  /\ decoder' = <<>> /\ todo' = <<>> /\ got' = <<>> /\ UNCHANGED closed

ConnectFails(refused) == client.stage = "connect" /\ ConnectionFails(refused)

ReadChunk(n) ==
  /\ client.stage = "reading" /\ todo = <<>> /\ ~closed
  /\ LET fed == Feed(decoder, SubSeq(wire, 1, n)) IN decoder' = fed.rest /\ todo' = fed.events
  /\ wire' = SubSeq(wire, n + 1, Len(wire))
  /\ UNCHANGED <<client, closed, feedOf, got, connects>>

\* The next event of the chunk; the callback may call close(), which does not
\* keep the rest of the chunk from it.
HandleEvent ==
  /\ client.stage = "reading" /\ todo # <<>> /\ todo' = Tail(todo)
  /\ IF Head(todo) = Hello THEN ToStage("subscribing") /\ UNCHANGED got
     ELSE /\ got' = IF client.subscribed /\ Head(todo) \in OwnMessages THEN Append(got, Head(todo)) ELSE got
          /\ UNCHANGED client
  /\ UNCHANGED <<closed, decoder, wire, feedOf, connects>>

SubscribeAnswered ==
  /\ client.stage = "subscribing" /\ feedOf.subscribed /\ ~closed
  /\ client' = [client EXCEPT !.stage = "reading", !.subscribed = TRUE, !.connected = TRUE,
                              !.ready = IF client.connected THEN @ ELSE "yes"]
  /\ UNCHANGED <<closed, decoder, todo, wire, feedOf, got, connects>>

SubscribeFails(refused) == client.stage = "subscribing" /\ (refused => ~feedOf.subscribed) /\ ConnectionFails(refused)

\* The stream ends or breaks, or the wait for it is cancelled by close().
StreamEnds == client.stage = "reading" /\ todo = <<>> /\ ConnectionFails(FALSE)

PauseEnds ==
  /\ client.stage = "waiting" /\ ToStage(IF closed THEN "ended" ELSE "connect")
  /\ UNCHANGED <<closed, decoder, todo, wire, feedOf, got, connects>>

CloseStream ==
  /\ ~closed /\ client.stage # "ended" /\ closed' = TRUE
  /\ UNCHANGED <<client, decoder, todo, wire, feedOf, got, connects>>

-----------------------------------------------------------------------------
\* The server takes the subscription, and from then on writes every record event
\* of discord_messages to the stream.
ServerSubscribes ==
  /\ client.stage = "subscribing" /\ ~feedOf.subscribed
  /\ feedOf' = [feedOf EXCEPT !.subscribed = TRUE]
  /\ UNCHANGED <<client, closed, decoder, todo, wire, got, connects>>

ServerWrites(m) ==
  /\ feedOf.subscribed /\ feedOf.count < MaxWritten
  /\ feedOf' = [feedOf EXCEPT !.count = @ + 1, !.sent = IF m \in OwnMessages THEN Append(@, m) ELSE @]
  /\ wire' = wire \o EventChars(m, feedOf.end)
  /\ UNCHANGED <<client, closed, decoder, todo, got, connects>>

StreamNext ==
  \/ \E found \in BOOLEAN : ResolveTarget(found)
  \/ \E end \in LineEnds : Connect(end)
  \/ \E refused \in BOOLEAN : ConnectFails(refused) \/ SubscribeFails(refused)
  \/ \E n \in 1..Len(wire) : ReadChunk(n)
  \/ HandleEvent \/ SubscribeAnswered \/ StreamEnds \/ PauseEnds \/ CloseStream
  \/ ServerSubscribes \/ \E m \in OwnMessages \cup OtherMessages : ServerWrites(m)

StreamSpec == StreamInit /\ [][StreamNext]_streamVars

-----------------------------------------------------------------------------
\* sdk/dc.ts: while a connection lasts, every message of the channel that the
\* server writes after it took the subscription reaches the callback once and in
\* order, though the first of them may come before the answer to the subscription
\* and a chunk may end anywhere, between the halves of a line end too: what was
\* handed over, what waits in the chunk, and what decoder and wire still hold (the
\* next event lets a last CR go) are all that was sent.
Own(events) == Only(events, OwnMessages)
NothingLost ==
  feedOf.subscribed => got \o Own(todo) \o Own(Feed(decoder, Append(wire, "event")).events) = feedOf.sent

\* "After a disconnect the SDK reconnects" (sdk/README.md): once it was connected
\* only close() ends the stream, however a later connection or subscription is
\* answered; and `ready` says whether it ever was.
OnlyCloseEnds ==
  /\ client.stage = "ended" /\ ~closed => ~client.connected /\ client.ready = "no"
  /\ client.connected <=> client.ready = "yes"

\* The stream of the SDK loses nothing while connected and ends by close() alone
\* (SSEDecoder.feed, stream).
StreamTrue == StreamTypeOK /\ NothingLost /\ OnlyCloseEnds

=============================================================================
