# A verification project for oracle-haos-factory

The repository is a collection of Home Assistant add-ons. Each add-on is a
program of its own in a numbered directory. They share no code and no state,
so this project is a set of specifications rather than one: every stateful
program core has a module, and modules are composed where components talk to
each other (sender and receiver of the p2p dropbox, page and server of the
same, page and server of the archive's viewers, jobs and queries of
`facebook_lance`).

Each module models the control of its component: every state change,
guard, early return and error path, in the order they happen. Data is reduced
to what the properties tell apart (a chunk is a token, a text is a version
number, a name is a model value). `PROJECT.json` maps every definition to the
source lines it stands for.

Contents:

1. [Inventory](#inventory)
2. [Modules](#modules): which models what, and how state and actions correspond to the code
3. [Runs](#runs): what each shows, the bounds, the fairness
4. [Where code and documentation disagree](#where-code-and-documentation-disagree)
5. [Proofs](#proofs)
6. [Not modelled](#not-modelled)
7. [Plan](#plan)

To check everything by hand: `tlc -config MC….cfg <module of the run>` for the
runs of `PROJECT.json`, `tlapm <module>_proofs.tla` for the proofs.

## Inventory

`src/` is the repository. Directories are relative to it.

### 10-p2p_dropbox: encrypted drop box over WebRTC

| part | state | operations | interacts with |
|---|---|---|---|
| receiver (`dropbox/transfer.ts`, `receiver.ts`) | per data channel an active transfer, a chain of finalizations; shared id claims, part files, published files, ledger | file-start, chunk, file-end, stream error, finalize, close, process exit | sender over a data channel; file system |
| sender (`dropbox/send.ts`) | the file in hand, its id, chunks sent, timers, outcome per file | open, send with back-pressure, await acknowledgement, time out, close | receiver |
| hub (`dropbox/signaling.ts`, `server.ts`) | rooms, peer records, names, last-seen times | connect, identify, relay, heartbeat, disconnect | peers over websockets |
| HTTP upload (`server.ts`, `web/src/lib/api.ts`) | one-upload flag, saved files by name | begin, read the body, reserve a name, answer | page, file system |
| log-in (`App.tsx`, `api.ts`, `Login.tsx`; `server.ts`, `ingress.ts`, `ha-admin.ts`) | the page's session, its view, the attempt under way; the cache of administrators and its pending lookup | connect, renew, fail, disconnect, type a key; verify a token, look up administrators | Home Assistant |
| browser peer (`web/src/lib/signaling.ts`, `ice.ts`, `Dropbox.tsx`) | maps of peer connections, channels and candidates; the target; the queue of dropped files | callbacks of hub and WebRTC; choose a target, connect, send a drop | hub, receiver, upload route |

Hard: finalization is asynchronous and queued while messages, closes and
errors keep arriving; channels share ids and the disk; the process may die
between rename and ledger entry; the sender gives up while an answer is under
way; half-open sockets keep names; either side of the page's connection may
come back under a new id; two drops share one channel and one upload slot;
answers arrive after the user has disconnected. Correct means: an acknowledged file is
there and whole, a refused one is not, bytes of files never mix, no claim or
part file leaks, names are unique in a room, nothing crosses rooms, a
silent peer is given up, the page's connections do not take each other's
messages, what the page reports is so, a session ends with its view, and no
role outlives the cache.

### 09-discord_pb: a Discord archive in PocketBase

| part | state | operations | interacts with |
|---|---|---|---|
| gateway listener (`gateway.py`) | session id, sequence, bounded queue, flags `_reconnect` and `_dispatch_blocked`, three threads | dial, hello, identify or resume, dispatch, heartbeat, reconnect, request a sweep | Discord, PocketBase |
| message archive (`pb_hooks/lib/discord_ingest.js`, `discord_live.js`) | rows with fetch time, edit time, tombstone, partial mark | upsert a page, apply a create, update or delete event | listener, backfill |
| backfill (`backfill.py`, `service.py`, hooks 210 and 220) | markers in `/data`, watermark file, import requests, selections | supervise, spawn, walk a channel page by page, finish requests | Discord, PocketBase |
| channel policy (`dc_model.py`, `dc_api.js`, `220_dc.pb.js`) | YAML model, its lock, checkbox table, cache of the compiled model, marker | tick, save a row, save the model, edit by hand, decide an event, sweep | archive, backfill |
| write routes (`220_dc.pb.js`, `dc_api.js`) | none of their own: rows, model and options read one after the other | post, thread, pin, archive, ask | Discord, channel policy |
| panel (`pb_public/panel.js`) | the list, its page, filter and generation; the realtime connection | load, turn pages, filter, reload after a subscription, apply an event | PocketBase |
| central timeline (`250_timeline.pb.js`, `dc_events.js`, `timeline.js`, `timeline-model.js`) | cursor, window, filter, list | load, older page, live row | PocketBase |
| room viewer and sidebars (`240_sidebar.pb.js`, `dc_sidebar.js`, `simple-tree.js`, `simple.js`, `tools/ha-sidebar.ts`) | shared preferences; one Home Assistant dashboard per server | list servers, build the tree, save preferences; sync, pin, hide, show, unpin | Home Assistant |
| SDK stream (`sdk/dc.ts`) | connection, decoder, subscription | resolve, connect, read a chunk, reconnect, close | PocketBase |
| admin accounts, archived threads, verification, command line | user records | synchronise administrators at start; single queries | Home Assistant |

Hard: three threads share the resume point; live events and REST pages race
for one row; a request must not be answered by a sweep that had passed its
channel; caches and locks around a file people also edit by hand; everything
restarts; pages of a list are read while rows are inserted, and live rows
arrive beside them; Home Assistant's dashboards are changed one request at a
time by runs that may die. Correct means: the resume point never skips an event, rows converge
to the message and do not go back, tombstones stay, a watermark never passes a
message that is not archived, every request is answered by a sweep of its
own, every decision is one the model gave while the event was handled, a write
goes where it meant under a policy in force, and what a reader shows is what
was asked for and complete.

### 05-facebook_lance: semantic archive of a Facebook export

| part | state | operations | interacts with |
|---|---|---|---|
| derived tables (`semantic.py`, `derived_state.py`, `store.py`, `rag.py`, `cli.py`) | canonical table, generation manifest, chunk, topic, point and document tables, staging and backup tables, advisory lock | import, semantic build, topic rebuild, retrieval documents | each other, through the lock and the manifest |
| retrieval query (`rag.py`) | what it has read | read manifest, tables and records without a lock; validate again | jobs |
| Studio server, embedding service, supervision (`server.py`, `embed_service.py`, `service.py`) | models loaded, child process | HTTP | the above |
| model files, normalisation, inventory | files on disk | download and verify; parse | |

Hard: a job may fail or die between any two steps, also between the renames
of a swap; readers take no lock. Correct means: what the manifest announces
is whole, current and of one version, an accepted answer was made from one
state of the archive, and embedded rows (which cost money) are kept for the
next attempt.

### 04-line_lance: LINE messages in LanceDB

`store.py` imports JSON pages that changed since the manifest and embeds rows
without a vector over a pool of endpoints, one worker thread each. State: the
page files, the message table, the import manifest, the vectors, the queue of
batches. Hard: a worker that fails returns its batch when others may have
left; a page is rewritten while it is imported. Correct means: no batch is
lost or done twice, a run without an error has embedded what it read, the
manifest never runs ahead of the rows. The registry of bots (`gateway/src/app.ts`, `control-db.ts`,
`frontend/src/pages/Bots.tsx`) keeps their credentials encrypted, in a table
and a key file; a credential belongs to the bot it was typed for and an
omitted one is kept. `app.py` and the rest of `frontend/` read and display.

### 02-mz_forwarder: MQTT to HTTP

`server.ts` keeps one MQTT connection, decodes frames out of arbitrary
chunks, and posts readings without waiting. State: buffer, connection,
keepalive timer, mapping, statistics. Hard: chunks cut frames anywhere,
connections end with a frame half read, posts answer in any order. Correct
means: frames are read once and in order, none waits for ever, and an allowlist is never a guess.

### The rest

`01-hello`, `03-echo` (examples), `03-kvm_monitor`, `08-kvm_status` (display
of host state), `06-fb_stream_ego` (a proxy), `07-digger_node`,
`09-digger_node_lance` (start-up of third-party binaries), `bin/new-addon.ts`
(a generator). They keep no state that two actors share.


## Modules

A module keeps the source's names where the source has one. Mutated
operators (their comments begin with "Mutant") are a plausible bug each; they
are not part of any specification and show that a property can fail.

| module | models | builds on |
|---|---|---|
| `TransferReceiver` | `TransferRegistry`, `ReceiverTransferSession` (`transfer.ts`), `onComplete` and exit of `receiver.ts`, with a peer that sends anything | |
| `P2PTransfer` | `sendFile` of `send.ts` in front of the receiver, over ordered channels that may close | `TransferReceiver` |
| `SendTarget` | a run of `send.ts`: list, choice, offer, files, exit code | |
| `SignalingHub` | `signaling.ts`, the websocket callbacks of `server.ts`, the peer's view in `receiver.ts` | |
| `BrowserPeer` | `SignalingClient` of the page, `ice.ts`, the target of `Dropbox.tsx`, the answering side of `receiver.ts` | |
| `DropQueue` | `handleFiles`, `sendViaDC`, `uploadFile` and the upload route of `server.ts` | |
| `IngressSession` | `App.tsx`, `api.ts`, `Login.tsx`, the log-in routes, `ingress.ts`, `ha-admin.ts` | |
| `GatewayListener` | `gateway.py` | |
| `MessageArchive` | `discord_ingest.js`, `discord_live.js` for one message | |
| `Backfill` | `backfill.py`, `service.py`, hooks 210 and 220 | |
| `ChannelPolicy` | `dc_model.py`, `dc_api.js`, hooks 120 and 220, `dispatch` of `discord_live.js` | |
| `ChannelWrites` | the write routes of hook 220 with `resolveEntity`, `assertWritePolicy` and `discord` of `dc_api.js` | |
| `ArchivePanel` | the message list of `panel.js` and its realtime loop | |
| `CentralTimeline` | hook 250, `dc_events.js`, `timeline.js`, `timeline-model.js` | |
| `RoomTree` | `buildSidebar`, `guildSummary` and the moves of `simple.js` | |
| `SidebarSync` | hook 240, `dc_sidebar.js`, `tools/ha-sidebar.ts` | |
| `MessageStream` | `stream()` and `SSEDecoder` of `sdk/dc.ts` | |
| `MqttForwarder` | connection, decoder and forwarding of `02-mz_forwarder/server.ts` | |
| `TopicFilter` | `topicMatches` and `resolveDbname` of the same file | |
| `LineArchive` | `import_pages` and `embed_messages` of `04-line_lance/store.py` | refines `EmbedPool` |
| `EmbedPool` | abstract: what `embed_messages` promises of a run | |
| `BotRegistry` | `Bots.tsx`, the routes of `app.ts`, `control-db.ts` with its key file | |
| `SemanticIndex` | the jobs of `semantic.py`, `store.py`, `rag.py` under the lock of `derived_state.py` | |
| `RagQuery` | `rag_query` beside those jobs | `SemanticIndex` |

`MC…` modules give bounds and workloads, `…_proofs` modules hold theorems.

### How state and actions correspond to the code

**TransferReceiver.** One action per message handler and per asynchronous
continuation. `HandleMessage` is `handleMessage` with all its early returns
(the receiver answers, aborts or starts); `Finalize` steps stand for the
promise chain (`flush`, rename, ledger append and answer) and interleave with
messages, closes and `error` events where the code awaits. From the rename to the
answer it does not (`Pausing`): no handler comes between, but the process may die
and the file is seen. `RecordFails` is an `onComplete` that throws, either in the
append or in the `log()` after it: the file is taken back and refused, its
ledger line, if written, stays. (A `log()` that throws in the `catch` block as
well ends the process, which is `Crash`. Unlinks are taken to succeed.)
`StreamFails` is a failed open, which leaves no part file, or a failed write,
for which there must be a chunk. A path is a number:
`uniquePath` puts the millisecond and the id in the name. A chunk is a token,
so sizes count chunks. `Crash` is the exit of the process: what is on disk
stays, all else is gone.

**P2PTransfer.** One channel is one run of `send.ts`. `sender`, `sending` and
`outcome` are the control of `sendFile` and its promise; `toRecv` holds what is
buffered or in flight, in order. Timers are nondeterministic: a stall or an
acknowledgement timeout may come whenever it is armed. A chunk names its
channel, file and position, so mixed or foreign bytes show. `Lose` closes a
channel with what is in flight.

**SendTarget.** One run. `online` is the room by name and connection, `listed`
the list the hub answered with, `chosen` the receiver with the id it had
there: a peer that leaves and joins again has another. What becomes of a file
is `SendFile`, one step (its inside is `P2PTransfer`). `Timeout`,
`SocketError` and `LinkError` are the handlers that end the process at any
moment.

**SignalingHub.** `room`, `member`, `name`, `identified`, `age` are the maps of
the hub, `inbox` what the sockets hold, `view` the map of names (`peerNames`) of
the process behind a connection. The process outlives its connections:
`receiver.ts` connects again and does not clear the map, so `Connect` may hand on
(`HandOn`) the view of a lost connection. `ghosts` is a history variable: the peers
that were in the map, but no more in the room, when the process came back. Time is counted in heartbeats: `Heartbeat` is the interval callback, which
drops all that are older than the limit in one step. `Vanish` is a peer whose
socket dies without a close event.

**BrowserPeer.** A hub connection is the number of its id and a peer
connection the number of its offer. `pcs` and `dcs` are the maps of
`SignalingClient`, `link` what has become of each peer connection on both
sides; the messages of the page's and the receiver's socket are queues.
`ReadMessage` is the `onmessage` switch, `SendOffer` and `SendAnswer` the
continuations after the awaits, `Cleanup` `cleanupPeer` with the handlers it
removes. Clicks (`Select`), ICE and lost sockets are the environment.

**DropQueue.** One loop per drop, `pos` and `Begin` as in `handleFiles`; the
channel is one queue of starts, chunks (which carry no id) and ends, the
receiver's side is `ReadStart`, `ReadChunk`, `ReadEnd` in the order of
`transfer.ts`. `Admit` and `Save` are the upload route with its flag and the
names of one second; `Crash` is a restart of the server.

**IngressSession.** A token is the second it expires at. An attempt is one
request, then another, with `attempt` as in `attemptRef`: answers of former
attempts are `Current`-checked as the code does. `lookup` is the pending
promise of `adminChecker` that all requests share, `Tick` the clock.

**GatewayListener.** The main thread (`main`), the dispatch worker (`busy`)
and the heartbeat thread take steps of their own between accesses to shared
fields. `log` and `valid` belong to Discord, which is external: it numbers the
events of a session, replays what a RESUME names and may forget a session.
`Enqueue`/`QueueFull` are `put_nowait`, `Take`/`Skip`/`Apply`/`WorkFails`/`Advance`
the loop of the worker, `Joined` the end of `_queue.join()` with all it does
after it. `Release` is the `finally` block of an item: it writes the status file
before `task_done()`, and when the write fails the worker thread ends (`Dead`) with
its item unfinished. Elsewhere a failing status write does what another step of
the model does: while a connection is up it ends it like `Drop`, in the heartbeat
it sets `_reconnect`, and in `run` itself it ends the process.

**MessageArchive.** One message: `truth` on Discord, `events` in the order the
Gateway emitted them, one REST page between `Stamp` (the fetch time is taken),
`Fetch` and `Post`. `Write` is the upsert with `stale`, tombstones and partial
marks; `Normalized` what `normalizeDispatch` makes of an event. Bulk deletes
are deletes of single messages.

**Backfill.** A channel's messages are numbers in snowflake order and Discord
answers with pages. The worker walks a channel backwards from the newest page
the first time and forwards from the watermark later; `StorePage`, `SaveMark`
and the answering of requests are steps of their own, as they are calls to
PocketBase or writes of files. A failing channel, a failing call and a crash
of supervisor and worker may come between any two. Markers and the watermark
file survive.

**ChannelPolicy.** A text of `dc.config.yaml` is its kind (absent, broken,
valid) and what it says of each channel and of `*`. How it is laid out is left
out: `dc_model.py` writes the same model as the same text, so a box ticked off and
on brings a former text back. A request (`job`) reads the entities,
takes the lock, writes, saves the checkbox row and writes the marker; an event
(`ev`) goes through `liveModel` read by read. `answers` is a history variable
for the properties: what the declared model has said of the event's channel
since it came. So are `gone` and `back`, the texts the file has lost and those of
them it got again, and `mixed`, which marks a model compiled from another text
than the one it is cached under.

**ChannelWrites.** A request reads names (`ResolveChannel`), then model and
options (`CheckPolicy`), then makes its calls one by one (`CallTaken`,
`CallRefused`), while names and the model change; `moments` is a history
variable: the names and models of the time since the request came.

**ArchivePanel, CentralTimeline, MessageStream.** Each pairs the code's reader
with a server whose rows change between and during its requests. A load is a
record whose `stage` says which await it is in; the panel's `generation` and
the timeline's request numbers drop late answers as the code does; `moved` is a
history variable: the page was changed since the last load was begun. A stream
is a sequence of pieces (the stream's events or the characters that end
lines) that a chunk may cut anywhere. `Normal` and `Blocks` are the passes of the
decoder over them, each as a function of how many pieces it has done.

**RoomTree, SidebarSync.** `RoomTree` evaluates `buildSidebar` and the order
of servers for rows that are added in any order: `FirstPass` and `SecondPass` are
the two loops over the rows, each as a function of how many rows it has done.
`SidebarSync` is a run of
the tool as a chain of requests, each of which may be refused or lose its
answer (the run dies either way), beside saves of the preferences, which read
outside the transaction they store in.

**BotRegistry.** Page, gateway and store in one module: the form, saves,
removals and lists under way with what they were sent with, the table of
envelopes, and the key file in its two steps. `Stop` is a stop of the gateway
at any moment.

**MqttForwarder, TopicFilter.** The broker's bytes are frames with a length
and a count of bytes arrived; `Data(n)` is one `data` callback, with the drain
loop evaluated as a whole (it does not await). The POSTs it started end in any
order. `TopicFilter` evaluates the two pure functions: its variables are the
input, chosen once.

**LineArchive.** Page files are versions that the relay may rewrite at any
time. The import is one process reading, upserting and finally recording
pages; the pool is one worker per endpoint, each step between two locked
sections of the code. `EmbedPool` knows only which batches are left and which
have a vector; `EmbedsAll` is `INSTANCE EmbedPool` with the batches queued or
in hand as `left`.

**SemanticIndex, RagQuery.** A generation is a hash of all canonical rows and
the chunk policy, modelled as these themselves. Tables are what they were made
from: generation, rows of the archive, topic version, record ids. A swap is
two renames with a state between. `JobFails` and `Crash` may come at every
step. The query reads manifest, tables and records in the code's order, each
read an action.

## Runs

Nine runs must pass. Three runs must fail, each on one property: see [the next
section](#where-code-and-documentation-disagree). Sizes are of the complete
search.

Five runs check several modules side by side (`MCReceiver`, `MCPage`,
`MCReaders`, `MCLive`, `MCPolicy`). These modules share no variable and no
behavior of the code. A variable `side` is chosen at the start; the chosen
module runs by its own `Init` and `Next`, the others stay at one of their
initial states. The search is thus the union of the searches of each module
alone, and a property of one module is checked on all of its behaviors.
Fairness is that of the module that runs.

| run | module | states | properties |
|---|---|---|---|
| `receiver` | `MCReceiver`: `TransferReceiver`, `IngressSession`, `BotRegistry` | 960 thousand | `ClaimsTrue`, `PublishedWhole`, `SessionTrue`, `GrantFresh`, `CredentialsTrue` |
| `p2p` | `MCP2PTransfer` | 400 thousand | `TransferTrue`, `EndAnswered` |
| `hub` | `MCSignalingHub` | 560 thousand | `RoomsTrue`, `ViewsConverge`, `SilentEvicted` |
| `page` | `MCPage`: `BrowserPeer`, `DropQueue`, `SendTarget` | 220 thousand | `PeersApart`, `HandshakeEnds`, `ReportTrue`, `QueueEnds`, `SentTrue` |
| `readers` | `MCReaders`: `MessageArchive`, `ArchivePanel`, `CentralTimeline`, `SidebarSync`, `RoomTree`, `MessageStream` | 870 thousand | `Converged`, `NeverBack`, `PanelTrue`, `TimelineTrue`, `SidebarTrue`, `TreeTrue`, `StreamTrue` |
| `backfill` | `MCBackfill` | 650 thousand | `WatermarkCovered`, `SweptTrue`, `ChannelsServed` |
| `live` | `MCLive`: `GatewayListener`, `LineArchive`, `MqttForwarder`, `TopicFilter` | 300 thousand | `ResumePoint`, `AppliedInOrder`, `ListenerRecovers`, `EmbedsAll`, `InOrder`, `FramesRead`, `FilterTrue` |
| `policy` | `MCPolicy`: `ChannelPolicy`, `ChannelWrites` | 730 thousand | `DecisionCurrent`, `SavesWake`, `OneRowAtATime`, `WritesTrue` |
| `facebook` | `MCRagQuery` | 1.1 million | `PublishedTrue`, `StagedKept`, `AnswerCurrent` |
| `p2p_flush` | `MCP2PTransfer` with `MCP2PFlush.cfg` | fails | `DeliveredIsFlushed` |
| `gateway_status` | `GatewayListener` with `MCGatewayStatus.cfg` | fails | `DisconnectsSweep` |
| `mqtt_drained` | `MqttForwarder` with `MCMqttDrained.cfg` | fails | `CompleteDrained` |

Every invariant of a passing run is a theorem as well, and with them the type
invariants of their modules (see Proofs).

What the properties say, in short. Several are conjunctions of named parts,
which the module states one by one:

- `receiver`: an id is claimed, and a part file there, exactly while one live
  transfer holds it; what has its final name has all declared chunks and did not
  fail, what was committed has its ledger line, and a line without its file is of
  a commit that failed. A page
  has a session exactly while its view or the attempt under way needs it, and
  Disconnect ends both whatever answer is still to come; nothing is granted on
  a role lost longer ago than the cache's time and a lookup take. A bot's
  stored credential is its own and the last typed for it, readable with the
  key on disk.
- `p2p`: what the sender concludes is true (delivered files are published and
  entered, refused ones are not and never will be); no file has bytes of another;
  a sender that waits has an answer coming.
- `hub`: names are unique among the identified peers of a room; no message
  about a peer leaves its room; a silent peer is given up. A peer that has read
  all its messages knows every identified peer of its room, and of the departed
  keeps only those that went while its process was not connected.
- `page`: no peer connection takes the answer or the candidates of another one
  with the same peer, and the channel in the map is that of the present
  connection; an offer is answered or given up. What the page reports of a
  dropped file is so, and every drop comes to its end with the upload slot
  free. A run of `send.ts` sends to the one peer that was meant, and exits with
  0 only after every file was confirmed.
- `readers`: when all has been applied the row is the message; a row never
  goes back, and a tombstone stays. The panel lists only what is asked for,
  and after a reload that follows a subscription everything that is. The
  timeline's list has every event its pages reach. After a sync that went well
  the dashboards mirror the preferences, and preferences are every patch
  applied in turn. The tree has each row in its one place. The stream hands
  over every message once and in order while a connection lasts.
- `backfill`: everything up to a watermark is archived; a request is answered
  only by a run that swept its channel after it was made, and a run that
  reports success left nothing behind; every request, and every message of a
  selected channel, is reached.
- `live`: the sequence a RESUME would send covers only applied events; no
  event is applied before its predecessors; every event of a living session is
  applied in the end and a disconnection ends in a request for a sweep and a
  new dial, unless the worker thread has died. The pool implements `EmbedPool`: no batch is lost or embedded
  twice, a run that reports no error has embedded all it read, and a run ends.
  MQTT publishes are read once and in order; what was sent is read unless
  its connection is lost or the decoder stuck; topics match as MQTT says and
  the allowlist is never a guess.
- `policy`: a decision is one the model gave while the event was handled, but for a
  model that was cached under another text than its own, once that text is back; a
  set of one channel leaves the others alone; a saved model reaches a sweep. A
  write reaches the only channel its request meant, under a policy of the time
  since it came, and the answer says what was done.
- `facebook`: a published generation is that of the records as they are, has
  its whole chunk table, and its topics are of one version; embedded rows are
  kept until published; an accepted answer was made from one state.

### Bounds, and why they are enough

- `receiver`: two channels, two ids, a limit of one chunk, declared sizes
  −1, 0, 1 and 2, two paths, two answers per channel, one crash. Two of each is
  what a conflict takes (two channels with one id, one channel with two
  transfers); the sizes are below, at and above the limit. Channels and ids
  are symmetric, and only safety is checked. The sessions have four seconds,
  tokens of two, three attempts (the third while the role stays) and one
  change of the role: a renewal meets a former attempt, a lookup spans a
  change. The registry has two bots and three requests or stops together.
- `p2p`: either two runs of the sender with one file each and the same random
  id, or one run with two files of 0, 2 or 3 chunks (the limit is 2), so that
  a late answer to the first can meet the second. One crash, four answers.
- `hub`: two connections, two rooms, one name and the default name, one beat
  of tolerance, inboxes of two, any order of steps; both properties of this side
  are about pairs of peers. For the views, three connections of
  receivers in one room, which identify and ask for the list once: a process
  that comes back takes two of them, and a peer that stays, or leaves
  meanwhile, the third. There the close event of a lost socket always comes,
  and connections and rooms are used in turn, since they are alike.
- `page`: three hub connections without a click, or two with one: the page,
  the receiver, and one of them again after a reconnect. Two drops, of two files and one; one file needs the channel,
  being too large for HTTP; either a second passes (a new name) or the server
  restarts once. The run of `send.ts` has a wanted name, two names it is part
  of, one unlike, two files and two connections of peers, so that a peer
  leaves and comes back.
- `readers`: for the archive three events (create, update, delete),
  three clock values, one replay, any number of pages. The panel: two
  messages, two queries and a day, one row per page, three loads (two that
  overlap and the reload), and one failure or lost connection. The timeline: two
  instants, two messages and a thread at one of them (a page ends between
  them), a limit of one, two versions, one write, three pages. The sidebar:
  one server, two runs, two saves; either overlapping saves without the tool,
  or the tool with one save and one thing that goes wrong. The tree: two
  servers, one category, two rooms and a thread, in every order. The stream:
  three connections, two own messages and one of another channel.
- `backfill`: pages of two, up to three messages (a full page and a rest), two
  requests, one fault, one crash. `MCBackfill` runs these in three
  environments (one channel with pages, one channel with requests, two
  channels with one message), because their product is out of reach; the code
  under check is the same in all three.
- `live`: two sessions of three events, a queue of two and two faults: the
  queue fills, a fault meets a replay after another fault, and one session
  follows another. Two pages of up to two versions, two endpoints, two failures
  and three starts, so that both endpoints may fail in one run or in two (three
  pages were checked once, with 1.1 million states). MQTT frames of two and
  three bytes cut anywhere, three publishes (the last a plain one), one
  lost connection, and all filters and topics of up to three levels over
  two names, and maps of up to two entries.
- `policy`: two channels, two events, two handlers, two writes, one edit by
  hand, one fault, two sweeps. `MCPolicy` allows two actors at a time,
  in the five pairings its definition `Small` lists, and once three: an event,
  the save of a model and a sweep. Two writes, or a write and an edit, bring a
  former text back. The writes: one request, two text channels and one
  thread, names that are equal up to case or part of each other, a model that
  is missing, broken or one of two, and one change or one failed call.
- `facebook`: two records of one version, two processes and two chunk policies
  with up to two topics, without a query; or one process, one policy and the
  query. All steps may fail, and the process may die at each.
- `gateway_status`: one session of two events, a queue of one, two faults.

Deadlock is checked in `p2p` and `facebook`. It is off elsewhere, where a
behavior ends when its bounded environment has nothing left to do.

### Fairness

Liveness is claimed under weak fairness of what the runtime keeps going, never
of people, networks or failures (`gateway_status` has the listener's part of
`live`):

- `hub`: the interval timer and the reads of a connected peer (callbacks of an
  event loop). A peer may stay silent for ever.
- `page`: the messages of both sockets are read and asynchronous calls of
  WebRTC resolve (callbacks of an event loop); the loops of the drops go on,
  the upload route answers, and the acknowledgement's timer fires. Nobody has
  to click, no socket has to stay and the receiver need not read.
- `live`: each of the listener's three threads. `Read` is fair because the
  main thread wakes every half second to look at `_reconnect`; Discord need
  not send. Each worker thread of the pool, and its join. What the MQTT broker
  has written arrives (TCP).
- `backfill`: the clock, the loop of the supervisor, the worker (its calls
  have timeouts) and the handler that writes a marker after its transaction.

`RequestServed` and `SelectedSwept` (`ChannelsServed`) have the form "again and again, nothing is
waiting": faults and requests are bounded, so this is the same as "what waits
is served", and cheaper to check.

## Where code and documentation disagree

Three disagreements are runs.

- `p2p_flush`. `10-p2p_dropbox/README.md` says that success follows the stream
  flush. `transfer.ts:213` ends the stream with a callback that resolves
  whatever error it is handed, so a file whose write failed is renamed, entered
  and acknowledged (in the trace, the write of its last chunk).
- `mqtt_drained`. The comment at `02-mz_forwarder/server.ts:380` says that the
  loop drains whatever is complete. The `break` at line 414 leaves the loop
  before the buffer is advanced: an unidentifiable status stays at the head
  and blocks all behind it until a reconnect.
- `gateway_status`. `09-discord_pb/README.md:499` says that disconnects request a
  reconciliation sweep. `gateway.py:266` writes the status file in the worker's
  `finally` block, before `task_done()`: a write that fails (a full disk) ends the
  thread with its item unfinished, the main thread waits in `_queue.join()`
  (line 416) for ever, and neither asks for a sweep nor dials again.

The following were found with the same modules. Adding the formula as an
invariant (or property) to the run named shows the counterexample; where
none is given, the module shows how the code behaves and the line named says
otherwise.

- `10-p2p_dropbox/README.md:150` says that after a restart of the hub
  "browsers reselect the receiver". The list a page gets after it reconnected is
  added to what it knew (`web/src/lib/signaling.ts:97`): a receiver that left
  meanwhile stays listed, and a target that is listed stays
  (`Dropbox.tsx:93`). A click on an entry whose connection failed does not try
  again either, since only the status `online` connects (`Dropbox.tsx:152`).
  (`BrowserPeer` with `MaxConns = 4` reaches a state where page and receiver
  are back, no message is under way and `target` is nobody, because a former
  id of the receiver is listed beside the present one; the bounds of `page`
  are too small for it.)
- `receiver.ts:113` writes a log line after the ledger line, and a `log()` that
  throws fails the commit: the file is taken back and refused, but its line stays
  in `index.jsonl`. (`receiver`: `ledger \subseteq finals`.)
- `receiver.ts:58`: the map of names is not cleared when the receiver connects to the
  hub again (177-181), so peers that left meanwhile stay in it for good. No message
  ever comes from them, so only memory is lost. (`hub`: `ViewsConverge`
  without `ghosts`.)
- `Login.tsx` guards neither its form against a second submission nor against
  an answer that comes late: a key submitted before the Home Assistant log-in
  ended brings the page back after Disconnect (`SessionTrue` is about pages
  without a submitted key for this reason), and a refusal of the first
  session's token clears a key typed since.
- `Bots.tsx:144`: a save that ends late empties the form of whatever bot is
  edited by then; a list read before a removal brings the row back
  (`Bots.tsx:65-75`). Neither stores a wrong credential (`CredentialsTrue`).
- `control-db.ts:180-195`: a stop between the creation of the key file and its
  32 bytes leaves a short file, and the gateway never starts again.
- `panel.js:512-517` sets the page to the first one when the timeline's target
  changes but reloads the messages only when a day is shown; `565-568` restores
  the page that was shown before a failed load, also when a newer load has been
  begun since. Together they lose a message: on page 3, with a turn from page 2
  still under way, another target and the reload of page 1 that follows a
  subscription; the turn fails and page 2 is put back, so a new message is not
  added to the list (`panel.js:400`); one more target sets page 1 again, and the
  first page lacks the message, although the reload is to "fill non-replayed
  gaps" (`panel.js:449-453`). (`readers` with three messages and `MaxLoads = 4`:
  `ReloadCloses` without `~moved`. The attempt to prove it found this.)
- `240_sidebar.pb.js:65-77` reads the preferences outside its transaction: of
  two saves at once the second undoes the first (`PrefsKept` says `~overlap`).
- `tools/ha-sidebar.ts:163-166` pins servers that are closed, too, while
  `09-discord_pb/README.md:229-231` says "every open server".
- `dc_api.js:111`: one ambiguous name in `post_channels` makes every write fail.
- `220_dc.pb.js:110-112`: a thread whose second call failed leaves its starter
  message, and a retry by hand posts it again.
- `sdk/dc.ts`: `ready` never settles when the stream is closed before it has
  connected, although `cli.ts:97` awaits it; what is left of a chunk is handed
  over after `close()`; a fixed token that expires ends in 401 for ever.

- `gateway.py:422` asks for a sweep at the disconnection, before the next
  session exists. What is posted after that sweep has read a channel and before
  a *new* session starts is neither swept nor delivered, although
  `09-discord_pb/README.md:500` says that the sweep fills new gaps. (With a
  history variable `swept`, per session the events emitted when the marker was
  last consumed: `main = "up" /\ session # 0 /\ ~gap => \A s \in 1..(session - 1) :
  \A n \in DOMAIN log[s] : Stored(s, n) \/ n <= swept[s]`.)
- `discord_ingest.js:122` refuses a page that was fetched before a partial
  update was applied, so the row stays partial although a full message
  arrived (`09-discord_pb/README.md:493`). (With `carried`, set by `Post`
  of a page that has the message: `carried => ~Partial(row)`.)
- `04-line_lance/store.py:297`: a worker leaves when the queue is empty, also
  while another holds a batch. If that one fails, nobody takes its batch and
  the run ends with an error although an endpoint survived; the comment says
  "Return this batch for a surviving endpoint". (`live`: `pool = "stopped" =>
  \A u \in Urls : worker[u] = "retired"`.)
- `04-line_lance/store.py:100`: the time and size recorded for a page are read
  after its rows. A page rewritten in between counts as imported from then on.
  (`live`: `\A p \in Pages : manifest[p] = file[p] => messages[p] = file[p]`.)
- `dc_api.js:138`: entities are read before `dc_model.py` reads the file. When
  a channel is discovered and a model naming it is saved in between, the file
  does not compile against the older entities and the event is ignored, though
  the model granted it all the time. (`AsSaid` has this as its
  first exception; without its second disjunct `policy` fails.)
- `dc_api.js:201` stores a model under the text that was read before it was
  compiled. When the file changes in between and gets its former text back (a box
  ticked off and on), events are decided by the other text's model, although the
  comment at line 172 says that the cache keeps the compilation, "not its
  authority". (`DecisionCurrent` has this as its exception; `policy`:
  `\A e \in Events : Calls(e, "decide") => AsSaid(e)`.)
- `discord_live.js:23-29` reads the table after it was told that there is no
  model. When a sweep seeds the table for the "channels" option, and meanwhile
  a model is saved that leaves the channel out, an event that came before
  both is archived by the fresh row, though neither the table nor the model
  said so while it was under way. (`AsSaid` has this as its second
  exception; without its last disjunct `policy` fails. The attempt to prove
  the property found it.)
- `220_dc.pb.js:217` reads the ticked channels before the model's lock is
  taken; a channel ticked in between is left out of the model that is created,
  although earlier choices are to be preserved
  (`09-discord_pb/README.md:329`). (`policy`: `[][config = Absent /\
  config'.file = "valid" => \A h \in Handlers : At(h, "write") /\ job'[h].pc #
  "write" /\ job[h].kind # "save" => Ticked \ {job[h].chan} \subseteq
  Compile(config', known).imports]_pvars`.)

## Proofs

Eight modules hold theorems, for every value of the constants that satisfies
the named assumptions of the modules they extend (`ReceiverAssumption` and
`SenderAssumption`, `HubAssumption` and `IngressAssumption`,
`BackfillAssumption`, `ArchiveAssumption`, `SidebarAssumption`,
`TimelineAssumption`, `PanelAssumption`, `LineAssumption`, `SendAssumption`,
`GatewayAssumption`, `RegistryAssumption`, `PolicyAssumption`,
`ChannelWritesAssumption`, `FilterAssumption`, `ForwarderAssumption`,
`DropAssumption`, `BrowserAssumption`, `RoomTreeAssumption`,
`MessageStreamAssumption`). The assumptions say that bounds are
natural numbers (of pages, versions, rows per page and loads: at least one), that
the "no such thing" values are distinct from real ones and, for rows that are
read by the page, that there are finitely many. Five say more: an id of Discord
is the id of one thing, a message is not a character of the event around it, the levels of a topic are not the wildcards, a frame of the broker has at least the two bytes of
its header, and a `File` object is dropped once, among fewer than the 10,000
names the server tries in one second.

Each proof has the same shape: an inductive invariant `IInv`, a lemma that it
holds initially, one lemma per action (or per helper an action is made of)
that the action keeps it, and theorems that follow from it.

- `P2PTransfer_proofs`, the receiver: `IInv` is `TypeOK`, `PathsInOrder` and
  the checked invariants. `PathsInOrder` says that paths not yet returned are
  fresh: without it a new transfer could meet the remains of another.
  `PublicationsStand` is an action property proved from it: ledger lines stay, and
  only a commit that fails takes its own file back. A commit that fails after the
  rename is the case that needs care (`RecordFailsKeeps`): the path ends as
  dropped, so it is none of those published, with or without its line.
- `P2PTransfer_proofs`, sender and receiver: the composition is written with the
  receiver's own actions, so `IInv` is carried over (`StepRefines`). `TransferTrue` needs `PInv`: a message in flight is of a file that
  was started and follows the one before it in that file (`QueueOrdered`), so
  that by the time it is read the active transfer is the right one and has as
  many chunks as it should; a file starts once and ends once (`StartsFresh`,
  `EndsOnce`); what a path holds is a beginning of its file (`FilesFaithful`);
  an answer is true when it is sent and stays so until the sender has read it
  (`AcksTrue`, `ConclusionsTrue`). A refusal is the harder half: nothing may be
  left that could still bring the file. `Behind` says what any receiver step may
  do to a queue (keep it, cut it, take its head); each part of `PInv` follows
  from it once. `EndAnswered` follows the answer from the queue over the commit
  to the sender, and is inductive with `PInv`.
- `Access_proofs`, the hub: `HubInv` adds `IdentifiedAreMembers`. Names are
  unique only among identified peers, and a peer that left must not count.
  `RoomIsolation` is kept by a lemma about what each handler may append to
  an inbox. `ViewsConverge` speaks of peers that have read everything; `ViewInv`
  says the same of view and inbox together: whoever is identified is named by
  the view or by a message after which nothing else is said of it
  (`EverybodyKnown`), and whoever is named is there, was gone before the process
  came back, or its notice is still to be read (`NobodyGone`). A map handed on
  holds only names of its room, and those of it that are not there are `ghosts`
  from the first step. Each step is, for each peer, one of four: nothing,
  a message heard, a message read, a socket gone.
- `Access_proofs`, the log-in: `Attempts` says that only the current attempt
  can still change the page and that the session it sets up is the one of its
  own token; with it `SessionTrue` survives answers in any order. `Grants`
  bounds the age of the cache by that of the lookup that filled it, whoever
  waited for it; the action property `GrantFresh` follows.
- `Ingest_proofs`, the backfill: `WatermarkCovered` alone is not inductive. `CursorCovered`
  says what the walk has archived so far (a backward walk leaves a gap between
  the watermark and its cursor, which is why the watermark is saved only at
  its end), `PageInOrder` and `WalkEnds` what the page in hand may be, and
  `MarksReal` that a watermark names a message that exists.
  `SweptTrue` is about two steps, the ack and the end of a run. `RequestsKnown` says that
  a run's goal in a channel is beyond every request whose present version it has read (a
  later one has a version it has not), and `WalkReaches` that a walk passes
  the goal: a backward one begins beyond it, a forward one ends there. So an ack that
  compares versions answers only what was swept, and `DoneReached` gives the rest.
- `RagQuery_proofs`, the jobs: `JobsSound` says what each job may rely on at each
  step (only the holder of the lock runs, and the records cannot have changed
  since it read them), `DerivedSound` that tables contain only rows of what
  they were made from, and `NothingAnnounced` that nothing is announced while
  it is being replaced. With these, counting rows, which is all the code does
  before it publishes, implies that the table is whole.
- `RagQuery_proofs`, the query: records only get newer (`TodoNewer`), and what
  the query has read lies between the documents it began with and the
  generation it looked at last (`QueryOrdered`). When both are of one version,
  as it validates at the end, so is all between them, although it reads five
  times without a lock.
- `Addons_proofs`, the pool: `PoolInv` says that every batch of a run is queued or
  in one worker's hand and nowhere twice, that it has a text the run read, and
  that nobody holds one when no run is under way. Workers leave while others hold batches, so
  "the pool is empty" alone says nothing; with it every step of import and
  pool is a step of `EmbedPool` or a stutter (`EmbedsAsPool`, the safety part of
  the refinement that the run `live` checks with its liveness).
- `Addons_proofs`, the forwarder: `Numbered` says that the readings got, and after
  them the publishes still in the stream, are in the order of sending. A chunk
  is read by a loop over all frames that are whole by then (`OneByOne`): the
  lemma on it says that it takes the frames up to the first that halts the
  buffer, one after the other. `InOrder` follows. The filters are pure functions;
  the lemma is that the walk over the levels of a filter is the match that the
  standard describes, for a filter of any length.
- `Addons_proofs`, the stream of the SDK: the decoder works on whole buffers, so the first
  half is about it alone. `DecodeAppend` says what one character more does to what
  was decoded, although a CR at the end waits for it; `RestSettled` that what is kept
  holds no whole block and no line end but that CR; so decoding what is kept with the
  next chunk is decoding all at once (`CutAnywhere`), wherever the chunk was cut.
  `EventRead` is the converse: the characters of an event are read as it, with any
  line end. The invariant is then short (`AllThere`): own messages handed over, waiting in the
  chunk, and decoded from all that is still held, are together what was sent.
- `Page_proofs`, the dropped files: `ReportTrue` speaks of a file that was said to have
  arrived. `WireOrder` says that a file's start, chunks and end are on the wire in this
  order although several loops write to it, and that nothing of a file is there
  before its turn; `Counted` that between start and end no chunk is missing or is
  another's (chunks carry no id, so this is a statement on the chunks of the whole
  wire and what the receiver holds, by counting); `StoredWhole` that a positive
  answer on its way is of a whole file. For the upload, `Named` says that no name
  holds two files and which loops may have a name already; that a free name is
  found needs the bound on the number of files.
- `Page_proofs`, the page's connections: `PeersApart` is about the connection a
  message meets, so the invariant follows a handshake: it is in one place at a time (`Places`:
  with the receiver's socket, in its hands, or answered), in none before the offer
  and after the answer was taken or the connection replaced (`Settled`), and the
  map holds the one connection with a peer that is not closed, with its channel
  (`Present`). A receiver that has left does not come back under its id
  (`NoneReturns`), not even in a list that was sent before and is read after: without
  it `connectToPeer` could meet an answer to an offer it forgot. `OffersMade`
  counts offers against connections to the hub and peers, so that the bound of the
  model never cuts off an offer that the page would make; `Listed` says that the
  list shown is what the client knows.
- `Page_proofs`, `send.ts`: `SentTrue` speaks of what was received; `Meant` carries
  from the list over the choice that the target was the right one, and `Sent`
  that what counts as sent has arrived, until the exit code is set.

- `Ingest_proofs`, the listener: `ResumePoint` says nothing of what is still under
  way. `Contiguous` follows an event over the wire and the queue into the
  worker's hands: as long as the worker is not blocked, what it meets next is
  the event after the sequence. A blocked worker needs none of it, because
  `Emptied` says that wire and queue are empty before it is unblocked; a dead
  worker has nothing in hand (`InHand`) and never takes or unblocks again.
  `OfNewest` rules out that a number is counted for another session. Both
  `ResumePoint` and the action property `AppliedInOrder` follow.
- `Policy_proofs`: `RequestInv` is what a request may rely on at each step: the
  channel it sets is known, and the text it is about to write was read under
  the lock it still holds, so every other row is the file's (`OneRowAtATime`).
  A decision is harder, because the cached model was compiled for an event that
  may be over. `SourceOf` says of a text, a set of channels and a model that the
  model is right for every event that has read this text and agrees with the
  file as long as the file has it: an event that hits the cache or compiles by
  itself meets a source, and what it decides was said since it came. Texts may
  come back. A model compiled from its own text stays a source then, since it says
  of the text what the file says again; a `mixed` one does not, and `Excuse` takes
  it out from that moment on, which `Past` recognises (what was read is the file's
  or is `gone`, and what is the file's again is in `back`). `TableSaid` and `FirstFile` are for
  the time before the first file, when the table decides and a checkbox is
  saved after the model it creates.
  The write routes are in the same module. `Known` says of a request that its
  channel and its permission come from names and models there were since it
  came, and that what it has done at Discord and what is left to do are the
  whole write; `ResolvesMeans` is the lemma that the channel left by
  `resolveEntity`'s three tiers is the one that alone matches best.
- `Readers_proofs`, the archive: `RowTrue` says what the row has once the events
  up to `next` are applied, also where a replay has put `next` back, and
  `PageTrue` that a page that may still be written over the row has every change
  the row has. What the upsert calls older is so because of two texts the one
  edited later has the later body (`EditsOrdered`).
- `Readers_proofs`, the sidebar: `SaveAlone` and `SyncSound`. As long as nothing disturbs
  a sync, the servers behind it are right, those ahead are as it listed them, and
  the one it is at has what its requests so far give. The tool may die anywhere;
  then nothing is said, and nothing is promised.
- `Readers_proofs`, the timeline: `AnswersComplete` says that a page has
  everything between its cursor and its last row but for what was written since,
  `Follows` that the page awaited begins where the list ends, and `ListComplete`
  that the list has all that it reaches for the filter it was *loaded* for, even
  when another is set by now. That a page with fewer rows than the limit has all
  rows (`NewestRows`) is a lemma by counting: no two rows have equally many newer
  ones.
- `Readers_proofs`, the panel: between the subscription and the end of the reload
  the rows on their way, and then the list, may lack or have out of date only
  messages an event of which is not read yet (`Mirrors`); the last such event has
  what the archive has (`LastSent`). A live event pushes the oldest row out, so the
  list must be exactly the newest rows before and after (`FirstPage`). The proof
  needs that no event is read during the reload (`ReadsAfter`), and that the page
  was not changed behind the load's back (`moved`): without this hypothesis
  `ReloadCloses` is false, though it takes four loads to show it (see the
  divergences).
- `Ingest_proofs`, the room tree: `TreeInv` says no more than that rows have ids of
  their own and that what hangs together is of one server; the rest is what the
  algorithms compute. `ChannelsOf` and `ThreadsOf` are the tree after k rows of each
  pass in one formula, proved by the least row after which it would be wrong; with
  all rows they are `TreeWhole`. For the order, a finite set has one list in a
  given strict order (`OneList`), by counting what comes before an element. The
  page's sort compares less than the server's (no tie-break on ids), but it is
  stable and starts from the server's list, so its order is strict too, and without
  the inferred servers it is the same.
- `Addons_proofs`, the registry: `InForm` carries what is typed from the bot that is
  edited to the request, and `Keyed` says that the key on disk is the one of
  every envelope, because it is not made anew once there may be one.

The conjunctions that the runs check (`ClaimsTrue`, `RoomsTrue`,
`PublishedTrue`) are theorems too, each from the theorems of its parts.

Not proved, and only model-checked, is liveness: it rests on fairness and
`ENABLED`. Every invariant and every safety action property that a passing run checks
is a theorem. Induction over data (the chunks on a wire, the levels of a filter,
the frames of a buffer, the passes over the rows, the characters of a stream)
takes the least counterexample instead of the library's induction theorems, whose
operator parameters the provers cannot instantiate. No module uses a `RECURSIVE`
operator.

## Not modelled

Parts without shared or persistent state, sequential commands and display
code, as listed in the inventory and in `PROJECT.json`. Within modelled
components these are left out:

- in the browser, peers that are not receivers, and two answers of a lost
  connection under a former id of the receiver (the exception `HandshakesApart`
  names); `pc.close()` is taken to fire no close event of its own channel;
- listing, preview and download of `server.ts`, and the other users of a
  Home Assistant;
- the panel's tables of channels, accounts and imports, the imports and
  deletions of the timeline, the messages of the room viewer and the titles of
  dashboards;
- the names, user ids and webhooks of bots, and a second administrator;
- a page of channel rows longer than 500 entries, and malformed bodies, in
  write requests;
- threads of the gateway's heartbeat that outlive the one-second join, a crash
  of the listener's process, and the waiting for the identify quota;
- a backfill worker that outlives its supervisor (the crash takes both), and
  archived threads, which are channels like others;
- names, purposes and the other policy fields of the model, and the resolution
  of references by name;
- the mapping's contents, a broker that never answers CONNECT, and the page
  of the forwarder;
- a vector that keeps the former text of a changed LINE message, and two
  embedding runs at once;
- chunking, clustering and ranking; the other queries of `server.py`, which
  read records after their search and validate nothing again; an archive that
  is imported backwards.

## Plan

In this order, the most state shared between actors first:

1. `05-facebook_lance`: supervision of the Studio process (`service.py`), the
   download of model files, the other queries of `server.py`.
2. `09-discord_pb`: the cursors of `dc.js` and `dc_timeline.js`, `ha_admins.py`,
   validation and resolution in `dc_model.py`, the framing of `gateway_ws.py`,
   the messages of the room viewer.
3. Composition: `SidebarSync` with the room list it mirrors, `BrowserPeer` with
   `SignalingHub` instead of a hub of its own.
