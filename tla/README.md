# Steerloop in TLA+

Steerloop lets a person steer coding agents from a phone: an *agent* process on
each host runs a Codex App Server, a *relay* collects the events of all hosts
and keeps a bounded history of them, and *clients* (a web app) show the state
and send commands and approval decisions back. These modules model the parts of
that system whose correctness depends on the order of steps of several actors,
on crashes and on lost or repeated messages.

- `*.tla` without a prefix: the models and the abstract specifications.
- `MC*.tla`, `MC*_<run>.cfg`: instances for TLC, one `.cfg` per run.
- `*Proofs.tla`: theorems, with proofs for TLAPS.
- `PROJECT.json`: components, runs, hazards, findings, theorems, and for every
  definition the lines of the source it models.

An operator `X_Suffix` next to `X` is `X` with a plausible mistake in it; it is
never part of `Next`. Each property of a passing run has one such operator that
breaks it, which shows that the property depends on the code it is about.

## 1. The system

### Components

| Component | State | Operations | Interacts with |
|---|---|---|---|
| **Event journal** `apps/relay/src/event-journal.ts` | `events` (newest `maxEvents`), `persistedLines`, `handle`, promise queue `tail`; the JSONL file | `open` (replay, repair), `append`, `close`, `compact` | called by the relay's frame queue; file system |
| **Relay fan-out** `apps/relay/src/server.ts` | `history`, `agentFrameQueue`, `clients`, `agents`, `sockets` | `authenticate`, `handleAgentFrame`, `broadcastToClients`, `start`, `stop` | frames of agents in, snapshots and broadcasts out |
| **Relay commands, pairing, HTTP** `server.ts` | `pairingOffers`, `agents`, peers of sockets | `handleClientFrame`, `verifyApprovalAuthorization`, `registerPairingOffer`, `/pair`, device endpoints | clients, agents, device registry |
| **Device registry** `device-registry.ts` | devices by id, `persistQueue`, file | `open`, `issue`, `verify`, `revoke`, `verifySignature`, `persist` | relay |
| **Agent controller, event factory** `apps/agent/src/{controller,event-factory}.ts` | `sequence`, heartbeat timer | `start`, `stop`, `handleCommand`, `create` | adapter → factory → relay client |
| **Agent relay client** `relay-client.ts` | `queue` (≤ 1000), `authenticated`, socket, backoff | `publish`, `flushQueue`, `connectOnce`, `handleCommand`, `stop` | relay socket, adapter |
| **Codex adapter** `codex-adapter.ts` | `pendingApprovals`, `activeTurns`, `queuedPrompts`, loaded threads | `handleServerRequest`, `handleNotification`, `resolveApproval`, `sendPrompt`, `startTurn` | App Server pipes, relay client |
| **App Server client** `codex-app-server.ts` | child process, table of its own requests | `start`, `stop`, `request`, `respond`, `handleLine` | child's stdin and stdout |
| **Demo adapter** `demo-adapter.ts` | one pending approval, timers | `handleCommand`, `requestApproval`, `resolveApproval` | relay client |
| **DeepSeek Harness bridge** `packages/dsh-plugin/src/bridge.js` | queue, pending approvals with timers, socket | `requestApproval`, `publishEvent`, `connect`, `handleRelayFrame`, `resolveApproval`, `stop` | relay socket, harness callbacks |
| **Control-plane state** `packages/protocol/src/state.ts` | pure: hosts, sessions, approvals, `lastSequenceByHost`, `recentEventIds` | `reduceEvent`, `reduceEvents` | used by clients |
| **Protocol schemas** `packages/protocol/src/{schema,approval}.ts` | none | validation, `canonicalizeApproval`, `canonicalizeApprovalDecision` | every other component |
| **Web control client** `apps/web/src/connection.ts` | `state`, socket, outstanding commands | `open`, `handleMessage`, `sendCommand`, pairing | relay, UI |
| **Web UI** `apps/web/src/App.tsx` … | React state | buttons, approval-integrity check | control client |
| Configuration, probes, entry points, deployment, examples | none that lasts | read once, start the rest | – |

### How they interact

An event is made by the adapter, numbered by `EventFactory.create`, and given to
`RelayClient.publish`, which sends it or, without an authenticated connection,
queues it. The relay puts the frames of all agents in one queue and handles one
frame at a time: append it to the journal (an await), take the journal's window
as its history, broadcast. A client gets the history as a snapshot when it
authenticates, then the broadcasts, and folds both with `reduceEvent`. A
decision travels the other way: client → relay (which checks signature and life
of the command) → `RelayClient.handleCommand` → adapter, which alone holds the
pending approvals and answers App Server.

### What is hard in it, and what makes each part correct

- **Journal.** Every await of `append`, `compact` and `initialize` may be where
  the process or the machine dies or an I/O call fails. It is correct if an
  event that was acknowledged, and therefore broadcast, is never missing from a
  later snapshot, if snapshots are ordered and without duplicates, if the file
  stays bounded, if one failed operation does not hold up the others, and if
  the journal opens again after any crash.
- **Fan-out.** A client may subscribe while an append is under way; frames of a
  replaced socket are still handled; a failed append must not break the others.
  Correct if a snapshot and the broadcasts after it join without gap or overlap.
- **Reducer.** Frames may be late, doubled, or from before a restart of the
  agent that counts from one again. Correct if it refuses what is overtaken and
  only that, and if what it shows of approvals and sessions is what the host said.
- **Approvals.** Decisions race deadlines, restarts, App Server's exit, other
  clients' decisions, and a relay that is not trusted with authorization.
  Correct if each request is answered at most once, by a decision on it.
- **Relay commands, pairing.** The signature check awaits between check and use;
  issuing a device awaits between a code's check and its token. Correct if a
  code pairs once, and if what is forwarded is allowed, in order, in time, and
  by the host's last connection.
- **Device registry.** Memory changes before the file; persists queue up and
  fail. Correct if a pairing or revocation that was reported survives a restart.
- **Connections.** Old sockets' handlers run after new sockets were opened.
  Correct if a live agent ends up with one authenticated connection.
- **Turns and prompts.** `sendPrompt` reads `activeTurns` and then awaits; queued
  prompts are started by `turn/completed`. Correct if accepted prompts run in
  order and none is left behind.
- **DeepSeek bridge.** Timeout, decision and `stop` race for each approval, and
  `host.connected` overtakes queued events. Correct if each callback settles
  once and clients accept what is sent.

All hazards, each at its line and with the properties that cover it, are in
`PROJECT.json`.

## 2. Plan

In order of importance. Done (sections 3 to 8):

1. `EventJournal` + `DurableLog` + `EventJournalProofs`.
2. `CodexApprovals` + `OneShotApproval` + `CodexApprovalsProofs`,
   `CodexPromiseProofs`.
3. `ControlPlane`: the reducer, pure operators.
4. `EventPath` + `EventPathProofs`: composes event factory, relay client, relay
   and reducer; uses the journal through its promise only (a window that is the
   file or newer).
5. `CodexTurns` + `CodexTurnsProofs`: turns, prompts and the table of requests.
6. `DeviceRegistry` + `DeviceGrants` + `DeviceRegistryProofs`: memory, file,
   persist queue, crashes.
7. `RelayAccess` + `RelayAccessProofs`: composes the registry with the relay's
   pairing offers and commands, the agent's connections and the browser.
8. `DshBridge` + `DshBridgeProofs`: connection, queue, approvals with timers; a second
   implementation of `OneShotApproval`, and through `ControlPlane` a check of
   its numbering.

Not done yet:

9. `AgentConnection`: the timers and close handlers of the agent's relay client,
   which differ from the bridge's in waiting for the close before reconnecting.
   The question is whether one connection remains; nothing in the code bounds
   how often two sockets may replace each other.
10. The demo adapter, a third implementation of `OneShotApproval`.

Every invariant, action property and refinement that a passing run checks is
proved, too; what is left to TLC alone is liveness.

The runs stay one per question: a passing run per module above, and a run for a
disagreement between code and documentation where modelling meets one.

## 3. The event journal: `EventJournal`, `DurableLog`

`EventJournal` has one action per stretch of code between two awaits, and `pc`
names the await at which the running operation stands.

| Source | Model |
|---|---|
| the file | `disk`: lines, the last one without newline (`tail`), and how much of both is durable |
| files a power loss may bring back | `stale` |
| `this.events`, `persistedLines`, `handle` | the same names |
| `this.tail` | `pending`: queued operations, event numbers, 0 for `close` |
| `open`/`initialize` | `Open` (and the compaction steps with `pc = "open…"`) |
| `append` | `RequestAppend`, `StartAppend`, `Write`, `Datasync`, `Record` (part of the step that ends the write) |
| `compact` | `WriteTemporary`, `Rename`, `SyncDirectory`, `Reopen` and a failing variant of each, after which `CompactFails` does or does not reopen the file; `CloseFails`, when the old handle does not close: it stays in place, and no later write to it works |
| `close` | `RequestClose`, `StartClose`; the relay then stops: `Stop` |
| kill, power loss | `Kill`, `PowerCut` |

**Abstractions.** An event is the number of its append call. Text is abstracted
to what `JSON.parse` and the search for a final newline tell apart: a line is
the sequence of pieces written to it, each a whole record or `Cut`. File modes,
texts of errors, and leftover temporary files (never read) are left out.

**File system assumed.** `datasync` makes content, size and the directory entry
durable; so does syncing the directory (ext4, XFS, Btrfs behave so). A sync that
failed is not reported as done later. A power loss leaves a prefix of the file
no shorter than the durable part, and may bring back an older directory entry
until the directory is synced; a kill while writing leaves nothing, part, or all
but the newline of the record.

**`DurableLog`** is what the relay relies on: the window only grows by newer
events while the log is up, and after a failure the log shows an ordered window
that holds every acknowledged event, or a full window of later ones. The refinement mapping
(`MCEventJournal`) is `up <- pc # "down"`, `window <- events`.

| Run | Checks | Bounds | Result |
|---|---|---|---|
| `journal` | `TypeOK`, `AckedSurvives`, `SnapshotOrdered`, `JournalBounded`, `ImplementsDurableLog`, `AppendsSettle` | `syncWrites`, window 2 (compaction at 4 lines), 5 appends, 2 failing calls of any kind, 2 crashes of either kind | holds |
| `crash` | `CrashesAreRepaired` | the same, without failing calls | **violated** |

The bounds are enough for the interesting cases: 5 appends fill the window
twice, trigger a compaction, and leave a record to append afterwards; two
crashes allow a crash, a repaired or unrepaired restart, and a crash of what
follows; two failures allow one in an append and one in the compaction or the
reopening that follows.

`crash` shows that a crash that leaves a whole record without its newline is not
repaired: `initialize` parses the record, sees no truncation and does not
compact, the next append continues that line, and the startup after that refuses
the file (`event-journal.ts:89`). `docs/architecture.md:39-40` promises repair.

`AckedSurvives` is about acknowledgements. The stronger reading of ADR 0002,
that whatever a client sees is synced, has a gap: after a kill between
`appendFile` and `datasync`, `initialize` replays the record without syncing it,
and a power loss can then take away an event that a snapshot has shown. It was
never acknowledged, so the properties here allow it.

**Fairness.** `AppendsSettle` is checked under `FairSpec`, weak fairness of
`Step`: the promise reactions and file operations of a queued operation
eventually complete (Node's event loop and the thread pool run them; a kill or a
failing call is an outcome too). Nothing is assumed of the environment.

## 4. Approvals: `CodexApprovals`, `OneShotApproval`

| Source | Model |
|---|---|
| `pendingApprovals` | the same name |
| App Server's stdout and stdin | `stdout`, `stdin`: FIFO sequences |
| `handleServerRequest` | `HandleRequest`, `RejectRequest` (unsupported method), `RejectRequestThrows` (the same once the child is gone: the exception is uncaught and ends the agent) |
| `handleNotification` of `turn/completed` | `HandleTurnCompleted` |
| `RelayClient.handleCommand` → `resolveApproval` | `HandleCommand` = `Refuse`, `Expire` or `Answer`, one atomic step as the code has no await in it |
| `CodexAppServer.start`/exit | `NewProcess`, `ChildExit`; `adapter.stop` is `ChildExit` and then `Restart` |

The environment is App Server (`Ask`, `EndTurn`, `TakeResponse`, `ChildExit`),
clients (`Decide`, on anything ever published, late or not), the clock (`Tick`)
and the relay, which is any choice of decision, approvalId and sessionId in
`HandleCommand`: it loses, repeats, delays and readdresses decisions but cannot
make one. A command for another host is like a lost one.

**Abstractions.** A request is numbered over all runs, and that number stands
for the approvalId (`session:item:id`, unique because the item belongs to a
run); its id in the protocol starts again with each run. `Digest` is the
approvalId with the displayed fields, SHA-256 being injective on what occurs,
and the permissions that would be granted are determined by what is displayed.
`file_change` and network requests are handled like `command`. Host and clients
share one clock.

**`OneShotApproval`**: an approval is open until its deadline, is settled at most
once, by an opinion on its very subject in the life of both, and never after it
has lapsed. In the mapping (`MCCodexApprovals`) an approval is open while it is
in `pendingApprovals`, settled when it was answered, and lapsed otherwise.

| Run | Checks | Bounds | Result |
|---|---|---|---|
| `approvals` | `TypeOK`, `AnswersAreDecisions`, `EffectsAreAnswers`, `OkMeansAnswered`, `ImplementsOneShotApproval` | 2 sessions (symmetric), 2 requests, 2 decisions, 2 runs, clock 0..2 with life 2 for approvals and 1 for commands | holds |
| `stale` | `StaleDecisionsRejected` | one session | **violated** |

Two requests and two decisions are what substitution, double answers and
disagreeing clients need; two runs let request ids come again; the clock reaches
both deadlines, the command's before the approval's. One material is enough as the approvalId is
part of the digest, and two requests differ in it.

`stale`: `turn/completed` leaves `pendingApprovals` alone, so for the rest of
its life the request of a turn the adapter knows to be over is still answered,
with `ok` and `approval.resolved` for the client
(`codex-adapter.ts:416`), whereas `docs/architecture.md:22-24` says that stale
decisions are rejected.

## 5. Events: `ControlPlane`, `EventPath`

`ControlPlane` is `reduceEvent`, as operators on a state record with the names of
the source, for every type of event; display-only types (`session.activity`,
`session.message.delta`, `session.diff.updated`) are one type, `session.content`.

| Source | Model |
|---|---|
| `EventFactory.create` | `create`: `sequence` of a run, from 1 |
| `RelayClient.publish`, queue, flush | `publish`, `Connect` |
| `AgentController.start`, heartbeat, `stop` | `StartAgent`, `Report`, `StopAgent`; `KillAgent` |
| approvals, as far as events tell | `Request`, `Resolve`; `Forget`, when a decision comes too late or App Server is gone and `resolveApproval` deletes the approval without an event |
| sockets | `wires`: per connection, the frames under way; `Break`, `Disconnect` |
| `agentFrameQueue`, `handleAgentFrame` | `Arrive`, then `HandleEvent` (no journal) or `WriteEvent` and `PublishEvent` (the await between them) or `AppendFails` |
| relay restart | `RestartRelay` |
| `authenticate` of a client, its socket | `Subscribe`, `Unsubscribe` |
| `ControlClient.handleMessage` | `Receive` |

**Abstractions.** One host and one client: hosts share only the relay's queue and
history, and clients share nothing. Time is the run of the agent: a host's clock
does not go back and a restart takes more than a millisecond. Each end of a
connection learns of its loss by itself, so frames are lost with it, and a close
by the relay does not stop the frames that are under way. Frames are well formed
and sockets authenticated. Connecting and flushing the queue is one step, since
what is published in between is only queued. Command results share the queue but
touch nothing modelled here. `LateRuns` says whether frames of an earlier process
may arrive after a newer process has connected; it is off in `path` and `window`,
to see what holds without that, and on in `late`.

| Run | Checks | Bounds | Result |
|---|---|---|---|
| `path` | `TypeOK`, `SubscribersFollowHistory`, `OnlyOvertakenIgnored`, `ViewIsTruth`, `ShownWasSaid`, `WaitingMeansPending` | with and without a journal; history 2, queue 2, 4 events or dropped approvals, 2 runs of the agent, reports of `waiting_approval`, 2 connections, 1 connection of the client, 1 failed append or restart of the relay | holds |
| `window` | `RestartsAreTaken` | history 2, heartbeats | **violated** |
| `late` | `OutOfOrderIgnored` | history 4, `LateRuns` | **violated** |

Four events over two runs make a request, its decision and a restart, or a request
that is dropped and a restart; a history and a queue of two lose the oldest of them, `host.connected` included. The client
subscribes once at any moment of the rest, and every later subscription starts
from a snapshot as the first does, because a snapshot replaces the state.

`SubscribersFollowHistory` is stated for executions without a failed append: an
append whose compaction fails leaves its event in the journal's window, so it
enters the history with the next event though it was never broadcast
(`server.ts:328`), and clients that are connected miss it until they subscribe again.

`window`: once the history has dropped the `host.connected` of a run, a client
that subscribes knows the host's sequence but not the host; it ignores the
`host.connected` of the next run and everything up to that sequence, approvals
included (`state.ts:117`; `protocol.test.ts:207` promises the opposite).
`late`: after a restart of the agent, a frame of the former process that is
still on its way is taken as news and raises the sequence, so that the next
events of the new run are ignored (`state.ts:122`; `protocol.test.ts:183`).

`ShownWasSaid` is stated over what the client took, in the order in which it
took it, and not over what the host said last: a `host.connected` that is overtaken
by a later event of its own run, which came by another connection, is taken by a
client that knows the host from an earlier run (`state.ts:117` sees a lower sequence
and a later time), and cancels the requests of that very run that are open
(`state.ts:142`). The client then shows as cancelled what the agent still waits for,
until the decision arrives. That is why `ViewIsTruth` asks for events that were handed
over in the order of their sequence.

An approval that expires, or whose answer cannot be given because App Server is gone,
is deleted without an event (`codex-adapter.ts:265`, `273`). Clients show it as
pending until the host starts again, and `ViewIsTruth` says so: what is shown as
pending is what the agent waits for and what this run has `forgotten`, which the
history variable of that name records, no more and no less.

Hosts report `waiting_approval` as a status, too (`codex-adapter.ts:76`,
`bridge.js:155`), ahead of the request or without one. `path` has such a report at
any time (`Reports <- Waits`), so `WaitingMeansPending` says why a session is shown
as waiting: an approval of it is shown as pending, or the client took that report and
nothing since that sets the status of the session (`SetsStatus`).

Two more divergences from `docs/product-proposal.md` are visible in the model and
are not runs: frames given to a dying socket are not sent again (line 179), and
nothing marks a killed host as offline (line 278).

## 6. Turns and prompts: `CodexTurns`

| Source | Model |
|---|---|
| `activeTurns`, `loadedThreads`, `queuedPrompts` of one session | `active`, `loaded`, `queue` |
| `CodexAppServerClient.pending`, `nextRequestId` | `table` (a `Map` in insertion order), `nextId` |
| `handleCommand`, `sendPrompt` | `Interrupt`, `Prompt` (no active turn), `Steer`, `Enqueue` |
| `startTurn`, `ensureLoaded` | `startTurn` up to its first await, then `RunTask` |
| `request` | `request`; `Timeout`, `HandleReply`, `Exited` settle it |
| `handleLine`, `handleNotification` | `HandleReply`, `HandleThreadStarted`, `HandleTurnStarted`, `HandleTurnCompleted` |
| `void this.startTurn(...)` that rejects | `unhandled`, then `Crash`: Node ends a process with an unhandled rejection |
| `CodexAppServerClient.stop`, `process.exit` | `Stop`, `Leave` |

Node's event loop is part of the model: what follows an `await` is a microtask
(`tasks`), microtasks run when a callback has returned and before the next one,
and the lines of one chunk of stdout are all handled before the microtasks they
make due (`draining`). App Server is the environment: it has one turn at a time,
may refuse any request, may announce a thread, takes a `turn/start` during a turn as input
to that turn, and may end at any moment. Writing to a pipe whose reader is gone
may end the agent (`BrokenPipe`). One session, since sessions share only the
pipes and the table; one run, since nothing outlives it; status events are left
out, they go the way of `EventPath`.

| Run | Checks | Bounds | Result |
|---|---|---|---|
| `turns` | `TypeOK`, `OkMeansDone`, `DoneInOrder`, `NothingForgotten`, `ActiveIsCurrent` | 4 commands, 2 queued prompts at most | holds |
| `settle` | `CommandsSettle`, `QueuedRun` | 3 commands, 1 queued prompt at most | holds |

Four commands are a prompt that starts the turn and three that fill the queue
and push one out, or two queued ones and an interrupt; every request has its own
timeout, refusal and late reply. The liveness run has one command less: a
started prompt, a queued one, and one that interrupts, or that replaces the queued
one.

**Fairness** (`FairSpec`): weak fairness of the event loop's own steps
(microtasks, lines that have arrived, the exit event, the end by an unhandled
rejection), of timers, and, for `QueuedRun`, of App Server's reading and of the
end of its turns. The last is an assumption about a program outside this
repository: nothing in the adapter ends a turn that App Server does not end. No
command has to arrive and nothing has to fail.

Three things hold of the code that no document speaks about, so they are
hazards and not findings: a prompt whose `turn/start` timed out may run although
its client heard an error; a refused queued prompt ends the agent; and once App Server
has exited in the middle of a turn, prompts are queued with `ok` for ever.

## 7. Devices and commands: `DeviceGrants`, `DeviceRegistry`, `RelayAccess`

`DeviceRegistry` is the map in memory, the file, and the queue of writes between
them; `DeviceGrants` is what callers may rely on: a device's standing (unknown,
paired, revoked) only moves forward, and what a caller was told of it survives
every crash. In the mapping the standing is what memory has, or, while no relay
runs, what the file has.

| Source | Model |
|---|---|
| `this.devices`, the file | `devices`, `file`: a standing per device |
| `persistQueue` | `persists`: for every write, what its caller will report |
| `issue`, `verify`, `revoke` | `Issue`, `Verify`, `Revoke` up to their await |
| `persist` | `TakePayload` (after `mkdir`), `Rename`, `Persisted`; `PersistFails` at each await |
| end of the process | `Killed` |

`RelayAccess` adds the rest of the way:

| Source | Model |
|---|---|
| `pairingOffers` of the host | `offer`: a registration of a code, by number |
| `agents`, sockets of the agent | `agents`, `links`; `AgentConnects`, `LinkEnds` (the socket is no longer open), `LinkCloses` (the close handler, which may run much later than that and than `authenticate` of the next) |
| `registerPairingCode`, `registerPairingOffer` | `OfferArrives`, `HandleOffer` |
| `agentFrameQueue` | `frames`, `checking` (its first awaits `verifySignature`) |
| `POST /pair` | `Pair`, `PairLapsed`; the answer waits for `Persisted` |
| `DELETE /devices/:id` | `Remove` |
| `handleClientFrame`, `verifyApprovalAuthorization` | `StartCheck` up to the await, then `Refuse`, `Expire`, `Offline` or `Forward` |
| a write that fails | `Write`, except of a revocation: that rejects in a handler nobody awaits and ends the process, `Kill` |
| `pairDevice`, `saveSettings`, `removeDevice`, `resolveApproval`, `askForSaferPath` | `AskToPair` and `Adopt` or `PairingFails`; `SaveSettings`; `Remove`; `Decide` and `SendDecision` (signing awaits between them); `SendPrompt` |
| `ensureDeviceKeyPair` | `StoredKey` and `StoreNewKey`, in pairing (`AskToPair`, `MakeKey`) and in signing (`Decide`, `SendDecision`), which may make keys at the same time; `LoseKey`, when the stored one is gone or can no longer be read |
| `ControlClient` | `ClientConnects`, `ClientRejected`, `ClientLoses`; `Configure` when the settings change |

**Abstractions.** One host, and one tab of a browser that sends commands; others
pair, too, or act with the shared token. A device id stands for its token, and
ids and tokens do not repeat. Key pairs of the browser are numbered, and
`publicKey` has for each device the number of its own, 0 for another browser's. A
signature is known by the device it names and by the key that made it; it is valid
if that key is the one the device was paired with. Saving settings may happen at any
time and leaves the token or puts back the shared one. A command's content and id, the answer to its sender, and the
events that share the queue (`EventPath`) are left out. The relay has a registry.
Writes are not synced and power losses not modelled: the code promises nothing
about them. A file that does not parse cannot come from `rename`, which replaces
it as a whole.

| Run | Checks | Bounds | Result |
|---|---|---|---|
| `access` | `TypeOK`, `OneDevicePerOffer`, `NewestLinkServes`, `ImplementsDeviceGrants`, `RevokedIsSilent`, `HandledInOrder`, `ForwardsAreLive`, `RefusedForReason` | 2 devices, 2 writes in the queue, 4 connections of the agent, offers, commands or lost keys taken together, 1 kill of the relay | holds |

Two devices are a browser and another, or one browser paired twice; two writes are a
revocation and one that overtakes memory behind it. A pairing takes a connection and an
offer, so the four events allow after it: two decisions, one waiting while the other is
checked; a decision and the connection that replaces the first during its check; a
lost key and a decision with the next one; a second offer and a decision for either
device. Two devices and two decisions at once are more than the run reaches; the
theorems of section 9 have no such bound.

`RefusedForReason` lists all that makes the relay refuse a decision: its device is
revoked; the settings named no device, so nothing was signed (`saveSettings` keeps a
paired device's token and drops its id, `App.tsx:621`); they named another device
when it was signed; or the browser has lost its key pair and goes on with a new one,
which the relay does not know (`connection.ts:92`). The second and the last are
hazards of the code that nothing in the repository excludes. What the property
excludes is every other reason: neither another pairing, a new connection, a restart
of the relay, nor two calls of `ensureDeviceKeyPair` at once may do it.

`RevokedIsSilent` speaks of a decision that arrives after its device's revocation was
*reported*. A revocation during the check of a signature that was valid when the
check began does not stop that command, nor does one of the socket's later
commands that needs no signature: a revocation closes no sockets, and the
documents promise only that the token and the key are no longer good.

## 8. The DeepSeek Harness bridge: `DshBridge`

| Source | Model |
|---|---|
| `this.socket`, `authenticated`, `reconnectTimer` | the same names; `sockets` has the state of every socket ever made, since old ones still have handlers |
| `start`, `stop` | `Start`, `Stop` |
| `connect` and its handlers | `Opens`, `Error`, `Close`, `Reconnect`; `Authenticated` and `Rejected` for `auth.result` on any socket, as `handleRelayFrame` does not look which one it came by, nor whether that one is closing |
| `publishEvent`, `publish`, `flushQueue` | `publish`, `Authenticated` |
| `HarnessEventMapper` | `SessionEvent`, `ToolCall`, `Mapped`, `commandFromCall`, `Digest` |
| `requestApproval` | `requestApproval`, `TimesOut` |
| `handleCommand`, `resolveApproval` | `handleCommand`, `Settle`: one step, there is no await |

The environment is the Harness, the network, the clients (`Decide`) and a relay
that may lose, repeat, delay and readdress decisions.

**Abstractions.** `Watched` names the types of events that the history `sent`
keeps, with their numbers; of the others only the count matters (nothing is
watched in `dsh`). How long a reconnection waits is left out. Timers are
punctual in units of the clock: `Tick` waits for a timeout that is due. The
code checks an approval's life by that timer alone, so a machine that sleeps, whose
clock goes on while its timers do not, is outside this model. As timer and
decision of the same moment may come in either order, the deadline in the mapping
to `OneShotApproval` is the moment after.

| Run | Checks | Bounds | Result |
|---|---|---|---|
| `dsh` | `TypeOK`, `OneOutcome`, `NeverStranded`, `ImplementsOneShotApproval`, `RequestsSettle` | 2 approvals, 2 decisions, 2 sockets, 1 queued frame, clock 0..1 with both lives 1, no more reports after the first number | holds |
| `order` | `OnlyDuplicatesIgnored` | 1 approval, 2 sockets, queue of 4 | **violated** |

Two approvals and two decisions are what disagreement, repetition and
readdressing need; the clock reaches both deadlines; two sockets are one and the
one that replaces it, whose handlers may come in any order; a third would repeat the
same with another number.

`order`: `auth.result` publishes `host.connected`, which takes the newest number, at
once, and only then flushes the queue, whose events have older numbers: a client
that gets all of them in order ignores the queued ones, an `approval.requested`
among them (`bridge.js:252`; `docs/architecture.md:96-98` lets clients ignore
duplicates, and `docs/roadmap.md:32` has event replay as done).

**Fairness.** `RequestsSettle` is checked under weak fairness of the clock and of
each approval's timer. Neither a decision nor a connection is assumed.

`CHECK_DEADLOCK FALSE` in every run: each system may stop, at its bounds and, for the
journal, when it is closed with nothing queued; for the agent, when it has ended.

## 9. What is proved

For every value of the constants that satisfies the named assumptions of the
modules (positive window, bounds in `Nat`, `Cut \notin Nat`, …) TLAPS checks:

| Module | Theorem | Says |
|---|---|---|
| `EventJournalProofs` | `TypeCorrect` | `Spec => []TypeOK` |
| | `SnapshotsAreOrdered` | `Spec => []SnapshotOrdered` |
| | `AcknowledgedEventsSurvive` | with `SyncWrites`, or without power losses, `Spec => []AckedSurvives` |
| | `FileStaysBounded` | `Spec => []JournalBounded` |
| | `JournalIsDurable` | with `SyncWrites`, or without power losses, `Spec => ImplementsDurableLog` |
| `CodexApprovalsProofs` | `TypeCorrect` | `Spec => []TypeOK` |
| | `EveryAnswerIsADecision` | `Spec => []AnswersAreDecisions` |
| | `EveryEffectIsAnAnswer` | `Spec => []EffectsAreAnswers` |
| | `EveryOkIsAnAnswer` | `Spec => []OkMeansAnswered` |
| `CodexPromiseProofs` | `AdapterKeepsPromise` | `Spec => ImplementsOneShotApproval` |
| `CodexTurnsProofs` | `TurnsTypes` | `Spec => []TypeOK` |
| | `OkIsDone` | `Spec => []OkMeansDone` |
| | `QueuedInOrder` | `Spec => []DoneInOrder` |
| | `NoneForgotten` | `Spec => []NothingForgotten` |
| | `ActiveKnown` | `Spec => []ActiveIsCurrent` |
| `EventPathProofs` | `PathTypes` | `Spec => []TypeOK` |
| | `HistoryIsFollowed` | `Spec => []SubscribersFollowHistory` |
| | `ShownIsLastTaken` | `Spec => []ShownWasSaid` |
| | `WaitingHasReason` | `Spec => []WaitingMeansPending` |
| | `OvertakenOnly` | without `LateRuns`, `Spec => []OnlyOvertakenIgnored` |
| | `PendingIsTrue` | without `LateRuns`, `Spec => []ViewIsTruth` |
| `DshBridgeProofs` | `BridgeTypes` | `Spec => []TypeOK` |
| | `OutcomesAgree` | `Spec => []OneOutcome` |
| | `BridgeNeverStranded` | `Spec => []NeverStranded` |
| | `BridgeKeepsPromise` | `Spec => ImplementsOneShotApproval` |
| `DeviceRegistryProofs` | `RegistryImplementsGrants` | `RegistrySpec => ImplementsDeviceGrants` |
| `RelayAccessProofs` | `AccessTypes` | `Spec => []TypeOK` |
| | `CommandsInOrder` | `Spec => HandledInOrder` |
| | `AccessImplementsGrants` | `Spec => ImplementsDeviceGrants` |
| | `CodesPairOnce` | `Spec => []OneDevicePerOffer` |
| | `LastLinkServes` | `Spec => []NewestLinkServes` |
| | `RevokedDecideNothing` | `Spec => RevokedIsSilent` |
| | `ForwardedInTime` | `Spec => ForwardsAreLive` |
| | `RefusedWithReason` | `Spec => RefusedForReason` |

**Journal.** `AckedSurvives` speaks of memory and of what was acknowledged; it is
not inductive because a restart replaces the memory by what the file holds.
`IInv` adds that every *promised* event (acknowledged, or recorded and waiting
for a compaction) is held by the file and by each stale file a power loss could
bring back: among the lines no failure can take, or pushed out of the window by
later ones, or behind a line that does not parse, when startup refuses the file
and shows nothing (`DiskInv`); that records are in order in every file
(`FileOK`), in the window (`WindowInv`) and in the queue behind them
(`QueueInv`); and what the file looks like at each await (`OperationInv`). The
condition `Durable` in the theorem is needed: without synced writes a power loss
does take acknowledged events, as the option's name says. Lemmas say what
each file operation does to a file that satisfies `FileOK`. The refinement of
`DurableLog` follows: `Open` recovers because `IInv'` holds of the window it
replays, the end of a write admits because what is written is newer than the
window (`OperationInv`), the end of a compaction acknowledges because its event
is already promised; what ends the process fails, and the rest is not seen.

`JournalBounded` speaks of the file between operations; `SizeInv` says why it stays
bounded within one: a line that `persistedLines` does not count was written by a
call that failed, or is about to be counted, so that the file reaches the limit at
most one line and the failed calls before `compact` is asked for, and a rewritten file
has the window's lines only.

**Approvals.** `IInv` ties each entry of `pendingApprovals` to its request
(`EntryInv`: of this run, same digest and id, never answered), says that request
ids of this run are numbered from `earlier` (`IdInv`), that a line still to be
read asks something never shown, and only one line does (`StdoutInv`), and that
every response on its way carries, under the ids of this run, an answer or a
deserved error (`StdinInv`, `EffectInv`). A restart keeps it because it empties
pipes and map when it moves `earlier`. For the refinement of `OneShotApproval`
every step that answers and shows nothing is a lapse of those approvals that
leave `pendingApprovals`, of none as a rule; what is opened was never shown
(`StdoutInv`), and what is settled was never answered (`EntryInv`).

**Turns.** `Inv` is the conjunction of eight parts, and `EveryMove` splits `Next`
into the ways in which a request, a task, a line or a queued prompt can move, so
that each part is shown for each way once. `KnownInv`: whatever is under way is of a
command that has arrived. `ReplyInv`: an id is of one request, in the table, in the
pipe and in the replies, also when the table has forgotten it at its timeout; and a
good reply means that App Server has done what was asked. From it `OkInv`, which is
`OkMeansDone`. `LoadInv`: before the thread is loaded there is no turn, no queue and
no request but the one that loads it. `TurnInv`: the lines still to be read lead from
`active` to the turn App Server is in; `ActiveIsCurrent` is the case of none.
`OrderInv`: what is done, in App Server's pipe, about to be started and queued, read
in that order, has each command once and the queued ones in order; `DoneInOrder` is
its first part. `KeptInv`: a queued prompt is in one of those places or had to make
room; it is `NothingForgotten` with the places named.

**The way of an event.** The first four theorems need no assumption on the order in
which anything arrives. `TypeInv` says what an event on any of its ways is: one a host
may say (`Spoken`: its id is its run and number, the first of a run connects the
host, a decision is about an earlier event) and has said by now (`Said`). What a
client makes of *any* sequence of such events is `ViewFacts`: it remembers ids only of
what it was handed, its sequence number of the host is that of the event it took
last, it knows the host if it took a `host.connected`, of an approval it shows what it
took last (`ApprovalsKnown`), and a session that waits does so for a reason it took
(`WaitKnown`). It is proved by induction over the length of the
sequence: `Induct` derives that from the well-foundedness of the natural numbers,
since the library's induction theorem cannot be used. `ShownWasSaid` and
`WaitingMeansPending` are cases of it.

`SubscribersFollowHistory` needs that nothing is handed over twice: `FlightInv` (an
event is on its way at one place at most) and `SettledInv` (what is in the file, in the
history or handed to a client is not under way any more) make what the relay handles
new to all of them, and `FollowInv` says that the history is the end of what a
subscribed client is handed.

`OnlyOvertakenIgnored` needs the order of runs: `WireOrder` says that a connection
carries frames of its own run only and later connections are of later runs,
`ArriveOrder` that runs do not go back in the relay's queue, in what it keeps and in
what a client is given. Both need that no frame of an earlier run arrives once the
host has connected again (`~LateRuns`): with such frames TLC finds this property
and `ViewIsTruth` violated within the bounds of `late`, as it does `OutOfOrderIgnored`.

`ViewIsTruth` relates the client to the agent, which may be far ahead: `TruthInv` says
of all events that are anywhere on their way, on disk or with the client that none
of them decides what the agent waits for, that what it waits for was a request,
that no event decides what it has forgotten, and that each other request of this run
has a decision with a number of its own. A client that was handed all numbers of the
run, in order, then has the requests and the decisions, and took them by
`OnlyOvertakenIgnored`.

**The Harness bridge.** `LinkInv` adds to `NeverStranded` only that a running
bridge has a socket. `ApprovalInv` says that what is pending is what has a timer,
that no timer is late, so that a decision finds its approval in time, and that no
verdict is about something pending. `Tick` keeps it because it waits for timers that
are due, which is what the model assumes of them. Neither needs the queue or the events;
`BridgeInv` has them, for the types and for `OneOutcome`: what is pending has no
outcome yet, and every event that tells an outcome and every verdict is about
something that is not pending and has one (`OutcomeInv`), so that whoever settles an
approval is the first to say anything about it.

**Devices.** `IInv` of `DeviceRegistryProofs` orders what is known of each device: what
was told is no further than the file, the file no further than what is being
written, and that no further than memory; and each waiting write reports no
more than the copy it has come to. A kill forgets only memory and the write, so
what was told is still in the file. The mapping's standing changes from memory to
file at a kill and back at `Open`, and neither loses what was told.

**Access.** `AccessInv` of `RelayAccessProofs` adds: the offer that can be used
has paired nobody (`OfferInv`); only the registered link can be open, and it is
the last (`LinkInv`); a check under way is of no late decision, as it began when
memory had the device as paired, and memory is never behind what was told
(`CommandInv`); and whoever signs for a device was told of its pairing, with a key pair
of the browser, which makes only one as long as none is lost (`KeyInv`, `OneKeyPair`). `QueueInv` says that commands wait in the order in which they
came and behind the last that was answered, and `KindInv` has what is left of the
types. From them follow the invariants, and, with a lemma that only
`Forward` forwards and only `Refuse` refuses, the action properties. Every step
of the system is a step or a stutter of `DeviceRegistry`, so the refinement
carries over. `Nobody \notin Devices` and `Shared \notin Devices` are the assumptions.

Each proof has one step per action and uses lemmas for what several share.

**Only model-checked:** `AppendsSettle`, `CommandsSettle`, `QueuedRun` and
`RequestsSettle`: liveness under fairness is out of the prover's reach. The properties
of the runs that expect a violation are refuted, not proved.

## 10. What is not modelled

The reconnection timers of the agent's relay client and of the browser
(`relay-client.ts:134` is a hazard without a property); two tabs of one browser
that pair at once and would overwrite each other's key pair
(`connection.ts:65`); the offer of a host's former run that is handled after the
new run's (`server.ts:112`), as the model gives every offer a code of its own
but does not ask whose code the agent prints; field limits
(`event-factory.ts:19` may throw on one after the adapter has kept the
approval); the authentication timeout; a history of more than 2000 events,
which clients reject (`schema.ts:211`), a matter of configuration.

The demo adapter is a scripted session for demonstrations. Configuration, entry
points and probes are read once and keep no state. Texts and layout have no
control flow that matters: what React components decide is in `RelayAccess` and in the
environment of the other modules. Deployment and examples are not part of the
running system.

## 11. Running it

    tlc -workers 2 -config MCEventJournal_journal.cfg MCEventJournal
    tlc -workers 2 -config MCCodexApprovals_approvals.cfg MCCodexApprovals
    tlc -workers 2 -config MCEventPath_path.cfg MCEventPath
    tlc -workers 2 -config CodexTurns_turns.cfg CodexTurns
    tlc -workers 2 -config CodexTurns_settle.cfg CodexTurns
    tlc -workers 2 -config RelayAccess_access.cfg RelayAccess
    tlc -workers 2 -config MCDshBridge_dsh.cfg MCDshBridge
    tlapm EventJournalProofs.tla
    tlapm CodexApprovalsProofs.tla
    tlapm CodexPromiseProofs.tla
    tlapm CodexTurnsProofs.tla
    tlapm EventPathProofs.tla
    tlapm DshBridgeProofs.tla
    tlapm DeviceRegistryProofs.tla
    tlapm RelayAccessProofs.tla

`approvals` has about 3.3 million distinct states, `path` about 4.4 million,
`access` 3.5 million and `dsh` one million (with a temporal property); each takes
one to two minutes with two workers.
