# Tautline: TLA+ models and proofs

Tautline is a Go server that gives a ChatGPT conversation tools on a local
machine: file and shell tools, long-running processes, delegated sub-agents,
external MCP servers, a tunnel and a dashboard. This directory models the parts
whose correctness depends on the order in which concurrent things happen, checks
them with TLC on small instances, and proves every safety property of these runs
for every instance with TLAPS.

`PROJECT.json` maps each definition to the lines it stands for, lists the runs,
the hazards the properties are aimed at, the deliberate mutants that show each
property can fail, and the places where code and documentation disagree.

Run a configuration with `tlc -config MCAgentManager.cfg MCAgentManager`, the
proofs with `tlapm DelegationProofs.tla` (`RelayBridgeProofs`,
`ArtifactStoreProofs`, `GatewayProofs`, `WorkspaceProofs`,
`ProcessSessionsProofs`, `ExternalMCPProofs`, `LightpandaProofs`).

## Inventory

All Go files are in `src/cmd/tautline`. "Hard" names what a unit test hardly
reaches.

| Component | State | Operations | Talks to | Hard | What makes it correct |
|---|---|---|---|---|---|
| Agent manager (`agents_v2.go`, `agent_relay.go`) | slots, runs, history, contexts, `agents.json` | add/remove/update slot, delegate, claim, complete, cancel, time out, execute | dashboard, tool handlers, 9Router, relay bridge through the handlers | four finishers race; locks dropped between decision and finish; restart; failed writes | one outcome per run, exact capacity, secrets only while usable, every run ends |
| Relay bridge (`relay_bridge.go`) | dispatches, order, wake channel, leases | enqueue, mark, poll, acknowledge, clean up | tool handlers, browser extension over HTTP | waiting polls sharing one token; leases; late and duplicate acks | a prompt is handed out at most once, in order, and erased on every way out |
| Tool handlers and extension (`agent_tools_v2.go`, `background.js`, `content.js`) | position of each handler, tabs, acks in flight | delegate_task, claim, complete, cancel; poll, open tab, submit, report | manager and bridge, no common lock | interleaved handlers, lost responses, closed tabs | what the bridge shows is never ahead of the run |
| Process sessions (`process_sessions.go`) | session map, output buffers, timers, processes | exec_command, write_stdin, wait, remove, shutdown | runtime shutdown | two polls of one session; exit during a poll; shutdown while serving | output once, in order or reported lost; running sessions reachable; finished ones forgotten |
| External MCP (`external_mcp.go`) | configurations, connections, published tools, clients | add, update, remove, connect, disconnect, call, connection lost | configuration store, remote servers, MCP server's tool table | requests between two locks; retry; failed save | published tools and open clients match the records; disabled stays down |
| Configuration store (`config_v2.go`) | value and `config.json` | snapshot, update, save | everything | failed write after the value changed | memory and disk agree or the failure is reported |
| Tunnel (`tunnel_v2.go`) | the cloudflared command, an adopted connector, the public URL, capture and wait goroutines | start, adopt, capture, wait, stop, route a domain | dashboard, autostart, OAuth server through the public URL | two starts; an old goroutine writing into a new start; a connector of somebody else | the tunnel that runs is known and stoppable |
| Lightpanda (`lightpanda.go`, `lightpanda_mcp.go`) | the CDP server and its starting flag; the native client and two locks | start, probe, stop; open, call, retry, discard, close | dashboard, autostart, tool calls | concurrent starts; a client lost, replaced and discarded by several calls | one server; every browser owned; a healthy client kept |
| OAuth server (`oauth.go`) | codes, clients, `oauth-clients.json`; tokens carry their own claims | register, approve, exchange, refresh, admit | HTTP, the tunnel's URL | one-time codes; failed registry write; URL and owner token change | what is admitted was approved; a client in force is on disk |
| Workspaces and worktrees (`workspaces.go`, `worktrees.go`) | registry, active workspace, `workspaces.json`, git worktrees | register, activate, unregister, restore, create, remove | all file tools | written after the unlock; multi-step clean-up; crash | the file is the registry; no worktree without an owner |
| File tools (`tools.go`, `changes.go`, `context_io.go`) | a file, its recorded original, cursors | write, edit, show_changes, read | workspace state lock, the disk | no lock from read to replacement; a file edited between two pages | a review shows every change; pages of one version |
| Artifact store and bash capture (`context_io.go`, `tools.go`) | calls, blobs, manifests, temporary files | run, time out, capture, read, quota clean-up | bash and artifact_read tools | reads without the lock; stop between blob and manifest; processes left behind | a manifest's blob exists; the newest artifact stays; a call returns |
| Activity monitors (`activity.go`) | 64 monitors, bounded events, the active one | start, capture, record, bind | every tool call | a monitor captured before a call and used after it | results go to the prompt they belong to |
| The rest: `read_many.go`, `skills.go`, `doctor.go`, `codex_instructions.go`, `router_v2.go`, `google_docs_native.go`, `external_mcp_oauth.go`, `ui_*.go`, `web/`, scripts | files, remote services | sequential calls | - | little concurrency | results are texts |

## Modules

| Module | Models |
|---|---|
| `AgentManager` | `agentManager` with the ChatGPT relay: slots, runs, history, goroutines, restart |
| `RelayQueue` | what the bridge promises: a mailbox with one hand-over per prompt |
| `RelayBridge` | `relayBridgeManager`, shown to implement `RelayQueue` |
| `RelayBridgeProofs` | its inductive invariant, theorems, and the proof that it implements `RelayQueue` |
| `RelayDelivery` | `AgentManager` and `RelayBridge` composed with the tool handlers and the browser |
| `DelegationProofs` | the inductive invariants and theorems of `AgentManager` and of `RelayDelivery` |
| `ProcessSessions` | `processSessionManager`, its processes, and the server's shutdown |
| `ProcessSessionsProofs` | its inductive invariant and theorems |
| `ExternalMCP` | `externalMCPManager`, the part of the configuration store it uses, remote servers and tool calls |
| `ExternalMCPProofs` | its inductive invariant and theorems |
| `ArtifactShelf` | what the artifact store promises: readable artifacts, evicted oldest first |
| `ArtifactStore` | a bash call and the store's directory, shown to implement `ArtifactShelf` |
| `ArtifactStoreProofs` | its inductive invariant, theorems, and the proof of that |
| `Tunnel` | `tunnelManager`, cloudflared processes, ours and others' |
| `OAuthServer` | `oauthServer`, its registry file, codes and tokens |
| `Gateway` | `OAuthServer` behind the public URL of `Tunnel` |
| `GatewayProofs` | the invariants and theorems of tunnel and OAuth server, and that the gateway's tunnel is a tunnel |
| `Lightpanda` | `lightpandaManager`: the CDP server and the native MCP client |
| `LightpandaProofs` | its inductive invariant and theorems |
| `WorkspaceRegistry`, `ActivityMonitors` | state and operations of the registry with its worktrees, and of the monitors; no actions of their own |
| `ToolCalls` | concurrent tool calls made of their operations, with crashes and deleted directories |
| `WorkspaceFiles` | write, edit, show_changes and paged reads on one file |
| `WorkspaceProofs` | the inductive invariants and theorems of `WorkspaceFiles` and of `ToolCalls` |
| `MC*` | the same modules as TLC instantiates them |

Definitions keep the source's names where there is one (`finishRun`, `Claim`,
`cleanupLocked`, `MarkRun`, `Drain`, `Snapshot`, ...). A definition whose
comment begins "Mutant of" is a deliberately broken variant of the next
definition; no specification uses it.

### AgentManager

One action is one critical section of `agentManager.mu`, or one step of a
goroutine between two. `cancelRun` and `completeChatGPTRelayTask` unlock before
they call `finishRun`, so each is a `...Begin` and an `...End`, with the call in
between recorded in `cancelling` or `finishing`. `go` is where a run's goroutine
stands (`watch` for a relay run; `exec`, `round`, `call` for a 9Router run) and
`ctx` its context, which ends by cancellation or by its deadline. `disk` is
`agents.json`; every slot edit may fail to write it, which `dirty` remembers.
`Restart` loads the slots back and forgets everything else. `trimRunsLocked` is
a pair of operators over the history (`TrimHistory`, `TrimRuns`) that includes
the code's rotation of an active head.

Two behaviours of the code are visible in the properties. A run can be trimmed
while its status is `finishing`, which leaves its slot busy until a restart;
`CapacityAccounted` allows exactly that and nothing else. The first step of a
9Router goroutine writes `running` over whatever status the run has;
`OutcomeKept` allows exactly that, and `CancelledIsFinal` shows it contradicts
the expectation of the repository's own test.

### RelayQueue, RelayBridge

The bridge's clocks are flags that may rise at any time: the lease lapsed, the
expiry passed, the record is an hour old. `cleanupLocked` is applied to every
dispatch at the start of the operations that call it in the code, and not by
`markRun`, which does not. The wake channel is one Boolean; a client is `idle`,
`waiting` in the select of `next`, or `woken` and about to look.

`ImplementsQueue` maps a dispatch to a box that is new, waiting, out or closed.
It fails when a dispatch is handed out again after a lapsed lease, handed out of
order, or returns after it was closed.

### RelayDelivery

Handlers call the manager and then the bridge; `delegating`, `marks` and
`fetching` hold what a handler still has to do, so that any other handler, timer
or browser event can come between. A response of `next` or an acknowledgement
may be lost, a tab may be closed at any time, both listeners may acknowledge.
A restart empties manager and bridge but not the browser. A worker is anyone who
knows the join code, from the submitted prompt or from the reply of
`delegate_task`, which both follow the enqueue.

### ProcessSessions

No operation of the session manager holds two locks, so a tool call is a
sequence of steps whose position is in `calls`. Output is counted in chunks; the
buffer and a reply hold a bounded number of them, as the code's byte limits do.
The byte-wise truncation inside a chunk is abstracted. Writing to a process that
does not read blocks the call; nothing in the code bounds that, so `CallsReturn`
excludes it and no fairness is assumed for it.

### ExternalMCP

`connectMu` covers a whole connect or disconnect; configuration and connection
map change under a request between its steps. `updateConfig` and `removeConfig`
are three steps: look, disconnect, store. A store whose file write fails keeps
the new value and ends the request. `stray` is a history variable: the servers
that a store of the configuration left connected although the new value does not
enable them. `DisabledStaysDown` is about all others; without `stray` the
property would be false (the removal described under "What the runs check").

### ArtifactShelf, ArtifactStore

A bash call runs its shell (`running`), waits for the output pipe to close
(`draining`), waits for `artifactStoreMutex` (`captured`) and then goes through
`finalizeCommandCapture`: `placing` the blob, `recording` the manifest,
`sweeping` the quota. The mutex excludes other calls, but the server may stop
between two file operations, so each is an action. `held` says that a process the
command started still has the pipe, `late` that the context has ended; only the
shell is killed then. A call that is cut off leaves its files in `tmp`, which any
later call or `artifact_read` removes when they are half an hour old; the same
happens to the raw file of a call that waits so long for a process left behind,
and its output is `lost`.

`artifact_read` has no state of its own. It reads a manifest and then a blob, and
both are immutable once there; as `ManifestHasBlob` holds in every state, a read
that finds no blob read the manifest of an artifact evicted since. A blob whose
manifest was never written, or was removed just before a stop, stays for ever
and counts against the quota, so that later clean-ups evict more; nothing in the
repository says otherwise, and no property here excludes it. Not modelled: a
removal that fails, two servers on one directory, a clock set back.

### Tunnel, OAuthServer, Gateway

`start` is seven steps between which it holds no lock: the check for a running
command, the list and the creation of a named tunnel, the detection of a local
connector, and then either the adoption or launch and commit. `procs` is what
the operating system knows, `command` what `m.command` holds; a process that
ended is `exited` until its `wait` goroutine has run, and in between the check
may see either (`MayLookDead`), because `Wait` sets `ProcessState` outside the
lock. `overlapped` is a history variable: two starts were under way together.
`OnlyOverlapLosesTunnels` says that nothing else loses a tunnel.

`OAuthServer` has the public URL as a parameter of its actions; `Gateway` gives it
`baseURL`, which asks the tunnel. Tokens keep no state in the server, so `tokens`
is what clients hold; each is tagged, for the property only, with the code it
comes from, and `consents` is what the owner approved under that code.
`ConsentedAccessOnly` then relates a request to an approval across exchange,
refreshes, restarts and tunnel changes. A generated owner token changes with
every start of the server (`Key`), one from the environment does not.

Seen while modelling, and not stated by any document: `m.publicURL` is not
cleared when a quick tunnel ends, and a late capture goroutine stores its URL
over a newer tunnel's, so `baseURL` may name a tunnel that is gone; the tokens
issued then are for that URL. A command hides an adopted connector from `stop`.
`replaceOAuthStateFile`, and its twin for workspaces, removes the old file when
the rename over it fails, so a stop there loses the file; `torn` and `disturbed`
stand for that in the properties.

### Lightpanda

The server has one lock for single steps and the flag `starting` for a whole
start. The native client has two locks, and a call that fails discards the
client under both, only if it is still the current one, and tries once more.
`ConnectionLost` may come before the client is stored, which leaves a dead
client (`missed`) that the next call replaces. A client whose connection was
lost is forgotten without `Close`; a call in flight when the server shuts down
may open a browser after `closeNativeMCP`. Both follow from the code and no
property excludes them; a browser that is `up` always has an owner.

A call ends without a result in two ways. In its first try there may be no
client for it (`unopened`): nothing was sent. Once it was sent and failed, it is
`failed` whether its second try fails or no client can be opened for that
("failed and reconnect failed"). `faults` counts what the call has met: lost
browsers, failed calls on them (its own or another call's), a shutdown, and a
browser that could not be opened for it. `FailsOnlyAfterFaults` says that one
fault never makes a call fail that was sent, and that without any no call lacks
a client, also when several calls discard and replace clients under each other.

### WorkspaceRegistry, ActivityMonitors, ToolCalls

The first two modules are operators on state, each one critical section of
`workspaceStore.mu` or of the activity store's lock; `ToolCalls` composes them
into calls: what `activityMiddleware` captures, the handler's steps, what is
recorded afterwards. `persistWorkspaceRegistry` is a copy and a write, between
which another call may do both. `disturbed` remembers that two calls did so, or
that a write failed; it is cleared by a copy nobody else competes with.
`left` is the worktrees a crash or a failed removal left.

What the code does here that a reader may not expect: of two overlapping
changes the older copy may end up in `workspaces.json`; after a restart without
an active workspace the last root in order becomes the default, not the first;
a call that refers to an unknown workspace binds the monitor to it all the same;
and `bindWorkspace` binds whichever monitor is active when it runs.

### WorkspaceFiles

One file is enough, since each path has an original of its own. `write` and
`edit` are four steps: read, stat, record the original under the workspace's
lock, replace. `show_changes` holds that lock from its read to its reset, but
the replacement of the file does not, so a review that overlaps a write may
report it twice or not at all (`overlapped`). `NextReviewComplete` is about one
life of the server: the originals are in memory only, and a restart loses them. A cursor carries the hash of the
version it was made for. `flawed` marks a read without a window that was cut
within a line (`readTextBounded` stops at a byte and the cursor goes on with the
next line, so the rest of that line is shown by no page) or whose hash is of a
newer file than its text, since it opens the file twice (`context_io.go:684` and
`688`); `PagesOfOneVersion` is about all other reads. It counts lines: the middle
of a line over 2048 bytes is elided from every page (`context_io.go:864`).

## What the runs check

Passing runs. Deadlock is checked in the first six but `process_sessions`, whose
server may exit; the others have bounds on processes, lives or monitors at which
the model stops.

| Run | Instance | Properties |
|---|---|---|
| `agent_manager` | 2 runs, 2 slots, history of 1, symmetric runs | `CapacityAccounted`: unfinished runs and busy slots correspond; `SecretsConfined`: code and token exist only while usable; `SlotsDurable`: disk equals memory unless a failure was reported, never empty; `SomeoneWillFinish`: an unfinished run has someone to finish it; `RelayMovesForward`, `OutcomeKept`: outcomes are final |
| `relay_bridge` | 2 prompts, 2 clients | `HandedOutOnce`, `NoLostWakeup`, `ImplementsQueue`, `DispatchSettles` |
| `relay_delivery` | 1 run, 1 slot, 2 clients | `BridgeNeverAhead`, `SentMeansSubmitted`, and `RunsFinish`: every delegated run ends |
| `process_sessions` | 1 session, 2 calls, 3 chunks, buffer of 2, replies of 1 | `OutputAccounted`, `OutputInOrder`, `RunningIsReachable`, `FinishedForgotten`, `CallsReturn` |
| `external_mcp` | 1 server, 2 dashboard requests, 1 caller, 2 clients, failing saves | `ToolsMatchConnections`, `ClientsOwned`, `DisabledStaysDown`, `LockReleased` |
| `artifact_store` | 3 calls, 2 contents of sizes 1 and 3, quota 2 | `ManifestHasBlob`, `OutputLostOnlyLate`, `ImplementsShelf`, `UnheldBashReturns`: a call whose output no process left behind holds returns |
| `gateway` | 2 callers, a named tunnel, 2 processes of ours and a connector; 1 client and the legacy one, 1 approval, 2 lives, 2 paths | `OnlyOverlapLosesTunnels`, `CommandWillBeCleared`, `ConsentedAccessOnly`, `RegistrationDurable`, `CodeSettledOnce` |
| `lightpanda` | 2 dashboard requests, 2 servers; 2 calls, 4 clients, 2 errors | `OneServer`, `NativeClientOwned`, `HealthyClientKept`, `FailsOnlyAfterFaults`: a call that was sent fails only after two faults, an unsent one only after one |
| `workspaces` | 2 calls, a checkout and a worktree, 3 monitors of which 2 are kept, 1 event; 2 writers, 1 reader, contents of 2 and 3 lines, pages of 2 | `RegistryDurable`, `WorktreesOwned`, `PromptsKeptApart`; `NextReviewComplete`, `PagesOfOneVersion` |

Runs that show a disagreement between the code and what the repository says of
it; TLC's trace is the explanation:

| Run | Statement | What happens |
|---|---|---|
| `agent_cancel_final` | `v2_test.go:676` "cancelled run was overwritten" | cancel before the goroutine's first step; that step writes `running` |
| `process_final_output` | `process_sessions.go:48` removed after the final output is read | output arrives between the drain and the look at `running` |
| `bash_deadline` | `tools.go:283` "default 120 and maximum 300 seconds", `SECURITY.md:15` "bounded timeouts and process-tree termination" | a process the command left behind keeps the output pipe; the deadline kills the shell only, and the call waits for the pipe without a bound |

Three more, which the models contain and no run is spent on:

- `CHANGELOG.md:37` says both secrets are cleared when a run times out; the
  watcher does not tell the bridge, whose prompt holds the join code until its
  own clean-up.
- `README.md:158` says sessions are terminated at shutdown; one that registers
  after `shutdown` listed the map is not (`process_sessions.go:338`).
- `web/app.js:427` removes an integration "and its published tools"; a tool call
  that reconnects between `removeConfig`'s disconnect and its store leaves them.

Seven properties of passing runs have a named exception, a race or a stop that does
happen in this code and that they therefore do not catch: `stray` in
`DisabledStaysDown`, `overlapped` in `OnlyOverlapLosesTunnels` and in
`NextReviewComplete`, `torn` in `RegistrationDurable`, `disturbed` in
`RegistryDurable`, `left` in `WorktreesOwned` and `flawed` in
`PagesOfOneVersion`. What they show is that nothing else goes wrong.

### Bounds

- *Agent manager.* The history bound is 1 so that two runs exercise trimming,
  the rotation of an active head and the trimmed `finishing` run; two slots make
  slot removal possible while the other is busy. The bound of the code is larger
  but enters only as `MaxAgentRuns`, over which the proofs quantify.
- *Relay bridge.* Two prompts give an order, two clients a race for it and for
  the one wake token. A third of either adds no new pair.
- *Relay delivery.* One run: handlers of different runs share only the bridge's
  queue, which `relay_bridge` covers with two. Its two backends are both there.
- *Process sessions.* Sessions share nothing but the map, so one is enough; two
  calls race on it; three chunks over a buffer of two and replies of one drop
  output in the buffer and in a reply.
- *External MCP.* The requests on one server, with two clients so that a
  reconnect finds a previous one. Name collisions with other servers appear as
  the choice between `Publish` and `Refuse`.
- *Artifact store.* Three calls: two artifacts that share a blob and a third that
  evicts them. The large content exceeds the quota alone, so a clean-up may run
  out of artifacts; the two small ones fit. One call alone violates `BashReturns`.
- *Gateway.* Two callers make every race of starts, stops and domain routes; two
  processes of ours let an old one's goroutines meet a new one. The OAuth server
  sees of the tunnel only its URL, so `MCGateway` explores the tunnel with both
  callers while no OAuth request has been made, and the whole gateway while one
  caller at a time runs quick tunnels (`EachPart`), which still gives the URL
  every value and every change it can have. One code is enough as codes share
  nothing but the tokens; two lives give a restart. The proofs have no such
  bounds and are about `GatewaySpec` itself.
- *Lightpanda.* Server and native client share no state, so `EachHalf` explores
  each while the other has not begun. Two calls with their retries may use four
  clients, and two errors are what `FailsOnlyAfterFaults` counts to.
- *Workspaces.* The calls on registry, worktrees and monitors and the tools on one
  file share no state, so `MCWorkspaces` explores each while the other is as it
  was at the start (`EachPart`); the two writers are the two calls. The checkout and the worktree are two workspaces, so that the
  active one can be the wrong one. Three monitors with two kept drop one that a
  call has captured; one event per process, with a limit of one, is enough to
  reach the wrong monitor. Two contents have different lengths, the longer of two
  pages; two writers race for the original.

### Fairness

The runs `gateway`, `lightpanda` and `workspaces` state safety only: of these parts
the code promises nothing that must eventually happen beyond what their timers
end.

- `FairBridgeSpec`: extension clients poll again (their alarm and the content
  scripts wake them), a waiting poll ends by its timer, leases lapse and expiries
  pass. Nothing is assumed of acknowledgements.
- `FairDeliverySpec`: timers fire, the watcher and a runnable goroutine run, a
  call between two critical sections reaches the second. A 9Router request need
  not return before its context has ended. Nothing is assumed of workers,
  browsers and callers.
- `FairSessionsSpec`: the goroutine waiting for a process and the timers run, a
  killed process ends, calls go on - except a write to a live process.
- `FairExternalSpec`: whoever holds `connectMu` goes on, as opening a client is
  bounded by a timeout in the code.
- `FairStoreSpec`: deadlines pass and the goroutines of a call go on, a clean-up
  included. Nothing is assumed of the processes a command leaves behind, as
  nothing in the code ends them: `UnheldBashReturns` holds, `BashReturns` does
  not.

## What is proved

Each inductive invariant was model-checked, on an instance of about the size of
its run, before it was proved.

`DelegationProofs` proves of the manager, for all `RunIds`, `MaxCapacity`,
`InitCapacity` and
`MaxAgentRuns` satisfying `CapacityAssumption` and `RunAssumption`:

- `Invariant`: `Spec => []IInv`;
- `TypeSafe`, `CapacityAccounting`, `SecretsAreConfined`, `SlotListDurable`,
  `NobodyForgotten`: the run's invariants;
- `RelayRunsMoveForward`, `OutcomesKept`: its action properties.

The invariants are not inductive by themselves. `IInv` adds three facts:
`GoInv` (a run in the table has a used id, so no id is delegated twice; the
watcher serves a relay run, and the `exec`, `round` and `call` goroutines a
9Router run), `CtxInv` (the context of an unfinished run is cancelled only by a
`cancelRun` that still has to reach `finishRun`) and `RelayStatusInv`
(`CompletedAt` and the status of a relay run agree: a terminal status when it is
done, otherwise `waiting_worker`, `running` or `finishing`). Without them a step
of a goroutine left over from a trimmed run, or a cancelled context nobody
reacts to, would break the claims. The proof has one lemma per action;
`trimRunsLocked` is handled by lemmas saying that a trimmed table keeps a run or
clears it, and that a kept history is a sequence of run ids, using the library's
facts on finite sets and cardinality.

Of the composition it proves, for all `Clients` as well:

- `DeliveryImplementsManager`: `DeliverySpec => Spec`, so all of the above holds
  behind the handlers;
- `DeliveryInvariant`, `DeliveryTyped`: `[]DInv`, `[]DeliveryTypeOK`;
- `DeliveryNeverAhead` and `SentWasSubmitted`: the run's two invariants;
- `TabsOpenOnce`: the action property `OneTabPerRun`, across restarts;
- `DeliveryDrivesBridge`: the bridge is changed only by operations of
  `RelayBridge` on typed arguments, or by a restart.

`DInv` adds three facts to `IInv` and the types. `TruthInv`: every mark on its way
and every dispatch says something `Truthful` of its run, which may have been
trimmed meanwhile but whose id never comes back. No step of the manager makes a
truth false (`StepKeepsRun`), so the order in which marks arrive does not matter;
that is the argument for `BridgeNeverAhead`. `CallsInv`: who is between two
critical sections is there about a delegated run, and only relay runs are fetched
or finished by a worker. `TabsInv`: a queued dispatch has no tab yet and was
enqueued by the one reply its run had; so a restart, which empties the bridge but
not the browser, cannot bring a prompt into a second tab, and an acknowledgement
of a submission is never about another tab.

`RelayBridgeProofs` proves for all `Runs` and `Clients` with
`ClientAssumption`:

- `BridgeInvariant`: `BridgeSpec => []BInv`;
- `BridgeTypeCorrect`, `PromptErased`, `OneHandOver`, `WakeNeverLost`: the run's
  invariants, the last one for any number of waiting polls on the one token;
- `MarksLast`: the action property `AckNeverDowngrades`;
- `BridgeRefinesQueue`: `BridgeSpec => ImplementsQueue`.

`BInv` is the type invariant, `AllSound` (what holds of each dispatch by itself:
status, prompt, client and attempts agree) and `OrderInv` (a dispatch in the
table was enqueued; without it a run could be submitted to the queue twice, or
be queued where no poll looks). `WakeNeverLost` is inductive relative to `BInv`.
The refinement rests on `Keeps`: except for the run that is enqueued or handed
over, a dispatch that is pending after a step was pending before, for the same
client. So every step is the queue's `Close(Gone)`, with a `Submit` or a
`HandOver` where there is one, and `Gone` the dispatches the step settles.

`ArtifactStoreProofs` proves for all `Commands`, `Contents`, `Bytes` and `Quota`
with `StoreAssumption`:

- `StoreInvariant`: `StoreSpec => []SInv`;
- `StoreTypeCorrect`, `BlobsBehindManifests`, `TempsSurvive`: the run's
  invariants;
- `StoreRefinesShelf`: `StoreSpec => ImplementsShelf`.

`SInv` adds `TempInv` (a call that has no raw file, or a stale one, is late) and
`DirectoryInv`: one call inside the mutex, and by its stage what it has done -
the blob it is about to name exists, the artifact it sweeps for is the newest -
with every id written once. Without it the clean-up of one call could remove the
blob another is about to name. The steps outside the mutex are covered by one
lemma, `QuietStep`; the refinement uses that readable artifacts are the manifests.

`GatewayProofs` proves of the tunnel, for all `Callers`, `NamedTunnel` and `MaxTunnels` with
`TunnelAssumption`:

- `TunnelInvariant`: `TunnelSpec => []TInv`;
- `CommandCleared` and `TunnelsKept`: the run's two tunnel invariants.

`TInv` adds `OnlyStartsRun` (a domain route never gets past the creation of the
tunnel), `LaunchedThere` (a process that is launched and not yet stored was not
waited for, as its `wait` goroutine does not exist yet) and `Alone`: while there
was no overlap, at most one start is under way and it found no command or one
that has ended, which stays so until it commits. Most steps of a caller are
covered by `CallerKeeps`, most of a process by `ProcessesKeep`.

Of the OAuth server it proves, for all constants with `TunnelAssumption` and
`OAuthAssumption`:

- `OAuthInvariant`: `GatewaySpec => []OInv`;
- `AccessWasConsented`, `CodesSettled`, `RegistrationsDurable`: the run's OAuth
  properties;
- `OAuthTyped`: `[]OAuthTypeOK`, from `TInv` and `GatewayAssumption`, which says
  that `Origins` has every URL the tunnel can give;
- `GatewayRunsTunnel`: `GatewaySpec => TunnelSpec`, so that the tunnel's
  theorems hold here too (`GatewayTunnelSafe`).

`OInv` says that an open code and every token carry what was approved under
their number, that codes are not yet settled, and that a settled number was
approved, so that it is never given out again. None of it depends on the URLs:
each lemma takes an arbitrary `base`, which is why its proof needs no fact about
the tunnel.

`WorkspaceProofs` proves of the file tools, for all `Contents`, `LineCount`,
`Writers`, `Readers` and `PageLines` with `FilesAssumption`:

- `ReviewsComplete`: `FilesSpec => []NextReviewComplete`;
- `PagesFollowed`: `FilesSpec => []PagesOfOneVersion`;
- `FilesTyped`: `FilesSpec => []FilesTypeOK`.

The first rests on `Undisturbed`, for as long as no review overlapped a write: a
review has the file to itself, who is about to replace the file has an original,
and until there is one (and no command changed the file) the file and what every
writer read are what the last review saw. Without the last part a writer could
note, as the original, a version that was already reviewed. The second rests on
`Fits`: a cursor lies within the version its hash is of, and a reader that is not
flawed was shown exactly the lines before its cursor, of that version. Writers
and readers share nothing but the file, so each has an invariant of its own.

Of registry, worktrees and monitors it proves, for all `Callers`, `Roots` and
limits with `WorkspaceAssumption`, `ActivityAssumption` and `ToolCallsAssumption`:

- `ToolsInvariant`, `ToolsTyped`: `[]ToolsInv`, `[]ToolCallsTypeOK`;
- `RegistryInFile`, `WorktreesHaveOwners`, `PromptsApart`: the run's properties.

`ToolsInv` says of the registry that it is finite (so the active workspace can be
the latest one), of the monitors that their order lists existing ones, and of the
calls: `Returns`, where a call that copies or writes the registry goes on, and
`OneChange`: while nothing disturbed it, one call at a time changes the registry,
the copy it is about to write is the registry as it is, and with no such call
the file is the registry. `PromptsKeptApart` is an action property: an
operation changes no monitor but the active one, and a new one has a greater
number than all before.

`ProcessSessionsProofs` proves for all `Sessions`, `Calls`, buffer and reply limits
and amounts of output with `SessionAssumption`:

- `SessionsInvariant`: `SessionsSpec => []PInv`, the types included;
- `RunningReached`, `OutputAllAccounted`, `OutputOrdered`: the run's invariants.

`PInv` has three parts. `Reach`: session map, flags and calls agree - a session
whose process was never started is nowhere, a clean-up timer or a removal belongs
to one that has ended. `Places`: every chunk written is in exactly one place, also
while a call carries what it drained and its reply is not fixed yet, so two calls
on one session never carry the same chunk. `Newer`: what is buffered is newer than
all that left the buffer, which makes the oldest-first drop and the drain keep the
order.

`ExternalMCPProofs` proves for all `Servers`, `Admins`, `Callers` and numbers
of clients with `ExternalAssumption`:

- `ExternalInvariant`: `ExternalSpec => []XInv`, the types included;
- `ToolsMatch`, `ClientsHaveOwners`, `DisabledIsDown`: the run's invariants.

`XInv`: who is between taking and giving back `connectMu` is its one holder
(`Locked`); an open client is the client of one connection or of the actor that
has just opened or taken it, and none is opened twice (`Owned`); what a
connection records of its tools is so, at every step and not only when nobody
holds the lock (`Recorded`); and a server that should be down and is not has an
actor about to disconnect it, unless it is one of the named races' leftovers
(`GoesDown`).

`LightpandaProofs` proves for all `Dashboards`, `ToolCalls` and bounds with
`LightpandaAssumption`:

- `LightpandaInvariant`: `LightpandaSpec => []LInv`, the types included;
- `ServerAlone`, `BrowsersOwned`, `OnlyFaultyClosed`, `RetrySuffices`: the run's
  invariants.

The two halves have an invariant each. `ServerInv`: one start at a time, and until
it has stored its process the command that was there has ended. `NativeInv`: who is
opening a client holds `nativeInitMu` and nobody uses that client yet
(`ClientInv`); what is lost or closed was at fault (`FaultyInv`); and a call's
faults are at least its failed tries, counting the one it is bound to meet when
the client it would use is bad, or is gone when it reads it again (`CountInv`).
The last part is what makes "two faults" inductive: a call may be harmed by a
fault that happened before it looked, and one more is met by the reconnect.

Only model-checked are the liveness properties (`RunsFinish`, `DispatchSettles`,
`FinishedForgotten`, `CallsReturn`, `LockReleased`, `UnheldBashReturns`): fairness and
ENABLED are outside the prover. No safety property of a passing run is left
unproved. Proved with no run of their own are the type invariants,
`PromptOnlyWhilePending` and `AckNeverDowngrades` of the bridge, and `OneTabPerRun`
and `DrivesBridge` of the composition; each was checked by TLC once. What
`RelayBridgeProofs` shows of the bridge is not restated for the composition: the
prover does not use the theorems of an instantiated module, so
`DeliveryDrivesBridge` is where the two meet.

## Not modelled, and why

Texts, wording, logs, usage figures and model names; the HTTP and JSON layers;
redaction; remote services; read-only tools. A write of a file is complete or
absent; where the code removes the old file first, that is a step of its own.
`heartbeat` and the client table of the bridge only feed displays. `io` errors
other than the failed writes, removals and listings named above end a call and
change no state.

Without a module: the token files of external MCP servers and Google Docs (one
lock around each read and each replacement; the rest is remote I/O), skills and
the Hermes bridge (a cache of parsed files), doctor, the dashboard's front end
and the scripts. Of the file tools, `read_many`, search, directory listings and
instruction files read once and format. Of the configuration store, the settings
other than integrations and the custom domain. Of the artifact store, previews
and search, pure functions of one text. Of the file tools too, a restart, which
loses the recorded originals.

## Plan

Done: all components of the table above but those named under "Not modelled", each
with its proofs; the compositions of manager, bridge, handlers and browser, and of
tunnel and OAuth server.

Next, in this order:

1. Proofs: `HandedOutOnce` and `PromptOnlyWhilePending` in the composition, within
   one life of the server; that the composition implements a queue that restarts.
2. `ConfigStore`: value, file and failed writes of all settings, as `ExternalMCP`
   and `Tunnel` use it.
3. Line windows, bounded buffers and UTF-8 truncation against reference
   definitions.
