# Harness dispatch: TLA+ models, checks and proofs

The repository is a template for running software work with several language-model agents:
a project keeps its state in `progress.json`, roles (planner, generator, evaluator) are
delegated to other processes or machines, and a handful of programs move work between them.
This directory models those programs: what each keeps, what a step of it does, what may
happen between two of its steps, and which promises survive that. Line numbers and the exact
code each definition stands for are in `PROJECT.json` under `map`; names of definitions are
those of the code where TLA+ allows it.

Paths below are relative to `src/templates/claude/` unless they start with `src/`.

## 1. The system

| Component | Code | State | Operations | Talks to |
|---|---|---|---|---|
| A2A runner | `dispatch/transports/a2a-runner.py` | per task: record file and event log; in memory: slots, threads, `shutting_down`; sandboxes in sessions of their own | SendMessage, GetTask, ListTasks, CancelTask, SubscribeToTask; recovery, shutdown | client (JSON-RPC, SSE), `process-timeout.py`, sandboxes |
| A2A client | `dispatch/transports/a2a-client.py` | resume cursor, advisory record, deadline; on disk the staged artifact and `run-meta-<task>.json` | run, send, get, subscribe | runner |
| process-timeout | `dispatch/process-timeout.py` | pending signal, cause, process groups, status file | run one command under a deadline | signals, the command's processes |
| harness.sh | `harness.sh` | project files, `harness.lock` (two hashes per file), `harness.json` | init, sync, adopt, resolve, verify, status | the user's edits, a source tree |
| Dispatch receipts | `dispatch/dispatch-run.sh`, `validate-dispatch.sh`, `validate-active-return-route.py` | envelope, run-meta, receipt per task id | run a delegation once, validate it | bridges, A2A client |
| Generator handoff | `dispatch/{dispatch,accept,validate}-generator-handoff.sh` | envelope, sandbox worktree, handoff file, HEAD, index | dispatch, validate, accept and commit | git, an external agent, the coordinator |
| Planner proposal | `dispatch/{prepare,dispatch,validate,accept}-planner-proposal.sh` | envelope, proposal, audit copies | prepare, dispatch, accept | the same |
| Session bridges | `dispatch/transports/session_bridge_kimi.py`, `session-bridge.py` | one session with the vendor's CLI: process group, private home, updates read | prove one native child, end the session, report | vendor CLI, the worker in the guest |
| VM bridge | `dispatch/transports/vm-bridge-{provider,worker}.py`, `validate-external-bridge-receipt.py` | launch lock, guest roots and units, firewall, broker lease, run-meta | launch, run, copy out, check, clean up, accept | one virtual machine, session bridges, the model's service |
| L2 probe | `src/scripts/run-vm-kimi-l2-probe.py` | pinned source, private stage, evidence | one fixed launch through the provider's functions | the same virtual machine |
| Tool catalog and routes | `dispatch/tool-catalog.py`, and what asks it: `dispatch-run.sh`, `sandbox-profile.sh`, `a2a-client.py`, the provider, `validate-active-return-route.py` | none of its own; registry, adapters, manifests on disk, the resolution in the checkpoint | candidates, resolve, resolve-target | every launch and return |
| Mode intent | `console/*mode-intent.sh`, `resolve-mode-bindings.sh` | `progress.mode_intent`, `harness.json` ledger, a mkdir lock | stage, validate, consume, clear at done | harness.sh (same `harness.json`) |
| Pending gate | `console/approve-gate.sh`, `validate-pending-gate.sh`, `src/console/server.py` | `progress.pending_gate`, HEAD, backup | raise, decide, guard, consume | git, gate arbiter |
| Gate arbiter | `autonomous/gate-arbiter.workflow.js` | status of the batch, budget | propose a transition, stop at a gate | progress, agents |
| The rest | `dispatch_common.py`, hooks, bootstrap, release scripts, role prose | none that outlives a call | parsing, generation, read-only checks | |

What makes it hard, by kind (the full list, at its lines, is `hazards` in `PROJECT.json`):

* **threads of one runner**: a handler that starts a task, one that cancels it, the worker that
  claims and launches it, and the shutdown meet in one dictionary of slots and one store, under
  several short critical sections instead of one;
* **crashes between two writes**: a store operation is two to four file writes, a sync is a file
  copy per path, then a lock, then a configuration;
* **two machines**: streams break and resume, requests and answers get lost separately, the
  client's deadline races the task's end and other people's cancels;
* **processes nobody owns**: sandboxes and helpers live in sessions of their own and outlive
  whoever started them;
* **the user**, who edits files between two commands;
* **one VM, many launches**: a lock, a hole in a firewall and a credential are handed from launch to
  launch, and a killed provider gives up the first at once and the others not at all;
* **a vendor's process**: it says what it likes in any order, leaves helpers, holds pipes open;
* **answers that age**: what the catalog vetted is read again by each program on the way to a launch,
  while people, git and updates change the files;
* **one repository, several writers**: a reviewed change waits in a clone while others commit, and
  `git commit` takes whatever is in the index.

## 2. The modules

```
TaskStore ── A2ARunner ──┬── MC_A2ARunner          (instances)
    │                    ├── A2ARunner_proofs      (theorems)
    │                    └── implements TaskLifecycle  (abstract specification)
    └────── A2AClient ───┬── MC_A2AClient
                         └── A2AClient_proofs
ProcessTimeout ───────────── ProcessTimeout_proofs
HarnessSync ─────────────┬── MC_HarnessSync
                         └── HarnessSync_proofs
GeneratorHandoff ────────┬── MC_GeneratorHandoff
                         └── GeneratorHandoff_proofs
Broker ── VMBridge ── L2Probe ┬── MC_VMBridge
                              └── VMBridge_proofs
SessionBridge ───────────┬── MC_SessionBridge
                         └── SessionBridge_proofs
ToolCatalog ── ToolRoute ┬── MC_ToolRoute
                         └── ToolRoute_proofs
PendingGate ──────────────── MC_PendingGate
ModeIntent ───────────────── MC_ModeIntent
```

Operators named `Bug...` stand beside some definitions. They are what a plausible mistake in the
code would make of the definition that follows and belong to no specification; each is there
because some property notices it (`mutants` in `PROJECT.json`).

### TaskStore: the two files of a task

`Disk` is a task's record file and event log together. The store lock makes an operation atomic
for the other threads but not for a crash, so each operation is written as the *sequence of disk
images* its file writes go through (`CreateImages`, `ClaimImages`, `FinalizeImages`): the last is
its effect (`Created`, `Claimed`, `Finalized`), the earlier ones are what a crash may leave
(`TornCreate`, ...). The guards are the code's no-ops: `create` finds a record, `transition_working`
wants SUBMITTED, `finalize` wants an active record. A record keeps state, reason, which of the
cancel error texts it has, and `events_complete`; an event is its kind. A single line of the log is
written whole or not at all.

### A2ARunner: threads, slots, shutdown, restarts

A program counter stands between two accesses to shared state. `job` is the call a handler thread
or a shutdown cancel thread is in (`SendMessage`, `CreateTask`, `StartTask`; `CancelLookup` to
`CancelReply`), `run` the place of a task's execution thread in `Executor._run` (`Validate`,
`ClaimTask`, `Spawn`, `Register`, `Collect`, `Receipt`, `FinalizeRun`, `FinishRun`, `PopSlot`), `sd`
the place of `shutdown_all`, which runs twice (`pass`). `slot` has the fields of `_Slot`; `reg` says
that it is in `Executor._slots`. The `finally` of `_run` is two steps because the pop of the slot
comes after `done` is set. `proc` is the sandbox's process group: alive, its leader gone
("remnant"), or gone. `Crash` comes at any point, inside an operation too, and keeps files and
sandboxes; `Restart`, `RecoverTask` and `Serve` are the start of `main`.
Validation outcomes, receipts and sandbox results are nondeterministic choices over what the code
can make of them. `Stalls` allows the waits whose bound equals that of what they wait for to expire.

### TaskLifecycle: what the runner promises

NONE, SUBMITTED, WORKING, one final state; one permit to launch, given with the step to WORKING;
`ImplementsLifecycle` checks that the runner refines it, where the permit is an execution thread
between claim and launch.

### A2AClient: one delegation, both ends of the stream

The client is a program counter through `send`, `_stream_once`/`wait_for_terminal`, the polling,
`cancel_at_deadline`, `synth_run_meta`; the four commands differ in where they start and end. The
runner's end of the stream is `_sse` with its five stops (read events, test `events_complete`, drain
again, clear the waiter, wait), and the store beneath it changes as A2ARunner lets it. Requests,
answers and connections get lost separately. The client may be killed anywhere and started again
with any command; the runner crashes and recovers. There are two ids to resume from: `last`, of
`_stream_once`, and `since`, of `wait_for_terminal`, which takes over the first only when
`_stream_once` returns (`StreamEnds`, the `done` of `ReadFrame`). An exception out of it (`StreamCut`:
reset, silence) leaves the second as it was, and the next subscription asks for events the client has
seen. `seen` and `broken` are history: the event ids received, each with its stream, and the streams
that an exception ended.

### ProcessTimeout

The main loop with its three looks (poll, signal, clock), `_stop_group` as listing, grace and kill,
the search for leftovers, and the handlers that are installed before `Popen` and removed before the
status is written: a signal outside that window kills the wrapper. The command is its leader, the
others of its group, and one helper in a session of its own which `ps` can find through the leader
only while that lives ("child", then "adrift").

### HarnessSync

Files hold one of a few contents; a hash *is* the content it is of. A command plans against what it
reads, then copies file by file, then writes `harness.lock`, then `harness.json`, and may be killed
at each point, leaving a truncated file (a content no tree has), a lock that is no JSON, a
configuration that is no JSON. `Diverged` and `Changed` are the two tests of the two-hash rule.
User edits happen between commands. `own` and `resolved` are history variables.

### GeneratorHandoff: a feature out to an agent and back

Three programs and a repository. A commit is its place in `log`; `main` is the index and working
tree of the main checkout, source files and copied handoffs; `box` the clone of a task, `told` in it
the envelope its agent was given; `env` and `meta` the two state files of a task id. `disp` is a run
of `dispatch-generator-handoff.sh` with the `sandbox-profile.sh` in it: the test for a used id,
the envelope, its three readers (`ReadProfile`, `Launch`, `Report`), the clone whose directory is the
task's lock, run-meta, and the receipt as an exit code. `AgentEnds` is the external agent: any files,
any claim about them, a question, a commit, a timeout; it names the feature it was told. `acc` is a
run of `accept-generator-handoff.sh`, a step per command from the HEAD check to the commit. `RunL1`
is what lint, typecheck and test may do to the clone. The others are the Coordinator's own commits,
the raising of a gate, and `approve-gate.sh` (`EditGate`, `AbandonGate`, `StageGate`, `CommitGate`),
which a human runs at any moment. The commit of either program takes the whole index: that of a gate
what the acceptor has staged, and the acceptor's (`Commit`) a decision that was staged after
`CheckStaged`. A gate's decision is `gate` and no part of the trees: `LandsAsReviewed` is about source
files and audit copies, `LandsNothingElse` about the decision.

Assumed of what is not in `src/`: the Coordinator passes to the acceptor what a dispatch exited 0
for, waits for the acceptor before it commits itself, and removes a clone after its task landed;
dispatches of one task id name the same agent (another would have a clone of its own); an agent left
behind by a killed dispatch has no run-meta and so no way into the acceptor.

### Broker, VMBridge, L2Probe: launches that share a virtual machine

`Broker` is the credential broker: its lease (`OpenBroker`, `Revoke`, `CutSockets`, `CloseBroker` are
`__enter__` and the three stages of `__exit__`) and one handler thread per connection, a step between
any two looks at the lease (`Authorize`, `Reserve`, `TakeCredential`, `RegisterUpstream`,
`SendUpstream`). Slots and budget are its limits.

`VMBridge` is `launch` of the provider, one process per launch, over it: a copy of the envelope, the
launch lock, staging, lease and firewall, the worker's unit, its copy-out, the checks of what came
back, the run metadata (created, then filled) and the nested `finally` blocks, innermost first. Each
step of a launch in `Faulty` may fail, and its process may be killed anywhere: there is no signal
handler, so the guest keeps what was in it. The guest's part is one unit with a bridge that reports
and a worker that proves, a copy-out unit, and a vendor that opens connections, asks and writes its
tree as it likes until the unit is over. `WriteEnvelope` is the Coordinator commissioning the task
anew, `Accept` the validator of the record.

`L2Probe` adds the probe of the bridge: some launches of a behaviour are probes (`probes`), which
read the source once, stage it, load the provider from the stage and then do, through the provider's
own functions, what a launch does, with a preflight unit more and other checks. `SharedStep` names
the actions of VMBridge a probe takes.

### SessionBridge: one session with the vendor's CLI

`run_acp_native_agent`, step by step between two points at which a signal can land, direct (a group
of its own, signalled from outside) or contained (in the worker's group in the guest, where only the
worker signals it). The vendor announces children in order and truthfully, but starts as many as it
likes, answers at any time, asks, swarms, leaves helpers. `seen` is what the bridge read with the
answer to its prompt, `v.kids` and `call` what the vendor really did: a proof is compared with them.
The worker prepares, starts the bridge, installs its handlers, waits, ends the whole group, and only
then reads the result pipe. `late` counts exceptions inside the cleanup (history).

### ToolCatalog and ToolRoute: what was signed and what is started

A question to the catalog is a process of its own (`run`) that opens one file per step: registry,
manifest, adapter, the adapter a second time for a bridge, provider, mirror. Between any two,
`Edit` may change a file. Its answer is computed by the operators that translate candidates,
`resolve` and `resolve-target`; a digest stands for the value it is of. `ToolRoute` is the
Coordinator's programs, one at a time: consuming an intent (`FinishConsume` stores the resolution),
a dispatch that replays it, and its three ways to a launch (`SandboxTarget`, `ReadProfile`;
`ClientTarget`, `Commission`; `ReadConfig`, `LaunchTarget`, `SnapshotBundle`), and the way back
(`AcceptReturn`). Each launch is recorded with what was read last, in `launched`. An unsigned client
reads the registry itself and asks the catalog only if that is a tool-integrations/1 (`OwnRegistry`);
a dispatch/1 agent is taken as it was read (`AgentOf`). What comes back is the work of a launch and
run metadata (`RunMeta`), a file that may name any agent and any transport and show the provider's
attestation of any launch in the VM, or none. `Classified` compares it with the target,
`ReceiptFits` with the envelope and the artifact. Assumed: an attestation cannot be made up; it lies
in a private tree of the account with the digests of one envelope and one artifact.

### PendingGate and ModeIntent: the console's two writes

`PendingGate` has three repositories' worth of `progress.json`: the remote's history, the console's
clone, its tree and index. A request is `decide` between pull, read, truncation, write, validation,
`git add`, commit and push; the poller pulls; machines commit to the remote. `ModeIntent` has
`progress.json` and `harness.json`, the lock directory with the exit trap of every consumer, the two
replaces of a consumption, staging by a device, and kills.

## 3. What is checked

| Run | Question | Instance | Result |
|---|---|---|---|
| `runner_races` | do two handler threads, a task, its cancel, shutdown and a crash keep the task owned, announced and cleaned up? | 1 task, 2 handlers, 1 start, no stalls | holds |
| `runner_restarts` | does a task survive crashes and restarts with one launch, one verdict, one terminal event; does the runner implement `TaskLifecycle`? | 1 task, 1 handler, 3 starts, stalls | holds |
| `runner_live` | are cancels answered, tasks settled, shutdowns ended? | 1 task, 1 handler, 1 start | holds |
| `client` | is the stream complete and repeated only after an exception, the receipt true, an artifact kept; do client and stream end? | 1 reconnect, resume from 0 or 3, 2 client processes, 1 runner crash | holds |
| `timeout` | is the group gone, the found helper gone, the status true; does the wrapper end? | signals 2 and 15, two of them, `ps` may fail | holds |
| `sync` | are local edits and seeded files kept, is the lock honest, is resolve a way out? | 2 paths, 4 trees, 2 upstream contents, 1 local | holds |
| `handoff` | does the source that lands sit on its base, is it what was declared, asked for and finished; is nobody at work on it? | 1 task, 2 dispatches, 2 features, 2 files, 2 contents | holds |
| `vm_bridge` | who holds the VM's firewall, the credential and the record; what does a launch leave behind, what may be accepted, does it end; is a probe's evidence of the source it pinned? | 2 launches of a task, none or one of them a probe, one of them faulty; 1 connection, 1 slot, budget 1; 2 envelopes | holds |
| `session` | is a proof about exactly one child that ended; is nobody left to change a result; do session and worker end? | direct and contained, 2 children, 2 signals, 9 events | holds |
| `routes` | is what starts what was signed, are the families different, is only the work of a signed bridge accepted for it? | 2 intents, 2 launches, 2 edits of 10, 2 bindings, 8 requests, 2 remote runners | holds |
| `gate_once` | does the console write only the decision? | 2 requests, the poller, 5 commits | **violated** |
| `mode_lock` | does the lock keep a checkpoint from being overwritten? | 3 consumers, 2 intents | **violated** |

Each violated run states what a comment or a document says of the program and shows the steps by
which the code does otherwise; `findings` in `PROJECT.json` quotes both.

1. *The console takes back what the machine pushed* (`gate_once`). A request of the console reads
   `progress.json`, the machine pushes, the poller's pull brings that into the same clone, and the
   request writes its old copy back with the decision, on top of the new commit, as a fast-forward.
   Reachable as well: a half-written file committed by another request, a second decision over the
   first, a tree left dirty by a failed commit, in which every later pull fails unnoticed.
2. *The loser of a lock removes it* (`mode_lock`). `consume-mode-intent.sh` sets `LOCK` before the
   `mkdir`; a consumer that is refused dies, and its exit trap removes the holder's directory. Two
   others then consume at the same time, and one replaces the other's checkpoint. Reachable as well:
   an intent that is consumed and not in the ledger after a kill, a staging lost between the read
   and the write of `harness.json`, and whatever the bounded ledger has forgotten.

Ten more configurations are kept beside the runs; each is violated, and shows a disagreement or a
limit of the code (`tlc -config <file> <module>`):

| Configuration | Module | What it shows |
|---|---|---|
| `A2ARunner_unregistered.cfg` | `MC_A2ARunner` | `CancelTask` finds no slot because `executor.start` has not run yet and records that no process was registered; the task is then launched and runs on under a CANCELED record until its own deadline |
| `A2ARunner_torn.cfg` | `MC_A2ARunner` | a crash inside `finalize` leaves a final record without its terminal event; recovery looks at active records only, so a subscriber never gets its `done` |
| `A2AClient_replay.cfg` | `MC_A2AClient` | a subscription resumed behind the artifact event whose last GetTask fails replaces RETURNED by FAILED |
| `A2AClient_again.cfg` | `MC_A2AClient` | a stream ends with an exception after some events; the client resumes from the id it had before that stream and sees them again (`SeenOnce`), since only a return of `_stream_once` moves `last_seq` |
| `HarnessSync_overwrite.cfg` | `MC_HarnessSync` | a path that is not in the lock is overwritten as "added": an orphan the user kept and edited, or a file from before |
| `GeneratorHandoff_refusal.cfg` | `MC_GeneratorHandoff` | a handoff refused after `git apply --index` stays applied |
| `GeneratorHandoff_gate.cfg` | `MC_GeneratorHandoff` | `approve-gate.sh` stages its decision after the acceptor has compared what is staged and before its `git commit`: the decision lands in the acceptor's commit, although the acceptor's header says that it commits the one commissioned feature plus the handoff JSON (`LandsNothingElse`) |
| `GeneratorHandoff_third.cfg` | `MC_GeneratorHandoff` | with three dispatches of one task the agent need not have been told the ref its handoff is accepted under: one dispatch that slept since an older HEAD writes its envelope between clone and launch, the third writes the newer one again. Feature and base are right all the same (`LandsAsReviewed`) |
| `ToolRoute_card.cfg` | `MC_ToolRoute` | a remote runner's card says what its checkout said at start, its sandbox profile reads the checkout again for each task: another tool can run than the card named |
| `ToolRoute_metadata.cfg` | `MC_ToolRoute` | the return of a local CLI is accepted on its run metadata, which names the agent and carries no provenance: the work of an older launch, or of another target, passes for that of the signed one (`LocalAsSigned`) |

Seen while modelling, without a run of its own:

* `SOURCE_BRIDGE_FIELDS` of the probe has no `deliverable_channels`, which
  `transports/bridges/kimi-acp-native-agent.json` has: the probe of this tree refuses its own
  manifest and ends "failed" (the test in `src/tests/test-vm-kimi-l2-probe.py` that reads the
  shipped manifest with it). `ReadManifest` may go either way.
* The provider's comment that the VM profile has no child workload before a command is false after a
  provider was killed; its units run until `RuntimeMaxSec`.
* `revoke` is documented to close all credential-bearing channels in flight; a request registered
  and not yet sent is connected and sent after it. The join of the handler threads bounds that.
* A launch's record says RETURNED before the cleanup; one left by a killed or earlier launch makes
  every retry of that task fail at its end (exclusive create).
* `APP_RUNTIME_FILES` of the catalog lacks `dispatch_common.py`, which `dispatch-run.sh` and the
  provider list.
* A signal to the worker between starting the bridge and installing its handlers ends the worker
  alone; the bridge is then systemd's to end with the unit.

### Bounds

One task is enough for the runner's promises: tasks share only the lock, the shutdown flag and the
shutdown's list; two would add interleavings of independent threads (the theorems are for any
number). Two handlers are needed, and enough, for a submit against a cancel, a duplicate submit and
two cancels; three starts let a crash fall before, during and after recovery. Two client processes
give a repetition of every command by every other, and a resume value of 3 lies behind the artifact
event of the longest log (SUBMITTED, WORKING, artifact, COMPLETED). Two signals are needed for
"first"; the helper is one because each group is treated alone. In `sync` the second path is managed,
dropped, managed again and seeded over the four trees, the first is always managed and changes, so
every pair of kinds meets; two upstream contents and a local one give every outcome of the two
hashes. In `handoff` two dispatches of one task id share every file they
could confuse, and two features show whose envelope an agent was given; a second task would be one
more author of commits, which `CommitOther` is. Two files and two contents let declared and changed
files differ either way; one commit by others and one gate move HEAD before, during and after a
review.
In `vm_bridge` two launches are what it takes to meet in the VM: a holder and one that waits, comes
after it or finds what it left; both are of one task, so that they share envelope and record too. One
of them never fails, so that it meets every leftover of the other and `LaunchEnds` is about a launch
whose neighbour was killed. One connection with one slot and a budget of one reaches each limit; a
second connection would add a handler that shares only the lease, the slots and the budget. Two envelope contents are an old and a new one, of different roles. In `session` two
children are a right and a wrong one, two signals a signal in the cleanup of the first, nine events
four answers, three of a child and two more; the vendor may be two messages ahead. In `routes` two
edits put a change before and after any read, or change two files of which one is read late; ten
edits change every kind of file in a way that is legal by itself; two launches are
what `FamiliesDiffer` relates, and one under each of two intents is what a return can mix up. In `mode_lock` a third consumer is needed: the one that is refused
only opens the lock.
`MaxStarts`, `MaxRuns`, `MaxRestarts`, `MaxReconnects`, `MaxSignals`, `MaxEvents`, `MaxWire`,
`MaxEdits`, `MaxConsumes`, `MaxLaunches`, `MaxCommits` are the only counters.
Symmetry (`runner_races`, `handoff`) is over names that nothing orders; no run with a liveness
property uses it. Deadlock checking is off where the program may stop for good (a runner
not started again, a client or wrapper that ended, every dispatch over) and on in `sync`.

### Fairness

* Runner: weak fairness per handler, worker and task thread (the operating system schedules them),
  for the sandbox's end (its own wrapper enforces a deadline) and for the steps of shutdown and
  start. None for requests, cancels, shutdown requests, crashes, restarts or expiring waits.
  Weak fairness suffices: a thread's step stays enabled once it is.
* Client: weak fairness of the client's own step and of the stream handler's. None for the network,
  the clock or the runner, so `ClientEnds` says only that the command ends once its deadline has
  passed, and `UpdatesArrive` that what was logged reaches a stream which stays open.
* process-timeout: its own steps and the clock; none for the command, which may ignore everything.
* VM bridge: each launch's or probe's own steps (one weak fairness per process), the end of a unit
  (`RuntimeMaxSec`, and the preflight's timeout), the broker's threads, whose reads have timeouts, and
  the end of a connection whose peer is gone or cut off. None for the guest otherwise, for failures
  or for kills. `Acquire` may be passed over for ever only because `GiveUp`, the bounded wait, is
  the same process's step.
* Sessions: the bridge's own steps from the point where nothing it waits for is unbounded
  (`BridgeStep`: every receive has a deadline), and the worker's. None for the write of a request,
  which has no deadline, and none for the vendor; `SessionEnds` therefore begins, for a direct
  session, once the prompt is sent.

## 4. What is proved

Every invariant and every action property that a passing run checks is a theorem as well, and so is
the refinement of `TaskLifecycle`: for every value of the constants that satisfies the named
assumptions of the modules, so for any number of tasks, threads, launches, files, signals and
restarts. Each proof follows one pattern. An inductive invariant `IInv`, a conjunction of named
parts, says for each place of a program what it may rely on there; one lemma per action, or per group
of actions of the same effect, shows that it is kept; the properties are read off it. The parts below
are why the properties alone are not inductive.

**A2ARunner_proofs.** `TypeCorrect`: `TypeOK` alone is not inductive, because a cancelled run
finalizes with the reason its canceller recorded; `Typed` adds that a slot marked for cancel has a
reason and that a call in progress names a task (`Reasoned`). The lemmas about the store's disk
images come first. `FinalNeverChanges`: the first final verdict stands, against a second finalize, a
crash in the middle of one and recovery. It rests on the guards of the three store operations alone:
each is the identity on a final record, and so are its torn images, whatever a thread believes.

`Invariance` adds `Owned` to the types: who may still start, claim or launch a task. `TaskOwned` says,
for each place of a task's execution thread, how far its record is. A thread that is yet to claim
finds SUBMITTED or a final state and no launch; one that is about to spawn, and every launched
sandbox, has a record at WORKING or beyond with the WORKING event in its log, and no operation of the
store leads back to SUBMITTED. `JobOwned` says that at most one handler is about to start a task
(`OnlyStarter`: the one whose create made the record), and that a cancel which returns has a final
record. Without these parts `AtMostOneLaunch` is not inductive: a state with a claimable record and a
sandbox already out satisfies it. Most steps are quiet (`QuietStep`: records only settle, threads only
move on, no right is handed over); only create, start, claim, spawn and crash hand one over. From it:
`LaunchedOnce`, `NeverLaunchedSilently`, `CompletedIsPublished`, `CancelsEndFinal`.

* `LogNeverLies`: a log that names a terminal state names it once, at its end, and it is the
  record's (`Truthful`), since `finalize` writes the record before the event and is refused from then on.
* `Implements`: initial states map to initial states, and every step of the runner to a step of
  `TaskLifecycle` or a stutter. Create, claim, spawn and finalize map to the steps of their name,
  their torn images too; a crash takes back the permits of the threads it kills.
* `NobodyIsOrphaned`: a second invariant over the first (`Manned`). A slot is registered exactly while
  its thread runs; nothing runs before the runner serves; and an active task without a thread is
  SUBMITTED with its starter on the way, or left to a shutdown.
* `EverySandboxIsSeenTo`: a third (`Watched`) over the second. Once the flags of a slot are up its
  thread is past the launch; whoever settles a task has seen to its sandbox; what a shutdown has not
  listed has ended or can start no more; and each phase of the shutdown leaves its own tasks in a
  state the next relies on. It is stated for `~Stalls`: a thread that sleeps for a whole
  `shutdown_timeout` between registering and publishing its process escapes, in the model as in the
  code. The run it belongs to has no stalls either; the other theorems hold with them.

`HandlersAssumption` says that the names of handler threads are not those of a shutdown's cancel
threads.

**A2AClient_proofs.** What is done to the files of a task, a crash in the middle included, makes its
log longer and never changes a final state (`Grown`, `StoreOf`): whatever is on the wire, or in a
variable of the client, was true when it was read and ages well. `Streaming`: the wire continues the
last event the client has without a gap (`Follows`), and `done` is its end. `Seeing`: what was seen
reaches up to `last` without a gap, and whatever of it lies beyond `since`, where an exception would
fall back to, came over the stream that is open or over a broken one (`Unbroken`); so an event is
seen again only after such a stream (`Again`). `Advisory`: the record put
together from the stream is final only as the store's is, and says COMPLETED with the artifact, which
is the third event, or after a resume behind it. `Settled`: what is on the way to a receipt (confirm,
stage, meta) agrees with the record, and a cancel at the deadline comes after it. Hence
`SeesTheWholeStream` and `ReceiptIsTrue`. `ReceiptIsKept` is an action property of all client
processes: one that has the artifact, and has staged it, writes RETURNED.

**ProcessTimeout_proofs.** One invariant with four parts: `Staged` (how far the command is at each
point of main: not begun before `Popen`, leader gone after the reap, group gone after the leftovers),
`Hunted` (a found helper is in the groups until they are killed), `Heard` (the pending signal is the
first that arrived) and `Blamed` (the cause is one main has seen). `NothingSurvives` and
`StatusNamesTheCause` follow from it.

**HarnessSync_proofs.** The invariant is that a plan stays safe while it is carried out
(`PlanIsSafe`: what is still to be copied is missing or what the framework last gave, and is missing
if it is only seeded) and that a lock is aligned to its version, both the one in place and the one a
running command is about to write (`Aligned`). `RunStep` says what a command has to show when it
starts; each command is then a short lemma. `EditsAreKept`, `SeedsAreKept` and `LockIsHonest` follow,
with crashes at every point. `UpgradesGoOn` needs a second invariant (`Going`) over it: until a
command is killed, what the user left alone is of the version the lock names, but for what the plan
still has to copy (`Fresh`), the configuration names the same version, and a file once resolved is
its user's own and aligned to the tree it was resolved with (`ResolvedIn`). That a file which `sync`
does *not* copy may count as aligned is the step with the work: its upstream has not changed since, or
it already is what the tree has.

**VMBridge_proofs** is about `ProbeSpec`, launches and probes together, any number of both.
`Serialized`: who is between lock and unlock is the lock's holder. `BrokerStaged`: how far the
broker's `__exit__` is at each place of its launch; `ConnStaged`: a handler belongs to a broker that
is not closed, and is past authorization only for the guest of that launch; `SlotsCounted`: the
semaphore and the handlers add up. They give `CredentialIsLeased`. `EgressStaged` follows the hole
from the flag that demands its reset, set before it opens, to the `finally` that shuts it
(`EgressIsHeld`). `GuestStaged` says what a launch has in the guest at each place, and that an
innermost `finally` which went well took it away (`ReturnedIsClean`). `ResultStaged` and
`RecordStaged`: what came out is of the snapshot that ran, what passed the checks is allowed to its
role, and a record never changes hands (`AcceptedIsCommissioned`, an action property). `ProbeStaged`
adds what a probe read, pinned and put away (`PassedIsTrue`). The steps of launches are first brought
under seven effects (`Effect`: quiet, on the lock, the roots, the broker, the hole, the units, the
record), so that a part of the invariant has to look only at those that disturb it.

**SessionBridge_proofs.** `Places` and `Directly`: where main is, whether the group is its own and what
it has put away, with as many exceptions as fell in the cleanup; a direct session that lets its
group go has ended it (`GroupIsGone`). `ProofIsOfOneChild` is about an unreliable narrator: each of the
vendor's words is true of the child it names and remains so (`Truth`), and when the prompt is answered
the beginning of every child there is, and of no other, is on the wire before the answer or has been
read (`Told`), so that at the check the children read of are the children there are. `Working`: the
worker reads from a bridge that is over, with its group.

**GeneratorHandoff_proofs.** The argument is about time. An envelope is commissioned at HEAD and only
while its task has no file, so every envelope of a task that landed names an older commit (`Refs`,
`Older`), and the comparison with HEAD turns a second review away. Until then the clone was made
once, for one agent, and keeps the handoff that one left (`Boxes`), but for what L1 tools do to it
(`Copies`): hence `ReviewedInPeace`. `Reviewed` and `Indexed` say what acceptor, index and HEAD have to
do with each other from one command to the next: the index is HEAD's until the patch; then it
differs in the declared files; or else a human's gate commit has taken the whole index, and the patch
with it. Hence `ReviewIsCommitted`, which is about source files and audit copies and not about
`progress.json`. `ContentsAssumption` (there is a content besides the original one)
makes a changed file possible at all; `AbsentAssumption` keeps the marks for a missing or torn file
apart from the files.

**ToolRoute_proofs.** The invariant has two halves. `JobIs`: a program on the way carries the target it
is held to, and every step from one read to the next keeps it, the checkpoint's provenance while there
is a checkpoint. `UnderCheckpoint`: what was started under the checkpoint that stands is what it
names, and the number of an older one is not given again. With them go `CheckpointIs` (the two roles
of one resolution are of different families) and the lemmas about the catalog's operators: the order
of ids has a first candidate (`FirstIsIn`, `PoolKeys`), and every candidate is of one of four
kinds (`CandidateKinds`). `AcceptedIsAttested` follows from `AsSigned` (a launch carries the target it
was signed for, and started its command under its contract) and from the attestation being of a
launch that took place; but for that the metadata is arbitrary in the proof. Assumed: the ranks of
ids are an order (`RankAssumption`), and the programs called are the three there are
(`RequestsAssumption`).

What the attempts showed:

* In the session's `ReceiveMessage` two arms of a `CASE` could be true at once, an exhausted budget and
  an answer; the model now says that the budget is looked at first, as the code does.
* That the agent was told the very envelope its handoff is accepted under was stated first and is
  false with a third dispatch (`GeneratorHandoff_third.cfg`); what is true, and proved, is that it was
  told the same feature.

**Only model-checked.** The liveness properties (`CancelAnswered`, `TaskSettles`, `ShutdownEnds`,
`UpdatesArrive`, `ClientEnds`, `WrapperEnds`, `LaunchEnds`, `SessionEnds`): fairness and ENABLED are
out of the prover's reach. The two violated runs have nothing to prove: what documents and comments
say there is false, and `PendingGate` and `ModeIntent` keep no promise beside it that a run checks.

## 5. What the models leave out

* Message bodies, envelopes, authentication, paths, hashes, schema shapes, wording of errors. A check
  of a shape is one accept or reject, at the place where the code makes it.
* A crash inside one `write` of the runner's store: records are replaced as a whole by rename, an
  event line is short. In `harness.sh`, `server.py` and the record of a launch, which are written in
  place, it is modelled.
* The pipes of a sandbox: the runner's `communicate` returns at the end of its output, which `Collect`
  puts at the end of the process.
* A command that was sent over ssh and takes effect in the guest after its provider was killed.
* Time: a deadline is a step that may come at any moment; a wait with a bound may expire whenever
  the code does not rule it out.
* A second runner over the same state directory (it fails the live runner's active tasks in recovery
  before it finds the port bound).
* The external-bridge route of the generator handoff; an envelope that is read by one dispatch while
  another is in the middle of writing it (a kill there is modelled).
* Interrupts from the keyboard in the provider and the probe, what a killed probe leaves on the
  host's disk, preparation and attestation of the VM image, `doctor`.
* `session_bridge_codex.py`, which no program loads; a vendor that leaves the session's process group
  (the guest's cgroup ends it, as in VMBridge).
* The listing of the catalog for the console, and the programs that only validate: they change no
  state, and the verdict they give is a choice of the model where a module depends on it.
* The `.harness-new` copies sync leaves beside a conflict, scaffolding, read-only commands.
* The planner proposal, which has the shape of the generator handoff without a patch; the gate
  arbiter, whose transitions are prompts to language models; and the other components marked
  `not_modelled` in `PROJECT.json`, each with its reason.

About half of the lines of the implementation the map is measured against are the repository's own
tests, which no definition translates.

## 6. Plan

The modules are complete as far as section 5 says, and their safety is proved. What is left:

1. **Readability of the long proofs** (`A2ARunner_proofs`, `GeneratorHandoff_proofs`,
   `A2AClient_proofs`): lemmas shared between the invariants of one module, shorter leaves.
2. **Lemmas worth a name of their own**: that `First` of the catalog is the same whatever order a
   registry lists its entries in, and that a resolution without bindings of one family exists exactly
   where the code refuses none.
3. **Corollaries across components**: what a caller of client and runner together may conclude from a
   receipt (`ReceiptIsTrue` with `Implements`).

Every module is parameterised by constants with named assumptions and has no recursive operator, so
that it can be proved about.
