# A TLA+ model of the external advisor

The repository is a Codex skill, `codex-skill/external-advisor`, that lets a
coding agent ask ChatGPT conversations for advice: single calls, repo-aware runs
in which ChatGPT inspects a snapshot of the project through a connector,
conclaves of several roles, long goal-research runs, and a service that exposes
a checkout behind Cloudflare Access for a limited time. What makes it hard is
not a single call but that many processes meet: several agents run
`advisor.py` at once, a browser GUI sends turns into the same conversations,
workers, tunnels and servers are child processes, and every one of these may be
killed at any point. They share nothing but files, OS file locks and a remote
service that tells what happened only later.

This directory holds TLA+ specifications of these protocols, instances of them
for TLC, and TLAPS proofs about the admission queue, the coordinated calls, the
transient pool, the submission journal, agent runs, goal-research runs and the
domain service. All script paths below are relative to
`codex-skill/external-advisor/scripts/`.

## 1. Inventory

| component | state | operations | modules |
|---|---|---|---|
| Remote admission queue: `remote_call_slot` in `advisor_concurrency.py` | ticket files, slot locks, rate state, capacity in the manifest | join, poll, take slots (shared, exclusive, throttled), leave, time out, die | `RemoteQueue`, `AdmissionGate` |
| Coordinated call: `coordinated_call`, `conversation_lock`, the turn in `advisor.py` | state lock, conversation lock, worker lock, conversation state file | admit, lock, lease a worker, sync, submit, upgrade the lock, save, release | `CoordinatedCall` |
| Transient worker pool: `transient_worker_lease`, `g4f_pool.py serve/stop` | manifest, request files, release markers, slot locks, worker processes | request, start, register, release, reap, stop | `TransientPool` |
| Submission journal of the GUI: `advisor_cloud_catalog.py`, `advisor_gui.py` | journal, next parent, recovery history in the catalog; the cloud history | begin, bind, post, complete, refresh, adopt | `CloudJournal` |
| Goal research: `goal_research_state.py`, `goal_research.py`, `goal_research_roles.py` | event log, projection, immutable artifacts, turn checkpoints | advance through the phases, resume, amend, record receipts, block, complete | `GoalReports`, `GoalRun` |
| Connector of a project: `advisor_agent_connect.py` | lifecycle lock, state file, exact-root file, DevSpace and tunnel processes | set up, serve, reuse, replace, stop | `RepoConnector` |
| Agent runs: `advisor_agent.py`, `advisor.py` | run directory: request, turn journal, saved conversation, response, metadata; the connector's files; ChatGPT's turns | preflight, refresh, pin, request, collect, validate, mark, resume | `AgentTurn` |
| Conclave of agents: `agent_conclave.py` | manifest, run lock, role runs, synthesis checkpoints | launch roles, collect, resume, synthesize, publish | `AgentConclave` |
| Domain service: `advisor_domain_mcp.py` | lifecycle lock, configuration, gateway file, units, runtime directory | prepare, configure-access, audit-cloudflare, start, stop, expire, the three units | `ExposedCheckout`, `DomainService` |
| Fixed pool and worker health: `worker_lease`, `record_transport_failure` | worker locks, failure records | lease, degrade, recover | the lease only, in `CoordinatedCall` |
| Sanitized workspaces: `agent_mode.py` | snapshot generations, mask rules | copy, reuse, mask | as snapshots of `AgentTurn`, mask rules in `ExposedCheckout` |
| Router, verifier loop, single-session conclave, context packing, memory, evaluation, project binding and migration, GUI front end, Cloudflare gateway, DevSpace patches and sandboxes, g4f patch and setup, bundled skills | none that two actors share | one-shot scripts, single requests, rewritten sources | not modelled (section 6) |

How they interact. An advisor call runs `coordinated_call`: it is admitted by
the queue, takes the lock of its state file, reads the conversation id from
that file, takes the lock of the conversation, and leases a worker, from the
fixed pool or by a request to the supervisor of the transient pool. The answer
goes to the state file and everything is released in the opposite order. A GUI
turn goes through the same admission and the same conversation lock, needs no
worker of its own, and has the journal of the catalog instead of a state file.
A repo-aware run starts such a call as a child process after it has pinned a
snapshot in the connector; a conclave session runs one of these per role and
then a synthesis; the goal controller runs checkpointed turns of the same kind
and keeps its own log. The domain service replaces the connector's public
tunnel by units of systemd.

Where it is hard:

- *Interleaving over files.* Each test-then-act (list the tickets, then try a
  lock; load the event log, then append to it; read the state file, then mark
  it) can be overtaken by another process.
- *Death at any step.* An OS lock disappears with its process; a ticket, a
  request file, a journal, an artifact, a child process and a systemd unit do
  not.
- *Lock order.* The id of a new conversation is learnt while a worker is held;
  the expiry service waits for the lock of the command that stops it.
- *Outcomes learnt late or never.* A POST may be accepted after its sender is
  gone, the history of a conversation lags, and a turn that is running proves
  nothing yet.
- *Judgements that age.* A snapshot is edited after a receipt, a tunnel is
  replaced after the audit, a contract is amended while a verification is
  being recorded, the capacity changes under the calls that rely on it.

What makes each component correct is stated as properties at the end of its
module, with a comment on the code behaviour each is about; the hazards in
`PROJECT.json` list the lines where these things bite.

## 2. Modules and how they correspond to the code

### `RemoteQueue`, `AdmissionGate` (advisor_concurrency.py:266-747)

One step of a caller is one access to the shared files: `TakeStamp` and
`PublishTicket` are the two halves of joining (the time stamp is taken before
the ticket is visible), `ListTickets` is the directory listing together with the
cleanup of dead callers' tickets, `ReadLimit` and `ReadKnownSlots` the reads of
the rate state and the manifest and of the slot directory, `TakeAll`,
`ProbeRetired` and `ScanSlots` try one slot lock per step, `BackOff` and
`ReleaseProbe` give back one lock per step. Environment actions are ChatGPT's
rate limits (`RecordRateLimit`, `CooldownExpires`), a supervisor that advertises
another capacity (`ChangeCapacity`), and the probes of `g4f_pool.py status`,
which take slot locks for a moment.

`AdmissionGate` says what a user of the queue may rely on: as long as the
capacity that was advertised at the start is in force (`steady`), a call is
inside shared with fewer than `Cap` others, or exclusive and alone. After a
change the gate promises nothing any more. `RemoteQueue` implements it
(`ImplementsGate`, with `steady <- Steady`), and `CoordinatedCall` is built on
the gate instead of the queue, with `steady <- TRUE`: it is the remote admission
at a capacity that does not change.

The variable `late` is a history variable: the callers that published an older
ticket than one already on disk. `FifoAdmission` and `RetiredSlotsDrain` except
them, because the code does not (and cannot) order a ticket that was not yet
there.

### `CoordinatedCall` (advisor_concurrency.py:396-480, 1243-1393; advisor.py; advisor_gui.py)

One action per acquisition and release, for CLI calls and GUI turns.
`ClassifyTurn` decides on exclusiveness before admission from the state file;
`ReadConversationKey` reads it again under the state lock; `SyncRemote` may find
the conversation inaccessible and reset it; `UpgradeLock` takes the lock of a
newly created conversation; `SaveConversation` writes its id. `ReadPool` is the one
look at the health of the fixed pool: a call that finds it degraded waits for one
preferred worker only, whatever becomes free meanwhile. `CopyState` is the user who copies a state file, so that two files name one conversation. `Break` is
a stream that ends without an answer, `Crash` the death of a process; ChatGPT may
go on generating after either. The fixed pool is a set of worker locks; the failure
records behind its health are not modelled, so `ReadPool` may find any of its
answers.

### `TransientPool` (advisor_concurrency.py:957-1239, g4f_pool.py)

Callers and the supervisor, which may be killed at every step and restarted. The
supervisor's loop is split at each file access or process operation: `ReadRelease`,
`ReadPending`, `StartWorker` (Popen), `RegisterWorker` (the pid is written),
`RefuseRequest`, `RemoveRequest`, and the sweep over active workers. `Reap` runs
before a supervisor publishes its manifest. `StopCommandReads` and
`StopCommandEnds` are the two halves of `g4f_pool.py stop`. A port is a slot
number, so ports outlive a run and slot locks do not.

### `CloudJournal` (advisor_cloud_catalog.py, advisor_gui.py:298-545, 825-1030, 1300-1605)

One conversation as the catalog and ChatGPT see it. `LockForTurn`,
`CheckComplete`, `FetchParent`, `BeginSubmission`, `BindUserMessage`, `Post`,
`StreamState`, `CollectResult`, `CompleteSubmission` are a cloud turn;
`LockForRefresh` to `ClearAfterRefresh` are `import_conversation`;
`LockForAdoption` to `AdoptBranch` are `adopt_current_cloud_branch`, with the
recovery token a tab was shown earlier (`ShowToken`). `GiveUp` is every way a
request ends early, the browser's disconnect included; `Crash` kills the server.
The conversation is a tree: each turn has a user node and at most one reply.
`Accept`, `Complete` and `Show` are ChatGPT accepting a POST (maybe long after
its sender is gone, or never), ending an answer (with text, with a terminal tool
node or silently) and showing it in the history with delay; `PostOutside` is a
turn typed into another tab. `Evidence` is `fetch_ambiguous_submission_result`,
the only thing besides an adoption that clears a journal.

The digest of a prompt is its text, `message_id` and the other fields of the
remote state are the node they come from, and the catalog lock makes each
operation of the catalog one step.

### `GoalReports`, `GoalRun` (goal_research_state.py, goal_research_roles.py, goal_research.py)

`GoalReports` holds the rules as predicates over abstract reports: what a
contract, an amendment, a fidelity trace, a grounding, a challenge, a synthesis,
a packet, a receipt, an audit, a refresh and a final audit must satisfy, which
specialists are selected, which hypotheses make up the portfolio, and when the
gates of acceptance dimensions and clauses pass. A report's field `schema`
stands for the checks on its types, keys and bindings.

`GoalRun` is the run. `log` is the sequence of events, each with the projection
after it (`Reduce`, guarded by `Allowed`), so `View(n)` is what a command that
loaded n events sees. A command is two kinds of steps: it loads, judges and
writes artifacts (`Ends`, which fails into `run_blocked` when an immutable file
exists with other content), and it appends (`AppendEvent`, which validates the
event against the log as it is by then and treats a repeated idempotency key as
done). The projection counts iterations (`num`, by `Started`) and takes the identity
of the current one (`iter`) from the event that opened it, which named it in its own
view: `Baselined` says that both tell the same, which is when the baseline of the
iteration is found. `advance` holds `operation.lock`; `Amend`, `RecordCodex` and
`RecordVerification` do not. Each phase of `advance` is an action (`Fidelity`,
`Grounding`, ..., `FinalAudit`); its turns are started as a batch
(`StartTurns`), submitted, answered, found pending or failed one by one
(`TurnSubmit`, `TurnAnswer`, `TurnPending`, `TurnFail`) on checkpoints that
survive a crash. `Edit` changes the checkout, `Crash` kills a command.

### `RepoConnector`, `AgentTurn` (advisor_agent_connect.py, advisor_agent.py, advisor.py)

`RepoConnector` is the life of the connector: `Serve`, `Setup` and `Stop`
are commands under the lifecycle lock, each a sequence of steps (`Reuse`,
`Adopt`, `StopOld`, `Point`, `SpawnTunnel`, `RecordTunnel`, `TunnelUp`,
`SpawnDev`, `RecordDev`, `Ready`, `ReplaceAddress`, ...), with the state file
and the exact-root file as they are between two of them. A process that was
started lives on without the command; `Die` ends one, `KillKeeper` a command.

`AgentTurn` adds the runs. An attempt (`Check`, `Refresh`, `Pin`, `RecordPin`,
`Verify`, `Request`, `Collect`, `Mark`, `SaveResponse`, `Save`) starts a child, the
process of `advisor.py`, with the journal phases of its turn (`Admit`, `Submit`,
`Post`, `Receive`, `Keep`, `Finalize`, `Conclude`, `ChildFails`). `Open`, `Answer` and
`Unproved` are the turn at ChatGPT, which reads the snapshot that the connector
serves at that moment. A resume (`ReadLocal`, `ReadRemote`, then the writes `KeepRead`,
`WriteResponse` and `WriteResult`) reads the directory and the history of the project,
never posts, and takes no lock. `Kill` ends an attempt alone or with its child,
`KillChild` only the child. `MainWorks` and `ChildWorks` are the steps that need
neither a timeout nor a failure; `LockTimesOut`, `ChildTimesOut` and `ChildFails`
are the others. `Bounded` says whether `--timeout` is given: by default the wait for
a child has no limit.

### `AgentConclave` (agent_conclave.py)

Sessions over the runs of `AgentTurn`: the first launches each role and settles
its result, another resumes (`RecoverRole`, `Recovered`, `RelaunchRole`). The
synthesis has checkpoints of its own, keyed by the reports it was made from
(`KeyOf`); `Publish` writes the result and the manifest. `KillSession` ends a
session alone or with everything it started; its `run.lock` is gone in either
case, its children only in the latter. `KillAttempt` kills the attempt of a role, its
child or both, and the checkout may be edited meanwhile. `RoleTimesOut` and
`SynthTimesOut` are the `--timeout` of the session, which kills the process it waits for
and not the child of that. `lone` records that a process runs on without the one that started it. An
attempt's verdict is settled (`RoleEnds`) while a session waits for that role, and
never afterwards.

### `ExposedCheckout`, `DomainService` (advisor_domain_mcp.py)

`ExposedCheckout` is what the service judges in a tree of files: the boundary
(mount points, kinds, hard links), the Git configuration, the pinned state
(`GitState`) and the mask plan (`Candidates`, `MaskPlan`). `Sealed` is the
reference for the plan: what a session may see.

`DomainService` has the commands as processes under the lifecycle lock.
`PreparePin`, `PreparePlan`, `WriteConfig`, `WriteGateway` and `InstallUnits`
are prepare; configure-access shares the writes; `AuditWithdraws` to
`AuditAttests` are audit-cloudflare; `ReadConfig` to `StartGivesUp` are start;
`Stop`, `StopExpiry` and `Clean` are the stop that all of them and the expiry
service share. The units (`OriginVerify`, `OriginLaunch`, `OriginEnds`,
`GatewayLaunch`, `GatewayEnds`, `TimerElapses`) take no lock. `Kill` ends a
command, `Changes` is everything that moves without it: the checkout, the
tunnel's connector, the remote controls, the runtime files and the clock.

Definitions commented *Mutant* in the modules are small changes of the definition
after them, of the kind an editing mistake would make. They are not part of any
specification; each property is known to fail when one of them replaces the
definition it belongs to.

## 3. What is checked

The `MC*` modules name the model values and their symmetry, and give the reports
and trees that an instance needs. Deadlock is not checked anywhere
(`CHECK_DEADLOCK FALSE`): the callers, turns, commands and sessions of an instance
are finitely many, and when all have ended nothing is left to do. What must not
get stuck is stated as liveness instead.

| run | instance | what it shows |
|---|---|---|
| `queue` | 2 callers, capacities 1 and 2, one restart, throttle, crash and probe each, fair | first in first out; exclusive turns alone and the gate implemented until the capacity changes; failed attempts leak no lock; a shrunk capacity drains; every call leaves the queue |
| `turns` | 2 CLI calls and a GUI turn, 2 state files, 2 workers of a pool that may be degraded to one, one copied file, one conversation lost, fair | one turn per conversation until one is lost, one turn per state file also across a reset, both locks held when an id is saved, the GUI spares running turns, no upgrade deadlock before a reset, and every call ends without a timeout unless that deadlock stays |
| `transient_pool` | 2 callers, 2 ports, 2 supervisor runs, one fault, fair | one worker per port, workers in use are spared, a worker is lost sight of only in one window, registered workers of dead callers are reaped, every lease is decided |
| `cloud_journal` | 2 cloud turns, a tab that refreshes, one that adopts, a turn in another tab, 2 texts | no blind second submission, no fork, journals cleared by evidence or by an adoption of just that journal |
| `cloud_recovery` | the same with 1 cloud turn, fair | a blocked conversation can be unblocked |
| `goal_run` | 2 processes, 4 roles, 1 specialist, 4 contracts, 2 snapshots, one edit, crash and resumption | completion only on evidence, no turn charged that was not submitted, the minimum budget suffices, no rejected hypothesis tried again, log and artifacts append-only |
| `goal_amend` | the same contracts and an amendment next to an `advance` that starts the next iteration | *violation*: the amended goal has no baseline under its number |
| `agent_turn` | 1 connector command process with 2 commands, 1 run with 1 attempt, 2 processes of the connector, with a `--timeout`, one edit, kill or death, fair | attachment and ok only by proof, "safe to submit" is safe, children tracked, proofs recovered |
| `agent_conclave` | 2 roles one after the other, 2 sessions, 2 attempts per role, timeouts, one kill (session, attempt, child) or edit; explored while nothing runs on alone | no role and no synthesis replayed, a conclave reported ok has every role and a synthesis of just these reports |
| `agent_sessions` | 2 roles next to each other, 1 session, no `--timeout`, one kill or edit, fair | the session ends although its roles wait for each other's admission and pin |
| `agent_replay` | the same with parallel roles and sessions killed alone | *violation*: a resume relaunches a role whose child still waits |
| `domain_service` | 1 command process with 2 commands, one change of the world, one kill, the expiry service, 4 trees, 2 identities, fair | what is served is what was audited, secrets are masked, staged secrets are removed, every command returns |

Bounds. Two callers give a queue with someone ahead, a late ticket and an exclusive
call behind a shared one; two slots distinguish "all slots" from "a slot", and the
capacity both grows and shrinks. Two CLI calls, one copy, one lost conversation and a pool
that may have one worker are what the upgrade deadlock needs: it is reachable in `turns`,
where `NoUpgradeDeadlock` says that it takes a lost conversation and `EveryCallEnds` that
nothing but this deadlock keeps a call from ending. A GUI turn adds the other kind of
user. Two callers, two ports and two runs give a worker of a killed run next to
a new one on the same and on another port. Two cloud turns are needed for a fork and
one outside turn for a confusion; longer branches only repeat them.

Constraints. Symmetry reduction is not sound for liveness, so `turns` and
`agent_sessions` restrict the state space instead: `Ordered` names the first call's file
and worker, the conversations in the order of their creation, and the first role that is
launched. Every behaviour is a renaming of one that is explored, and the properties do
not depend on names. `Together` stops `agent_conclave` where a process runs on alone,
because both properties say nothing from there on and `lone` is never taken back.

A goal run ends within 11 turns of one iteration, or 21 of two; the contracts allow
exactly that, two turns more (a retried batch), or two iterations, and one amends to
version 2. The product of everything is too large, so `Scenarios` in `MCGoalRun`
constrains the state space: two-iteration contracts are explored without faults and by one
process at a time, one-iteration contracts with edits, crashes and either two
processes or a resumption. Two iterations are needed for a hypothesis to come back,
two processes for a receipt that races with an amendment, one crash for each of the
windows between a file and its event. The two roles that map and the two processes
are interchangeable in every definition, hence the symmetry; it is used for safety
only.

A connector that is set up, replaced and stopped needs two commands and two
generations of processes. The faults of an agent run are one event at any step:
an edit of the project, a kill of an attempt, of its child, of both, of a command, or
the death of a process; timeouts come on top of it. The conclave starts with a connector that serves
throughout (`MaxCommands = 0`), with two roles (one may be ok while the other is
not) and two attempts per role. In the domain service, two commands in sequence
next to the expiry service, a change of the world between any two steps and a
kill of the first reach every half-written configuration; the trees contain a
directory of secrets, an environment template, an untracked secret, an edited file and a
hard link that leaves its root. All `Max...` constants bound how often the
environment misbehaves, and each disturbance can come at any step. `MaxRuns` bounds
restarts of the supervisor; the last one stays, which liveness needs.

Fairness. A caller is weakly fair in its own steps (an OS process that is not
killed goes on; the polling loops never stop polling) and never in crashing,
being throttled or timing out, so no liveness property relies on a timeout. The
capacity cooldown expires, and the status command drops a lock it took. The
supervisor's loop visits every request file in every round, which is strong
fairness of the visit of each caller's request, because rounds start over; a
killed supervisor is started again. In `CloudJournal` the assumption is about the
user: one who goes on trying to adopt an overdue branch, whose reads do not
fail for ever. `PendingJournalIsResolvable` excepts a conversation that ends with a user
message ChatGPT never answered: the code refuses to continue from it, so neither
refresh nor adoption gets through until somebody goes on in ChatGPT itself.
In `AgentTurn` attempts, children, resumes and commands are weakly fair in what they do
without a timeout or a failure (`MainWorks`, `ChildWorks`); the `--timeout` of `agent_turn`
may strike at any wait or never. The same goes for the sessions and the synthesis of
`agent_sessions`, which has no `--timeout` at all (`Bounded = FALSE`). The user
resumes a run that ended without a result, and ChatGPT ends a turn and shows it
in the end (strong fairness of the remote read that finds it; reads may
fail in between); timeouts, failures, kills, deaths, edits and new commands are not fair. In
`DomainService` the steps of a command are weakly fair: systemd finishes what it is
asked to do, and a request to Cloudflare is answered or fails; taking the lock is strongly fair, since whoever holds it releases it
and `flock` waiters poll for it; systemd serves the units. Users need not invoke
anything, and nobody has to be killed or to change the checkout.

The type invariant is run for `GoalRun` only, where it relates events to artifacts and
budgets and is more than the types of variables; those of the other modules hold by the
theorems below (`TypeOK` of `AgentTurn` and of `DomainService` among them).

## 4. What is proved

All theorems hold for every value of the constants that meets the assumptions
named in the modules. Those are what the code fixes: capacities and bounds are
natural numbers, names of different kinds are different, the tables of roles and of
specialists are finite and disjoint, and the profiles of a contract are in the
latter.

`RemoteQueueProofs`, for any set of callers, capacities and bounds:

- `TypeCorrect`: `Spec => []TypeOK`.
- `FailedAttemptsReleaseSlots`: `Spec => []NoLeakedSlot`. A caller holds a
  slot lock only in a claiming loop or while it is admitted. The step facts
  `StepIsLocal` and `EnvironmentIsRemote` say that no process drops or takes a
  lock for another.
- `FifoHolds`: `Spec => FifoAdmission`. By itself the property is not about a
  state, since the listing a caller acted on is gone when it is admitted. The
  inductive invariant `OldestClaims` says that a caller in a claiming loop is
  the oldest of the live, not late tickets. Publishing a ticket preserves it
  because a younger stamp is not older and an older one makes its caller late.
- `ExclusiveTurnsRunAlone`: `Spec => []ExclusiveUntilResize`. `Steady` says that
  the capacity was not changed so far; once it is lost it never comes back
  (`SteadyStep`). While it holds, `WithinCapacity` says that no slot at or above
  the capacity exists, and `OwnsItsSlots` what a caller owns at each point
  of its loops: an exclusive caller in `TakeAll` owns every slot it has passed, and
  an admitted one owns all (serial) or one (shared); `ExclusiveIsSerial` adds that
  an exclusive call is a serial one. Two admitted callers, one of them exclusive,
  would own the same lock.
- `QueueImplementsGate`: `Spec => ImplementsGate`. Each step maps to a step of the
  gate or leaves it unchanged; a shared entry needs room, which follows from the
  free slot that was taken and the injection of callers into the slots they own.
- `RetiredSlotsAreDrained`: `Spec => RetiredSlotsDrain`. What a caller has probed is
  gone when it is admitted, so `Drained` keeps it: while a caller probes, each
  admitted call owns a slot below the limit it read or one still to be probed, and
  while it scans, a slot below the limit. It rests on `OldestClaims` and `Stamped` (no
  two callers claim at once, and only a claiming caller takes slots) and on
  `Working` (a held lock has its file, so the probes meet it). Admitted calls then
  map one to one into the slots below the limit.

`CoordinatedCallProofs`, for any calls, state files, conversations and workers:

- `TypeCorrect`: `Spec => []TypeOK`.
- `StateFilesHaveOneTurn`: `Spec => []OneTurnPerStateFile`. The invariant is
  `HoldsState`: a CLI call owns the lock of its state file from the step after it
  took it until it releases it.
- `IdsAreSavedUnderBothLocks`: `Spec => SavedUnderBothLocks`. `KnowsTurn` adds
  what a call knows of its turn at each point: its state file has no id or that of
  the turn, and while it saves it owns the lock of that conversation.
- `ConversationsHaveOneTurn`: `Spec => []OneTurnPerConversation`, which is about the time
  until a conversation is lost. `Keys` says that a call owns the lock of the
  conversation it wants and that its turn is one of that conversation. A new
  conversation has no lock yet, so the rest of the argument is about admission:
  a CLI call that wants no conversation was classified as a first turn (`Kept`: a
  state file with an id keeps one), and `Admission` says that a first turn is alone
  in the queue. The premise is there because a reset breaks `Kept`: a call
  admitted as shared then makes a first turn.
- `UpgradesDoNotDeadlock`: `Spec => []NoUpgradeDeadlock`, from the same invariant: until
  a conversation is lost only a first turn upgrades its lock, and it is alone inside, so
  whoever owns the lock of its conversation does not wait for a worker. Afterwards the
  deadlock is real (`Coordinated_gone.cfg`).
- `RunningTurnsAreSpared`: `Spec => GuiSparesRunningTurns`, also when conversations are
  lost. `Spared` says that the conversation of a prepared GUI turn has no turn that
  runs; it needs `Wanted`, by which any other call that submits a turn there would
  own the same conversation lock.

`TransientPoolProofs`, for any callers, ports and supervisor runs:

- `TypeCorrect`: `Spec => []TypeOK`.
- `PortsAreApart`: `Spec => []OneWorkerPerPort`. `NothingBefore` says that a
  supervisor that has not published its manifest has no worker alive from an
  earlier run (it reaps first), and `StartsOnce` that a request is served only
  while its slot has no worker.
- `ServiceIsCareful`: `Spec => ServiceSparesUsedWorkers`. `MarkedAtTheEnd` says
  that a release marker exists only when its caller is through, `UsedWasReady`
  that a caller uses a worker only after it was registered as ready, so the
  sweep, which ends what is marked, ownerless or not ready in time, does not meet it.
- `WorkersAreTracked`: `Spec => WorkersStayTracked`: step by step, a running
  worker leaves every record only when its supervisor is killed between Popen and
  registration.

`CloudJournalProofs`, for any cloud turns, tabs and outside turns:

- `TypeCorrect`: `Spec => []TypeOK`.
- `TurnsDoNotFork`: `Spec => []NoForks`,
- `NothingIsPostedBlindly`: `Spec => NoBlindSubmission`,
- `BoundJournalsWaitForTheirTurn`: `Spec => BoundJournalNeedsItsTurn`: three
  consequences of one invariant, `JournalInv`. The lock makes a request the only
  one on its way (`LockHeld`, `StepIsAlone`). `History` says that a turn is shown
  only after it was posted, and that the current node never returns to a message
  that a shown turn continues. `Accounted` says that a POST is in the bound journal,
  in the history or archived: it is not inductive without `Seen` (a request about to
  clear a bound journal has seen its turn, because the turns of the active branch
  are closed under what they continue, `ActiveBranchIsShown`) and without
  `Requests`, which says what a turn relies on between reading its parent and its
  POST: no POST still to be accounted for continues that parent.
- `AdoptionsAreOfTheShownJournal`: `Spec => AdoptionArchivesWhatItShowed`.

`AgentTurnProofs`, for any connector commands, runs, edits, kills and deaths, with
one attempt per run (what `AgentTurn`'s `Spec` starts):

- `TypeCorrect`: `Spec => []TypeOK`.
- `OnlyKillsUntrack`: `Spec => TrackedUnlessKilled`. `LockHeld` makes a command at
  work the only one, and `InHand` says that the process it has started and not yet
  recorded is the one it holds.
- `NotSubmittedHolds`: `Spec => []NotSubmittedIsSafe`. `Journaled` ties the phase on
  disk to how far the child is: no turn exists before `submission-started` is
  written, and no later write takes it back.
- `OkIsProved`: `Spec => []OkMeansProved`. `Own` says that saved conversation and
  response are the run's own turn, `Judged` that whoever is about to write ok has
  seen the proof, which an answered turn never loses.
- `AttachmentIsProved`: `Spec => []AttachedByProof`. `SameDevSpace` says that the
  server an attempt verified is the one its answered turn was served by, or not the
  one in the state file any more, and `Attached` that the flag is cleared by whoever
  replaces the server. `Pedigree` gives every process one life.

`GoalRunProofs`, for any processes, roles, contracts and reports, any number of
edits, crashes, resumptions, iterations and amendments:

- `RecordsArePermanent`: `Spec => AppendOnly`.
- `CompletionIsEvidenced`: `Spec => []CompletedOnEvidence`. The property is about
  the log, but a command judged on the view it loaded. `RunInv` says how the two
  stay together: an advancing process has the end of the log in view or the goal was
  amended meanwhile (`Abreast`), because the phases it works in refuse the
  receipts of the other commands, and only one advances (`Alone`); an event that is
  about to be appended carries what it claims (`EventOk`: for a completion,
  `Evidenced` in the view it was judged in), receipts stay because files and log
  only grow, and an amended goal refuses the append by its version.
- `RunTypes`: `Spec => []TypeOK`, `ChargesWereSubmitted`: `Spec => []NeverOvercharged`,
  `MinimumSliceIsEnough`: `Spec => []MinimumSliceSuffices` and
  `RejectedIsRetired`: `Spec => []NoRejectedRetry`, four consequences of a second
  invariant, `Books`, which is inductive together with `RunInv` (it needs to know
  which view an event was judged in).
  * `EntryOk` is what an entry of the log tells: a phase of the state machine, budgets
    of the first contract (`ContractsOk`: amendments leave them alone), the baseline of
    its iteration, and at most `Due` turns while the first iteration goes on
    unblocked. `Fits` says the same of an event that is about to be appended: it
    charges at most `Cost` turns.
  * `NeverOvercharged` compares a number in the projection with a set of files. What
    links them is `Ledger`: the charged turns are no more than the checkpoints that
    are `Behind` the run, those of an earlier iteration, phase or attempt. An event
    may charge turns that are `Paid`: among those of its phase, each with its checkpoint
    (`Batch`). The event ends the phase or begins another attempt, so these
    checkpoints come to lie behind, and none of them was there before (`Left`
    compares the places of phases). A bare count of checkpoints is not inductive: the
    same turn might be charged twice.
  * `NoRejectedRetry` is about two events far apart. `Ordered` says that keys are not
    used twice and iterations are counted up, so that the refresh of an iteration
    comes after its hypotheses, and each portfolio was judged against everything
    retired in a view that held all refreshes before it.

`AgentConclaveProofs`, for any roles, sessions, tries per role, parallel or
sequential launches, partial or full conclaves, with or without a `--timeout`, and for
edits and kills of sessions, attempts, children or several of them at once:

- `ConclaveTypes`: `ConclaveSpec => [](TypeOK /\ ConclaveTypeOK)`.
- `NothingIsReplayed`: `ConclaveSpec => []NothingReplayed` and
  `OkReportsAreWhole`: `ConclaveSpec => OkReportIsWhole`. The invariant is
  `CInv == Always /\ (lone \/ (Synths /\ Roles))`. `Always` is about types, the
  run lock (a session that works holds it, so there is one) and the checkpoint of a
  synthesis that is waited for. The rest holds until a session or an attempt is killed
  without its child, which sets `lone` for good. `Synths` says that a synthesis that runs has its session
  waiting, that what was posted stands in the checkpoint of its key and that no two of
  one key were posted. `Roles` says who works on the directory of a role: only the
  newest try of it runs, with its child, while a session waits for it (`RunOf`), and
  no session resumes it at the same time; the journal never denies a turn that exists,
  and an attempt that has looked at it has the role without a turn (`WrittenOf`), so a
  second try posts only if the first did not; and an ok in the metadata, in a reader's
  verdict or in a session's results is the answer that is kept, with its proof
  (`VerdictOf`). The proof reuses `TypeOK` and the step lemmas of `AgentTurnProofs` where
  they do not depend on the number of tries; `Journaled` and `Own` there are for one
  attempt per run and are replaced.

`DomainServiceProofs`, for any trees of files, identities, controls, commands,
changes and kills:

- `TypeCorrect`: `Spec => []TypeOK`.
- `AuditedIsServed`: `Spec => []ServedAsAudited`. The configuration changes only
  while the holder of the lock has verified that the services are down (`OnPath`,
  `Changing`), which the units cannot undo by themselves (`Undisturbed`); an
  attestation is in the configuration only after an audit that passed
  (`Certified`), and units are up only with one that speaks for the configuration
  (`Vouched`, established by start before it launches).
- `SecretsAreMasked`: `Spec => []SecretsMasked`. The plan that the origin verified is
  that of the tree it saw, and `PlanSeals` says that the plan of any tree hides
  every sensitive path: a candidate that is left out lies below another, and of
  the candidates above a path the shortest is in the plan (`Least`, by
  well-foundedness of the natural numbers).

Every invariant and action property that a passing run checks is now a theorem.
Only model-checked are the liveness properties, since fairness and ENABLED are beyond
the prover: `EveryCallLeavesTheQueue`, `EveryCallEnds`, `RegisteredWorkersAreReaped`,
`EveryLeaseIsDecided`, `PendingJournalIsResolvable`, `SecretRemoved`, `CommandsReturn`,
`ProofsAreRecovered` and `SessionsEnd`.

## 5. Disagreements found

Two runs of the project show one each:

- A conclave resume relaunches a role whose first child still waits for admission
  (`agent_replay`): README.md:773-774 submits a role "only when its local journal
  proves submission never began", and advisor_agent.py:1158 takes an empty
  journal as that proof.
- An amendment races with the start of the next iteration (`goal_amend`):
  `amend_goal` names the iteration and its baseline from the projection it loaded,
  without `operation.lock` (goal_research_state.py:1557), and the reducer counts from the
  log as it is at the append. The amended goal then has the identity of one iteration and
  the number of the next, `baseline_snapshot` (goal_research.py:108-118) looks for a
  baseline nobody wrote, and the run blocks in `GOAL_FROZEN`, again after each
  resumption, until another amendment. README.md:906-907 and
  docs/prds/goal-research-mode.md:206-208 promise the next version of the goal, mapped anew.

The others are reproduced with the configuration named, e.g.
`tlc -config Transient_leak.cfg MCTransientPool`:

- `Cloud_sametext.cfg`: a journal without a user message id is cleared by a turn of
  the same text that was made in another tab. It is harmless, as that journal's POST
  was never made, but docs/advisor-cloud-gui.md:129 says otherwise.
- `RemoteQueue_growth.cfg`: a first turn is not alone when the capacity grows while
  it runs; README and comment promise every slot.
- `Coordinated_gone.cfg`: the reset of an inaccessible conversation turns a shared
  call into a first turn, which brings back the deadlock that exclusive first turns
  are meant to exclude (advisor_concurrency.py:1375-1377); only the queue timeout ends it.
  The configuration shows `NoDeadlock` false; `EveryCallEnds` has its absence as a
  premise.
- `Transient_leak.cfg`: a supervisor killed between Popen and the registration of
  the pid leaves a worker that nothing ends.
- `Transient_stop.cfg`: `g4f_pool.py stop` unlinks whatever manifest is there, also
  that of the next supervisor.
- `Goal_contras.cfg`: docs/plans/goal-research-mode.md:101-104 says a post-change
  audit "must classify every prior contradiction as open or resolved"; the audit is
  handed only those of the packet's grounding (goal_research.py:1143-1144), so one
  that the previous audit opened can go unmentioned.
- `Goal_charge.cfg`: the same document, 95-97, says that budgets count every
  journal-proven submitted turn; a batch that ends blocked after a partial failure is
  charged only for the turns that come back from it (goal_research.py:821).
- `Domain_expiry.cfg`: docs/cloudflare-domain-mcp.md:350-351 has the timer stop the
  session it was started for; an expiry service that was started by the end of one
  session and waits for the lock stops the next.
- `Domain_window.cfg`: the same document, 383, lets `prepare` choose the window; killed
  between the configuration and the units, it leaves the units of the older one, and
  `start` does not compare them.
- `Agent_untracked.cfg`: README.md:667-668 says that no interrupted start-up leaves an
  untracked process; a kill between Popen and the state file does.

## 6. Simplifications

- Timeouts have no durations: a call may time out whenever it waits. The
  10 s wait for a request lock is therefore never exceeded in `TransientPool`.
- The start of a turn is paced (`pace_remote_start`); the pacing is left out and
  `MarkStart` is the step after it.
- The queue of the transient pool is the one of the remote admission with another
  directory; there, ticket stamp and ticket are published in one step.
- In the transient pool a worker that was started counts as listening at once
  (`PortBindable`): that its port could still be bound between Popen and its own bind
  is left out.
- A process id is not reused: `process_alive` tells the dead from the living.
- Prompts, answers, transcripts, headers and authentication are not modelled;
  neither are registration and removal of projects, nor `reset_catalog`, by which
  a user explicitly drops journals.
- A journal of an older version (`reconcile_message_id`) is not modelled: no
  current code path writes one except `finish_submission`, which has no caller.
- Goal runs: hash digests, schema versions and the rendering of reports are left
  out; a file that is written is whole. The repair of a torn last line happens in the
  load that precedes each command. The receipt that completion rests on may have
  been recorded in an earlier iteration of the same goal version, for the same
  snapshot: a verification that was ready before an invalidation can be appended
  after it, and `CompletedOnEvidence` therefore does not ask for the iteration.
- Agent runs: the project is in sanitized mode and the allowed root does not
  change. The records of the tool log are reduced to whether the turn opened the
  snapshot, inspected it and ended with its marker; the truncation of long logs is left
  out. A DevSpace that cannot bind its port ends before a turn goes on with it. Two
  resumes of one run at a time are not modelled. A serve that gives up ends its
  children and writes the state in one step (`GivesUp`). `serve --foreground`
  (advisor_agent_connect.py:1090-1115), which becomes DevSpace itself by exec, is left out.
  `agent_turn` has one run with one attempt: that results of two attempts do not mix
  while nothing runs on alone is shown by `agent_conclave` and its theorems.
- Conclave: the manifest and the run lock of the first session are created in one
  step, and so are the report, the metadata, the manifest and the latest files at the end
  (`Publish`); the option --no-synthesis is left out; the connector serves throughout.
  `agent_conclave` explores roles one after the other, `agent_sessions` and
  `agent_replay` next to each other. A session killed alone is followed up only in
  `agent_replay`; that a resume also ends when an orphaned child of such a session is in
  its way is not checked, nor that an attempt ends next to the commands of a connector, which
  hold its lock for a while each.
- Domain service: the doctor and status reports, the GPU plan, resource limits and
  the pagination of the Cloudflare API are left out; the audit's inventories are the
  set of controls that are in order when they are read, early or late. The masks are
  those of one tree, as the origin verified it (`OriginVerify` checks the configuration,
  the checkout and the mask plan in one step, `ReadConfig` what start looks at before it
  launches anything): an edit between the scan and the bind mount, a masked path that is
  deleted before the launch, and what is created in the checkout later, while it is
  served, are not in the model. A staged secret stays until a clean-up or the expiry
  removes it, also where the code removes it earlier (the gateway unlinks it once
  read, and an origin that fails its verification stages none): `SecretRemoved` holds
  with more to remove than there is.

Not modelled: the DevSpace patches and sandboxes rewrite third-party sources and
assemble a command line; the Cloudflare gateway checks single requests; the router,
the verifier loop and the single-session conclave make calls in sequence; context
packing, memory, evaluation, project binding and migration, the g4f patch and the
set-up scripts are one-shot; the GUI front end and the bundled skills have no state
of their own in these protocols. Sanitized workspaces are in the model only as
far as a turn sees them: their generations are copied under names of their own.

## 7. Plan

1. Worker health (`record_transport_failure`, `worker_health`) and the pacing of
   starts: both are decisions on files that several callers rewrite under one lock.
2. Generations of sanitized workspaces: a generation is removed only when no
   connector points to it.
3. Proofs about what is added in 1 and 2, and a version of the agent theorems for
   more than one attempt per run (`AgentTurn`'s own specification starts one; the
   conclave's invariant shows what has to be said of the second).
4. Larger instances of the conclave: a connector that is replaced under it, and
   liveness of a resume next to the orphaned children of a killed session.
5. The foreground mode of serve, and edits of a checkout between the origin's scan and
   its bind mounts.
