--------------------------- MODULE TransientPool ---------------------------
(***************************************************************************)
(* One disposable g4f worker per call: transient_worker_lease of           *)
(* advisor_concurrency.py (the callers) against the supervisor loop of     *)
(* g4f_pool.py.  They meet in files only:                                  *)
(*                                                                         *)
(*   g4f-pool.json                    manifest of the serving supervisor   *)
(*   queues/<pool>/..json             tickets, <pool> derived from run_id  *)
(*   transient-slots/<pool>-<n>.lock  one OS lock per slot of a run        *)
(*   transient-requests/<run>/<id>.json, <id>.release                      *)
(*                                                                         *)
(* A slot number stands for a TCP port, so the ports outlive a run and the *)
(* slot locks do not.  A worker is a process of its own session: it        *)
(* survives a supervisor that is killed.  Every caller makes one request   *)
(* and a request is started at most once, so a worker, a request and its   *)
(* release marker are all named by the caller.                             *)
(***************************************************************************)
EXTENDS Integers, FiniteSets

CONSTANTS Callers,    \* one transient_worker_lease each
          Nobody,     \* no request
          MaxWorkers, \* transient.max_workers of the manifest
          MaxRuns,    \* bound: supervisor runs; the last one stays
          MaxFaults   \* bound: callers killed, workers that exit by themselves
                      \* and runs of "g4f_pool.py stop", taken together

ASSUME PoolAssumption ==
    /\ Nobody \notin Callers
    /\ MaxWorkers \in Nat \ {0}
    /\ MaxRuns \in Nat \ {0}
    /\ MaxFaults \in Nat

VARIABLES
    pc,       \* where each caller is in transient_worker_lease
    lease,    \* run_id the caller took from the manifest; 0 before
    ticket,   \* time stamp of the caller's ticket file; 0 if there is none
    clock,    \* the next time stamp
    slot,     \* slot whose lock the caller took; NoSlot before
    locked,   \* callers that hold the lock of their slot
    req,      \* status in the request file, or "absent"
    recorded, \* callers whose worker_pid was ever written to the request
    release,  \* callers whose release marker exists
    proc,     \* worker process started for the request
    run,      \* run_id of the last supervisor; 0 before the first
    phase,    \* where that supervisor is
    manifest, \* run_id in g4f-pool.json; 0 if there is none
    active,   \* the supervisor's table of workers it started
    todo,     \* request files its current loop over a directory has to visit
    job,      \* what it does with the request it read ...
    jobOf,    \* ... and whose request that is
    stopper,  \* run_id "g4f_pool.py stop" read from the manifest; 0 if none
    faults    \* how much of MaxFaults is used up

caller     == <<pc, lease, ticket, clock, slot, locked>>
files      == <<req, recorded, release>>
others     == <<stopper, faults>>
supervisor == <<run, phase, manifest, active, todo, job, jobOf>>
vars       == <<caller, files, proc, supervisor, stopper, faults>>

Slots  == 0 .. MaxWorkers - 1
NoSlot == -1

Init ==
    /\ pc       = [c \in Callers |-> "idle"]
    /\ lease    = [c \in Callers |-> 0]
    /\ ticket   = [c \in Callers |-> 0]
    /\ clock    = 1
    /\ slot     = [c \in Callers |-> NoSlot]
    /\ locked   = {}
    /\ req      = [c \in Callers |-> "absent"]
    /\ recorded = {}
    /\ release  = {}
    /\ proc     = [c \in Callers |-> "none"]
    /\ run      = 0
    /\ phase    = "down"
    /\ manifest = 0
    /\ active   = {}
    /\ todo     = {}
    /\ job      = "none"
    /\ jobOf    = Nobody
    /\ stopper  = 0
    /\ faults   = 0

-----------------------------------------------------------------------------

Goto(c, label) == pc' = [pc EXCEPT ![c] = label]
Alive(c)  == pc[c] # "dead"
Exists(c) == req[c] # "absent"

\* The manifest names run r and the supervisor that wrote it is alive.
Serving(r) == manifest = r /\ run = r /\ phase # "down"

\* Callers waiting in the same queue with an older ticket; the stale ones are
\* removed by cleanup_stale_tickets first.
Ahead(c) == {d \in Callers : /\ ticket[d] # 0 /\ lease[d] = lease[c] /\ Alive(d)
                             /\ ticket[d] < ticket[c]}

SlotFree(r, s) == \A d \in locked : ~(lease[d] = r /\ slot[d] = s)

\* Mutant: the port is not tried before a worker is started on it.
AnyPortWillDo(s) == TRUE

\* port_bindable: a live worker listens on the port of its slot.
PortBindable(s) == \A d \in Callers : proc[d] = "up" => slot[d] # s

\* terminate_process and terminate_external_process: SIGTERM, then SIGKILL.
Kill(c) == proc' = [proc EXCEPT ![c] = IF @ = "up" THEN "gone" ELSE @]

\* remove_request_artifacts
RemoveArtifacts(c) ==
    /\ req' = [req EXCEPT ![c] = "absent"]
    /\ release' = release \ {c}
    /\ UNCHANGED recorded

\* update_request(status=...): nothing happens once the marker exists or the
\* request is gone.
UpdateStatus(c, status) ==
    /\ req' = [req EXCEPT ![c] = IF c \in release \/ ~Exists(c) THEN @ ELSE status]
    /\ UNCHANGED <<recorded, release>>

-----------------------------------------------------------------------------
(* The caller.                                                             *)

\* worker_lease finds the manifest of a live supervisor; the ticket is written.
Join(c) ==
    /\ pc[c] = "idle"
    /\ manifest # 0 /\ Serving(manifest)
    /\ lease' = [lease EXCEPT ![c] = manifest]
    /\ ticket' = [ticket EXCEPT ![c] = clock]
    /\ clock' = clock + 1
    /\ Goto(c, "queued")
    /\ UNCHANGED <<slot, locked, files, proc, supervisor, others>>

\* position < max_workers: the caller tries the slot locks; the rotation over
\* them depends on the ticket name, so it may find any free one first.
ClaimSlot(c) ==
    /\ pc[c] = "queued"
    /\ Cardinality(Ahead(c)) < MaxWorkers
    /\ \E s \in Slots : SlotFree(lease[c], s) /\ slot' = [slot EXCEPT ![c] = s]
    /\ locked' = locked \cup {c}
    /\ ticket' = [d \in Callers |-> IF Alive(d) THEN ticket[d] ELSE 0]
    /\ Goto(c, "claimed")
    /\ UNCHANGED <<lease, clock, files, proc, supervisor, others>>

QueueTimeout(c) ==
    /\ pc[c] = "queued"
    /\ ticket' = [ticket EXCEPT ![c] = 0]
    /\ Goto(c, "done")
    /\ UNCHANGED <<lease, clock, slot, locked, files, proc, supervisor, others>>

\* The ticket is unlinked and the request is written.
WriteRequest(c) ==
    /\ pc[c] = "claimed"
    /\ ticket' = [ticket EXCEPT ![c] = 0]
    /\ req' = [req EXCEPT ![c] = "pending"]
    /\ Goto(c, "waiting")
    /\ UNCHANGED <<lease, clock, slot, locked, recorded, release, proc,
                   supervisor, others>>

\* One poll: the supervisor is checked first, then the status.
LeaseReady(c) ==
    /\ pc[c] = "waiting"
    /\ Serving(lease[c])
    /\ req[c] = "ready"
    /\ Goto(c, IF proc[c] = "up" THEN "using" ELSE "closing")
    /\ UNCHANGED <<lease, ticket, clock, slot, locked, files, proc, supervisor, others>>

\* Mutant: the poll does not look whether the supervisor still serves.
FailOnStatusOnly(c) ==
    /\ pc[c] = "waiting"
    /\ req[c] = "failed"
    /\ Goto(c, "closing")
    /\ UNCHANGED <<lease, ticket, clock, slot, locked, files, proc, supervisor, others>>

LeaseFails(c) ==
    /\ pc[c] = "waiting"
    /\ ~Serving(lease[c]) \/ req[c] = "failed"
    /\ Goto(c, "closing")
    /\ UNCHANGED <<lease, ticket, clock, slot, locked, files, proc, supervisor, others>>

StartupTimeout(c) ==
    /\ pc[c] = "waiting"
    /\ Serving(lease[c]) /\ req[c] \notin {"ready", "failed"}
    /\ Goto(c, "closing")
    /\ UNCHANGED <<lease, ticket, clock, slot, locked, files, proc, supervisor, others>>

\* The call made with the worker ends, with an answer or an exception.
Finish(c) ==
    /\ pc[c] = "using"
    /\ Goto(c, "closing")
    /\ UNCHANGED <<lease, ticket, clock, slot, locked, files, proc, supervisor, others>>

\* finally: write the release marker ...
WriteRelease(c) ==
    /\ pc[c] = "closing"
    /\ release' = release \cup {c}
    /\ Goto(c, "released")
    /\ UNCHANGED <<lease, ticket, clock, slot, locked, req, recorded, proc,
                   supervisor, others>>

\* ... wait until the supervisor has removed the request ...
SeeRemoval(c) ==
    /\ pc[c] = "released"
    /\ ~Exists(c)
    /\ Goto(c, "unmarking")
    /\ UNCHANGED <<lease, ticket, clock, slot, locked, files, proc, supervisor, others>>

\* ... or, after ADVISOR_TRANSIENT_RELEASE_TIMEOUT or at once when the manifest
\* names another run, terminate the recorded worker and unlink the request
\* oneself, under the lock of the request ...
RemoveOneself(c) ==
    /\ pc[c] = "released"
    /\ Exists(c)
    /\ IF c \in recorded THEN Kill(c) ELSE UNCHANGED proc
    /\ req' = [req EXCEPT ![c] = "absent"]
    /\ Goto(c, "unmarking")
    /\ UNCHANGED <<lease, ticket, clock, slot, locked, recorded, release,
                   supervisor, others>>

\* ... unlink the marker, and release the slot lock.
Unmark(c) ==
    /\ pc[c] = "unmarking"
    /\ release' = release \ {c}
    /\ Goto(c, "unlocking")
    /\ UNCHANGED <<lease, ticket, clock, slot, locked, req, recorded, proc,
                   supervisor, others>>

UnlockSlot(c) ==
    /\ pc[c] = "unlocking"
    /\ locked' = locked \ {c}
    /\ Goto(c, "done")
    /\ UNCHANGED <<lease, ticket, clock, slot, files, proc, supervisor, others>>

\* The caller is killed: the slot lock goes, the files stay.
Crash(c) ==
    /\ pc[c] \notin {"idle", "done", "dead"}
    /\ faults < MaxFaults
    /\ faults' = faults + 1
    /\ locked' = locked \ {c}
    /\ Goto(c, "dead")
    /\ UNCHANGED <<lease, ticket, clock, slot, files, proc, supervisor, stopper>>

-----------------------------------------------------------------------------
(* The supervisor.                                                         *)

\* command_serve: the manager lock admits one supervisor; it begins with
\* reap_stale_transient_requests over the requests of every earlier run.
StartSupervisor ==
    /\ phase = "down" /\ run < MaxRuns
    /\ run' = run + 1
    /\ phase' = "reaping"
    /\ todo' = {c \in Callers : Exists(c)}
    /\ UNCHANGED <<caller, files, proc, manifest, active, job, jobOf, others>>

\* The visit of one request of another run, or of one left when stopping:
\* terminate the worker it records, remove it.
Reap(c) ==
    /\ phase \in {"reaping", "draining"} /\ c \in todo
    /\ IF Exists(c) /\ c \in recorded THEN Kill(c) ELSE UNCHANGED proc
    /\ RemoveArtifacts(c)
    /\ todo' = todo \ {c}
    /\ UNCHANGED <<caller, run, phase, manifest, active, job, jobOf, others>>

\* The control workers are ready and the manifest is written.
PublishManifest ==
    /\ phase = "reaping" /\ todo = {}
    /\ manifest' = run
    /\ phase' = "serving"
    /\ UNCHANGED <<caller, files, proc, run, active, todo, job, jobOf, others>>

\* Requests of this run the supervisor may look at between two jobs.
Idle == phase = "serving" /\ job = "none"
Mine(c) == Exists(c) /\ lease[c] = run

\* Mutant: requests of dead owners are not looked for.
ReadMarkerOnly(c) ==
    /\ Idle /\ Mine(c)
    /\ c \in release
    /\ IF c \in active THEN Kill(c) ELSE UNCHANGED proc
    /\ active' = active \ {c}
    /\ job' = "remove" /\ jobOf' = c
    /\ UNCHANGED <<caller, files, run, phase, manifest, todo, others>>

\* service_transient_requests, first loop: the payload is read here and acted
\* on in a later step, while the caller goes on.
ReadRelease(c) ==
    /\ Idle /\ Mine(c)
    /\ c \in release \/ ~Alive(c)
    /\ IF c \in active THEN Kill(c) ELSE UNCHANGED proc
    /\ active' = active \ {c}
    /\ job' = "remove" /\ jobOf' = c
    /\ UNCHANGED <<caller, files, run, phase, manifest, todo, others>>

ReadPending(c) ==
    /\ Idle /\ Mine(c)
    /\ c \notin release /\ Alive(c) /\ c \notin active
    /\ req[c] = "pending"
    /\ \A d \in active : slot[d] # slot[c]
    /\ job' = IF PortBindable(slot[c]) THEN "start" ELSE "refuse"
    /\ jobOf' = c
    /\ UNCHANGED <<caller, files, proc, run, phase, manifest, active, todo, others>>

EndJob == job' = "none" /\ jobOf' = Nobody

\* start_transient_worker: Popen; the process exists before any file says so.
StartWorker ==
    /\ job = "start"
    /\ proc' = [proc EXCEPT ![jobOf] = "up"]
    /\ job' = "register"
    /\ UNCHANGED <<caller, files, run, phase, manifest, active, todo, jobOf, others>>

\* Popen fails.
FailToStart ==
    /\ job = "start"
    /\ job' = "refuse"
    /\ UNCHANGED <<caller, files, proc, run, phase, manifest, active, todo,
                   jobOf, others>>

\* Mutant: a request that was released meanwhile is not written, and its
\* process is forgotten.
RegisterOrForget ==
    /\ job = "register"
    /\ IF Exists(jobOf) /\ jobOf \notin release
       THEN /\ req' = [req EXCEPT ![jobOf] = "starting"]
            /\ recorded' = recorded \cup {jobOf}
            /\ active' = active \cup {jobOf}
            /\ EndJob
       ELSE /\ job' = "refuse"
            /\ UNCHANGED <<req, recorded, active, jobOf>>
    /\ UNCHANGED <<caller, release, proc, run, phase, manifest, todo, others>>

\* update_request(status="starting", worker_pid=...): a request that was
\* released meanwhile is not written, and the process is terminated.
RegisterWorker ==
    /\ job = "register"
    /\ IF Exists(jobOf) /\ jobOf \notin release
       THEN /\ req' = [req EXCEPT ![jobOf] = "starting"]
            /\ recorded' = recorded \cup {jobOf}
            /\ active' = active \cup {jobOf}
            /\ EndJob
            /\ UNCHANGED proc
       ELSE /\ Kill(jobOf)
            /\ job' = "refuse"
            /\ UNCHANGED <<req, recorded, active, jobOf>>
    /\ UNCHANGED <<caller, release, run, phase, manifest, todo, others>>

\* update_request(status="failed")
RefuseRequest ==
    /\ job = "refuse"
    /\ UpdateStatus(jobOf, "failed")
    /\ EndJob
    /\ UNCHANGED <<caller, proc, run, phase, manifest, active, todo, others>>

RemoveRequest ==
    /\ job = "remove"
    /\ RemoveArtifacts(jobOf)
    /\ EndJob
    /\ UNCHANGED <<caller, proc, run, phase, manifest, active, todo, others>>

\* Second loop, over the table of workers: the marker first ...
SweepReleased(c) ==
    /\ Idle /\ c \in active
    /\ c \in release
    /\ Kill(c)
    /\ active' = active \ {c}
    /\ job' = "remove" /\ jobOf' = c
    /\ UNCHANGED <<caller, files, run, phase, manifest, todo, others>>

\* ... then a process that exited ...
SweepExited(c) ==
    /\ Idle /\ c \in active
    /\ proc[c] = "gone"
    /\ UpdateStatus(c, "failed")
    /\ active' = active \ {c}
    /\ UNCHANGED <<caller, proc, run, phase, manifest, todo, job, jobOf, others>>

\* ... then one that answers ...
SweepReady(c) ==
    /\ Idle /\ c \in active
    /\ proc[c] = "up" /\ req[c] = "starting"
    /\ UpdateStatus(c, "ready")
    /\ UNCHANGED <<caller, proc, supervisor, others>>

\* Mutant: the startup deadline is enforced on ready workers, too.
SweepOverdueReadyToo(c) ==
    /\ Idle /\ c \in active
    /\ proc[c] = "up" /\ c \notin release
    /\ Kill(c)
    /\ active' = active \ {c}
    /\ UpdateStatus(c, "failed")
    /\ UNCHANGED <<caller, run, phase, manifest, todo, job, jobOf, others>>

\* ... then one that did not become ready in time.
SweepOverdue(c) ==
    /\ Idle /\ c \in active
    /\ proc[c] = "up" /\ req[c] = "starting" /\ c \notin release
    /\ Kill(c)
    /\ active' = active \ {c}
    /\ UpdateStatus(c, "failed")
    /\ UNCHANGED <<caller, run, phase, manifest, todo, job, jobOf, others>>

\* SIGTERM, a control worker exited, or one did not become ready at startup:
\* the finally clause begins with remove_owned_manifest.
Stop ==
    /\ run < MaxRuns
    /\ Idle \/ (phase = "reaping" /\ todo = {})
    /\ manifest' = IF manifest = run THEN 0 ELSE manifest
    /\ phase' = "stopping"
    /\ UNCHANGED <<caller, files, proc, run, active, todo, job, jobOf, others>>

StopWorker(c) ==
    /\ phase = "stopping" /\ c \in active
    /\ Kill(c)
    /\ active' = active \ {c}
    /\ RemoveArtifacts(c)
    /\ UNCHANGED <<caller, run, phase, manifest, todo, job, jobOf, others>>

\* Then the requests that are left in the directory of this run.
Drain ==
    /\ phase = "stopping" /\ active = {}
    /\ todo' = {c \in Callers : Mine(c)}
    /\ phase' = "draining"
    /\ UNCHANGED <<caller, files, proc, run, manifest, active, job, jobOf, others>>

Exit ==
    /\ phase = "draining" /\ todo = {}
    /\ phase' = "down"
    /\ UNCHANGED <<caller, files, proc, run, manifest, active, todo, job, jobOf, others>>

\* The supervisor is killed: its table is lost, the workers go on.
SupervisorCrash ==
    /\ phase # "down" /\ run < MaxRuns
    /\ phase' = "down"
    /\ active' = {} /\ todo' = {}
    /\ EndJob
    /\ UNCHANGED <<caller, files, proc, run, manifest, others>>

\* command_stop reads the manifest ...
StopCommandReads ==
    /\ stopper = 0 /\ manifest # 0
    /\ faults < MaxFaults
    /\ faults' = faults + 1
    /\ stopper' = manifest
    /\ UNCHANGED <<caller, files, proc, supervisor>>

\* ... signals the supervisor it names, which is one cause of Stop, and when
\* that supervisor is dead, then or at the first look, unlinks the manifest;
\* otherwise its timeout passes.
StopCommandEnds ==
    /\ stopper # 0
    /\ \/ /\ ~(run = stopper /\ phase # "down")
          /\ manifest' = 0
       \/ /\ run = stopper /\ phase # "down"
          /\ UNCHANGED manifest
    /\ stopper' = 0
    /\ UNCHANGED <<caller, files, proc, run, phase, active, todo, job, jobOf, faults>>

\* A worker exits by itself.
WorkerExit(c) ==
    /\ proc[c] = "up"
    /\ faults < MaxFaults
    /\ faults' = faults + 1
    /\ Kill(c)
    /\ UNCHANGED <<caller, files, supervisor, stopper>>

-----------------------------------------------------------------------------

\* What a live caller does without a timeout of the queue; the wait for the
\* removal of the request always has a deadline.
Progress(c) ==
    \/ ClaimSlot(c) \/ WriteRequest(c) \/ LeaseReady(c) \/ LeaseFails(c)
    \/ Finish(c) \/ WriteRelease(c) \/ SeeRemoval(c) \/ RemoveOneself(c)
    \/ Unmark(c) \/ UnlockSlot(c)

Service(c) ==
    \/ ReadRelease(c) \/ ReadPending(c) \/ SweepReleased(c) \/ SweepExited(c)
    \/ SweepReady(c) \/ SweepOverdue(c)

Job == \/ StartWorker \/ FailToStart \/ RegisterWorker \/ RefuseRequest
       \/ RemoveRequest

Lifecycle == \/ StartSupervisor \/ (\E c \in Callers : Reap(c) \/ StopWorker(c))
             \/ PublishManifest \/ Drain \/ Exit

Next ==
    \/ \E c \in Callers :
          \/ Join(c) \/ Progress(c) \/ QueueTimeout(c) \/ StartupTimeout(c)
          \/ Crash(c) \/ Service(c) \/ WorkerExit(c)
    \/ Job \/ Lifecycle \/ Stop \/ SupervisorCrash
    \/ StopCommandReads \/ StopCommandEnds

Spec == Init /\ [][Next]_vars

\* Live callers run, the loop of the supervisor comes around to every request
\* and worker, and a supervisor that went down is started again.  A request
\* stays to be visited until it is, but the visits are interrupted by jobs of
\* other requests: the loop is fair to each of them (SF).
FairSpec ==
    /\ Spec
    /\ \A c \in Callers : WF_vars(Progress(c)) /\ SF_vars(Service(c))
    /\ WF_vars(Job)
    /\ WF_vars(Lifecycle)

-----------------------------------------------------------------------------
(* What the handshake promises.                                            *)

\* Types; a caller locks only slots that have a port.
TypeOK ==
    /\ pc \in [Callers -> {"idle", "queued", "claimed", "waiting", "using",
                           "closing", "released", "unmarking", "unlocking",
                           "done", "dead"}]
    /\ lease \in [Callers -> 0 .. MaxRuns]
    /\ ticket \in [Callers -> Nat]
    /\ clock \in Nat \ {0}
    /\ slot \in [Callers -> Slots \cup {NoSlot}]
    /\ locked \subseteq Callers
    /\ req \in [Callers -> {"absent", "pending", "starting", "ready", "failed"}]
    /\ recorded \subseteq Callers
    /\ release \subseteq Callers
    /\ proc \in [Callers -> {"none", "up", "gone"}]
    /\ run \in 0 .. MaxRuns
    /\ phase \in {"down", "reaping", "serving", "stopping", "draining"}
    /\ manifest \in 0 .. MaxRuns
    /\ active \subseteq Callers
    /\ todo \subseteq Callers
    /\ job \in {"none", "start", "register", "refuse", "remove"}
    /\ jobOf \in Callers \cup {Nobody}
    /\ stopper \in 0 .. MaxRuns
    /\ faults \in 0 .. MaxFaults

\* No two live workers share a port, neither those of one run nor a worker
\* left by a killed supervisor and one of the next run.
OneWorkerPerPort ==
    \A c, d \in Callers :
        proc[c] = "up" /\ proc[d] = "up" /\ slot[c] = slot[d] => c = d

\* While it serves, a supervisor terminates no worker that a live call is
\* using; a worker in use ends by itself, or because the pool is stopped or
\* taken over by the next supervisor.
ServiceSparesUsedWorkers ==
    [][\A c \in Callers :
          proc[c] = "up" /\ proc'[c] # "up" /\ pc[c] = "using" =>
             faults' # faults \/ phase # "serving"]_vars

\* A worker no file and no supervisor knows of.
Untracked(c) ==
    /\ proc[c] = "up" /\ c \notin recorded
    /\ ~(job = "register" /\ jobOf = c)

\* However the start of a worker, the end of its call, timeouts and the end of
\* the pool interleave, a running worker is lost sight of in one way only: its
\* supervisor is killed before it registers the process.
WorkersStayTracked ==
    [][\A c \in Callers :
          Untracked(c)' /\ ~Untracked(c) => job # "none" /\ phase # "down" /\ phase' = "down"]_vars

\* A worker registered for a call that ended or was killed does not stay.
RegisteredWorkersAreReaped ==
    \A c \in Callers :
        pc[c] \in {"done", "dead"} /\ c \in recorded ~> proc[c] # "up"

\* A call that joined the queue gets a worker or ends, without any timeout of
\* the queue: not even a crash of the supervisor leaves it waiting.
EveryLeaseIsDecided ==
    \A c \in Callers : pc[c] = "queued" ~> pc[c] \in {"using", "done", "dead"}

\* A supervisor that serves is the one the manifest names: its capacity and its
\* workers are what callers find, as long as it runs.
ServingSupervisorIsAnnounced == phase = "serving" => manifest = run

\* The README: the process of a call "is terminated as soon as the call
\* exits" - here, at some time after it.
WorkerEndsWithItsCall ==
    \A c \in Callers : pc[c] = "done" ~> proc[c] # "up"
=============================================================================
