------------------------ MODULE TransientPoolProofs ------------------------
(***************************************************************************)
(* Theorems about the transient pool, for any callers, workers and runs of *)
(* the supervisor, and any number of faults.                               *)
(***************************************************************************)
EXTENDS TransientPool, TLAPS

-----------------------------------------------------------------------------
(* Types.                                                                  *)

\* The supervisor works on a request of somebody.
JobNamed == job # "none" => jobOf \in Callers

Typed == TypeOK /\ JobNamed

\* The initial states are well typed.
LEMMA InitTyped == Init => Typed
BY PoolAssumption DEF Init, TypeOK, JobNamed, Typed

\* Every step keeps the types.
LEMMA StepTyped == Typed /\ [Next]_vars => Typed'
<1> SUFFICES ASSUME Typed, [Next]_vars PROVE Typed'
  OBVIOUS
<1> USE PoolAssumption DEF Typed, TypeOK, JobNamed, Goto, Kill, RemoveArtifacts, UpdateStatus, EndJob, caller, files, others, supervisor
<1>1. ASSUME NEW c \in Callers, Join(c) \/ Progress(c) \/ QueueTimeout(c) \/ StartupTimeout(c) \/ Crash(c) PROVE Typed'
  BY <1>1 DEF Join, Progress, ClaimSlot, WriteRequest, LeaseReady, LeaseFails, Finish, WriteRelease,
     SeeRemoval, RemoveOneself, Unmark, UnlockSlot, QueueTimeout, StartupTimeout, Crash
<1>2. ASSUME NEW c \in Callers, Service(c) PROVE Typed'
  BY <1>2 DEF Service, ReadRelease, ReadPending, SweepReleased, SweepExited, SweepReady, SweepOverdue
<1>3. ASSUME NEW c \in Callers, WorkerExit(c) PROVE Typed'
  BY <1>3 DEF WorkerExit
<1>4. ASSUME Job PROVE Typed'
  BY <1>4 DEF Job, StartWorker, FailToStart, RegisterWorker, RefuseRequest, RemoveRequest
<1>5. ASSUME Lifecycle PROVE Typed'
  BY <1>5 DEF Lifecycle, StartSupervisor, Reap, StopWorker, PublishManifest, Drain, Exit
<1>6. ASSUME Stop \/ SupervisorCrash \/ StopCommandReads \/ StopCommandEnds PROVE Typed'
  BY <1>6 DEF Stop, SupervisorCrash, StopCommandReads, StopCommandEnds
<1>7. ASSUME UNCHANGED vars PROVE Typed'
  BY <1>7 DEF vars
<1> QED BY <1>1, <1>2, <1>3, <1>4, <1>5, <1>6, <1>7 DEF Next

\* Every variable keeps its type, and a caller locks only slots that have a port.
THEOREM TypeCorrect == Spec => []TypeOK
<1>1. Typed => TypeOK
  BY DEF Typed
<1> QED BY <1>1, InitTyped, StepTyped, PTL DEF Spec

-----------------------------------------------------------------------------
(* What a caller, its request and its worker are to each other.            *)

\* Before its request is written a caller has none, and no worker.
Unasked == {"idle", "queued", "claimed"}
NothingBefore ==
    \A c \in Callers : pc[c] \in Unasked =>
        req[c] = "absent" /\ proc[c] = "none" /\ ~(job # "none" /\ jobOf = c)

\* The marker is there between the end of a call and the last step of its lease.
MarkedAtTheEnd == \A c \in release : pc[c] \in {"released", "unmarking", "dead"}

\* A request whose worker is used was ready once.
UsedWasReady == \A c \in Callers : pc[c] = "using" => req[c] \in {"ready", "failed", "absent"}

\* A worker is started for a request nobody has answered, on a port nobody has.
StartsOnce ==
    /\ job \in {"start", "register"} => req[jobOf] \in {"pending", "absent"} /\ pc[jobOf] # "using"
    /\ job = "start" => PortBindable(slot[jobOf])

PoolInv == Typed /\ NothingBefore /\ MarkedAtTheEnd /\ UsedWasReady /\ StartsOnce

\* Requests, markers and workers are as a call goes through its lease.
LEMMA PoolInvStep == PoolInv /\ [Next]_vars => PoolInv'
<1> SUFFICES ASSUME PoolInv, [Next]_vars
             PROVE  NothingBefore' /\ MarkedAtTheEnd' /\ UsedWasReady' /\ StartsOnce'
  BY StepTyped DEF PoolInv
<1> DEFINE Good == NothingBefore' /\ MarkedAtTheEnd' /\ UsedWasReady' /\ StartsOnce'
<1> USE DEF Typed, TypeOK, JobNamed, PoolInv, NothingBefore, MarkedAtTheEnd, UsedWasReady,
        StartsOnce, PortBindable, Unasked, Idle, Mine, Exists, Alive,
        Goto, Kill, RemoveArtifacts, UpdateStatus, EndJob, caller, files, others, supervisor
<1>1. ASSUME NEW c \in Callers, Join(c) PROVE Good
  BY <1>1 DEF Join
<1>2. ASSUME NEW c \in Callers, ClaimSlot(c) PROVE Good
  BY <1>2 DEF ClaimSlot
<1>3. ASSUME NEW c \in Callers, WriteRequest(c) PROVE Good
  BY <1>3 DEF WriteRequest
<1>4. ASSUME NEW c \in Callers, LeaseReady(c) PROVE Good
  BY <1>4 DEF LeaseReady
<1>5. ASSUME NEW c \in Callers, LeaseFails(c) PROVE Good
  BY <1>5 DEF LeaseFails
<1>6. ASSUME NEW c \in Callers, Finish(c) PROVE Good
  BY <1>6 DEF Finish
<1>7. ASSUME NEW c \in Callers, WriteRelease(c) PROVE Good
  BY <1>7 DEF WriteRelease
<1>8. ASSUME NEW c \in Callers, SeeRemoval(c) PROVE Good
  BY <1>8 DEF SeeRemoval
<1>9. ASSUME NEW c \in Callers, RemoveOneself(c) PROVE Good
  BY <1>9 DEF RemoveOneself
<1>10. ASSUME NEW c \in Callers, Unmark(c) PROVE Good
  BY <1>10 DEF Unmark
<1>11. ASSUME NEW c \in Callers, UnlockSlot(c) PROVE Good
  BY <1>11 DEF UnlockSlot
<1>12. ASSUME NEW c \in Callers, QueueTimeout(c) PROVE Good
  BY <1>12 DEF QueueTimeout
<1>13. ASSUME NEW c \in Callers, StartupTimeout(c) PROVE Good
  BY <1>13 DEF StartupTimeout
<1>14. ASSUME NEW c \in Callers, Crash(c) PROVE Good
  BY <1>14 DEF Crash
<1>15. ASSUME NEW c \in Callers, ReadRelease(c) PROVE Good
  BY <1>15 DEF ReadRelease
<1>16. ASSUME NEW c \in Callers, ReadPending(c) PROVE Good
  BY <1>16 DEF ReadPending
<1>17. ASSUME NEW c \in Callers, SweepReleased(c) PROVE Good
  BY <1>17 DEF SweepReleased
<1>18. ASSUME NEW c \in Callers, SweepExited(c) PROVE Good
  BY <1>18 DEF SweepExited
<1>19. ASSUME NEW c \in Callers, SweepReady(c) PROVE Good
  BY <1>19 DEF SweepReady
<1>20. ASSUME NEW c \in Callers, SweepOverdue(c) PROVE Good
  BY <1>20 DEF SweepOverdue
<1>21. ASSUME NEW c \in Callers, WorkerExit(c) PROVE Good
  BY <1>21 DEF WorkerExit
<1>22. ASSUME NEW c \in Callers, Reap(c) PROVE Good
  BY <1>22 DEF Reap
<1>23. ASSUME NEW c \in Callers, StopWorker(c) PROVE Good
  BY <1>23 DEF StopWorker
<1>24. ASSUME StartWorker PROVE Good
  BY <1>24 DEF StartWorker
<1>25. ASSUME FailToStart PROVE Good
  BY <1>25 DEF FailToStart
<1>26. ASSUME RegisterWorker PROVE Good
  BY <1>26 DEF RegisterWorker
<1>27. ASSUME RefuseRequest PROVE Good
  BY <1>27 DEF RefuseRequest
<1>28. ASSUME RemoveRequest PROVE Good
  BY <1>28 DEF RemoveRequest
<1>29. ASSUME StartSupervisor PROVE Good
  BY <1>29 DEF StartSupervisor
<1>30. ASSUME PublishManifest PROVE Good
  BY <1>30 DEF PublishManifest
<1>31. ASSUME Drain PROVE Good
  BY <1>31 DEF Drain
<1>32. ASSUME Exit PROVE Good
  BY <1>32 DEF Exit
<1>33. ASSUME Stop PROVE Good
  BY <1>33 DEF Stop
<1>34. ASSUME SupervisorCrash PROVE Good
  BY <1>34 DEF SupervisorCrash
<1>35. ASSUME StopCommandReads PROVE Good
  BY <1>35 DEF StopCommandReads
<1>36. ASSUME StopCommandEnds PROVE Good
  BY <1>36 DEF StopCommandEnds
<1>37. ASSUME UNCHANGED vars PROVE Good
  BY <1>37 DEF vars
<1> HIDE DEF PoolInv, Good
<1>38. Good
  BY <1>1, <1>2, <1>3, <1>4, <1>5, <1>6, <1>7, <1>8, <1>9, <1>10, <1>11, <1>12, <1>13, <1>14,
     <1>15, <1>16, <1>17, <1>18, <1>19, <1>20, <1>21, <1>22, <1>23, <1>24, <1>25, <1>26, <1>27,
     <1>28, <1>29, <1>30, <1>31, <1>32, <1>33, <1>34, <1>35, <1>36, <1>37
  DEF Next, Progress, Service, Job, Lifecycle
<1> QED BY <1>38 DEF Good

\* It holds in every state.
LEMMA PoolInvCorrect == Spec => []PoolInv
<1>1. Init => PoolInv
  BY InitTyped DEF Init, PoolInv, NothingBefore, MarkedAtTheEnd, UsedWasReady, StartsOnce, Unasked
<1> QED BY <1>1, PoolInvStep, PTL DEF Spec

-----------------------------------------------------------------------------
(* One worker per port.                                                    *)

\* A step that starts no worker keeps the ports apart: a slot is claimed by a
\* caller that has no worker yet.
LEMMA PortsStep == PoolInv /\ OneWorkerPerPort /\ [Next]_vars => OneWorkerPerPort'
<1> SUFFICES ASSUME PoolInv, OneWorkerPerPort, [Next]_vars PROVE OneWorkerPerPort'
  OBVIOUS
<1>1. ASSUME NEW c \in Callers, ClaimSlot(c) PROVE OneWorkerPerPort'
  BY <1>1 DEF ClaimSlot, PoolInv, NothingBefore, Unasked, OneWorkerPerPort, others, Typed, TypeOK
<1>2. ASSUME StartWorker PROVE OneWorkerPerPort'
  BY <1>2 DEF StartWorker, PoolInv, StartsOnce, PortBindable, OneWorkerPerPort, caller, Typed,
     TypeOK, JobNamed
<1>3. ASSUME ~StartWorker, \A c \in Callers : ~ClaimSlot(c)
      PROVE  UNCHANGED slot /\ \A d \in Callers : proc'[d] = "up" => proc[d] = "up"
  <2> DEFINE Fewer == UNCHANGED slot /\ \A d \in Callers : proc'[d] = "up" => proc[d] = "up"
  <2> USE DEF PoolInv, Typed, TypeOK, JobNamed, Goto, Kill, RemoveArtifacts, UpdateStatus, EndJob, caller, files, others, supervisor
  <2>1. ASSUME NEW c \in Callers, Join(c) \/ Progress(c) \/ QueueTimeout(c) \/ StartupTimeout(c) \/ Crash(c) PROVE Fewer
    BY <1>3, <2>1 DEF Join, Progress, ClaimSlot, WriteRequest, LeaseReady, LeaseFails, Finish, WriteRelease,
       SeeRemoval, RemoveOneself, Unmark, UnlockSlot, QueueTimeout, StartupTimeout, Crash
  <2>2. ASSUME NEW c \in Callers, Service(c) PROVE Fewer
    BY <1>3, <2>2 DEF Service, ReadRelease, ReadPending, SweepReleased, SweepExited, SweepReady, SweepOverdue
  <2>3. ASSUME NEW c \in Callers, WorkerExit(c) PROVE Fewer
    BY <1>3, <2>3 DEF WorkerExit
  <2>4. ASSUME Job PROVE Fewer
    BY <1>3, <2>4 DEF Job, StartWorker, FailToStart, RegisterWorker, RefuseRequest, RemoveRequest
  <2>5. ASSUME Lifecycle PROVE Fewer
    BY <1>3, <2>5 DEF Lifecycle, StartSupervisor, Reap, StopWorker, PublishManifest, Drain, Exit
  <2>6. ASSUME Stop \/ SupervisorCrash \/ StopCommandReads \/ StopCommandEnds PROVE Fewer
    BY <1>3, <2>6 DEF Stop, SupervisorCrash, StopCommandReads, StopCommandEnds
  <2>7. ASSUME UNCHANGED vars PROVE Fewer
    BY <2>7 DEF vars
  <2> QED BY <2>1, <2>2, <2>3, <2>4, <2>5, <2>6, <2>7 DEF Next
<1> QED BY <1>1, <1>2, <1>3 DEF OneWorkerPerPort

\* No two live workers share a port, whatever supervisors are killed, for any
\* number of ports and callers.
THEOREM PortsAreApart == Spec => []OneWorkerPerPort
<1>1. Init => OneWorkerPerPort
  BY DEF Init, OneWorkerPerPort
<1> QED BY <1>1, PoolInvCorrect, PortsStep, PTL DEF Spec

-----------------------------------------------------------------------------
(* Whom a supervisor terminates, and whom it loses.                        *)

\* A step of a supervisor that serves terminates no worker in use.
LEMMA UsedIsSpared ==
    ASSUME PoolInv, [Next]_vars, NEW d \in Callers,
           proc[d] = "up", proc'[d] # "up", pc[d] = "using"
    PROVE  faults' # faults \/ phase # "serving"
<1> DEFINE Good == faults' # faults \/ phase # "serving"
<1> USE DEF PoolInv, Typed, TypeOK, JobNamed, MarkedAtTheEnd, UsedWasReady, StartsOnce, Idle, Alive,
        Goto, Kill, RemoveArtifacts, UpdateStatus, EndJob, caller, files, others, supervisor
<1>1. ASSUME NEW c \in Callers, Join(c) \/ Progress(c) \/ QueueTimeout(c) \/ StartupTimeout(c) \/ Crash(c) PROVE Good
  BY <1>1 DEF Join, Progress, ClaimSlot, WriteRequest, LeaseReady, LeaseFails, Finish, WriteRelease,
     SeeRemoval, RemoveOneself, Unmark, UnlockSlot, QueueTimeout, StartupTimeout, Crash
<1>2. ASSUME NEW c \in Callers, Service(c) PROVE Good
  BY <1>2 DEF Service, ReadRelease, ReadPending, SweepReleased, SweepExited, SweepReady, SweepOverdue
<1>3. ASSUME NEW c \in Callers, WorkerExit(c) PROVE Good
  BY <1>3 DEF WorkerExit
<1>4. ASSUME Job PROVE Good
  BY <1>4 DEF Job, StartWorker, FailToStart, RegisterWorker, RefuseRequest, RemoveRequest
<1>5. ASSUME Lifecycle PROVE Good
  BY <1>5 DEF Lifecycle, StartSupervisor, Reap, StopWorker, PublishManifest, Drain, Exit
<1>6. ASSUME Stop \/ SupervisorCrash \/ StopCommandReads \/ StopCommandEnds PROVE Good
  BY <1>6 DEF Stop, SupervisorCrash, StopCommandReads, StopCommandEnds
<1>7. ASSUME UNCHANGED vars PROVE Good
  BY <1>7 DEF vars
<1> QED BY <1>1, <1>2, <1>3, <1>4, <1>5, <1>6, <1>7 DEF Next

\* While it serves, a supervisor terminates no worker that a live call uses, for
\* any callers and any order of their steps and its own.
THEOREM ServiceIsCareful == Spec => ServiceSparesUsedWorkers
<1>1. PoolInv /\ [Next]_vars
        => [\A c \in Callers :
              proc[c] = "up" /\ proc'[c] # "up" /\ pc[c] = "using" =>
                 faults' # faults \/ phase # "serving"]_vars
  BY UsedIsSpared
<1> QED BY <1>1, PoolInvCorrect, PTL DEF Spec, ServiceSparesUsedWorkers

\* A worker that nobody knows of was being started by a supervisor that died.
LEMMA LostAtTheStart ==
    ASSUME Typed, [Next]_vars, NEW d \in Callers, Untracked(d)', ~Untracked(d)
    PROVE  job # "none" /\ phase # "down" /\ phase' = "down"
<1> DEFINE Good == job # "none" /\ phase # "down" /\ phase' = "down"
<1> USE DEF Typed, TypeOK, JobNamed, Untracked, Idle, Goto, Kill, RemoveArtifacts, UpdateStatus, EndJob, caller, files, others, supervisor
<1>1. ASSUME NEW c \in Callers, Join(c) \/ Progress(c) \/ QueueTimeout(c) \/ StartupTimeout(c) \/ Crash(c) PROVE Good
  BY <1>1 DEF Join, Progress, ClaimSlot, WriteRequest, LeaseReady, LeaseFails, Finish, WriteRelease,
     SeeRemoval, RemoveOneself, Unmark, UnlockSlot, QueueTimeout, StartupTimeout, Crash
<1>2. ASSUME NEW c \in Callers, Service(c) PROVE Good
  BY <1>2 DEF Service, ReadRelease, ReadPending, SweepReleased, SweepExited, SweepReady, SweepOverdue
<1>3. ASSUME NEW c \in Callers, WorkerExit(c) PROVE Good
  BY <1>3 DEF WorkerExit
<1>4. ASSUME Job PROVE Good
  BY <1>4 DEF Job, StartWorker, FailToStart, RegisterWorker, RefuseRequest, RemoveRequest
<1>5. ASSUME Lifecycle PROVE Good
  BY <1>5 DEF Lifecycle, StartSupervisor, Reap, StopWorker, PublishManifest, Drain, Exit
<1>6. ASSUME Stop \/ SupervisorCrash \/ StopCommandReads \/ StopCommandEnds PROVE Good
  BY <1>6 DEF Stop, SupervisorCrash, StopCommandReads, StopCommandEnds
<1>7. ASSUME UNCHANGED vars PROVE Good
  BY <1>7 DEF vars
<1> QED BY <1>1, <1>2, <1>3, <1>4, <1>5, <1>6, <1>7 DEF Next

\* A running worker is lost sight of in one way only: its supervisor is killed
\* before it registers the process.
THEOREM WorkersAreTracked == Spec => WorkersStayTracked
<1>1. Typed /\ [Next]_vars
        => [\A c \in Callers :
              Untracked(c)' /\ ~Untracked(c) => job # "none" /\ phase # "down" /\ phase' = "down"]_vars
  BY LostAtTheStart
<1>2. Spec => []Typed
  BY InitTyped, StepTyped, PTL DEF Spec
<1> QED BY <1>1, <1>2, PTL DEF Spec, WorkersStayTracked
=============================================================================
