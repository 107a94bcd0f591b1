---------------------------- MODULE RemoteQueue ----------------------------
(***************************************************************************)
(* Admission of remote ChatGPT turns: remote_call_slot of                  *)
(* advisor_concurrency.py.  Every caller is an operating-system process;   *)
(* they share nothing but files under the runtime directory:               *)
(*                                                                         *)
(*   queues/remote-chatgpt/<time>-<pid>-<uuid>.json   one ticket per call  *)
(*   remote-slots/slot-<n>.lock                       one lock per slot    *)
(*   remote-rate-state.json, g4f-pool.json            limits to obey       *)
(*                                                                         *)
(* The step of a caller is one access to those files: the polling loop of  *)
(* the code reads the ticket directory, then the limits, then the slot     *)
(* directory, and then tries one slot lock at a time, and any other        *)
(* process may run between two of these accesses.  A slot lock is an OS    *)
(* lock, so it disappears with its process; a ticket is a file, so it      *)
(* does not.                                                               *)
(***************************************************************************)
EXTENDS Integers, FiniteSets

CONSTANTS Callers,      \* one call of remote_call_slot each
          NoCaller,     \* owner of a free slot
          StatusProbe,  \* the process running "g4f_pool.py status"
          Capacities,   \* capacities a supervisor manifest may advertise
          MaxCapacity,  \* no capacity is larger
          MaxRestarts,  \* bound: changes of the advertised capacity
          MaxThrottles, \* bound: rate-limit responses recorded
          MaxCrashes,   \* bound: callers killed
          MaxProbes     \* bound: slots tried by "status"

ASSUME CallersAssumption ==
    /\ NoCaller \notin Callers
    /\ StatusProbe \notin Callers
    /\ NoCaller # StatusProbe

ASSUME CapacitiesAssumption ==
    /\ MaxCapacity \in Nat \ {0}
    /\ Capacities # {}
    /\ Capacities \subseteq 1 .. MaxCapacity

ASSUME BoundsAssumption ==
    /\ MaxRestarts \in Nat
    /\ MaxThrottles \in Nat
    /\ MaxCrashes \in Nat
    /\ MaxProbes \in Nat

VARIABLES
    pc,         \* where each caller is in remote_call_slot
    exclusive,  \* the call's "exclusive" argument
    stamp,      \* time_ns() of the ticket name; 0 before it is taken
    clock,      \* the next time_ns()
    tickets,    \* callers whose ticket file is on disk
    limit,      \* local variable "capacity" of the poll, 0 outside one
    serial,     \* local "degraded or exclusive" of the poll
    todo,       \* slot indexes the current loop over locks has yet to try
    owner,      \* the process holding each slot lock
    files,      \* slot-<n>.lock files that exist
    capacity,   \* remote_chatgpt_capacity of the live manifest
    degraded,   \* degraded_until of the rate state lies in the future
    late,       \* history: callers that published an older stamp than one
                \* already on disk; no action reads it
    spent       \* how much of each bound is used up

limits == <<capacity, degraded>>
locks  == <<owner, files>>
polled == <<limit, serial, todo>>
ghosts == <<late, spent>>
vars   == <<pc, exclusive, stamp, clock, tickets, limit, serial, todo,
            owner, files, capacity, degraded, late, spent>>

SlotIndexes == 0 .. MaxCapacity - 1

\* Slot locks a process holds right now.
Held(p) == {s \in SlotIndexes : owner[s] = p}

Smallest(S) == CHOOSE s \in S : \A t \in S : s <= t
Largest(S)  == CHOOSE s \in S : \A t \in S : t <= s

\* Callers inside the body of remote_call_slot: they hold the slot locks
\* they selected and may reach the remote service.
Admitted == {c \in Callers : pc[c] \in {"admitted", "started"}}

Alive(c) == pc[c] # "dead"

\* Mutant: the slot-<n>.lock files of a larger capacity are not looked up.
KnownSlotsOfCapacityOnly == 0 .. capacity - 1

\* known_remote_slot_indexes(configured_capacity)
KnownSlots == (0 .. capacity - 1) \cup files

Init ==
    /\ pc        = [c \in Callers |-> "idle"]
    /\ exclusive \in [Callers -> BOOLEAN]
    /\ stamp     = [c \in Callers |-> 0]
    /\ clock     = 1
    /\ tickets   = {}
    /\ limit     = [c \in Callers |-> 0]
    /\ serial    = [c \in Callers |-> FALSE]
    /\ todo      = [c \in Callers |-> {}]
    /\ owner     = [s \in SlotIndexes |-> NoCaller]
    /\ files     = {}
    /\ capacity  \in Capacities
    /\ degraded  = FALSE
    /\ late      = {}
    /\ spent     = [restarts |-> 0, throttles |-> 0, crashes |-> 0, probes |-> 0]

-----------------------------------------------------------------------------
(* Helpers of the caller's actions.                                        *)

Goto(c, label) == pc' = [pc EXCEPT ![c] = label]

\* The attempt is over without a slot; the locals of the poll are dead.
ForgetPoll(c) ==
    /\ limit'  = [limit EXCEPT ![c] = 0]
    /\ serial' = [serial EXCEPT ![c] = FALSE]
    /\ todo'   = [todo EXCEPT ![c] = {}]

\* A successful InterProcessLock.try_acquire: open("a+b") creates the file,
\* flock takes it.
Take(p, s) ==
    /\ owner[s] = NoCaller
    /\ owner' = [owner EXCEPT ![s] = p]
    /\ files' = files \cup {s}

\* release() of one lock.  The code releases a list of locks in reverse
\* order of acquisition, which is always ascending.
DropLargest(p) ==
    /\ Held(p) # {}
    /\ owner' = [owner EXCEPT ![Largest(Held(p))] = NoCaller]
    /\ UNCHANGED files

-----------------------------------------------------------------------------
(* The ticket.                                                             *)

\* ticket_id = f"{time.time_ns():020d}-..." is computed first ...
TakeStamp(c) ==
    /\ pc[c] = "idle"
    /\ stamp' = [stamp EXCEPT ![c] = clock]
    /\ clock' = clock + 1
    /\ Goto(c, "stamped")
    /\ UNCHANGED <<exclusive, tickets, polled, locks, limits, ghosts>>

\* ... and atomic_write_json makes the ticket visible some time later.
PublishTicket(c) ==
    /\ pc[c] = "stamped"
    /\ tickets' = tickets \cup {c}
    /\ late' = IF \E d \in tickets : stamp[d] > stamp[c] THEN late \cup {c} ELSE late
    /\ Goto(c, "polling")
    /\ UNCHANGED <<exclusive, stamp, clock, polled, locks, limits, spent>>

\* The first half of the loop body: cleanup_stale_tickets, then the position
\* of the caller's own ticket in the sorted directory listing.
\* Mutant: no cleanup_stale_tickets.
TicketsOfTheDeadToo == tickets

LiveTickets == {d \in tickets : Alive(d)}
\* Mutant: as many waiters as slots may claim, as in worker_lease.
AmongTheOldest(c, S) == Cardinality({d \in S : stamp[d] < stamp[c]}) < capacity

Oldest(c, S) == \A d \in S : stamp[c] <= stamp[d]

ListTickets(c) ==
    /\ pc[c] = "polling"
    /\ tickets' = LiveTickets
    /\ Goto(c, IF Oldest(c, LiveTickets) THEN "first" ELSE "sleeping")
    /\ UNCHANGED <<exclusive, stamp, clock, polled, locks, limits, ghosts>>

\* Bottom of the loop: sleep and poll again.
PollAgain(c) ==
    /\ pc[c] = "sleeping"
    /\ Goto(c, "polling")
    /\ UNCHANGED <<exclusive, stamp, clock, tickets, polled, locks, limits, ghosts>>

\* Bottom of the loop: timeout_expired; the finally clause unlinks the ticket.
QueueTimeout(c) ==
    /\ pc[c] = "sleeping"
    /\ tickets' = tickets \ {c}
    /\ Goto(c, "done")
    /\ UNCHANGED <<exclusive, stamp, clock, polled, locks, limits, ghosts>>

-----------------------------------------------------------------------------
(* Claiming slots, for the caller that found its ticket to be the oldest.  *)

\* Mutant: the "exclusive" argument is forgotten.
ReadLimitSharedOnly(c) ==
    /\ pc[c] = "first"
    /\ limit'  = [limit EXCEPT ![c] = IF degraded THEN 1 ELSE capacity]
    /\ serial' = [serial EXCEPT ![c] = degraded]
    /\ Goto(c, "limited")
    /\ UNCHANGED <<exclusive, stamp, clock, tickets, todo, locks, limits, ghosts>>

\* capacity, degraded = remote_concurrency_limit(); the code reads it before
\* it tests the position and uses it only when the position is 0.
ReadLimit(c) ==
    /\ pc[c] = "first"
    /\ limit'  = [limit EXCEPT ![c] = IF degraded THEN 1 ELSE capacity]
    /\ serial' = [serial EXCEPT ![c] = degraded \/ exclusive[c]]
    /\ Goto(c, "limited")
    /\ UNCHANGED <<exclusive, stamp, clock, tickets, todo, locks, limits, ghosts>>

\* Mutant: a serial caller takes the slots below its limit, which is 1 while
\* ChatGPT throttles, instead of every known slot.
ReadKnownSlotsBelowLimit(c) ==
    /\ pc[c] = "limited"
    /\ todo' = [todo EXCEPT ![c] =
                  IF serial[c] THEN 0 .. limit[c] - 1
                               ELSE {s \in KnownSlots : s >= limit[c]}]
    /\ Goto(c, IF serial[c] THEN "takeall" ELSE "probing")
    /\ UNCHANGED <<exclusive, stamp, clock, tickets, limit, serial, locks,
                   limits, ghosts>>

\* configured_capacity is read a second time for known_remote_slot_indexes.
\* A degraded or exclusive caller will take every known slot; any other
\* caller first probes the retired ones, those at or above its capacity.
ReadKnownSlots(c) ==
    /\ pc[c] = "limited"
    /\ todo' = [todo EXCEPT ![c] =
                  IF serial[c] THEN KnownSlots
                               ELSE {s \in KnownSlots : s >= limit[c]}]
    /\ Goto(c, IF serial[c] THEN "takeall" ELSE "probing")
    /\ UNCHANGED <<exclusive, stamp, clock, tickets, limit, serial, locks,
                   limits, ghosts>>

\* One iteration of "for slot in known_slots" of a degraded or exclusive
\* caller: the last slot admits it, an occupied one makes it back off.
TakeAll(c) ==
    /\ pc[c] = "takeall"
    /\ todo[c] # {}
    /\ LET s == Smallest(todo[c]) IN
       \/ /\ Take(c, s)
          /\ todo' = [todo EXCEPT ![c] = @ \ {s}]
          /\ Goto(c, IF todo[c] = {s} THEN "admitted" ELSE "takeall")
          /\ UNCHANGED <<limit, serial>>
       \/ /\ owner[s] # NoCaller
          /\ Goto(c, "backoff")
          /\ ForgetPoll(c)
          /\ UNCHANGED locks
    /\ UNCHANGED <<exclusive, stamp, clock, tickets, limits, ghosts>>

\* One iteration over the retired slots; they are only probed, to see that
\* the older wrappers that own them are gone.
ProbeRetired(c) ==
    /\ pc[c] = "probing"
    /\ todo[c] # {}
    /\ LET s == Smallest(todo[c]) IN
       \/ /\ Take(c, s)
          /\ todo' = [todo EXCEPT ![c] = @ \ {s}]
          /\ UNCHANGED <<pc, limit, serial>>
       \/ /\ owner[s] # NoCaller
          /\ Goto(c, "backoff")
          /\ ForgetPoll(c)
          /\ UNCHANGED locks
    /\ UNCHANGED <<exclusive, stamp, clock, tickets, limits, ghosts>>

\* All retired slots were free: release the probes, one by one, and go on to
\* the slots below the capacity.
ReleaseProbe(c) ==
    /\ pc[c] = "probing"
    /\ todo[c] = {}
    /\ \/ /\ DropLargest(c)
          /\ UNCHANGED <<pc, todo>>
       \/ /\ Held(c) = {}
          /\ todo' = [todo EXCEPT ![c] = 0 .. limit[c] - 1]
          /\ Goto(c, "scanning")
          /\ UNCHANGED locks
    /\ UNCHANGED <<exclusive, stamp, clock, tickets, limit, serial, limits, ghosts>>

\* One iteration of "for slot in range(capacity)": the first free slot
\* admits the caller, and the loop may also end without one.
ScanSlots(c) ==
    /\ pc[c] = "scanning"
    /\ \/ /\ todo[c] # {}
          /\ Take(c, Smallest(todo[c]))
          /\ todo' = [todo EXCEPT ![c] = {}]
          /\ Goto(c, "admitted")
          /\ UNCHANGED <<limit, serial>>
       \/ /\ todo[c] # {}
          /\ owner[Smallest(todo[c])] # NoCaller
          /\ todo' = [todo EXCEPT ![c] = @ \ {Smallest(todo[c])}]
          /\ UNCHANGED <<pc, limit, serial, locks>>
       \/ /\ todo[c] = {}
          /\ Goto(c, "sleeping")
          /\ ForgetPoll(c)
          /\ UNCHANGED locks
    /\ UNCHANGED <<exclusive, stamp, clock, tickets, limits, ghosts>>

\* Mutant: the locks taken before the occupied slot are kept.
BackOffKeepingLocks(c) ==
    /\ pc[c] = "backoff"
    /\ Goto(c, "sleeping")
    /\ UNCHANGED <<exclusive, stamp, clock, tickets, polled, locks, limits, ghosts>>

\* Release the locks of a failed attempt, then sleep.
BackOff(c) ==
    /\ pc[c] = "backoff"
    /\ \/ DropLargest(c) /\ UNCHANGED pc
       \/ Held(c) = {} /\ Goto(c, "sleeping") /\ UNCHANGED locks
    /\ UNCHANGED <<exclusive, stamp, clock, tickets, polled, limits, ghosts>>

-----------------------------------------------------------------------------
(* The admitted call.                                                      *)

\* RemoteCallLease.mark_start, called at the request boundary: the ticket
\* goes, and the next waiter may claim a slot.
MarkStart(c) ==
    /\ pc[c] = "admitted"
    /\ tickets' = tickets \ {c}
    /\ Goto(c, "started")
    /\ UNCHANGED <<exclusive, stamp, clock, polled, locks, limits, ghosts>>

\* The body ends, normally or by an exception before or after mark_start;
\* the finally clause unlinks the ticket ...
Leave(c) ==
    /\ pc[c] \in {"admitted", "started"}
    /\ tickets' = tickets \ {c}
    /\ Goto(c, "leaving")
    /\ ForgetPoll(c)
    /\ UNCHANGED <<exclusive, stamp, clock, locks, limits, ghosts>>

\* ... and releases the selected locks in reverse order.
ReleaseSlots(c) ==
    /\ pc[c] = "leaving"
    /\ \/ DropLargest(c) /\ UNCHANGED pc
       \/ Held(c) = {} /\ Goto(c, "done") /\ UNCHANGED locks
    /\ UNCHANGED <<exclusive, stamp, clock, tickets, polled, limits, ghosts>>

-----------------------------------------------------------------------------
(* The environment.                                                        *)

\* A caller is killed: its OS locks go, its ticket stays.
Crash(c) ==
    /\ pc[c] \notin {"idle", "done", "dead"}
    /\ spent.crashes < MaxCrashes
    /\ spent' = [spent EXCEPT !.crashes = @ + 1]
    /\ owner' = [s \in SlotIndexes |-> IF owner[s] = c THEN NoCaller ELSE owner[s]]
    /\ Goto(c, "dead")
    /\ ForgetPoll(c)
    /\ UNCHANGED <<exclusive, stamp, clock, tickets, files, limits, late>>

\* record_remote_rate_limit by any process, GUI and status polls included.
RecordRateLimit ==
    /\ spent.throttles < MaxThrottles
    /\ spent' = [spent EXCEPT !.throttles = @ + 1]
    /\ degraded' = TRUE
    /\ UNCHANGED <<pc, exclusive, stamp, clock, tickets, polled, locks, capacity,
                   late>>

\* degraded_until passes.
CooldownExpires ==
    /\ degraded
    /\ degraded' = FALSE
    /\ UNCHANGED <<pc, exclusive, stamp, clock, tickets, polled, locks, capacity,
                   ghosts>>

\* A restarted supervisor writes a manifest with another capacity, or it dies
\* and the capacity of the environment takes over.
ChangeCapacity ==
    /\ spent.restarts < MaxRestarts
    /\ spent' = [spent EXCEPT !.restarts = @ + 1]
    /\ \E n \in Capacities \ {capacity} : capacity' = n
    /\ UNCHANGED <<pc, exclusive, stamp, clock, tickets, polled, locks, degraded,
                   late>>

\* command_status tries each known slot and releases it at once.
StatusTake ==
    /\ spent.probes < MaxProbes
    /\ Held(StatusProbe) = {}
    /\ \E s \in KnownSlots : Take(StatusProbe, s)
    /\ spent' = [spent EXCEPT !.probes = @ + 1]
    /\ UNCHANGED <<pc, exclusive, stamp, clock, tickets, polled, limits, late>>

StatusDrop ==
    /\ DropLargest(StatusProbe)
    /\ UNCHANGED <<pc, exclusive, stamp, clock, tickets, polled, limits, ghosts>>

-----------------------------------------------------------------------------

Claim(c) == \/ ReadLimit(c) \/ ReadKnownSlots(c) \/ TakeAll(c)
            \/ ProbeRetired(c) \/ ReleaseProbe(c) \/ ScanSlots(c) \/ BackOff(c)

\* The steps a live caller takes without anyone's help.
Run(c) == \/ TakeStamp(c) \/ PublishTicket(c) \/ ListTickets(c) \/ PollAgain(c)
          \/ Claim(c) \/ ReleaseSlots(c)

Environment == \/ RecordRateLimit \/ CooldownExpires \/ ChangeCapacity
               \/ StatusTake \/ StatusDrop

CallerStep(c) == Run(c) \/ QueueTimeout(c) \/ MarkStart(c) \/ Leave(c) \/ Crash(c)

Next == (\E c \in Callers : CallerStep(c)) \/ Environment

Spec == Init /\ [][Next]_vars

\* A live process keeps running, its turn ends, and "status" ends.
\* Timeouts, crashes, throttling and restarts need not happen.
FairSpec ==
    /\ Spec
    /\ \A c \in Callers : WF_vars(Run(c)) /\ WF_vars(MarkStart(c) \/ Leave(c))
    /\ WF_vars(StatusDrop)
    /\ WF_vars(CooldownExpires)
-----------------------------------------------------------------------------
(* What remote_call_slot promises.                                         *)

Labels == {"idle", "stamped", "polling", "sleeping", "first", "limited",
           "takeall", "probing", "scanning", "backoff", "admitted",
           "started", "leaving", "done", "dead"}

\* Type invariant of the queue.
TypeOK ==
    /\ pc \in [Callers -> Labels]
    /\ exclusive \in [Callers -> BOOLEAN]
    /\ stamp \in [Callers -> Nat]
    /\ clock \in Nat \ {0}
    /\ tickets \subseteq Callers
    /\ limit \in [Callers -> 0 .. MaxCapacity]
    /\ serial \in [Callers -> BOOLEAN]
    /\ todo \in [Callers -> SUBSET SlotIndexes]
    /\ owner \in [SlotIndexes -> Callers \cup {NoCaller, StatusProbe}]
    /\ files \subseteq SlotIndexes
    /\ capacity \in Capacities
    /\ degraded \in BOOLEAN
    /\ late \subseteq Callers
    /\ spent \in [restarts : Nat, throttles : Nat, crashes : Nat, probes : Nat]

\* A caller that waits in the queue, failed an attempt, finished or died holds
\* no slot lock: an attempt that gives up releases every lock it took.
NoLeakedSlot ==
    \A c \in Callers :
        pc[c] \in {"idle", "stamped", "polling", "sleeping", "first", "limited",
                   "scanning", "done", "dead"} => Held(c) = {}

\* A call that asked to be exclusive, or was admitted while ChatGPT throttled,
\* runs with no other admitted call.
ExclusiveAlone ==
    \A c \in Admitted : exclusive[c] \/ serial[c] => Admitted = {c}

\* The supervisor has not been replaced yet: its capacity is still advertised.
Steady == spent.restarts = 0

\* Until the advertised capacity changes, such a call runs alone, whatever the
\* tickets, probes, cooldowns, timeouts and crashes of the others do to the
\* slots; coordinated_call relies on it for first turns.
ExclusiveUntilResize == Steady => ExclusiveAlone

\* c leaves the waiting loop with a slot in this step.
Admits(c) == c \notin Admitted /\ c \in Admitted'

\* First in, first out: no caller is admitted while the ticket of a live
\* caller with an older stamp waits, unless that ticket was published out of
\* the order of the stamps.
FifoAdmission ==
    [][\A c \in Callers :
          Admits(c) => \A d \in LiveTickets \ late : stamp[c] <= stamp[d]]_vars

\* After the advertised capacity shrank, a shared call is admitted only when
\* the calls above the capacity it read have drained (the retired probes),
\* so that the calls running never exceed that capacity.
RetiredSlotsDrain ==
    [][\A c \in Callers :
          Admits(c) /\ ~serial[c] /\ late = {} =>
             Cardinality(Admitted') <= limit[c]]_vars

\* Every call that took its place in the queue leaves the waiting loop: it
\* starts, it ends, or it is killed.  Tickets of dead callers, retired slots,
\* a cooldown and the probes of "status" do not block the head forever.
EveryCallLeavesTheQueue ==
    \A c \in Callers :
        pc[c] = "stamped" ~> pc[c] \in {"started", "leaving", "done", "dead"}

-----------------------------------------------------------------------------
(* The queue implements the admission gate that the rest of the program    *)
(* builds on.                                                              *)

GateMode ==
    [c \in Callers |-> IF c \notin Admitted THEN "none"
                       ELSE IF serial[c] THEN "exclusive" ELSE "shared"]

Gate == INSTANCE AdmissionGate
          WITH mode <- GateMode, steady <- Steady, Cap <- MaxCapacity

\* Every step of the queue is a step of the gate or leaves it unchanged.
ImplementsGate == Gate!Spec
=============================================================================
