------------------------- MODULE RemoteQueueProofs -------------------------
(***************************************************************************)
(* Theorems about the admission queue, for any number of callers, any      *)
(* capacities and any values of the bounds.                                *)
(***************************************************************************)
EXTENDS RemoteQueue, TLAPS, FiniteSetTheorems, WellFoundedInduction

\* A nonempty set of naturals has a smallest member.
LEMMA SmallestExists ==
    ASSUME NEW S \in SUBSET Nat, S # {}
    PROVE  \E s \in S : \A t \in S : s <= t
<1> DEFINE Less == {ss \in Nat \X Nat : ss[1] < ss[2]}
<1>1. IsWellFoundedOn(Less, Nat)
  BY NatLessThanWellFounded DEF OpToRel
<1>2. PICK s \in S : \A t \in S : <<t, s>> \notin Less
  BY <1>1, WFMin
<1>3. \A t \in S : s <= t
  <2> SUFFICES ASSUME NEW t \in S PROVE s <= t
    OBVIOUS
  <2>1. <<t, s>> \notin Less
    BY <1>2
  <2>2. t \in Nat /\ s \in Nat
    OBVIOUS
  <2> QED BY <2>1, <2>2
<1> QED BY <1>3

\* A loop over slot indexes tries a slot of its set ...
LEMMA SmallestIsMember ==
    ASSUME NEW S \in SUBSET SlotIndexes, S # {}
    PROVE  Smallest(S) \in S
<1>1. S \in SUBSET Nat
  BY CapacitiesAssumption DEF SlotIndexes
<1> QED BY <1>1, SmallestExists DEF Smallest

\* ... and so does the loop that releases locks, largest slot first.
LEMMA LargestIsMember ==
    ASSUME NEW S \in SUBSET SlotIndexes, S # {}
    PROVE  Largest(S) \in S
<1> DEFINE Mirror == {MaxCapacity - s : s \in S}
<1>1. MaxCapacity \in Nat /\ \A s \in S : s \in Nat /\ s <= MaxCapacity
  BY CapacitiesAssumption DEF SlotIndexes
<1>2. Mirror \in SUBSET Nat
  BY <1>1
<1>3. Mirror # {}
  OBVIOUS
<1>4. PICK m \in Mirror : \A n \in Mirror : m <= n
  <2> HIDE DEF Mirror
  <2> QED BY <1>2, <1>3, SmallestExists
<1>5. PICK s \in S : m = MaxCapacity - s
  BY <1>4
<1>6. \A t \in S : t <= s
  <2> SUFFICES ASSUME NEW t \in S PROVE t <= s
    OBVIOUS
  <2>1. MaxCapacity - t \in Mirror
    OBVIOUS
  <2>2. m <= MaxCapacity - t
    BY <1>4, <2>1
  <2> QED BY <1>1, <1>5, <2>2
<1> QED BY <1>6 DEF Largest

-----------------------------------------------------------------------------
(* Slot locks held before and after one lock operation.                    *)

Processes == Callers \cup {StatusProbe}

\* A successful try_acquire adds its slot to those of its process and leaves
\* the other processes' locks alone.
LEMMA HeldAfterTake ==
    ASSUME TypeOK, NEW p \in Processes, NEW s \in SlotIndexes, Take(p, s)
    PROVE  \A q \in Processes :
              Held(q)' = IF q = p THEN Held(q) \cup {s} ELSE Held(q)
<1>2. owner' = [owner EXCEPT ![s] = p] /\ owner \in [SlotIndexes -> Callers \cup {NoCaller, StatusProbe}]
  BY DEF Take, TypeOK
<1>3. \A t \in SlotIndexes : owner'[t] = IF t = s THEN p ELSE owner[t]
  BY <1>2
<1>4. owner[s] = NoCaller
  BY DEF Take
<1>5. ASSUME NEW q \in Processes
      PROVE  Held(q)' = IF q = p THEN Held(q) \cup {s} ELSE Held(q)
  <2>1. q # NoCaller
    BY CallersAssumption DEF Processes
  <2> QED BY <1>3, <1>4, <2>1 DEF Held
<1> QED BY <1>5

\* release() gives up one slot of its own process and nothing else.
LEMMA HeldAfterDrop ==
    ASSUME TypeOK, NEW p \in Processes, DropLargest(p)
    PROVE  \E s \in Held(p) : \A q \in Processes :
              Held(q)' = IF q = p THEN Held(q) \ {s} ELSE Held(q)
<1> DEFINE s == Largest(Held(p))
<1>1. s \in Held(p)
  BY LargestIsMember DEF DropLargest, Held
<1>2. s \in SlotIndexes /\ owner[s] = p
  BY <1>1 DEF Held
<1>3. \A t \in SlotIndexes : owner'[t] = IF t = s THEN NoCaller ELSE owner[t]
  BY <1>2 DEF DropLargest, TypeOK
<1> HIDE DEF s
<1>4. ASSUME NEW q \in Processes
      PROVE  Held(q)' = IF q = p THEN Held(q) \ {s} ELSE Held(q)
  <2>1. q # NoCaller
    BY CallersAssumption DEF Processes
  <2> QED BY <1>2, <1>3, <2>1 DEF Held
<1> QED BY <1>1, <1>4

-----------------------------------------------------------------------------
(* Type correctness.                                                       *)

\* The initial state has the types the invariant names.
LEMMA InitTypeOK == Init => TypeOK
<1> SUFFICES ASSUME Init PROVE TypeOK
  OBVIOUS
<1>1. 0 \in 0 .. MaxCapacity
  BY CapacitiesAssumption
<1>2. spent \in [restarts : Nat, throttles : Nat, crashes : Nat, probes : Nat]
  BY DEF Init
<1>3. owner \in [SlotIndexes -> Callers \cup {NoCaller, StatusProbe}]
  BY DEF Init
<1>4. todo \in [Callers -> SUBSET SlotIndexes]
  BY DEF Init
<1>5. /\ stamp \in [Callers -> Nat]
      /\ limit \in [Callers -> 0 .. MaxCapacity]
      /\ serial \in [Callers -> BOOLEAN]
  BY <1>1 DEF Init
<1>6. tickets \subseteq Callers /\ files \subseteq SlotIndexes /\ late \subseteq Callers
  BY DEF Init
<1>7. clock \in Nat \ {0} /\ capacity \in Capacities
  BY DEF Init
<1>9. degraded \in BOOLEAN
  BY DEF Init
<1>8. pc \in [Callers -> Labels]
  BY DEF Init, Labels
<1> QED BY <1>2, <1>3, <1>4, <1>5, <1>6, <1>7, <1>8, <1>9 DEF Init, TypeOK

\* Capacities and lock files name slots that can exist.
LEMMA KnownSlotsType ==
    ASSUME TypeOK
    PROVE  KnownSlots \subseteq SlotIndexes
BY CapacitiesAssumption DEF TypeOK, KnownSlots, SlotIndexes

\* Taking a slot keeps the types of the locks.
LEMMA TakeType ==
    ASSUME TypeOK, NEW p \in Processes, NEW s \in SlotIndexes, Take(p, s)
    PROVE  /\ owner' \in [SlotIndexes -> Callers \cup {NoCaller, StatusProbe}]
           /\ files' \subseteq SlotIndexes
BY DEF TypeOK, Take, Processes

\* Releasing a slot keeps the types of the locks.
LEMMA DropType ==
    ASSUME TypeOK, NEW p \in Processes, DropLargest(p)
    PROVE  /\ owner' \in [SlotIndexes -> Callers \cup {NoCaller, StatusProbe}]
           /\ files' \subseteq SlotIndexes
BY DEF TypeOK, DropLargest

\* The steps of a caller preserve the type invariant ...
LEMMA CallerTypeOK ==
    ASSUME TypeOK, NEW c \in Callers, CallerStep(c)
    PROVE  TypeOK'
<1> USE DEF TypeOK, polled, locks, limits, ghosts, Goto, ForgetPoll, Labels
<1>0. c \in Processes
  BY DEF Processes
<1>00. 0 \in 0 .. MaxCapacity
  BY CapacitiesAssumption
<1>1. CASE TakeStamp(c)
  BY <1>1 DEF TakeStamp
<1>2. CASE PublishTicket(c)
  BY <1>2 DEF PublishTicket
<1>3. CASE ListTickets(c)
  BY <1>3 DEF ListTickets, LiveTickets
<1>4. CASE PollAgain(c)
  BY <1>4 DEF PollAgain
<1>5. CASE ReadLimit(c)
  <2>1. (IF degraded THEN 1 ELSE capacity) \in 0 .. MaxCapacity
    BY CapacitiesAssumption
  <2> QED BY <1>5, <2>1 DEF ReadLimit
<1>6. CASE ReadKnownSlots(c)
  <2>1. KnownSlots \subseteq SlotIndexes
    BY KnownSlotsType
  <2> QED BY <1>6, <2>1 DEF ReadKnownSlots
<1>7. CASE TakeAll(c)
  <2>1. /\ owner' \in [SlotIndexes -> Callers \cup {NoCaller, StatusProbe}]
        /\ files' \subseteq SlotIndexes
    <3>1. CASE todo[c] # {} /\ Take(c, Smallest(todo[c]))
      BY <1>0, <3>1, SmallestIsMember, TakeType
    <3>2. CASE UNCHANGED locks
      BY <3>2
    <3> QED BY <1>7, <3>1, <3>2 DEF TakeAll
  <2>2. pc' \in [Callers -> Labels]
    BY <1>7 DEF TakeAll
  <2>3. limit' \in [Callers -> 0 .. MaxCapacity]
    BY <1>00, <1>7 DEF TakeAll
  <2>4. serial' \in [Callers -> BOOLEAN]
    BY <1>7 DEF TakeAll
  <2>5. todo' \in [Callers -> SUBSET SlotIndexes]
    BY <1>7 DEF TakeAll
  <2> QED BY <1>7, <2>1, <2>2, <2>3, <2>4, <2>5 DEF TakeAll
<1>8. CASE ProbeRetired(c)
  <2>1. /\ owner' \in [SlotIndexes -> Callers \cup {NoCaller, StatusProbe}]
        /\ files' \subseteq SlotIndexes
    <3>1. CASE todo[c] # {} /\ Take(c, Smallest(todo[c]))
      BY <1>0, <3>1, SmallestIsMember, TakeType
    <3>2. CASE UNCHANGED locks
      BY <3>2
    <3> QED BY <1>8, <3>1, <3>2 DEF ProbeRetired
  <2>2. pc' \in [Callers -> Labels]
    BY <1>8 DEF ProbeRetired
  <2>3. limit' \in [Callers -> 0 .. MaxCapacity]
    BY <1>00, <1>8 DEF ProbeRetired
  <2>4. serial' \in [Callers -> BOOLEAN]
    BY <1>8 DEF ProbeRetired
  <2>5. todo' \in [Callers -> SUBSET SlotIndexes]
    BY <1>8 DEF ProbeRetired
  <2> QED BY <1>8, <2>1, <2>2, <2>3, <2>4, <2>5 DEF ProbeRetired
<1>9. CASE ReleaseProbe(c)
  <2>1. /\ owner' \in [SlotIndexes -> Callers \cup {NoCaller, StatusProbe}]
        /\ files' \subseteq SlotIndexes
    BY <1>0, <1>9, DropType DEF ReleaseProbe
  <2>2. pc' \in [Callers -> Labels]
    BY <1>9 DEF ReleaseProbe
  <2>3. todo' \in [Callers -> SUBSET SlotIndexes]
    <3>1. 0 .. limit[c] - 1 \subseteq SlotIndexes
      BY CapacitiesAssumption DEF SlotIndexes
    <3> QED BY <1>9, <3>1 DEF ReleaseProbe
  <2> QED BY <1>9, <2>1, <2>2, <2>3 DEF ReleaseProbe
<1>10. CASE ScanSlots(c)
  <2>1. /\ owner' \in [SlotIndexes -> Callers \cup {NoCaller, StatusProbe}]
        /\ files' \subseteq SlotIndexes
    <3>1. CASE todo[c] # {} /\ Take(c, Smallest(todo[c]))
      BY <1>0, <3>1, SmallestIsMember, TakeType
    <3>2. CASE UNCHANGED locks
      BY <3>2
    <3> QED BY <1>10, <3>1, <3>2 DEF ScanSlots
  <2>2. pc' \in [Callers -> Labels]
    BY <1>10 DEF ScanSlots
  <2>3. limit' \in [Callers -> 0 .. MaxCapacity]
    BY <1>00, <1>10 DEF ScanSlots
  <2>4. serial' \in [Callers -> BOOLEAN]
    BY <1>10 DEF ScanSlots
  <2>5. todo' \in [Callers -> SUBSET SlotIndexes]
    BY <1>10 DEF ScanSlots
  <2> QED BY <1>10, <2>1, <2>2, <2>3, <2>4, <2>5 DEF ScanSlots
<1>11. CASE BackOff(c)
  <2>1. CASE DropLargest(c)
    BY <1>0, <1>11, <2>1, DropType DEF BackOff
  <2>2. CASE UNCHANGED locks
    BY <1>11, <2>2 DEF BackOff
  <2> QED BY <1>11, <2>1, <2>2 DEF BackOff
<1>12. CASE ReleaseSlots(c)
  <2>1. CASE DropLargest(c)
    BY <1>0, <1>12, <2>1, DropType DEF ReleaseSlots
  <2>2. CASE UNCHANGED locks
    BY <1>12, <2>2 DEF ReleaseSlots
  <2> QED BY <1>12, <2>1, <2>2 DEF ReleaseSlots
<1>13. CASE QueueTimeout(c)
  BY <1>13 DEF QueueTimeout
<1>14. CASE MarkStart(c)
  BY <1>14 DEF MarkStart
<1>15. CASE Leave(c)
  BY <1>00, <1>15 DEF Leave
<1>16. CASE Crash(c)
  BY <1>00, <1>16 DEF Crash
<1> QED BY <1>1, <1>2, <1>3, <1>4, <1>5, <1>6, <1>7, <1>8, <1>9, <1>10, <1>11,
           <1>12, <1>13, <1>14, <1>15, <1>16 DEF CallerStep, Run, Claim

\* ... and so do those of the environment.
LEMMA EnvironmentTypeOK ==
    ASSUME TypeOK, Environment
    PROVE  TypeOK'
<1> USE DEF TypeOK, polled, locks, limits, ghosts
<1>0. StatusProbe \in Processes
  BY DEF Processes
<1>1. CASE RecordRateLimit
  BY <1>1 DEF RecordRateLimit
<1>2. CASE CooldownExpires
  BY <1>2 DEF CooldownExpires
<1>3. CASE ChangeCapacity
  BY <1>3 DEF ChangeCapacity
<1>4. CASE StatusTake
  <2>1. PICK s \in SlotIndexes : Take(StatusProbe, s)
    BY <1>4, KnownSlotsType DEF StatusTake
  <2>2. /\ owner' \in [SlotIndexes -> Callers \cup {NoCaller, StatusProbe}]
        /\ files' \subseteq SlotIndexes
    BY <1>0, <2>1, TakeType
  <2> QED BY <1>4, <2>2 DEF StatusTake
<1>5. CASE StatusDrop
  BY <1>0, <1>5, DropType DEF StatusDrop
<1> QED BY <1>1, <1>2, <1>3, <1>4, <1>5 DEF Environment

\* Every step keeps the types.
LEMMA NextTypeOK == TypeOK /\ [Next]_vars => TypeOK'
<1> SUFFICES ASSUME TypeOK, [Next]_vars PROVE TypeOK'
  OBVIOUS
<1>1. CASE UNCHANGED vars
  BY <1>1 DEF TypeOK, vars
<1>2. CASE Next
  BY <1>2, CallerTypeOK, EnvironmentTypeOK DEF Next
<1> QED BY <1>1, <1>2

\* Every variable of the queue keeps its type: in particular no poll reads a
\* limit above MaxCapacity and no loop tries a slot that cannot exist.
THEOREM TypeCorrect == Spec => []TypeOK
BY InitTypeOK, NextTypeOK, PTL DEF Spec

-----------------------------------------------------------------------------
(* A step of one caller leaves the others where they are.                  *)

\* No action of caller c moves another caller, changes its locals or its
\* stamp, or takes or releases a slot in its name.
LEMMA StepIsLocal ==
    ASSUME TypeOK, NEW c \in Callers, CallerStep(c), NEW d \in Callers, d # c
    PROVE  /\ pc'[d] = pc[d] /\ serial'[d] = serial[d]
           /\ limit'[d] = limit[d] /\ todo'[d] = todo[d] /\ stamp'[d] = stamp[d]
           /\ Held(d)' = Held(d)
<1>0. c \in Processes /\ d \in Processes
  BY DEF Processes
<1>1. /\ pc'[d] = pc[d] /\ serial'[d] = serial[d] /\ limit'[d] = limit[d]
      /\ todo'[d] = todo[d] /\ stamp'[d] = stamp[d]
  BY DEF TypeOK, CallerStep, Run, Claim, TakeStamp, PublishTicket, ListTickets,
         PollAgain, QueueTimeout, ReadLimit, ReadKnownSlots, TakeAll,
         ProbeRetired, ReleaseProbe, ScanSlots, BackOff, MarkStart, Leave,
         ReleaseSlots, Crash, Goto, ForgetPoll, polled
<1>2. \/ UNCHANGED owner
      \/ todo[c] # {} /\ Take(c, Smallest(todo[c]))
      \/ DropLargest(c)
      \/ Crash(c)
  BY DEF CallerStep, Run, Claim, TakeStamp, PublishTicket, ListTickets,
         PollAgain, QueueTimeout, ReadLimit, ReadKnownSlots, TakeAll,
         ProbeRetired, ReleaseProbe, ScanSlots, BackOff, MarkStart, Leave,
         ReleaseSlots, locks
<1>3. Held(d)' = Held(d)
  <2>1. CASE UNCHANGED owner
    BY <2>1 DEF Held
  <2>2. CASE todo[c] # {} /\ Take(c, Smallest(todo[c]))
    <3>1. Smallest(todo[c]) \in SlotIndexes
      BY <2>2, SmallestIsMember DEF TypeOK
    <3> QED BY <1>0, <2>2, <3>1, HeldAfterTake
  <2>3. CASE DropLargest(c)
    BY <1>0, <2>3, HeldAfterDrop
  <2>4. CASE Crash(c)
    <3>1. \A s \in SlotIndexes : owner'[s] = d <=> owner[s] = d
      BY <2>4, CallersAssumption DEF Crash
    <3> QED BY <3>1 DEF Held
  <2> QED BY <1>2, <2>1, <2>2, <2>3, <2>4
<1> QED BY <1>1, <1>3

\* The environment neither moves a caller nor touches its locks or its ticket.
LEMMA EnvironmentIsRemote ==
    ASSUME TypeOK, Environment
    PROVE  /\ UNCHANGED <<pc, serial, limit, todo, stamp, clock, tickets, late>>
           /\ \A d \in Callers : Held(d)' = Held(d)
<1>0. StatusProbe \in Processes /\ \A d \in Callers : d \in Processes /\ d # StatusProbe
  BY CallersAssumption DEF Processes
<1>1. UNCHANGED <<pc, serial, limit, todo, stamp, clock, tickets, late>>
  BY DEF Environment, RecordRateLimit, CooldownExpires, ChangeCapacity,
         StatusTake, StatusDrop, polled, ghosts
<1>2. CASE UNCHANGED owner
  BY <1>1, <1>2 DEF Held
<1>3. CASE StatusTake
  <2>1. PICK s \in SlotIndexes : Take(StatusProbe, s)
    BY <1>3, KnownSlotsType DEF StatusTake
  <2> QED BY <1>0, <1>1, <2>1, HeldAfterTake
<1>4. CASE StatusDrop
  BY <1>0, <1>1, <1>4, HeldAfterDrop DEF StatusDrop
<1> QED BY <1>2, <1>3, <1>4 DEF Environment, RecordRateLimit, CooldownExpires,
        ChangeCapacity, locks

-----------------------------------------------------------------------------
(* Failed attempts give their locks back.                                  *)

\* Nobody holds a slot before the first call.
LEMMA InitNoLeak == Init => NoLeakedSlot
BY CallersAssumption DEF Init, NoLeakedSlot, Held

\* Every step keeps callers outside the claiming loops free of locks: an attempt
\* leaves for "sleeping" or "done" only when its last lock is released.
LEMMA NextNoLeak == TypeOK /\ NoLeakedSlot /\ [Next]_vars => NoLeakedSlot'
<1> SUFFICES ASSUME TypeOK, NoLeakedSlot, [Next]_vars PROVE NoLeakedSlot'
  OBVIOUS
<1> DEFINE Empty == {"idle", "stamped", "polling", "sleeping", "first", "limited",
                     "scanning", "done", "dead"}
<1>1. ASSUME NEW c \in Callers, CallerStep(c)
      PROVE  NoLeakedSlot'
  <2> SUFFICES ASSUME pc'[c] \in Empty PROVE Held(c)' = {}
    BY <1>1, StepIsLocal DEF NoLeakedSlot
  <2> USE DEF TypeOK, Goto, Labels
  <2>1. pc[c] \in Empty /\ UNCHANGED owner => Held(c)' = {}
    BY DEF NoLeakedSlot, Held
  <2>2. Held(c) = {} /\ UNCHANGED owner => Held(c)' = {}
    BY DEF Held
  <2>3. CASE TakeStamp(c) \/ PublishTicket(c) \/ ListTickets(c) \/ PollAgain(c)
             \/ QueueTimeout(c) \/ ReadLimit(c)
    BY <2>1, <2>3 DEF TakeStamp, PublishTicket, ListTickets, PollAgain,
       QueueTimeout, ReadLimit, locks
  <2>4. CASE ReadKnownSlots(c)
    BY <2>4 DEF ReadKnownSlots
  <2>5. CASE TakeAll(c)
    BY <2>5 DEF TakeAll
  <2>6. CASE ProbeRetired(c)
    BY <2>6 DEF ProbeRetired
  <2>7. CASE ReleaseProbe(c)
    BY <2>2, <2>7 DEF ReleaseProbe, locks
  <2>8. CASE ScanSlots(c)
    BY <2>1, <2>8 DEF ScanSlots, locks
  <2>9. CASE BackOff(c)
    BY <2>2, <2>9 DEF BackOff, locks
  <2>10. CASE ReleaseSlots(c)
    BY <2>2, <2>10 DEF ReleaseSlots, locks
  <2>11. CASE MarkStart(c) \/ Leave(c)
    BY <2>11 DEF MarkStart, Leave
  <2>12. CASE Crash(c)
    <3>1. c # NoCaller
      BY CallersAssumption
    <3> QED BY <2>12, <3>1 DEF Crash, Held
  <2> QED BY <1>1, <2>3, <2>4, <2>5, <2>6, <2>7, <2>8, <2>9, <2>10, <2>11, <2>12
          DEF CallerStep, Run, Claim
<1>2. CASE Environment
  BY <1>2, EnvironmentIsRemote DEF NoLeakedSlot
<1>3. CASE UNCHANGED vars
  BY <1>3 DEF NoLeakedSlot, Held, vars
<1> QED BY <1>1, <1>2, <1>3 DEF Next

\* A caller that waits, gave up, finished or died holds no slot lock, whatever
\* capacities were advertised in the meantime.
THEOREM FailedAttemptsReleaseSlots == Spec => []NoLeakedSlot
<1>1. Init => TypeOK /\ NoLeakedSlot
  BY InitTypeOK, InitNoLeak
<1>2. (TypeOK /\ NoLeakedSlot) /\ [Next]_vars => (TypeOK /\ NoLeakedSlot)'
  BY NextTypeOK, NextNoLeak
<1> QED BY <1>1, <1>2, PTL DEF Spec

-----------------------------------------------------------------------------
(* First in, first out.                                                    *)

\* The callers between the listing that found their ticket to be the oldest
\* and the end of their attempt.
Claiming(c) == pc[c] \in {"first", "limited", "takeall", "probing", "scanning"}

\* The inductive form of FifoAdmission: a listing stays true while its caller
\* acts on it, except for tickets published late.
OldestClaims ==
    /\ \A c \in tickets : pc[c] \notin {"idle", "stamped"}
    /\ \A c \in Callers :
          Claiming(c) \/ pc[c] \in {"polling", "sleeping", "backoff"} => c \in tickets
    /\ \A c \in Callers :
          Claiming(c) => \A d \in LiveTickets \ late : stamp[c] <= stamp[d]

\* Publishing a ticket does not invalidate a listing another caller acts on,
\* unless the ticket is late.
LEMMA PublishOldestClaims ==
    ASSUME TypeOK, OldestClaims, NEW c \in Callers, PublishTicket(c)
    PROVE  OldestClaims'
<1>0. /\ tickets' = tickets \cup {c}
      /\ stamp' = stamp /\ late \subseteq late'
      /\ c \in late' \/ \A t \in tickets : ~(stamp[t] > stamp[c])
  BY DEF PublishTicket
<1>1. /\ pc[c] = "stamped" /\ pc'[c] = "polling"
      /\ \A d \in Callers \ {c} : pc'[d] = pc[d]
  BY DEF PublishTicket, TypeOK, Goto
<1>2. \A d \in tickets' : pc'[d] \notin {"idle", "stamped"}
  BY <1>0, <1>1 DEF TypeOK, OldestClaims
<1>3. ASSUME NEW e \in Callers, Claiming(e)'
      PROVE  \A d \in (LiveTickets \ late)' : stamp'[e] <= stamp'[d]
  <2>1. e # c /\ Claiming(e)
    BY <1>1, <1>3 DEF Claiming
  <2>2. e \in tickets
    BY <2>1 DEF OldestClaims
  <2>3. ASSUME NEW d \in (LiveTickets \ late)', d = c
        PROVE  stamp'[e] <= stamp'[d]
    <3>1. ~(stamp[e] > stamp[c])
      BY <1>0, <2>2, <2>3
    <3> QED BY <1>0, <2>3, <3>1 DEF TypeOK
  <2>4. ASSUME NEW d \in (LiveTickets \ late)', d # c
        PROVE  stamp'[e] <= stamp'[d]
    <3>1. d \in LiveTickets \ late
      BY <1>0, <1>1, <2>4 DEF LiveTickets, Alive, TypeOK
    <3> QED BY <1>0, <2>1, <3>1 DEF OldestClaims
  <2> QED BY <2>3, <2>4
<1>4. \A e \in Callers :
         Claiming(e)' \/ pc'[e] \in {"polling", "sleeping", "backoff"} => e \in tickets'
  BY <1>0, <1>1 DEF OldestClaims, Claiming
<1> QED BY <1>2, <1>3, <1>4 DEF OldestClaims

\* Every step preserves OldestClaims.
LEMMA NextOldestClaims == TypeOK /\ OldestClaims /\ [Next]_vars => OldestClaims'
<1> SUFFICES ASSUME TypeOK, OldestClaims, [Next]_vars PROVE OldestClaims'
  OBVIOUS
<1>1. ASSUME NEW c \in Callers, CallerStep(c)
      PROVE  OldestClaims'
  <2>0. \A d \in Callers \ {c} : pc'[d] = pc[d] /\ stamp'[d] = stamp[d]
    BY <1>1, StepIsLocal
  <2>2. PublishTicket(c) => OldestClaims'
    BY PublishOldestClaims
  <2> USE DEF TypeOK, OldestClaims, Claiming, LiveTickets, Alive, Labels, Goto, ghosts
  <2>1. CASE TakeStamp(c)
    BY <2>0, <2>1 DEF TakeStamp
  <2>3. CASE ListTickets(c)
    BY <2>0, <2>3 DEF ListTickets, Oldest
  <2>4. CASE PollAgain(c) \/ ReadLimit(c) \/ ReadKnownSlots(c) \/ BackOff(c)
             \/ ReleaseSlots(c)
    BY <2>0, <2>4 DEF PollAgain, ReadLimit, ReadKnownSlots, BackOff, ReleaseSlots
  <2>5. CASE TakeAll(c) \/ ProbeRetired(c)
    BY <2>0, <2>5 DEF TakeAll, ProbeRetired
  <2>6. CASE ReleaseProbe(c) \/ ScanSlots(c)
    BY <2>0, <2>6 DEF ReleaseProbe, ScanSlots
  <2>7. CASE QueueTimeout(c) \/ MarkStart(c) \/ Leave(c)
    BY <2>0, <2>7 DEF QueueTimeout, MarkStart, Leave
  <2>8. CASE Crash(c)
    BY <2>0, <2>8 DEF Crash
  <2> QED BY <1>1, <2>1, <2>2, <2>3, <2>4, <2>5, <2>6, <2>7, <2>8
          DEF CallerStep, Run, Claim
<1>2. CASE Environment
  BY <1>2, EnvironmentIsRemote DEF OldestClaims, Claiming, LiveTickets, Alive
<1>3. CASE UNCHANGED vars
  BY <1>3 DEF OldestClaims, Claiming, LiveTickets, Alive, vars
<1> QED BY <1>1, <1>2, <1>3 DEF Next

\* Only a caller in one of the two claiming loops is admitted by a step.
LEMMA AdmittedFromALoop ==
    ASSUME TypeOK, [Next]_vars, NEW c \in Callers, Admits(c)
    PROVE  pc[c] \in {"takeall", "scanning"} /\ (TakeAll(c) \/ ScanSlots(c))
<1> USE DEF TypeOK, Admits, Admitted, Goto, Labels
<1>1. pc'[c] \in {"admitted", "started"} /\ pc[c] \notin {"admitted", "started"}
  OBVIOUS
<1>2. CallerStep(c)
  BY <1>1, StepIsLocal, EnvironmentIsRemote DEF Next, vars
<1> QED BY <1>1, <1>2 DEF CallerStep, Run, Claim, TakeStamp, PublishTicket,
           ListTickets, PollAgain, QueueTimeout, ReadLimit, ReadKnownSlots,
           TakeAll, ProbeRetired, ReleaseProbe, ScanSlots, BackOff, MarkStart,
           Leave, ReleaseSlots, Crash

\* FIFO admission for any number of callers and slots, with crashes, capacity
\* changes and throttling: the queue order can be lost only between taking the
\* time stamp and publishing the ticket.
THEOREM FifoHolds == Spec => FifoAdmission
<1> DEFINE InOrder == \A c \in Callers :
               Admits(c) => \A d \in LiveTickets \ late : stamp[c] <= stamp[d]
<1>1. Init => TypeOK /\ OldestClaims
  <2>1. Init => OldestClaims
    BY DEF Init, OldestClaims, Claiming
  <2> QED BY <2>1, InitTypeOK
<1>2. (TypeOK /\ OldestClaims) /\ [Next]_vars => (TypeOK /\ OldestClaims)'
  BY NextTypeOK, NextOldestClaims
<1>3. TypeOK /\ OldestClaims /\ [Next]_vars => InOrder
  <2> SUFFICES ASSUME TypeOK, OldestClaims, [Next]_vars, NEW c \in Callers, Admits(c)
               PROVE  \A d \in LiveTickets \ late : stamp[c] <= stamp[d]
    OBVIOUS
  <2>1. Claiming(c)
    BY AdmittedFromALoop DEF Claiming
  <2> QED BY <2>1 DEF OldestClaims
<1> QED BY <1>1, <1>2, <1>3, PTL DEF Spec, FifoAdmission

-----------------------------------------------------------------------------
(* Exclusive turns, until the advertised capacity changes.                 *)

\* The slots of the advertised capacity.
Advertised == 0 .. capacity - 1

\* Until the capacity changes no slot beyond it is known, tried or owned.
WithinCapacity ==
    /\ files \subseteq Advertised
    /\ \A s \in SlotIndexes : owner[s] # NoCaller => s \in Advertised
    /\ \A c \in Callers : limit[c] <= capacity
    /\ \A c \in Callers : todo[c] \subseteq Advertised

\* Nothing is known but the capacity in the initial state.
LEMMA InitWithinCapacity == Init => WithinCapacity
BY CapacitiesAssumption DEF Init, WithinCapacity, Advertised, SlotIndexes

\* The advertised slots are slots, and there is one.
LEMMA AdvertisedAreSlots ==
    ASSUME TypeOK
    PROVE  Advertised \subseteq SlotIndexes /\ Advertised # {}
<1>1. capacity \in 1 .. MaxCapacity /\ MaxCapacity \in Nat \ {0}
  BY CapacitiesAssumption DEF TypeOK
<1>2. 0 \in 0 .. capacity - 1
  BY <1>1
<1> QED BY <1>1, <1>2 DEF Advertised, SlotIndexes

\* ... and they are the known ones.
LEMMA AdvertisedAreKnown ==
    ASSUME WithinCapacity
    PROVE  KnownSlots = Advertised
BY DEF KnownSlots, WithinCapacity, Advertised

\* No step but ChangeCapacity touches the capacity, and that one ends the
\* steady period, which never begins again.
LEMMA SteadyStep ==
    ASSUME TypeOK, [Next]_vars
    PROVE  /\ Steady' => Steady /\ capacity' = capacity
           /\ Steady /\ ~Steady' => ChangeCapacity
<1>1. CASE UNCHANGED vars
  BY <1>1 DEF vars, Steady
<1>2. CASE ChangeCapacity
  <2>1. spent'.restarts = spent.restarts + 1 /\ spent.restarts \in Nat
    BY <1>2 DEF ChangeCapacity, TypeOK
  <2> QED BY <1>2, <2>1 DEF Steady
<1>3. ASSUME Next, ~ChangeCapacity
      PROVE  capacity' = capacity /\ spent'.restarts = spent.restarts
  <2>1. CASE UNCHANGED <<capacity, spent>>
    BY <2>1
  <2>2. ASSUME NEW c \in Callers, Crash(c)
        PROVE  capacity' = capacity /\ spent'.restarts = spent.restarts
    BY <2>2 DEF Crash, limits, TypeOK
  <2>3. CASE RecordRateLimit \/ StatusTake
    BY <2>3 DEF RecordRateLimit, StatusTake, limits, TypeOK
  <2>4. CASE CooldownExpires \/ StatusDrop
    BY <2>4 DEF CooldownExpires, StatusDrop, limits, ghosts
  <2>5. ASSUME NEW c \in Callers, CallerStep(c), ~Crash(c)
        PROVE  UNCHANGED <<capacity, spent>>
    BY <2>5 DEF CallerStep, Run, Claim, TakeStamp, PublishTicket, ListTickets,
       PollAgain, QueueTimeout, ReadLimit, ReadKnownSlots, TakeAll, ProbeRetired,
       ReleaseProbe, ScanSlots, BackOff, MarkStart, Leave, ReleaseSlots, limits, ghosts
  <2> QED BY <1>3, <2>1, <2>2, <2>3, <2>4, <2>5 DEF Next, Environment
<1> QED BY <1>1, <1>2, <1>3 DEF Steady

\* A lock that is taken is the next one to try, one that is dropped was held.
LEMMA TakeWithinCapacity ==
    ASSUME TypeOK, WithinCapacity, NEW p, NEW s \in Advertised, Take(p, s),
           capacity' = capacity
    PROVE  /\ files' \subseteq Advertised'
           /\ \A t \in SlotIndexes : owner'[t] # NoCaller => t \in Advertised'
BY AdvertisedAreSlots DEF Take, WithinCapacity, Advertised, TypeOK

\* A step of any process leaves the slot locks alone, takes one within the
\* capacity, or gives some up.
LEMMA LocksWithinCapacity ==
    ASSUME TypeOK, WithinCapacity, [Next]_vars, capacity' = capacity
    PROVE  /\ files' \subseteq Advertised'
           /\ \A s \in SlotIndexes : owner'[s] # NoCaller => s \in Advertised'
<1>0. Advertised' = Advertised
  BY DEF Advertised
<1>1. CASE UNCHANGED <<owner, files>>
  BY <1>0, <1>1 DEF WithinCapacity
<1>2. ASSUME NEW p, NEW s \in Advertised, Take(p, s)
      PROVE  /\ files' \subseteq Advertised'
             /\ \A u \in SlotIndexes : owner'[u] # NoCaller => u \in Advertised'
  BY <1>2, TakeWithinCapacity
<1>3. ASSUME files' = files,
             \A s \in SlotIndexes : owner'[s] = owner[s] \/ owner'[s] = NoCaller
      PROVE  /\ files' \subseteq Advertised'
             /\ \A u \in SlotIndexes : owner'[u] # NoCaller => u \in Advertised'
  BY <1>0, <1>3 DEF WithinCapacity
<1>4. ASSUME NEW p, DropLargest(p)
      PROVE  /\ files' = files
             /\ \A s \in SlotIndexes : owner'[s] = owner[s] \/ owner'[s] = NoCaller
  BY <1>4 DEF DropLargest, TypeOK
<1>5. ASSUME NEW c \in Callers, TakeAll(c) \/ ProbeRetired(c) \/ ScanSlots(c)
      PROVE  \/ UNCHANGED <<owner, files>>
             \/ \E s \in Advertised : Take(c, s)
  <2>1. todo[c] # {} => Smallest(todo[c]) \in Advertised
    BY SmallestIsMember DEF WithinCapacity, TypeOK
  <2> QED BY <1>5, <2>1 DEF TakeAll, ProbeRetired, ScanSlots, locks
<1>6. ASSUME NEW c \in Callers, ReleaseProbe(c) \/ BackOff(c) \/ ReleaseSlots(c)
      PROVE  UNCHANGED <<owner, files>> \/ DropLargest(c)
  BY <1>6 DEF ReleaseProbe, BackOff, ReleaseSlots, locks
<1>7. ASSUME NEW c \in Callers, Crash(c)
      PROVE  /\ files' = files
             /\ \A s \in SlotIndexes : owner'[s] = owner[s] \/ owner'[s] = NoCaller
  BY <1>7 DEF Crash
<1>8. ASSUME NEW c \in Callers,
             \/ TakeStamp(c) \/ PublishTicket(c) \/ ListTickets(c) \/ PollAgain(c)
             \/ QueueTimeout(c) \/ ReadLimit(c) \/ ReadKnownSlots(c) \/ MarkStart(c)
             \/ Leave(c)
      PROVE  UNCHANGED <<owner, files>>
  BY <1>8 DEF TakeStamp, PublishTicket, ListTickets, PollAgain, QueueTimeout,
     ReadLimit, ReadKnownSlots, MarkStart, Leave, locks
<1>9. ASSUME StatusTake
      PROVE  \E s \in Advertised : Take(StatusProbe, s)
  BY <1>9, AdvertisedAreKnown DEF StatusTake
<1>10. CASE RecordRateLimit \/ CooldownExpires \/ ChangeCapacity
  BY <1>1, <1>10 DEF RecordRateLimit, CooldownExpires, ChangeCapacity, locks
<1>11. CASE StatusDrop
  BY <1>3, <1>4, <1>11 DEF StatusDrop
<1>12. CASE UNCHANGED vars
  BY <1>1, <1>12 DEF vars
<1>13. ASSUME NEW c \in Callers, CallerStep(c)
       PROVE  /\ files' \subseteq Advertised'
              /\ \A u \in SlotIndexes : owner'[u] # NoCaller => u \in Advertised'
  <2>1. CASE TakeAll(c) \/ ProbeRetired(c) \/ ScanSlots(c)
    BY <1>1, <1>2, <1>5, <2>1
  <2>2. CASE ReleaseProbe(c) \/ BackOff(c) \/ ReleaseSlots(c)
    BY <1>1, <1>3, <1>4, <1>6, <2>2
  <2>3. CASE Crash(c)
    BY <1>3, <1>7, <2>3
  <2>4. CASE \/ TakeStamp(c) \/ PublishTicket(c) \/ ListTickets(c) \/ PollAgain(c)
             \/ QueueTimeout(c) \/ ReadLimit(c) \/ ReadKnownSlots(c) \/ MarkStart(c)
             \/ Leave(c)
    BY <1>1, <1>8, <2>4
  <2> QED BY <1>13, <2>1, <2>2, <2>3, <2>4 DEF CallerStep, Run, Claim
<1> QED BY <1>2, <1>9, <1>10, <1>11, <1>12, <1>13 DEF Next, Environment

\* A caller's limit is the capacity or 1, and it tries known slots only.
LEMMA PollWithinCapacity ==
    ASSUME TypeOK, WithinCapacity, [Next]_vars, capacity' = capacity,
           NEW c \in Callers
    PROVE  limit'[c] <= capacity' /\ todo'[c] \subseteq Advertised'
<1>0. /\ Advertised' = Advertised /\ KnownSlots = Advertised
      /\ limit[c] <= capacity /\ todo[c] \subseteq Advertised
      /\ capacity \in Nat \ {0} /\ limit[c] \in Nat
      /\ limit \in [Callers -> 0 .. MaxCapacity]
      /\ todo \in [Callers -> SUBSET SlotIndexes]
  BY AdvertisedAreKnown, CapacitiesAssumption DEF Advertised, WithinCapacity, TypeOK
<1>1. CASE limit'[c] = limit[c] /\ todo'[c] \subseteq todo[c]
  BY <1>0, <1>1
<1>2. CASE limit'[c] = 0 /\ todo'[c] = {}
  BY <1>0, <1>2
<1>3. ASSUME CallerStep(c)
      PROVE  limit'[c] <= capacity' /\ todo'[c] \subseteq Advertised'
  <2>1. CASE ReadLimit(c)
    <3>1. limit'[c] = (IF degraded THEN 1 ELSE capacity) /\ todo' = todo
      BY <1>0, <2>1 DEF ReadLimit
    <3> QED BY <1>0, <3>1
  <2>2. CASE ReadKnownSlots(c)
    <3>1. limit' = limit /\ todo'[c] \subseteq KnownSlots \cup (0 .. limit[c] - 1)
      BY <1>0, <2>2 DEF ReadKnownSlots
    <3>2. 0 .. limit[c] - 1 \subseteq Advertised
      BY <1>0 DEF Advertised
    <3> QED BY <1>0, <3>1, <3>2
  <2>3. CASE ReleaseProbe(c)
    <3>1. limit' = limit /\ todo'[c] \subseteq todo[c] \cup (0 .. limit[c] - 1)
      BY <1>0, <2>3 DEF ReleaseProbe
    <3>2. 0 .. limit[c] - 1 \subseteq Advertised
      BY <1>0 DEF Advertised
    <3> QED BY <1>0, <3>1, <3>2
  <2>4. CASE TakeAll(c) \/ ProbeRetired(c) \/ ScanSlots(c) \/ Leave(c) \/ Crash(c)
    BY <1>0, <1>1, <1>2, <2>4 DEF TakeAll, ProbeRetired, ScanSlots, Leave, Crash, ForgetPoll
  <2>5. CASE \/ TakeStamp(c) \/ PublishTicket(c) \/ ListTickets(c) \/ PollAgain(c)
             \/ QueueTimeout(c) \/ BackOff(c) \/ MarkStart(c) \/ ReleaseSlots(c)
    BY <1>1, <2>5 DEF TakeStamp, PublishTicket, ListTickets, PollAgain, QueueTimeout,
       BackOff, MarkStart, ReleaseSlots, polled
  <2> QED BY <1>3, <2>1, <2>2, <2>3, <2>4, <2>5 DEF CallerStep, Run, Claim
<1>4. CASE \E d \in Callers \ {c} : CallerStep(d)
  BY <1>1, <1>4, StepIsLocal
<1>5. CASE Environment
  BY <1>1, <1>5 DEF Environment, RecordRateLimit, CooldownExpires, ChangeCapacity,
     StatusTake, StatusDrop, polled
<1>6. CASE UNCHANGED vars
  BY <1>1, <1>6 DEF vars
<1> QED BY <1>3, <1>4, <1>5, <1>6 DEF Next

\* Every step that leaves the capacity alone stays within it.
LEMMA NextWithinCapacity ==
    ASSUME TypeOK, WithinCapacity, [Next]_vars, capacity' = capacity
    PROVE  WithinCapacity'
BY LocksWithinCapacity, PollWithinCapacity DEF WithinCapacity

\* The inductive form of ExclusiveAlone, in terms of the slot locks: a caller
\* on its way to an exclusive turn owns every slot it has tried.
OwnsItsSlots ==
    /\ NoLeakedSlot
    /\ \A c \in Callers :
          pc[c] = "takeall" => serial[c] /\ Advertised \ todo[c] \subseteq Held(c)
    /\ \A c \in Callers : pc[c] \in {"probing", "scanning"} => ~serial[c]
    /\ \A c \in Admitted : Held(c) # {}
    /\ \A c \in Admitted : serial[c] => Advertised \subseteq Held(c)

\* Nobody claims or runs in the initial state.
LEMMA InitOwnsItsSlots == Init => OwnsItsSlots
BY InitNoLeak DEF Init, OwnsItsSlots, Admitted

\* While the capacity stays the same every step preserves the ownership of
\* slots: a caller in the take-all loop owns those it has passed.
LEMMA NextOwnsItsSlots ==
    ASSUME TypeOK, WithinCapacity, OwnsItsSlots, [Next]_vars, capacity' = capacity
    PROVE  OwnsItsSlots'
<1>0. NoLeakedSlot'
  BY NextNoLeak DEF OwnsItsSlots
<1> DEFINE
    Good(c) == /\ pc[c] = "takeall" => serial[c] /\ Advertised \ todo[c] \subseteq Held(c)
               /\ pc[c] \in {"probing", "scanning"} => ~serial[c]
               /\ pc[c] \in {"admitted", "started"} =>
                     Held(c) # {} /\ (serial[c] => Advertised \subseteq Held(c))
<1>1. ASSUME NEW c \in Callers PROVE Good(c)
  BY DEF OwnsItsSlots, Admitted
<1>2. ASSUME NEW c \in Callers, CallerStep(c) PROVE Good(c)'
  <2>0. c \in Processes
    BY DEF Processes
  <2>1. UNCHANGED owner => Held(c)' = Held(c)
    BY DEF Held
  <2>a. Advertised' = Advertised
    BY DEF Advertised
  <2>2. CASE ReadKnownSlots(c)
    <3>1. /\ pc[c] = "limited" /\ serial' = serial /\ UNCHANGED owner
          /\ pc'[c] = IF serial[c] THEN "takeall" ELSE "probing"
          /\ serial[c] => todo'[c] = Advertised
      BY <2>2, AdvertisedAreKnown DEF ReadKnownSlots, TypeOK, Goto, locks
    <3> QED BY <2>a, <3>1
  <2>3. CASE TakeAll(c)
    <3> DEFINE s == Smallest(todo[c])
    <3>1. s \in todo[c] /\ s \in SlotIndexes
      BY <2>3, SmallestIsMember DEF TakeAll, TypeOK
    <3>2. CASE Take(c, s) /\ UNCHANGED serial /\ todo'[c] = todo[c] \ {s}
               /\ pc'[c] = IF todo[c] = {s} THEN "admitted" ELSE "takeall"
      <4>1. Held(c)' = Held(c) \cup {s}
        BY <2>0, <3>1, <3>2, HeldAfterTake
      <4>2. serial[c] /\ Advertised \ todo[c] \subseteq Held(c)
        BY <1>1, <2>3 DEF TakeAll
      <4>3. Advertised \ todo'[c] \subseteq Held(c)'
        BY <3>2, <4>1, <4>2
      <4>4. pc'[c] = "admitted" => todo'[c] = {}
        BY <3>2
      <4> HIDE DEF s
      <4>5. Held(c)' # {}
        BY <4>1
      <4> QED BY <2>a, <3>2, <4>2, <4>3, <4>4, <4>5
    <3>3. CASE pc'[c] = "backoff"
      BY <3>3
    <3> QED BY <2>3, <3>2, <3>3 DEF TakeAll, TypeOK, Goto
  <2>4. CASE ProbeRetired(c)
    <3>1. \/ pc'[c] = "probing" /\ pc[c] = "probing" /\ serial'[c] = serial[c]
          \/ pc'[c] = "backoff"
      BY <2>4 DEF ProbeRetired, TypeOK, Goto
    <3> QED BY <1>1, <3>1
  <2>5. CASE ReleaseProbe(c)
    <3>1. pc'[c] \in {"probing", "scanning"} /\ pc[c] = "probing" /\ serial'[c] = serial[c]
      BY <2>5 DEF ReleaseProbe, TypeOK, Goto
    <3> QED BY <1>1, <3>1
  <2>6. CASE ScanSlots(c)
    <3>1. CASE todo[c] # {} /\ Take(c, Smallest(todo[c])) /\ pc'[c] = "admitted"
               /\ serial' = serial
      <4>1. Smallest(todo[c]) \in SlotIndexes
        BY <3>1, SmallestIsMember DEF TypeOK
      <4>2. Held(c)' # {}
        BY <2>0, <3>1, <4>1, HeldAfterTake
      <4>3. ~serial[c]
        BY <1>1, <2>6 DEF ScanSlots
      <4> QED BY <3>1, <4>2, <4>3
    <3>2. CASE pc'[c] = "sleeping" \/ (pc'[c] = "scanning" /\ serial' = serial)
      BY <1>1, <2>6, <3>2 DEF ScanSlots
    <3> QED BY <2>6, <3>1, <3>2 DEF ScanSlots, TypeOK, Goto
  <2>7. CASE MarkStart(c)
    <3>1. pc[c] = "admitted" /\ pc'[c] = "started" /\ serial' = serial /\ UNCHANGED owner
      BY <2>7 DEF MarkStart, TypeOK, Goto, polled, locks
    <3> QED BY <1>1, <2>1, <2>a, <3>1
  <2>8. CASE pc'[c] \in {"stamped", "polling", "first", "limited", "sleeping", "backoff",
                         "leaving", "done", "dead"}
    BY <2>8
  <2> HIDE DEF Good
  <2>9. CASE TakeStamp(c) \/ PublishTicket(c) \/ ListTickets(c) \/ PollAgain(c)
             \/ QueueTimeout(c) \/ ReadLimit(c) \/ BackOff(c) \/ Leave(c)
             \/ ReleaseSlots(c) \/ Crash(c)
    <3>1. pc'[c] \in {"stamped", "polling", "first", "limited", "sleeping", "backoff",
                      "leaving", "done", "dead"}
      BY <2>9 DEF TakeStamp, PublishTicket, ListTickets, PollAgain, QueueTimeout,
         ReadLimit, BackOff, Leave, ReleaseSlots, Crash, Goto, TypeOK
    <3> QED BY <2>8, <3>1
  <2> QED BY <1>2, <2>2, <2>3, <2>4, <2>5, <2>6, <2>7, <2>9 DEF CallerStep, Run, Claim
<1>3. ASSUME NEW c \in Callers PROVE Good(c)'
  <2>0. Advertised' = Advertised
    BY DEF Advertised
  <2>1. CASE \E d \in Callers \ {c} : CallerStep(d)
    BY <1>1, <2>0, <2>1, StepIsLocal
  <2>2. CASE Environment
    BY <1>1, <2>0, <2>2, EnvironmentIsRemote
  <2>3. CASE UNCHANGED vars
    BY <1>1, <2>0, <2>3 DEF vars, Held
  <2> HIDE DEF Good
  <2> QED BY <1>2, <2>1, <2>2, <2>3 DEF Next
<1> QED BY <1>0, <1>3 DEF OwnsItsSlots, Admitted

\* From the reading of the limits on, an exclusive call is a serial one.
ExclusiveIsSerial ==
    \A c \in Callers :
        pc[c] \in {"limited", "takeall", "probing", "scanning", "admitted", "started"} =>
           (exclusive[c] => serial[c])

\* No call has read the limits in the initial state.
LEMMA InitExclusiveIsSerial == Init => ExclusiveIsSerial
BY DEF Init, ExclusiveIsSerial

\* Only ReadLimit gives a call its "serial", and only the end of an attempt or
\* of the call takes it away.
LEMMA NextExclusiveIsSerial ==
    ASSUME TypeOK, ExclusiveIsSerial, [Next]_vars
    PROVE  ExclusiveIsSerial'
<1> DEFINE
    Reads == {"limited", "takeall", "probing", "scanning", "admitted", "started"}
    Good(c) == pc[c] \in Reads => (exclusive[c] => serial[c])
<1>1. ASSUME NEW c \in Callers PROVE Good(c)
  BY DEF ExclusiveIsSerial
<1>2. exclusive' = exclusive
  BY DEF Next, CallerStep, Run, Claim, Environment, TakeStamp, PublishTicket,
     ListTickets, PollAgain, QueueTimeout, ReadLimit, ReadKnownSlots, TakeAll,
     ProbeRetired, ReleaseProbe, ScanSlots, BackOff, MarkStart, Leave, ReleaseSlots,
     Crash, RecordRateLimit, CooldownExpires, ChangeCapacity, StatusTake, StatusDrop,
     vars
<1>3. ASSUME NEW c \in Callers, CallerStep(c) PROVE Good(c)'
  <2>1. CASE ReadLimit(c)
    <3>1. serial'[c] = (degraded \/ exclusive[c])
      BY <2>1 DEF ReadLimit, TypeOK
    <3> QED BY <1>2, <3>1
  <2>2. CASE pc'[c] \notin Reads
    BY <2>2
  <2>3. CASE pc[c] \in Reads /\ serial'[c] = serial[c]
    BY <1>1, <1>2, <2>3
  <2>4. CASE ReadKnownSlots(c) \/ MarkStart(c)
    BY <2>3, <2>4 DEF ReadKnownSlots, MarkStart, polled
  <2>5. CASE TakeAll(c)
    BY <2>2, <2>3, <2>5 DEF TakeAll, Goto, TypeOK
  <2>6. CASE ProbeRetired(c)
    BY <2>2, <2>3, <2>6 DEF ProbeRetired, Goto, TypeOK
  <2>7. CASE ReleaseProbe(c)
    BY <2>3, <2>7 DEF ReleaseProbe
  <2>8. CASE ScanSlots(c)
    BY <2>2, <2>3, <2>8 DEF ScanSlots, Goto, TypeOK
  <2>9. CASE TakeStamp(c) \/ PublishTicket(c) \/ ListTickets(c) \/ PollAgain(c)
             \/ QueueTimeout(c) \/ BackOff(c) \/ Leave(c) \/ ReleaseSlots(c)
             \/ Crash(c)
    <3>1. pc'[c] \notin Reads
      BY <2>9 DEF TakeStamp, PublishTicket, ListTickets, PollAgain, QueueTimeout,
         BackOff, Leave, ReleaseSlots, Crash, Goto, TypeOK
    <3> QED BY <2>2, <3>1
  <2> HIDE DEF Good
  <2> QED BY <1>3, <2>1, <2>4, <2>5, <2>6, <2>7, <2>8, <2>9 DEF CallerStep, Run, Claim
<1>4. ASSUME NEW c \in Callers PROVE Good(c)'
  <2>1. CASE \E d \in Callers \ {c} : CallerStep(d)
    BY <1>1, <1>2, <2>1, StepIsLocal
  <2>2. CASE Environment
    BY <1>1, <1>2, <2>2, EnvironmentIsRemote
  <2>3. CASE UNCHANGED vars
    BY <1>1, <2>3 DEF vars
  <2> HIDE DEF Good
  <2> QED BY <1>3, <2>1, <2>2, <2>3 DEF Next
<1> QED BY <1>4 DEF ExclusiveIsSerial

\* Who owns every slot leaves none to another admitted caller.
LEMMA OwnershipExcludes ==
    ASSUME TypeOK, WithinCapacity, OwnsItsSlots, ExclusiveIsSerial
    PROVE  ExclusiveAlone
<1> SUFFICES ASSUME NEW c \in Admitted, serial[c], NEW d \in Admitted, d # c
             PROVE  FALSE
  <2>1. \A c \in Admitted : exclusive[c] => serial[c]
    BY DEF ExclusiveIsSerial, Admitted
  <2> QED BY <2>1 DEF ExclusiveAlone
<1>1. PICK s \in SlotIndexes : owner[s] = d
  BY DEF OwnsItsSlots, Held
<1>2. owner[s] # NoCaller
  BY <1>1, CallersAssumption DEF Admitted
<1>3. owner[s] = c
  BY <1>2 DEF OwnsItsSlots, WithinCapacity, Held
<1> QED BY <1>1, <1>3

\* What holds until the advertised capacity changes.
SteadyInv == Steady => WithinCapacity /\ OwnsItsSlots

\* Every step preserves it: the one that changes the capacity ends the period.
LEMMA NextSteadyInv ==
    ASSUME TypeOK, SteadyInv, [Next]_vars
    PROVE  SteadyInv'
<1> SUFFICES ASSUME Steady'
             PROVE  WithinCapacity' /\ OwnsItsSlots'
  BY DEF SteadyInv
<1>1. Steady /\ capacity' = capacity
  BY SteadyStep
<1> QED BY <1>1, NextWithinCapacity, NextOwnsItsSlots DEF SteadyInv

\* Until the advertised capacity changes, a first turn of an unknown
\* conversation and a turn admitted during a cooldown run alone, for any number
\* of callers and any capacity, with crashes at any point.
THEOREM ExclusiveTurnsRunAlone == Spec => []ExclusiveUntilResize
<1> DEFINE IInv == TypeOK /\ SteadyInv /\ ExclusiveIsSerial
<1>1. Init => IInv
  BY InitTypeOK, InitWithinCapacity, InitOwnsItsSlots, InitExclusiveIsSerial
     DEF SteadyInv
<1>2. IInv /\ [Next]_vars => IInv'
  BY NextTypeOK, NextSteadyInv, NextExclusiveIsSerial
<1>3. IInv => ExclusiveUntilResize
  BY OwnershipExcludes DEF SteadyInv, ExclusiveUntilResize
<1> QED BY <1>1, <1>2, <1>3, PTL DEF Spec

-----------------------------------------------------------------------------
(* The queue implements the admission gate.                                *)

\* One admitted caller per slot at most: while a slot is free, fewer callers
\* than slots are inside.
LEMMA FreeSlotMeansRoom ==
    ASSUME TypeOK, OwnsItsSlots, NEW s \in SlotIndexes, owner[s] = NoCaller
    PROVE  Cardinality(Admitted) < MaxCapacity
<1> DEFINE Others == SlotIndexes \ {s}
           slotOf == [c \in Admitted |-> CHOOSE t \in Held(c) : TRUE]
<1>1. \A c \in Admitted : slotOf[c] \in Held(c)
  BY DEF OwnsItsSlots
<1>2. \A c \in Admitted : slotOf[c] \in Others /\ owner[slotOf[c]] = c
  BY <1>1, CallersAssumption DEF Held, Admitted
<1>3. slotOf \in Injection(Admitted, Others)
  <2> HIDE DEF Others
  <2>1. slotOf \in [Admitted -> Others]
    BY <1>2
  <2>2. \A c, d \in Admitted : slotOf[c] = slotOf[d] => c = d
    BY <1>2
  <2> HIDE DEF slotOf
  <2> QED BY <2>1, <2>2 DEF Injection, IsInjective
<1>4. IsFiniteSet(SlotIndexes) /\ Cardinality(SlotIndexes) = MaxCapacity
  BY FS_Interval, CapacitiesAssumption DEF SlotIndexes
<1>5. IsFiniteSet(Others) /\ Cardinality(Others) = MaxCapacity - 1
  BY <1>4, FS_RemoveElement
<1>6. Cardinality(Admitted) <= Cardinality(Others)
  <2> HIDE DEF Others, slotOf
  <2> QED BY <1>3, <1>5, FS_Injection
<1>7. IsFiniteSet(Admitted)
  <2> HIDE DEF Others, slotOf
  <2> QED BY <1>3, <1>5, FS_Injection
<1>8. Cardinality(Admitted) \in Nat
  BY <1>7, FS_CardinalityType
<1> QED BY <1>5, <1>6, <1>8, CapacitiesAssumption

\* The gate's instance has a Cardinality of its own; it is the same operator.
LEMMA SameCardinality == \A S : Gate!Cardinality(S) = Cardinality(S)
BY DEF Gate!Cardinality, Cardinality

\* The queue starts with an empty gate.
LEMMA InitImplementsGate == Init => Gate!Init
BY DEF Init, Gate!Init, GateMode, Admitted, Steady

\* Until the capacity changes, an exclusive entrant finds nobody inside ...
LEMMA ExclusiveEntry ==
    ASSUME TypeOK, ExclusiveAlone', NEW c \in Callers, CallerStep(c), Admits(c),
           serial'[c]
    PROVE  \A d \in Callers : GateMode[d] = "none"
<1>1. \A d \in Callers \ {c} : d \in Admitted <=> d \in Admitted'
  BY StepIsLocal DEF Admitted
<1>2. Admitted = {}
  BY <1>1 DEF ExclusiveAlone, Admits, Admitted
<1> QED BY <1>2 DEF GateMode

\* ... and a shared one finds no exclusive turn and a slot to spare.
LEMMA SharedEntry ==
    ASSUME TypeOK, OwnsItsSlots, ExclusiveAlone', NEW c \in Callers,
           CallerStep(c), Admits(c), ~serial'[c],
           NEW s \in SlotIndexes, owner[s] = NoCaller
    PROVE  /\ Gate!In("exclusive") = {}
           /\ Gate!Cardinality(Gate!In("shared")) < MaxCapacity
<1>1. \A d \in Callers \ {c} : /\ d \in Admitted <=> d \in Admitted'
                               /\ serial'[d] = serial[d]
  BY StepIsLocal DEF Admitted
<1>2. c \notin Admitted /\ c \in Admitted'
  BY DEF Admits
<1>3. \A d \in Admitted : ~serial[d]
  BY <1>1, <1>2 DEF ExclusiveAlone, Admitted
<1>4. {d \in Callers : GateMode[d] = "exclusive"} = {}
  BY <1>3 DEF GateMode
<1>5. {d \in Callers : GateMode[d] = "shared"} = Admitted
  BY <1>3 DEF GateMode, Admitted
<1>6. Cardinality(Admitted) < MaxCapacity
  BY FreeSlotMeansRoom
<1> QED BY <1>4, <1>5, <1>6, SameCardinality DEF Gate!In

\* A caller's step that admits it enters the gate, as the caller's "serial" says.
LEMMA AdmissionEnters ==
    ASSUME TypeOK, SteadyInv, ExclusiveUntilResize', UNCHANGED Steady,
           NEW c \in Callers, CallerStep(c), Admits(c)
    PROVE  Gate!EnterShared(c) \/ Gate!EnterExclusive(c)
<1>1. \A d \in Callers \ {c} : /\ d \in Admitted <=> d \in Admitted'
                               /\ serial'[d] = serial[d]
  BY StepIsLocal DEF Admitted
<1>2. c \notin Admitted /\ c \in Admitted'
  BY DEF Admits
<1>3. GateMode[c] = "none"
  BY <1>2 DEF GateMode
<1>4. GateMode' = [GateMode EXCEPT ![c] = IF serial'[c] THEN "exclusive" ELSE "shared"]
  BY <1>1, <1>2 DEF GateMode
<1>5. CASE serial'[c]
  <2>1. Steady => \A d \in Callers : GateMode[d] = "none"
    BY <1>5, ExclusiveEntry DEF ExclusiveUntilResize
  <2> QED BY <1>3, <1>4, <1>5, <2>1 DEF Gate!EnterExclusive
<1>6. CASE ~serial'[c]
  <2>1. TakeAll(c) \/ ScanSlots(c)
    BY AdmittedFromALoop DEF Next
  <2>2. todo[c] # {} /\ Take(c, Smallest(todo[c]))
    BY <1>2, <2>1 DEF TakeAll, ScanSlots, Goto, TypeOK, Admitted
  <2>3. PICK s \in SlotIndexes : owner[s] = NoCaller
    BY <2>2, SmallestIsMember DEF Take, TypeOK
  <2>4. Steady => /\ Gate!In("exclusive") = {}
                  /\ Gate!Cardinality(Gate!In("shared")) < MaxCapacity
    BY <1>6, <2>3, SharedEntry DEF SteadyInv, ExclusiveUntilResize
  <2> QED BY <1>3, <1>4, <1>6, <2>4 DEF Gate!EnterShared
<1> QED BY <1>5, <1>6

\* Every step of the queue enters, leaves or leaves alone the gate.
LEMMA NextImplementsGate ==
    ASSUME TypeOK, SteadyInv, ExclusiveUntilResize', [Next]_vars
    PROVE  [Gate!Next]_(<<GateMode, Steady>>)
<1>1. ASSUME NEW c \in Callers, CallerStep(c)
      PROVE  [Gate!Next]_(<<GateMode, Steady>>)
  <2>0. UNCHANGED Steady
    <3>1. ~ChangeCapacity
      BY <1>1 DEF CallerStep, Run, Claim, TakeStamp, PublishTicket, ListTickets,
         PollAgain, QueueTimeout, ReadLimit, ReadKnownSlots, TakeAll, ProbeRetired,
         ReleaseProbe, ScanSlots, BackOff, MarkStart, Leave, ReleaseSlots, Crash,
         limits, ghosts, ChangeCapacity
    <3>2. Steady \in BOOLEAN /\ Steady' \in BOOLEAN
      BY DEF Steady
    <3> QED BY <1>1, <3>1, <3>2, SteadyStep DEF Next
  <2>1. \A d \in Callers \ {c} : /\ d \in Admitted <=> d \in Admitted'
                                 /\ serial'[d] = serial[d]
    BY <1>1, StepIsLocal DEF Admitted
  <2>2. CASE Admits(c)
    <3>1. Gate!EnterShared(c) \/ Gate!EnterExclusive(c)
      BY <1>1, <2>0, <2>2, AdmissionEnters
    <3> QED BY <2>0, <3>1 DEF Gate!Next
  <2>3. CASE c \in Admitted /\ c \notin Admitted'
    <3>1. GateMode' = [GateMode EXCEPT ![c] = "none"]
      BY <2>1, <2>3 DEF GateMode
    <3>2. GateMode[c] # "none"
      BY <2>3 DEF GateMode
    <3>3. Gate!LeaveGate(c)
      BY <3>1, <3>2 DEF Gate!LeaveGate
    <3> QED BY <2>0, <3>3 DEF Gate!Next
  <2>4. CASE c \in Admitted /\ c \in Admitted'
    <3>1. pc[c] \in {"admitted", "started"} /\ pc'[c] \in {"admitted", "started"}
      BY <2>4 DEF Admitted
    <3>2. serial'[c] = serial[c]
      BY <1>1, <3>1 DEF CallerStep, Run, Claim, TakeStamp, PublishTicket,
         ListTickets, PollAgain, QueueTimeout, ReadLimit, ReadKnownSlots, TakeAll,
         ProbeRetired, ReleaseProbe, ScanSlots, BackOff, MarkStart, Leave,
         ReleaseSlots, Crash, Goto, TypeOK, polled, Labels
    <3>3. UNCHANGED GateMode
      BY <2>1, <2>4, <3>2 DEF GateMode
    <3> QED BY <2>0, <3>3
  <2>5. CASE c \notin Admitted /\ c \notin Admitted'
    <3>1. UNCHANGED GateMode
      BY <2>1, <2>5 DEF GateMode
    <3> QED BY <2>0, <3>1
  <2> QED BY <2>2, <2>3, <2>4, <2>5 DEF Admits
<1>2. CASE Environment
  <2>1. UNCHANGED GateMode
    <3>1. UNCHANGED <<pc, serial>>
      BY <1>2, EnvironmentIsRemote
    <3> QED BY <3>1 DEF GateMode, Admitted
  <2>2. CASE UNCHANGED Steady
    BY <2>1, <2>2
  <2>3. CASE Steady' = FALSE
    BY <2>1, <2>3 DEF Gate!Next, Gate!CapacityChanges
  <2>4. Steady' \in BOOLEAN /\ Steady \in BOOLEAN /\ (Steady' => Steady)
    BY SteadyStep DEF Steady
  <2> QED BY <2>2, <2>3, <2>4
<1>3. CASE UNCHANGED vars
  BY <1>3 DEF vars, GateMode, Admitted, Steady
<1> QED BY <1>1, <1>2, <1>3 DEF Next

\* Tickets, limits, slot locks, probes and crashes together do nothing but what
\* AdmissionGate says: until the advertised capacity changes, at most
\* MaxCapacity shared turns at once, or one exclusive turn.
THEOREM QueueImplementsGate == Spec => ImplementsGate
<1> DEFINE IInv == TypeOK /\ SteadyInv /\ ExclusiveIsSerial
<1>1. Init => IInv
  BY InitTypeOK, InitWithinCapacity, InitOwnsItsSlots, InitExclusiveIsSerial
     DEF SteadyInv
<1>2. IInv /\ [Next]_vars => IInv'
  BY NextTypeOK, NextSteadyInv, NextExclusiveIsSerial
<1>3. IInv => ExclusiveUntilResize
  BY OwnershipExcludes DEF SteadyInv, ExclusiveUntilResize
<1>4. TypeOK /\ SteadyInv /\ ExclusiveUntilResize' /\ [Next]_vars
         => [Gate!Next]_(<<GateMode, Steady>>)
  BY NextImplementsGate
<1> QED BY <1>1, <1>2, <1>3, <1>4, InitImplementsGate, PTL
        DEF Spec, ImplementsGate, Gate!Spec, Gate!gate

-----------------------------------------------------------------------------
(* The retired slots drain before a shared call is admitted.               *)

\* A lock that is held has its file; what a claiming caller read of the limits
\* fits the loop it is in; an admitted caller owns a slot.
Working ==
    /\ \A s \in SlotIndexes : owner[s] # NoCaller => s \in files
    /\ \A c \in Callers :
          /\ pc[c] = "takeall" => serial[c]
          /\ pc[c] \in {"probing", "scanning"} => ~serial[c]
          /\ pc[c] = "scanning" => todo[c] \subseteq 0 .. limit[c] - 1
          /\ pc[c] \in {"admitted", "started"} => Held(c) # {}

\* Nobody claims a slot in the initial state.
LEMMA InitWorking == Init => Working
BY DEF Init, Working

\* A lock file is never removed, and only a lock with a file is taken.
LEMMA LocksHaveFiles ==
    ASSUME TypeOK, Working, [Next]_vars
    PROVE  \A s \in SlotIndexes : owner'[s] # NoCaller => s \in files'
<1>1. \/ UNCHANGED <<owner, files>>
      \/ \E p \in Processes, s \in SlotIndexes : Take(p, s)
      \/ /\ files' = files
         /\ \A s \in SlotIndexes : owner'[s] \in {owner[s], NoCaller}
  <2>1. ASSUME NEW c \in Callers, TakeAll(c) \/ ProbeRetired(c) \/ ScanSlots(c)
        PROVE  \/ UNCHANGED <<owner, files>>
               \/ \E p \in Processes, s \in SlotIndexes : Take(p, s)
    <3>1. todo[c] # {} => Smallest(todo[c]) \in SlotIndexes
      BY SmallestIsMember DEF TypeOK
    <3> QED BY <2>1, <3>1 DEF TakeAll, ProbeRetired, ScanSlots, locks, Processes
  <2>2. ASSUME StatusTake
        PROVE  \E p \in Processes, s \in SlotIndexes : Take(p, s)
    BY <2>2, KnownSlotsType DEF StatusTake, Processes
  <2>3. ASSUME NEW p, DropLargest(p)
        PROVE  /\ files' = files
               /\ \A s \in SlotIndexes : owner'[s] \in {owner[s], NoCaller}
    BY <2>3 DEF DropLargest, TypeOK
  <2>4. ASSUME NEW c \in Callers, ReleaseProbe(c) \/ BackOff(c) \/ ReleaseSlots(c)
        PROVE  UNCHANGED <<owner, files>> \/ DropLargest(c)
    BY <2>4 DEF ReleaseProbe, BackOff, ReleaseSlots, locks
  <2>5. ASSUME NEW c \in Callers, Crash(c)
        PROVE  /\ files' = files
               /\ \A s \in SlotIndexes : owner'[s] \in {owner[s], NoCaller}
    BY <2>5 DEF Crash
  <2>6. ASSUME NEW c \in Callers, CallerStep(c),
               ~(TakeAll(c) \/ ProbeRetired(c) \/ ScanSlots(c) \/ ReleaseProbe(c)
                 \/ BackOff(c) \/ ReleaseSlots(c) \/ Crash(c))
        PROVE  UNCHANGED <<owner, files>>
    BY <2>6 DEF CallerStep, Run, Claim, TakeStamp, PublishTicket, ListTickets,
       PollAgain, QueueTimeout, ReadLimit, ReadKnownSlots, MarkStart, Leave, locks
  <2>7. ASSUME Environment
        PROVE  UNCHANGED <<owner, files>> \/ StatusTake \/ DropLargest(StatusProbe)
    BY <2>7 DEF Environment, RecordRateLimit, CooldownExpires, ChangeCapacity,
       StatusDrop, locks
  <2>8. CASE \E c \in Callers : CallerStep(c)
    BY <2>1, <2>3, <2>4, <2>5, <2>6, <2>8
  <2>9. CASE Environment
    BY <2>2, <2>3, <2>7, <2>9
  <2> QED BY <2>8, <2>9 DEF Next, vars
<1>2. ASSUME NEW p \in Processes, NEW t \in SlotIndexes, Take(p, t)
      PROVE  \A s \in SlotIndexes : owner'[s] # NoCaller => s \in files'
  BY <1>2 DEF Take, TypeOK, Working
<1> QED BY <1>1, <1>2 DEF Working

\* Every step keeps claiming callers to what they read.
LEMMA NextWorking ==
    ASSUME TypeOK, Working, [Next]_vars
    PROVE  Working'
<1> DEFINE
    Good(c) == /\ pc[c] = "takeall" => serial[c]
               /\ pc[c] \in {"probing", "scanning"} => ~serial[c]
               /\ pc[c] = "scanning" => todo[c] \subseteq 0 .. limit[c] - 1
               /\ pc[c] \in {"admitted", "started"} => Held(c) # {}
<1>1. ASSUME NEW c \in Callers PROVE Good(c)
  BY DEF Working
<1>2. ASSUME NEW c \in Callers, CallerStep(c) PROVE Good(c)'
  <2>0. c \in Processes
    BY DEF Processes
  <2>1. UNCHANGED owner => Held(c)' = Held(c)
    BY DEF Held
  <2>2. CASE ReadKnownSlots(c)
    BY <2>2 DEF ReadKnownSlots, TypeOK, Goto
  <2>3. CASE TakeAll(c) \/ ScanSlots(c)
    <3>1. CASE todo[c] # {} /\ Take(c, Smallest(todo[c])) /\ pc'[c] \in {"admitted", "takeall"}
               /\ (pc'[c] = "takeall" => pc[c] = "takeall" /\ serial' = serial)
      <4>1. Smallest(todo[c]) \in SlotIndexes
        BY <3>1, SmallestIsMember DEF TypeOK
      <4>2. Held(c)' # {}
        BY <2>0, <3>1, <4>1, HeldAfterTake
      <4> QED BY <1>1, <3>1, <4>2
    <3>2. CASE pc'[c] \in {"backoff", "sleeping"}
      BY <3>2
    <3>3. CASE pc[c] = "scanning" /\ pc' = pc /\ UNCHANGED <<limit, serial>>
               /\ todo'[c] \subseteq todo[c]
      BY <1>1, <3>3
    <3> HIDE DEF Good
    <3> QED BY <2>3, <3>1, <3>2, <3>3 DEF TakeAll, ScanSlots, TypeOK, Goto
  <2>4. CASE ProbeRetired(c)
    <3>1. \/ pc'[c] = "probing" /\ pc[c] = "probing" /\ serial'[c] = serial[c]
          \/ pc'[c] = "backoff"
      BY <2>4 DEF ProbeRetired, TypeOK, Goto
    <3> QED BY <1>1, <3>1
  <2>5. CASE ReleaseProbe(c)
    <3>1. /\ pc'[c] \in {"probing", "scanning"} /\ pc[c] = "probing"
          /\ serial'[c] = serial[c] /\ limit' = limit
          /\ pc'[c] = "scanning" => todo'[c] = 0 .. limit[c] - 1
      BY <2>5 DEF ReleaseProbe, TypeOK, Goto
    <3> QED BY <1>1, <3>1
  <2>6. CASE MarkStart(c)
    <3>1. pc[c] = "admitted" /\ pc'[c] = "started" /\ UNCHANGED owner
      BY <2>6 DEF MarkStart, TypeOK, Goto, locks
    <3> QED BY <1>1, <2>1, <3>1
  <2>7. CASE pc'[c] \in {"stamped", "polling", "first", "limited", "sleeping", "backoff",
                         "leaving", "done", "dead"}
    BY <2>7
  <2> HIDE DEF Good
  <2>8. CASE TakeStamp(c) \/ PublishTicket(c) \/ ListTickets(c) \/ PollAgain(c)
             \/ QueueTimeout(c) \/ ReadLimit(c) \/ BackOff(c) \/ Leave(c)
             \/ ReleaseSlots(c) \/ Crash(c)
    <3>1. pc'[c] \in {"stamped", "polling", "first", "limited", "sleeping", "backoff",
                      "leaving", "done", "dead"}
      BY <2>8 DEF TakeStamp, PublishTicket, ListTickets, PollAgain, QueueTimeout,
         ReadLimit, BackOff, Leave, ReleaseSlots, Crash, Goto, TypeOK
    <3> QED BY <2>7, <3>1
  <2> QED BY <1>2, <2>2, <2>3, <2>4, <2>5, <2>6, <2>8 DEF CallerStep, Run, Claim
<1>3. ASSUME NEW c \in Callers PROVE Good(c)'
  <2>1. CASE \E d \in Callers \ {c} : CallerStep(d)
    BY <1>1, <2>1, StepIsLocal
  <2>2. CASE Environment
    BY <1>1, <2>2, EnvironmentIsRemote
  <2>3. CASE UNCHANGED vars
    BY <1>1, <2>3 DEF vars, Held
  <2> HIDE DEF Good
  <2> QED BY <1>2, <2>1, <2>2, <2>3 DEF Next
<1> QED BY <1>3, LocksHaveFiles DEF Working

\* No two calls have the same time stamp.
Stamped ==
    /\ \A c \in Callers : pc[c] # "idle" => stamp[c] < clock
    /\ \A c, d \in Callers :
          pc[c] # "idle" /\ pc[d] # "idle" /\ stamp[c] = stamp[d] => c = d

\* No call has a stamp in the initial state.
LEMMA InitStamped == Init => Stamped
BY DEF Init, Stamped

\* Every step keeps the stamps apart: a new one is the clock's.
LEMMA NextStamped ==
    ASSUME TypeOK, Stamped, [Next]_vars
    PROVE  Stamped'
<1>1. ASSUME NEW c \in Callers, CallerStep(c) PROVE Stamped'
  <2>0. \A d \in Callers \ {c} : pc'[d] = pc[d] /\ stamp'[d] = stamp[d]
    BY <1>1, StepIsLocal
  <2>1. CASE TakeStamp(c)
    <3>1. stamp'[c] = clock /\ clock' = clock + 1 /\ clock \in Nat /\ stamp \in [Callers -> Nat]
      BY <2>1 DEF TakeStamp, TypeOK
    <3> QED BY <2>0, <3>1 DEF Stamped
  <2>2. CASE ~TakeStamp(c)
    <3>1. stamp' = stamp /\ clock' = clock /\ pc[c] # "idle"
      BY <1>1, <2>2 DEF CallerStep, Run, Claim, PublishTicket, ListTickets, PollAgain,
         QueueTimeout, ReadLimit, ReadKnownSlots, TakeAll, ProbeRetired,
         ReleaseProbe, ScanSlots, BackOff, MarkStart, Leave, ReleaseSlots, Crash
    <3> QED BY <2>0, <3>1 DEF Stamped
  <2> QED BY <2>1, <2>2
<1>2. CASE Environment
  BY <1>2, EnvironmentIsRemote DEF Stamped
<1>3. CASE UNCHANGED vars
  BY <1>3 DEF Stamped, vars
<1> QED BY <1>1, <1>2, <1>3 DEF Next

\* As long as no ticket is late, one caller at a time claims slots.
LEMMA OneClaims ==
    ASSUME TypeOK, OldestClaims, Stamped, late = {},
           NEW c \in Callers, NEW d \in Callers, Claiming(c), Claiming(d)
    PROVE  c = d
<1>1. c \in LiveTickets /\ d \in LiveTickets
  BY DEF OldestClaims, LiveTickets, Alive, Claiming
<1>2. stamp[c] <= stamp[d] /\ stamp[d] <= stamp[c]
  BY <1>1 DEF OldestClaims
<1>3. stamp[c] = stamp[d]
  BY <1>2 DEF TypeOK
<1> QED BY <1>3 DEF Stamped, Claiming

\* What the probes have established for each admitted caller: it owns a slot
\* below the limit, or one that is still to be probed.
Drained ==
    late = {} =>
       \A c, d \in Callers :
          d \in Admitted =>
             /\ pc[c] = "probing" => \E s \in Held(d) : s < limit[c] \/ s \in todo[c]
             /\ pc[c] = "scanning" => \E s \in Held(d) : s < limit[c]

\* Nobody is admitted in the initial state.
LEMMA InitDrained == Init => Drained
BY DEF Init, Drained, Admitted

\* No ticket stops being late.
LEMMA LateStays ==
    ASSUME [Next]_vars
    PROVE  late \subseteq late'
<1>1. ASSUME NEW c \in Callers, CallerStep(c) PROVE late \subseteq late'
  BY <1>1 DEF CallerStep, Run, Claim, TakeStamp, PublishTicket, ListTickets, PollAgain,
     QueueTimeout, ReadLimit, ReadKnownSlots, TakeAll, ProbeRetired, ReleaseProbe,
     ScanSlots, BackOff, MarkStart, Leave, ReleaseSlots, Crash, ghosts
<1>2. ASSUME Environment PROVE late \subseteq late'
  BY <1>2 DEF Environment, RecordRateLimit, CooldownExpires, ChangeCapacity,
     StatusTake, StatusDrop, ghosts
<1> QED BY <1>1, <1>2 DEF Next, vars

\* The probes of a caller drain the slots above its limit: an occupied one ends
\* the attempt, and nobody else is admitted meanwhile.
LEMMA NextDrained ==
    ASSUME TypeOK, OldestClaims, Stamped, Working, Drained, [Next]_vars
    PROVE  Drained'
<1> SUFFICES ASSUME late' = {}, NEW c \in Callers, NEW d \in Callers, (d \in Admitted)',
                    pc'[c] \in {"probing", "scanning"}
             PROVE  (/\ pc[c] = "probing" => \E s \in Held(d) : s < limit[c] \/ s \in todo[c]
                     /\ pc[c] = "scanning" => \E s \in Held(d) : s < limit[c])'
  BY DEF Drained
<1>0. late = {} /\ c # d /\ pc'[d] \in {"admitted", "started"}
  BY LateStays DEF Admitted
<1>1. ASSUME NEW e \in Callers, CallerStep(e), e # c
      PROVE  (/\ pc[c] = "probing" => \E s \in Held(d) : s < limit[c] \/ s \in todo[c]
              /\ pc[c] = "scanning" => \E s \in Held(d) : s < limit[c])'
  <2>1. pc'[c] = pc[c] /\ limit'[c] = limit[c] /\ todo'[c] = todo[c]
    BY <1>1, StepIsLocal
  <2>2. d \in Admitted
    <3> SUFFICES ASSUME d \notin Admitted PROVE FALSE
      OBVIOUS
    <3>1. Claiming(d)
      BY AdmittedFromALoop DEF Admits, Claiming
    <3>2. Claiming(c)
      BY <2>1 DEF Claiming
    <3> QED BY <1>0, <3>1, <3>2, OneClaims
  <2>3. Held(d)' = Held(d)
    <3>1. CASE e # d
      BY <1>1, <3>1, StepIsLocal
    <3>2. CASE e = d
      <4>1. pc[d] \in {"admitted", "started"}
        BY <2>2 DEF Admitted
      <4>2. MarkStart(d)
        BY <1>0, <1>1, <3>2, <4>1 DEF CallerStep, Run, Claim, TakeStamp, PublishTicket,
           ListTickets, PollAgain, QueueTimeout, ReadLimit, ReadKnownSlots, TakeAll,
           ProbeRetired, ReleaseProbe, ScanSlots, BackOff, Leave, ReleaseSlots, Crash,
           Goto, TypeOK
      <4> QED BY <4>2 DEF MarkStart, locks, Held
    <3> QED BY <3>1, <3>2
  <2> QED BY <1>0, <2>1, <2>2, <2>3 DEF Drained
<1>2. ASSUME CallerStep(c)
      PROVE  (/\ pc[c] = "probing" => \E s \in Held(d) : s < limit[c] \/ s \in todo[c]
              /\ pc[c] = "scanning" => \E s \in Held(d) : s < limit[c])'
  <2>1. d \in Admitted /\ Held(d)' = Held(d)
    BY <1>0, <1>2, StepIsLocal DEF Admitted
  <2>2. CASE ReadKnownSlots(c)
    <3>1. PICK s \in Held(d) : TRUE
      BY <2>1 DEF Working, Admitted
    <3>2. s \in files /\ s \in SlotIndexes
      BY <3>1, CallersAssumption DEF Held, Working
    <3>3. s < limit[c] \/ s \in {t \in KnownSlots : t >= limit[c]}
      BY <3>2, CapacitiesAssumption DEF KnownSlots, SlotIndexes, TypeOK
    <3>4. pc'[c] = "probing" => todo'[c] = {t \in KnownSlots : t >= limit[c]}
      BY <2>2 DEF ReadKnownSlots, Goto, TypeOK
    <3>5. limit' = limit /\ pc'[c] # "scanning"
      BY <2>2 DEF ReadKnownSlots, Goto, TypeOK
    <3> QED BY <2>1, <3>1, <3>3, <3>4, <3>5
  <2>3. CASE ProbeRetired(c)
    <3>1. /\ pc[c] = "probing" /\ pc'[c] = "probing" /\ limit' = limit
          /\ owner[Smallest(todo[c])] = NoCaller
          /\ todo'[c] = todo[c] \ {Smallest(todo[c])}
      BY <2>3 DEF ProbeRetired, Goto, TypeOK, Take
    <3>2. Smallest(todo[c]) \notin Held(d)
      BY <3>1, CallersAssumption DEF Held
    <3> QED BY <1>0, <2>1, <3>1, <3>2 DEF Drained
  <2>4. CASE ReleaseProbe(c)
    <3>1. /\ pc[c] = "probing" /\ limit' = limit /\ todo[c] = {}
          /\ pc'[c] = "scanning" \/ (pc'[c] = "probing" /\ todo' = todo)
      BY <2>4 DEF ReleaseProbe, Goto, TypeOK
    <3> QED BY <1>0, <2>1, <3>1 DEF Drained
  <2>5. CASE ScanSlots(c)
    <3>1. pc[c] = "scanning" /\ pc'[c] = "scanning" /\ limit' = limit
      BY <2>5 DEF ScanSlots, Goto, TypeOK
    <3> QED BY <1>0, <2>1, <3>1 DEF Drained
  <2>6. ReadKnownSlots(c) \/ ProbeRetired(c) \/ ReleaseProbe(c) \/ ScanSlots(c)
    BY <1>2 DEF CallerStep, Run, Claim, TakeStamp, PublishTicket, ListTickets,
       PollAgain, QueueTimeout, ReadLimit, TakeAll, BackOff, MarkStart, Leave,
       ReleaseSlots, Crash, Goto, TypeOK
  <2> QED BY <2>2, <2>3, <2>4, <2>5, <2>6
<1>3. CASE Environment
  BY <1>0, <1>3, EnvironmentIsRemote DEF Drained, Admitted
<1>4. CASE UNCHANGED vars
  BY <1>0, <1>4 DEF Drained, Admitted, Held, vars
<1> QED BY <1>1, <1>2, <1>3, <1>4 DEF Next

\* Callers that each own a slot below n are no more than n.
LEMMA SlotsBoundTheirOwners ==
    ASSUME NEW n \in Nat, NEW own, NEW S,
           \A d \in S : \E s \in 0 .. n - 1 : own[s] = d
    PROVE  Cardinality(S) <= n
<1> DEFINE Low == 0 .. n - 1
           slotOf == [d \in S |-> CHOOSE s \in Low : own[s] = d]
<1>1. \A d \in S : slotOf[d] \in Low /\ own[slotOf[d]] = d
  OBVIOUS
<1>2. IsFiniteSet(Low) /\ Cardinality(Low) = n
  BY FS_Interval
<1>3. slotOf \in [S -> Low]
  BY <1>1
<1> HIDE DEF Low
<1>4. \A d, e \in S : slotOf[d] = slotOf[e] => d = e
  BY <1>1
<1> HIDE DEF slotOf
<1>5. slotOf \in Injection(S, Low)
  BY <1>3, <1>4 DEF Injection, IsInjective
<1> QED BY <1>2, <1>5, FS_Injection

\* A shared call is admitted only when the calls above the limit it read have
\* ended, so that with it no more calls run than that limit, for any number of
\* callers and however often the capacity changes, as long as tickets appear in
\* the order of their stamps.
THEOREM RetiredSlotsAreDrained == Spec => RetiredSlotsDrain
<1> DEFINE
    IInv == TypeOK /\ OldestClaims /\ Stamped /\ Working /\ Drained
    Bounded == \A c \in Callers : Admits(c) /\ ~serial[c] /\ late = {} =>
                                     Cardinality(Admitted') <= limit[c]
<1>1. Init => IInv
  <2>1. Init => OldestClaims
    BY DEF Init, OldestClaims, Claiming
  <2> QED BY <2>1, InitTypeOK, InitStamped, InitWorking, InitDrained
<1>2. IInv /\ [Next]_vars => IInv'
  BY NextTypeOK, NextOldestClaims, NextStamped, NextWorking, NextDrained
<1>3. IInv /\ [Next]_vars => Bounded
  <2> SUFFICES ASSUME IInv, [Next]_vars, NEW c \in Callers, Admits(c), ~serial[c],
                      late = {}
               PROVE  Cardinality(Admitted') <= limit[c]
    OBVIOUS
  <2>1. ScanSlots(c) /\ pc[c] = "scanning"
    BY AdmittedFromALoop DEF Working, TakeAll, ScanSlots
  <2>2. CallerStep(c)
    BY <2>1 DEF CallerStep, Run, Claim
  <2> DEFINE s == Smallest(todo[c])
  <2>3. todo[c] # {} /\ Take(c, s)
    BY <2>1 DEF ScanSlots, Admits, Admitted, Goto, TypeOK
  <2>4. s \in SlotIndexes /\ s \in 0 .. limit[c] - 1
    BY <2>1, <2>3, SmallestIsMember DEF Working, TypeOK
  <2>5. limit[c] \in 0 .. MaxCapacity /\ Admitted' \in SUBSET Callers /\ TypeOK'
    BY NextTypeOK DEF TypeOK, Admitted
  <2>6. ASSUME NEW d \in Admitted' PROVE \E t \in Held(d)' : t < limit[c]
    <3>1. CASE d = c
      <4>1. s \in Held(c)'
        BY <2>3, <2>4, HeldAfterTake DEF Processes
      <4>2. s < limit[c]
        BY <2>4, <2>5, CapacitiesAssumption
      <4> HIDE DEF s
      <4> QED BY <3>1, <4>1, <4>2
    <3>2. CASE d # c
      <4>1. d \in Callers /\ d \in Admitted /\ Held(d)' = Held(d)
        BY <2>2, <2>6, <3>2, StepIsLocal DEF Admitted
      <4> QED BY <2>1, <4>1 DEF Drained
    <3> QED BY <3>1, <3>2
  <2>7. \A d \in Admitted' : \E t \in 0 .. limit[c] - 1 : owner'[t] = d
    BY <2>5, <2>6, CapacitiesAssumption DEF Held, SlotIndexes
  <2> QED BY <2>5, <2>7, SlotsBoundTheirOwners, CapacitiesAssumption
<1> QED BY <1>1, <1>2, <1>3, PTL DEF Spec, RetiredSlotsDrain
=============================================================================
