--------------------------- MODULE GoalRunProofs ---------------------------
(***************************************************************************)
(* Theorems about goal-research runs, for any commands, roles, contracts   *)
(* and reports, and any number of edits, crashes and resumptions.          *)
(* RunInv is about evidence and who may append, Books about budgets,       *)
(* iterations and hypotheses; both together are inductive.                 *)
(***************************************************************************)
EXTENDS GoalRun, FiniteSetTheorems, WellFoundedInduction, TLAPS

Final   == "FINAL_CLEAN_ROOM_AUDIT"
Waiting == {"WAITING_FOR_CODEX", "WAITING_FOR_LOCAL_VERIFICATION"}

\* The events of the commands that do not take operation.lock.
Outside == {"goal_amended", "codex_implementation_recorded",
            "implementation_receipt_invalidated", "local_verification_recorded"}

-----------------------------------------------------------------------------
(* The inductive invariant.                                                *)

\* The log is never empty, and each of its entries has a projection.
LogShape ==
  /\ Len(log) \in Nat \ {0}
  /\ \E S : log \in Seq(S)
  /\ \A i \in 1..Len(log) : /\ DOMAIN View(i) = DOMAIN Fresh
                            /\ View(i).ver \in Nat /\ View(i).ver = log[i].e.ver

\* The contract of every goal version that the log names is on disk.
Contracted == \A i \in 1..Len(log) : <<"goal", View(i).ver>> \in DOMAIN files

\* An invalidation tells the snapshot its name tells.
Invalidations ==
  \A it, s : <<"invalidation", it, s>> \in DOMAIN files =>
               files[<<"invalidation", it, s>>] = s

\* Which event a receipt is recorded by.
Named(e) ==
  /\ "codex" \in DOMAIN e.arts => e.type = "codex_implementation_recorded"
  /\ "verification" \in DOMAIN e.arts => e.type = "local_verification_recorded"
Recorded == \A i \in 1..Len(log) : Named(log[i].e)

\* The advancing process has the end of the log in view, or the goal was
\* amended meanwhile.
Abreast(n) ==
  /\ View(n).phase \notin Waiting
  /\ Len(log) = n \/ Current.ver > View(n).ver

\* What completion rests on, as far as it can be seen in the view n.
Receipt(n, type, kind, ver, snap) ==
  \E k \in 1..n : /\ log[k].e.type = type /\ log[k].e.ver = ver
                  /\ log[k].e.arts[kind].snap = snap
Evidenced(n, e) ==
  LET r == e.arts.report  g == Goal(e.ver)  v == View(n) IN
  /\ Receipt(n, "codex_implementation_recorded", "codex", e.ver, r.snap)
  /\ Receipt(n, "local_verification_recorded", "verification", e.ver, r.snap)
  /\ r.recommend /\ GatesPass(g, r.acc, r.clauses) /\ GatesPass(g, v.acc, v.clauses)
  /\ v.critical = {}

\* An event that a command is about to append.
EventOk(cmd, n, e) ==
  /\ Named(e)
  /\ cmd = "advance" <=> e.type \notin Outside
  /\ e.type = "goal_amended" => <<"goal", e.ver>> \in DOMAIN files
  /\ e.type = "goal_completed" => e.ver = View(n).ver /\ (Len(log) = n => Evidenced(n, e))

\* What the final audit found when its turn was started.
TurnOk(x) ==
  /\ x.cmd = "advance"
  /\ View(x.n).phase \in TurnPhases
  /\ View(x.n).phase = Final /\ Len(log) = x.n =>
       x.names = {"final"} /\ Evidence(x.n, Frozen(x.n))

ProcOk(x) ==
  /\ DOMAIN x = DOMAIN Idle
  /\ x.pc \in {"idle", "turns", "append"}
  /\ x.pc = "idle" <=> x.cmd = "none"
  /\ x.pc # "idle" => x.n \in 1..Len(log)
  /\ x.cmd = "advance" => Abreast(x.n)
  /\ x.pc = "turns" => TurnOk(x)
  /\ x.pc = "append" => EventOk(x.cmd, x.n, x.e)

ProcsOk == DOMAIN proc = Procs /\ \A p \in Procs : ProcOk(proc[p])

Alone == \A p, q \in Procs : proc[p].cmd = "advance" /\ proc[q].cmd = "advance" => p = q

\* What a completed run rests on.
Completed ==
  \A i \in 1..Len(log) : log[i].e.type = "goal_completed" => Evidenced(i, log[i].e)

RunInv ==
  /\ LogShape /\ Contracted /\ Invalidations /\ Recorded
  /\ ProcsOk /\ Alone /\ Completed

-----------------------------------------------------------------------------
(* Logs and files only grow.                                               *)

LogGrows  == /\ Len(log') \in Nat /\ Len(log') >= Len(log)
             /\ \A i \in 1..Len(log) : log'[i] = log[i]
FilesKept == \A x \in DOMAIN files : x \in DOMAIN files' /\ files'[x] = files[x]

\* What an append does to a log.
LEMMA Appending ==
    ASSUME NEW l, NEW S, l \in Seq(S), NEW r
    PROVE  /\ Len(Append(l, r)) = Len(l) + 1 /\ Len(l) \in Nat
           /\ \A i \in 1..Len(l) : Append(l, r)[i] = l[i]
           /\ Append(l, r)[Len(l) + 1] = r
           /\ Append(l, r) \in Seq(S \cup {r})
<1>1. l \in Seq(S \cup {r}) /\ r \in S \cup {r}
  OBVIOUS
<1> QED BY <1>1

\* A prefix that is a whole sequence is that sequence.
LEMMA Prefix ==
    ASSUME NEW l, NEW S, l \in Seq(S), NEW m, NEW T, m \in Seq(T),
           Len(m) >= Len(l), \A i \in 1..Len(l) : m[i] = l[i]
    PROVE  SubSeq(m, 1, Len(l)) = l
  OBVIOUS

\* Artifacts written without a conflict leave the others alone.
LEMMA WritesKeep ==
    ASSUME NEW w, ~Conflict(w), files' = Over(w, files)
    PROVE  FilesKept /\ DOMAIN files' = DOMAIN w \cup DOMAIN files
           /\ \A x \in DOMAIN files' : x \in DOMAIN files \/ files'[x] = w[x]
  BY DEF Conflict, Over, FilesKept

\* What was seen in a view is seen again when log and files have grown.
LEMMA ViewsStay ==
    ASSUME LogGrows, NEW n \in 1..Len(log)
    PROVE  /\ View(n)' = View(n)
           /\ \A type, kind, ver, s :
                Receipt(n, type, kind, ver, s) <=> Receipt(n, type, kind, ver, s)'
<1>1. \A i \in 1..n : i \in 1..Len(log) /\ log'[i] = log[i]
  BY DEF LogGrows
<1>2. View(n)' = View(n)
  BY <1>1 DEF View
<1> QED BY <1>1, <1>2 DEF Receipt

\* Evidence of completion stays when log and files have grown.
LEMMA EvidenceStays ==
    ASSUME LogGrows, FilesKept, NEW n \in 1..Len(log), NEW e,
           <<"goal", e.ver>> \in DOMAIN files, Evidenced(n, e)
    PROVE  Evidenced(n, e)'
<1>1. Goal(e.ver)' = Goal(e.ver)
  BY DEF FilesKept, Goal
<1> QED BY <1>1, ViewsStay DEF Evidenced, GatesPass, SatisfiesGate

-----------------------------------------------------------------------------
(* Steps that leave the log alone.                                         *)

\* An event that may be appended stays so while the log rests and files are only added.
LEMMA EventStays ==
    ASSUME LogShape, Contracted, log' = log, FilesKept, NEW cmd, NEW n \in 1..Len(log), NEW e,
           EventOk(cmd, n, e)
    PROVE  EventOk(cmd, n, e)'
<1>1. LogGrows
  BY DEF LogShape, LogGrows
<1>2. View(n)' = View(n)
  BY DEF View
<1>3. e.type = "goal_amended" => (<<"goal", e.ver>> \in DOMAIN files)'
  BY DEF EventOk, FilesKept
<1>4. ASSUME e.type = "goal_completed"
      PROVE  e.ver = View(n).ver /\ (Len(log) = n => Evidenced(n, e))'
  <2>1. <<"goal", e.ver>> \in DOMAIN files /\ e.ver = View(n).ver
    BY <1>4 DEF EventOk, Contracted
  <2> QED BY <1>1, <1>4, <2>1, EvidenceStays DEF EventOk
<1> QED BY <1>2, <1>3, <1>4 DEF EventOk

\* What is known of a process stays so, under the same conditions.
LEMMA ProcStays ==
    ASSUME LogShape, Contracted, log' = log, FilesKept, NEW x, ProcOk(x)
    PROVE  ProcOk(x)'
<1>1. \A n : View(n)' = View(n) /\ Abreast(n)' = Abreast(n) /\ Frozen(n)' = Frozen(n)
  BY DEF View, Abreast, Current, Frozen, Latest, Carrying
<1>2. \A n, s : Evidence(n, s)' <=> Evidence(n, s)
  BY <1>1 DEF Evidence
<1>3. x.pc = "turns" => TurnOk(x)'
  BY <1>1, <1>2 DEF ProcOk, TurnOk
<1>4. x.pc = "append" => EventOk(x.cmd, x.n, x.e)'
  BY EventStays DEF ProcOk
<1> QED BY <1>1, <1>3, <1>4 DEF ProcOk

\* A process moves on, or ends; it takes operation.lock if nobody has it.
LEMMA Moves ==
    ASSUME RunInv, log' = log, FilesKept, Invalidations', NEW p \in Procs, NEW x,
           proc' = [proc EXCEPT ![p] = x], ProcOk(x)',
           x.cmd = "advance" => OperationFree \/ proc[p].cmd = "advance"
    PROVE  RunInv'
<1>1. LogShape' /\ Recorded'
  BY DEF RunInv, LogShape, Recorded, View
<1>2. Contracted'
  BY DEF RunInv, Contracted, FilesKept, View
<1>3. ProcsOk'
  <2>1. \A q \in Procs : ProcOk(proc[q])'
    BY ProcStays DEF RunInv, ProcsOk
  <2> QED BY <2>1 DEF RunInv, ProcsOk
<1>4. Alone'
  BY DEF RunInv, ProcsOk, Alone, OperationFree
<1>5. Completed'
  <2> SUFFICES ASSUME NEW i \in 1..Len(log), log[i].e.type = "goal_completed"
               PROVE  Evidenced(i, log[i].e)'
    BY DEF Completed
  <2>1. LogGrows
    BY DEF RunInv, LogShape, LogGrows
  <2>2. ASSUME NEW e, e = log[i].e PROVE Evidenced(i, e)'
    BY <2>1, <2>2, EvidenceStays DEF RunInv, Completed, Contracted, LogShape
  <2> QED BY <2>2 DEF Evidenced
<1> QED BY <1>1, <1>2, <1>3, <1>4, <1>5 DEF RunInv

\* A process that goes back to idle.
LEMMA Leaves ==
    ASSUME RunInv, NEW p \in Procs, proc' = [proc EXCEPT ![p] = Idle], UNCHANGED <<log, files>>
    PROVE  RunInv'
<1>1. ProcOk(Idle)'
  BY DEF ProcOk, Idle
<1> QED BY <1>1, Moves DEF FilesKept, Idle, RunInv, Invalidations

\* A process that may record what it did in the view n.
Leads(p, n) ==
  n \in 1..Len(log) /\ Abreast(n) /\ (OperationFree \/ proc[p].cmd = "advance")

\* A process that starts to advance from the end of the log, and one whose
\* turns are under way.
LEMMA StartLeads ==
    ASSUME RunInv, NEW p, CanAdvance(p), Current.phase \notin Waiting
    PROVE  Leads(p, Len(log))
  BY DEF RunInv, LogShape, Leads, Abreast, Current, CanAdvance

\* A process that runs turns has the end of the log in view, alone.
LEMMA TurnLeads ==
    ASSUME RunInv, NEW p \in Procs, proc[p].pc = "turns"
    PROVE  Leads(p, proc[p].n)
  BY DEF RunInv, ProcsOk, ProcOk, TurnOk, Leads

\* A process that has written its artifacts is about to append its event.
LEMMA AppendsNext ==
    ASSUME RunInv, log' = log, FilesKept, Invalidations', NEW p \in Procs, NEW cmd, cmd # "none",
           NEW n \in 1..Len(log), NEW e, ToAppend(p, cmd, n, e), EventOk(cmd, n, e)',
           cmd = "advance" => Leads(p, n)
    PROVE  RunInv'
<1> DEFINE x == [Idle EXCEPT !.pc = "append", !.cmd = cmd, !.n = n, !.e = e]
<1>1. /\ DOMAIN x = DOMAIN Idle /\ x.pc = "append" /\ x.cmd = cmd /\ x.n = n /\ x.e = e
      /\ proc' = [proc EXCEPT ![p] = x]
  BY DEF Idle, ToAppend
<1> HIDE DEF x
<1>2. Abreast(n)' <=> Abreast(n)
  BY DEF Abreast, Current, View
<1>3. ProcOk(x)'
  BY <1>1, <1>2 DEF ProcOk, Leads
<1> QED BY <1>1, <1>3, Moves DEF Leads

\* The events the controller records, completion apart.
LEMMA PlainEvent ==
    ASSUME NEW n, NEW type, type \notin Outside \cup {"goal_completed"}, NEW to, NEW arts,
           "codex" \notin DOMAIN arts, "verification" \notin DOMAIN arts, NEW turns, NEW key,
           NEW packet, NEW iter
    PROVE  /\ EventOk("advance", n, Event(n, type, to, arts, turns, key))
           /\ EventOk("advance", n, [Event(n, type, to, arts, turns, key) EXCEPT !.packet = packet])
           /\ EventOk("advance", n, [Event(n, type, to, arts, turns, key) EXCEPT !.iter = iter])
  BY DEF EventOk, Event, Named, Outside

\* A blocked phase records no receipt and completes nothing.
LEMMA BlockIsPlain ==
    ASSUME NEW n, NEW arts, "codex" \notin DOMAIN arts, "verification" \notin DOMAIN arts,
           NEW turns
    PROVE  EventOk("advance", n, BlockEvent(n, arts, turns))
  BY PlainEvent DEF BlockEvent, Outside

\* A command that fails in its turns records the block, or nothing.
LEMMA RaisesWell ==
    ASSUME RunInv, log' = log, NEW p \in Procs, NEW n, Leads(p, n), NEW turns,
           Raises(p, n, turns)
    PROVE  RunInv' /\ FilesKept
<1>1. FilesKept /\ Invalidations'
  BY DEF Raises, FilesKept, RunInv, Invalidations
<1>2. PICK e : e = BlockEvent(n, Nothing, turns)
  OBVIOUS
<1>3. EventOk("advance", n, e)'
  BY <1>1, <1>2, BlockIsPlain, EventStays DEF Leads, RunInv, Nothing
<1>4. ToAppend(p, "advance", n, e)
  BY <1>2 DEF Raises
<1>5. n \in 1..Len(log)
  BY DEF Leads
<1> QED BY <1>1, <1>3, <1>4, <1>5, AppendsNext

\* A phase that ends writes its artifacts and is about to append its event.
LEMMA EndsWell ==
    ASSUME RunInv, log' = log, NEW p \in Procs, NEW n, Leads(p, n), NEW writes,
           \A it, s : <<"invalidation", it, s>> \notin DOMAIN writes, NEW e,
           EventOk("advance", n, e), Ends(p, n, writes, e)
    PROVE  RunInv' /\ FilesKept
<1>1. CASE Conflict(writes)
  BY <1>1, RaisesWell DEF Ends, Raises
<1>2. CASE ~Conflict(writes)
  <2>1. files' = Over(writes, files) /\ ToAppend(p, "advance", n, e)
    BY <1>2 DEF Ends
  <2>2. FilesKept /\ Invalidations'
    BY <1>2, <2>1, WritesKeep DEF RunInv, Invalidations, FilesKept
  <2>3. n \in 1..Len(log)
    BY DEF Leads
  <2>4. EventOk("advance", n, e)'
    BY <2>2, <2>3, EventStays DEF RunInv
  <2> QED BY <2>1, <2>2, <2>3, <2>4, AppendsNext
<1> QED BY <1>1, <1>2

-----------------------------------------------------------------------------
(* The steps of an advancing process.                                      *)

Keeps == RunInv' /\ FilesKept

\* Between two turns of a batch only the process itself changes.
LEMMA TurnsGoOn ==
    ASSUME RunInv, UNCHANGED <<log, files>>, NEW p \in Procs, proc[p].pc = "turns", NEW x,
           proc' = [proc EXCEPT ![p] = x], DOMAIN x = DOMAIN Idle, x.pc = "turns",
           x.cmd = "advance", x.n = proc[p].n,
           View(x.n).phase = Final => x.names = proc[p].names
    PROVE  Keeps
<1>1. FilesKept /\ Invalidations'
  BY DEF FilesKept, RunInv, Invalidations
<1>2. ProcOk(proc[p]) /\ TurnOk(proc[p])
  BY DEF RunInv, ProcsOk, ProcOk
<1>3. ProcOk(x)
  BY <1>2 DEF ProcOk, TurnOk
<1>4. ProcOk(x)'
  BY <1>1, <1>3, ProcStays DEF RunInv
<1> QED BY <1>1, <1>2, <1>4, Moves DEF Keeps, TurnOk

\* One turn of a batch: submitted, answered, found pending or failed.
LEMMA TurnStep ==
    ASSUME RunInv, NEW p \in Procs, NEW name,
           TurnSubmit(p, name) \/ TurnAnswer(p, name) \/ TurnPending(p, name) \/ TurnFail(p, name)
    PROVE  Keeps
<1>1. /\ proc[p].pc = "turns" /\ UNCHANGED <<log, files>>
      /\ \E s : \/ proc' = [proc EXCEPT ![p] = [@ EXCEPT !.mine = s]]
                \/ proc' = [proc EXCEPT ![p] = [@ EXCEPT !.pending = s]]
                \/ proc' = [proc EXCEPT ![p] = [@ EXCEPT !.failed = s]]
  BY DEF TurnSubmit, TurnAnswer, TurnPending, TurnFail, Busy
<1>2. DOMAIN proc[p] = DOMAIN Idle /\ proc[p].cmd = "advance"
  BY <1>1 DEF RunInv, ProcsOk, ProcOk, TurnOk
<1>3. PICK x : /\ proc' = [proc EXCEPT ![p] = x]
               /\ DOMAIN x = DOMAIN Idle /\ x.pc = "turns" /\ x.cmd = "advance"
               /\ x.n = proc[p].n /\ x.names = proc[p].names
  <2>1. PICK s : \/ proc' = [proc EXCEPT ![p] = [@ EXCEPT !.mine = s]]
                 \/ proc' = [proc EXCEPT ![p] = [@ EXCEPT !.pending = s]]
                 \/ proc' = [proc EXCEPT ![p] = [@ EXCEPT !.failed = s]]
    BY <1>1
  <2> DEFINE a == [proc[p] EXCEPT !.mine = s]
             b == [proc[p] EXCEPT !.pending = s]
             c == [proc[p] EXCEPT !.failed = s]
  <2>2. proc' = [proc EXCEPT ![p] = a] \/ proc' = [proc EXCEPT ![p] = b]
          \/ proc' = [proc EXCEPT ![p] = c]
    BY <2>1
  <2>3. \A x \in {a, b, c} : /\ DOMAIN x = DOMAIN Idle /\ x.pc = "turns" /\ x.cmd = "advance"
                             /\ x.n = proc[p].n /\ x.names = proc[p].names
    BY <1>1, <1>2 DEF Idle
  <2> QED BY <2>2, <2>3
<1> QED BY <1>1, <1>3, TurnsGoOn

\* The first batch of a phase; before the final audit the evidence is there.
LEMMA Starts ==
    ASSUME RunInv, NEW p \in Procs, StartTurns(p)
    PROVE  Keeps
<1> DEFINE n == Len(log)
<1>1. /\ CanAdvance(p) /\ Current.phase \in TurnPhases /\ log' = log
      /\ \/ Raises(p, n, 0)
         \/ /\ RunTurns(p, n, FirstBatch(Current.phase), {}) /\ UNCHANGED files
            /\ repo = BoundTo(n) /\ (Current.phase = Final => Evidence(n, repo))
  BY DEF StartTurns, Final
<1>2. Leads(p, n)
  BY <1>1, StartLeads DEF TurnPhases, Waiting
<1>3. CASE Raises(p, n, 0)
  BY <1>1, <1>2, <1>3, RaisesWell DEF Keeps
<1>4. ASSUME RunTurns(p, n, FirstBatch(Current.phase), {}), UNCHANGED files,
             repo = BoundTo(n), Current.phase = Final => Evidence(n, repo)
      PROVE  Keeps
  <2>1. PICK x : /\ proc' = [proc EXCEPT ![p] = x] /\ DOMAIN x = DOMAIN Idle
                 /\ x.pc = "turns" /\ x.cmd = "advance" /\ x.n = n
                 /\ x.names = FirstBatch(Current.phase)
    <3> DEFINE y == [Idle EXCEPT !.pc = "turns", !.cmd = "advance", !.n = n,
                                 !.names = FirstBatch(Current.phase), !.first = {}]
    <3>1. /\ DOMAIN y = DOMAIN Idle /\ y.pc = "turns" /\ y.cmd = "advance" /\ y.n = n
          /\ y.names = FirstBatch(Current.phase) /\ proc' = [proc EXCEPT ![p] = y]
      BY <1>4 DEF RunTurns, Idle
    <3> HIDE DEF y
    <3> QED BY <3>1
  <2>2. Current = View(n)
    BY DEF Current
  <2>3. Current.phase = Final => x.names = {"final"} /\ Evidence(n, Frozen(n))
    BY <1>4, <2>1, <2>2 DEF FirstBatch, BoundTo, Final
  <2>4. ProcOk(x)
    BY <1>1, <1>2, <2>1, <2>2, <2>3 DEF ProcOk, TurnOk, Leads
  <2>5. FilesKept /\ Invalidations'
    BY <1>1, <1>4 DEF FilesKept, RunInv, Invalidations
  <2>6. ProcOk(x)'
    BY <1>1, <2>4, <2>5, ProcStays DEF RunInv
  <2> QED BY <1>1, <2>1, <2>5, <2>6, Moves DEF CanAdvance, Keeps
<1> QED BY <1>1, <1>3, <1>4

\* A name of an artifact that is not one of an invalidation.
LEMMA OtherArtifact ==
    ASSUME NEW kind, kind # "invalidation", NEW it, NEW value
    PROVE  \A i, s : <<"invalidation", i, s>> \notin DOMAIN Entry(<<kind, it>>, value)
  BY DEF Entry

\* The end of a phase whose event is neither a receipt nor completion.
LEMMA PhaseEnds ==
    ASSUME RunInv, log' = log, NEW p \in Procs, NEW n, Leads(p, n),
           NEW kind, kind # "invalidation", NEW it, NEW value, NEW e, EventOk("advance", n, e),
           NEW turns, Raises(p, n, turns) \/ Ends(p, n, Entry(<<kind, it>>, value), e)
    PROVE  Keeps
  BY RaisesWell, EndsWell, OtherArtifact DEF Keeps

\* The batch of turns is over, and nothing is recorded but what a phase that
\* goes on or fails records.
LEMMA BatchEnds ==
    ASSUME RunInv, NEW p \in Procs,
           BatchPending(p) \/ BatchFailed(p) \/ SpecialistTurns(p) \/ RefreshTurn(p)
    PROVE  Keeps
<1>1. proc[p].pc = "turns" /\ log' = log
  BY DEF BatchPending, BatchFailed, SpecialistTurns, RefreshTurn, BatchOk, Ended
<1>2. Leads(p, proc[p].n)
  BY <1>1, TurnLeads
<1>3. CASE BatchPending(p)
  BY <1>3, Leaves DEF BatchPending, Keeps, FilesKept
<1>4. CASE BatchFailed(p)
  BY <1>1, <1>2, <1>4, RaisesWell DEF BatchFailed, Keeps
<1>5. ASSUME NEW S, NEW first, RunTurns(p, proc[p].n, S, first), UNCHANGED files,
             View(proc[p].n).phase # Final
      PROVE  Keeps
  <2> DEFINE y == [Idle EXCEPT !.pc = "turns", !.cmd = "advance", !.n = proc[p].n,
                               !.names = S, !.first = first]
  <2>1. /\ DOMAIN y = DOMAIN Idle /\ y.pc = "turns" /\ y.cmd = "advance" /\ y.n = proc[p].n
        /\ proc' = [proc EXCEPT ![p] = y]
    BY <1>5 DEF RunTurns, Idle
  <2> HIDE DEF y
  <2>2. PICK x : x = y
    OBVIOUS
  <2> QED BY <1>1, <1>5, <2>1, <2>2, TurnsGoOn
<1>6. CASE SpecialistTurns(p)
  BY <1>1, <1>2, <1>5, <1>6, RaisesWell DEF SpecialistTurns, BatchOk, Final, Keeps
<1>7. CASE RefreshTurn(p)
  BY <1>1, <1>5, <1>7 DEF RefreshTurn, BatchOk, Final
<1> QED BY <1>3, <1>4, <1>6, <1>7

\* The phases that record what their turns reported.
LEMMA PhaseRecords ==
    ASSUME RunInv, NEW p \in Procs,
           Fidelity(p) \/ Grounding(p) \/ Challenge(p) \/ Synthesis(p) \/ PostAudit(p)
             \/ EpistemicRefresh(p)
    PROVE  Keeps
<1>1. proc[p].pc = "turns" /\ log' = log
  BY DEF Fidelity, Grounding, Challenge, Synthesis, PostAudit, EpistemicRefresh, BatchOk, Ended
<1>2. Leads(p, proc[p].n)
  BY <1>1, TurnLeads
<1> DEFINE n == proc[p].n
<1>3. CASE Fidelity(p)
  BY <1>1, <1>2, <1>3, PhaseEnds, PlainEvent DEF Fidelity, Outside
<1>4. CASE Grounding(p)
  <2>1. PICK merged, k :
          \/ Raises(p, n, k)
          \/ Ends(p, n, Entry(<<"grounding", View(n).num>>, merged),
                  Event(n, "grounding_recorded", "CLEAN_ROOM_GROUNDING", [grounding |-> merged],
                        k, <<View(n).ver, View(n).iter>>))
    BY <1>4 DEF Grounding
  <2>2. EventOk("advance", n, Event(n, "grounding_recorded", "CLEAN_ROOM_GROUNDING",
                                    [grounding |-> merged], k, <<View(n).ver, View(n).iter>>))
    BY PlainEvent DEF Outside
  <2> QED BY <1>1, <1>2, <2>1, <2>2, PhaseEnds
<1>5. CASE Challenge(p)
  BY <1>1, <1>2, <1>5, PhaseEnds, PlainEvent DEF Challenge, Outside
<1>6. CASE Synthesis(p)
  <2>1. PICK raw, e :
          /\ Raises(p, n, 1) \/ Ends(p, n, Entry(<<"synthesis", View(n).num>>, raw), e)
          /\ \/ e = BlockEvent(n, [synthesis |-> raw], 1)
             \/ e = [Event(n, "packet_issued", "PACKET_READY", [synthesis |-> raw], 1,
                           <<View(n).ver, View(n).iter>>) EXCEPT !.packet = View(n).iter]
    BY <1>6 DEF Synthesis
  <2>2. EventOk("advance", n, e)
    <3>1. EventOk("advance", n, BlockEvent(n, [synthesis |-> raw], 1))
      BY BlockIsPlain
    <3>2. EventOk("advance", n, [Event(n, "packet_issued", "PACKET_READY", [synthesis |-> raw], 1,
                                       <<View(n).ver, View(n).iter>>) EXCEPT !.packet = View(n).iter])
      BY PlainEvent DEF Outside
    <3> QED BY <2>1, <3>1, <3>2
  <2> QED BY <1>1, <1>2, <2>1, <2>2, PhaseEnds
<1>7. CASE PostAudit(p)
  <2>1. PICK audit :
          \/ Raises(p, n, 1)
          \/ Ends(p, n, Entry(<<"post-audit", View(n).num>>, audit),
                  Event(n, "post_change_audit_recorded", "ITERATION_CLOSED", [audit |-> audit], 1,
                        <<View(n).packet>>))
    BY <1>7 DEF PostAudit
  <2>2. EventOk("advance", n, Event(n, "post_change_audit_recorded", "ITERATION_CLOSED",
                                    [audit |-> audit], 1, <<View(n).packet>>))
    BY PlainEvent DEF Outside
  <2> QED BY <1>1, <1>2, <2>1, <2>2, PhaseEnds
<1>8. CASE EpistemicRefresh(p)
  BY <1>1, <1>2, <1>8, PhaseEnds, PlainEvent DEF EpistemicRefresh, Outside
<1> QED BY <1>3, <1>4, <1>5, <1>6, <1>7, <1>8

\* The phases and commands that run no turns.
LEMMA Decides ==
    ASSUME RunInv, NEW p \in Procs,
           Resume(p) \/ Hypotheses(p) \/ PacketReady(p) \/ RefreshDecision(p)
    PROVE  Keeps
<1>n. PICK n : n = Len(log)
  OBVIOUS
<1>1. /\ CanAdvance(p) /\ log' = log
      /\ Current.phase \in {Blocked, "CLEAN_ROOM_GROUNDING", "PACKET_READY", "EPISTEMIC_REFRESH"}
  BY DEF Resume, Hypotheses, PacketReady, RefreshDecision
<1>2. Leads(p, n)
  BY <1>n, <1>1, StartLeads DEF Waiting, Blocked
<1>3. CASE Resume(p)
  BY <1>n, <1>1, <1>2, <1>3, PlainEvent, EventStays, AppendsNext
    DEF Resume, Outside, Nothing, Leads, RunInv, FilesKept, Invalidations, Keeps
<1>4. CASE Hypotheses(p)
  <2>1. PICK P :
          \/ Raises(p, n, 0)
          \/ Ends(p, n, Entry(<<"hypotheses", View(n).num>>, P),
                  Event(n, "hypotheses_recorded", "HYPOTHESIS_SET_READY", [hypotheses |-> P], 0,
                        <<View(n).ver, View(n).iter>>))
    BY <1>n, <1>4 DEF Hypotheses
  <2>2. EventOk("advance", n, Event(n, "hypotheses_recorded", "HYPOTHESIS_SET_READY",
                                    [hypotheses |-> P], 0, <<View(n).ver, View(n).iter>>))
    BY PlainEvent DEF Outside
  <2> QED BY <1>1, <1>2, <2>1, <2>2, PhaseEnds
<1>5. CASE PacketReady(p)
  BY <1>n, <1>1, <1>2, <1>5, RaisesWell, EndsWell, PlainEvent DEF PacketReady, Outside, Nothing, Keeps
<1>6. CASE RefreshDecision(p)
  <2>1. \E it, next :
          \/ Raises(p, n, 0)
          \/ Ends(p, n, Entry(<<"frozen", it>>, repo),
                  Event(n, "final_audit_started", "FINAL_CLEAN_ROOM_AUDIT",
                        [frozen |-> [snap |-> repo]], 0, <<it>>))
          \/ Ends(p, n, Entry(<<"baseline", next>>, repo),
                  [Event(n, "next_iteration_started", "GOAL_FROZEN", Nothing, 0,
                         <<next, View(n).ver>>) EXCEPT !.iter = next])
    BY <1>n, <1>6 DEF RefreshDecision
  <2>2. \A it, next :
                /\ EventOk("advance", n, Event(n, "final_audit_started", "FINAL_CLEAN_ROOM_AUDIT",
                                               [frozen |-> [snap |-> repo]], 0, <<it>>))
                /\ EventOk("advance", n, [Event(n, "next_iteration_started", "GOAL_FROZEN",
                                                Nothing, 0, <<next, View(n).ver>>)
                                            EXCEPT !.iter = next])
    BY PlainEvent DEF Outside, Nothing
  <2> QED BY <1>1, <1>2, <2>1, <2>2, PhaseEnds
<1> QED BY <1>1, <1>3, <1>4, <1>5, <1>6

\* Completion is decided on what the final audit and the view say.
LEMMA FinalEnds ==
    ASSUME RunInv, NEW p \in Procs, FinalAudit(p)
    PROVE  Keeps
<1>n. PICK n : n = proc[p].n
  OBVIOUS
<1>1. /\ proc[p].pc = "turns" /\ log' = log /\ View(n).phase = Final
      /\ proc[p].pending = {} /\ Rejected(p) = {}
  BY <1>n DEF FinalAudit, BatchOk, Ended, Final
<1>2. Leads(p, n)
  BY <1>n, <1>1, TurnLeads
<1>3. PICK raw : raw = Answer(n, "final")
  OBVIOUS
<1>4. PICK report : report = [recommend |-> raw.recommend, acc |-> raw.acc, clauses |-> raw.clauses,
                              blockers |-> raw.blockers, snap |-> Frozen(n)]
  OBVIOUS
<1>5. PICK e : e = Event(n, "goal_completed", Terminal, [report |-> report], 1, <<View(n).ver>>)
  OBVIOUS
<1>6. \/ Raises(p, n, 1)
      \/ Ends(p, n, Entry(<<"report", View(n).iter>>, report),
              IF raw.recommend /\ CandidateOk(n) THEN e ELSE BlockEvent(n, [report |-> report], 1))
  BY <1>n, <1>3, <1>4, <1>5 DEF FinalAudit
<1>7. EventOk("advance", n, BlockEvent(n, [report |-> report], 1))
  BY BlockIsPlain
<1>8. ASSUME raw.recommend, CandidateOk(n) PROVE EventOk("advance", n, e)
  <2>1. e.type = "goal_completed" /\ e.ver = View(n).ver /\ e.arts.report = report /\ Named(e)
    BY <1>5 DEF Event, Named
  <2>2. ASSUME Len(log) = n PROVE Evidenced(n, e)
    <3>1. proc[p].names = {"final"} /\ Evidence(n, Frozen(n))
      BY <1>n, <1>1, <2>2 DEF RunInv, ProcsOk, ProcOk, TurnOk
    <3>2. /\ Receipt(n, "codex_implementation_recorded", "codex", e.ver, report.snap)
          /\ Receipt(n, "local_verification_recorded", "verification", e.ver, report.snap)
      <4>1. \A k \in 1..n : Named(log[k].e)
        BY <2>2 DEF RunInv, Recorded
      <4> QED BY <1>4, <2>1, <3>1, <4>1 DEF Evidence, Receipt, Named
    <3>3. ValidAnswer(n, "final", raw)
      BY <1>n, <1>1, <1>3, <3>1 DEF Rejected
    <3>4. ValidFinalAudit(Goal(View(n).ver), raw)
      BY <3>3, RunAssumption DEF ValidAnswer
    <3>5. GatesPass(Goal(View(n).ver), raw.acc, raw.clauses)
      BY <1>8, <3>4 DEF ValidFinalAudit
    <3>6. /\ GatesPass(Goal(View(n).ver), View(n).acc, View(n).clauses)
          /\ View(n).critical = {}
      BY <1>8 DEF CandidateOk
    <3> QED BY <1>4, <1>8, <2>1, <3>2, <3>5, <3>6 DEF Evidenced
  <2> QED BY <2>1, <2>2 DEF EventOk, Outside
<1>9. CASE raw.recommend /\ CandidateOk(n)
  BY <1>1, <1>2, <1>6, <1>8, <1>9, PhaseEnds
<1>10. CASE ~(raw.recommend /\ CandidateOk(n))
  BY <1>1, <1>2, <1>6, <1>7, <1>10, PhaseEnds
<1> QED BY <1>9, <1>10

-----------------------------------------------------------------------------
(* Commands that do not take operation.lock, and the environment.          *)

\* Nothing moves but the files.
LEMMA Rests ==
    ASSUME RunInv, UNCHANGED <<log, proc>>, FilesKept, Invalidations'
    PROVE  RunInv'
<1>1. LogShape' /\ Contracted' /\ Recorded' /\ Alone'
  BY DEF FilesKept, RunInv, LogShape, Contracted, Recorded, Alone, View
<1>2. ProcsOk'
  <2>1. ASSUME NEW p \in Procs PROVE ProcOk(proc[p])'
    <3>1. PICK x : x = proc[p]
      OBVIOUS
    <3>2. ProcOk(x)'
      BY <3>1, ProcStays DEF RunInv, ProcsOk
    <3> QED BY <3>1, <3>2
  <2> QED BY <2>1 DEF RunInv, ProcsOk
<1>3. Completed'
  <2>1. LogGrows
    BY DEF RunInv, LogShape, LogGrows
  <2>2. ASSUME NEW i \in 1..Len(log), log[i].e.type = "goal_completed", NEW e, e = log[i].e
        PROVE  Evidenced(i, e)'
    BY <2>1, <2>2, EvidenceStays DEF RunInv, Completed, Contracted, LogShape
  <2> QED BY <2>2 DEF Completed
<1> QED BY <1>1, <1>2, <1>3 DEF RunInv

\* An amendment writes the next contract and a new baseline.
LEMMA Amends ==
    ASSUME RunInv, NEW p \in Procs, NEW g, Amend(p, g)
    PROVE  Keeps
<1>n. PICK n : n = Len(log) /\ n \in 1..Len(log)
  BY DEF RunInv, LogShape
<1>1. PICK base : base = Entry(<<"baseline", View(n).num + 1>>, repo)
  OBVIOUS
<1>2. PICK goal : goal = Entry(<<"goal", g.version>>, g)
  OBVIOUS
<1>3. /\ ~Conflict(base) /\ log' = log
      /\ \/ files' = Over(base, files) /\ UNCHANGED proc
         \/ /\ ~Conflict(goal) /\ files' = Over(goal, Over(base, files))
            /\ ToAppend(p, "amend", n,
                 [Event(n, "goal_amended", "GOAL_FROZEN", Nothing, 0, <<g.version>>)
                    EXCEPT !.ver = g.version, !.iter = View(n).num + 1])
  BY <1>n, <1>1, <1>2 DEF Amend
<1>4. CASE files' = Over(base, files) /\ UNCHANGED proc
  <2>1. FilesKept
    BY <1>3, <1>4, WritesKeep
  <2>2. Invalidations'
    BY <1>1, <1>4 DEF RunInv, Invalidations, Over, Entry
  <2> QED BY <1>3, <1>4, <2>1, <2>2, Rests DEF Keeps
<1>5. ASSUME ~Conflict(goal), files' = Over(goal, Over(base, files)), NEW e,
             e = [Event(n, "goal_amended", "GOAL_FROZEN", Nothing, 0, <<g.version>>)
                    EXCEPT !.ver = g.version, !.iter = View(n).num + 1],
             ToAppend(p, "amend", n, e)
      PROVE  Keeps
  <2>1. FilesKept /\ <<"goal", g.version>> \in DOMAIN files'
    BY <1>2, <1>3, <1>5 DEF FilesKept, Conflict, Over, Entry
  <2>2. Invalidations'
    BY <1>1, <1>2, <1>5 DEF RunInv, Invalidations, Over, Entry
  <2>3. e.type = "goal_amended" /\ e.ver = g.version /\ Named(e)
    BY <1>5 DEF Event, Nothing, Named
  <2>4. EventOk("amend", n, e)'
    BY <2>1, <2>3 DEF EventOk, Outside
  <2> QED BY <1>n, <1>3, <1>5, <2>1, <2>2, <2>4, AppendsNext DEF Keeps
<1> QED BY <1>3, <1>4, <1>5

\* A receipt is written, and its event names it.
LEMMA Receives ==
    ASSUME RunInv, NEW p \in Procs, RecordCodex(p) \/ RecordVerification(p)
    PROVE  Keeps
<1>n. PICK n : n = Len(log) /\ n \in 1..Len(log)
  BY DEF RunInv, LogShape
<1>1. ASSUME NEW cmd, cmd \in {"codex", "verification"}, NEW e, e.type \in Outside \ {"goal_amended"},
             Named(e), NEW writes, files' = Over(writes, files), ~Conflict(writes),
             \A it, s : <<"invalidation", it, s>> \in DOMAIN writes =>
                          writes[<<"invalidation", it, s>>] = s,
             ToAppend(p, cmd, n, e), log' = log
      PROVE  Keeps
  <2>1. FilesKept /\ Invalidations'
    BY <1>1, WritesKeep DEF RunInv, Invalidations, FilesKept, Over
  <2>2. EventOk(cmd, n, e)'
    BY <1>1 DEF EventOk, Outside
  <2> QED BY <1>n, <1>1, <2>1, <2>2, AppendsNext DEF Keeps
<1>2. CASE RecordCodex(p)
  <2>1. PICK raw, it, attempt :
          /\ ~Conflict(Entry(<<"codex", it, attempt>>, raw))
          /\ files' = Over(Entry(<<"codex", it, attempt>>, raw), files)
          /\ ToAppend(p, "codex", n,
               Event(n, "codex_implementation_recorded", "WAITING_FOR_LOCAL_VERIFICATION",
                     [codex |-> raw], 0, <<View(n).packet, attempt>>))
          /\ log' = log
    BY <1>n, <1>2 DEF RecordCodex
  <2>2. PICK e : e = Event(n, "codex_implementation_recorded", "WAITING_FOR_LOCAL_VERIFICATION",
                           [codex |-> raw], 0, <<View(n).packet, attempt>>)
    OBVIOUS
  <2>3. e.type = "codex_implementation_recorded" /\ Named(e)
    BY <2>2 DEF Event, Named
  <2>4. PICK writes : writes = Entry(<<"codex", it, attempt>>, raw)
    OBVIOUS
  <2>5. \A i, s : <<"invalidation", i, s>> \notin DOMAIN writes
    BY <2>4 DEF Entry
  <2> QED BY <1>1, <2>1, <2>2, <2>3, <2>4, <2>5 DEF Outside
<1>3. CASE RecordVerification(p)
  <2>1. CASE repo # Resulting(n)
    <3>1. PICK it, e :
            /\ files' = Over(Entry(<<"invalidation", it, repo>>, repo), files)
            /\ ToAppend(p, "verification", n, e) /\ log' = log
            /\ e = Event(n, "implementation_receipt_invalidated", "WAITING_FOR_CODEX",
                         [invalidated |-> [was |-> Resulting(n), now |-> repo]], 0,
                         <<View(n).packet, repo>>)
      BY <1>n, <1>3, <2>1 DEF RecordVerification
    <3>2. e.type = "implementation_receipt_invalidated" /\ Named(e)
      BY <3>1 DEF Event, Named
    <3>3. PICK writes : writes = Entry(<<"invalidation", it, repo>>, repo)
      OBVIOUS
    <3>4. /\ ~Conflict(writes)
          /\ \A i, s : <<"invalidation", i, s>> \in DOMAIN writes =>
                         writes[<<"invalidation", i, s>>] = s
      BY <3>3 DEF RunInv, Invalidations, Conflict, Entry
    <3> QED BY <1>1, <3>1, <3>2, <3>3, <3>4 DEF Outside
  <2>2. CASE ~(repo # Resulting(n))
    <3>1. PICK it, receipt, e :
            /\ ~Conflict(Entry(<<"verification", it>>, receipt))
            /\ files' = Over(Entry(<<"verification", it>>, receipt), files)
            /\ ToAppend(p, "verification", n, e) /\ log' = log
            /\ e = Event(n, "local_verification_recorded", "POST_CHANGE_AUDIT",
                         [verification |-> receipt], 0, <<View(n).packet>>)
      BY <1>n, <1>3, <2>2 DEF RecordVerification
    <3>2. e.type = "local_verification_recorded" /\ Named(e)
      BY <3>1 DEF Event, Named
    <3>3. PICK writes : writes = Entry(<<"verification", it>>, receipt)
      OBVIOUS
    <3>4. \A i, s : <<"invalidation", i, s>> \notin DOMAIN writes
      BY <3>3 DEF Entry
    <3> QED BY <1>1, <3>1, <3>2, <3>3, <3>4 DEF Outside
  <2> QED BY <2>1, <2>2
<1> QED BY <1>2, <1>3

\* Crashes, edits of the repository and stuttering.
LEMMA EnvironmentKeeps ==
    ASSUME RunInv, (\E p \in Procs : Crash(p)) \/ (\E s \in Snaps : Edit(s)) \/ UNCHANGED vars
    PROVE  Keeps
<1>1. ASSUME NEW p \in Procs, Crash(p) PROVE Keeps
  BY <1>1, Leaves DEF Crash, Keeps, FilesKept
<1>2. ASSUME UNCHANGED <<log, files, proc>> PROVE Keeps
  BY <1>2, Rests DEF Keeps, FilesKept, RunInv, Invalidations
<1> QED BY <1>1, <1>2 DEF Edit, vars

-----------------------------------------------------------------------------
(* Appending.                                                              *)

\* What the guards of the reducer let pass.
LEMMA Admissible ==
    ASSUME NEW pr, pr.ver \in Nat, NEW e, NEW budget, Allowed(pr, e, budget)
    PROVE  /\ e.ver \in Nat /\ e.ver >= pr.ver
           /\ e.type = "goal_amended" => e.ver > pr.ver
           /\ e.type # "goal_amended" => e.ver = pr.ver
           /\ e.type \in Outside \ {"goal_amended"} => pr.phase \in Waiting
           /\ pr.phase # Terminal
<1>1. e.ver = IF e.type = "goal_amended" THEN pr.ver + 1 ELSE pr.ver
  BY DEF Allowed
<1>2. \/ e.type \in {"run_blocked", "goal_amended", "run_resumed"} /\ pr.phase # Terminal
      \/ <<e.type, pr.phase, e.to>> \in Transitions
  BY DEF Allowed, Terminal, Blocked
<1>3. <<e.type, pr.phase, e.to>> \in Transitions =>
        pr.phase # Terminal /\ (e.type \in Outside => pr.phase \in Waiting)
  BY DEF Transitions, Terminal, Outside, Waiting
<1> QED BY <1>1, <1>2, <1>3 DEF Outside

\* What the reducer does to the fields that completion looks at.
LEMMA Reducing ==
    ASSUME NEW pr, DOMAIN pr = DOMAIN Fresh, NEW e
    PROVE  /\ DOMAIN Reduce(pr, e) = DOMAIN Fresh /\ Reduce(pr, e).ver = e.ver
           /\ e.type = "goal_completed" =>
                /\ Reduce(pr, e).acc = pr.acc /\ Reduce(pr, e).clauses = pr.clauses
                /\ Reduce(pr, e).critical = pr.critical
<1> DEFINE q == [pr EXCEPT !.phase = e.to, !.ver = e.ver, !.iter = e.iter, !.num = Started(pr, e),
                        !.turns = @ + e.turns]
<1>1. /\ DOMAIN q = DOMAIN Fresh /\ q.ver = e.ver
      /\ q.acc = pr.acc /\ q.clauses = pr.clauses /\ q.critical = pr.critical
  BY DEF Fresh
<1>2. Reduce(pr, e) =
        CASE e.type = "next_iteration_started" -> [q EXCEPT !.packet = 0]
          [] e.type = "goal_amended" ->
               [q EXCEPT !.packet = 0, !.critical = {}, !.acc = Nothing, !.clauses = Nothing,
                         !.blockedFrom = ""]
          [] e.type = "packet_issued" -> [q EXCEPT !.packet = e.packet]
          [] e.type = "post_change_audit_recorded" ->
               [q EXCEPT !.acc = Over(e.arts.audit.acc, @), !.clauses = Over(e.arts.audit.clauses, @),
                         !.critical = e.arts.audit.critical]
          [] e.type = "epistemic_refresh_recorded" -> [q EXCEPT !.critical = e.arts.refresh.critical]
          [] e.type = "run_blocked" -> [q EXCEPT !.blockedFrom = pr.phase]
          [] e.type \in {"run_resumed", "goal_completed"} -> [q EXCEPT !.blockedFrom = ""]
          [] OTHER -> q
  BY DEF Reduce
<1> HIDE DEF q
<1>3. DOMAIN Reduce(pr, e) = DOMAIN Fresh
  BY <1>1, <1>2 DEF Fresh
<1>4. Reduce(pr, e).ver = e.ver
  BY <1>1, <1>2 DEF Fresh
<1>5. e.type = "goal_completed" =>
        /\ Reduce(pr, e).acc = pr.acc /\ Reduce(pr, e).clauses = pr.clauses
        /\ Reduce(pr, e).critical = pr.critical
  BY <1>1, <1>2 DEF Fresh
<1> QED BY <1>3, <1>4, <1>5

\* The event of process p is valid and new: the log has one more entry.
LEMMA Accepted ==
    ASSUME RunInv, NEW p \in Procs, proc[p].pc = "append", CanAppend(proc[p].e),
           log' = Append(log, [e |-> proc[p].e, after |-> Reduce(Current, proc[p].e)]),
           proc' = [proc EXCEPT ![p] = Idle], UNCHANGED files
    PROVE  Keeps /\ LogGrows
<1>1. PICK e, n, cmd : e = proc[p].e /\ n = proc[p].n /\ cmd = proc[p].cmd
  OBVIOUS
<1>2. PICK l : l = Len(log) /\ l \in Nat \ {0} /\ l \in 1..Len(log) /\ Current = View(l)
  BY DEF RunInv, LogShape, Current
<1>3. EventOk(cmd, n, e) /\ n \in 1..Len(log) /\ (cmd = "advance" => Abreast(n))
  BY <1>1 DEF RunInv, ProcsOk, ProcOk
<1>4. PICK r : r = [e |-> e, after |-> Reduce(View(l), e)]
  OBVIOUS
<1>5. r.e = e /\ r.after = Reduce(View(l), e)
  BY <1>4
<1>6. /\ Len(log') = l + 1 /\ log'[l + 1] = r /\ (\E S : log' \in Seq(S))
      /\ \A i \in 1..Len(log) : log'[i] = log[i]
  <2>1. log' = Append(log, r)
    BY <1>1, <1>2, <1>4
  <2>2. PICK S : log \in Seq(S)
    BY DEF RunInv, LogShape
  <2>3. /\ Len(Append(log, r)) = Len(log) + 1 /\ Append(log, r)[Len(log) + 1] = r
        /\ \A i \in 1..Len(log) : Append(log, r)[i] = log[i]
        /\ Append(log, r) \in Seq(S \cup {r})
    BY ONLY <2>2, Appending
  <2> QED BY <1>2, <2>1, <2>3
<1>7. LogGrows /\ FilesKept
  BY <1>2, <1>6 DEF LogGrows, FilesKept
<1>8. DOMAIN View(l) = DOMAIN Fresh /\ View(l).ver \in Nat
  BY <1>2 DEF RunInv, LogShape
<1>9. /\ e.ver \in Nat /\ e.ver >= View(l).ver
      /\ e.type = "goal_amended" => e.ver > View(l).ver
      /\ e.type # "goal_amended" => e.ver = View(l).ver
      /\ e.type \in Outside \ {"goal_amended"} => View(l).phase \in Waiting
  BY <1>1, <1>2, <1>8, Admissible DEF CanAppend
<1>10. /\ DOMAIN r.after = DOMAIN Fresh /\ r.after.ver = e.ver
       /\ e.type = "goal_completed" => /\ r.after.acc = View(l).acc
                                       /\ r.after.clauses = View(l).clauses
                                       /\ r.after.critical = View(l).critical
  <2>1. PICK pr : pr = View(l)
    OBVIOUS
  <2>2. DOMAIN pr = DOMAIN Fresh /\ r.after = Reduce(pr, e)
    BY <1>5, <1>8, <2>1
  <2>3. /\ DOMAIN Reduce(pr, e) = DOMAIN Fresh /\ Reduce(pr, e).ver = e.ver
        /\ e.type = "goal_completed" =>
             /\ Reduce(pr, e).acc = pr.acc /\ Reduce(pr, e).clauses = pr.clauses
             /\ Reduce(pr, e).critical = pr.critical
    BY ONLY <2>2, Reducing
  <2> QED BY <2>1, <2>2, <2>3
<1>11. /\ View(l + 1)' = r.after /\ Current' = r.after
       /\ \A i \in 1..Len(log) : View(i)' = View(i)
  BY <1>2, <1>6 DEF View, Current
<1>12. \A i \in 1..Len(log') : i \in 1..Len(log) \/ i = l + 1
  BY <1>2, <1>6
<1>13. LogShape'
  BY <1>2, <1>5, <1>6, <1>9, <1>10, <1>11, <1>12 DEF RunInv, LogShape
<1>14. Contracted'
  <2>1. <<"goal", e.ver>> \in DOMAIN files
    BY <1>2, <1>3, <1>9 DEF EventOk, RunInv, Contracted
  <2> QED BY <1>10, <1>11, <1>12, <2>1 DEF RunInv, Contracted
<1>15. Recorded'
  BY <1>3, <1>5, <1>6, <1>12 DEF RunInv, Recorded, EventOk, Named
<1>16. ProcsOk'
  <2>1. ASSUME NEW q \in Procs, q # p, NEW x, x = proc[q] PROVE ProcOk(x)'
    <3>1. ProcOk(x)
      BY <2>1 DEF RunInv, ProcsOk
    <3>2. x.pc # "idle" => /\ x.n \in 1..Len(log) /\ x.n \in 1..Len(log') /\ x.n # Len(log')
                           /\ View(x.n)' = View(x.n)
      BY <1>2, <1>6, <1>11, <3>1 DEF ProcOk
    <3>3. ASSUME x.cmd = "advance" PROVE Abreast(x.n)'
      <4>1. e.type \in Outside
        BY <1>1, <1>3, <2>1, <3>3 DEF RunInv, Alone, EventOk
      <4>2. x.pc # "idle" /\ Abreast(x.n)
        BY <3>1, <3>3 DEF ProcOk
      <4>3. Current'.ver > View(x.n).ver
        <5>1. View(x.n).ver \in Nat
          BY <3>2, <4>2 DEF RunInv, LogShape
        <5>2. CASE Len(log) = x.n
          BY <1>2, <1>9, <1>10, <1>11, <4>1, <4>2, <5>1, <5>2 DEF Abreast
        <5>3. CASE Current.ver > View(x.n).ver
          BY <1>2, <1>8, <1>9, <1>10, <1>11, <5>1, <5>3
        <5> QED BY <4>2, <5>2, <5>3 DEF Abreast
      <4> QED BY <3>2, <4>2, <4>3 DEF Abreast
    <3>4. x.pc = "turns" => TurnOk(x)'
      BY <3>1, <3>2 DEF ProcOk, TurnOk
    <3>5. x.pc = "append" => EventOk(x.cmd, x.n, x.e)'
      BY <1>7, <3>1, <3>2 DEF ProcOk, EventOk, FilesKept
    <3> QED BY <3>1, <3>2, <3>3, <3>4, <3>5 DEF ProcOk
  <2>2. ProcOk(Idle)'
    BY DEF ProcOk, Idle
  <2>3. ASSUME NEW q \in Procs PROVE ProcOk(proc[q])'
    <3>1. CASE q = p
      BY <2>2, <3>1 DEF RunInv, ProcsOk
    <3>2. CASE q # p
      <4>1. PICK x : x = proc[q]
        OBVIOUS
      <4>2. ProcOk(x)' /\ proc'[q] = x
        BY <2>1, <3>2, <4>1 DEF RunInv, ProcsOk
      <4> QED BY <4>2
    <3> QED BY <3>1, <3>2
  <2> QED BY <2>3 DEF RunInv, ProcsOk
<1>17. Invalidations' /\ Alone'
  BY DEF RunInv, Invalidations, Alone, ProcsOk, Idle
<1>18. Completed'
  <2>1. ASSUME NEW i \in 1..Len(log), log[i].e.type = "goal_completed", NEW d, d = log[i].e
        PROVE  Evidenced(i, d)'
    BY <1>7, <2>1, EvidenceStays DEF RunInv, Completed, Contracted, LogShape
  <2>2. ASSUME e.type = "goal_completed" PROVE Evidenced(l + 1, e)'
    <3>1. cmd = "advance" /\ e.ver = View(n).ver /\ e.ver = View(l).ver
      BY <1>3, <1>9, <2>2 DEF EventOk, Outside
    <3>2. Len(log) = n
      BY <1>2, <1>3, <1>8, <3>1 DEF Abreast
    <3>3. Evidenced(l, e)
      BY <1>2, <1>3, <2>2, <3>2 DEF EventOk
    <3>4. \A type, kind, ver, s : Receipt(l, type, kind, ver, s) => Receipt(l + 1, type, kind, ver, s)'
      BY <1>2, <1>6 DEF Receipt
    <3> QED BY <1>10, <1>11, <2>2, <3>3, <3>4 DEF Evidenced, Goal
  <2>3. ASSUME NEW i \in 1..Len(log'), NEW d, d = log'[i].e, d.type = "goal_completed"
        PROVE  Evidenced(i, d)'
    <3>1. CASE i \in 1..Len(log)
      BY <1>6, <2>1, <2>3, <3>1
    <3>2. CASE i = l + 1
      BY <1>5, <1>6, <2>2, <2>3, <3>2
    <3> QED BY <1>12, <3>1, <3>2
  <2> QED BY <2>3 DEF Completed
<1> QED BY <1>7, <1>13, <1>14, <1>15, <1>16, <1>17, <1>18 DEF Keeps, RunInv

\* The event is refused: the command ends, or blocks the run.
LEMMA Refused ==
    ASSUME RunInv, NEW p \in Procs, proc[p].pc = "append", ~CanAppend(proc[p].e), AppendEvent(p)
    PROVE  Keeps /\ log' = log
<1>1. /\ UNCHANGED <<log, files>>
      /\ \/ proc' = [proc EXCEPT ![p] = Idle]
         \/ /\ proc[p].cmd = "advance"
            /\ proc' = [proc EXCEPT ![p] = [@ EXCEPT !.e = BlockEvent(proc[p].n, Nothing, 0)]]
  BY DEF AppendEvent
<1>2. FilesKept /\ Invalidations'
  BY <1>1 DEF FilesKept, RunInv, Invalidations
<1>3. CASE proc' = [proc EXCEPT ![p] = Idle]
  BY <1>1, <1>2, <1>3, Leaves DEF Keeps
<1>4. ASSUME proc[p].cmd = "advance",
             proc' = [proc EXCEPT ![p] = [@ EXCEPT !.e = BlockEvent(proc[p].n, Nothing, 0)]]
      PROVE  Keeps
  <2>1. ProcOk(proc[p])
    BY DEF RunInv, ProcsOk
  <2>2. PICK x : x = [proc[p] EXCEPT !.e = BlockEvent(proc[p].n, Nothing, 0)]
    OBVIOUS
  <2>3. /\ DOMAIN x = DOMAIN Idle /\ x.pc = "append" /\ x.cmd = "advance" /\ x.n = proc[p].n
        /\ x.e = BlockEvent(proc[p].n, Nothing, 0) /\ proc' = [proc EXCEPT ![p] = x]
    BY <1>4, <2>1, <2>2 DEF ProcOk, Idle
  <2>4. EventOk("advance", x.n, x.e)
    BY <2>3, BlockIsPlain DEF Nothing
  <2>5. ProcOk(x)
    BY <2>1, <2>3, <2>4, <1>4 DEF ProcOk
  <2>6. ProcOk(x)'
    BY <1>1, <1>2, <2>5, ProcStays DEF RunInv
  <2> QED BY <1>1, <1>2, <1>4, <2>3, <2>6, Moves DEF Keeps
<1> QED BY <1>1, <1>3, <1>4

-----------------------------------------------------------------------------
(* The theorems.                                                           *)

\* A run that was just initialized.
LEMMA InitInv == Init => RunInv
<1> SUFFICES ASSUME Init PROVE RunInv
  OBVIOUS
<1>1. PICK r : /\ log = <<r>> /\ r.after = Fresh /\ r.e.type = "run_initialized"
               /\ r.e.ver = 1 /\ r.e.arts = Nothing
  BY DEF Init
<1>2. Len(log) = 1 /\ log[1] = r /\ log \in Seq({r})
  BY <1>1
<1>v. /\ \A i \in 1..Len(log) : i = 1 /\ View(i) = Fresh /\ log[i] = r
      /\ Fresh.ver = 1
  <2>1. \A i \in 1..Len(log) : i = 1
    BY <1>2
  <2> QED BY <1>1, <1>2, <2>1 DEF View, Fresh
<1>3. LogShape
  <2>1. Len(log) \in Nat \ {0} /\ \E S : log \in Seq(S)
    BY <1>2
  <2> QED BY <1>1, <1>v, <2>1 DEF LogShape
<1>4. Contracted /\ Invalidations
  <2>1. PICK g : files = Over(Entry(<<"goal", 1>>, g), Entry(<<"baseline", 1>>, repo))
    BY DEF Init
  <2>2. DOMAIN files = {<<"goal", 1>>, <<"baseline", 1>>}
    BY <2>1 DEF Over, Entry
  <2> QED BY <1>v, <2>2 DEF Contracted, Invalidations
<1>5. Recorded /\ Completed
  BY <1>1, <1>2 DEF Recorded, Completed, Named, Nothing
<1>6. ProcOk(Idle)
  BY DEF ProcOk, Idle
<1>7. ProcsOk /\ Alone
  BY <1>6 DEF Init, ProcsOk, Alone, Idle
<1> QED BY <1>3, <1>4, <1>5, <1>7 DEF RunInv

\* Every step of advance but the append.
LEMMA AdvanceKeeps ==
    ASSUME RunInv, NEW p \in Procs, Advance(p)
    PROVE  Keeps /\ log' = log
<1>1. CASE StartTurns(p)
  BY <1>1, Starts DEF StartTurns
<1>2. CASE Resume(p) \/ Hypotheses(p) \/ PacketReady(p) \/ RefreshDecision(p)
  BY <1>2, Decides DEF Resume, Hypotheses, PacketReady, RefreshDecision
<1>3. ASSUME NEW name, TurnSubmit(p, name) \/ TurnAnswer(p, name) \/ TurnPending(p, name)
                         \/ TurnFail(p, name)
      PROVE  Keeps /\ log' = log
  BY <1>3, TurnStep DEF TurnSubmit, TurnAnswer, TurnPending, TurnFail
<1>4. CASE BatchPending(p) \/ BatchFailed(p) \/ SpecialistTurns(p) \/ RefreshTurn(p)
  BY <1>4, BatchEnds DEF BatchPending, BatchFailed, SpecialistTurns, RefreshTurn
<1>5. CASE Fidelity(p) \/ Grounding(p) \/ Challenge(p) \/ Synthesis(p) \/ PostAudit(p)
             \/ EpistemicRefresh(p)
  BY <1>5, PhaseRecords
    DEF Fidelity, Grounding, Challenge, Synthesis, PostAudit, EpistemicRefresh
<1>6. CASE FinalAudit(p)
  BY <1>6, FinalEnds DEF FinalAudit
<1> QED BY <1>1, <1>2, <1>3, <1>4, <1>5, <1>6 DEF Advance

\* Every step keeps the invariant and the artifacts; the log grows at most, and
\* not beyond completion.
LEMMA StepKeeps ==
    ASSUME RunInv, [Next]_vars
    PROVE  Keeps /\ (log' = log \/ (LogGrows /\ Current.phase # Terminal))
<1>1. ASSUME NEW p \in Procs, Advance(p) PROVE Keeps /\ log' = log
  BY <1>1, AdvanceKeeps
<1>2. ASSUME NEW p \in Procs, AppendEvent(p)
      PROVE  Keeps /\ (log' = log \/ (LogGrows /\ Current.phase # Terminal))
  <2>1. proc[p].pc = "append"
    BY <1>2 DEF AppendEvent
  <2>2. CASE CanAppend(proc[p].e)
    <3>1. Keeps /\ LogGrows
      BY <1>2, <2>1, <2>2, Accepted DEF AppendEvent
    <3>2. Current.ver \in Nat
      BY DEF RunInv, LogShape, Current
    <3> QED BY <2>2, <3>1, <3>2, Admissible DEF CanAppend
  <2>3. CASE ~CanAppend(proc[p].e)
    BY <1>2, <2>1, <2>3, Refused
  <2> QED BY <2>2, <2>3
<1>3. ASSUME NEW p \in Procs, RecordCodex(p) \/ RecordVerification(p) PROVE Keeps /\ log' = log
  BY <1>3, Receives DEF RecordCodex, RecordVerification
<1>4. ASSUME NEW p \in Procs, NEW g \in Contracts, Amend(p, g) PROVE Keeps /\ log' = log
  BY <1>4, Amends DEF Amend
<1>5. CASE (\E p \in Procs : Crash(p)) \/ (\E s \in Snaps : Edit(s)) \/ UNCHANGED vars
  BY <1>5, EnvironmentKeeps DEF Crash, Edit, vars
<1> QED BY <1>1, <1>2, <1>3, <1>4, <1>5 DEF Next

\* The log and the artifacts are append-only, whatever commands race, retry or
\* crash, and nothing is recorded after completion.
THEOREM RecordsArePermanent == Spec => AppendOnly
<1>1. RunInv /\ [Next]_vars => RunInv'
  BY StepKeeps DEF Keeps
<1>2. ASSUME RunInv, [Next]_vars
      PROVE  /\ Len(log') >= Len(log) /\ SubSeq(log', 1, Len(log)) = log
             /\ \A f \in DOMAIN files : f \in DOMAIN files' /\ files'[f] = files[f]
             /\ Current.phase = Terminal => log' = log
  <2>1. Keeps /\ (log' = log \/ (LogGrows /\ Current.phase # Terminal))
    BY <1>2, StepKeeps
  <2>2. Len(log) \in Nat
    BY <1>2 DEF RunInv, LogShape
  <2>3. Len(log') >= Len(log) /\ \A i \in 1..Len(log) : log'[i] = log[i]
    BY <2>1, <2>2 DEF LogGrows
  <2>4. PICK S : log \in Seq(S)
    BY <1>2 DEF RunInv, LogShape
  <2>5. PICK T : log' \in Seq(T)
    BY <2>1 DEF Keeps, RunInv, LogShape
  <2>6. SubSeq(log', 1, Len(log)) = log
    BY ONLY <2>3, <2>4, <2>5, Prefix
  <2> QED BY <2>1, <2>3, <2>6 DEF Keeps, FilesKept
<1> QED BY <1>1, <1>2, InitInv, PTL DEF Spec, AppendOnly

\* A run completes only on evidence of its active goal version, for any
\* commands, edits, crashes, amendments and iterations.
THEOREM CompletionIsEvidenced == Spec => []CompletedOnEvidence
<1>1. RunInv /\ [Next]_vars => RunInv'
  BY StepKeeps DEF Keeps
<1>2. ASSUME RunInv PROVE CompletedOnEvidence
  BY <1>2 DEF RunInv, Completed, Evidenced, Receipt, CompletedOnEvidence
<1> QED BY <1>1, <1>2, InitInv, PTL DEF Spec

-----------------------------------------------------------------------------
(* Numbers.                                                                *)

\* The order of the natural numbers is well-founded.
LEMMA Descending ==
    \E R : IsWellFoundedOn(R, Nat) /\ \A x, y \in Nat : x < y => <<x, y>> \in R
<1>1. IsWellFoundedOn(OpToRel(<, Nat), Nat)
  BY NatLessThanWellFounded
<1>2. \A x, y \in Nat : x < y => <<x, y>> \in OpToRel(<, Nat)
  BY DEF OpToRel
<1> QED BY <1>1, <1>2

\* A set of natural numbers has a least one.
LEMMA Least ==
    ASSUME NEW S, S \subseteq Nat, S # {}
    PROVE  \E x \in S : \A y \in S : x <= y
<1>1. PICK R : IsWellFoundedOn(R, Nat) /\ \A x, y \in Nat : x < y => <<x, y>> \in R
  BY Descending
<1>2. \E x \in S : \A y \in S : <<y, x>> \notin R
  BY <1>1, WFMin, Zenon
<1>3. PICK x \in S : \A y \in S : <<y, x>> \notin R
  BY <1>2
<1>4. ASSUME NEW y \in S PROVE x <= y
  <2>1. x \in Nat /\ y \in Nat
    OBVIOUS
  <2>2. y < x => <<y, x>> \in R
    BY <1>1, <2>1
  <2> QED BY <1>3, <2>1, <2>2
<1> QED BY <1>3, <1>4

\* The latest of some events is one of them.
LEMMA Latests ==
    ASSUME NEW n \in Nat, NEW S, S \subseteq 1..n, S # {}
    PROVE  Max(S) \in S /\ \A y \in S : y <= Max(S)
<1> DEFINE U == {k \in Nat : \A y \in S : y <= k}
<1>1. n \in U
  OBVIOUS
<1>2. PICK k \in U : \A j \in U : k <= j
  BY <1>1, Least
<1>3. k \in S
  <2> SUFFICES ASSUME k \notin S PROVE FALSE
    OBVIOUS
  <2>1. \A y \in S : y < k /\ y \in Nat /\ y >= 1
    BY <1>2
  <2>2. k \in Nat /\ k >= 1
    <3>1. k \in Nat
      BY <1>2
    <3>2. PICK y \in S : TRUE
      OBVIOUS
    <3> QED BY <2>1, <3>1, <3>2
  <2>3. \A y \in S : y <= k - 1
    BY <2>1, <2>2
  <2>4. k - 1 \in U
    BY <2>2, <2>3
  <2> QED BY <1>2, <2>2, <2>4
<1>4. \A y \in S : k >= y
  BY <1>2
<1>5. Max(S) \in S /\ \A y \in S : Max(S) >= y
  BY <1>3, <1>4 DEF Max
<1>6. \A y \in S : y \in Nat
  OBVIOUS
<1> QED BY <1>5, <1>6

-----------------------------------------------------------------------------
(***************************************************************************)
(* Budgets, iterations and hypotheses: what an event that is about to be   *)
(* appended brings with it, and what the log tells of those before it.     *)
(***************************************************************************)
Openings == {"next_iteration_started", "goal_amended"}

\* The phase a run is in, or that it will resume.
Stage(v) == IF v.phase = Blocked THEN v.blockedFrom ELSE v.phase

\* The places of the phases in an iteration.
Place(phase) ==
  CASE phase = "GOAL_FROZEN" -> 1
    [] phase = "GOAL_FIDELITY_CHECK" -> 2
    [] phase = "CLEAN_ROOM_GROUNDING" -> 3
    [] phase = "HYPOTHESIS_SET_READY" -> 4
    [] phase = "CHALLENGE" -> 5
    [] phase = "PACKET_READY" -> 6
    [] phase \in Waiting -> 7
    [] phase = "POST_CHANGE_AUDIT" -> 8
    [] phase = "ITERATION_CLOSED" -> 9
    [] phase = "EPISTEMIC_REFRESH" -> 10
    [] phase = Final -> 11
    [] OTHER -> 12

\* The turns a phase may run.
TurnsOf(phase) ==
  CASE phase = "GOAL_FROZEN" -> {"fidelity"}
    [] phase = "GOAL_FIDELITY_CHECK" -> Roles \cup Specialists
    [] phase = "HYPOTHESIS_SET_READY" -> {"challenge"}
    [] phase = "CHALLENGE" -> {"synthesis"}
    [] phase = "POST_CHANGE_AUDIT" -> {"auditor"}
    [] phase = "ITERATION_CLOSED" -> {"post-fidelity", "refresh"}
    [] phase = Final -> {"final"}
    [] OTHER -> {}

\* The turns an event charges at most, and those due when a phase is reached
\* for the first time, in the first iteration.
Cost(type) ==
  CASE type \in {"goal_fidelity_recorded", "challenge_recorded", "packet_issued",
                 "post_change_audit_recorded", "goal_completed"} -> 1
    [] type = "grounding_recorded" -> 4 + Goal(1).specialists
    [] type = "epistemic_refresh_recorded" -> 2
    [] OTHER -> 0
Due(phase) ==
  CASE phase = "GOAL_FROZEN" -> 0
    [] phase = "GOAL_FIDELITY_CHECK" -> 1
    [] phase \in {"CLEAN_ROOM_GROUNDING", "HYPOTHESIS_SET_READY"} -> 5 + Goal(1).specialists
    [] phase = "CHALLENGE" -> 6 + Goal(1).specialists
    [] phase \in {"PACKET_READY", "POST_CHANGE_AUDIT"} \cup Waiting -> 7 + Goal(1).specialists
    [] phase = "ITERATION_CLOSED" -> 8 + Goal(1).specialists
    [] phase \in {"EPISTEMIC_REFRESH", Final} -> 10 + Goal(1).specialists
    [] OTHER -> 11 + Goal(1).specialists

\* An event that neither blocks the run nor leaves its first iteration.
Smooth(e) == e.iter = 1 /\ e.type # "run_blocked"

\* So many turns may be charged: they are among those of the phase in view, and
\* each was submitted in its checkpoint.
Paid(n, turns) ==
  \E T \in SUBSET TurnsOf(View(n).phase) :
    /\ IsFiniteSet(T) /\ turns = Cardinality(T)
    /\ \A name \in T : Key(n, name) \in DOMAIN ckpt

\* The iteration an event names is that of its view, or the one it opens; only an
\* amendment names another goal version.
Dated(n, e) ==
  /\ e.type # "goal_amended" => e.ver = View(n).ver
  /\ e.iter = IF e.type \in Openings THEN View(n).num + 1 ELSE View(n).iter

\* Hypotheses and refreshes come with the events of that name, once per
\* iteration: the key of a second one would be taken.
Labelled(e) ==
  /\ "hypotheses" \in DOMAIN e.arts => e.type = "hypotheses_recorded"
  /\ "refresh" \in DOMAIN e.arts => e.type = "epistemic_refresh_recorded"
  /\ e.type = "hypotheses_recorded" =>
       "hypotheses" \in DOMAIN e.arts /\ e.key = <<"hypotheses_recorded">> \o <<e.ver, e.iter>>
  /\ e.type = "epistemic_refresh_recorded" =>
       "refresh" \in DOMAIN e.arts /\ e.key = <<"epistemic_refresh_recorded">> \o <<e.iter>>

\* What is known of an event that a command is about to append.
Fits(n, e) ==
  /\ Paid(n, e.turns) /\ Dated(n, e) /\ Labelled(e)
  /\ e.type # "run_blocked" => e.turns <= Cost(e.type)
  /\ e.type = "goal_fidelity_recorded" => Baselined(n)
  /\ e.type = "hypotheses_recorded" => ValidPortfolio(e.arts.hypotheses, Retired(n))

\* The turns of an advancing process: the first batch of the phase, or the one
\* that follows it, and what they have submitted so far.
Batch(x) ==
  /\ Baselined(x.n)
  /\ \/ x.first = {} /\ x.names = FirstBatch(View(x.n).phase)
     \/ /\ View(x.n).phase = "GOAL_FIDELITY_CHECK"
        /\ x.first = Roles /\ x.names \subseteq Specialists
        /\ Cardinality(x.names) <= Goal(1).specialists
     \/ /\ View(x.n).phase = "ITERATION_CLOSED"
        /\ x.first = {"post-fidelity"} /\ x.names = {"refresh"}
  /\ \A name \in x.first \cup x.mine : Key(x.n, name) \in DOMAIN ckpt

\* The contracts on disk.
ContractsOk ==
  /\ <<"goal", 1>> \in DOMAIN files
  /\ \A v : <<"goal", v>> \in DOMAIN files =>
       /\ Goal(v) \in Contracts /\ ValidContract(Goal(v))
       /\ Goal(v).specialists = Goal(1).specialists

\* What an entry of the log tells.
EntryOk(i) ==
  LET e == log[i].e  v == View(i) IN
  /\ v.phase \in Phases /\ v.blockedFrom \in Phases \cup {""}
  /\ v.turns \in Nat /\ v.turns <= Goal(1).turns
  /\ v.num \in Nat /\ v.num <= Goal(1).iterations
  /\ v.iter \in 1..v.num /\ v.iter = e.iter
  /\ <<"baseline", v.iter>> \in DOMAIN files
  /\ Stage(v) # "GOAL_FROZEN" => v.iter = v.num
  /\ (\A j \in 1..i : Smooth(log[j].e)) => v.phase # Blocked /\ v.turns <= Due(v.phase)
  /\ Labelled(e)
  /\ e.type \in Openings => e.iter >= 2
  /\ e.type \in {"hypotheses_recorded", "epistemic_refresh_recorded"} => v.iter = v.num
  /\ e.type = "hypotheses_recorded" =>
       /\ i > 1 /\ View(i - 1).ver = e.ver /\ View(i - 1).iter = e.iter
       /\ ValidPortfolio(e.arts.hypotheses, Retired(i - 1))

\* Iterations are counted up, and no key is used twice.
Ordered ==
  \A i, j \in 1..Len(log) :
    /\ i <= j => View(i).num <= View(j).num
    /\ i # j => log[i].e.key # log[j].e.key

\* Checkpoints that the run will not visit again: of an earlier iteration, of an
\* earlier phase or of an earlier attempt; those of a blocked phase are among
\* them, as its resumption is another attempt.
Left(n, k) ==
  \E q \in TurnPhases : \E name \in TurnsOf(q), it \in Nat, a \in Nat :
    /\ k = <<name, it, a>>
    /\ \/ it < View(n).num
       \/ /\ it = View(n).num
          /\ \/ Place(q) < Place(Stage(View(n)))
             \/ /\ q = Stage(View(n))
                /\ a < Attempt(n, q, View(n).iter) + (IF View(n).phase = Blocked THEN 1 ELSE 0)
Behind(n) == {k \in DOMAIN ckpt : Left(n, k)}

\* Every charged turn has a checkpoint behind the run.
Ledger == IsFiniteSet(DOMAIN ckpt) /\ Current.turns <= Cardinality(Behind(Len(log)))

Sundries ==
  /\ repo \in Snaps
  /\ \A k \in DOMAIN ckpt : /\ DOMAIN ckpt[k] = {"st", "ans"}
                            /\ ckpt[k].st \in {"submitted", "ok", "done"}

\* The events of processes, and the batches they run.
PendingOk(x) ==
  /\ x.pc = "idle" => x.n = 0
  /\ x.pc = "turns" => Batch(x)
  /\ x.pc = "append" => Fits(x.n, x.e) /\ <<"baseline", x.e.iter>> \in DOMAIN files

Books ==
  /\ ContractsOk /\ (\A i \in 1..Len(log) : EntryOk(i)) /\ Ordered /\ Ledger /\ Sundries
  /\ \A p \in Procs : PendingOk(proc[p])

-----------------------------------------------------------------------------
(* What stays.                                                             *)

\* Log, artifacts and checkpoints only grow.
Grows == LogGrows /\ FilesKept /\ DOMAIN ckpt \subseteq DOMAIN ckpt'

\* The contracts on disk, and the bounds they set, are what they were.
LEMMA BoundsStay ==
    ASSUME ContractsOk, FilesKept
    PROVE  Goal(1)' = Goal(1) /\ (\A type : Cost(type)' = Cost(type))
                              /\ (\A phase : Due(phase)' = Due(phase))
<1>1. Goal(1)' = Goal(1)
  BY DEF ContractsOk, FilesKept, Goal
<1> QED BY <1>1 DEF Cost, Due

\* What a command reads from its view it reads again when the log has grown.
LEMMA LooksStay ==
    ASSUME LogGrows, NEW n \in 1..Len(log)
    PROVE  /\ View(n)' = View(n) /\ Baselined(n)' = Baselined(n) /\ Retired(n)' = Retired(n)
           /\ \A phase, it : Attempt(n, phase, it)' = Attempt(n, phase, it)
           /\ \A name : Key(n, name)' = Key(n, name)
<1>1. \A i \in 1..n : i \in 1..Len(log) /\ log'[i] = log[i]
  BY DEF LogGrows
<1>2. View(n)' = View(n) /\ n \in 1..n
  BY <1>1 DEF View
<1>3. \A phase, it : Attempt(n, phase, it)' = Attempt(n, phase, it)
  <2>1. ASSUME NEW phase, NEW it PROVE Attempt(n, phase, it)' = Attempt(n, phase, it)
    <3>1. {i \in 1..n : log'[i].e.type = "run_resumed" /\ log'[i].e.to = phase /\ log'[i].e.iter = it}
            = {i \in 1..n : log[i].e.type = "run_resumed" /\ log[i].e.to = phase /\ log[i].e.iter = it}
      BY <1>1
    <3> QED BY <3>1 DEF Attempt
  <2> QED BY <2>1
<1>4. \A it, kind : Carrying(n, it, kind)' = Carrying(n, it, kind)
                    /\ Carrying(n, it, kind) \subseteq 1..n
  BY <1>1 DEF Carrying
<1>5. Retired(n)' = Retired(n)
  <2> SUFFICES ASSUME NEW sig PROVE (sig \in Retired(n))' <=> sig \in Retired(n)
    BY DEF Retired
  <2> DEFINE tried == {i \in 1..n : /\ log[i].e.ver = View(n).ver /\ log[i].e.iter # View(n).iter
                                    /\ "hypotheses" \in DOMAIN log[i].e.arts
                                    /\ sig \in Sigs(log[i].e.arts.hypotheses)}
             last == log[Max(tried)].e.iter
             past == Carrying(n, last, "refresh")
  <2>1. tried' = tried
    BY <1>1, <1>2 DEF Sigs
  <2>2. ASSUME tried # {} PROVE last' = last
    <3>1. n \in Nat /\ tried \subseteq 1..n
      BY DEF LogGrows
    <3> HIDE DEF tried
    <3>2. Max(tried) \in 1..n
      BY <2>2, <3>1, Latests
    <3> QED BY <1>1, <2>1, <3>2
  <2>3. ASSUME tried # {}, past # {}
        PROVE  Latest(n, last, "refresh")' = Latest(n, last, "refresh")
    <3>1. past' = past /\ past \subseteq 1..n
      BY <1>4, <2>2, <2>3
    <3>2. PICK S : S = past
      OBVIOUS
    <3>3. n \in Nat
      BY DEF LogGrows
    <3>4. Max(S) \in S
      BY <2>3, <3>1, <3>2, <3>3, Latests
    <3> QED BY <1>1, <3>1, <3>2, <3>4 DEF Latest
  <2>4. sig \in Retired(n) <=> /\ sig \in Hyps /\ tried # {} /\ past # {}
                               /\ Latest(n, last, "refresh").hyp[sig] = "rejected"
    BY DEF Retired
  <2>5. (sig \in Retired(n))' <=> /\ sig \in Hyps /\ tried' # {} /\ past' # {}
                                  /\ Latest(n, last, "refresh")'.hyp[sig] = "rejected"
    BY DEF Retired
  <2> QED BY <1>4, <2>1, <2>2, <2>3, <2>4, <2>5
<1> QED BY <1>2, <1>3, <1>5 DEF Baselined, Key

\* An event that fits its view fits it later.
LEMMA FitsStays ==
    ASSUME ContractsOk, Grows, NEW n \in 1..Len(log), NEW e, Fits(n, e)
    PROVE  Fits(n, e)'
<1>1. /\ View(n)' = View(n) /\ Baselined(n)' = Baselined(n) /\ Retired(n)' = Retired(n)
      /\ \A name : Key(n, name)' = Key(n, name)
  BY LooksStay DEF Grows
<1>2. \A type : Cost(type)' = Cost(type)
  BY BoundsStay DEF Grows
<1>3. Paid(n, e.turns)'
  BY <1>1 DEF Fits, Paid, Grows
<1>4. Dated(n, e)' /\ Labelled(e)
  BY <1>1 DEF Fits, Dated
<1> QED BY <1>1, <1>2, <1>3, <1>4 DEF Fits

\* What is known of a process stays known.
LEMMA PendingStays ==
    ASSUME ContractsOk, Grows, NEW x, ProcOk(x), PendingOk(x)
    PROVE  PendingOk(x)'
<1>1. PICK n : n = x.n
  OBVIOUS
<1>2. ASSUME x.pc # "idle"
      PROVE  /\ n \in 1..Len(log) /\ View(n)' = View(n) /\ Baselined(n)' = Baselined(n)
             /\ \A name : Key(n, name)' = Key(n, name)
  BY <1>1, <1>2, LooksStay DEF Grows, ProcOk
<1>3. Goal(1)' = Goal(1)
  BY BoundsStay DEF Grows
<1>4. ASSUME x.pc = "turns" PROVE Batch(x)'
  BY <1>1, <1>2, <1>3, <1>4 DEF PendingOk, Batch, Grows
<1>5. x.pc = "append" => Fits(n, x.e)'
  BY <1>1, <1>2, FitsStays DEF PendingOk
<1>6. x.pc = "append" => <<"baseline", x.e.iter>> \in DOMAIN files'
  BY DEF PendingOk, Grows, FilesKept
<1> QED BY <1>1, <1>4, <1>5, <1>6 DEF PendingOk

\* What an entry of the log tells stays true.
LEMMA EntryStays ==
    ASSUME ContractsOk, LogShape, LogGrows, FilesKept, NEW i \in 1..Len(log), EntryOk(i)
    PROVE  EntryOk(i)'
<1>1. View(i)' = View(i) /\ log'[i] = log[i] /\ \A j \in 1..i : log'[j] = log[j]
  BY LooksStay DEF LogGrows
<1>2. i > 1 => View(i - 1)' = View(i - 1) /\ Retired(i - 1)' = Retired(i - 1)
  <2>1. i > 1 => i - 1 \in 1..Len(log)
    BY DEF LogShape
  <2> QED BY <2>1, LooksStay
<1>3. Goal(1)' = Goal(1) /\ \A phase : Due(phase)' = Due(phase)
  BY BoundsStay
<1>4. <<"baseline", View(i).iter>> \in DOMAIN files'
  BY DEF EntryOk, FilesKept
<1> QED BY <1>1, <1>2, <1>3, <1>4 DEF EntryOk

\* Checkpoints the run has left stay behind it while the log rests.
LEMMA LedgerStays ==
    ASSUME LogShape, log' = log, DOMAIN ckpt \subseteq DOMAIN ckpt', IsFiniteSet(DOMAIN ckpt'),
           Ledger, Current.turns \in Nat
    PROVE  Ledger'
<1>1. LogGrows /\ Len(log) \in 1..Len(log)
  BY DEF LogShape, LogGrows
<1>2. PICK l : l = Len(log)
  OBVIOUS
<1>3. /\ View(l)' = View(l)
      /\ \A phase, it : Attempt(l, phase, it)' = Attempt(l, phase, it)
  BY <1>1, <1>2, LooksStay
<1>4. \A k : Left(l, k)' = Left(l, k)
  BY <1>3 DEF Left
<1>5. Behind(l) \subseteq Behind(l)' /\ Behind(l)' \subseteq DOMAIN ckpt'
  BY <1>4 DEF Behind
<1>6. IsFiniteSet(Behind(l)') /\ Cardinality(Behind(l)) <= Cardinality(Behind(l)')
  BY <1>5, FS_Subset
<1>7. Cardinality(Behind(l)) \in Nat /\ Cardinality(Behind(l)') \in Nat
  BY <1>5, <1>6, FS_Subset, FS_CardinalityType
<1>8. Current' = Current
  BY DEF Current, View
<1> QED BY <1>2, <1>6, <1>7, <1>8 DEF Ledger

\* The books while the log rests.
LEMMA BooksRest ==
    ASSUME RunInv, Books, log' = log, Grows, ContractsOk', Sundries', IsFiniteSet(DOMAIN ckpt'),
           \A q \in Procs : PendingOk(proc[q])'
    PROVE  Books'
<1>1. LogShape /\ LogGrows /\ FilesKept /\ Len(log) \in 1..Len(log)
  BY DEF RunInv, LogShape, Grows
<1>2. \A i \in 1..Len(log) : EntryOk(i)'
  BY <1>1, EntryStays DEF Books
<1>3. Ordered'
  BY <1>1, LooksStay DEF Books, Ordered
<1>4. Ledger'
  BY <1>1, LedgerStays DEF Books, EntryOk, Grows, Current
<1> QED BY <1>2, <1>3, <1>4 DEF Books

\* The same for processes that stay where they are.
LEMMA OthersPend ==
    ASSUME RunInv, Books, Grows, NEW q \in Procs, proc'[q] = proc[q]
    PROVE  PendingOk(proc[q])'
<1>1. PICK y : y = proc[q]
  OBVIOUS
<1>2. PendingOk(y)'
  BY <1>1, PendingStays DEF RunInv, ProcsOk, Books
<1>3. proc'[q] = y
  BY <1>1
<1> QED BY <1>2, <1>3

\* A process moves on while the log rests.
LEMMA BooksMove ==
    ASSUME RunInv, Books, log' = log, Grows, ContractsOk', Sundries', IsFiniteSet(DOMAIN ckpt'),
           NEW p \in Procs, NEW x, proc' = [proc EXCEPT ![p] = x], PendingOk(x)'
    PROVE  Books'
<1>1. \A q \in Procs : q # p => PendingOk(proc[q])'
  BY OthersPend DEF RunInv, ProcsOk
<1>2. PendingOk(proc[p])'
  BY DEF RunInv, ProcsOk
<1> QED BY <1>1, <1>2, BooksRest

-----------------------------------------------------------------------------
(* What may be charged.                                                    *)

\* Nothing may always be charged.
LEMMA NothingPaid == ASSUME NEW n PROVE Paid(n, 0)
  BY FS_EmptySet DEF Paid

\* The turns of a batch belong to its phase, and those of the batch before it
\* are others.
LEMMA BatchTurns ==
    ASSUME RunInv, Books, NEW x, x.pc = "turns", ProcOk(x), PendingOk(x)
    PROVE  /\ x.n \in 1..Len(log) /\ View(x.n).phase \in TurnPhases /\ Baselined(x.n)
           /\ x.names \cup x.first \subseteq TurnsOf(View(x.n).phase)
           /\ x.names \cap x.first = {} /\ IsFiniteSet(x.names) /\ IsFiniteSet(x.first)
           /\ Cardinality(x.names) \in Nat /\ Cardinality(x.first) \in Nat
           /\ View(x.n).phase = "GOAL_FIDELITY_CHECK" =>
                Cardinality(x.names \cup x.first) <= 4 + Goal(1).specialists
<1>1. x.n \in 1..Len(log) /\ View(x.n).phase \in TurnPhases /\ Batch(x)
  BY DEF ProcOk, TurnOk, PendingOk
<1>2. PICK phase : phase = View(x.n).phase
  OBVIOUS
<1>3. /\ x.names \cup x.first \subseteq TurnsOf(phase) /\ x.names \cap x.first = {}
  <2>1. FirstBatch(phase) \subseteq TurnsOf(phase)
    BY <1>1, <1>2 DEF FirstBatch, TurnsOf, TurnPhases, Final
  <2>2. CASE x.first = {} /\ x.names = FirstBatch(phase)
    BY <2>1, <2>2
  <2>3. CASE phase = "GOAL_FIDELITY_CHECK" /\ x.first = Roles /\ x.names \subseteq Specialists
    <3>1. TurnsOf(phase) = Roles \cup Specialists
      BY <2>3 DEF TurnsOf, Final
    <3> QED BY <2>3, <3>1, RunAssumption
  <2>4. CASE phase = "ITERATION_CLOSED" /\ x.first = {"post-fidelity"} /\ x.names = {"refresh"}
    <3>1. TurnsOf(phase) = {"post-fidelity", "refresh"}
      BY <2>4 DEF TurnsOf, Final
    <3> QED BY <2>4, <3>1
  <2> QED BY <1>1, <1>2, <2>2, <2>3, <2>4 DEF Batch
<1>4. \A name : IsFiniteSet({name})
  BY FS_Singleton
<1>5. IsFiniteSet(x.names) /\ IsFiniteSet(x.first)
  <2>1. IsFiniteSet(FirstBatch(phase))
    BY <1>1, <1>2, <1>4, RunAssumption DEF FirstBatch, TurnPhases
  <2>2. \A S \in SUBSET Specialists : IsFiniteSet(S)
    BY FS_Subset, RunAssumption
  <2> QED BY <1>1, <1>2, <1>4, <2>1, <2>2, FS_EmptySet, RunAssumption DEF Batch
<1>6. Cardinality(x.names) \in Nat /\ Cardinality(x.first) \in Nat
  BY <1>5, FS_CardinalityType
<1>7. ASSUME phase = "GOAL_FIDELITY_CHECK"
      PROVE  Cardinality(x.names \cup x.first) <= 4 + Goal(1).specialists
  <2>1. Goal(1).specialists \in Nat
    BY DEF Books, ContractsOk, ValidContract, ValidBudgets
  <2>2. \/ x.first = {} /\ x.names = Roles
        \/ x.first = Roles /\ x.names \subseteq Specialists
           /\ Cardinality(x.names) <= Goal(1).specialists
    BY <1>1, <1>2, <1>7 DEF Batch, FirstBatch
  <2>3. CASE x.first = {} /\ x.names = Roles
    <3>1. x.names \cup x.first = Roles
      BY <2>3
    <3>2. Cardinality(x.names \cup x.first) = 4
      BY <3>1, RunAssumption
    <3> QED BY <2>1, <3>2
  <2>4. CASE x.first = Roles /\ Cardinality(x.names) <= Goal(1).specialists
    <3>1. Cardinality(x.names \cup x.first)
            = Cardinality(x.names) + Cardinality(x.first) - Cardinality(x.names \cap x.first)
      BY <1>5, FS_Union
    <3>2. Cardinality(x.names \cap x.first) = 0
      BY <1>3, FS_EmptySet
    <3>3. Cardinality(x.first) = 4
      BY <2>4, RunAssumption
    <3> QED BY <1>6, <2>1, <2>4, <3>1, <3>2, <3>3
  <2> QED BY <2>2, <2>3, <2>4
<1> QED BY <1>1, <1>2, <1>3, <1>5, <1>6, <1>7 DEF Batch

\* A failed batch may be charged what it charges.
LEMMA ChargedPaid ==
    ASSUME RunInv, Books, NEW p \in Procs, proc[p].pc = "turns"
    PROVE  Paid(proc[p].n, Charged(p))
<1>1. PICK x : x = proc[p]
  OBVIOUS
<1>2. x.pc = "turns" /\ ProcOk(x) /\ PendingOk(x)
  BY <1>1 DEF RunInv, ProcsOk, Books
<1>3. /\ x.names \cup x.first \subseteq TurnsOf(View(x.n).phase)
      /\ x.names \cap x.first = {} /\ IsFiniteSet(x.names) /\ IsFiniteSet(x.first)
  BY <1>2, BatchTurns
<1> DEFINE S == {name \in x.names : IF name \in RepoRoles THEN Key(x.n, name) \in DOMAIN ckpt
                                                          ELSE name \in x.mine}
<1>4. /\ S \subseteq x.names /\ Charged(p) = Cardinality(x.first) + Cardinality(S)
      /\ \A name \in S \cup x.first : Key(x.n, name) \in DOMAIN ckpt
  BY <1>1, <1>2 DEF Charged, PendingOk, Batch
<1> HIDE DEF S
<1>5. IsFiniteSet(S) /\ IsFiniteSet(x.first \cup S)
      /\ Cardinality(x.first \cup S)
           = Cardinality(x.first) + Cardinality(S) - Cardinality(x.first \cap S)
  BY <1>3, <1>4, FS_Subset, FS_Union
<1>6. Cardinality(x.first \cap S) = 0 /\ Cardinality(x.first) \in Nat /\ Cardinality(S) \in Nat
  <2>1. x.first \cap S = {}
    BY <1>3, <1>4
  <2> QED BY <1>3, <1>5, <2>1, FS_EmptySet, FS_CardinalityType
<1>7. Charged(p) = Cardinality(x.first \cup S) /\ x.first \cup S \in SUBSET TurnsOf(View(x.n).phase)
  BY <1>3, <1>4, <1>5, <1>6
<1> QED BY <1>1, <1>4, <1>5, <1>7 DEF Paid

\* A batch that ended well may be charged in full, with the one before it.
LEMMA EndedPaid ==
    ASSUME RunInv, Books, NEW p \in Procs, NEW phase, BatchOk(p, phase)
    PROVE  /\ proc[p].pc = "turns" /\ ProcOk(proc[p]) /\ PendingOk(proc[p])
           /\ View(proc[p].n).phase = phase
           /\ Paid(proc[p].n, Cardinality(proc[p].names \cup proc[p].first))
           /\ \A name \in proc[p].names : ValidAnswer(proc[p].n, name, Answer(proc[p].n, name))
<1>1. PICK x : x = proc[p]
  OBVIOUS
<1>2. x.pc = "turns" /\ ProcOk(x) /\ PendingOk(x) /\ View(x.n).phase = phase
  BY <1>1 DEF RunInv, ProcsOk, Books, BatchOk, Ended
<1>3. /\ x.names \cup x.first \subseteq TurnsOf(View(x.n).phase)
      /\ IsFiniteSet(x.names) /\ IsFiniteSet(x.first)
  BY <1>2, BatchTurns
<1>4. x.failed = {} /\ x.pending = {}
  BY <1>1 DEF BatchOk, Rejected
<1>5. \A name \in x.names : Key(x.n, name) \in DOMAIN ckpt
  BY <1>1, <1>4 DEF BatchOk, Ended
<1>6. \A name \in x.names \cup x.first : Key(x.n, name) \in DOMAIN ckpt
  BY <1>2, <1>5 DEF PendingOk, Batch
<1>7. IsFiniteSet(x.names \cup x.first)
  BY <1>3, FS_Union
<1>8. Paid(x.n, Cardinality(x.names \cup x.first))
  BY <1>3, <1>6, <1>7 DEF Paid
<1>9. \A name \in x.names : ValidAnswer(x.n, name, Answer(x.n, name))
  BY <1>1, <1>4 DEF BatchOk, Rejected
<1> QED BY <1>1, <1>2, <1>8, <1>9

\* A batch of one turn that ended well may be charged one.
LEMMA OnePaid ==
    ASSUME RunInv, Books, NEW p \in Procs, NEW phase, BatchOk(p, phase),
           phase \in TurnPhases \ {"GOAL_FIDELITY_CHECK", "ITERATION_CLOSED"}
    PROVE  Paid(proc[p].n, 1)
<1>1. PICK x : x = proc[p]
  OBVIOUS
<1>2. PendingOk(x) /\ x.pc = "turns" /\ View(x.n).phase = phase
      /\ Paid(x.n, Cardinality(x.names \cup x.first))
  BY <1>1, EndedPaid
<1>3. x.first = {} /\ x.names = FirstBatch(phase)
  BY <1>2 DEF PendingOk, Batch
<1>4. PICK name : x.names = {name}
  BY <1>3 DEF FirstBatch, TurnPhases
<1>5. Cardinality(x.names \cup x.first) = 1
  <2>1. x.names \cup x.first = {name}
    BY <1>3, <1>4
  <2> QED BY <2>1, FS_Singleton
<1> QED BY <1>1, <1>2, <1>5

-----------------------------------------------------------------------------
(* Steps of one process while the log rests.                               *)

\* A process that goes back to idle.
LEMMA Returns ==
    ASSUME RunInv, Books, NEW p \in Procs, proc' = [proc EXCEPT ![p] = Idle],
           UNCHANGED <<log, files, ckpt, repo>>
    PROVE  Books'
<1>1. Grows /\ IsFiniteSet(DOMAIN ckpt')
  BY DEF Grows, LogGrows, FilesKept, RunInv, LogShape, Books, Ledger
<1>2. ContractsOk' /\ Sundries'
  BY DEF Books, ContractsOk, Sundries, Goal
<1>3. PendingOk(Idle)'
  BY DEF PendingOk, Idle
<1> QED BY <1>1, <1>2, <1>3, BooksMove

\* A process that is about to append an event that fits.
LEMMA AppendsFitting ==
    ASSUME RunInv, Books, UNCHANGED <<log, ckpt, repo>>, FilesKept, ContractsOk',
           NEW p \in Procs, NEW cmd, NEW n \in 1..Len(log), NEW e, ToAppend(p, cmd, n, e),
           Fits(n, e), <<"baseline", e.iter>> \in DOMAIN files'
    PROVE  Books'
<1>1. Grows /\ IsFiniteSet(DOMAIN ckpt')
  BY DEF Grows, LogGrows, FilesKept, RunInv, LogShape, Books, Ledger
<1>2. Sundries'
  BY DEF Books, Sundries
<1> DEFINE x == [Idle EXCEPT !.pc = "append", !.cmd = cmd, !.n = n, !.e = e]
<1>3. x.pc = "append" /\ x.n = n /\ x.e = e /\ proc' = [proc EXCEPT ![p] = x]
  BY DEF Idle, ToAppend
<1> HIDE DEF x
<1>4. PICK y : y = x
  OBVIOUS
<1>5. Fits(n, e)'
  BY <1>1, FitsStays DEF Books
<1>6. PendingOk(y)'
  BY <1>3, <1>4, <1>5 DEF PendingOk
<1> QED BY <1>1, <1>2, <1>3, <1>4, <1>6, BooksMove

\* What the log tells of a view.
LEMMA Seen ==
    ASSUME Books, NEW n \in 1..Len(log)
    PROVE  <<"baseline", View(n).iter>> \in DOMAIN files
  BY DEF Books, EntryOk

\* Events that neither open an iteration nor record hypotheses or a refresh.
LEMMA FitsPlainly ==
    ASSUME NEW n, NEW e,
           e.type \notin Openings \cup {"hypotheses_recorded", "epistemic_refresh_recorded"},
           "hypotheses" \notin DOMAIN e.arts, "refresh" \notin DOMAIN e.arts,
           Paid(n, e.turns), e.type = "run_blocked" \/ e.turns <= Cost(e.type),
           e.type = "goal_fidelity_recorded" => Baselined(n), e.iter = View(n).iter,
           e.ver = View(n).ver
    PROVE  Fits(n, e)
  BY DEF Fits, Dated, Labelled

\* A blocked phase may be charged what it knows of.
LEMMA BlockFits ==
    ASSUME NEW n, NEW arts, "hypotheses" \notin DOMAIN arts, "refresh" \notin DOMAIN arts,
           NEW turns, Paid(n, turns)
    PROVE  Fits(n, BlockEvent(n, arts, turns)) /\ BlockEvent(n, arts, turns).iter = View(n).iter
<1>1. PICK e : e = BlockEvent(n, arts, turns)
  OBVIOUS
<1>2. e.type = "run_blocked" /\ e.turns = turns /\ e.arts = arts /\ e.iter = View(n).iter
      /\ e.ver = View(n).ver
  BY <1>1 DEF BlockEvent, Event
<1> QED BY <1>1, <1>2, FitsPlainly DEF Openings

\* A command that fails in its turns.
LEMMA RaisesPaid ==
    ASSUME RunInv, Books, UNCHANGED <<log, ckpt, repo>>, NEW p \in Procs, NEW n \in 1..Len(log),
           NEW turns, Paid(n, turns), Raises(p, n, turns)
    PROVE  Books'
<1>1. PICK e : e = BlockEvent(n, Nothing, turns)
  OBVIOUS
<1>2. Fits(n, e) /\ e.iter = View(n).iter
  BY <1>1, BlockFits DEF Nothing
<1>3. FilesKept /\ ContractsOk' /\ files' = files
  BY DEF Raises, FilesKept, Books, ContractsOk, Goal
<1>4. ToAppend(p, "advance", n, e)
  BY <1>1 DEF Raises
<1> QED BY <1>2, <1>3, <1>4, AppendsFitting, Seen

\* A phase that ends with an event that fits.
LEMMA EndsPaid ==
    ASSUME RunInv, Books, UNCHANGED <<log, ckpt, repo>>, NEW p \in Procs, NEW n \in 1..Len(log),
           NEW writes, \A v : <<"goal", v>> \notin DOMAIN writes, NEW e, Fits(n, e),
           <<"baseline", e.iter>> \in DOMAIN files \cup DOMAIN writes, Ends(p, n, writes, e)
    PROVE  Books'
<1>1. CASE Conflict(writes)
  BY <1>1, NothingPaid, RaisesPaid DEF Ends, Raises
<1>2. CASE ~Conflict(writes)
  <2>1. files' = Over(writes, files) /\ ToAppend(p, "advance", n, e)
    BY <1>2 DEF Ends
  <2>2. FilesKept /\ DOMAIN files' = DOMAIN writes \cup DOMAIN files
    BY <1>2, <2>1, WritesKeep
  <2>3. ContractsOk'
    BY <2>2 DEF Books, ContractsOk, FilesKept, Goal
  <2> QED BY <2>1, <2>2, <2>3, AppendsFitting
<1> QED BY <1>1, <1>2

\* An artifact that is not a goal.
LEMMA NoGoal ==
    ASSUME NEW kind, kind # "goal", NEW it, NEW value
    PROVE  \A v : <<"goal", v>> \notin DOMAIN Entry(<<kind, it>>, value)
  BY DEF Entry

\* A phase that records its report, or fails.
LEMMA RecordsPaid ==
    ASSUME RunInv, Books, UNCHANGED <<log, ckpt, repo>>, NEW p \in Procs, NEW n \in 1..Len(log),
           NEW kind, kind # "goal", NEW it, NEW value, NEW e, Fits(n, e), e.iter = View(n).iter,
           NEW turns, Paid(n, turns),
           Raises(p, n, turns) \/ Ends(p, n, Entry(<<kind, it>>, value), e)
    PROVE  Books'
  BY RaisesPaid, EndsPaid, NoGoal, Seen

-----------------------------------------------------------------------------
(* Advisor turns.                                                          *)

\* Within a batch, checkpoints are added and what was submitted is remembered.
LEMMA TurnMoves ==
    ASSUME RunInv, Books, UNCHANGED <<log, files, repo>>, DOMAIN ckpt \subseteq DOMAIN ckpt',
           IsFiniteSet(DOMAIN ckpt'), Sundries', NEW p \in Procs, proc[p].pc = "turns",
           NEW x, proc' = [proc EXCEPT ![p] = x], x.pc = "turns", x.n = proc[p].n,
           x.names = proc[p].names, x.first = proc[p].first,
           \A name \in x.mine : name \in proc[p].mine \/ Key(x.n, name) \in DOMAIN ckpt'
    PROVE  Books'
<1>1. Grows /\ LogGrows
  BY DEF Grows, LogGrows, FilesKept, RunInv, LogShape
<1>2. ContractsOk'
  BY DEF Books, ContractsOk, Goal
<1>3. x.n \in 1..Len(log) /\ Batch(proc[p])
  BY DEF RunInv, ProcsOk, ProcOk, Books, PendingOk
<1>4. /\ View(x.n)' = View(x.n) /\ Baselined(x.n)' = Baselined(x.n)
      /\ \A name : Key(x.n, name)' = Key(x.n, name)
  BY <1>1, <1>3, LooksStay
<1>5. Goal(1)' = Goal(1)
  BY DEF Goal
<1>6. Batch(x)'
  BY <1>3, <1>4, <1>5 DEF Batch
<1>7. PendingOk(x)'
  BY <1>6 DEF PendingOk
<1> QED BY <1>1, <1>2, <1>7, BooksMove

\* A turn is submitted, once.
LEMMA Submits ==
    ASSUME RunInv, Books, NEW p \in Procs, NEW name, TurnSubmit(p, name)
    PROVE  Books'
<1>1. PICK k, r : k = Key(proc[p].n, name) /\ r = [st |-> "submitted", ans |-> NoEvent]
  OBVIOUS
<1>2. /\ proc[p].pc = "turns" /\ UNCHANGED <<log, files, repo>>
      /\ ckpt' = Over(Entry(k, r), ckpt)
      /\ proc' = [proc EXCEPT ![p].mine = @ \cup {name}]
  BY <1>1 DEF TurnSubmit, Busy
<1>3. DOMAIN ckpt' = DOMAIN ckpt \cup {k} /\ \A c \in DOMAIN ckpt' : ckpt'[c] \in {r, ckpt[c]}
                                             /\ (ckpt'[c] = r \/ c \in DOMAIN ckpt)
  BY <1>2 DEF Over, Entry
<1>4. IsFiniteSet(DOMAIN ckpt')
  BY <1>3, FS_AddElement DEF Books, Ledger
<1>5. DOMAIN r = {"st", "ans"} /\ r.st = "submitted"
  BY <1>1
<1>6. Sundries'
  BY <1>2, <1>3, <1>5 DEF Books, Sundries
<1>7. DOMAIN proc[p] = DOMAIN Idle
  BY DEF RunInv, ProcsOk, ProcOk
<1>8. PICK x : x = [proc[p] EXCEPT !.mine = @ \cup {name}]
  OBVIOUS
<1>9. /\ x.pc = "turns" /\ x.n = proc[p].n /\ x.names = proc[p].names
      /\ x.first = proc[p].first /\ x.mine = proc[p].mine \cup {name}
      /\ proc' = [proc EXCEPT ![p] = x]
  BY <1>2, <1>7, <1>8 DEF Idle
<1>10. \A m \in x.mine : m \in proc[p].mine \/ Key(x.n, m) \in DOMAIN ckpt'
  BY <1>1, <1>3, <1>9
<1> QED BY <1>2, <1>3, <1>4, <1>6, <1>9, <1>10, TurnMoves

\* An answer arrives in the checkpoint of its turn.
LEMMA Answered ==
    ASSUME RunInv, Books, NEW p \in Procs, NEW name, TurnAnswer(p, name)
    PROVE  Books'
<1>1. PICK k : k = Key(proc[p].n, name)
  OBVIOUS
<1>2. PICK raw : /\ proc[p].pc = "turns" /\ UNCHANGED <<log, files, repo>> /\ k \in DOMAIN ckpt
                 /\ ckpt' = [ckpt EXCEPT ![k].st = "ok", ![k].ans = raw]
                 /\ proc' = [proc EXCEPT ![p].mine = @ \cup {name}]
  BY <1>1 DEF TurnAnswer, Busy
<1>3. /\ DOMAIN ckpt' = DOMAIN ckpt /\ DOMAIN ckpt'[k] = DOMAIN ckpt[k]
      /\ \A c \in DOMAIN ckpt : c # k => ckpt'[c] = ckpt[c]
  BY <1>2
<1>4. ckpt'[k].st = "ok"
  BY <1>2 DEF Books, Sundries
<1>5. Sundries'
  BY <1>2, <1>3, <1>4 DEF Books, Sundries
<1>6. DOMAIN proc[p] = DOMAIN Idle
  BY DEF RunInv, ProcsOk, ProcOk
<1>7. PICK x : x = [proc[p] EXCEPT !.mine = @ \cup {name}]
  OBVIOUS
<1>8. /\ x.pc = "turns" /\ x.n = proc[p].n /\ x.names = proc[p].names
      /\ x.first = proc[p].first /\ x.mine = proc[p].mine \cup {name}
      /\ proc' = [proc EXCEPT ![p] = x]
  BY <1>2, <1>6, <1>7 DEF Idle
<1>9. \A m \in x.mine : m \in proc[p].mine \/ Key(x.n, m) \in DOMAIN ckpt'
  BY <1>1, <1>2, <1>3, <1>8
<1>10. IsFiniteSet(DOMAIN ckpt')
  BY <1>3 DEF Books, Ledger
<1> QED BY <1>2, <1>3, <1>5, <1>8, <1>9, <1>10, TurnMoves

\* A turn is found pending, or fails.
LEMMA GivesUp ==
    ASSUME RunInv, Books, NEW p \in Procs, NEW name, TurnPending(p, name) \/ TurnFail(p, name)
    PROVE  Books'
<1>1. /\ proc[p].pc = "turns" /\ UNCHANGED <<log, files, repo, ckpt>>
      /\ \/ proc' = [proc EXCEPT ![p].pending = @ \cup {name}]
         \/ proc' = [proc EXCEPT ![p].failed = @ \cup {name}]
  BY DEF TurnPending, TurnFail, Busy
<1>2. DOMAIN proc[p] = DOMAIN Idle
  BY DEF RunInv, ProcsOk, ProcOk
<1>3. PICK y, z : /\ y = [proc[p] EXCEPT !.pending = @ \cup {name}]
                  /\ z = [proc[p] EXCEPT !.failed = @ \cup {name}]
  OBVIOUS
<1>4. \A x \in {y, z} : /\ x.pc = "turns" /\ x.n = proc[p].n /\ x.names = proc[p].names
                        /\ x.first = proc[p].first /\ x.mine = proc[p].mine
  BY <1>1, <1>2, <1>3 DEF Idle
<1>5. PICK x \in {y, z} : proc' = [proc EXCEPT ![p] = x]
  BY <1>1, <1>3
<1>6. IsFiniteSet(DOMAIN ckpt') /\ Sundries'
  BY <1>1 DEF Books, Ledger, Sundries
<1> QED BY <1>1, <1>4, <1>5, <1>6, TurnMoves

\* A batch of turns is started.
LEMMA Begins ==
    ASSUME RunInv, Books, UNCHANGED <<log, files, ckpt, repo>>, NEW p \in Procs,
           NEW n \in 1..Len(log), NEW S, NEW first, RunTurns(p, n, S, first), Baselined(n),
           \/ first = {} /\ S = FirstBatch(View(n).phase)
           \/ /\ View(n).phase = "GOAL_FIDELITY_CHECK"
              /\ first = Roles /\ S \subseteq Specialists /\ Cardinality(S) <= Goal(1).specialists
           \/ View(n).phase = "ITERATION_CLOSED" /\ first = {"post-fidelity"} /\ S = {"refresh"},
           \A name \in first : Key(n, name) \in DOMAIN ckpt
    PROVE  Books'
<1>1. Grows /\ LogGrows /\ IsFiniteSet(DOMAIN ckpt')
  BY DEF Grows, LogGrows, FilesKept, RunInv, LogShape, Books, Ledger
<1>2. ContractsOk' /\ Sundries'
  BY DEF Books, ContractsOk, Goal, Sundries
<1> DEFINE y == [Idle EXCEPT !.pc = "turns", !.cmd = "advance", !.n = n,
                             !.names = S, !.first = first]
<1>3. /\ y.pc = "turns" /\ y.n = n /\ y.names = S /\ y.first = first /\ y.mine = {}
      /\ proc' = [proc EXCEPT ![p] = y]
  BY DEF RunTurns, Idle
<1> HIDE DEF y
<1>4. PICK x : x = y
  OBVIOUS
<1>5. /\ View(n)' = View(n) /\ Baselined(n)' = Baselined(n)
      /\ \A name : Key(n, name)' = Key(n, name)
  BY <1>1, LooksStay
<1>6. Goal(1)' = Goal(1)
  BY DEF Goal
<1>7. Batch(x)'
  BY <1>3, <1>4, <1>5, <1>6 DEF Batch
<1>8. PendingOk(x)'
  BY <1>3, <1>4, <1>7 DEF PendingOk
<1> QED BY <1>1, <1>2, <1>3, <1>4, <1>8, BooksMove

-----------------------------------------------------------------------------
(* The selection of specialists.                                           *)

\* Something ranked from one to three has a lowest rank.
LEMMA Lowest ==
    ASSUME NEW A, A # {}, NEW f \in [A -> 1..3]
    PROVE  \E a \in A : \A b \in A : f[a] <= f[b]
<1>1. \A a \in A : f[a] \in 1..3
  OBVIOUS
<1>2. CASE \E a \in A : f[a] = 1
  BY <1>1, <1>2
<1>3. CASE ~(\E a \in A : f[a] = 1) /\ \E a \in A : f[a] = 2
  BY <1>1, <1>3
<1>4. CASE \A a \in A : f[a] = 3
  BY <1>4
<1> QED BY <1>1, <1>2, <1>3, <1>4

\* Of ranked things, two at most can be picked that none left out precedes.
LEMMA Pickable ==
    ASSUME NEW A, IsFiniteSet(A), NEW f \in [A -> 1..3], NEW c \in 0..2
    PROVE  \E S \in SUBSET A : /\ Cardinality(S) = Min({c, Cardinality(A)})
                               /\ \A a \in S, b \in A \ S : f[a] <= f[b]
<1>1. Cardinality(A) \in Nat
  BY FS_CardinalityType
<1>2. Min({c, Cardinality(A)}) = IF c <= Cardinality(A) THEN c ELSE Cardinality(A)
  BY <1>1 DEF Min
<1>3. CASE Cardinality(A) <= c
  <2>1. Min({c, Cardinality(A)}) = Cardinality(A)
    BY <1>1, <1>2, <1>3
  <2>2. WITNESS A \in SUBSET A
  <2> QED BY <2>1
<1>4. CASE Cardinality(A) > c /\ c = 0
  <2>1. Cardinality({}) = Min({c, Cardinality(A)})
    BY <1>1, <1>2, <1>4, FS_EmptySet
  <2>2. WITNESS {} \in SUBSET A
  <2> QED BY <2>1
<1>5. ASSUME Cardinality(A) > c, c > 0
      PROVE  \E a \in A : \A b \in A : f[a] <= f[b]
  <2>1. A # {}
    BY <1>1, <1>5, FS_EmptySet
  <2> QED BY <2>1, Lowest
<1>6. CASE Cardinality(A) > c /\ c = 1
  <2>1. PICK a \in A : \A b \in A : f[a] <= f[b]
    BY <1>5, <1>6
  <2>2. Cardinality({a}) = Min({c, Cardinality(A)})
    BY <1>1, <1>2, <1>6, FS_Singleton
  <2>3. WITNESS {a} \in SUBSET A
  <2> QED BY <2>1, <2>2
<1>7. CASE Cardinality(A) > c /\ c = 2
  <2>1. PICK a \in A : \A b \in A : f[a] <= f[b]
    BY <1>5, <1>7
  <2>2. PICK B : B = A \ {a}
    OBVIOUS
  <2>3. B # {}
    <3>1. A # {a}
      BY <1>7, FS_Singleton
    <3> QED BY <2>2, <3>1
  <2>4. PICK h : h = [b \in B |-> f[b]]
    OBVIOUS
  <2>5. h \in [B -> 1..3] /\ \A b \in B : h[b] = f[b]
    BY <2>2, <2>4
  <2>6. PICK d \in B : \A b \in B : h[d] <= h[b]
    BY <2>3, <2>5, Lowest
  <2>7. Cardinality({a} \cup {d}) = 2
    <3>1. IsFiniteSet({a}) /\ Cardinality({a}) = 1 /\ d \notin {a}
      BY <2>2, FS_Singleton
    <3>2. Cardinality({a} \cup {d}) = Cardinality({a}) + 1
      BY <3>1, FS_AddElement
    <3> QED BY <3>1, <3>2
  <2>8. Cardinality({a} \cup {d}) = Min({c, Cardinality(A)})
    BY <1>1, <1>2, <1>7, <2>7
  <2>9. {a} \cup {d} \in SUBSET A
    BY <2>2
  <2>10. \A e \in {a} \cup {d}, b \in A \ ({a} \cup {d}) : f[e] <= f[b]
    BY <2>1, <2>2, <2>5, <2>6
  <2> QED BY <2>8, <2>9, <2>10
<1> QED BY <1>1, <1>3, <1>4, <1>6, <1>7

\* The specialists that are selected were named in the contract, and are as many
\* as it allows.
LEMMA Selects ==
    ASSUME NEW g \in Contracts, ValidContract(g), NEW answer,
           \A role \in DOMAIN answer : ValidRequests(g, answer[role].requests, FALSE)
    PROVE  /\ SelectSpecialists(g, answer) \subseteq Specialists
           /\ Cardinality(SelectSpecialists(g, answer)) <= g.specialists
<1> DEFINE A == {r.profile : r \in Grounded(answer)}
           ranks(p) == {Rank[r.priority] : r \in {r \in Grounded(answer) : r.profile = p}}
           f == [p \in A |-> Min(ranks(p))]
<1>1. \A r \in Grounded(answer) : r.profile \in g.profiles /\ r.priority \in DOMAIN Rank
  BY DEF Grounded, ValidRequests
<1>2. A \subseteq Specialists /\ IsFiniteSet(A)
  <2>1. A \subseteq Specialists
    BY <1>1, RunAssumption
  <2> QED BY <2>1, FS_Subset, RunAssumption
<1>3. ASSUME NEW p \in A PROVE f[p] \in 1..3
  <2>1. ranks(p) # {} /\ ranks(p) \subseteq 1..3
    <3>1. \A priority \in DOMAIN Rank : Rank[priority] \in 1..3
      BY DEF Rank
    <3>2. \E r \in Grounded(answer) : r.profile = p
      OBVIOUS
    <3> QED BY <1>1, <3>1, <3>2
  <2>2. PICK R : R = ranks(p)
    OBVIOUS
  <2>3. PICK x \in R : \A y \in R : x <= y
    <3>1. R \subseteq Nat /\ R # {}
      BY <2>1, <2>2
    <3> QED BY <3>1, Least
  <2>4. Min(R) \in R
    BY <2>3 DEF Min
  <2> QED BY <2>1, <2>2, <2>4
<1>4. f \in [A -> 1..3] /\ \A p \in A : f[p] = Min(ranks(p))
  BY <1>3
<1>5. g.specialists \in 0..2
  BY DEF ValidContract, ValidBudgets
<1>6. SelectSpecialists(g, answer) =
        CHOOSE S \in SUBSET A : /\ Cardinality(S) = Min({g.specialists, Cardinality(A)})
                                /\ \A p \in S, q \in A \ S : Min(ranks(p)) <= Min(ranks(q))
  BY DEF SelectSpecialists
<1> HIDE DEF f, A, ranks
<1>7. PICK h : h = f
  OBVIOUS
<1>8. PICK S \in SUBSET A : /\ Cardinality(S) = Min({g.specialists, Cardinality(A)})
                            /\ \A p \in S, q \in A \ S : h[p] <= h[q]
  BY <1>2, <1>4, <1>5, <1>7, Pickable
<1>9. \E T \in SUBSET A : /\ Cardinality(T) = Min({g.specialists, Cardinality(A)})
                          /\ \A p \in T, q \in A \ T : Min(ranks(p)) <= Min(ranks(q))
  BY <1>4, <1>7, <1>8
<1>10. PICK T : T = SelectSpecialists(g, answer)
  OBVIOUS
<1>11. T \subseteq A /\ Cardinality(T) = Min({g.specialists, Cardinality(A)})
  BY <1>6, <1>9, <1>10
<1>12. Min({g.specialists, Cardinality(A)}) <= g.specialists
  <2>1. Cardinality(A) \in Nat
    BY <1>2, FS_CardinalityType
  <2> QED BY <1>5, <2>1 DEF Min
<1> QED BY <1>2, <1>10, <1>11, <1>12

-----------------------------------------------------------------------------
(* The steps of an advancing process, and what they charge.                *)

\* The first batch of a phase.
LEMMA StartsFitting ==
    ASSUME RunInv, Books, NEW p \in Procs, StartTurns(p)
    PROVE  Books'
<1>1. PICK n : n = Len(log) /\ n \in 1..Len(log)
  BY DEF RunInv, LogShape
<1>2. Current = View(n)
  BY <1>1 DEF Current
<1>3. /\ UNCHANGED <<log, ckpt, repo>>
      /\ \/ Raises(p, n, 0)
         \/ RunTurns(p, n, FirstBatch(View(n).phase), {}) /\ UNCHANGED files /\ Baselined(n)
  BY <1>1, <1>2 DEF StartTurns
<1>4. CASE Raises(p, n, 0)
  BY <1>1, <1>3, <1>4, NothingPaid, RaisesPaid
<1>5. CASE RunTurns(p, n, FirstBatch(View(n).phase), {}) /\ UNCHANGED files /\ Baselined(n)
  BY <1>1, <1>3, <1>5, Begins
<1> QED BY <1>3, <1>4, <1>5

\* The specialists follow the core roles.
LEMMA SpecialistsFitting ==
    ASSUME RunInv, Books, NEW p \in Procs, SpecialistTurns(p)
    PROVE  Books'
<1>1. PICK n, g, answer, S :
        /\ n = proc[p].n /\ g = Goal(View(n).ver) /\ answer = [r \in Roles |-> Answer(n, r)]
        /\ S = SelectSpecialists(g, answer)
  OBVIOUS
<1>2. /\ BatchOk(p, "GOAL_FIDELITY_CHECK") /\ proc[p].first = {}
      /\ UNCHANGED <<log, ckpt, repo>>
      /\ Raises(p, n, 0) \/ (RunTurns(p, n, S, Roles) /\ UNCHANGED files)
  BY <1>1 DEF SpecialistTurns
<1>3. /\ proc[p].pc = "turns" /\ ProcOk(proc[p]) /\ PendingOk(proc[p])
      /\ View(n).phase = "GOAL_FIDELITY_CHECK"
      /\ \A name \in proc[p].names : ValidAnswer(n, name, Answer(n, name))
  BY <1>1, <1>2, EndedPaid
<1>4. n \in 1..Len(log) /\ Baselined(n)
  BY <1>1, <1>3, BatchTurns
<1>5. proc[p].names = Roles
  <2>1. Roles # {}
    BY RunAssumption, FS_EmptySet
  <2> QED BY <1>1, <1>2, <1>3, <2>1 DEF PendingOk, Batch, FirstBatch
<1>6. g \in Contracts /\ ValidContract(g) /\ g.specialists = Goal(1).specialists
  BY <1>1, <1>4 DEF RunInv, Contracted, Books, ContractsOk
<1>7. \A role \in DOMAIN answer : ValidRequests(g, answer[role].requests, FALSE)
  <2>1. ASSUME NEW role \in Roles, NEW raw, raw = Answer(n, role)
        PROVE  ValidRequests(g, raw.requests, FALSE)
    <3>1. ValidAnswer(n, role, raw)
      BY <1>3, <1>5, <2>1
    <3>2. /\ role \notin {"fidelity", "post-fidelity", "challenge", "synthesis", "auditor",
                          "refresh", "final"}
          /\ role \notin Specialists
      BY RunAssumption
    <3>3. ValidGrounding(g, raw, role \in Mappers, role \in Specialists)
      BY <1>1, <3>1, <3>2 DEF ValidAnswer
    <3>4. ValidRequests(g, raw.requests, role \in Specialists)
      BY <3>3 DEF ValidGrounding
    <3> QED BY <3>2, <3>4 DEF ValidRequests
  <2> QED BY <1>1, <2>1
<1>8. S \subseteq Specialists /\ Cardinality(S) <= Goal(1).specialists
  BY <1>1, <1>6, <1>7, Selects
<1>9. \A name \in Roles : Key(n, name) \in DOMAIN ckpt
  BY <1>1, <1>2, <1>5 DEF BatchOk, Ended, Rejected
<1>10. CASE Raises(p, n, 0)
  BY <1>2, <1>4, <1>10, NothingPaid, RaisesPaid
<1>11. CASE RunTurns(p, n, S, Roles) /\ UNCHANGED files
  BY <1>2, <1>3, <1>4, <1>8, <1>9, <1>11, Begins
<1> QED BY <1>2, <1>10, <1>11

\* A batch ends without a report.
LEMMA BatchEndsPaid ==
    ASSUME RunInv, Books, NEW p \in Procs, BatchPending(p) \/ BatchFailed(p) \/ RefreshTurn(p)
    PROVE  Books'
<1>1. PICK n : n = proc[p].n
  OBVIOUS
<1>2. proc[p].pc = "turns" /\ UNCHANGED <<log, ckpt, repo>>
  BY DEF BatchPending, BatchFailed, RefreshTurn, BatchOk, Ended
<1>3. ProcOk(proc[p]) /\ PendingOk(proc[p])
  BY DEF RunInv, ProcsOk, Books
<1>4. n \in 1..Len(log) /\ Baselined(n)
  BY <1>1, <1>2, <1>3, BatchTurns
<1>5. CASE BatchPending(p)
  BY <1>2, <1>5, Returns DEF BatchPending
<1>6. CASE BatchFailed(p)
  BY <1>1, <1>2, <1>4, <1>6, ChargedPaid, RaisesPaid DEF BatchFailed
<1>7. CASE RefreshTurn(p)
  <2>1. /\ BatchOk(p, "ITERATION_CLOSED") /\ proc[p].first = {} /\ UNCHANGED files
        /\ RunTurns(p, n, {"refresh"}, {"post-fidelity"})
    BY <1>1, <1>7 DEF RefreshTurn
  <2>2. View(n).phase = "ITERATION_CLOSED" /\ proc[p].names = {"post-fidelity"}
    <3>1. View(n).phase = "ITERATION_CLOSED"
      BY <1>1, <2>1 DEF BatchOk
    <3> QED BY <1>1, <1>2, <1>3, <2>1, <3>1, RunAssumption DEF PendingOk, Batch, FirstBatch
  <2>3. \A name \in {"post-fidelity"} : Key(n, name) \in DOMAIN ckpt
    BY <1>1, <2>1, <2>2 DEF BatchOk, Ended, Rejected
  <2> QED BY <1>2, <1>4, <2>1, <2>2, <2>3, Begins
<1> QED BY <1>5, <1>6, <1>7

\* The phases whose one turn reports.
LEMMA ReportsPaid ==
    ASSUME RunInv, Books, NEW p \in Procs,
           Fidelity(p) \/ Challenge(p) \/ Synthesis(p) \/ PostAudit(p) \/ FinalAudit(p)
    PROVE  Books'
<1>1. PICK n : n = proc[p].n
  OBVIOUS
<1>2. PICK phase : /\ BatchOk(p, phase)
                   /\ phase \in TurnPhases \ {"GOAL_FIDELITY_CHECK", "ITERATION_CLOSED"}
  BY DEF Fidelity, Challenge, Synthesis, PostAudit, FinalAudit, TurnPhases
<1>3. UNCHANGED <<log, ckpt, repo>> /\ Paid(n, 1)
  BY <1>1, <1>2, OnePaid DEF Fidelity, Challenge, Synthesis, PostAudit, FinalAudit
<1>4. n \in 1..Len(log) /\ Baselined(n)
  BY <1>1, <1>2, EndedPaid, BatchTurns
<1>5. \A type \in {"goal_fidelity_recorded", "challenge_recorded", "packet_issued",
                   "post_change_audit_recorded", "goal_completed"} : 1 <= Cost(type)
  BY DEF Cost
<1>6. CASE Fidelity(p)
  <2>1. PICK raw, e :
          /\ Ends(p, n, Entry(<<"fidelity", View(n).num>>, raw), e)
          /\ e = Event(n, "goal_fidelity_recorded", "GOAL_FIDELITY_CHECK", [fidelity |-> raw], 1,
                       <<View(n).ver, View(n).iter>>)
    BY <1>1, <1>6 DEF Fidelity
  <2>2. e.type = "goal_fidelity_recorded" /\ e.turns = 1 /\ e.arts = [fidelity |-> raw]
        /\ e.iter = View(n).iter /\ e.ver = View(n).ver
    BY <2>1 DEF Event
  <2>3. Fits(n, e)
    BY <1>3, <1>4, <1>5, <2>2, FitsPlainly DEF Openings
  <2> QED BY <1>3, <1>4, <2>1, <2>2, <2>3, RecordsPaid
<1>7. CASE Challenge(p)
  <2>1. PICK raw, e :
          /\ Ends(p, n, Entry(<<"challenge", View(n).num>>, raw), e)
          /\ e = Event(n, "challenge_recorded", "CHALLENGE", [challenge |-> raw], 1,
                       <<View(n).ver, View(n).iter>>)
    BY <1>1, <1>7 DEF Challenge
  <2>2. e.type = "challenge_recorded" /\ e.turns = 1 /\ e.arts = [challenge |-> raw]
        /\ e.iter = View(n).iter /\ e.ver = View(n).ver
    BY <2>1 DEF Event
  <2>3. Fits(n, e)
    BY <1>3, <1>4, <1>5, <2>2, FitsPlainly DEF Openings
  <2> QED BY <1>3, <1>4, <2>1, <2>2, <2>3, RecordsPaid
<1>8. CASE Synthesis(p)
  <2>1. PICK raw, e :
          /\ Raises(p, n, 1) \/ Ends(p, n, Entry(<<"synthesis", View(n).num>>, raw), e)
          /\ \/ e = BlockEvent(n, [synthesis |-> raw], 1)
             \/ e = [Event(n, "packet_issued", "PACKET_READY", [synthesis |-> raw], 1,
                           <<View(n).ver, View(n).iter>>) EXCEPT !.packet = View(n).iter]
    BY <1>1, <1>8 DEF Synthesis
  <2>2. Fits(n, e) /\ e.iter = View(n).iter /\ e.ver = View(n).ver
    <3>1. /\ e.type \in {"run_blocked", "packet_issued"} /\ e.turns = 1
          /\ e.arts = [synthesis |-> raw] /\ e.iter = View(n).iter /\ e.ver = View(n).ver
      BY <2>1 DEF BlockEvent, Event
    <3> QED BY <1>3, <1>5, <3>1, FitsPlainly DEF Openings
  <2> QED BY <1>3, <1>4, <2>1, <2>2, RecordsPaid
<1>9. CASE PostAudit(p)
  <2>1. PICK audit, e :
          /\ Raises(p, n, 1) \/ Ends(p, n, Entry(<<"post-audit", View(n).num>>, audit), e)
          /\ e = Event(n, "post_change_audit_recorded", "ITERATION_CLOSED", [audit |-> audit], 1,
                       <<View(n).packet>>)
    BY <1>1, <1>9 DEF PostAudit
  <2>2. e.type = "post_change_audit_recorded" /\ e.turns = 1 /\ e.arts = [audit |-> audit]
        /\ e.iter = View(n).iter /\ e.ver = View(n).ver
    BY <2>1 DEF Event
  <2>3. Fits(n, e)
    BY <1>3, <1>5, <2>2, FitsPlainly DEF Openings
  <2> QED BY <1>3, <1>4, <2>1, <2>2, <2>3, RecordsPaid
<1>10. CASE FinalAudit(p)
  <2>1. PICK it, report, e :
          /\ Raises(p, n, 1) \/ Ends(p, n, Entry(<<"report", it>>, report), e)
          /\ \/ e = Event(n, "goal_completed", Terminal, [report |-> report], 1, <<View(n).ver>>)
             \/ e = BlockEvent(n, [report |-> report], 1)
    BY <1>1, <1>10 DEF FinalAudit
  <2>2. Fits(n, e) /\ e.iter = View(n).iter /\ e.ver = View(n).ver
    <3>1. /\ e.type \in {"run_blocked", "goal_completed"} /\ e.turns = 1
          /\ e.arts = [report |-> report] /\ e.iter = View(n).iter /\ e.ver = View(n).ver
      BY <2>1 DEF BlockEvent, Event
    <3> QED BY <1>3, <1>5, <3>1, FitsPlainly DEF Openings
  <2> QED BY <1>3, <1>4, <2>1, <2>2, RecordsPaid
<1> QED BY <1>6, <1>7, <1>8, <1>9, <1>10

\* The grounding is charged for the roles and the specialists that reported.
LEMMA GroundingPaid ==
    ASSUME RunInv, Books, NEW p \in Procs, Grounding(p)
    PROVE  Books'
<1>1. PICK n, who : n = proc[p].n /\ who = proc[p].names \cup proc[p].first
  OBVIOUS
<1>2. BatchOk(p, "GOAL_FIDELITY_CHECK") /\ UNCHANGED <<log, ckpt, repo>>
  BY DEF Grounding
<1>3. /\ n \in 1..Len(log) /\ Paid(n, Cardinality(who))
      /\ Cardinality(who) <= Cost("grounding_recorded")
  BY <1>1, <1>2, EndedPaid, BatchTurns DEF Cost
<1>4. PICK merged, e :
        /\ \/ Raises(p, n, Cardinality(who))
           \/ Ends(p, n, Entry(<<"grounding", View(n).num>>, merged), e)
        /\ e = Event(n, "grounding_recorded", "CLEAN_ROOM_GROUNDING", [grounding |-> merged],
                     Cardinality(who), <<View(n).ver, View(n).iter>>)
  BY <1>1 DEF Grounding
<1>5. /\ e.type = "grounding_recorded" /\ e.turns = Cardinality(who)
      /\ e.arts = [grounding |-> merged] /\ e.iter = View(n).iter /\ e.ver = View(n).ver
  BY <1>4 DEF Event
<1>6. Fits(n, e)
  BY <1>3, <1>5, FitsPlainly DEF Openings
<1> QED BY <1>2, <1>3, <1>4, <1>5, <1>6, RecordsPaid

\* The refresh is charged for two turns.
LEMMA RefreshPaid ==
    ASSUME RunInv, Books, NEW p \in Procs, EpistemicRefresh(p)
    PROVE  Books'
<1>1. PICK n : n = proc[p].n
  OBVIOUS
<1>2. BatchOk(p, "ITERATION_CLOSED") /\ proc[p].first # {} /\ UNCHANGED <<log, ckpt, repo>>
  BY DEF EpistemicRefresh
<1>3. /\ n \in 1..Len(log) /\ Paid(n, Cardinality(proc[p].names \cup proc[p].first))
      /\ PendingOk(proc[p]) /\ proc[p].pc = "turns" /\ View(n).phase = "ITERATION_CLOSED"
  BY <1>1, <1>2, EndedPaid, BatchTurns
<1>4. proc[p].names \cup proc[p].first = {"refresh"} \cup {"post-fidelity"}
  BY <1>1, <1>2, <1>3 DEF PendingOk, Batch
<1>5. Cardinality({"refresh"} \cup {"post-fidelity"}) = 2
  <2>1. IsFiniteSet({"refresh"}) /\ Cardinality({"refresh"}) = 1 /\ "post-fidelity" \notin {"refresh"}
    BY FS_Singleton
  <2>2. Cardinality({"refresh"} \cup {"post-fidelity"}) = Cardinality({"refresh"}) + 1
    BY <2>1, FS_AddElement
  <2> QED BY <2>1, <2>2
<1>6. Paid(n, 2) /\ 2 <= Cost("epistemic_refresh_recorded")
  <2>1. Cardinality(proc[p].names \cup proc[p].first) = 2
    BY <1>4, <1>5
  <2> QED BY <1>3, <2>1 DEF Cost
<1>7. PICK value, fid, refresh, e :
        /\ Ends(p, n, Entry(<<"refresh", View(n).num>>, value), e)
        /\ e = Event(n, "epistemic_refresh_recorded", "EPISTEMIC_REFRESH",
                     [fidelity |-> fid, refresh |-> refresh], 2, <<View(n).iter>>)
  BY <1>1 DEF EpistemicRefresh
<1>8. /\ e.type = "epistemic_refresh_recorded" /\ e.turns = 2
      /\ e.arts = [fidelity |-> fid, refresh |-> refresh] /\ e.iter = View(n).iter /\ e.ver = View(n).ver
      /\ e.key = <<"epistemic_refresh_recorded">> \o <<e.iter>>
  BY <1>7 DEF Event
<1>9. Fits(n, e)
  BY <1>6, <1>8 DEF Fits, Dated, Labelled, Openings
<1> QED BY <1>2, <1>3, <1>6, <1>7, <1>8, <1>9, RecordsPaid

\* The phases and commands that run no turns charge none.
LEMMA DecidesPaid ==
    ASSUME RunInv, Books, NEW p \in Procs,
           Resume(p) \/ Hypotheses(p) \/ PacketReady(p) \/ RefreshDecision(p)
    PROVE  Books'
<1>1. PICK n : n = Len(log) /\ n \in 1..Len(log)
  BY DEF RunInv, LogShape
<1>2. UNCHANGED <<log, ckpt, repo>> /\ Paid(n, 0) /\ \A type : 0 <= Cost(type)
  <2>1. Goal(1).specialists \in Nat
    BY DEF Books, ContractsOk, ValidContract, ValidBudgets
  <2>2. ASSUME NEW type PROVE 0 <= Cost(type)
    BY <2>1 DEF Cost
  <2> QED BY <2>2, NothingPaid DEF Resume, Hypotheses, PacketReady, RefreshDecision
<1>3. CASE Resume(p)
  <2>1. PICK to, e : /\ ToAppend(p, "advance", n, e) /\ UNCHANGED files
                     /\ e = Event(n, "run_resumed", to, Nothing, 0, <<n + 1>>)
    BY <1>1, <1>3 DEF Resume
  <2>2. e.type = "run_resumed" /\ e.turns = 0 /\ e.arts = Nothing /\ e.iter = View(n).iter /\ e.ver = View(n).ver
    BY <2>1 DEF Event
  <2>3. Fits(n, e)
    BY <1>2, <2>2, FitsPlainly DEF Openings, Nothing
  <2>4. FilesKept /\ ContractsOk'
    BY <2>1 DEF FilesKept, Books, ContractsOk, Goal
  <2> QED BY <1>1, <1>2, <2>1, <2>2, <2>3, <2>4, AppendsFitting, Seen
<1>4. CASE Hypotheses(p)
  <2>1. PICK P, e :
          /\ \/ Raises(p, n, 0)
             \/ /\ ValidPortfolio(P, Retired(n))
                /\ Ends(p, n, Entry(<<"hypotheses", View(n).num>>, P), e)
          /\ e = Event(n, "hypotheses_recorded", "HYPOTHESIS_SET_READY", [hypotheses |-> P], 0,
                       <<View(n).ver, View(n).iter>>)
    BY <1>1, <1>4 DEF Hypotheses
  <2>2. /\ e.type = "hypotheses_recorded" /\ e.turns = 0 /\ e.arts = [hypotheses |-> P]
        /\ e.iter = View(n).iter /\ e.ver = View(n).ver
        /\ e.key = <<"hypotheses_recorded">> \o <<e.ver, e.iter>>
    BY <2>1 DEF Event
  <2>3. CASE Raises(p, n, 0)
    BY <1>1, <1>2, <2>3, RaisesPaid
  <2>4. ASSUME ValidPortfolio(P, Retired(n)),
               Ends(p, n, Entry(<<"hypotheses", View(n).num>>, P), e)
        PROVE  Books'
    <3>1. Fits(n, e)
      BY <1>2, <2>2, <2>4 DEF Fits, Dated, Labelled, Openings
    <3> QED BY <1>1, <1>2, <2>2, <2>4, <3>1, RecordsPaid
  <2> QED BY <2>1, <2>3, <2>4
<1>5. CASE PacketReady(p)
  <2>1. PICK e :
          /\ Raises(p, n, 0) \/ Ends(p, n, Nothing, e)
          /\ e = Event(n, "codex_wait_started", "WAITING_FOR_CODEX", Nothing, 0, <<View(n).iter>>)
    BY <1>1, <1>5 DEF PacketReady
  <2>2. e.type = "codex_wait_started" /\ e.turns = 0 /\ e.arts = Nothing /\ e.iter = View(n).iter /\ e.ver = View(n).ver
    BY <2>1 DEF Event
  <2>3. Fits(n, e)
    BY <1>2, <2>2, FitsPlainly DEF Openings, Nothing
  <2>4. \A v : <<"goal", v>> \notin DOMAIN Nothing
    BY DEF Nothing
  <2> QED BY <1>1, <1>2, <2>1, <2>2, <2>3, <2>4, RaisesPaid, EndsPaid, Seen
<1>6. CASE RefreshDecision(p)
  <2>1. PICK it, next, d, e :
          /\ \/ Raises(p, n, 0)
             \/ Ends(p, n, Entry(<<"frozen", it>>, repo), d)
             \/ Ends(p, n, Entry(<<"baseline", next>>, repo), e)
          /\ next = View(n).num + 1
          /\ d = Event(n, "final_audit_started", "FINAL_CLEAN_ROOM_AUDIT",
                       [frozen |-> [snap |-> repo]], 0, <<it>>)
          /\ e = [Event(n, "next_iteration_started", "GOAL_FROZEN", Nothing, 0,
                        <<next, View(n).ver>>) EXCEPT !.iter = next]
    BY <1>1, <1>6 DEF RefreshDecision
  <2>2. /\ d.type = "final_audit_started" /\ d.turns = 0 /\ d.arts = [frozen |-> [snap |-> repo]]
        /\ d.iter = View(n).iter /\ d.ver = View(n).ver
    BY <2>1 DEF Event
  <2>3. Fits(n, d)
    BY <1>2, <2>2, FitsPlainly DEF Openings
  <2>4. /\ e.type = "next_iteration_started" /\ e.turns = 0 /\ e.arts = Nothing
        /\ e.iter = next /\ e.ver = View(n).ver
    BY <2>1 DEF Event
  <2>5. Fits(n, e)
    BY <1>2, <2>1, <2>4 DEF Fits, Dated, Labelled, Openings, Nothing
  <2>6. CASE Ends(p, n, Entry(<<"baseline", next>>, repo), e)
    <3>1. <<"baseline", e.iter>> \in DOMAIN Entry(<<"baseline", next>>, repo)
      BY <2>4 DEF Entry
    <3> QED BY <1>1, <1>2, <2>5, <2>6, <3>1, EndsPaid, NoGoal
  <2>7. CASE Raises(p, n, 0) \/ Ends(p, n, Entry(<<"frozen", it>>, repo), d)
    BY <1>1, <1>2, <2>2, <2>3, <2>7, RecordsPaid
  <2> QED BY <2>1, <2>6, <2>7
<1> QED BY <1>3, <1>4, <1>5, <1>6

-----------------------------------------------------------------------------
(* Commands without operation.lock, and the environment.                   *)

\* An amendment keeps the budgets, and writes the baseline it names.
LEMMA AmendsFitting ==
    ASSUME RunInv, Books, NEW p \in Procs, NEW g \in Contracts, Amend(p, g)
    PROVE  Books'
<1>1. PICK n : n = Len(log) /\ n \in 1..Len(log)
  BY DEF RunInv, LogShape
<1>2. PICK next, base, goal :
        /\ next = View(n).num + 1 /\ base = Entry(<<"baseline", next>>, repo)
        /\ goal = Entry(<<"goal", g.version>>, g)
  OBVIOUS
<1>3. PICK e : e = [Event(n, "goal_amended", "GOAL_FROZEN", Nothing, 0, <<g.version>>)
                      EXCEPT !.ver = g.version, !.iter = next]
  OBVIOUS
<1>4. /\ ValidAmendment(Goal(View(n).ver), g) /\ ~Conflict(base) /\ UNCHANGED <<log, ckpt, repo>>
      /\ \/ files' = Over(base, files) /\ UNCHANGED proc
         \/ /\ ~Conflict(goal) /\ files' = Over(goal, Over(base, files))
            /\ ToAppend(p, "amend", n, e)
  BY <1>1, <1>2, <1>3 DEF Amend
<1>5. /\ DOMAIN base = {<<"baseline", next>>} /\ DOMAIN goal = {<<"goal", g.version>>}
      /\ goal[<<"goal", g.version>>] = g
  BY <1>2 DEF Entry
<1>6. CASE files' = Over(base, files) /\ UNCHANGED proc
  <2>1. FilesKept /\ DOMAIN files' = DOMAIN base \cup DOMAIN files
    BY <1>4, <1>6, WritesKeep
  <2>2. ContractsOk'
    BY <1>5, <2>1 DEF Books, ContractsOk, FilesKept, Goal
  <2>3. Grows /\ Sundries' /\ IsFiniteSet(DOMAIN ckpt')
    BY <1>4, <2>1 DEF Grows, LogGrows, RunInv, LogShape, Books, Sundries, Ledger
  <2> QED BY <1>4, <1>6, <2>2, <2>3, OthersPend, BooksRest
<1>7. CASE /\ ~Conflict(goal) /\ files' = Over(goal, Over(base, files))
           /\ ToAppend(p, "amend", n, e)
  <2>1. /\ DOMAIN files' = DOMAIN goal \cup DOMAIN base \cup DOMAIN files
        /\ files'[<<"goal", g.version>>] = g
    BY <1>5, <1>7 DEF Over
  <2>2. FilesKept
    <3>1. ASSUME NEW f \in DOMAIN files PROVE f \in DOMAIN files' /\ files'[f] = files[f]
      <4>1. CASE f \in DOMAIN goal
        BY <1>4, <1>5, <1>7, <2>1, <4>1 DEF Conflict
      <4>2. CASE f \notin DOMAIN goal
        BY <1>4, <1>5, <1>7, <2>1, <4>2 DEF Conflict, Over
      <4> QED BY <4>1, <4>2
    <3> QED BY <3>1 DEF FilesKept
  <2>3. ValidContract(g) /\ g.specialists = Goal(View(n).ver).specialists
    BY <1>4 DEF ValidAmendment
  <2>4. g.specialists = Goal(1).specialists
    BY <1>1, <2>3 DEF RunInv, Contracted, Books, ContractsOk
  <2>5. ContractsOk'
    <3>1. <<"goal", 1>> \in DOMAIN files' /\ Goal(1)' = Goal(1)
      BY <2>2 DEF Books, ContractsOk, FilesKept, Goal
    <3>2. ASSUME NEW v, <<"goal", v>> \in DOMAIN files'
          PROVE  (Goal(v) \in Contracts /\ ValidContract(Goal(v))
                   /\ Goal(v).specialists = Goal(1).specialists)'
      <4>1. CASE <<"goal", v>> \in DOMAIN files
        BY <2>2, <3>1, <4>1 DEF Books, ContractsOk, FilesKept, Goal
      <4>2. CASE v = g.version
        BY <2>1, <2>3, <2>4, <3>1, <4>2 DEF Goal
      <4> QED BY <1>5, <2>1, <3>2, <4>1, <4>2
    <3> QED BY <3>1, <3>2 DEF ContractsOk
  <2>6. /\ e.type = "goal_amended" /\ e.turns = 0 /\ e.arts = Nothing /\ e.iter = next
    BY <1>3 DEF Event
  <2>7. Fits(n, e)
    <3>1. 0 <= Cost(e.type)
      BY <2>6 DEF Cost
    <3> QED BY <1>2, <2>6, <3>1, NothingPaid DEF Fits, Dated, Labelled, Openings, Nothing
  <2>8. <<"baseline", e.iter>> \in DOMAIN files'
    BY <1>5, <2>1, <2>6
  <2> QED BY <1>1, <1>4, <1>7, <2>2, <2>5, <2>7, <2>8, AppendsFitting
<1> QED BY <1>4, <1>6, <1>7

\* A receipt charges nothing.
LEMMA ReceivesPaid ==
    ASSUME RunInv, Books, NEW p \in Procs, RecordCodex(p) \/ RecordVerification(p)
    PROVE  Books'
<1>1. PICK n : n = Len(log) /\ n \in 1..Len(log)
  BY DEF RunInv, LogShape
<1>2. UNCHANGED <<log, ckpt, repo>> /\ FilesKept
  BY Receives DEF RecordCodex, RecordVerification, Keeps
<1>3. ASSUME NEW w, files' = Over(w, files), \A v : <<"goal", v>> \notin DOMAIN w,
             NEW cmd, NEW e, ToAppend(p, cmd, n, e), e.type \in Outside \ {"goal_amended"},
             e.turns = 0, e.iter = View(n).iter, e.ver = View(n).ver,
             "hypotheses" \notin DOMAIN e.arts, "refresh" \notin DOMAIN e.arts
      PROVE  Books'
  <2>1. ContractsOk'
    BY <1>2, <1>3 DEF Over, FilesKept, Books, ContractsOk, Goal
  <2>2. 0 <= Cost(e.type) /\ e.type \notin Openings
    BY <1>3 DEF Cost, Outside, Openings
  <2>3. Fits(n, e)
    BY <1>3, <2>2, NothingPaid, FitsPlainly DEF Outside
  <2>4. <<"baseline", e.iter>> \in DOMAIN files'
    BY <1>1, <1>2, <1>3, Seen DEF FilesKept
  <2> QED BY <1>1, <1>2, <1>3, <2>1, <2>3, <2>4, AppendsFitting
<1>4. CASE RecordCodex(p)
  <2>1. PICK raw, it, attempt, w, e :
          /\ w = Entry(<<"codex", it, attempt>>, raw) /\ files' = Over(w, files)
          /\ ToAppend(p, "codex", n, e)
          /\ e = Event(n, "codex_implementation_recorded", "WAITING_FOR_LOCAL_VERIFICATION",
                       [codex |-> raw], 0, <<View(n).packet, attempt>>)
    BY <1>1, <1>4 DEF RecordCodex
  <2>2. /\ e.type = "codex_implementation_recorded" /\ e.turns = 0 /\ e.iter = View(n).iter /\ e.ver = View(n).ver
        /\ e.arts = [codex |-> raw]
    BY <2>1 DEF Event
  <2>3. \A v : <<"goal", v>> \notin DOMAIN w
    BY <2>1 DEF Entry
  <2> QED BY <1>3, <2>1, <2>2, <2>3 DEF Outside
<1>5. CASE RecordVerification(p)
  <2>1. PICK w, arts, to, key, type, e :
          /\ \A v : <<"goal", v>> \notin DOMAIN w
          /\ files' = Over(w, files) /\ ToAppend(p, "verification", n, e)
          /\ type \in {"implementation_receipt_invalidated", "local_verification_recorded"}
          /\ "hypotheses" \notin DOMAIN arts /\ "refresh" \notin DOMAIN arts
          /\ e = Event(n, type, to, arts, 0, key)
    <3>1. CASE repo # Resulting(n)
      <4>1. PICK w, e :
              /\ w = Entry(<<"invalidation", View(n).num, repo>>, repo) /\ files' = Over(w, files)
              /\ ToAppend(p, "verification", n, e)
              /\ e = Event(n, "implementation_receipt_invalidated", "WAITING_FOR_CODEX",
                           [invalidated |-> [was |-> Resulting(n), now |-> repo]], 0,
                           <<View(n).packet, repo>>)
        BY <1>1, <1>5, <3>1 DEF RecordVerification
      <4>2. \A v : <<"goal", v>> \notin DOMAIN w
        BY <4>1 DEF Entry
      <4> QED BY <4>1, <4>2
    <3>2. CASE ~(repo # Resulting(n))
      <4>1. PICK receipt, w, e :
              /\ w = Entry(<<"verification", View(n).num>>, receipt) /\ files' = Over(w, files)
              /\ ToAppend(p, "verification", n, e)
              /\ e = Event(n, "local_verification_recorded", "POST_CHANGE_AUDIT",
                           [verification |-> receipt], 0, <<View(n).packet>>)
        BY <1>1, <1>5, <3>2 DEF RecordVerification
      <4>2. \A v : <<"goal", v>> \notin DOMAIN w
        BY <4>1 DEF Entry
      <4> QED BY <4>1, <4>2
    <3> QED BY <3>1, <3>2
  <2>2. e.type = type /\ e.turns = 0 /\ e.iter = View(n).iter /\ e.ver = View(n).ver /\ e.arts = arts
    BY <2>1 DEF Event
  <2> QED BY <1>3, <2>1, <2>2 DEF Outside
<1> QED BY <1>4, <1>5

\* Crashes, edits of the repository and stuttering.
LEMMA EnvironmentPays ==
    ASSUME RunInv, Books, (\E p \in Procs : Crash(p)) \/ (\E s \in Snaps : Edit(s)) \/ UNCHANGED vars
    PROVE  Books'
<1>1. ASSUME NEW p \in Procs, Crash(p) PROVE Books'
  BY <1>1, Returns DEF Crash
<1>2. ASSUME UNCHANGED <<log, files, ckpt, proc>>, repo' \in Snaps PROVE Books'
  <2>1. Grows /\ Sundries' /\ ContractsOk' /\ IsFiniteSet(DOMAIN ckpt')
    BY <1>2 DEF Grows, LogGrows, FilesKept, RunInv, LogShape, Books, Sundries, ContractsOk, Goal,
                Ledger
  <2> QED BY <1>2, <2>1, OthersPend, BooksRest
<1> QED BY <1>1, <1>2 DEF Edit, vars, Books, Sundries

-----------------------------------------------------------------------------
(* What the reducer does.                                                  *)

\* An event folded into a projection, field by field.
LEMMA Folding ==
    ASSUME NEW pr, DOMAIN pr = DOMAIN Fresh, NEW e
    PROVE  /\ Reduce(pr, e).phase = e.to /\ Reduce(pr, e).iter = e.iter
           /\ Reduce(pr, e).num = Started(pr, e) /\ Reduce(pr, e).turns = pr.turns + e.turns
           /\ Reduce(pr, e).blockedFrom =
                IF e.type = "run_blocked" THEN pr.phase
                ELSE IF e.type \in {"goal_amended", "run_resumed", "goal_completed"} THEN ""
                ELSE pr.blockedFrom
<1> DEFINE q == [pr EXCEPT !.phase = e.to, !.ver = e.ver, !.iter = e.iter, !.num = Started(pr, e),
                        !.turns = @ + e.turns]
<1>1. /\ DOMAIN q = DOMAIN Fresh /\ q.phase = e.to /\ q.iter = e.iter /\ q.num = Started(pr, e)
      /\ q.turns = pr.turns + e.turns /\ q.blockedFrom = pr.blockedFrom
  BY DEF Fresh
<1>2. Reduce(pr, e) =
        CASE e.type = "next_iteration_started" -> [q EXCEPT !.packet = 0]
          [] e.type = "goal_amended" ->
               [q EXCEPT !.packet = 0, !.critical = {}, !.acc = Nothing, !.clauses = Nothing,
                         !.blockedFrom = ""]
          [] e.type = "packet_issued" -> [q EXCEPT !.packet = e.packet]
          [] e.type = "post_change_audit_recorded" ->
               [q EXCEPT !.acc = Over(e.arts.audit.acc, @), !.clauses = Over(e.arts.audit.clauses, @),
                         !.critical = e.arts.audit.critical]
          [] e.type = "epistemic_refresh_recorded" -> [q EXCEPT !.critical = e.arts.refresh.critical]
          [] e.type = "run_blocked" -> [q EXCEPT !.blockedFrom = pr.phase]
          [] e.type \in {"run_resumed", "goal_completed"} -> [q EXCEPT !.blockedFrom = ""]
          [] OTHER -> q
  BY DEF Reduce
<1> HIDE DEF q
<1>3. Reduce(pr, e).phase = e.to /\ Reduce(pr, e).iter = e.iter
  BY <1>1, <1>2 DEF Fresh
<1>4. Reduce(pr, e).num = Started(pr, e) /\ Reduce(pr, e).turns = pr.turns + e.turns
  BY <1>1, <1>2 DEF Fresh
<1>5. Reduce(pr, e).blockedFrom =
        IF e.type = "run_blocked" THEN pr.phase
        ELSE IF e.type \in {"goal_amended", "run_resumed", "goal_completed"} THEN ""
        ELSE pr.blockedFrom
  <2>1. CASE e.type = "run_blocked"
    BY <1>1, <1>2, <2>1 DEF Fresh
  <2>2. CASE e.type \in {"goal_amended", "run_resumed", "goal_completed"}
    BY <1>1, <1>2, <2>2 DEF Fresh
  <2>3. CASE e.type \notin {"run_blocked", "goal_amended", "run_resumed", "goal_completed"}
    BY <1>1, <1>2, <2>3 DEF Fresh
  <2> QED BY <2>1, <2>2, <2>3
<1> QED BY <1>3, <1>4, <1>5

\* A transition leads on, but for those between the two waiting phases and that
\* to the next iteration, and the turns due when it is taken cover its cost.
LEMMA Passing ==
    ASSUME NEW type, NEW from, NEW to, <<type, from, to>> \in Transitions,
           Goal(1).specialists \in Nat
    PROVE  /\ from \in Phases \ {Blocked} /\ to \in Phases \ {Blocked}
           /\ type \notin {"run_blocked", "goal_amended", "run_resumed"}
           /\ from = "GOAL_FROZEN" => type = "goal_fidelity_recorded"
           /\ type # "next_iteration_started" =>
                /\ to # "GOAL_FROZEN"
                /\ Place(from) < Place(to) \/ (from \in Waiting /\ Place(from) = Place(to))
                /\ Due(from) + Cost(type) <= Due(to)
<1>1. from \in Phases \ {Blocked} /\ to \in Phases \ {Blocked}
  BY DEF Transitions, Phases, Blocked, Terminal
<1>2. /\ type \notin {"run_blocked", "goal_amended", "run_resumed"}
      /\ from = "GOAL_FROZEN" => type = "goal_fidelity_recorded"
      /\ type # "next_iteration_started" => to # "GOAL_FROZEN"
  BY DEF Transitions, Terminal
<1>3. type # "next_iteration_started" =>
        Place(from) < Place(to) \/ (from \in Waiting /\ Place(from) = Place(to))
  BY DEF Transitions, Terminal, Place, Waiting, Final
<1>4. type # "next_iteration_started" => Due(from) + Cost(type) <= Due(to)
  BY DEF Transitions, Terminal, Due, Cost, Waiting, Final
<1> QED BY <1>1, <1>2, <1>3, <1>4

-----------------------------------------------------------------------------
(* Appending.                                                              *)

\* Event e, of a command with the view n, becomes the entry after the l-th.
Lands(l, n, e) ==
  /\ l \in Nat \ {0} /\ l = Len(log) /\ Len(log') = l + 1 /\ log'[l + 1].e = e
  /\ LogGrows /\ FilesKept
  /\ n \in 1..l /\ (e.type \notin Outside => n = l)
  /\ Fits(n, e) /\ <<"baseline", e.iter>> \in DOMAIN files'
  /\ Allowed(View(l), e, Goal(1)) /\ (\A i \in 1..l : log[i].e.key # e.key)
  /\ View(l + 1)'.phase = e.to /\ View(l + 1)'.iter = e.iter
  /\ View(l + 1)'.num = Started(View(l), e)
  /\ View(l + 1)'.turns = View(l).turns + e.turns
  /\ View(l + 1)'.blockedFrom =
       IF e.type = "run_blocked" THEN View(l).phase
       ELSE IF e.type \in {"goal_amended", "run_resumed", "goal_completed"} THEN ""
       ELSE View(l).blockedFrom

\* The event of a process that is accepted lands at the end of the log.
LEMMA Landing ==
    ASSUME RunInv, Books, NEW p \in Procs, proc[p].pc = "append", CanAppend(proc[p].e),
           log' = Append(log, [e |-> proc[p].e, after |-> Reduce(Current, proc[p].e)]),
           UNCHANGED files
    PROVE  Lands(Len(log), proc[p].n, proc[p].e)
<1>1. PICK e, n, cmd : e = proc[p].e /\ n = proc[p].n /\ cmd = proc[p].cmd
  OBVIOUS
<1>2. PICK l : l = Len(log) /\ l \in Nat \ {0} /\ l \in 1..Len(log) /\ Current = View(l)
  BY DEF RunInv, LogShape, Current
<1>3. EventOk(cmd, n, e) /\ n \in 1..Len(log) /\ (cmd = "advance" => Abreast(n))
  BY <1>1 DEF RunInv, ProcsOk, ProcOk
<1>4. PICK r : r = [e |-> e, after |-> Reduce(View(l), e)]
  OBVIOUS
<1>5. r.e = e /\ r.after = Reduce(View(l), e)
  BY <1>4
<1>6. /\ Len(log') = l + 1 /\ log'[l + 1] = r
      /\ \A i \in 1..Len(log) : log'[i] = log[i]
  <2>1. log' = Append(log, r)
    BY <1>1, <1>2, <1>4
  <2>2. PICK S : log \in Seq(S)
    BY DEF RunInv, LogShape
  <2>3. /\ Len(Append(log, r)) = Len(log) + 1 /\ Append(log, r)[Len(log) + 1] = r
        /\ \A i \in 1..Len(log) : Append(log, r)[i] = log[i]
    BY ONLY <2>2, Appending
  <2> QED BY <1>2, <2>1, <2>3
<1>7. LogGrows /\ FilesKept
  BY <1>2, <1>6 DEF LogGrows, FilesKept
<1>8. DOMAIN View(l) = DOMAIN Fresh /\ View(l).ver \in Nat /\ View(n).ver \in Nat
  BY <1>2, <1>3 DEF RunInv, LogShape
<1>9. /\ Allowed(View(l), e, Goal(1)) /\ (\A i \in 1..l : log[i].e.key # e.key)
  BY <1>1, <1>2 DEF CanAppend, Replays
<1>10. Fits(n, e) /\ <<"baseline", e.iter>> \in DOMAIN files'
  BY <1>1 DEF Books, PendingOk
<1>11. ASSUME e.type \notin Outside PROVE n = l
  <2>1. Abreast(n) /\ e.type # "goal_amended"
    BY <1>3, <1>11 DEF EventOk, Outside
  <2>2. e.ver = View(n).ver /\ e.ver = View(l).ver
    BY <1>9, <1>10, <2>1 DEF Allowed, Fits, Dated
  <2> QED BY <1>2, <1>8, <2>1, <2>2 DEF Abreast
<1>12. View(l + 1)' = r.after
  BY <1>6 DEF View
<1>13. PICK pr : pr = View(l)
  OBVIOUS
<1>14. /\ r.after.phase = e.to /\ r.after.iter = e.iter
       /\ r.after.num = Started(pr, e) /\ r.after.turns = pr.turns + e.turns
       /\ r.after.blockedFrom =
            IF e.type = "run_blocked" THEN pr.phase
            ELSE IF e.type \in {"goal_amended", "run_resumed", "goal_completed"} THEN ""
            ELSE pr.blockedFrom
  <2>1. DOMAIN pr = DOMAIN Fresh /\ r.after = Reduce(pr, e)
    BY <1>5, <1>8, <1>13
  <2>2. /\ Reduce(pr, e).phase = e.to /\ Reduce(pr, e).iter = e.iter
        /\ Reduce(pr, e).num = Started(pr, e) /\ Reduce(pr, e).turns = pr.turns + e.turns
        /\ Reduce(pr, e).blockedFrom =
             IF e.type = "run_blocked" THEN pr.phase
             ELSE IF e.type \in {"goal_amended", "run_resumed", "goal_completed"} THEN ""
             ELSE pr.blockedFrom
    BY ONLY <2>1, Folding
  <2> QED BY <2>1, <2>2
<1>15. Lands(l, n, e)
  BY <1>2, <1>3, <1>5, <1>6, <1>7, <1>9, <1>10, <1>11, <1>12, <1>13, <1>14 DEF Lands
<1> QED BY <1>1, <1>2, <1>15

\* What is known of an event that lands, and of the entry before it.
LEMMA Landed ==
    ASSUME Books, NEW l, NEW n, NEW e, Lands(l, n, e)
    PROVE  /\ l \in 1..Len(log) /\ n \in 1..Len(log) /\ EntryOk(l) /\ e.turns \in Nat
           /\ View(n).num <= View(l).num /\ View(n).num \in Nat /\ View(n).num >= 1
           /\ View(l).turns \in Nat /\ View(l).num \in Nat /\ View(l).num >= 1
           /\ Goal(1).specialists \in Nat
           /\ \/ /\ e.type = "run_blocked" /\ View(l).phase # Blocked /\ e.to = Blocked
              \/ e.type = "goal_amended" /\ e.to = "GOAL_FROZEN"
              \/ /\ e.type = "run_resumed" /\ View(l).phase = Blocked
                 /\ e.to = View(l).blockedFrom /\ e.to # Blocked /\ e.to # ""
              \/ <<e.type, View(l).phase, e.to>> \in Transitions
<1>1. l \in 1..Len(log) /\ n \in 1..Len(log) /\ n <= l
  <2>1. l \in Nat \ {0} /\ l = Len(log) /\ n \in 1..l
    BY DEF Lands
  <2> QED BY <2>1
<1>2. EntryOk(l) /\ EntryOk(n)
  BY <1>1 DEF Books
<1>3. e.turns \in Nat
  BY FS_CardinalityType DEF Lands, Fits, Paid
<1>4. Goal(1).specialists \in Nat
  BY DEF Books, ContractsOk, ValidContract, ValidBudgets
<1>5. \/ /\ e.type = "run_blocked" /\ View(l).phase # Blocked /\ e.to = Blocked
      \/ e.type = "goal_amended" /\ e.to = "GOAL_FROZEN"
      \/ /\ e.type = "run_resumed" /\ View(l).phase = Blocked
         /\ e.to = View(l).blockedFrom /\ e.to # Blocked /\ e.to # ""
      \/ <<e.type, View(l).phase, e.to>> \in Transitions
  BY DEF Lands, Allowed
<1>6. View(n).num <= View(l).num
  BY <1>1 DEF Books, Ordered
<1>7. /\ View(n).num \in Nat /\ View(n).num >= 1 /\ View(l).num \in Nat /\ View(l).num >= 1
      /\ View(l).turns \in Nat
  <2>1. \A i \in {l, n} : View(i).num \in Nat /\ View(i).turns \in Nat
                           /\ View(i).iter \in 1..View(i).num
    BY <1>2 DEF EntryOk
  <2>2. ASSUME NEW i \in {l, n} PROVE View(i).num >= 1
    <3>1. View(i).num \in Nat /\ View(i).iter \in 1..View(i).num
      BY <2>1
    <3> QED BY <3>1
  <2> QED BY <2>1, <2>2
<1> QED BY <1>1, <1>2, <1>3, <1>4, <1>5, <1>6, <1>7

\* The sums are numbers.
LEMMA Sums ==
    ASSUME Goal(1).specialists \in Nat
    PROVE  (\A phase : Due(phase) \in Nat) /\ (\A type : Cost(type) \in Nat)
<1>1. ASSUME NEW phase PROVE Due(phase) \in Nat
  <2> DEFINE s == Goal(1).specialists
  <2>1. /\ 5 + s \in Nat /\ 6 + s \in Nat /\ 7 + s \in Nat /\ 8 + s \in Nat
        /\ 10 + s \in Nat /\ 11 + s \in Nat
    OBVIOUS
  <2>2. CASE phase \in {"GOAL_FROZEN", "GOAL_FIDELITY_CHECK", "CLEAN_ROOM_GROUNDING",
                        "HYPOTHESIS_SET_READY", "CHALLENGE"}
    BY <2>1, <2>2 DEF Due, Waiting, Final
  <2>3. CASE phase \in {"PACKET_READY", "POST_CHANGE_AUDIT", "ITERATION_CLOSED",
                        "EPISTEMIC_REFRESH", Final} \cup Waiting
    BY <2>1, <2>3 DEF Due, Waiting, Final
  <2>4. CASE phase \notin {"GOAL_FROZEN", "GOAL_FIDELITY_CHECK", "CLEAN_ROOM_GROUNDING",
                           "HYPOTHESIS_SET_READY", "CHALLENGE", "PACKET_READY",
                           "POST_CHANGE_AUDIT", "ITERATION_CLOSED", "EPISTEMIC_REFRESH",
                           Final} \cup Waiting
    BY <2>1, <2>4 DEF Due, Waiting, Final
  <2> QED BY <2>2, <2>3, <2>4
<1>2. ASSUME NEW type PROVE Cost(type) \in Nat
  BY DEF Cost
<1> QED BY <1>1, <1>2

\* The new entry tells what every entry tells.
LEMMA NewEntry ==
    ASSUME Books, NEW l, NEW n, NEW e, Lands(l, n, e)
    PROVE  EntryOk(l + 1)'
<1>1. /\ l \in 1..Len(log) /\ n \in 1..Len(log) /\ EntryOk(l) /\ e.turns \in Nat
      /\ View(n).num <= View(l).num /\ View(n).num \in Nat /\ View(n).num >= 1
      /\ View(l).turns \in Nat /\ View(l).num \in Nat /\ View(l).num >= 1
      /\ Goal(1).specialists \in Nat
      /\ \/ /\ e.type = "run_blocked" /\ View(l).phase # Blocked /\ e.to = Blocked
         \/ e.type = "goal_amended" /\ e.to = "GOAL_FROZEN"
         \/ /\ e.type = "run_resumed" /\ View(l).phase = Blocked
            /\ e.to = View(l).blockedFrom /\ e.to # Blocked /\ e.to # ""
         \/ <<e.type, View(l).phase, e.to>> \in Transitions
  BY Landed
<1>2. /\ LogGrows /\ l \in Nat \ {0} /\ l = Len(log) /\ log'[l + 1].e = e
      /\ Fits(n, e) /\ <<"baseline", e.iter>> \in DOMAIN files'
      /\ (e.type \notin Outside => n = l) /\ FilesKept
  BY DEF Lands
<1>3. PICK v, w : v = View(l) /\ w = View(l + 1)'
  OBVIOUS
<1>4. /\ w.phase = e.to /\ w.iter = e.iter /\ w.num = Started(v, e)
      /\ w.turns = v.turns + e.turns
      /\ w.blockedFrom = IF e.type = "run_blocked" THEN v.phase
                         ELSE IF e.type \in {"goal_amended", "run_resumed", "goal_completed"} THEN ""
                         ELSE v.blockedFrom
  BY <1>3 DEF Lands
<1>5. /\ v.turns + e.turns <= Goal(1).turns /\ Started(v, e) <= Goal(1).iterations
      /\ e.type \notin {"next_iteration_started", "goal_amended"} => e.iter = v.iter
      /\ e.ver = IF e.type = "goal_amended" THEN v.ver + 1 ELSE v.ver
  BY <1>3 DEF Lands, Allowed
<1>6. /\ v.phase \in Phases /\ v.blockedFrom \in Phases \cup {""}
      /\ v.iter \in 1..v.num /\ v.num \in Nat /\ v.turns \in Nat /\ v.num >= 1
      /\ Stage(v) # "GOAL_FROZEN" => v.iter = v.num
      /\ (\A j \in 1..l : Smooth(log[j].e)) => v.phase # Blocked /\ v.turns <= Due(v.phase)
  BY <1>1, <1>3 DEF EntryOk
<1>7. ASSUME <<e.type, v.phase, e.to>> \in Transitions
      PROVE  /\ v.phase \in Phases \ {Blocked} /\ e.to \in Phases \ {Blocked}
             /\ e.type \notin {"run_blocked", "goal_amended", "run_resumed"}
             /\ v.phase = "GOAL_FROZEN" => e.type = "goal_fidelity_recorded"
             /\ e.type # "next_iteration_started" =>
                  e.to # "GOAL_FROZEN" /\ Due(v.phase) + Cost(e.type) <= Due(e.to)
  BY <1>1, <1>7, Passing
<1>8. w.phase \in Phases /\ w.blockedFrom \in Phases \cup {""}
  <2>1. Blocked \in Phases /\ "GOAL_FROZEN" \in Phases
    BY DEF Phases, Transitions
  <2> QED BY <1>1, <1>3, <1>4, <1>6, <1>7, <2>1
<1>9. w.turns \in Nat /\ w.turns <= Goal(1)'.turns /\ w.num \in Nat /\ w.num <= Goal(1)'.iterations
  <2>1. Goal(1)' = Goal(1)
    BY <1>2, BoundsStay DEF Books
  <2>2. w.turns \in Nat /\ w.turns <= Goal(1)'.turns
    <3>1. v.turns \in Nat /\ e.turns \in Nat
      BY <1>1, <1>6
    <3>2. v.turns + e.turns \in Nat
      BY <3>1
    <3> QED BY <1>4, <1>5, <2>1, <3>2
  <2>3. Started(v, e) \in Nat
    <3>1. v.num \in Nat
      BY <1>6
    <3>2. v.num + 1 \in Nat
      BY <3>1
    <3> QED BY <3>1, <3>2 DEF Started
  <2> QED BY <1>4, <1>5, <2>1, <2>2, <2>3
<1>10. w.iter \in 1..w.num /\ (e.type \in Openings => e.iter >= 2)
  <2>1. CASE e.type \in Openings
    <3>1. e.iter = View(n).num + 1 /\ w.num = v.num + 1
      BY <1>2, <1>4, <2>1 DEF Fits, Dated, Openings, Started
    <3>2. PICK a, b : a = View(n).num /\ b = v.num
      OBVIOUS
    <3>3. a \in Nat /\ b \in Nat /\ a >= 1 /\ a <= b /\ e.iter = a + 1 /\ w.num = b + 1
      BY <1>1, <1>3, <1>6, <3>1, <3>2
    <3>4. a + 1 \in 1..b + 1 /\ a + 1 >= 2
      BY <3>3
    <3> QED BY <1>4, <3>3, <3>4
  <2>2. CASE e.type \notin Openings
    <3>1. e.iter = v.iter /\ w.num = v.num
      BY <1>4, <1>5, <2>2 DEF Openings, Started
    <3> QED BY <1>4, <1>6, <2>2, <3>1
  <2> QED BY <2>1, <2>2
<1>11. Stage(w) # "GOAL_FROZEN" => w.iter = w.num
  <2>1. CASE e.type \in Openings
    BY <1>1, <1>3, <1>4, <1>7, <2>1 DEF Stage, Openings, Blocked, Transitions
  <2>2. CASE e.type = "run_blocked"
    BY <1>1, <1>3, <1>4, <1>5, <1>6, <1>7, <2>2 DEF Stage, Started
  <2>3. CASE e.type = "run_resumed"
    BY <1>1, <1>3, <1>4, <1>5, <1>6, <1>7, <2>3 DEF Stage, Started
  <2>4. CASE e.type \notin Openings \cup {"run_blocked", "run_resumed"}
    <3>1. <<e.type, v.phase, e.to>> \in Transitions /\ e.iter = v.iter /\ w.num = v.num
      BY <1>1, <1>3, <1>4, <1>5, <2>4 DEF Openings, Started
    <3>2. CASE v.phase = "GOAL_FROZEN"
      <4>1. e.type = "goal_fidelity_recorded"
        BY <1>7, <3>1, <3>2
      <4>2. Baselined(n) /\ n = l
        BY <1>2, <4>1 DEF Fits, Outside
      <4> QED BY <1>3, <1>4, <3>1, <4>2 DEF Baselined
    <3>3. CASE v.phase # "GOAL_FROZEN"
      BY <1>4, <1>6, <1>7, <3>1, <3>3 DEF Stage
    <3> QED BY <3>2, <3>3
  <2> QED BY <2>1, <2>2, <2>3, <2>4
<1>12. (\A j \in 1..l + 1 : Smooth(log'[j].e)) => w.phase # Blocked /\ w.turns <= Due(w.phase)'
  <2> SUFFICES ASSUME \A j \in 1..l + 1 : Smooth(log'[j].e)
               PROVE  w.phase # Blocked /\ w.turns <= Due(w.phase)'
    OBVIOUS
  <2>1. Smooth(e) /\ \A j \in 1..l : Smooth(log[j].e)
    BY <1>2 DEF LogGrows
  <2>2. v.phase # Blocked /\ v.turns <= Due(v.phase)
    BY <1>6, <2>1
  <2>3. e.iter = 1 /\ e.type \notin Openings \cup {"run_blocked"}
    BY <1>10, <2>1 DEF Smooth, Openings
  <2>4. <<e.type, v.phase, e.to>> \in Transitions /\ e.type # "next_iteration_started"
    BY <1>1, <1>3, <2>2, <2>3 DEF Openings
  <2>5. e.turns <= Cost(e.type)
    BY <1>2, <2>3 DEF Fits
  <2>6. Due(w.phase)' = Due(w.phase)
    BY <1>2, BoundsStay DEF Books
  <2>7. Due(v.phase) \in Nat /\ Due(e.to) \in Nat /\ Cost(e.type) \in Nat
    BY <1>1, Sums
  <2>8. e.to # Blocked /\ Due(v.phase) + Cost(e.type) <= Due(e.to)
    BY <1>7, <2>4
  <2>9. v.turns + e.turns <= Due(e.to)
    <3>1. PICK a, b, c, d : a = v.turns /\ b = Due(v.phase) /\ c = Cost(e.type) /\ d = e.turns
      OBVIOUS
    <3>2. a \in Nat /\ b \in Nat /\ c \in Nat /\ d \in Nat
      BY <1>1, <1>6, <2>7, <3>1
    <3>3. a <= b /\ d <= c /\ b + c <= Due(e.to)
      BY <2>2, <2>5, <2>8, <3>1
    <3>4. a + d <= Due(e.to)
      BY <2>7, <3>2, <3>3
    <3> QED BY <3>1, <3>4
  <2> QED BY <1>4, <2>6, <2>8, <2>9
<1>13. Labelled(e)
  BY <1>2 DEF Fits
<1>14. e.type \in {"hypotheses_recorded", "epistemic_refresh_recorded"} => w.iter = w.num
  <2>1. e.type \in {"hypotheses_recorded", "epistemic_refresh_recorded"} =>
          e.to \in {"HYPOTHESIS_SET_READY", "EPISTEMIC_REFRESH"}
    BY <1>1 DEF Transitions
  <2> QED BY <1>4, <1>11, <2>1 DEF Stage, Blocked
<1>15. ASSUME e.type = "hypotheses_recorded"
       PROVE  /\ View(l)'.ver = e.ver /\ View(l)'.iter = e.iter
              /\ ValidPortfolio(e.arts.hypotheses, Retired(l)')
  <2>1. View(l)' = v /\ Retired(l)' = Retired(l)
    BY <1>1, <1>2, <1>3, LooksStay
  <2>2. n = l /\ ValidPortfolio(e.arts.hypotheses, Retired(n))
    BY <1>2, <1>15 DEF Fits, Outside
  <2> QED BY <1>5, <1>15, <2>1, <2>2
<1>16. l + 1 > 1 /\ (l + 1) - 1 = l
  BY <1>2
<1> QED BY <1>2, <1>3, <1>4, <1>8, <1>9, <1>10, <1>11, <1>12, <1>13, <1>14, <1>15, <1>16 DEF EntryOk

\* Iterations are still counted up, and no key is used twice.
LEMMA NewOrder ==
    ASSUME Books, NEW l, NEW n, NEW e, Lands(l, n, e)
    PROVE  Ordered'
<1>1. /\ l \in 1..Len(log) /\ View(l).num \in Nat
  BY Landed
<1>2. /\ LogGrows /\ l \in Nat \ {0} /\ l = Len(log) /\ Len(log') = l + 1 /\ log'[l + 1].e = e
      /\ View(l + 1)'.num = Started(View(l), e) /\ \A i \in 1..l : log[i].e.key # e.key
  BY DEF Lands
<1>3. \A i \in 1..l + 1 : i \in 1..l \/ i = l + 1
  BY <1>2
<1>4. ASSUME NEW i \in 1..l
      PROVE  /\ log'[i] = log[i] /\ View(i)' = View(i)
             /\ View(i).num <= View(l).num /\ View(i).num \in Nat
  <2>1. i \in 1..Len(log) /\ i <= l
    BY <1>2
  <2>2. log'[i] = log[i] /\ View(i)' = View(i)
    BY <1>2, <2>1, LooksStay DEF LogGrows
  <2>3. View(i).num <= View(l).num
    BY <1>1, <2>1 DEF Books, Ordered
  <2>4. View(i).num \in Nat
    BY <2>1 DEF Books, EntryOk
  <2> QED BY <2>2, <2>3, <2>4
<1>5. View(l).num <= View(l + 1)'.num /\ View(l + 1)'.num \in Nat
  BY <1>1, <1>2 DEF Started
<1>6. \A i, j \in 1..l + 1 : i <= j => View(i)'.num <= View(j)'.num
  <2> SUFFICES ASSUME NEW i \in 1..l + 1, NEW j \in 1..l + 1, i <= j
               PROVE  View(i)'.num <= View(j)'.num
    OBVIOUS
  <2>1. CASE j \in 1..l
    <3>1. i \in 1..l
      BY <1>2, <2>1
    <3> QED BY <1>2, <1>4, <2>1, <3>1 DEF Books, Ordered
  <2>2. CASE j = l + 1 /\ i \in 1..l
    <3>1. View(i)' = View(i) /\ View(i).num <= View(l).num /\ View(i).num \in Nat
      BY <1>4, <2>2
    <3> QED BY <1>1, <1>5, <2>2, <3>1
  <2>3. CASE j = l + 1 /\ i = l + 1
    BY <1>5, <2>3
  <2> QED BY <1>3, <2>1, <2>2, <2>3
<1>7. \A i, j \in 1..l + 1 : i # j => log'[i].e.key # log'[j].e.key
  BY <1>2, <1>3, <1>4 DEF Books, Ordered
<1> QED BY <1>2, <1>6, <1>7 DEF Ordered

\* The attempts counted after one more event.
LEMMA Attempted ==
    ASSUME LogGrows, NEW l \in Nat \ {0}, l = Len(log), NEW e, log'[l + 1].e = e, NEW phase, NEW it
    PROVE  /\ Attempt(l, phase, it) \in Nat
           /\ Attempt(l + 1, phase, it)' = Attempt(l, phase, it)
                + (IF e.type = "run_resumed" /\ e.to = phase /\ e.iter = it THEN 1 ELSE 0)
<1> DEFINE S == {i \in 1..l : /\ log[i].e.type = "run_resumed"
                              /\ log[i].e.to = phase /\ log[i].e.iter = it}
           U == {i \in 1..l + 1 : /\ log'[i].e.type = "run_resumed"
                                  /\ log'[i].e.to = phase /\ log'[i].e.iter = it}
<1>1. IsFiniteSet(S) /\ Cardinality(S) \in Nat
  <2>1. IsFiniteSet(1..l)
    BY FS_Interval
  <2> QED BY <2>1, FS_Subset, FS_CardinalityType
<1>2. l + 1 \notin S
  OBVIOUS
<1>3. U = IF e.type = "run_resumed" /\ e.to = phase /\ e.iter = it THEN S \cup {l + 1} ELSE S
  <2>1. \A i \in 1..l : log'[i] = log[i]
    BY DEF LogGrows
  <2>2. \A i \in 1..l + 1 : i \in 1..l \/ i = l + 1
    OBVIOUS
  <2>3. 1..l \subseteq 1..l + 1 /\ l + 1 \in 1..l + 1
    OBVIOUS
  <2> QED BY <2>1, <2>2, <2>3
<1>4. Cardinality(S \cup {l + 1}) = Cardinality(S) + 1
  BY <1>1, <1>2, FS_AddElement
<1>5. Attempt(l, phase, it) = 1 + Cardinality(S) /\ Attempt(l + 1, phase, it)' = 1 + Cardinality(U)
  BY DEF Attempt
<1> HIDE DEF S, U
<1> QED BY <1>1, <1>3, <1>4, <1>5

\* Places are numbers.
LEMMA Places == \A phase : Place(phase) \in Nat
<1>1. ASSUME NEW phase PROVE Place(phase) \in Nat
  <2>1. CASE phase \in {"GOAL_FROZEN", "GOAL_FIDELITY_CHECK", "CLEAN_ROOM_GROUNDING",
                        "HYPOTHESIS_SET_READY", "CHALLENGE", "PACKET_READY"}
    BY <2>1 DEF Place, Waiting, Final
  <2>2. CASE phase \in {"POST_CHANGE_AUDIT", "ITERATION_CLOSED", "EPISTEMIC_REFRESH", Final}
                        \cup Waiting
    BY <2>2 DEF Place, Waiting, Final
  <2>3. CASE phase \notin {"GOAL_FROZEN", "GOAL_FIDELITY_CHECK", "CLEAN_ROOM_GROUNDING",
                           "HYPOTHESIS_SET_READY", "CHALLENGE", "PACKET_READY",
                           "POST_CHANGE_AUDIT", "ITERATION_CLOSED", "EPISTEMIC_REFRESH", Final}
                           \cup Waiting
    BY <2>3 DEF Place, Waiting, Final
  <2> QED BY <2>1, <2>2, <2>3
<1> QED BY <1>1

\* A turn belongs to one phase.
LEMMA OnePhase ==
    ASSUME NEW p, NEW q, NEW name, name \in TurnsOf(p), name \in TurnsOf(q)
    PROVE  p = q /\ q \in TurnPhases
<1> DEFINE R == Roles \cup Specialists
<1>1. \A name1 \in R : name1 \notin {"fidelity", "post-fidelity", "challenge", "synthesis",
                                     "auditor", "refresh", "final"}
  BY RunAssumption
<1>2. ASSUME NEW phase, name \in TurnsOf(phase)
      PROVE  \/ phase = "GOAL_FROZEN" /\ name = "fidelity"
             \/ phase = "GOAL_FIDELITY_CHECK" /\ name \in R
             \/ phase = "HYPOTHESIS_SET_READY" /\ name = "challenge"
             \/ phase = "CHALLENGE" /\ name = "synthesis"
             \/ phase = "POST_CHANGE_AUDIT" /\ name = "auditor"
             \/ phase = "ITERATION_CLOSED" /\ name \in {"post-fidelity", "refresh"}
             \/ phase = Final /\ name = "final"
  BY <1>2 DEF TurnsOf, Final
<1> HIDE DEF R
<1>3. p = q
  BY <1>1, <1>2
<1>4. q \in TurnPhases
  BY <1>2 DEF TurnPhases, Final
<1> QED BY <1>3, <1>4

\* What the run has left stays behind it.
LEMMA LeftOn ==
    ASSUME Books, NEW l, NEW n, NEW e, Lands(l, n, e), NEW k, Left(l, k)
    PROVE  Left(l + 1, k)'
<1>1. /\ l \in 1..Len(log) /\ EntryOk(l) /\ View(l).num \in Nat /\ Goal(1).specialists \in Nat
      /\ \/ /\ e.type = "run_blocked" /\ View(l).phase # Blocked /\ e.to = Blocked
         \/ e.type = "goal_amended" /\ e.to = "GOAL_FROZEN"
         \/ /\ e.type = "run_resumed" /\ View(l).phase = Blocked
            /\ e.to = View(l).blockedFrom /\ e.to # Blocked /\ e.to # ""
         \/ <<e.type, View(l).phase, e.to>> \in Transitions
  BY Landed
<1>2. PICK v, w : v = View(l) /\ w = View(l + 1)'
  OBVIOUS
<1>3. /\ w.phase = e.to /\ w.iter = e.iter /\ w.num = Started(v, e)
      /\ w.blockedFrom = IF e.type = "run_blocked" THEN v.phase
                         ELSE IF e.type \in {"goal_amended", "run_resumed", "goal_completed"} THEN ""
                         ELSE v.blockedFrom
      /\ e.type \notin {"next_iteration_started", "goal_amended"} => e.iter = v.iter
  BY <1>2 DEF Lands, Allowed
<1>4. \A q, it : /\ Attempt(l, q, it) \in Nat
                 /\ Attempt(l + 1, q, it)' = Attempt(l, q, it)
                      + (IF e.type = "run_resumed" /\ e.to = q /\ e.iter = it THEN 1 ELSE 0)
  <2>1. LogGrows /\ l \in Nat \ {0} /\ l = Len(log) /\ log'[l + 1].e = e
    BY DEF Lands
  <2>2. ASSUME NEW q, NEW it
        PROVE  /\ Attempt(l, q, it) \in Nat
               /\ Attempt(l + 1, q, it)' = Attempt(l, q, it)
                    + (IF e.type = "run_resumed" /\ e.to = q /\ e.iter = it THEN 1 ELSE 0)
    BY <2>1, Attempted
  <2> QED BY <2>2
<1>5. PICK q, name, it, a :
        /\ q \in TurnPhases /\ name \in TurnsOf(q) /\ it \in Nat /\ a \in Nat /\ k = <<name, it, a>>
        /\ \/ it < v.num
           \/ /\ it = v.num
              /\ \/ Place(q) < Place(Stage(v))
                 \/ /\ q = Stage(v)
                    /\ a < Attempt(l, q, v.iter) + (IF v.phase = Blocked THEN 1 ELSE 0)
  BY <1>2 DEF Left
<1>6. /\ v.num \in Nat /\ w.num \in Nat /\ v.num <= w.num
      /\ e.type \in Openings => v.num < w.num
      /\ e.type \notin Openings => w.num = v.num /\ w.iter = v.iter
  <2>1. v.num \in Nat
    BY <1>1, <1>2
  <2>2. e.type \in Openings => w.num = v.num + 1
    BY <1>3 DEF Started, Openings
  <2>3. e.type \notin Openings => w.num = v.num /\ w.iter = v.iter
    BY <1>3 DEF Started, Openings
  <2> QED BY <2>1, <2>2, <2>3
<1>7. SUFFICES \/ it < w.num
               \/ /\ it = w.num
                  /\ \/ Place(q) < Place(Stage(w))
                     \/ /\ q = Stage(w)
                        /\ a < Attempt(l + 1, q, w.iter)' + (IF w.phase = Blocked THEN 1 ELSE 0)
  BY <1>2, <1>5 DEF Left
<1>8. CASE it < v.num \/ e.type \in Openings
  BY <1>5, <1>6, <1>8
<1>9. CASE it = v.num /\ e.type = "run_blocked"
  <2>1. /\ v.phase # Blocked /\ w.phase = Blocked /\ Stage(w) = v.phase /\ Stage(v) = v.phase
        /\ w.num = v.num /\ w.iter = v.iter
    <3>1. v.phase # Blocked /\ e.to = Blocked
      BY <1>1, <1>2, <1>9, Passing
    <3> QED BY <1>3, <1>6, <1>9, <3>1 DEF Stage, Openings
  <2>2. Attempt(l, q, v.iter) \in Nat /\ Attempt(l + 1, q, w.iter)' = Attempt(l, q, v.iter)
    BY <1>4, <1>9, <2>1
  <2>3. a < Attempt(l, q, v.iter) => a < Attempt(l + 1, q, w.iter)' + 1
    BY <1>5, <2>2
  <2>4. a < Attempt(l, q, v.iter) + 0 => a < Attempt(l, q, v.iter)
    <3>1. a \in Nat
      BY <1>5
    <3> QED BY <2>2, <3>1
  <2> QED BY <1>5, <1>9, <2>1, <2>3, <2>4
<1>10. CASE it = v.num /\ e.type = "run_resumed"
  <2>1. /\ v.phase = Blocked /\ w.phase = e.to /\ w.phase # Blocked
        /\ Stage(w) = e.to /\ Stage(v) = e.to /\ w.num = v.num /\ w.iter = v.iter /\ e.iter = v.iter
    BY <1>1, <1>2, <1>3, <1>6, <1>10, Passing DEF Stage, Openings
  <2>2. CASE q = e.to
    <3>1. /\ Attempt(l, q, v.iter) \in Nat
          /\ Attempt(l + 1, q, w.iter)' = Attempt(l, q, v.iter) + 1
      BY <1>4, <1>10, <2>1, <2>2
    <3>2. a < Attempt(l, q, v.iter) + 1 => a < Attempt(l + 1, q, w.iter)' + 0
      BY <3>1
    <3> QED BY <1>5, <1>10, <2>1, <3>2
  <2>3. CASE q # e.to
    BY <1>5, <1>10, <2>1, <2>3
  <2> QED BY <2>2, <2>3
<1>11. CASE it = v.num /\ e.type \notin Openings \cup {"run_blocked", "run_resumed"}
  <2>1. <<e.type, v.phase, e.to>> \in Transitions /\ e.type # "next_iteration_started"
    BY <1>1, <1>2, <1>11 DEF Openings
  <2>2. /\ v.phase # Blocked /\ e.to # Blocked
        /\ Place(v.phase) < Place(e.to) \/ (v.phase \in Waiting /\ Place(v.phase) = Place(e.to))
    <3>1. Goal(1).specialists \in Nat
      BY <1>1
    <3> QED BY <2>1, <3>1, Passing
  <2>3. Stage(v) = v.phase /\ Stage(w) = e.to /\ w.num = v.num
    BY <1>3, <1>6, <1>11, <2>2 DEF Stage
  <2>4. Place(q) \in Nat /\ Place(v.phase) \in Nat /\ Place(e.to) \in Nat
    BY Places
  <2>5. Place(q) < Place(v.phase) => Place(q) < Place(e.to)
    BY <2>2, <2>4
  <2>6. q = v.phase => Place(q) < Place(e.to)
    <3>1. v.phase \in Waiting => v.phase \notin TurnPhases
      BY DEF Waiting, TurnPhases
    <3> QED BY <1>5, <2>2, <3>1
  <2> QED BY <1>5, <1>11, <2>3, <2>5, <2>6
<1> QED BY <1>5, <1>8, <1>9, <1>10, <1>11

\* The turns an event charges are left behind by it.
LEMMA LeftNow ==
    ASSUME Books, NEW l, NEW n, NEW e, Lands(l, n, e), e.turns # 0,
           NEW name, name \in TurnsOf(View(n).phase), NEW k, k = Key(n, name)
    PROVE  n = l /\ ~Left(l, k) /\ Left(l + 1, k)'
<1>1. /\ l \in 1..Len(log) /\ EntryOk(l) /\ e.turns \in Nat /\ View(l).num \in Nat
      /\ Goal(1).specialists \in Nat
      /\ \/ /\ e.type = "run_blocked" /\ View(l).phase # Blocked /\ e.to = Blocked
         \/ e.type = "goal_amended" /\ e.to = "GOAL_FROZEN"
         \/ /\ e.type = "run_resumed" /\ View(l).phase = Blocked
            /\ e.to = View(l).blockedFrom /\ e.to # Blocked /\ e.to # ""
         \/ <<e.type, View(l).phase, e.to>> \in Transitions
  BY Landed
<1>2. e.type \notin Outside \cup Openings \cup {"run_resumed"}
  <2>1. SUFFICES ASSUME e.type \in Outside \cup Openings \cup {"run_resumed"} PROVE FALSE
    OBVIOUS
  <2>2. e.turns <= Cost(e.type) /\ Cost(e.type) = 0
    <3>1. Cost(e.type) = 0
      BY <2>1 DEF Cost, Outside, Openings
    <3>2. e.type # "run_blocked"
      BY <2>1 DEF Outside, Openings
    <3>3. Fits(n, e)
      BY DEF Lands
    <3>4. e.type # "run_blocked" => e.turns <= Cost(e.type)
      BY <3>3 DEF Fits
    <3> QED BY <3>1, <3>2, <3>4
  <2>3. PICK t : t = e.turns /\ t \in Nat
    BY <1>1
  <2>4. t # 0 /\ t <= 0
    BY <2>2, <2>3
  <2> QED BY <2>3, <2>4
<1>3. PICK v, w : v = View(l) /\ w = View(l + 1)' /\ n = l
  BY <1>2 DEF Lands
<1>4. /\ w.phase = e.to /\ w.num = v.num /\ w.iter = v.iter
      /\ e.type = "run_blocked" => w.blockedFrom = v.phase
  BY <1>2, <1>3 DEF Lands, Allowed, Started, Openings
<1>5. PICK q \in TurnPhases : q = v.phase /\ name \in TurnsOf(q)
  BY <1>3, OnePhase
<1>6. q # Blocked /\ q \notin Waiting /\ Stage(v) = q
  BY <1>5 DEF TurnPhases, Blocked, Waiting, Stage
<1>7. PICK a : a = Attempt(l, q, v.iter)
  OBVIOUS
<1>7a. a \in Nat /\ Attempt(l + 1, q, v.iter)' = a + 0
  <2>1. LogGrows /\ l \in Nat \ {0} /\ l = Len(log) /\ log'[l + 1].e = e
    BY DEF Lands
  <2>2. /\ Attempt(l, q, v.iter) \in Nat
        /\ Attempt(l + 1, q, v.iter)' = Attempt(l, q, v.iter)
             + (IF e.type = "run_resumed" /\ e.to = q /\ e.iter = v.iter THEN 1 ELSE 0)
    BY <2>1, Attempted
  <2> QED BY <1>2, <1>7, <2>2
<1>8. v.num \in Nat /\ Place(q) \in Nat /\ k = <<name, v.num, a>>
  BY <1>1, <1>3, <1>5, <1>7, Places DEF Key
<1>9. ~Left(l, <<name, v.num, a>>)
  <2> SUFFICES ASSUME NEW q1 \in TurnPhases, NEW name1 \in TurnsOf(q1), NEW it \in Nat,
                      NEW b \in Nat, <<name, v.num, a>> = <<name1, it, b>>,
                      \/ it < v.num
                      \/ /\ it = v.num
                         /\ \/ Place(q1) < Place(Stage(v))
                            \/ q1 = Stage(v) /\ b < Attempt(l, q1, v.iter) + 0
               PROVE  FALSE
    BY <1>3, <1>5, <1>6 DEF Left
  <2>1. name = name1 /\ it = v.num /\ b = a
    OBVIOUS
  <2>2. q1 = q
    BY <1>5, <2>1, OnePhase
  <2> QED BY <1>6, <1>7, <1>7a, <1>8, <2>1, <2>2
<1>10. Left(l + 1, k)'
  <2>1. PICK it \in Nat : it = w.num /\ k = <<name, it, a>>
    BY <1>4, <1>8
  <2>1a. SUFFICES \/ Place(q) < Place(Stage(w))
                  \/ q = Stage(w) /\ a < Attempt(l + 1, q, w.iter)' + (IF w.phase = Blocked THEN 1 ELSE 0)
    BY <1>3, <1>5, <1>7a, <2>1 DEF Left
  <2>2. CASE e.type = "run_blocked"
    <3>1. Stage(w) = q /\ w.phase = Blocked
      BY <1>1, <1>3, <1>4, <1>5, <2>2 DEF Stage, Transitions
    <3>2. a < a + 0 + 1
      BY <1>7a
    <3> QED BY <1>4, <1>7a, <3>1, <3>2
  <2>3. CASE e.type # "run_blocked"
    <3>1. <<e.type, v.phase, e.to>> \in Transitions /\ e.type # "next_iteration_started"
      BY <1>1, <1>2, <1>3, <2>3 DEF Openings
    <3>2. e.to # Blocked /\ Place(q) < Place(e.to)
      BY <1>1, <1>5, <1>6, <3>1, Passing
    <3> QED BY <1>4, <3>2 DEF Stage
  <2> QED BY <2>2, <2>3
<1> QED BY <1>3, <1>8, <1>9, <1>10

\* As many checkpoints as turns.
LEMMA AsMany ==
    ASSUME NEW T, IsFiniteSet(T), NEW n
    PROVE  /\ IsFiniteSet({Key(n, name) : name \in T})
           /\ Cardinality({Key(n, name) : name \in T}) = Cardinality(T)
<1> DEFINE K == {Key(n, name) : name \in T}
           f == [name \in T |-> Key(n, name)]
<1>1. f \in Surjection(T, K)
  BY DEF Surjection
<1>2. \A x, y \in T : Key(n, x) = Key(n, y) => x = y
  BY DEF Key
<1>3. f \in Injection(T, K)
  BY <1>1, <1>2 DEF Injection, Surjection, IsInjective
<1> HIDE DEF f, K
<1>4. IsFiniteSet(K) /\ Cardinality(K) = Cardinality(T)
  BY <1>1, <1>3, FS_Surjection
<1> QED BY <1>4 DEF K

\* The ledger is kept.
LEMMA NewLedger ==
    ASSUME Books, NEW l, NEW n, NEW e, Lands(l, n, e), DOMAIN ckpt' = DOMAIN ckpt
    PROVE  Ledger'
<1>1. PICK T : /\ T \subseteq TurnsOf(View(n).phase) /\ IsFiniteSet(T) /\ e.turns = Cardinality(T)
               /\ \A name \in T : Key(n, name) \in DOMAIN ckpt
  BY DEF Lands, Fits, Paid
<1>2. PICK K : K = {Key(n, name) : name \in T}
  OBVIOUS
<1>3. IsFiniteSet(K) /\ Cardinality(K) = e.turns /\ e.turns \in Nat
  BY <1>1, <1>2, AsMany, FS_CardinalityType
<1>4. PICK A, B : A = Behind(l) /\ B = Behind(l + 1)'
  OBVIOUS
<1>5. A \subseteq B
  BY <1>4, LeftOn DEF Behind
<1>6. K \subseteq B /\ K \cap A = {}
  <2>1. CASE e.turns = 0
    BY <1>1, <1>2, <2>1, FS_EmptySet
  <2>2. CASE e.turns # 0
    <3>1. ASSUME NEW k \in K PROVE k \in B /\ k \notin A
      <4>1. PICK name \in T : k = Key(n, name)
        BY <1>2
      <4>2. ~Left(l, k) /\ Left(l + 1, k)' /\ k \in DOMAIN ckpt'
        BY <1>1, <2>2, <4>1, LeftNow
      <4> QED BY <1>4, <4>2 DEF Behind
    <3> QED BY <3>1
  <2> QED BY <2>1, <2>2
<1>7. IsFiniteSet(B) /\ IsFiniteSet(A) /\ IsFiniteSet(DOMAIN ckpt')
  <2>1. IsFiniteSet(DOMAIN ckpt) /\ A \subseteq DOMAIN ckpt /\ B \subseteq DOMAIN ckpt'
    BY <1>4 DEF Behind, Books, Ledger
  <2> QED BY <2>1, FS_Subset
<1>8. Cardinality(A \cup K) = Cardinality(A) + Cardinality(K) - Cardinality(A \cap K)
  BY <1>3, <1>7, FS_Union
<1>9. Cardinality(A \cup K) <= Cardinality(B) /\ Cardinality(A \cap K) = 0
  <2>1. A \cap K = {} /\ A \cup K \subseteq B
    BY <1>5, <1>6
  <2> QED BY <1>7, <2>1, FS_Subset, FS_EmptySet
<1>10. Cardinality(A) \in Nat /\ Cardinality(B) \in Nat
  BY <1>7, FS_CardinalityType
<1>11. Cardinality(A) + e.turns <= Cardinality(B)
  <2>1. Cardinality(A) + e.turns - 0 <= Cardinality(B)
    BY <1>3, <1>8, <1>9
  <2> QED BY <1>3, <1>10, <2>1
<1>12. /\ View(l).turns \in Nat /\ View(l).turns <= Cardinality(A)
  BY <1>4, Landed DEF Books, Ledger, Lands, Current
<1>13. Current'.turns = View(l).turns + e.turns
  <2>1. Len(log') = l + 1 /\ View(l + 1)'.turns = View(l).turns + e.turns
    BY DEF Lands
  <2> QED BY <2>1 DEF Current
<1>14. Current'.turns <= Cardinality(B)
  BY <1>3, <1>10, <1>11, <1>12, <1>13
<1>15. B = Behind(Len(log))'
  <2>1. Len(log') = l + 1
    BY DEF Lands
  <2> QED BY <1>4, <2>1 DEF Behind
<1> QED BY <1>7, <1>14, <1>15 DEF Ledger

\* An event that is appended keeps the books, and so does one that is refused.
LEMMA AppendPays ==
    ASSUME RunInv, Books, NEW p \in Procs, AppendEvent(p)
    PROVE  Books'
<1>1. PICK e, n, l : e = proc[p].e /\ n = proc[p].n /\ l = Len(log)
  OBVIOUS
<1>2. proc[p].pc = "append" /\ UNCHANGED <<files, repo>>
  BY DEF AppendEvent
<1>3. ContractsOk' /\ FilesKept
  BY <1>2 DEF Books, ContractsOk, Goal, FilesKept
<1>4. n \in 1..Len(log) /\ DOMAIN proc = Procs /\ DOMAIN proc[p] = DOMAIN Idle
  BY <1>1, <1>2 DEF RunInv, ProcsOk, ProcOk
<1>5. PendingOk(Idle)'
  BY DEF PendingOk, Idle
<1>6. CASE /\ CanAppend(proc[p].e)
           /\ log' = Append(log, [e |-> proc[p].e, after |-> Reduce(Current, proc[p].e)])
           /\ proc' = [proc EXCEPT ![p] = Idle]
           /\ ckpt' = IF \E q \in Procs : proc[q].pc = "turns" THEN ckpt
                      ELSE [k \in DOMAIN ckpt |-> [st |-> "done", ans |-> NoEvent]]
  <2>1. Lands(l, n, e)
    BY <1>1, <1>2, <1>6, Landing
  <2>2. l \in Nat \ {0} /\ l = Len(log) /\ Len(log') = l + 1 /\ LogGrows
    BY <2>1 DEF Lands
  <2>3. DOMAIN ckpt' = DOMAIN ckpt
    BY <1>6
  <2>4. Sundries'
    <3>1. CASE \E q \in Procs : proc[q].pc = "turns"
      BY <1>2, <1>6, <3>1 DEF Books, Sundries
    <3>2. CASE ~\E q \in Procs : proc[q].pc = "turns"
      <4>1. \A k \in DOMAIN ckpt' : ckpt'[k] = [st |-> "done", ans |-> NoEvent]
        BY <1>6, <3>2
      <4> QED BY <1>2, <4>1 DEF Books, Sundries
    <3> QED BY <3>1, <3>2
  <2>5. \A i \in 1..Len(log') : EntryOk(i)'
    <3>1. ASSUME NEW i \in 1..l PROVE EntryOk(i)'
      BY <1>3, <2>2, EntryStays DEF RunInv, Books
    <3>2. EntryOk(l + 1)'
      BY <2>1, NewEntry
    <3>3. \A i \in 1..l + 1 : i \in 1..l \/ i = l + 1
      BY <2>2
    <3> QED BY <2>2, <3>1, <3>2, <3>3
  <2>6. Ordered' /\ Ledger'
    BY <2>1, <2>3, NewOrder, NewLedger
  <2>7. \A q \in Procs : PendingOk(proc[q])'
    <3>1. \A q \in Procs : q # p => PendingOk(proc[q])'
      BY <1>3, <1>4, <1>6, <2>2, <2>3, OthersPend DEF Grows
    <3>2. PendingOk(proc[p])'
      BY <1>4, <1>5, <1>6
    <3> QED BY <3>1, <3>2
  <2> QED BY <1>3, <2>4, <2>5, <2>6, <2>7 DEF Books
<1>7. CASE /\ proc' = [proc EXCEPT ![p] =
                IF proc[p].cmd = "advance" /\ ~IsReplay(e) /\ e.type \notin {"run_blocked", "run_resumed"}
                THEN [@ EXCEPT !.e = BlockEvent(proc[p].n, Nothing, 0)] ELSE Idle]
           /\ UNCHANGED <<log, ckpt>>
  <2>1. Grows /\ IsFiniteSet(DOMAIN ckpt') /\ Sundries' /\ log' = log /\ RunInv
    BY <1>2, <1>3, <1>7 DEF Grows, Books, Ledger, Sundries, LogGrows, RunInv, LogShape
  <2>2. CASE proc' = [proc EXCEPT ![p] = Idle]
    BY <1>3, <1>5, <2>1, <2>2, BooksMove
  <2>3. CASE proc' = [proc EXCEPT ![p] = [@ EXCEPT !.e = BlockEvent(proc[p].n, Nothing, 0)]]
    <3>1. PICK b : b = BlockEvent(n, Nothing, 0)
      OBVIOUS
    <3>2. Fits(n, b) /\ b.iter = View(n).iter
      BY <3>1, BlockFits, NothingPaid DEF Nothing
    <3>3. Fits(n, b)' /\ <<"baseline", b.iter>> \in DOMAIN files'
      <4>1. <<"baseline", b.iter>> \in DOMAIN files
        BY <1>4, <3>2, Seen
      <4> QED BY <1>2, <1>4, <2>1, <3>2, <4>1, FitsStays DEF Books
    <3>4. PICK x : x = [proc[p] EXCEPT !.e = b]
      OBVIOUS
    <3>5. x.pc = "append" /\ x.n = n /\ x.e = b
      BY <1>1, <1>2, <1>4, <3>4 DEF Idle
    <3>6. PendingOk(x)'
      BY <3>3, <3>5 DEF PendingOk
    <3>7. proc' = [proc EXCEPT ![p] = x]
      BY <1>1, <1>4, <2>3, <3>1, <3>4
    <3> QED BY <1>3, <2>1, <3>6, <3>7, BooksMove
  <2> QED BY <1>7, <2>2, <2>3
<1> QED BY <1>1, <1>6, <1>7 DEF AppendEvent

\* The books of a new run.
LEMMA BooksInit == Init => Books
<1> SUFFICES ASSUME Init PROVE Books
  OBVIOUS
<1>1. PICK g \in Contracts :
        /\ g.version = 1 /\ ValidContract(g)
        /\ files = Over(Entry(<<"goal", 1>>, g), Entry(<<"baseline", 1>>, repo))
  BY DEF Init
<1>2. PICK e : /\ e.type = "run_initialized" /\ e.iter = 1 /\ e.ver = 1 /\ e.arts = Nothing
               /\ log = <<[e |-> e, after |-> Fresh]>>
  BY DEF Init
<1>3. Len(log) = 1 /\ log[1].e = e /\ View(1) = Fresh
  BY <1>2 DEF View
<1>4a. PICK v : v = View(1)
  OBVIOUS
<1>4b. /\ v.phase = "GOAL_FROZEN" /\ v.turns = 0 /\ v.num = 1 /\ v.iter = 1 /\ v.blockedFrom = ""
  <2>1. /\ Fresh.phase = "GOAL_FROZEN" /\ Fresh.turns = 0 /\ Fresh.num = 1 /\ Fresh.iter = 1
        /\ Fresh.blockedFrom = ""
    BY DEF Fresh
  <2> QED BY <1>3, <1>4a, <2>1
<1>4. DOMAIN files = {<<"goal", 1>>, <<"baseline", 1>>} /\ Goal(1) = g
  BY <1>1 DEF Over, Entry, Goal
<1>5. ContractsOk
  <2>1. \A ver : <<"goal", ver>> \in DOMAIN files => ver = 1
    BY <1>4
  <2> QED BY <1>1, <1>4, <2>1 DEF ContractsOk
<1>6. \A i \in 1..Len(log) : i = 1
  BY <1>3
<1>7. Goal(1).turns \in Nat /\ Goal(1).iterations \in Nat /\ Goal(1).iterations >= 1
  <2>1. g.iterations \in 1..100 /\ g.turns \in MinimumSlice(g)..10000 /\ g.specialists \in 0..2
    BY <1>1 DEF ValidContract, ValidBudgets
  <2>2. MinimumSlice(g) \in Nat
    BY <2>1 DEF MinimumSlice
  <2> QED BY <1>4, <2>1, <2>2
<1>8. EntryOk(1)
  <2>2. "GOAL_FROZEN" \in Phases /\ Due("GOAL_FROZEN") = 0 /\ "GOAL_FROZEN" # Blocked
    <3>1. "GOAL_FROZEN" \in Phases
      BY DEF Phases, Transitions
    <3>2. "GOAL_FROZEN" \notin Waiting
      BY DEF Waiting
    <3>3. Due("GOAL_FROZEN") = 0
      BY <3>2 DEF Due, Final
    <3> QED BY <3>1, <3>3 DEF Blocked
  <2>3. Labelled(e)
    BY <1>2 DEF Labelled, Nothing
  <2>4. e.type \notin Openings \cup {"hypotheses_recorded", "epistemic_refresh_recorded"}
    BY <1>2 DEF Openings
  <2>5. <<"baseline", 1>> \in DOMAIN files /\ 1 \in 1..1
    BY <1>4
  <2>6. v.phase \in Phases /\ v.phase # Blocked /\ v.blockedFrom \in Phases \cup {""}
    BY <1>4b, <2>2
  <2>7. v.turns \in Nat /\ v.turns <= Goal(1).turns /\ v.num \in Nat /\ v.num <= Goal(1).iterations
    <3>1. PICK t, i : t = Goal(1).turns /\ i = Goal(1).iterations
      OBVIOUS
    <3>2. 0 <= t /\ 1 <= i
      BY <1>7, <3>1
    <3>3. v.turns \in Nat /\ v.num \in Nat
      <4>1. v.turns = 0 /\ v.num = 1
        BY <1>4b
      <4> QED BY <4>1
    <3>4. v.turns <= t
      BY <1>4b, <3>2
    <3>5. v.num <= i
      BY <1>4b, <3>2
    <3> QED BY <3>1, <3>3, <3>4, <3>5
  <2>8. v.turns <= Due(v.phase)
    <3>1. Due(v.phase) = 0
      BY <1>4b, <2>2
    <3>2. v.turns <= 0
      <4>1. v.turns = 0
        BY <1>4b
      <4> QED BY <4>1
    <3> QED BY <3>1, <3>2
  <2>9. v.iter \in 1..v.num /\ v.iter = e.iter /\ <<"baseline", v.iter>> \in DOMAIN files /\ v.iter = v.num
    BY <1>2, <1>4b, <2>5
  <2> QED BY <1>3, <1>4a, <2>3, <2>4, <2>6, <2>7, <2>8, <2>9 DEF EntryOk
<1>9. Ordered
  <2>1. View(1).num = 1
    BY <1>4a, <1>4b
  <2>2. \A i, j \in 1..Len(log) : i = 1 /\ j = 1
    BY <1>6
  <2> QED BY <2>1, <2>2 DEF Ordered
<1>10. ckpt = Nothing /\ proc = [p \in Procs |-> Idle] /\ repo \in Snaps
  BY DEF Init
<1>11. Ledger
  <2>1. DOMAIN ckpt = {}
    BY <1>10 DEF Nothing
  <2>2. Behind(Len(log)) = {}
    BY <2>1 DEF Behind
  <2>3. Current.turns = 0
    <3>1. Current = v
      BY <1>3, <1>4a DEF Current
    <3> QED BY <1>4b, <3>1
  <2> QED BY <2>1, <2>2, <2>3, FS_EmptySet DEF Ledger
<1>12. Sundries
  BY <1>10 DEF Sundries, Nothing
<1>13. \A p \in Procs : PendingOk(proc[p])
  BY <1>10 DEF PendingOk, Idle
<1> QED BY <1>3, <1>5, <1>6, <1>8, <1>9, <1>11, <1>12, <1>13 DEF Books

\* The books are kept.
LEMMA BooksKeep == RunInv /\ Books /\ [Next]_vars => Books'
<1> SUFFICES ASSUME RunInv, Books, [Next]_vars PROVE Books'
  OBVIOUS
<1>1. ASSUME NEW p \in Procs, Advance(p) PROVE Books'
  <2>1. CASE \E name \in proc[p].names :
               TurnSubmit(p, name) \/ TurnAnswer(p, name) \/ TurnPending(p, name) \/ TurnFail(p, name)
    BY <2>1, Submits, Answered, GivesUp
  <2>2. CASE StartTurns(p) \/ SpecialistTurns(p)
    BY <2>2, StartsFitting, SpecialistsFitting
  <2>3. CASE BatchPending(p) \/ BatchFailed(p) \/ RefreshTurn(p)
    BY <2>3, BatchEndsPaid
  <2>4. CASE Fidelity(p) \/ Challenge(p) \/ Synthesis(p) \/ PostAudit(p) \/ FinalAudit(p)
    BY <2>4, ReportsPaid
  <2>5. CASE Grounding(p) \/ EpistemicRefresh(p)
    BY <2>5, GroundingPaid, RefreshPaid
  <2>6. CASE Resume(p) \/ Hypotheses(p) \/ PacketReady(p) \/ RefreshDecision(p)
    BY <2>6, DecidesPaid
  <2> QED BY <1>1, <2>1, <2>2, <2>3, <2>4, <2>5, <2>6 DEF Advance
<1>2. ASSUME NEW p \in Procs, NEW g \in Contracts, Amend(p, g) PROVE Books'
  BY <1>2, AmendsFitting
<1>3. ASSUME NEW p \in Procs, RecordCodex(p) \/ RecordVerification(p) PROVE Books'
  BY <1>3, ReceivesPaid
<1>4. ASSUME NEW p \in Procs, AppendEvent(p) PROVE Books'
  BY <1>4, AppendPays
<1>5. CASE (\E p \in Procs : Crash(p)) \/ (\E s \in Snaps : Edit(s)) \/ UNCHANGED vars
  BY <1>5, EnvironmentPays
<1> QED BY <1>1, <1>2, <1>3, <1>4, <1>5 DEF Next

-----------------------------------------------------------------------------
(* What the books show.                                                    *)

\* The books are kept by every run.
LEMMA BooksAreKept == Spec => [](RunInv /\ Books)
<1>1. RunInv /\ Books /\ [Next]_vars => (RunInv /\ Books)'
  BY StepKeeps, BooksKeep DEF Keeps
<1>2. Init => RunInv /\ Books
  BY InitInv, BooksInit
<1> QED BY <1>1, <1>2, PTL DEF Spec

\* The contract of the first goal version sets numbers.
LEMMA Bounds ==
    ASSUME ContractsOk
    PROVE  /\ Goal(1).turns \in Nat /\ Goal(1).iterations \in Nat /\ Goal(1).specialists \in Nat
           /\ Goal(1).turns >= 11 + Goal(1).specialists
<1>1. PICK g : g = Goal(1) /\ g.iterations \in 1..100 /\ g.turns \in 11 + g.specialists..10000
               /\ g.specialists \in 0..2
  BY DEF ContractsOk, ValidContract, ValidBudgets, MinimumSlice
<1>2. g.specialists \in Nat
  BY <1>1
<1>3. 11 + g.specialists \in Nat
  BY <1>2
<1>4. g.turns \in Nat /\ g.turns >= 11 + g.specialists /\ g.iterations \in Nat
  BY <1>1, <1>3
<1> QED BY <1>1, <1>2, <1>4

\* Every event leads to a phase of the state machine, within the budgets, and
\* names a goal version and an iteration whose artifacts are on disk.
THEOREM RunTypes == Spec => []TypeOK
<1>1. ASSUME RunInv, Books PROVE TypeOK
  <2>1. /\ Goal(1).turns \in Nat /\ Goal(1).iterations \in Nat
    BY <1>1, Bounds DEF Books
  <2>2. ASSUME NEW i \in 1..Len(log)
        PROVE  /\ log[i].after.phase \in Phases
               /\ log[i].after.turns \in 0..Goal(1).turns
               /\ log[i].after.num \in 1..Goal(1).iterations
               /\ log[i].after.iter \in 1..log[i].after.num
               /\ <<"goal", log[i].after.ver>> \in DOMAIN files
               /\ <<"baseline", log[i].after.iter>> \in DOMAIN files
    <3>1. PICK v : v = View(i) /\ v = log[i].after
      BY DEF View
    <3>2. /\ v.phase \in Phases /\ v.turns \in Nat /\ v.turns <= Goal(1).turns
          /\ v.num \in Nat /\ v.num <= Goal(1).iterations /\ v.iter \in 1..v.num
          /\ <<"baseline", v.iter>> \in DOMAIN files
      BY <1>1, <3>1 DEF Books, EntryOk
    <3>3. <<"goal", v.ver>> \in DOMAIN files
      BY <1>1, <3>1 DEF RunInv, Contracted
    <3>4. v.turns \in 0..Goal(1).turns
      BY <2>1, <3>2
    <3>5. v.num \in 1..Goal(1).iterations
      <4>1. v.num >= 1
        BY <3>2
      <4> QED BY <2>1, <3>2, <4>1
    <3> QED BY <3>1, <3>2, <3>3, <3>4, <3>5
  <2>3. repo \in Snaps /\ \A k \in DOMAIN ckpt : ckpt[k].st \in {"submitted", "ok", "done"}
    BY <1>1 DEF Books, Sundries
  <2>4. ASSUME NEW p \in Procs
        PROVE  proc[p].pc \in {"idle", "turns", "append"} /\ proc[p].n \in 0..Len(log)
    <3>1. ProcOk(proc[p]) /\ PendingOk(proc[p]) /\ Len(log) \in Nat
      BY <1>1 DEF RunInv, ProcsOk, Books, LogShape
    <3>2. proc[p].pc = "idle" => proc[p].n = 0
      BY <3>1 DEF PendingOk
    <3>3. proc[p].pc # "idle" => proc[p].n \in 1..Len(log)
      BY <3>1 DEF ProcOk
    <3> QED BY <3>1, <3>2, <3>3 DEF ProcOk
  <2> QED BY <2>2, <2>3, <2>4 DEF TypeOK
<1> QED BY <1>1, BooksAreKept, PTL

\* The budget is never charged for a turn that was not submitted, whatever
\* fails, is retried, recovered or raced with.
THEOREM ChargesWereSubmitted == Spec => []NeverOvercharged
<1>1. ASSUME RunInv, Books PROVE NeverOvercharged
  <2>1. /\ IsFiniteSet(DOMAIN ckpt) /\ Behind(Len(log)) \subseteq DOMAIN ckpt
        /\ Current.turns <= Cardinality(Behind(Len(log)))
    BY <1>1 DEF Books, Ledger, Behind
  <2>2. PICK b, d, t : /\ b = Cardinality(Behind(Len(log))) /\ d = Cardinality(DOMAIN ckpt)
                       /\ t = Current.turns
    OBVIOUS
  <2>3. b \in Nat /\ d \in Nat /\ b <= d
    BY <2>1, <2>2, FS_Subset, FS_CardinalityType
  <2>4. t \in Nat
    <3>1. Len(log) \in 1..Len(log)
      BY <1>1 DEF RunInv, LogShape
    <3> QED BY <1>1, <2>2, <3>1 DEF Books, EntryOk, Current
  <2>5. t <= d
    BY <2>1, <2>2, <2>3, <2>4
  <2> QED BY <2>2, <2>5 DEF NeverOvercharged
<1> QED BY <1>1, BooksAreKept, PTL

\* The least budget a contract may have covers one iteration with all the
\* specialists it may have and the final audit.
THEOREM MinimumSliceIsEnough == Spec => []MinimumSliceSuffices
<1>1. ASSUME RunInv, Books, \A i \in 1..Len(log) : log[i].e.iter = 1 /\ log[i].e.type # "run_blocked"
      PROVE  /\ Current.phase \in TurnPhases => HasBudget(Len(log), TurnsNeeded(Current.phase))
             /\ Current.phase = "GOAL_FIDELITY_CHECK" =>
                  HasBudget(Len(log), Cardinality(Roles) + Goal(1).specialists)
             /\ Current.phase = "EPISTEMIC_REFRESH" => HasBudget(Len(log), 1)
  <2>1. PICK l : l = Len(log) /\ l \in 1..Len(log)
    BY <1>1 DEF RunInv, LogShape
  <2>2. PICK v : v = View(l) /\ v = Current
    BY <2>1 DEF Current
  <2>3. \A j \in 1..l : Smooth(log[j].e)
    BY <1>1, <2>1 DEF Smooth
  <2>4. v.turns \in Nat /\ v.turns <= Due(v.phase)
    BY <1>1, <2>1, <2>2, <2>3 DEF Books, EntryOk
  <2>5. PICK s, b, t : s = Goal(1).specialists /\ b = Goal(1).turns /\ t = v.turns
    OBVIOUS
  <2>6. s \in Nat /\ b \in Nat /\ b >= 11 + s /\ t \in Nat /\ t <= Due(v.phase)
    BY <1>1, <2>4, <2>5, Bounds DEF Books
  <2>7. Cardinality(Roles) = 4 /\ \A x : Cardinality({x}) = 1
    BY RunAssumption, FS_Singleton
  <2>8. v.phase \in TurnPhases => t + TurnsNeeded(v.phase) <= b
    <3>1. CASE v.phase = "GOAL_FROZEN"
      <4>1. Due(v.phase) = 0 /\ TurnsNeeded(v.phase) = 1
        BY <2>7, <3>1 DEF Due, TurnsNeeded, FirstBatch, Waiting, Final
      <4> QED BY <2>6, <4>1
    <3>2. CASE v.phase = "GOAL_FIDELITY_CHECK"
      <4>1. Due(v.phase) = 1 /\ TurnsNeeded(v.phase) = 4
        BY <2>7, <3>2 DEF Due, TurnsNeeded, FirstBatch, Waiting, Final
      <4> QED BY <2>6, <4>1
    <3>3. CASE v.phase = "HYPOTHESIS_SET_READY"
      <4>1. Due(v.phase) = 5 + s /\ TurnsNeeded(v.phase) = 1
        BY <2>5, <2>7, <3>3 DEF Due, TurnsNeeded, FirstBatch, Waiting, Final
      <4> QED BY <2>6, <4>1
    <3>4. CASE v.phase = "CHALLENGE"
      <4>1. Due(v.phase) = 6 + s /\ TurnsNeeded(v.phase) = 1
        BY <2>5, <2>7, <3>4 DEF Due, TurnsNeeded, FirstBatch, Waiting, Final
      <4> QED BY <2>6, <4>1
    <3>5. CASE v.phase = "POST_CHANGE_AUDIT"
      <4>1. Due(v.phase) = 7 + s /\ TurnsNeeded(v.phase) = 1
        BY <2>5, <2>7, <3>5 DEF Due, TurnsNeeded, FirstBatch, Waiting, Final
      <4> QED BY <2>6, <4>1
    <3>6. CASE v.phase = "ITERATION_CLOSED"
      <4>1. Due(v.phase) = 8 + s /\ TurnsNeeded(v.phase) = 2
        BY <2>5, <2>7, <3>6 DEF Due, TurnsNeeded, FirstBatch, Waiting, Final
      <4> QED BY <2>6, <4>1
    <3>7. CASE v.phase = Final
      <4>1. Due(v.phase) = 10 + s /\ TurnsNeeded(v.phase) = 1
        BY <2>5, <2>7, <3>7 DEF Due, TurnsNeeded, FirstBatch, Waiting, Final
      <4> QED BY <2>6, <4>1
    <3> QED BY <3>1, <3>2, <3>3, <3>4, <3>5, <3>6, <3>7 DEF TurnPhases, Final
  <2>9. v.phase = "GOAL_FIDELITY_CHECK" => t + (Cardinality(Roles) + s) <= b
    <3>1. v.phase = "GOAL_FIDELITY_CHECK" => Due(v.phase) = 1
      BY DEF Due, Waiting, Final
    <3> QED BY <2>6, <2>7, <3>1
  <2>10. v.phase = "EPISTEMIC_REFRESH" => t + 1 <= b
    <3>1. v.phase = "EPISTEMIC_REFRESH" => Due(v.phase) = 10 + s
      BY <2>5 DEF Due, Waiting, Final
    <3> QED BY <2>6, <3>1
  <2> QED BY <2>1, <2>2, <2>5, <2>8, <2>9, <2>10 DEF HasBudget
<1>2. RunInv /\ Books => MinimumSliceSuffices
  BY <1>1 DEF MinimumSliceSuffices
<1> QED BY <1>2, BooksAreKept, PTL

\* Two events of one name for the same goal version and iteration, and two
\* refreshes of an iteration, are the same.
LEMMA Once ==
    ASSUME Books, NEW i \in 1..Len(log), NEW j \in 1..Len(log),
           log[i].e.type = log[j].e.type, log[i].e.iter = log[j].e.iter,
           \/ log[i].e.type = "hypotheses_recorded" /\ log[i].e.ver = log[j].e.ver
           \/ log[i].e.type = "epistemic_refresh_recorded"
    PROVE  i = j
<1>1. Labelled(log[i].e) /\ Labelled(log[j].e)
  BY DEF Books, EntryOk
<1>2. log[i].e.key = log[j].e.key
  BY <1>1 DEF Labelled
<1> QED BY <1>2 DEF Books, Ordered

\* A hypothesis that a refresh rejected is not taken up again for the same goal
\* version unless a condition changed, however many iterations later.
THEOREM RejectedIsRetired == Spec => []NoRejectedRetry
<1>1. ASSUME RunInv, Books, NEW sig \in Hyps, NEW i \in 1..Len(log), NEW m \in 1..Len(log), i < m,
             \A j \in {i, m} : "hypotheses" \in DOMAIN log[j].e.arts
                               /\ sig \in Sigs(log[j].e.arts.hypotheses),
             log[i].e.ver = log[m].e.ver,
             NEW k \in i..Len(log), log[k].e.type = "epistemic_refresh_recorded",
             log[k].e.iter = log[i].e.iter, log[k].e.arts.refresh.hyp[sig] = "rejected",
             \A j \in i+1..m-1 : ~(/\ "hypotheses" \in DOMAIN log[j].e.arts
                                   /\ sig \in Sigs(log[j].e.arts.hypotheses)
                                   /\ log[i].e.ver = log[j].e.ver),
             NEW c \in log[m].e.arts.hypotheses, c.sig = sig
      PROVE  c.changed
  <2>1. PICK it : it = log[i].e.iter
    OBVIOUS
  <2>2. k \in 1..Len(log) /\ i \in Nat /\ m \in Nat /\ k \in Nat
    BY <1>1
  <2>3. EntryOk(i) /\ EntryOk(m) /\ EntryOk(k)
    BY <1>1, <2>2 DEF Books
  <2>4. log[i].e.type = "hypotheses_recorded" /\ log[m].e.type = "hypotheses_recorded"
    BY <1>1, <2>3 DEF EntryOk, Labelled
  <2>5. PICK n : n = m - 1 /\ n \in 1..Len(log) /\ n \in Nat
    BY <1>1, <2>2
  <2>6. View(n).ver = log[m].e.ver /\ View(n).iter = log[m].e.iter
        /\ ValidPortfolio(log[m].e.arts.hypotheses, Retired(n))
    BY <2>3, <2>4, <2>5 DEF EntryOk
  <2>7. it # log[m].e.iter
    BY <1>1, <2>1, <2>2, <2>4, Once
  <2> DEFINE tried == {j \in 1..n : /\ log[j].e.ver = View(n).ver /\ log[j].e.iter # View(n).iter
                                    /\ "hypotheses" \in DOMAIN log[j].e.arts
                                    /\ sig \in Sigs(log[j].e.arts.hypotheses)}
  <2>8. i \in tried /\ tried \subseteq 1..n
    <3>1. i \in 1..n
      BY <1>1, <2>2, <2>5
    <3> QED BY <1>1, <2>1, <2>6, <2>7, <3>1
  <2>9. \A j \in tried : j <= i
    <3> SUFFICES ASSUME NEW j \in tried, ~(j <= i) PROVE FALSE
      OBVIOUS
    <3>1. j \in i+1..m-1
      BY <2>2, <2>5
    <3>2. log[j].e.ver = log[i].e.ver
      BY <1>1, <2>6
    <3> QED BY <1>1, <3>1, <3>2
  <2>10. Max(tried) = i
    <3> HIDE DEF tried
    <3>1. Max(tried) \in tried /\ i <= Max(tried)
      BY <2>5, <2>8, Latests
    <3>2. Max(tried) <= i /\ Max(tried) \in Nat
      <4>1. \A j \in 1..n : j \in Nat
        BY <2>5
      <4> QED BY <2>8, <2>9, <3>1, <4>1
    <3> QED BY <2>2, <3>1, <3>2
  <2>11. k \in 1..n
    <3>1. /\ View(i).num = it /\ View(k).num = it /\ View(m).num = log[m].e.iter
      BY <1>1, <2>1, <2>3, <2>4 DEF EntryOk
    <3>2. View(i).num <= View(m).num /\ View(i).num \in Nat /\ View(m).num \in Nat
      <4>1. i <= m /\ i \in 1..Len(log) /\ m \in 1..Len(log)
        BY <1>1, <2>2
      <4>2. View(i).num <= View(m).num
        BY <1>1, <4>1 DEF Books, Ordered
      <4> QED BY <2>3, <4>2 DEF EntryOk
    <3>3. ~(m <= k)
      <4>1. m <= k => View(m).num <= View(k).num
        BY <1>1, <2>2 DEF Books, Ordered
      <4> QED BY <2>7, <3>1, <3>2, <4>1
    <3> QED BY <2>2, <2>5, <3>3
  <2>12. Carrying(n, it, "refresh") = {k}
    <3>1. k \in Carrying(n, it, "refresh")
      BY <1>1, <2>1, <2>3, <2>11 DEF Carrying, EntryOk, Labelled
    <3>2. ASSUME NEW j \in Carrying(n, it, "refresh") PROVE j = k
      <4>1. /\ j \in 1..Len(log) /\ log[j].e.iter = it /\ "refresh" \in DOMAIN log[j].e.arts
        BY <2>5 DEF Carrying
      <4>2. log[j].e.type = "epistemic_refresh_recorded"
        BY <1>1, <4>1 DEF Books, EntryOk, Labelled
      <4> QED BY <1>1, <2>1, <2>2, <4>1, <4>2, Once
    <3> QED BY <3>1, <3>2
  <2>13. Latest(n, it, "refresh") = log[k].e.arts.refresh
    <3>1. Max({k}) = k
      <4>1. {k} \subseteq 1..n /\ {k} # {}
        BY <2>11
      <4>2. PICK S : S = {k}
        OBVIOUS
      <4>3. Max(S) \in S
        BY <2>5, <4>1, <4>2, Latests
      <4> QED BY <4>2, <4>3
    <3> QED BY <2>12, <3>1 DEF Latest
  <2>14. sig \in Retired(n)
    <3>1. tried # {} /\ log[Max(tried)].e.iter = it
      BY <2>1, <2>8, <2>10
    <3>2. Carrying(n, it, "refresh") # {} /\ Latest(n, it, "refresh").hyp[sig] = "rejected"
      BY <1>1, <2>12, <2>13
    <3> QED BY <3>1, <3>2 DEF Retired
  <2> QED BY <1>1, <2>6, <2>14 DEF ValidPortfolio
<1>2. RunInv /\ Books => NoRejectedRetry
  BY <1>1 DEF NoRejectedRetry
<1> QED BY <1>2, BooksAreKept, PTL
=============================================================================
