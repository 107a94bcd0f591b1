------------------------------ MODULE GoalRun ------------------------------
(***************************************************************************)
(* A goal-research run: an append-only event log, the projection reduced   *)
(* from it, immutable artifacts, checkpoints of the advisor turns, and the *)
(* commands that work on them (goal_research.py, goal_research_state.py,   *)
(* goal_research_roles.py).                                                *)
(*                                                                         *)
(* A process is one invocation of the command line.  Each loads the log    *)
(* once, works on that view - for an advancing process with advisor turns  *)
(* in between - and appends one event at the end; the append validates the *)
(* event against the log as it is then.  The checkout may be edited, and a *)
(* process may die, at every step.                                         *)
(***************************************************************************)
EXTENDS GoalReports, Sequences, FiniteSetsExt

CONSTANTS Procs,        \* concurrent invocations of the command line
          Roles,        \* the core roles and the clean-room remapper
          Mappers,      \* those of them that map the information flow
          Specialists,  \* profiles of temporary specialists
          Snaps,        \* snapshots of the checkout
          InScope,      \* those whose delta goal and packet permit
          Contracts,    \* goal contracts the user may offer
          Grounds,      \* role or specialist -> reports it may return
          Challenges, Syntheses, Audits, Refreshes, Finals,
          Verifications,  \* reports that may be returned
          Fidelities,   \* traces before and after a change
          MaxEdits, MaxCrashes, MaxResumes  \* bounds of the model

ASSUME RunAssumption ==
  /\ Cardinality(Roles) = 4 /\ Mappers \subseteq Roles /\ InScope \subseteq Snaps
  /\ IsFiniteSet(Roles) /\ IsFiniteSet(Specialists) /\ Roles \cap Specialists = {}
  /\ \A g \in Contracts : g.profiles \subseteq Specialists
  /\ (Roles \cup Specialists) \cap {"fidelity", "post-fidelity", "challenge", "synthesis",
                                     "auditor", "refresh", "final"} = {}
  /\ MaxEdits \in Nat /\ MaxCrashes \in Nat /\ MaxResumes \in Nat

VARIABLES log,     \* the events, each with the projection after it
          files,   \* immutable artifacts: path -> content
          ckpt,    \* checkpoints of advisor turns: key -> journal and answer
          repo,    \* snapshot of the checkout
          proc,    \* the command each process is executing
          edits, crashes  \* counters for the bounds

vars == <<log, files, ckpt, repo, proc, edits, crashes>>

Terminal == "GOAL_COMPLETED"
Blocked  == "BLOCKED"

Transitions ==
  { <<"goal_fidelity_recorded", "GOAL_FROZEN", "GOAL_FIDELITY_CHECK">>,
    <<"grounding_recorded", "GOAL_FIDELITY_CHECK", "CLEAN_ROOM_GROUNDING">>,
    <<"hypotheses_recorded", "CLEAN_ROOM_GROUNDING", "HYPOTHESIS_SET_READY">>,
    <<"challenge_recorded", "HYPOTHESIS_SET_READY", "CHALLENGE">>,
    <<"packet_issued", "CHALLENGE", "PACKET_READY">>,
    <<"codex_wait_started", "PACKET_READY", "WAITING_FOR_CODEX">>,
    <<"codex_implementation_recorded", "WAITING_FOR_CODEX", "WAITING_FOR_LOCAL_VERIFICATION">>,
    <<"implementation_receipt_invalidated", "WAITING_FOR_LOCAL_VERIFICATION", "WAITING_FOR_CODEX">>,
    <<"local_verification_recorded", "WAITING_FOR_LOCAL_VERIFICATION", "POST_CHANGE_AUDIT">>,
    <<"post_change_audit_recorded", "POST_CHANGE_AUDIT", "ITERATION_CLOSED">>,
    <<"epistemic_refresh_recorded", "ITERATION_CLOSED", "EPISTEMIC_REFRESH">>,
    <<"next_iteration_started", "EPISTEMIC_REFRESH", "GOAL_FROZEN">>,
    <<"final_audit_started", "EPISTEMIC_REFRESH", "FINAL_CLEAN_ROOM_AUDIT">>,
    <<"goal_completed", "FINAL_CLEAN_ROOM_AUDIT", Terminal>> }

Nothing == [x \in {} |-> x]

\* A function of one entry, and one function laid over another.
Entry(key, value) == [k \in {key} |-> value]
Over(new, old) ==
  [k \in DOMAIN new \cup DOMAIN old |-> IF k \in DOMAIN new THEN new[k] ELSE old[k]]

-----------------------------------------------------------------------------
(***************************************************************************)
(* The log and its projection.                                             *)
(***************************************************************************)
View(n)  == log[n].after
Goal(v)  == files[<<"goal", v>>]
Current  == View(Len(log))

\* Events of iteration it, among the first n, that carry an artifact of a kind.
Carrying(n, it, kind) == {i \in 1..n : log[i].e.iter = it /\ kind \in DOMAIN log[i].e.arts}
Latest(n, it, kind)   == log[Max(Carrying(n, it, kind))].e.arts[kind]

\* A deliberate retry of a blocked phase works in a numbered new checkpoint.
Attempt(n, phase, it) ==
  1 + Cardinality({i \in 1..n : /\ log[i].e.type = "run_resumed"
                                /\ log[i].e.to = phase /\ log[i].e.iter = it})

\* Two events start an iteration.  The projection counts iterations (num) and
\* takes their identity (iter) from the event, which named it in its own view.
Started(pr, e) ==
  IF e.type \in {"next_iteration_started", "goal_amended"} THEN pr.num + 1 ELSE pr.num

\* The transition guards of the reducer.
Allowed(pr, e, budget) ==
  /\ \/ e.type = "run_blocked" /\ pr.phase \notin {Terminal, Blocked} /\ e.to = Blocked
     \/ e.type = "goal_amended" /\ pr.phase # Terminal /\ e.to = "GOAL_FROZEN"
     \/ /\ e.type = "run_resumed" /\ pr.phase = Blocked
        /\ e.to = pr.blockedFrom /\ e.to \notin {"", Blocked, Terminal}
     \/ <<e.type, pr.phase, e.to>> \in Transitions
  /\ e.ver = IF e.type = "goal_amended" THEN pr.ver + 1 ELSE pr.ver
  /\ e.type \notin {"next_iteration_started", "goal_amended"} => e.iter = pr.iter
  /\ e.type \in {"codex_wait_started", "codex_implementation_recorded",
                 "local_verification_recorded"} => e.packet = pr.packet
  /\ pr.turns + e.turns <= budget.turns
  /\ Started(pr, e) <= budget.iterations

\* One event folded into the projection.
Reduce(pr, e) ==
  LET p == [pr EXCEPT !.phase = e.to, !.ver = e.ver, !.iter = e.iter, !.num = Started(pr, e),
                      !.turns = @ + e.turns]
  IN  CASE e.type = "next_iteration_started" -> [p EXCEPT !.packet = 0]
        [] e.type = "goal_amended" ->
             [p EXCEPT !.packet = 0, !.critical = {}, !.acc = Nothing, !.clauses = Nothing,
                       !.blockedFrom = ""]
        [] e.type = "packet_issued" -> [p EXCEPT !.packet = e.packet]
        [] e.type = "post_change_audit_recorded" ->
             [p EXCEPT !.acc = Over(e.arts.audit.acc, @), !.clauses = Over(e.arts.audit.clauses, @),
                       !.critical = e.arts.audit.critical]
        [] e.type = "epistemic_refresh_recorded" -> [p EXCEPT !.critical = e.arts.refresh.critical]
        [] e.type = "run_blocked" -> [p EXCEPT !.blockedFrom = pr.phase]
        [] e.type \in {"run_resumed", "goal_completed"} -> [p EXCEPT !.blockedFrom = ""]
        [] OTHER -> p

\* An event of the view n.  The key makes a repeated append a replay.
Event(n, type, to, arts, turns, key) ==
  [type |-> type, to |-> to, ver |-> View(n).ver, iter |-> View(n).iter, packet |-> View(n).packet,
   arts |-> arts, turns |-> turns, key |-> <<type>> \o key]

\* The reason of a block is left out; its key counts the events of the view.
BlockEvent(n, arts, turns) == Event(n, "run_blocked", Blocked, arts, turns, <<n + 1>>)

Replays(e)   == {i \in 1..Len(log) : log[i].e.key = e.key}
CanAppend(e) == Replays(e) = {} /\ Allowed(Current, e, Goal(1))
IsReplay(e)  == \E i \in Replays(e) : log[i].e = e

-----------------------------------------------------------------------------
(***************************************************************************)
(* Processes.                                                              *)
(***************************************************************************)
NoEvent == [type |-> "none"]

Idle == [pc |-> "idle", cmd |-> "none", n |-> 0, names |-> {}, first |-> {},
         failed |-> {}, pending |-> {}, mine |-> {}, e |-> NoEvent]

\* Process p goes on to append e.
ToAppend(p, cmd, n, e) ==
  proc' = [proc EXCEPT ![p] = [Idle EXCEPT !.pc = "append", !.cmd = cmd, !.n = n, !.e = e]]

\* operation.lock: one advancing process per run.
OperationFree == \A q \in Procs : proc[q].cmd # "advance"

\* Mutant: an artifact that exists is replaced.
Overwrites(writes) == FALSE

Conflict(writes) == \E x \in DOMAIN writes \cap DOMAIN files : files[x] # writes[x]

\* Mutant: the event is recorded without its artifacts.
EndsUnwritten(p, n, writes, e) == ToAppend(p, "advance", n, e) /\ UNCHANGED files

\* How a phase handler ends: with an event and the artifacts it refers to, or
\* with an error that charges the turns it knows of; the caller then blocks
\* the run.  An artifact that exists with other content is such an error.
Ends(p, n, writes, e) ==
  IF Conflict(writes)
    THEN ToAppend(p, "advance", n, BlockEvent(n, Nothing, 0)) /\ UNCHANGED files
    ELSE ToAppend(p, "advance", n, e) /\ files' = Over(writes, files)

Raises(p, n, turns) ==
  ToAppend(p, "advance", n, BlockEvent(n, Nothing, turns)) /\ UNCHANGED files

\* The event is checked against the log as it is now, and events.jsonl replaced;
\* status.json and report.md, rewritten after it, are read by no command.  An
\* event that is refused inside a handler blocks the run instead; any other
\* refusal ends the command.  Every event moves the run to other checkpoints:
\* the answers so far are not read again.
AppendEvent(p) ==
  LET e == proc[p].e IN
  /\ proc[p].pc = "append"
  /\ \/ /\ CanAppend(e)
        /\ log' = Append(log, [e |-> e, after |-> Reduce(Current, e)])
        /\ proc' = [proc EXCEPT ![p] = Idle]
        /\ ckpt' = IF \E q \in Procs : proc[q].pc = "turns" THEN ckpt
                   ELSE [k \in DOMAIN ckpt |-> [st |-> "done", ans |-> NoEvent]]
     \/ /\ ~CanAppend(e)
        /\ proc' = [proc EXCEPT ![p] =
             IF proc[p].cmd = "advance" /\ ~IsReplay(e) /\ e.type \notin {"run_blocked", "run_resumed"}
             THEN [@ EXCEPT !.e = BlockEvent(proc[p].n, Nothing, 0)] ELSE Idle]
        /\ UNCHANGED <<log, ckpt>>
  /\ UNCHANGED <<files, repo, edits, crashes>>

-----------------------------------------------------------------------------
(***************************************************************************)
(* Advisor turns.  A checkpoint is "submitted" once its journal proves the *)
(* submission, and "ok" once the final answer is published in it.          *)
(***************************************************************************)
Key(n, name) == <<name, View(n).num, Attempt(n, View(n).phase, View(n).iter)>>

RepoRoles == Roles \cup Specialists \cup {"auditor", "final"}

Answers(name) ==
  CASE name \in {"fidelity", "post-fidelity"} -> Fidelities[name]
    [] name \in Roles \cup Specialists -> Grounds[name]
    [] name = "challenge" -> Challenges
    [] name = "synthesis" -> Syntheses
    [] name = "auditor" -> Audits
    [] name = "refresh" -> Refreshes
    [] name = "final" -> Finals

Open(n) == Latest(n, View(n).iter, "grounding").contras \cup Latest(n, View(n).iter, "challenge").contras

\* The normalizer of the turn accepts the answer.
ValidAnswer(n, name, raw) ==
  LET g == Goal(View(n).ver)
      portfolio == Latest(n, View(n).iter, "hypotheses")
  IN
  CASE name \in {"fidelity", "post-fidelity"} -> ValidFidelity(g, raw, name = "post-fidelity")
    [] name \in Roles \cup Specialists ->
         ValidGrounding(g, raw, name \in Mappers, name \in Specialists)
    [] name = "challenge" -> ValidChallenge(raw, portfolio)
    [] name = "synthesis" -> ValidSynthesis(raw, portfolio)
    [] name = "auditor" -> ValidPostAudit(g, raw, Open(n), portfolio)
    [] name = "refresh" -> ValidRefresh(raw, Latest(n, View(n).iter, "audit"), portfolio)
    [] name = "final" -> ValidFinalAudit(g, raw)

Answer(n, name) == ckpt[Key(n, name)].ans

Busy(p, name) ==
  proc[p].pc = "turns" /\ name \in proc[p].names \ (proc[p].failed \cup proc[p].pending)

\* No submission has begun in the checkpoint: submit, once.
TurnSubmit(p, name) ==
  /\ Busy(p, name)
  /\ Key(proc[p].n, name) \notin DOMAIN ckpt
  /\ ckpt' = Over(Entry(Key(proc[p].n, name), [st |-> "submitted", ans |-> NoEvent]), ckpt)
  /\ proc' = [proc EXCEPT ![p].mine = @ \cup {name}]
  /\ UNCHANGED <<log, files, repo, edits, crashes>>

\* The final answer arrives, or is recovered from the conversation.
TurnAnswer(p, name) ==
  LET k == Key(proc[p].n, name) IN
  /\ Busy(p, name) /\ k \in DOMAIN ckpt /\ ckpt[k].st = "submitted"
  /\ \E raw \in Answers(name) : ckpt' = [ckpt EXCEPT ![k].st = "ok", ![k].ans = raw]
  /\ proc' = [proc EXCEPT ![p].mine = @ \cup {name}]
  /\ UNCHANGED <<log, files, repo, edits, crashes>>

\* A turn another process submitted is still running remotely.
TurnPending(p, name) ==
  LET k == Key(proc[p].n, name) IN
  /\ Busy(p, name) /\ name \notin proc[p].mine
  /\ k \in DOMAIN ckpt /\ ckpt[k].st = "submitted"
  /\ proc' = [proc EXCEPT ![p].pending = @ \cup {name}]
  /\ UNCHANGED <<log, files, ckpt, repo, edits, crashes>>

\* The wrapper fails, before or after the submission.
TurnFail(p, name) ==
  LET k == Key(proc[p].n, name) IN
  /\ Busy(p, name) /\ (k \in DOMAIN ckpt => ckpt[k].st = "submitted")
  /\ proc' = [proc EXCEPT ![p].failed = @ \cup {name}]
  /\ UNCHANGED <<log, files, ckpt, repo, edits, crashes>>

-----------------------------------------------------------------------------
(***************************************************************************)
(* The batch of turns a process runs has ended.                            *)
(***************************************************************************)
Ended(p) ==
  /\ proc[p].pc = "turns"
  /\ \A name \in proc[p].names \ (proc[p].failed \cup proc[p].pending) :
       LET k == Key(proc[p].n, name) IN k \in DOMAIN ckpt /\ ckpt[k].st = "ok"

Rejected(p) ==
  proc[p].failed \cup {name \in proc[p].names \ (proc[p].failed \cup proc[p].pending) :
                         ~ValidAnswer(proc[p].n, name, Answer(proc[p].n, name))}

\* Mutant: a failed batch charges all of its turns.
ChargesAll(p) == Cardinality(proc[p].first) + Cardinality(proc[p].names)

\* The turns a failed batch charges: a repository role's if its journal proves
\* a submission, a prompt's if this process submitted or recovered it, and
\* those of the first batch of the phase.
Charged(p) ==
  Cardinality(proc[p].first) +
  Cardinality({name \in proc[p].names :
                 IF name \in RepoRoles THEN Key(proc[p].n, name) \in DOMAIN ckpt
                                       ELSE name \in proc[p].mine})

\* Pending turns end the command without an event, to be resumed later.
BatchPending(p) ==
  /\ Ended(p) /\ proc[p].pending # {}
  /\ proc' = [proc EXCEPT ![p] = Idle]
  /\ UNCHANGED <<log, files, ckpt, repo, edits, crashes>>

BatchFailed(p) ==
  /\ Ended(p) /\ proc[p].pending = {} /\ Rejected(p) # {}
  /\ Raises(p, proc[p].n, Charged(p))
  /\ UNCHANGED <<log, ckpt, repo, edits, crashes>>

BatchOk(p, phase) ==
  Ended(p) /\ proc[p].pending = {} /\ Rejected(p) = {} /\ View(proc[p].n).phase = phase

RunTurns(p, n, names, first) ==
  proc' = [proc EXCEPT ![p] = [Idle EXCEPT !.pc = "turns", !.cmd = "advance", !.n = n,
                                           !.names = names, !.first = first]]
-----------------------------------------------------------------------------
(***************************************************************************)
(* What the phases read from the view.                                     *)
(***************************************************************************)
Baseline(n)  == files[<<"baseline", View(n).num>>]
Resulting(n) == Latest(n, View(n).iter, "codex").snap
Frozen(n)    == Latest(n, View(n).iter, "frozen").snap

\* The baseline is looked up among the artifacts of the iteration, by the name
\* its number gives: it is found if both tell the same iteration.
Baselined(n) == View(n).iter = View(n).num

\* Mutant: receipts of any snapshot are evidence.
AnyEvidence(n, snap) ==
  \A kind \in {"codex", "verification"} : \E i \in 1..n :
    log[i].e.ver = View(n).ver /\ kind \in DOMAIN log[i].e.arts

\* Receipts of Codex and of local verification for a snapshot, recorded for
\* the active goal version.
Evidence(n, snap) ==
  \A kind \in {"codex", "verification"} : \E i \in 1..n :
    /\ log[i].e.ver = View(n).ver
    /\ kind \in DOMAIN log[i].e.arts /\ log[i].e.arts[kind].snap = snap

\* Mutant: only what the iteration itself rejected is retired.
RetiredHere(n) ==
  {sig \in Hyps : \E i \in Carrying(n, View(n).iter, "refresh") :
                    /\ sig \in DOMAIN log[i].e.arts.refresh.hyp
                    /\ log[i].e.arts.refresh.hyp[sig] = "rejected"}

\* Signatures whose last record in another iteration of the goal version ended
\* rejected.
Retired(n) ==
  LET tried(sig) == {i \in 1..n : /\ log[i].e.ver = View(n).ver /\ log[i].e.iter # View(n).iter
                                  /\ "hypotheses" \in DOMAIN log[i].e.arts
                                  /\ sig \in Sigs(log[i].e.arts.hypotheses)}
      last(sig)  == log[Max(tried(sig))].e.iter
  IN  {sig \in Hyps : /\ tried(sig) # {}
                      /\ Carrying(n, last(sig), "refresh") # {}
                      /\ Latest(n, last(sig), "refresh").hyp[sig] = "rejected"}

\* The gates of the projection that decide on a final audit, and again on
\* completion.
CandidateOk(n) ==
  LET fid == Latest(n, View(n).iter, "fidelity") IN
  /\ GatesPass(Goal(View(n).ver), View(n).acc, View(n).clauses)
  /\ View(n).critical = {}
  /\ fid.covered = Goal(View(n).ver).clauses /\ ~fid.blocking

TurnPhases ==
  {"GOAL_FROZEN", "GOAL_FIDELITY_CHECK", "HYPOTHESIS_SET_READY", "CHALLENGE",
   "POST_CHANGE_AUDIT", "ITERATION_CLOSED", "FINAL_CLEAN_ROOM_AUDIT"}

\* The turns that are run first, the turns the budget must allow before, and
\* the snapshot the checkout must have before, and with Settled after.
FirstBatch(phase) ==
  CASE phase = "GOAL_FROZEN" -> {"fidelity"}
    [] phase = "GOAL_FIDELITY_CHECK" -> Roles
    [] phase = "HYPOTHESIS_SET_READY" -> {"challenge"}
    [] phase = "CHALLENGE" -> {"synthesis"}
    [] phase = "POST_CHANGE_AUDIT" -> {"auditor"}
    [] phase = "ITERATION_CLOSED" -> {"post-fidelity"}
    [] phase = "FINAL_CLEAN_ROOM_AUDIT" -> {"final"}

TurnsNeeded(phase) ==
  IF phase = "ITERATION_CLOSED" THEN 2 ELSE Cardinality(FirstBatch(phase))

BoundTo(n) ==
  CASE View(n).phase \in {"POST_CHANGE_AUDIT", "ITERATION_CLOSED"} -> Resulting(n)
    [] View(n).phase = "FINAL_CLEAN_ROOM_AUDIT" -> Frozen(n)
    [] OTHER -> Baseline(n)

HasBudget(n, turns) == View(n).turns + turns <= Goal(1).turns

CanAdvance(p) == proc[p].pc = "idle" /\ OperationFree

-----------------------------------------------------------------------------
(***************************************************************************)
(* One step of the controller: advance and resume.                         *)
(***************************************************************************)
Resume(p) ==
  LET n == Len(log) IN
  /\ CanAdvance(p) /\ Current.phase = Blocked
  /\ Cardinality({i \in 1..n : log[i].e.type = "run_resumed"}) < MaxResumes
  /\ ToAppend(p, "advance", n,
              Event(n, "run_resumed", Current.blockedFrom, Nothing, 0, <<n + 1>>))
  /\ UNCHANGED <<log, files, ckpt, repo, edits, crashes>>

StartTurns(p) ==
  LET n == Len(log)  phase == Current.phase IN
  /\ CanAdvance(p) /\ phase \in TurnPhases
  /\ IF /\ HasBudget(n, TurnsNeeded(phase))
        /\ Baselined(n) /\ repo = BoundTo(n)
        /\ phase = "FINAL_CLEAN_ROOM_AUDIT" => Evidence(n, repo)
     THEN RunTurns(p, n, FirstBatch(phase), {}) /\ UNCHANGED files
     ELSE Raises(p, n, 0)
  /\ UNCHANGED <<log, ckpt, repo, edits, crashes>>

Fidelity(p) ==
  LET n == proc[p].n  raw == Answer(n, "fidelity") IN
  /\ BatchOk(p, "GOAL_FROZEN")
  /\ Ends(p, n, Entry(<<"fidelity", View(n).num>>, raw),
          Event(n, "goal_fidelity_recorded", "GOAL_FIDELITY_CHECK", [fidelity |-> raw], 1,
                <<View(n).ver, View(n).iter>>))
  /\ UNCHANGED <<log, ckpt, repo, edits, crashes>>

\* Specialists follow if a core role asked for them and the budget allows.
SpecialistTurns(p) ==
  LET n == proc[p].n
      S == SelectSpecialists(Goal(View(n).ver), [r \in Roles |-> Answer(n, r)])
  IN
  /\ BatchOk(p, "GOAL_FIDELITY_CHECK") /\ proc[p].first = {} /\ S # {}
  /\ IF HasBudget(n, Cardinality(Roles \cup S))
       THEN RunTurns(p, n, S, Roles) /\ UNCHANGED files
       ELSE Raises(p, n, 0)
  /\ UNCHANGED <<log, ckpt, repo, edits, crashes>>

Grounding(p) ==
  LET n == proc[p].n
      who == proc[p].names \cup proc[p].first
      merged == Merged({Answer(n, r) : r \in who})
  IN
  /\ BatchOk(p, "GOAL_FIDELITY_CHECK")
  /\ proc[p].first = {} =>
       SelectSpecialists(Goal(View(n).ver), [r \in Roles |-> Answer(n, r)]) = {}
  /\ IF repo # Baseline(n) THEN Raises(p, n, Cardinality(who))
     ELSE Ends(p, n, Entry(<<"grounding", View(n).num>>, merged),
               Event(n, "grounding_recorded", "CLEAN_ROOM_GROUNDING", [grounding |-> merged],
                     Cardinality(who), <<View(n).ver, View(n).iter>>))
  /\ UNCHANGED <<log, ckpt, repo, edits, crashes>>

Hypotheses(p) ==
  LET n == Len(log)
      P == Portfolio(Goal(View(n).ver), Latest(n, View(n).iter, "grounding").candidates)
  IN
  /\ CanAdvance(p) /\ Current.phase = "CLEAN_ROOM_GROUNDING"
  /\ IF repo # Baseline(n) \/ ~ValidPortfolio(P, Retired(n)) THEN Raises(p, n, 0)
     ELSE Ends(p, n, Entry(<<"hypotheses", View(n).num>>, P),
               Event(n, "hypotheses_recorded", "HYPOTHESIS_SET_READY", [hypotheses |-> P], 0,
                     <<View(n).ver, View(n).iter>>))
  /\ UNCHANGED <<log, ckpt, repo, edits, crashes>>

Challenge(p) ==
  LET n == proc[p].n  raw == Answer(n, "challenge") IN
  /\ BatchOk(p, "HYPOTHESIS_SET_READY")
  /\ Ends(p, n, Entry(<<"challenge", View(n).num>>, raw),
          Event(n, "challenge_recorded", "CHALLENGE", [challenge |-> raw], 1,
                <<View(n).ver, View(n).iter>>))
  /\ UNCHANGED <<log, ckpt, repo, edits, crashes>>

\* The synthesis issues a packet or blocks the run, and is kept in both cases.
Synthesis(p) ==
  LET n == proc[p].n  raw == Answer(n, "synthesis") IN
  /\ BatchOk(p, "CHALLENGE")
  /\ IF repo # Baseline(n) THEN Raises(p, n, 1)
     ELSE Ends(p, n, Entry(<<"synthesis", View(n).num>>, raw),
               IF raw.decision = "block" THEN BlockEvent(n, [synthesis |-> raw], 1)
               ELSE [Event(n, "packet_issued", "PACKET_READY", [synthesis |-> raw], 1,
                           <<View(n).ver, View(n).iter>>) EXCEPT !.packet = View(n).iter])
  /\ UNCHANGED <<log, ckpt, repo, edits, crashes>>

PacketReady(p) ==
  LET n == Len(log) IN
  /\ CanAdvance(p) /\ Current.phase = "PACKET_READY"
  /\ IF repo # Baseline(n) THEN Raises(p, n, 0)
     ELSE Ends(p, n, Nothing, Event(n, "codex_wait_started", "WAITING_FOR_CODEX", Nothing, 0,
                                    <<View(n).iter>>))
  /\ UNCHANGED <<log, ckpt, repo, edits, crashes>>

PostAudit(p) ==
  LET n == proc[p].n  raw == Answer(n, "auditor")
      audit == [acc |-> raw.acc, clauses |-> raw.clauses, hyp |-> raw.hyp,
                resolved |-> raw.resolved, open |-> AuditOpen(raw, Open(n)), critical |-> AuditCritical(raw, Open(n))]
  IN
  /\ BatchOk(p, "POST_CHANGE_AUDIT")
  /\ IF repo # Resulting(n) THEN Raises(p, n, 1)
     ELSE Ends(p, n, Entry(<<"post-audit", View(n).num>>, audit),
               Event(n, "post_change_audit_recorded", "ITERATION_CLOSED", [audit |-> audit], 1,
                     <<View(n).packet>>))
  /\ UNCHANGED <<log, ckpt, repo, edits, crashes>>

RefreshTurn(p) ==
  /\ BatchOk(p, "ITERATION_CLOSED") /\ proc[p].first = {}
  /\ RunTurns(p, proc[p].n, {"refresh"}, {"post-fidelity"})
  /\ UNCHANGED <<log, files, ckpt, repo, edits, crashes>>

EpistemicRefresh(p) ==
  LET n == proc[p].n  raw == Answer(n, "refresh")
      fid == Answer(n, "post-fidelity")
      refresh == [hyp |-> raw.hyp, recommendation |-> raw.recommendation,
                  critical |-> Latest(n, View(n).iter, "audit").critical]
  IN
  /\ BatchOk(p, "ITERATION_CLOSED") /\ proc[p].first # {}
  /\ Ends(p, n, Entry(<<"refresh", View(n).num>>, <<fid, refresh>>),
          Event(n, "epistemic_refresh_recorded", "EPISTEMIC_REFRESH",
                [fidelity |-> fid, refresh |-> refresh], 2, <<View(n).iter>>))
  /\ UNCHANGED <<log, ckpt, repo, edits, crashes>>

\* Where the run goes after an iteration: blocked, to the final audit, to the
\* next iteration, or out of iterations.
RefreshDecision(p) ==
  LET n == Len(log)
      advice == Latest(n, View(n).iter, "refresh").recommendation
      it == View(n).iter
      next == View(n).num + 1
  IN
  /\ CanAdvance(p) /\ Current.phase = "EPISTEMIC_REFRESH"
  /\ CASE advice = "block" -> Raises(p, n, 0)
       [] advice = "final_audit" /\ CandidateOk(n) ->
            IF ~HasBudget(n, 1) \/ repo # Resulting(n) THEN Raises(p, n, 0)
            ELSE Ends(p, n, Entry(<<"frozen", it>>, repo),
                      Event(n, "final_audit_started", "FINAL_CLEAN_ROOM_AUDIT",
                            [frozen |-> [snap |-> repo]], 0, <<it>>))
       [] OTHER ->
            IF next > Goal(1).iterations \/ repo # Resulting(n) THEN Raises(p, n, 0)
            ELSE Ends(p, n, Entry(<<"baseline", next>>, repo),
                      [Event(n, "next_iteration_started", "GOAL_FROZEN", Nothing, 0,
                             <<next, View(n).ver>>) EXCEPT !.iter = next])
  /\ UNCHANGED <<log, ckpt, repo, edits, crashes>>

FinalAudit(p) ==
  LET n == proc[p].n  raw == Answer(n, "final")
      report == [recommend |-> raw.recommend, acc |-> raw.acc, clauses |-> raw.clauses,
                 blockers |-> raw.blockers, snap |-> Frozen(n)]
  IN
  /\ BatchOk(p, "FINAL_CLEAN_ROOM_AUDIT")
  /\ IF repo # Frozen(n) THEN Raises(p, n, 1)
     ELSE Ends(p, n, Entry(<<"report", View(n).iter>>, report),
               IF raw.recommend /\ CandidateOk(n)
               THEN Event(n, "goal_completed", Terminal, [report |-> report], 1, <<View(n).ver>>)
               ELSE BlockEvent(n, [report |-> report], 1))
  /\ UNCHANGED <<log, ckpt, repo, edits, crashes>>

-----------------------------------------------------------------------------
(***************************************************************************)
(* Commands that do not take operation.lock.                               *)
(***************************************************************************)

\* goal and baseline of the amendment are written before the event.
Amend(p, g) ==
  LET n == Len(log)
      next == View(n).num + 1
      base == Entry(<<"baseline", next>>, repo)
      goal == Entry(<<"goal", g.version>>, g)
  IN
  /\ proc[p].pc = "idle"
  /\ ValidAmendment(Goal(View(n).ver), g)
  /\ next <= Goal(1).iterations
  /\ ~Conflict(base)
  /\ IF Conflict(goal) THEN files' = Over(base, files) /\ UNCHANGED proc
     ELSE /\ files' = Over(goal, Over(base, files))
          /\ ToAppend(p, "amend", n,
               [Event(n, "goal_amended", "GOAL_FROZEN", Nothing, 0, <<g.version>>)
                  EXCEPT !.ver = g.version, !.iter = next])
  /\ UNCHANGED <<log, ckpt, repo, edits, crashes>>

RecordCodex(p) ==
  LET n == Len(log)
      attempt == 1 + Cardinality({i \in 1..n : /\ log[i].e.type = "codex_implementation_recorded"
                                               /\ log[i].e.iter = View(n).iter})
      raw == [schema |-> TRUE, snap |-> repo, deltaOk |-> TRUE, scopeOk |-> repo \in InScope]
      write == Entry(<<"codex", View(n).num, attempt>>, raw)
  IN
  /\ proc[p].pc = "idle" /\ Current.phase = "WAITING_FOR_CODEX"
  /\ ValidCodexReceipt(raw, repo) /\ ~Conflict(write)
  /\ files' = Over(write, files)
  /\ ToAppend(p, "codex", n,
              Event(n, "codex_implementation_recorded", "WAITING_FOR_LOCAL_VERIFICATION",
                    [codex |-> raw], 0, <<View(n).packet, attempt>>))
  /\ UNCHANGED <<log, ckpt, repo, edits, crashes>>

\* A checkout that changed since the receipt of Codex invalidates that receipt;
\* else the verification of its snapshot is recorded.
RecordVerification(p) ==
  LET n == Len(log)  it == View(n).num IN
  /\ proc[p].pc = "idle" /\ Current.phase = "WAITING_FOR_LOCAL_VERIFICATION"
  /\ IF repo # Resulting(n)
     THEN /\ files' = Over(Entry(<<"invalidation", it, repo>>, repo), files)
          /\ ToAppend(p, "verification", n,
               Event(n, "implementation_receipt_invalidated", "WAITING_FOR_CODEX",
                     [invalidated |-> [was |-> Resulting(n), now |-> repo]], 0,
                     <<View(n).packet, repo>>))
     ELSE \E raw \in Verifications :
            LET receipt == [acc |-> raw.acc, snap |-> repo]
                write == Entry(<<"verification", it>>, receipt)
            IN
            /\ ValidVerification(Goal(View(n).ver), raw) /\ ~Conflict(write)
            /\ files' = Over(write, files)
            /\ ToAppend(p, "verification", n,
                 Event(n, "local_verification_recorded", "POST_CHANGE_AUDIT",
                       [verification |-> receipt], 0, <<View(n).packet>>))
  /\ UNCHANGED <<log, ckpt, repo, edits, crashes>>

-----------------------------------------------------------------------------
(***************************************************************************)
(* The environment and the specification.                                  *)
(***************************************************************************)
Edit(s) ==
  /\ edits < MaxEdits /\ s # repo
  /\ repo' = s /\ edits' = edits + 1
  /\ UNCHANGED <<log, files, ckpt, proc, crashes>>

Crash(p) ==
  /\ crashes < MaxCrashes /\ proc[p].pc # "idle"
  /\ proc' = [proc EXCEPT ![p] = Idle]
  /\ crashes' = crashes + 1
  /\ UNCHANGED <<log, files, ckpt, repo, edits>>

Fresh == [phase |-> "GOAL_FROZEN", ver |-> 1, iter |-> 1, num |-> 1, turns |-> 0, packet |-> 0,
          acc |-> Nothing, clauses |-> Nothing, critical |-> {}, blockedFrom |-> ""]

\* A run that was created on a valid contract.
Init ==
  /\ repo \in Snaps
  /\ \E g \in Contracts :
       /\ g.version = 1 /\ ValidContract(g)
       /\ files = Over(Entry(<<"goal", 1>>, g), Entry(<<"baseline", 1>>, repo))
  /\ log = << [e |-> [type |-> "run_initialized", to |-> "GOAL_FROZEN", ver |-> 1, iter |-> 1,
                      packet |-> 0, arts |-> Nothing, turns |-> 0, key |-> <<"run_initialized">>],
               after |-> Fresh] >>
  /\ ckpt = Nothing /\ proc = [p \in Procs |-> Idle]
  /\ edits = 0 /\ crashes = 0

Advance(p) ==
  \/ Resume(p) \/ StartTurns(p) \/ Hypotheses(p) \/ PacketReady(p) \/ RefreshDecision(p)
  \/ \E name \in proc[p].names :
       TurnSubmit(p, name) \/ TurnAnswer(p, name) \/ TurnPending(p, name) \/ TurnFail(p, name)
  \/ BatchPending(p) \/ BatchFailed(p)
  \/ SpecialistTurns(p) \/ Fidelity(p) \/ Grounding(p) \/ Challenge(p) \/ Synthesis(p) \/ PostAudit(p)
  \/ RefreshTurn(p) \/ EpistemicRefresh(p) \/ FinalAudit(p)

Next ==
  \/ \E p \in Procs : \/ Advance(p) \/ AppendEvent(p) \/ Crash(p)
                      \/ RecordCodex(p) \/ RecordVerification(p)
                      \/ \E g \in Contracts : Amend(p, g)
  \/ \E s \in Snaps : Edit(s)

Spec == Init /\ [][Next]_vars

-----------------------------------------------------------------------------
(***************************************************************************)
(* Properties.                                                             *)
(***************************************************************************)
Phases == {t[2] : t \in Transitions} \cup {Terminal, Blocked}

\* Every event led to a phase of the state machine, within the budgets of the
\* first contract, and names a goal version and an iteration whose artifacts
\* are on disk; no event names an iteration that was not started.
TypeOK ==
  /\ \A i \in 1..Len(log) : /\ log[i].after.phase \in Phases
                            /\ log[i].after.turns \in 0..Goal(1).turns
                            /\ log[i].after.num \in 1..Goal(1).iterations
                            /\ log[i].after.iter \in 1..log[i].after.num
                            /\ <<"goal", log[i].after.ver>> \in DOMAIN files
                            /\ <<"baseline", log[i].after.iter>> \in DOMAIN files
  /\ repo \in Snaps
  /\ \A k \in DOMAIN ckpt : ckpt[k].st \in {"submitted", "ok", "done"}
  /\ \A p \in Procs : proc[p].pc \in {"idle", "turns", "append"} /\ proc[p].n \in 0..Len(log)

\* A run completes only on evidence of its active goal version: Codex and
\* local verification both recorded receipts for the snapshot the final auditor
\* inspected, that auditor and the projection pass every gate, and no critical
\* contradiction of the last audit is open.
CompletedOnEvidence ==
  \A i \in 1..Len(log) : log[i].e.type = "goal_completed" =>
    LET r == log[i].e.arts.report  g == Goal(log[i].e.ver)  v == View(i)
        receipt(k, type, kind) == /\ log[k].e.type = type /\ log[k].e.ver = log[i].e.ver
                                  /\ log[k].e.arts[kind].snap = r.snap
    IN
    /\ \E k \in 1..i : receipt(k, "codex_implementation_recorded", "codex")
    /\ \E k \in 1..i : receipt(k, "local_verification_recorded", "verification")
    /\ r.recommend /\ GatesPass(g, r.acc, r.clauses) /\ GatesPass(g, v.acc, v.clauses)
    /\ v.critical = {}

\* The budget never charges a turn that was not submitted, whatever fails, is
\* retried or recovered.
NeverOvercharged == Current.turns <= Cardinality(DOMAIN ckpt)

\* The least budget a goal contract may have covers one iteration with all the
\* specialists, the final audit included: a run that was never blocked and is
\* in its first iteration is never short of turns.
MinimumSliceSuffices ==
  (\A i \in 1..Len(log) : log[i].e.iter = 1 /\ log[i].e.type # "run_blocked") =>
    /\ Current.phase \in TurnPhases => HasBudget(Len(log), TurnsNeeded(Current.phase))
    /\ Current.phase = "GOAL_FIDELITY_CHECK" =>
         HasBudget(Len(log), Cardinality(Roles) + Goal(1).specialists)
    /\ Current.phase = "EPISTEMIC_REFRESH" => HasBudget(Len(log), 1)

\* A hypothesis that a refresh rejected is not taken up again in a later
\* iteration of the same goal version unless a condition changed.
NoRejectedRetry ==
  LET taken(i, sig) == "hypotheses" \in DOMAIN log[i].e.arts
                       /\ sig \in Sigs(log[i].e.arts.hypotheses)
      same(i, j, sig) == taken(i, sig) /\ taken(j, sig) /\ log[i].e.ver = log[j].e.ver
      rejected(i, sig) == \E k \in i..Len(log) :
                             /\ log[k].e.type = "epistemic_refresh_recorded"
                             /\ log[k].e.iter = log[i].e.iter
                             /\ log[k].e.arts.refresh.hyp[sig] = "rejected"
  IN  \A sig \in Hyps : \A i, m \in 1..Len(log) :
        i < m /\ same(i, m, sig) /\ rejected(i, sig) /\ (\A j \in i+1..m-1 : ~same(i, j, sig))
        => \A c \in log[m].e.arts.hypotheses : c.sig = sig => c.changed

\* A post-change audit classifies, as open or resolved, every contradiction that
\* the previous audit of the goal version left open.
OldContradictionsClassified ==
  LET audit(i) == "audit" \in DOMAIN log[i].e.arts
      next(i, k) == /\ i < k /\ audit(i) /\ audit(k) /\ log[i].e.ver = log[k].e.ver
                    /\ \A j \in i+1..k-1 : ~audit(j)
  IN  \A i, k \in 1..Len(log) : next(i, k) =>
        log[i].e.arts.audit.open \subseteq log[k].e.arts.audit.open \cup log[k].e.arts.audit.resolved

\* The iteration that an amended goal starts is its own: it has the baseline of
\* the amendment, on which the steward and the remappers can begin.
AmendedGoalHasBaseline ==
  \A i \in 1..Len(log) : log[i].e.type = "goal_amended" => Baselined(i)

\* When a run stops blocked, its budget has been charged for every turn whose
\* submission its journals prove.
BlockedRunPaid ==
  Current.phase = Blocked => Current.turns = Cardinality(DOMAIN ckpt)

\* The log only grows, and an artifact, once written, never changes: not by a
\* retried phase, a repeated command or a command that raced with another.
\* Nothing follows completion: no amendment, receipt or block of a command that
\* was under way then.
AppendOnly ==
  [][/\ Len(log') >= Len(log) /\ SubSeq(log', 1, Len(log)) = log
     /\ \A f \in DOMAIN files : f \in DOMAIN files' /\ files'[f] = files[f]
     /\ Current.phase = Terminal => log' = log]_vars
=============================================================================
