--------------------------- MODULE AgentConclave ---------------------------
(***************************************************************************)
(* A repo-aware conclave (agent_conclave.py): one run of every specialist  *)
(* role over the connector, then a synthesis of their reports.  A session  *)
(* works on the conclave under its run lock; when it is killed, alone or   *)
(* with the processes it started, another session resumes from the         *)
(* manifest, the directories of the roles and the checkpoints of the       *)
(* synthesis, which are keyed by the reports they were made from.          *)
(***************************************************************************)
EXTENDS AgentTurn

CONSTANTS Sessions,      \* 1 starts the conclave, the others resume it
          Parallel,      \* --parallel: the roles run next to each other
          AllowPartial   \* --allow-partial: synthesize without failed roles

ASSUME ConclaveAssumption ==
  Sessions \in SUBSET (Nat \ {0}) /\ 1 \in Sessions /\ {Parallel, AllowPartial} \subseteq BOOLEAN

VARIABLES manifest,  \* recorded status of the conclave and of each role
          runLock,   \* session that holds run.lock, 0 if none
          session,   \* what each session is doing
          synth,     \* the synthesis process of each session, and its turn
          checks,    \* checkpoints of the synthesis, by reports
          report,    \* what the last session published
          lone       \* a process was killed without its children

conclave == <<manifest, runLock, session, synth, checks, report, lone>>
allVars  == <<vars, conclave>>

Reports == SUBSET Attempts   \* the answers a synthesis is made from

IdleSession == [pc |-> "idle", todo |-> {}, role |-> {}, results |-> <<>>, verdict |-> "none"]
IdleSynth   == [st |-> "none", key |-> {}, posted |-> "no"]

\* A checkpoint: the session whose prompt is in request.json, the phase of the
\* journal, the session whose conversation is saved, and the result.
NoCheck == [request |-> 0, journal |-> "none", saved |-> 0, ok |-> FALSE]

ConclaveInit ==
  /\ Init
  /\ manifest = [status |-> "none", roles |-> [r \in Runs |-> "pending"]]
  /\ runLock = 0
  /\ session = [s \in Sessions |-> IdleSession]
  /\ synth   = [s \in Sessions |-> IdleSynth]
  /\ checks  = <<>>
  /\ report  = [status |-> "none", key |-> {}, roles |-> {}]
  /\ lone = FALSE

Now(s, label) == session[s].pc = label
Goes(s, label) == session' = [session EXCEPT ![s].pc = label]
Check0(key) == IF key \in DOMAIN checks THEN checks[key] ELSE NoCheck
PutCheck(key, check) ==
  checks' = [k \in DOMAIN checks \cup {key} |-> IF k = key THEN check ELSE checks[k]]

-----------------------------------------------------------------------------
(***************************************************************************)
(* The roles.                                                              *)
(***************************************************************************)
\* The first session writes the manifest; the others need one, and all of
\* them take the run lock.
StartSession(s) ==
  /\ Now(s, "idle") /\ runLock = 0
  /\ IF s = 1 THEN manifest.status = "none" ELSE manifest.status # "none"
  /\ runLock' = s
  /\ manifest' = [manifest EXCEPT !.status = IF s = 1 THEN "running" ELSE @]
  /\ session' = [session EXCEPT ![s] = [IdleSession EXCEPT
       !.pc = IF s = 1 THEN "roles" ELSE "resume", !.todo = Runs,
       !.results = [r \in Runs |-> NoTurn]]]
  /\ UNCHANGED <<vars, synth, checks, report, lone>>

Fresh(r) == {n \in 1..Tries : Doing(<<r, n>>, "idle")}
NextTry(r) == CHOOSE n \in Fresh(r) : \A m \in Fresh(r) : n <= m
Launches(r) == /\ Fresh(r) # {}
               /\ main' = [main EXCEPT ![<<r, NextTry(r)>>].pc = "check"]
               /\ UNCHANGED <<connector, directory, child, turn, reader>>

\* run_roles
LaunchRole(s, r) ==
  /\ Now(s, "roles") /\ r \in session[s].todo
  /\ Parallel \/ session[s].role = {}
  /\ Launches(r)
  /\ session' = [session EXCEPT ![s].todo = @ \ {r}, ![s].role = @ \cup {r}]
  /\ UNCHANGED <<manifest, runLock, synth, checks, report, lone>>

\* A role's outcome, in the manifest (checkpoint_role) and with the session.
Settle(s, r, result, status, label) ==
  /\ session' = [session EXCEPT ![s].results[r] = result, ![s].pc = label,
                                ![s].role = @ \ {r}, ![s].todo = @ \ {r}]
  /\ manifest' = [manifest EXCEPT !.roles[r] = status]

Last(r) == <<r, NextTry(r) - 1>>
LastTry(r) == IF Fresh(r) = {} THEN <<r, Tries>> ELSE Last(r)
Ended(a) == main[a].pc \in {"done", "over", "refused", "killed"}

\* run_role: ok when the attempt exits with 0.
RoleEnds(s, r) ==
  /\ session[s].pc \in {"roles", "launched"}
  /\ r \in session[s].role /\ Ended(LastTry(r))
  /\ LET ok == Doing(LastTry(r), "done") IN
     Settle(s, r, IF ok THEN response[r] ELSE NoTurn, IF ok THEN "ok" ELSE "failed",
            IF Now(s, "launched") THEN "resume" ELSE session[s].pc)
  /\ UNCHANGED <<vars, runLock, synth, checks, report, lone>>

\* resume_roles, one role after the other: a verified result is kept ...
KeepRole(s, r) ==
  /\ Now(s, "resume") /\ r \in session[s].todo
  /\ meta[r] = "ok" /\ response[r] # NoTurn
  /\ Settle(s, r, response[r], "ok", "resume")
  /\ UNCHANGED <<vars, runLock, synth, checks, report, lone>>

\* ... a request is recovered ...
RecoverRole(s, r) ==
  /\ Now(s, "resume") /\ r \in session[s].todo
  /\ meta[r] # "ok" /\ request[r] # {} /\ reader[r].pc \in {"idle", "over"}
  /\ reader' = [reader EXCEPT ![r] = [IdleReader EXCEPT !.pc = "local"]]
  /\ session' = [session EXCEPT ![s].pc = "recover", ![s].role = {r}, ![s].todo = @ \ {r}]
  /\ UNCHANGED <<connector, directory, main, child, turn,
                 manifest, runLock, synth, checks, report, lone>>

\* ... and launched when that says it was not submitted, ...
Recovered(s, r) ==
  /\ Now(s, "recover") /\ session[s].role = {r} /\ Reading(r, "over")
  /\ IF reader[r].verdict = "not-submitted"
     THEN /\ Goes(s, "launch")
          /\ manifest' = [manifest EXCEPT !.roles[r] = "not-submitted"]
     ELSE Settle(s, r, IF reader[r].verdict = "ok" THEN response[r] ELSE NoTurn,
                 reader[r].verdict, "resume")
  /\ UNCHANGED <<vars, runLock, synth, checks, report, lone>>

\* ... like a role that has no request at all.
RelaunchRole(s, r) ==
  /\ \/ Now(s, "launch") /\ session[s].role = {r}
     \/ Now(s, "resume") /\ r \in session[s].todo /\ meta[r] # "ok" /\ request[r] = {}
  /\ Launches(r)
  /\ session' = [session EXCEPT ![s].pc = "launched", ![s].role = {r}, ![s].todo = @ \ {r}]
  /\ UNCHANGED <<manifest, runLock, synth, checks, report, lone>>

-----------------------------------------------------------------------------
(***************************************************************************)
(* The synthesis.                                                          *)
(***************************************************************************)
\* The roles whose answers the session has read.
Successful(s) == {r \in Runs : session[s].results[r] # NoTurn}

\* Mutant: one checkpoint for the conclave, whatever the reports.
KeyOfConclave(s) == {}

\* synthesis_input_sha256 of the reports of the successful roles.
KeyOf(s) == {session[s].results[r] : r \in Successful(s)}

Publish(s, status, key) ==
  /\ report' = [status |-> status, key |-> key, roles |-> Successful(s)]
  /\ manifest' = [manifest EXCEPT !.status = status]
  /\ session' = [session EXCEPT ![s] = [IdleSession EXCEPT !.pc = "over"]]
  /\ runLock' = 0

RolesDone(s) == /\ session[s].pc \in {"roles", "resume"}
                /\ session[s].todo = {} /\ session[s].role = {}

\* A failed role ends the conclave, or is left out.
NoSynthesis(s) ==
  /\ RolesDone(s)
  /\ Successful(s) = {} \/ (Successful(s) # Runs /\ ~AllowPartial)
  /\ Publish(s, "failed", {})
  /\ UNCHANGED <<vars, synth, checks, lone>>

Proven(check) == check.saved # 0 \/ ProvesSubmission(check.journal)

\* recover_synthesis for a resume, run_synthesis otherwise: a checkpoint with
\* the result is used, one whose turn may have been posted is recovered by a
\* resume, and otherwise a request with a marker of its own is written and
\* posted by a child.
Synthesize(s) ==
  /\ RolesDone(s)
  /\ Successful(s) = Runs \/ (Successful(s) # {} /\ AllowPartial)
  /\ LET key == KeyOf(s)  check == Check0(key) IN
     IF s # 1 /\ check.ok
     THEN /\ session' = [session EXCEPT ![s].pc = "publish", ![s].verdict = "ok"]
          /\ synth' = [synth EXCEPT ![s].key = key]
          /\ UNCHANGED checks
     ELSE IF check.request # 0 /\ Proven(check)
     THEN /\ Goes(s, "fetch")
          /\ synth' = [synth EXCEPT ![s].key = key]
          /\ UNCHANGED checks
     ELSE /\ Goes(s, "synth")
          /\ synth' = [synth EXCEPT ![s] = [st |-> "queued", key |-> key, posted |-> "no"]]
          /\ PutCheck(key, [check EXCEPT !.request = s])
  /\ UNCHANGED <<vars, manifest, runLock, report, lone>>

\* The turn with the prompt of the checkpoint, if ChatGPT shows it finished.
FetchSynthesis(s) ==
  /\ Now(s, "fetch")
  /\ LET key == synth[s].key  check == Check0(key) IN
     \/ /\ synth[check.request].posted = "answered" /\ check.saved \in {0, check.request}
        /\ PutCheck(key, [check EXCEPT !.ok = TRUE, !.saved = check.request])
        /\ session' = [session EXCEPT ![s].pc = "publish", ![s].verdict = "ok"]
     \/ /\ session' = [session EXCEPT ![s].pc = "publish", ![s].verdict = "failed"]
        /\ UNCHANGED checks
  /\ UNCHANGED <<vars, manifest, runLock, synth, report, lone>>

\* The child of run_synthesis, which outlives the session.
SynthAt(s, st) == synth' = [synth EXCEPT ![s].st = st]
Journals(s, phase) == PutCheck(synth[s].key, [checks[synth[s].key] EXCEPT !.journal = phase])
AtSynth == UNCHANGED <<vars, manifest, runLock, session, report, lone>>

SynthWorks(s) ==
  \/ /\ synth[s].st = "queued" /\ SynthAt(s, "admitted")
     /\ Journals(s, "preflight-complete") /\ AtSynth
  \/ /\ synth[s].st = "admitted" /\ SynthAt(s, "posting")
     /\ Journals(s, "submission-started") /\ AtSynth
  \/ /\ synth[s].st = "posting" /\ synth[s].posted = "no"
     /\ synth' = [synth EXCEPT ![s].posted = "yes"]
     /\ AtSynth /\ UNCHANGED checks
  \/ /\ synth[s].posted = "yes"
     /\ synth' = [synth EXCEPT ![s].posted = "answered"]
     /\ AtSynth /\ UNCHANGED checks
  \/ /\ synth[s].st = "posting" /\ synth[s].posted = "answered"
     /\ SynthAt(s, "done")
     /\ PutCheck(synth[s].key, [checks[synth[s].key] EXCEPT !.journal = "completed", !.saved = s])
     /\ AtSynth

\* It is not admitted, or the transport fails with an unknown outcome.
SynthFails(s) ==
  \/ /\ synth[s].st = "queued" /\ SynthAt(s, "failed")
     /\ AtSynth /\ UNCHANGED checks
  \/ /\ synth[s].st = "posting" /\ SynthAt(s, "failed")
     /\ Journals(s, "submission-outcome-unknown") /\ AtSynth

SynthStep(s) == SynthWorks(s) \/ SynthFails(s)

\* publish_synthesis_checkpoint, when the child ends well and its answer has
\* the marker.
SynthEnds(s) ==
  /\ Now(s, "synth") /\ synth[s].st \in {"done", "failed", "killed"}
  /\ \E verdict \in {"ok", "failed"} :
       /\ verdict = "ok" => synth[s].st = "done"
       /\ session' = [session EXCEPT ![s].pc = "publish", ![s].verdict = verdict]
       /\ IF verdict = "ok"
          THEN PutCheck(synth[s].key, [checks[synth[s].key] EXCEPT !.ok = TRUE])
          ELSE UNCHANGED checks
  /\ UNCHANGED <<vars, manifest, runLock, synth, report, lone>>

\* The report, the metadata, the manifest and the latest files.
Finish(s) ==
  /\ Now(s, "publish")
  /\ Publish(s, IF session[s].verdict = "ok" /\ Successful(s) = Runs THEN "ok" ELSE "failed",
             synth[s].key)
  /\ UNCHANGED <<vars, synth, checks, lone>>

-----------------------------------------------------------------------------
\* With a --timeout, run_role and run_synthesis kill the process they wait for:
\* of an attempt the child lives on.
RoleTimesOut(s, r) ==
  /\ Bounded /\ session[s].pc \in {"roles", "launched"} /\ r \in session[s].role
  /\ Running(LastTry(r))
  /\ main' = [main EXCEPT ![LastTry(r)] = [IdleMain EXCEPT !.pc = "killed",
                                                               !.ws = main[LastTry(r)].ws]]
  /\ lock' = IF lock = LastTry(r) THEN NoOne ELSE lock
  /\ Settle(s, r, NoTurn, "failed", IF Now(s, "launched") THEN "resume" ELSE session[s].pc)
  /\ lone' = TRUE
  /\ UNCHANGED <<source, state, root, alive, port, keeper, counts,
                 directory, child, turn, reader, runLock, synth, checks, report>>

SynthTimesOut(s) ==
  /\ Bounded /\ Now(s, "synth") /\ synth[s].st \in {"queued", "admitted", "posting"}
  /\ SynthAt(s, "killed")
  /\ session' = [session EXCEPT ![s].pc = "publish", ![s].verdict = "failed"]
  /\ UNCHANGED <<vars, manifest, runLock, checks, report, lone>>

\* The children a session waits for: attempts and the synthesis.
Children(s) == {LastTry(r) : r \in session[s].role}

\* A session is killed, alone or with everything it started.
KillSession(s) ==
  /\ session[s].pc \notin {"idle", "over"} /\ Fault
  /\ session' = [session EXCEPT ![s] = [IdleSession EXCEPT !.pc = "over"]]
  /\ runLock' = 0
  /\ \/ /\ lone' = (lone \/ session[s].role # {} \/ Now(s, "synth"))
        /\ UNCHANGED <<lock, main, child, synth, reader>>
     \/ /\ main' = [a \in Attempts |-> IF a \in Children(s) /\ Running(a)
                      THEN [IdleMain EXCEPT !.pc = "killed", !.ws = main[a].ws] ELSE main[a]]
        /\ child' = [a \in Attempts |-> IF a \in Children(s) /\ child[a] # "none"
                                        THEN "killed" ELSE child[a]]
        /\ lock' = IF lock \in Children(s) THEN NoOne ELSE lock
        /\ synth' = [synth EXCEPT ![s].st = IF @ = "none" THEN @ ELSE "killed"]
        /\ reader' = [r \in Runs |-> IF r \in session[s].role THEN IdleReader ELSE reader[r]]
        /\ UNCHANGED lone
  /\ UNCHANGED <<source, state, root, alive, port, keeper, commands, spawned, edits,
                 directory, turn, manifest, checks, report>>

SessionStep(s) ==
  \/ NoSynthesis(s) \/ Synthesize(s) \/ FetchSynthesis(s) \/ SynthEnds(s) \/ Finish(s)
  \/ \E r \in Runs : \/ LaunchRole(s, r) \/ RoleEnds(s, r) \/ KeepRole(s, r)
                     \/ RecoverRole(s, r) \/ Recovered(s, r) \/ RelaunchRole(s, r)

\* An attempt is killed, with its child or alone, or its child is.
KillAttempt(a) ==
  /\ Kill(a) \/ KillChild(a)
  /\ lone' = (lone \/ child'[a] \notin {"none", "done", "failed", "killed"})
  /\ UNCHANGED <<manifest, runLock, session, synth, checks, report>>

\* The connector serves all the while: what happens to it is a matter of
\* AgentTurn, and shows here as a role that fails.
ConclaveNext ==
  \/ TurnsNext /\ UNCHANGED conclave
  \/ Edit /\ UNCHANGED <<turns, conclave>>
  \/ \E a \in Attempts : KillAttempt(a)
  \/ \E s \in Sessions :
       \/ StartSession(s) \/ SessionStep(s) \/ SynthStep(s) \/ KillSession(s)
       \/ SynthTimesOut(s) \/ \E r \in Runs : RoleTimesOut(s, r)

ConclaveSpec == ConclaveInit /\ [][ConclaveNext]_allVars

\* The processes of a conclave run on, without the help of a timeout, and
\* ChatGPT ends every turn.
ConclaveFairness ==
  /\ \A a \in Attempts : /\ WF_allVars(MainWorks(a) /\ UNCHANGED conclave)
                         /\ WF_allVars(ChildWorks(a) /\ UNCHANGED conclave)
                         /\ WF_allVars(Unproved(a) /\ UNCHANGED conclave)
  /\ \A r \in Runs : WF_allVars(ReaderStep(r) /\ UNCHANGED conclave)
  /\ \A s \in Sessions : WF_allVars(SessionStep(s)) /\ WF_allVars(SynthWorks(s))

FairConclave == ConclaveSpec /\ ConclaveFairness

-----------------------------------------------------------------------------

PostedOf(r)    == {a \in Posted : Run(a) = r}
SynthesesOf(k) == {s \in Sessions : synth[s].posted # "no" /\ synth[s].key = k}

\* README.md:773-776: "A role is submitted after resume only when its local
\* journal proves submission never began. A submitted turn [...] is never
\* replayed": no role has two turns at ChatGPT.
NoRoleReplayed == \A r \in Runs : Cardinality(PostedOf(r)) <= 1

\* Wherever a session is killed together with what it started, the resume posts
\* no role and no synthesis again.
NothingReplayed ==
  lone \/ /\ NoRoleReplayed
          /\ \A k \in DOMAIN checks : Cardinality(SynthesesOf(k)) <= 1

\* As long as nothing runs on alone, a conclave is published as successful only
\* with a synthesis made from the verified answer of every role and of nothing
\* else: not from the reports of a partial session before it.
OkReportIsWhole ==
  [][report' # report /\ report'.status = "ok" /\ ~lone =>
       /\ report'.key = {response[r] : r \in Runs} /\ report'.key \subseteq Posted
       /\ \A a \in report'.key : turn[a].st = "answered"
       /\ \E s \in SynthesesOf(report'.key) : synth[s].posted = "answered"]_allVars

\* A session that is not killed ends without the help of a timeout, although its
\* roles, run next to each other, wait for each other's exclusive admission and
\* for the lock of the connector, and an attempt or its child may be killed.
SessionsEnd ==
  \A s \in Sessions : session[s].pc \notin {"idle", "over"} ~> session[s].pc = "over"
=============================================================================
