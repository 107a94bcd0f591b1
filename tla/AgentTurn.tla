----------------------------- MODULE AgentTurn -----------------------------
(***************************************************************************)
(* Repo-aware runs over the connector (advisor_agent.py).  A run has a     *)
(* directory with its request, turn journal, saved conversation, response  *)
(* and metadata.  An attempt is one process that pins a fresh snapshot,    *)
(* writes the request and lets a child, advisor.py, post the prompt; the   *)
(* ChatGPT turn opens the pinned snapshot through the connector, inspects  *)
(* it and answers.  The attempt accepts the answer on the evidence of the  *)
(* conversation.  A resume reads the directory and ChatGPT's history, and  *)
(* never posts.  Attempts, children and resumes share no lock.             *)
(***************************************************************************)
EXTENDS RepoConnector, FiniteSets

CONSTANTS Runs,    \* run directories
          Tries,   \* attempts a run may see, 1..Tries
          Bounded  \* a --timeout was given; by default a turn is waited for

Attempts == Runs \X (1..Tries)
Run(a)   == a[1]

ASSUME TurnAssumption ==
  /\ Tries \in Nat \ {0} /\ Bounded \in BOOLEAN
  /\ Attempts \cap (Keepers \cup {NoOne}) = {}

NoTurn   == <<"none", 0>>

VARIABLES request,  \* request.json: {} or {snapshot named in the prompt}
          journal,  \* phase of turn-journal.json
          saved,    \* attempt whose conversation the state file names
          response, \* attempt whose answer response.md holds
          meta,     \* status in meta.json
          main,     \* what each attempt is doing
          child,    \* its advisor.py
          turn,     \* its turn at ChatGPT
          reader    \* the resume of each run

directory == <<request, journal, saved, response, meta>>
turns     == <<directory, main, child, turn, reader>>
vars      == <<connector, turns>>

IdleMain   == [pc |-> "idle", ws |-> NoRoot, dev |-> NoProc, tunnel |-> NoProc,
               pinned |-> NoRoot, conv |-> NoTurn]
IdleReader == [pc |-> "idle", conv |-> NoTurn, verdict |-> "none"]
NoPost     == [st |-> "none", ws |-> NoRoot, dev |-> NoProc]

TurnsInit ==
  /\ request  = [r \in Runs |-> {}]
  /\ journal  = [r \in Runs |-> "none"]
  /\ saved    = [r \in Runs |-> NoTurn]
  /\ response = [r \in Runs |-> NoTurn]
  /\ meta     = [r \in Runs |-> "none"]
  /\ main     = [a \in Attempts |-> IdleMain]
  /\ child    = [a \in Attempts |-> "none"]
  /\ turn     = [a \in Attempts |-> NoPost]
  /\ reader   = [r \in Runs |-> IdleReader]

Init == ConnectorInit /\ TurnsInit

\* Mutant: only a finished turn proves a submission.
ProvesReceipt(phase) == phase \in {"response-received", "conversation-persisted", "completed"}

ProvesSubmission(phase) ==
  phase \in {"submission-started", "submission-outcome-unknown", "response-received",
             "conversation-persisted", "completed"}

-----------------------------------------------------------------------------
(***************************************************************************)
(* ChatGPT.  A turn opens the snapshot its prompt names, which DevSpace    *)
(* allows only when it is the exact root; it inspects it in the same       *)
(* DevSpace, and ends with an answer that carries the run's marker or not. *)
(***************************************************************************)
Serving == port # NoProc /\ Doomed = {} /\ (port = state.dev => state.tunnel \in alive \cup {NoProc})

Becomes(a, st) == turn' = [turn EXCEPT ![a].st = st]
AtChatGPT == UNCHANGED <<connector, directory, main, child, reader>>

Open(a) ==
  /\ turn[a].st = "posted" /\ Serving /\ root = turn[a].ws
  /\ turn' = [turn EXCEPT ![a].st = "opened", ![a].dev = port]
  /\ AtChatGPT

Answer(a) ==
  /\ turn[a].st = "opened" /\ Serving /\ port = turn[a].dev
  /\ Becomes(a, "answered")
  /\ AtChatGPT

\* It could not open or inspect, or did not say the marker.
Unproved(a) ==
  /\ turn[a].st \in {"posted", "opened"}
  /\ Becomes(a, "unproved")
  /\ AtChatGPT

Posted   == {a \in Attempts : turn[a].st # "none"}
Final(a) == turn[a].st \in {"answered", "unproved"}

\* Mutant: a finished turn with the prompt will do.
EndsThere(a, ws) == Final(a) /\ turn[a].ws = ws

\* validate_result: the turn with this very prompt opened the expected
\* snapshot, inspected it in that DevSpace, and ended with the marker.
Validated(a, ws) == turn[a].st = "answered" /\ turn[a].ws = ws

-----------------------------------------------------------------------------
(***************************************************************************)
(* An attempt: main() of advisor_agent.py.                                 *)
(***************************************************************************)
Doing(a, label) == main[a].pc = label
Step(a, label)  == main' = [main EXCEPT ![a].pc = label]
NotConnector    == UNCHANGED <<source, alive, port, keeper, counts>>

\* A directory whose turn may have been posted is refused; otherwise the
\* state of the connector is read.
Check(a) ==
  /\ Doing(a, "check")
  /\ IF request[Run(a)] # {} /\ ProvesSubmission(journal[Run(a)])
     THEN Step(a, "refused")
     ELSE main' = [main EXCEPT ![a].pc = IF RuntimeReady THEN "refresh" ELSE "unready",
                               ![a].dev = state.dev, ![a].tunnel = state.tunnel]
  /\ UNCHANGED <<connector, directory, child, turn, reader>>

\* refresh_agent_workspace, which may fail.
Refresh(a) ==
  /\ Doing(a, "refresh")
  /\ \/ main' = [main EXCEPT ![a].pc = "pin", ![a].ws = source]
     \/ Step(a, "unready")
  /\ UNCHANGED <<connector, directory, child, turn, reader>>

SameConnector(a) == state.dev = main[a].dev /\ state.tunnel = main[a].tunnel

\* pin_connector_workspace: the exact root, then the state file.
Pin(a) ==
  /\ Doing(a, "pin") /\ lock = NoOne
  /\ IF SameConnector(a)
     THEN lock' = a /\ root' = main[a].ws /\ Step(a, "record")
     ELSE UNCHANGED <<lock, root>> /\ Step(a, "unready")
  /\ NotConnector /\ UNCHANGED <<state, directory, child, turn, reader>>

RecordPin(a) ==
  /\ Doing(a, "record")
  /\ state' = [state EXCEPT !.ws = main[a].ws]
  /\ lock' = NoOne
  /\ Step(a, "verify")
  /\ NotConnector /\ UNCHANGED <<root, directory, child, turn, reader>>

\* Neither lock is waited for longer than 30 s.
LockTimesOut(a) ==
  /\ \/ Doing(a, "pin") /\ lock # NoOne /\ Step(a, "unready")
     \/ Doing(a, "mark") /\ lock # NoOne /\ Step(a, "passed")
  /\ UNCHANGED <<connector, directory, child, turn, reader>>

\* The status it goes on with is read after the lock is gone.
Verify(a) ==
  /\ Doing(a, "verify")
  /\ main' = [main EXCEPT ![a].pc = IF RuntimeReady THEN "request" ELSE "unready",
                          ![a].dev = state.dev, ![a].tunnel = state.tunnel,
                          ![a].pinned = state.ws]
  /\ UNCHANGED <<connector, directory, child, turn, reader>>

\* request.json is written before anything is posted, ready or not.
Request(a) ==
  /\ main[a].pc \in {"request", "unready"}
  /\ request' = [request EXCEPT ![Run(a)] = {main[a].ws}]
  /\ IF Doing(a, "request")
     THEN /\ child' = [child EXCEPT ![a] = "queued"]
          /\ Step(a, "wait")
     ELSE Step(a, "failed") /\ UNCHANGED child
  /\ UNCHANGED <<connector, journal, saved, response, meta, turn, reader>>

\* The child ended; the evidence is read from the conversation in the state
\* file, if ChatGPT gives it.
Collect(a) ==
  /\ Doing(a, "wait") /\ child[a] \in {"done", "failed", "killed"}
  /\ LET c == saved[Run(a)] IN
     \/ /\ child[a] = "done" /\ c # NoTurn /\ Validated(c, main[a].ws)
        /\ main' = [main EXCEPT ![a].pc = "mark", ![a].conv = c]
     \/ main' = [main EXCEPT ![a].pc = "failed", ![a].conv = c]
  /\ UNCHANGED <<connector, directory, child, turn, reader>>

\* With a --timeout the child is killed when its time is over.
ChildTimesOut(a) ==
  /\ Bounded /\ Doing(a, "wait")
  /\ child' = [child EXCEPT ![a] = "killed"]
  /\ main' = [main EXCEPT ![a].pc = "failed", ![a].conv = saved[Run(a)]]
  /\ UNCHANGED <<connector, directory, turn, reader>>

\* Mutant: whatever connector is there is marked.
MarkableAny(a) == RuntimeReady

\* mark_chatgpt_attachment_verified: the connector is still the one, pinned
\* where it was.
Markable(a) == SameConnector(a) /\ state.ws = main[a].pinned /\ RuntimeReady

Mark(a) ==
  /\ Doing(a, "mark") /\ lock = NoOne
  /\ state' = [state EXCEPT !.attached = @ \/ Markable(a)]
  /\ Step(a, "passed")
  /\ NotConnector /\ UNCHANGED <<root, lock, directory, child, turn, reader>>

\* The response, even one without proof, ...
SaveResponse(a) ==
  /\ main[a].pc \in {"passed", "failed"}
  /\ response' = [response EXCEPT ![Run(a)] = IF main[a].conv # NoTurn THEN main[a].conv ELSE @]
  /\ Step(a, IF Doing(a, "passed") THEN "accepted" ELSE "rejected")
  /\ UNCHANGED <<connector, request, journal, saved, meta, child, turn, reader>>

\* ... then the metadata.
Save(a) ==
  /\ main[a].pc \in {"accepted", "rejected"}
  /\ meta' = [meta EXCEPT ![Run(a)] = IF Doing(a, "accepted") THEN "ok" ELSE "failed"]
  /\ main' = [main EXCEPT ![a] = [IdleMain EXCEPT
              !.pc = IF Doing(a, "accepted") THEN "done" ELSE "over"]]
  /\ UNCHANGED <<connector, request, journal, saved, response, child, turn, reader>>

\* What an attempt does without a timeout, and what its timeouts do.
MainWorks(a) ==
  Check(a) \/ Refresh(a) \/ Pin(a) \/ RecordPin(a) \/ Verify(a) \/ Request(a)
  \/ Collect(a) \/ Mark(a) \/ SaveResponse(a) \/ Save(a)

MainStep(a) == MainWorks(a) \/ LockTimesOut(a) \/ ChildTimesOut(a)

Running(a) == main[a].pc \notin {"idle", "refused", "done", "over", "killed"}

\* An attempt is killed, alone or with its child ...
Kill(a) ==
  /\ Running(a) /\ Fault
  /\ main' = [main EXCEPT ![a] = [IdleMain EXCEPT !.pc = "killed", !.ws = main[a].ws]]
  /\ child' \in {child, [child EXCEPT ![a] = IF @ = "none" THEN @ ELSE "killed"]}
  /\ lock' = IF lock = a THEN NoOne ELSE lock
  /\ UNCHANGED <<source, state, root, alive, port, keeper, commands, spawned, edits, directory, turn, reader>>

\* ... or only its child is.
KillChild(a) ==
  /\ child[a] \notin {"none", "done", "failed", "killed"} /\ Fault
  /\ child' = [child EXCEPT ![a] = "killed"]
  /\ UNCHANGED <<source, state, root, lock, alive, port, keeper, commands, spawned, edits,
                 directory, main, turn, reader>>

-----------------------------------------------------------------------------
(***************************************************************************)
(* The child, advisor.py: it waits for its admission and posts once.       *)
(***************************************************************************)
Phase(a, phase) == journal' = [journal EXCEPT ![Run(a)] = phase]
ChildTo(a, st)  == child' = [child EXCEPT ![a] = st]
AtHome == UNCHANGED <<connector, request, response, meta, main, reader>>

\* Mutant: a child that ended keeps its slots.
AdmittedForGood(b) == child[b] \notin {"none", "queued", "killed"}

\* coordinated_call: a first turn of a conversation takes every slot, a later
\* one its conversation.
Admitted(b) == child[b] \in {"admitted", "posting", "received", "kept", "complete"}
Apart(a, b) == Run(a) # Run(b) /\ saved[Run(a)] # NoTurn /\ saved[Run(b)] # NoTurn

Admit(a) ==
  /\ child[a] = "queued"
  /\ \A b \in Attempts \ {a} : Admitted(b) => Apart(a, b)
  /\ Phase(a, "preflight-complete") /\ ChildTo(a, "admitted")
  /\ AtHome /\ UNCHANGED <<saved, turn>>

Submit(a) ==
  /\ child[a] = "admitted"
  /\ Phase(a, "submission-started") /\ ChildTo(a, "posting")
  /\ AtHome /\ UNCHANGED <<saved, turn>>

Post(a) ==
  /\ child[a] = "posting" /\ turn[a].st = "none"
  /\ turn' = [turn EXCEPT ![a] = [NoPost EXCEPT !.st = "posted", !.ws = main[a].ws]]
  /\ AtHome /\ UNCHANGED <<journal, saved, child>>

Receive(a) ==
  /\ child[a] = "posting" /\ Final(a)
  /\ Phase(a, "response-received") /\ ChildTo(a, "received")
  /\ AtHome /\ UNCHANGED <<saved, turn>>

Keep(a) ==
  /\ child[a] = "received"
  /\ saved' = [saved EXCEPT ![Run(a)] = a]
  /\ Phase(a, "conversation-persisted") /\ ChildTo(a, "kept")
  /\ AtHome /\ UNCHANGED turn

\* The last phase, then the response.
Finalize(a) ==
  /\ child[a] = "kept"
  /\ Phase(a, "completed") /\ ChildTo(a, "complete")
  /\ AtHome /\ UNCHANGED <<saved, turn>>

Conclude(a) ==
  /\ child[a] = "complete"
  /\ response' = [response EXCEPT ![Run(a)] = a]
  /\ ChildTo(a, "done")
  /\ UNCHANGED <<connector, request, journal, saved, meta, main, turn, reader>>

\* It is not admitted, the transport fails with an unknown outcome, or the
\* answer is not what was asked for.
ChildFails(a) ==
  /\ child[a] \in {"queued", "posting", "kept"}
  /\ IF child[a] = "posting" THEN Phase(a, "submission-outcome-unknown") ELSE UNCHANGED journal
  /\ ChildTo(a, "failed")
  /\ AtHome /\ UNCHANGED <<saved, turn>>

ChildWorks(a) ==
  Admit(a) \/ Submit(a) \/ Post(a) \/ Receive(a) \/ Keep(a) \/ Finalize(a) \/ Conclude(a)

ChildStep(a) == ChildWorks(a) \/ ChildFails(a)

-----------------------------------------------------------------------------
(***************************************************************************)
(* resume_agent_run                                                        *)
(***************************************************************************)
Reading(r, label) == reader[r].pc = label
Unread == UNCHANGED <<connector, request, journal, main, child, turn>>

Conclusion(r, verdict) == [IdleReader EXCEPT !.pc = "over", !.verdict = verdict]

SafeToSubmit(r) == saved[r] = NoTurn /\ ~ProvesSubmission(journal[r])

\* The local files: a verified result is kept, and a directory without proof
\* of a submission is declared safe to submit.
ReadLocal(r) ==
  /\ Reading(r, "local")
  /\ IF meta[r] = "ok" /\ response[r] # NoTurn
     THEN /\ reader' = [reader EXCEPT ![r] = Conclusion(r, "ok")]
          /\ UNCHANGED meta
     ELSE IF SafeToSubmit(r)
     THEN /\ reader' = [reader EXCEPT ![r] = Conclusion(r, "not-submitted")]
          /\ meta' = [meta EXCEPT ![r] = "not-submitted"]
     ELSE /\ reader' = [reader EXCEPT ![r].pc = "remote", ![r].conv = saved[r]]
          /\ UNCHANGED meta
  /\ UNCHANGED <<saved, response>> /\ Unread

\* Conversations of the project whose user turn is this very prompt.
Matching(r) == {a \in Posted : Run(a) = r /\ request[r] = {turn[a].ws}}

\* Mutant: nobody looks through the project.
FoundSaved(r) == {reader[r].conv} \ {NoTurn}

\* The saved conversation, or the only one that matches.
Found(r) == IF reader[r].conv # NoTurn THEN {reader[r].conv}
            ELSE IF Cardinality(Matching(r)) = 1 THEN Matching(r) ELSE {}

\* ChatGPT may not show the turn yet, and it may not be finished.
ReadRemote(r) ==
  /\ Reading(r, "remote")
  /\ \/ reader' = [reader EXCEPT ![r].pc = "conclude", ![r].verdict = "remote-pending"]
     \/ \E a \in Found(r) :
          /\ Final(a) \/ a \notin Matching(r)
          /\ reader' = [reader EXCEPT ![r] =
               [pc |-> IF a \in Matching(r) THEN "keep" ELSE "conclude", conv |-> a,
                verdict |-> IF \E ws \in request[r] : Validated(a, ws) THEN "ok" ELSE "failed"]]
  /\ UNCHANGED <<saved, response, meta>> /\ Unread

\* What was read is written: the conversation, the response and, as for a turn
\* that is pending or not there, the metadata.
KeepRead(r) ==
  /\ Reading(r, "keep")
  /\ saved' = [saved EXCEPT ![r] = reader[r].conv]
  /\ reader' = [reader EXCEPT ![r].pc = "respond"]
  /\ UNCHANGED <<response, meta>> /\ Unread

WriteResponse(r) ==
  /\ Reading(r, "respond")
  /\ response' = [response EXCEPT ![r] = reader[r].conv]
  /\ reader' = [reader EXCEPT ![r].pc = "conclude"]
  /\ UNCHANGED <<saved, meta>> /\ Unread

WriteResult(r) ==
  /\ Reading(r, "conclude")
  /\ meta' = [meta EXCEPT ![r] = reader[r].verdict]
  /\ reader' = [reader EXCEPT ![r] = Conclusion(r, reader[r].verdict)]
  /\ UNCHANGED <<saved, response>> /\ Unread

ReaderStep(r) ==
  ReadLocal(r) \/ ReadRemote(r) \/ KeepRead(r) \/ WriteResponse(r) \/ WriteResult(r)

-----------------------------------------------------------------------------
(***************************************************************************)
(* Runs of their own: a user starts them, and resumes them as often as it  *)
(* takes.                                                                  *)
(***************************************************************************)
BeginRun(a) ==
  /\ Doing(a, "idle")
  /\ Step(a, "check")
  /\ UNCHANGED <<connector, directory, child, turn, reader>>

Resume(r) ==
  /\ reader[r].pc \in {"idle", "over"} /\ request[r] # {}
  /\ reader' = [reader EXCEPT ![r] = [IdleReader EXCEPT !.pc = "local"]]
  /\ UNCHANGED <<connector, directory, main, child, turn>>

TurnsNext ==
  \/ \E a \in Attempts :
       MainStep(a) \/ ChildStep(a) \/ Open(a) \/ Answer(a) \/ Unproved(a)
  \/ \E r \in Runs : ReaderStep(r)

Next ==
  \/ ConnectorNext /\ UNCHANGED turns
  \/ TurnsNext
  \/ \E a \in Attempts : Kill(a) \/ KillChild(a)
  \/ \E r \in Runs : BeginRun(<<r, 1>>) \/ Resume(r)

\* Processes run on, and no timeout and no failure has to happen: who waits for a
\* lock, an admission or a child may wait as long as that takes.  A user resumes a
\* run that is not finished, and ChatGPT ends every turn and shows it in the end.
Unfinished(r) == meta[r] # "ok" /\ \A a \in Attempts : Run(a) = r => ~Running(a)
Fairness ==
  /\ \A k \in Keepers : WF_vars(KeeperStep(k) /\ UNCHANGED turns)
  /\ \A a \in Attempts : WF_vars(MainWorks(a)) /\ WF_vars(ChildWorks(a)) /\ WF_vars(Unproved(a))
  /\ \A r \in Runs : /\ WF_vars(Resume(r) /\ Unfinished(r))
                     /\ WF_vars(ReaderStep(r))
                     /\ SF_vars(ReadRemote(r) /\ reader'[r].verdict # "remote-pending")

Spec     == Init /\ [][Next]_vars
FairSpec == Spec /\ Fairness

-----------------------------------------------------------------------------
Phases == {"none", "preflight-complete", "submission-started", "submission-outcome-unknown", "response-received",
           "conversation-persisted", "completed"}
Verdicts == {"none", "ok", "failed", "not-submitted", "remote-pending"}

Mains == [pc : {"idle", "check", "refused", "refresh", "unready", "pin", "record", "verify",
                "request", "wait", "mark", "passed", "failed", "accepted", "rejected",
                "done", "over", "killed"},
          ws : Roots, dev : Devs, tunnel : Tunnels, pinned : Roots, conv : Attempts \cup {NoTurn}]
ChildLabels == {"none", "queued", "admitted", "posting", "received", "kept", "complete", "done",
             "failed", "killed"}
Turns == [st : {"none", "posted", "opened", "answered", "unproved"}, ws : Roots, dev : Devs]
Readers == [pc : {"idle", "local", "remote", "keep", "respond", "conclude", "over"},
            conv : Attempts \cup {NoTurn}, verdict : Verdicts]

\* Shape of the state.
TypeOK ==
  /\ ConnectorTypeOK /\ lock \in Keepers \cup Attempts \cup {NoOne}
  /\ request \in [Runs -> {{}} \cup {{ws} : ws \in Roots}]
  /\ journal \in [Runs -> Phases] /\ meta \in [Runs -> Verdicts]
  /\ {saved, response} \subseteq [Runs -> Attempts \cup {NoTurn}]
  /\ main \in [Attempts -> Mains] /\ child \in [Attempts -> ChildLabels]
  /\ turn \in [Attempts -> Turns] /\ reader \in [Runs -> Readers]

\* A connector marked as attached to ChatGPT, if it is up, served a turn that
\* proved it (mark_chatgpt_attachment_verified): not one started since, and
\* not one that another command put in its place while the turn ran.
AttachedByProof ==
  state.attached /\ RuntimeReady =>
    \E a \in Posted : turn[a].st = "answered" /\ turn[a].dev = state.dev

\* Metadata says ok only for a response whose own turn opened the snapshot of
\* its prompt and ended with the marker, whether the attempt or a resume wrote
\* it, and whoever wrote the directory in between.
OkMeansProved ==
  \A r \in Runs : meta[r] = "ok" =>
    /\ response[r] \in Posted /\ Run(response[r]) = r
    /\ turn[response[r]].st = "answered"

\* "safe_to_submit": a directory that a resume calls not submitted has no turn
\* at ChatGPT, wherever the process that was to post it was killed.
NotSubmittedIsSafe ==
  \A r \in Runs : SafeToSubmit(r) => \A a \in Posted : Run(a) # r

\* The children of serve are tracked: only a kill in the middle of a command
\* leaves one that neither the state file nor a command knows.
TrackedUnlessKilled ==
  [][Untracked' \subseteq Untracked \/ \E k \in Keepers : KillKeeper(k)]_vars

\* README.md:667-668: each managed child is recorded before readiness "so
\* `status` and `stop` can recover an interrupted startup without leaving an
\* untracked process".
NothingUntracked == Untracked = {}

\* A turn that proved itself is recovered: its run ends up ok, whatever became
\* of the process that posted it.
ProofsAreRecovered ==
  \A a \in Attempts : turn[a].st = "answered" ~> meta[Run(a)] = "ok"
=============================================================================
