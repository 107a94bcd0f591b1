------------------------- MODULE AgentConclaveProofs -------------------------
(***************************************************************************)
(* Theorems about the repo-aware conclave, for any roles, sessions and     *)
(* tries: what a session that resumes may post, and what it may publish.   *)
(* The invariant says who works on the directory of a role while nothing   *)
(* runs on alone (lone), and what the files then prove.                    *)
(***************************************************************************)
EXTENDS AgentConclave, AgentTurnProofs, FiniteSetTheorems, WellFoundedInduction

-----------------------------------------------------------------------------
(* The inductive invariant.                                                *)

SessionLabels == {"idle", "roles", "resume", "recover", "launch", "launched", "fetch", "synth",
                  "publish", "over"}
Live      == {"queued", "admitted", "posting"}
Results   == [Runs -> Attempts \cup {NoTurn}] \cup {<<>>}
SessionRecs == [pc : SessionLabels, todo : SUBSET Runs, role : SUBSET Runs,
                results : Results,
                verdict : {"none", "ok", "failed"}]
SynthRecs == [st : {"none", "done", "failed", "killed"} \cup Live, key : Reports,
              posted : {"no", "yes", "answered"}]
CheckRecs == [request : Sessions \cup {0}, journal : Phases, saved : Sessions \cup {0}, ok : BOOLEAN]

ConclaveTypeOK ==
  /\ manifest \in [status : {"none", "running", "ok", "failed"},
                   roles : [Runs -> Verdicts \cup {"pending"}]]
  /\ runLock \in Sessions \cup {0}
  /\ session \in [Sessions -> SessionRecs]
  /\ synth \in [Sessions -> SynthRecs]
  /\ DOMAIN checks \subseteq Reports /\ \A k \in DOMAIN checks : checks[k] \in CheckRecs
  /\ \A s \in Sessions : synth[s].st # "none" => synth[s].key \in DOMAIN checks
  /\ report \in [status : {"none", "ok", "failed"}, key : Reports, roles : SUBSET Runs]
  /\ lone \in BOOLEAN

\* A session that works has the run lock, and roles in hand only where it works
\* on roles.
Active(s) == session[s].pc \notin {"idle", "over"}
SessionOk(s) ==
  /\ Active(s) => runLock = s /\ session[s].results \in [Runs -> Attempts \cup {NoTurn}]
  /\ session[s].todo \cap session[s].role = {}
  /\ session[s].pc \in {"idle", "resume", "fetch", "synth", "publish", "over"} =>
       session[s].role = {}
  /\ session[s].pc \in {"idle", "fetch", "synth", "publish", "over"} => session[s].todo = {}
  /\ session[s].pc \in {"recover", "launch", "launched"} => \E r \in Runs : session[s].role = {r}
Locked ==
  /\ \A s \in Sessions : SessionOk(s)
  /\ manifest.status = "none" => \A s \in Sessions : ~Active(s)

\* A synthesis that is waited for, or whose answer is fetched, has a checkpoint.
Placed ==
  \A s \in Sessions : session[s].pc \in {"fetch", "synth"} =>
    synth[s].key \in DOMAIN checks /\ checks[synth[s].key].request # 0

\* Only a session that waits for it has a synthesis that runs; what was posted
\* stands in the checkpoint of its key, and no two of one key were posted.
BeforeSynthesis == {"idle", "roles", "resume", "recover", "launch", "launched"}
Answered(key) == \E t \in SynthesesOf(key) : synth[t].posted = "answered"
SynthOf(s) ==
  /\ session[s].pc \in BeforeSynthesis => synth[s] = IdleSynth
  /\ synth[s].st \in Live => session[s].pc = "synth"
  /\ synth[s].posted # "no" => /\ synth[s].key \in DOMAIN checks
                               /\ checks[synth[s].key].request # 0
                               /\ ProvesSubmission(checks[synth[s].key].journal)
  /\ synth[s].st \in {"none", "queued", "admitted"} => synth[s].posted = "no"
  /\ synth[s].st = "done" => synth[s].posted = "answered"
  /\ synth[s].st = "posting" => ProvesSubmission(checks[synth[s].key].journal)
  /\ session[s].pc = "synth" => checks[synth[s].key].request = s
  /\ session[s].pc = "publish" /\ session[s].verdict = "ok" => Answered(synth[s].key)
  /\ session[s].pc \in {"fetch", "synth", "publish"} => synth[s].key = KeyOf(s)
Checkpoints ==
  \A k \in DOMAIN checks :
    /\ checks[k].request # 0 =>
         synth[checks[k].request].key = k /\ synth[checks[k].request].st # "none"
    /\ checks[k].ok => Answered(k)
OnePost ==
  \A s, t \in Sessions :
    s # t /\ synth[s].key = synth[t].key /\ synth[t].posted # "no" =>
      synth[s].posted = "no" /\ session[s].pc # "synth"
Synths == (\A s \in Sessions : SynthOf(s)) /\ Checkpoints /\ OnePost

\* What a session has to do with a role: it waits for an attempt of it or for
\* its resume, it has yet to launch it, or it has read its answer.
Works(s, r) == r \in session[s].role /\ session[s].pc \in {"roles", "launched"}
Reads(s, r) == r \in session[s].role /\ session[s].pc = "recover"
Waits(s, r) == \/ r \in session[s].todo /\ session[s].pc = "roles"
               \/ r \in session[s].role /\ session[s].pc = "launch"
Holds(s, r) == Active(s) /\ session[s].results[r] # NoTurn

Of(r)     == {a \in Attempts : Run(a) = r}
Newest(a) == main[a].pc # "idle" /\ \A b \in Of(Run(a)) : b[2] > a[2] => main[b].pc = "idle"
Alive     == {"queued", "admitted", "posting", "received", "kept", "complete"}

\* The tries of a role are made one after the other, and only the newest runs,
\* with its child, while a session waits for it.
RunOf(a) ==
  /\ main[a].pc # "idle" => \A b \in Of(Run(a)) : b[2] < a[2] => main[b].pc # "idle"
  /\ Running(a) => /\ Newest(a) /\ meta[Run(a)] # "ok"
                   /\ \E s \in Sessions : Works(s, Run(a))
  /\ main[a].pc \in Early => child[a] = "none"
  /\ main[a].pc = "wait" => child[a] # "none"
  /\ child[a] \in Alive => main[a].pc = "wait"
  /\ main[a].pc \in {"mark", "passed", "accepted"} => Proved(main[a].conv)
  /\ main[a].pc = "accepted" => Proved(response[Run(a)])

\* The journal of a role never denies its turn, of which there is one: an
\* attempt that has looked at the journal has the role without a turn.
Denies(r) == request[r] = {} \/ ~ProvesSubmission(journal[r])
WrittenOf(a) ==
  /\ child[a] \in {"none", "queued", "admitted"} => turn[a].st = "none"
  /\ child[a] # "none" => request[Run(a)] # {}
  /\ child[a] \in Alive \cap Posting => ProvesSubmission(journal[Run(a)])
  /\ turn[a].st # "none" => ProvesSubmission(journal[Run(a)])
  /\ child[a] \in Posting \ {"posting"} => Final(a)
  /\ (Running(a) /\ main[a].pc # "check") \/ turn[a].st # "none" =>
       \A b \in Of(Run(a)) : b # a => turn[b].st = "none"

\* Who says ok has seen the proof of just the answer that is kept.
ReadsOn == {"local", "remote", "keep", "respond", "conclude"}
VerdictOf(r) ==
  /\ \A s \in Sessions : Works(s, r) =>
       \E a \in Of(r) : Newest(a) /\ (main[a].pc = "done" => meta[r] = "ok")
  /\ OfRun(saved[r], r) /\ OfRun(reader[r].conv, r)
  /\ meta[r] = "ok" => Proved(response[r]) /\ manifest.status # "none"
  /\ reader[r].pc \in ReadsOn => \E s \in Sessions : Reads(s, r)
  /\ reader[r].pc \in ReadsOn \ {"local"} => meta[r] # "ok"
  /\ reader[r].verdict = "ok" => /\ reader[r].pc \in {"keep", "respond"} => Proved(reader[r].conv)
                                 /\ reader[r].pc = "conclude" => Proved(response[r])
  /\ \A s \in Sessions :
       /\ Reads(s, r) /\ reader[r].pc = "over" => (meta[r] = "ok" <=> reader[r].verdict = "ok")
       /\ Waits(s, r) => meta[r] # "ok"
       /\ Holds(s, r) => /\ r \notin session[s].todo \cup session[s].role
                         /\ session[s].results[r] = response[r] /\ meta[r] = "ok"

RoleOk(r) == VerdictOf(r) /\ \A a \in Of(r) : RunOf(a) /\ WrittenOf(a)

Roles   == \A r \in Runs : RoleOk(r)
Always  == TypeOK /\ ConclaveTypeOK /\ Locked /\ Placed
CInv    == Always /\ (lone \/ (Synths /\ Roles))

------------------------------------------------------------------------------
(* What a step changes.                                                    *)

\* 0 is nobody's number, and NoTurn is nobody's turn.
LEMMA Nobodies == 0 \notin Sessions /\ NoTurn \notin Attempts
BY ConclaveAssumption DEF NoTurn, Attempts

TimesOut(s) == SynthTimesOut(s) \/ \E r \in Runs : RoleTimesOut(s, r)

\* A step is one of an attempt, its child or its turn, of a resume, of a session, or
\* of whoever edits the checkout or kills.
LEMMA ConclaveCases ==
    ASSUME ConclaveNext
    PROVE  \/ UNCHANGED conclave /\ \E a \in Attempts : MainStep(a)
           \/ UNCHANGED conclave /\ \E a \in Attempts : Asking(a)
           \/ UNCHANGED conclave /\ \E r \in Runs : ReaderStep(r)
           \/ UNCHANGED <<turns, conclave>> /\ Edit
           \/ \E a \in Attempts : KillAttempt(a)
           \/ \E s \in Sessions : StartSession(s) \/ SessionStep(s) \/ SynthStep(s)
                                  \/ KillSession(s) \/ TimesOut(s)
BY DEF ConclaveNext, TurnsNext, Asking, TimesOut

\* A session that takes down new roles and results keeps its type.
LEMMA SessionTyped ==
    ASSUME session \in [Sessions -> SessionRecs], NEW s \in Sessions, NEW results \in Results,
           NEW label \in SessionLabels, NEW role \in SUBSET Runs, NEW todo \in SUBSET Runs,
           session' = [session EXCEPT ![s].results = results, ![s].pc = label,
                                      ![s].role = role, ![s].todo = todo]
    PROVE  session' \in [Sessions -> SessionRecs]
BY DEF SessionRecs

\* So does one that goes on to other roles.
LEMMA RolesTyped ==
    ASSUME session \in [Sessions -> SessionRecs], NEW s \in Sessions,
           NEW label \in SessionLabels, NEW role \in SUBSET Runs, NEW todo \in SUBSET Runs,
           session' = [session EXCEPT ![s].pc = label, ![s].role = role, ![s].todo = todo]
    PROVE  /\ session' \in [Sessions -> SessionRecs]
           /\ \A t \in Sessions \ {s} : session'[t] = session[t]
           /\ session'[s].pc = label /\ session'[s].role = role /\ session'[s].todo = todo
           /\ session'[s].results = session[s].results /\ session'[s].verdict = session[s].verdict
BY DEF SessionRecs

\* ... or takes one up.
LEMMA ListsTyped ==
    ASSUME session \in [Sessions -> SessionRecs], NEW s \in Sessions,
           NEW role \in SUBSET Runs, NEW todo \in SUBSET Runs,
           session' = [session EXCEPT ![s].todo = todo, ![s].role = role]
    PROVE  /\ session' \in [Sessions -> SessionRecs]
           /\ \A t \in Sessions \ {s} : session'[t] = session[t]
           /\ session'[s].pc = session[s].pc /\ session'[s].role = role /\ session'[s].todo = todo
           /\ session'[s].results = session[s].results /\ session'[s].verdict = session[s].verdict
BY DEF SessionRecs

\* What a session says of itself, one role settled.
LEMMA SettleMoves ==
    ASSUME ConclaveTypeOK, NEW s \in Sessions, Active(s), Locked, NEW r \in Runs,
           NEW result \in Attempts \cup {NoTurn}, NEW status, NEW label \in SessionLabels,
           Settle(s, r, result, status, label)
    PROVE  /\ \A t \in Sessions \ {s} : session'[t] = session[t]
           /\ session' \in [Sessions -> SessionRecs]
           /\ session'[s].pc = label
           /\ session'[s].todo = session[s].todo \ {r}
           /\ session'[s].role = session[s].role \ {r}
           /\ session'[s].verdict = session[s].verdict
           /\ session'[s].results \in [Runs -> Attempts \cup {NoTurn}]
           /\ session'[s].results[r] = result
           /\ \A q \in Runs \ {r} : session'[s].results[q] = session[s].results[q]
           /\ manifest'.status = manifest.status
<1>1. session \in [Sessions -> SessionRecs] /\ session[s].results \in [Runs -> Attempts \cup {NoTurn}]
  BY DEF ConclaveTypeOK, Locked, SessionOk
<1> DEFINE res == [session[s].results EXCEPT ![r] = result]
<1>2. session' = [session EXCEPT ![s].results = res, ![s].pc = label, ![s].role = @ \ {r},
                                 ![s].todo = @ \ {r}]
  BY <1>1, Zenon DEF Settle
<1>3. /\ res \in [Runs -> Attempts \cup {NoTurn}] /\ res[r] = result
      /\ \A q \in Runs \ {r} : res[q] = session[s].results[q]
  BY <1>1
<1> HIDE DEF res
<1>4. session' \in [Sessions -> SessionRecs] /\ \A t \in Sessions \ {s} : session'[t] = session[t]
  <2>1. res \in Results
    BY <1>3 DEF Results
  <2>2. PICK p \in SUBSET Runs, q \in SUBSET Runs :
          p = session[s].role \ {r} /\ q = session[s].todo \ {r}
    BY <1>1 DEF SessionRecs
  <2>3. session' = [session EXCEPT ![s].results = res, ![s].pc = label, ![s].role = p, ![s].todo = q]
    BY <1>2, <2>2, Zenon
  <2>4. session' \in [Sessions -> SessionRecs]
    BY <1>1, <2>1, <2>3, SessionTyped
  <2> QED BY <1>1, <2>3, <2>4
<1>5. /\ session'[s].pc = label /\ session'[s].results = res
      /\ session'[s].todo = session[s].todo \ {r} /\ session'[s].role = session[s].role \ {r}
      /\ session'[s].verdict = session[s].verdict
  BY <1>1, <1>2, <1>3 DEF SessionRecs
<1>6. manifest'.status = manifest.status
  BY DEF Settle, ConclaveTypeOK
<1> QED BY <1>3, <1>4, <1>5, <1>6

\* A checkpoint that is put is there, and the others stay as they are.
LEMMA PutMoves ==
    ASSUME NEW key, NEW check, PutCheck(key, check)
    PROVE  /\ DOMAIN checks' = DOMAIN checks \cup {key} /\ checks'[key] = check
           /\ \A k \in DOMAIN checks \ {key} : checks'[k] = checks[k]
BY DEF PutCheck

\* The reports of a session are answers.
LEMMA KeysTyped ==
    ASSUME NEW s \in Sessions, session[s].results \in [Runs -> Attempts \cup {NoTurn}]
    PROVE  KeyOf(s) \in Reports /\ Successful(s) \subseteq Runs
BY DEF KeyOf, Successful, Reports


-----------------------------------------------------------------------------
(* The types.                                                              *)

\* The order of the natural numbers is well-founded ...
LEMMA NumbersDescend ==
    \E R : IsWellFoundedOn(R, Nat) /\ \A x, y \in Nat : x < y => <<x, y>> \in R
<1>1. IsWellFoundedOn(OpToRel(<, Nat), Nat)
  BY NatLessThanWellFounded
<1>2. \A x, y \in Nat : x < y => <<x, y>> \in OpToRel(<, Nat)
  BY DEF OpToRel
<1> QED BY <1>1, <1>2

\* ... so a set of them has a least one.
LEMMA LeastNumber ==
    ASSUME NEW S, S \subseteq Nat, S # {}
    PROVE  \E n \in S : \A m \in S : n <= m
<1>1. PICK R : IsWellFoundedOn(R, Nat) /\ \A x, y \in Nat : x < y => <<x, y>> \in R
  BY NumbersDescend
<1>2. \E n \in S : \A m \in S : <<m, n>> \notin R
  BY <1>1, WFMin, Zenon
<1>3. PICK n \in S : \A m \in S : <<m, n>> \notin R
  BY <1>2
<1>4. ASSUME NEW m \in S, m < n PROVE FALSE
  <2>1. <<m, n>> \in R
    BY <1>1, <1>4
  <2> QED BY <1>3, <2>1
<1> QED BY <1>3, <1>4

\* The first attempt of a role that was not made yet is begun, and no other.
LEMMA LaunchMoves ==
    ASSUME TypeOK, NEW r \in Runs, Launches(r)
    PROVE  /\ TypeOK' /\ UNCHANGED <<connector, directory, child, turn, reader>>
           /\ \E n \in 1..Tries :
                /\ main[<<r, n>>].pc = "idle" /\ \A m \in 1..Tries : m < n => main[<<r, m>>].pc # "idle"
                /\ main'[<<r, n>>].pc = "check" /\ main'[<<r, n>>].conv = main[<<r, n>>].conv
                /\ \A a \in Attempts \ {<<r, n>>} : main'[a] = main[a]
<1>1. \E n \in Fresh(r) : \A m \in Fresh(r) : n <= m
  <2>1. Fresh(r) \in SUBSET Nat /\ Fresh(r) # {}
    BY DEF Fresh, Launches
  <2> QED BY <2>1, LeastNumber
<1>2. /\ NextTry(r) \in Fresh(r) /\ \A m \in Fresh(r) : NextTry(r) <= m
  BY <1>1 DEF NextTry
<1>3. PICK n \in 1..Tries : n = NextTry(r)
  BY <1>2 DEF Fresh
<1>4. /\ main[<<r, n>>].pc = "idle" /\ \A m \in 1..Tries : m < n => main[<<r, m>>].pc # "idle"
  BY <1>2, <1>3, TurnAssumption DEF Fresh, Doing
<1>5. PICK a \in Attempts : a = <<r, n>>
  BY DEF Attempts
<1>6. main' = [main EXCEPT ![a].pc = "check"] /\ UNCHANGED <<connector, directory, child, turn, reader>>
  BY <1>3, <1>5 DEF Launches
<1>7. main \in [Attempts -> Mains]
  BY DEF TypeOK
<1>8. main' \in [Attempts -> Mains] /\ main'[a].pc = "check" /\ main'[a].conv = main[a].conv
      /\ \A b \in Attempts \ {a} : main'[b] = main[b]
  BY <1>6, <1>7 DEF Mains
<1>9. TypeOK'
  BY <1>6, <1>8 DEF TypeOK, ConnectorTypeOK, connector, counts, directory
<1> QED BY <1>4, <1>5, <1>6, <1>8, <1>9

\* A session begins with nothing done.
LEMMA StartMoves ==
    ASSUME ConclaveTypeOK, NEW s \in Sessions, StartSession(s)
    PROVE  /\ ConclaveTypeOK' /\ UNCHANGED <<vars, synth, checks, report, lone>>
           /\ session[s].pc = "idle" /\ runLock = 0 /\ runLock' = s
           /\ \A t \in Sessions \ {s} : session'[t] = session[t]
           /\ session'[s].pc = IF s = 1 THEN "roles" ELSE "resume"
           /\ session'[s].todo = Runs /\ session'[s].role = {} /\ session'[s].verdict = "none"
           /\ session'[s].results = [r \in Runs |-> NoTurn]
           /\ IF s = 1 THEN manifest.status = "none" /\ manifest'.status = "running"
              ELSE manifest.status # "none" /\ manifest' = manifest
<1> USE DEF ConclaveTypeOK
<1> DEFINE label == IF s = 1 THEN "roles" ELSE "resume"
           none  == [r \in Runs |-> NoTurn]
           rec   == [IdleSession EXCEPT !.pc = label, !.todo = Runs, !.results = none]
<1>1. /\ session' = [session EXCEPT ![s] = rec]
      /\ session[s].pc = "idle" /\ runLock = 0 /\ runLock' = s
      /\ UNCHANGED <<vars, synth, checks, report, lone>>
  BY DEF StartSession, Now
<1>2. none \in Results /\ label \in SessionLabels
  BY DEF Results, SessionLabels
<1>3. /\ rec.pc = label /\ rec.todo = Runs /\ rec.role = {} /\ rec.verdict = "none"
      /\ rec.results = none /\ rec \in SessionRecs
  <2> HIDE DEF none, label
  <2> QED BY <1>2 DEF SessionRecs, IdleSession
<1>4. session'[s] = rec /\ \A t \in Sessions \ {s} : session'[t] = session[t]
  BY <1>1
<1>5. session' \in [Sessions -> SessionRecs]
  <2> HIDE DEF rec
  <2> QED BY <1>1, <1>3
<1>6. /\ manifest' \in [status : {"none", "running", "ok", "failed"},
                        roles : [Runs -> Verdicts \cup {"pending"}]]
      /\ IF s = 1 THEN manifest.status = "none" /\ manifest'.status = "running"
         ELSE manifest.status # "none" /\ manifest' = manifest
  BY DEF StartSession
<1> QED BY <1>1, <1>3, <1>4, <1>5, <1>6

\* A role is launched ...
LEMMA LaunchRoleMoves ==
    ASSUME TypeOK, ConclaveTypeOK, NEW s \in Sessions, NEW r \in Runs, LaunchRole(s, r)
    PROVE  /\ ConclaveTypeOK' /\ UNCHANGED <<manifest, runLock, synth, checks, report, lone>>
           /\ Launches(r)
           /\ session[s].pc = "roles" /\ r \in session[s].todo
           /\ \A t \in Sessions \ {s} : session'[t] = session[t]
           /\ session'[s].pc = "roles"
           /\ session'[s].todo = session[s].todo \ {r} /\ session'[s].role = session[s].role \cup {r}
           /\ session'[s].results = session[s].results /\ session'[s].verdict = session[s].verdict
<1> USE DEF ConclaveTypeOK
<1>1. PICK role \in SUBSET Runs, todo \in SUBSET Runs :
        role = session[s].role \cup {r} /\ todo = session[s].todo \ {r}
  BY DEF SessionRecs
<1>2. "roles" \in SessionLabels /\ session[s].pc = "roles"
  BY DEF SessionLabels, LaunchRole, Now
<1>3. session' = [session EXCEPT ![s].todo = todo, ![s].role = role]
  BY <1>1, Zenon DEF LaunchRole
<1>4. /\ session' \in [Sessions -> SessionRecs]
      /\ \A t \in Sessions \ {s} : session'[t] = session[t]
      /\ session'[s].pc = session[s].pc /\ session'[s].role = role /\ session'[s].todo = todo
      /\ session'[s].results = session[s].results /\ session'[s].verdict = session[s].verdict
  <2>1. session \in [Sessions -> SessionRecs]
    OBVIOUS
  <2> QED BY <1>3, <2>1, ListsTyped
<1>5. UNCHANGED <<manifest, runLock, synth, checks, report, lone>> /\ Launches(r) /\ r \in session[s].todo
  BY DEF LaunchRole
<1> QED BY <1>1, <1>2, <1>4, <1>5

\* ... and ends, ...
LEMMA RoleEndsMoves ==
    ASSUME TypeOK, ConclaveTypeOK, Locked, NEW s \in Sessions, NEW r \in Runs, RoleEnds(s, r)
    PROVE  LET ok == main[LastTry(r)].pc = "done" IN
           /\ UNCHANGED <<vars, runLock, synth, checks, report, lone>>
           /\ session[s].pc \in {"roles", "launched"} /\ r \in session[s].role
           /\ Ended(LastTry(r))
           /\ Settle(s, r, IF ok THEN response[r] ELSE NoTurn, IF ok THEN "ok" ELSE "failed",
                     IF session[s].pc = "launched" THEN "resume" ELSE "roles")
<1>1. session[s].pc \in {"roles", "launched"}
  BY DEF RoleEnds
<1>2. session[s].pc # "launched" => session[s].pc = "roles"
  BY <1>1
<1> QED BY <1>1, <1>2, Zenon DEF RoleEnds, Doing, Now

\* ... a resume takes its directory up, ...
LEMMA RecoverMoves ==
    ASSUME TypeOK, ConclaveTypeOK, NEW s \in Sessions, NEW r \in Runs, RecoverRole(s, r)
    PROVE  /\ TypeOK' /\ ConclaveTypeOK'
           /\ UNCHANGED <<manifest, runLock, synth, checks, report, lone>>
           /\ UNCHANGED <<connector, directory, main, child, turn>>
           /\ session[s].pc = "resume" /\ r \in session[s].todo /\ meta[r] # "ok"
           /\ reader'[r].pc = "local" /\ reader'[r].conv = NoTurn
           /\ \A q \in Runs \ {r} : reader'[q] = reader[q]
           /\ \A t \in Sessions \ {s} : session'[t] = session[t]
           /\ session'[s].pc = "recover"
           /\ session'[s].todo = session[s].todo \ {r} /\ session'[s].role = {r}
           /\ session'[s].results = session[s].results /\ session'[s].verdict = session[s].verdict
<1>1. /\ session[s].pc = "resume" /\ r \in session[s].todo /\ meta[r] # "ok"
      /\ UNCHANGED <<manifest, runLock, synth, checks, report, lone>>
      /\ UNCHANGED <<connector, directory, main, child, turn>>
  BY DEF RecoverRole, Now
<1>2. session \in [Sessions -> SessionRecs]
  BY DEF ConclaveTypeOK
<1>3. PICK role \in SUBSET Runs, todo \in SUBSET Runs :
        role = {r} /\ todo = session[s].todo \ {r}
  BY <1>2 DEF SessionRecs
<1>4. session' = [session EXCEPT ![s].pc = "recover", ![s].role = role, ![s].todo = todo]
  BY <1>3, Zenon DEF RecoverRole
<1>5. "recover" \in SessionLabels
  BY DEF SessionLabels
<1>6. /\ session' \in [Sessions -> SessionRecs]
      /\ \A t \in Sessions \ {s} : session'[t] = session[t]
      /\ session'[s].pc = "recover" /\ session'[s].role = role /\ session'[s].todo = todo
      /\ session'[s].results = session[s].results /\ session'[s].verdict = session[s].verdict
  BY <1>2, <1>4, <1>5, RolesTyped
<1>7. Resume(r)
  BY DEF RecoverRole, Resume
<1>8. TypeOK' /\ \A q \in Runs \ {r} : reader'[q] = reader[q]
  BY <1>7, ResumeTyped DEF Resuming
<1>9. reader'[r].pc = "local" /\ reader'[r].conv = NoTurn
  BY <1>7 DEF Resume, IdleReader, TypeOK
<1>10. ConclaveTypeOK'
  BY <1>1, <1>6 DEF ConclaveTypeOK
<1> QED BY <1>1, <1>3, <1>6, <1>8, <1>9, <1>10

\* ... and a role is launched in its place.
LEMMA RelaunchMoves ==
    ASSUME TypeOK, ConclaveTypeOK, NEW s \in Sessions, NEW r \in Runs, RelaunchRole(s, r)
    PROVE  /\ ConclaveTypeOK' /\ UNCHANGED <<manifest, runLock, synth, checks, report, lone>>
           /\ Launches(r)
           /\ \/ session[s].pc = "launch" /\ session[s].role = {r}
              \/ session[s].pc = "resume" /\ r \in session[s].todo /\ meta[r] # "ok"
           /\ \A t \in Sessions \ {s} : session'[t] = session[t]
           /\ session'[s].pc = "launched"
           /\ session'[s].todo = session[s].todo \ {r} /\ session'[s].role = {r}
           /\ session'[s].results = session[s].results /\ session'[s].verdict = session[s].verdict
<1>1. /\ \/ session[s].pc = "launch" /\ session[s].role = {r}
         \/ session[s].pc = "resume" /\ r \in session[s].todo /\ meta[r] # "ok"
      /\ Launches(r) /\ UNCHANGED <<manifest, runLock, synth, checks, report, lone>>
  BY DEF RelaunchRole, Now
<1>2. session \in [Sessions -> SessionRecs]
  BY DEF ConclaveTypeOK
<1>3. PICK role \in SUBSET Runs, todo \in SUBSET Runs :
        role = {r} /\ todo = session[s].todo \ {r}
  BY <1>2 DEF SessionRecs
<1>4. session' = [session EXCEPT ![s].pc = "launched", ![s].role = role, ![s].todo = todo]
  BY <1>3, Zenon DEF RelaunchRole
<1>5. "launched" \in SessionLabels
  BY DEF SessionLabels
<1>6. /\ session' \in [Sessions -> SessionRecs]
      /\ \A t \in Sessions \ {s} : session'[t] = session[t]
      /\ session'[s].pc = "launched" /\ session'[s].role = role /\ session'[s].todo = todo
      /\ session'[s].results = session[s].results /\ session'[s].verdict = session[s].verdict
  BY <1>2, <1>4, <1>5, RolesTyped
<1>7. ConclaveTypeOK'
  BY <1>1, <1>6 DEF ConclaveTypeOK
<1> QED BY <1>1, <1>3, <1>6, <1>7

\* A role that is settled keeps the types.
LEMMA SettleTyped ==
    ASSUME ConclaveTypeOK, NEW s \in Sessions, Active(s), Locked, NEW r \in Runs,
           NEW result \in Attempts \cup {NoTurn}, NEW status \in Verdicts,
           NEW label \in SessionLabels, Settle(s, r, result, status, label),
           UNCHANGED <<runLock, synth, checks, report>>, lone' \in BOOLEAN
    PROVE  ConclaveTypeOK'
<1>1. session' \in [Sessions -> SessionRecs]
  BY SettleMoves
<1>2. manifest' \in [status : {"none", "running", "ok", "failed"},
                     roles : [Runs -> Verdicts \cup {"pending"}]]
  <2>1. status \in Verdicts \cup {"pending"}
    OBVIOUS
  <2>2. manifest' = [manifest EXCEPT !.roles[r] = status]
    BY DEF Settle
  <2> QED BY <2>1, <2>2 DEF ConclaveTypeOK
<1> QED BY <1>1, <1>2 DEF ConclaveTypeOK

\* A recovered role is settled, or launched by the same session.
LEMMA RecoveredMoves ==
    ASSUME TypeOK, ConclaveTypeOK, NEW s \in Sessions, NEW r \in Runs, Recovered(s, r)
    PROVE  /\ UNCHANGED <<vars, runLock, synth, checks, report, lone>>
           /\ session[s].pc = "recover" /\ session[s].role = {r} /\ reader[r].pc = "over"
           /\ \/ /\ reader[r].verdict # "ok" /\ ConclaveTypeOK'
                 /\ \A t \in Sessions \ {s} : session'[t] = session[t]
                 /\ session'[s].pc = "launch"
                 /\ session'[s].todo = session[s].todo /\ session'[s].role = session[s].role
                 /\ session'[s].results = session[s].results
                 /\ session'[s].verdict = session[s].verdict
                 /\ manifest'.status = manifest.status
              \/ Settle(s, r, IF reader[r].verdict = "ok" THEN response[r] ELSE NoTurn,
                        reader[r].verdict, "resume")
<1>1. /\ UNCHANGED <<vars, runLock, synth, checks, report, lone>>
      /\ session[s].pc = "recover" /\ session[s].role = {r} /\ reader[r].pc = "over"
  BY DEF Recovered, Now, Reading
<1>2. CASE reader[r].verdict = "not-submitted"
  <2>1. /\ session' = [session EXCEPT ![s].pc = "launch"]
        /\ manifest' = [manifest EXCEPT !.roles[r] = "not-submitted"]
    BY <1>2, Zenon DEF Recovered, Goes
  <2>2. "launch" \in SessionLabels /\ session \in [Sessions -> SessionRecs]
    BY DEF SessionLabels, ConclaveTypeOK
  <2>3. /\ session' \in [Sessions -> SessionRecs]
        /\ \A t \in Sessions \ {s} : session'[t] = session[t]
        /\ session'[s].pc = "launch"
        /\ session'[s].todo = session[s].todo /\ session'[s].role = session[s].role
        /\ session'[s].results = session[s].results /\ session'[s].verdict = session[s].verdict
    BY <2>1, <2>2 DEF SessionRecs
  <2>4. /\ manifest' \in [status : {"none", "running", "ok", "failed"},
                          roles : [Runs -> Verdicts \cup {"pending"}]]
        /\ manifest'.status = manifest.status
    BY <2>1 DEF ConclaveTypeOK, Verdicts
  <2> QED BY <1>1, <1>2, <2>3, <2>4 DEF ConclaveTypeOK
<1>3. CASE reader[r].verdict # "not-submitted"
  BY <1>1, <1>3, Zenon DEF Recovered
<1> QED BY <1>2, <1>3

\* A session that publishes has nothing in hand.
LEMMA PublishMoves ==
    ASSUME ConclaveTypeOK, Locked, NEW s \in Sessions, Active(s), NEW status \in {"ok", "failed"},
           NEW key \in Reports, Publish(s, status, key), UNCHANGED <<synth, checks, lone>>
    PROVE  /\ ConclaveTypeOK' /\ runLock' = 0 /\ manifest'.status = status
           /\ report' = [status |-> status, key |-> key, roles |-> Successful(s)]
           /\ \A t \in Sessions \ {s} : session'[t] = session[t]
           /\ session'[s].pc = "over" /\ session'[s].todo = {} /\ session'[s].role = {}
<1> DEFINE rec == [IdleSession EXCEPT !.pc = "over"]
<1>1. /\ rec \in SessionRecs /\ rec.pc = "over" /\ rec.todo = {} /\ rec.role = {}
  BY DEF SessionRecs, SessionLabels, IdleSession, Results
<1>2. session' = [session EXCEPT ![s] = rec] /\ session \in [Sessions -> SessionRecs]
  BY DEF Publish, ConclaveTypeOK
<1> HIDE DEF rec
<1>3. session' \in [Sessions -> SessionRecs] /\ session'[s] = rec
      /\ \A t \in Sessions \ {s} : session'[t] = session[t]
  BY <1>1, <1>2
<1>4. /\ manifest' \in [status : {"none", "running", "ok", "failed"},
                        roles : [Runs -> Verdicts \cup {"pending"}]]
      /\ manifest'.status = status
  BY DEF Publish, ConclaveTypeOK
<1>5. Successful(s) \subseteq Runs
  BY DEF Successful
<1>6. /\ report' = [status |-> status, key |-> key, roles |-> Successful(s)]
      /\ report' \in [status : {"none", "ok", "failed"}, key : Reports, roles : SUBSET Runs]
      /\ runLock' = 0
  BY <1>5 DEF Publish
<1> QED BY <1>1, <1>3, <1>4, <1>6 DEF ConclaveTypeOK

\* A session between its roles and its report: its label and its verdict change.
LEMMA LabelMoves ==
    ASSUME session \in [Sessions -> SessionRecs], NEW s \in Sessions, NEW label \in SessionLabels,
           NEW verdict \in {"none", "ok", "failed"},
           \/ session' = [session EXCEPT ![s].pc = label, ![s].verdict = verdict]
           \/ session' = [session EXCEPT ![s].pc = label] /\ verdict = session[s].verdict
    PROVE  /\ session' \in [Sessions -> SessionRecs]
           /\ \A t \in Sessions \ {s} : session'[t] = session[t]
           /\ session'[s].pc = label /\ session'[s].verdict = verdict
           /\ session'[s].role = session[s].role /\ session'[s].todo = session[s].todo
           /\ session'[s].results = session[s].results
BY DEF SessionRecs

\* A checkpoint with new contents keeps its type, and so do the others.
LEMMA PutTyped ==
    ASSUME ConclaveTypeOK, NEW key \in Reports, NEW check \in CheckRecs, PutCheck(key, check)
    PROVE  DOMAIN checks' \subseteq Reports /\ \A k \in DOMAIN checks' : checks'[k] \in CheckRecs
<1>1. /\ DOMAIN checks' = DOMAIN checks \cup {key} /\ checks'[key] = check
      /\ \A k \in DOMAIN checks \ {key} : checks'[k] = checks[k]
  BY PutMoves
<1>2. DOMAIN checks \subseteq Reports /\ \A k \in DOMAIN checks : checks[k] \in CheckRecs
  BY DEF ConclaveTypeOK
<1> QED BY <1>1, <1>2

\* A new checkpoint is empty.
LEMMA FirstCheck ==
    ASSUME ConclaveTypeOK, NEW key
    PROVE  Check0(key) \in CheckRecs /\ (key \in DOMAIN checks => Check0(key) = checks[key])
           /\ (key \notin DOMAIN checks => Check0(key) = NoCheck)
BY DEF Check0, NoCheck, CheckRecs, ConclaveTypeOK, Phases

\* A synthesis is one of three: its checkpoint has the result, its turn may have
\* been posted, or it is asked for.
LEMMA SynthesizeMoves ==
    ASSUME ConclaveTypeOK, Locked, NEW s \in Sessions, Synthesize(s)
    PROVE  /\ ConclaveTypeOK' /\ UNCHANGED <<vars, manifest, runLock, report, lone>>
           /\ session[s].pc \in {"roles", "resume"}
           /\ session[s].todo = {} /\ session[s].role = {}
           /\ session'[s].results = session[s].results
           /\ session'[s].todo = {} /\ session'[s].role = {}
           /\ \A t \in Sessions \ {s} : session'[t] = session[t] /\ synth'[t] = synth[t]
           /\ synth'[s].key = KeyOf(s)
           /\ \/ /\ session'[s].pc = "publish" /\ session'[s].verdict = "ok"
                 /\ KeyOf(s) \in DOMAIN checks /\ checks[KeyOf(s)].ok
                 /\ synth'[s].st = synth[s].st /\ synth'[s].posted = synth[s].posted
                 /\ UNCHANGED checks
              \/ /\ session'[s].pc = "fetch"
                 /\ KeyOf(s) \in DOMAIN checks /\ checks[KeyOf(s)].request # 0
                 /\ synth'[s].st = synth[s].st /\ synth'[s].posted = synth[s].posted
                 /\ UNCHANGED checks
              \/ /\ session'[s].pc = "synth"
                 /\ synth'[s].st = "queued" /\ synth'[s].posted = "no"
                 /\ KeyOf(s) \in DOMAIN checks =>
                      checks[KeyOf(s)].request = 0 \/ ~ProvesSubmission(checks[KeyOf(s)].journal)
                 /\ PutCheck(KeyOf(s), [Check0(KeyOf(s)) EXCEPT !.request = s])
<1>1. /\ session[s].pc \in {"roles", "resume"} /\ session[s].todo = {} /\ session[s].role = {}
      /\ UNCHANGED <<vars, manifest, runLock, report, lone>>
  BY DEF Synthesize, RolesDone
<1>2. session[s].results \in [Runs -> Attempts \cup {NoTurn}] /\ KeyOf(s) \in Reports
  BY <1>1, KeysTyped DEF Locked, SessionOk, Active
<1>3. PICK key \in Reports : key = KeyOf(s)
  BY <1>2
<1>4. PICK check \in CheckRecs :
        /\ check = Check0(key) /\ (key \in DOMAIN checks => check = checks[key])
        /\ key \notin DOMAIN checks => check = NoCheck
  BY FirstCheck
<1>5. session \in [Sessions -> SessionRecs] /\ synth \in [Sessions -> SynthRecs]
  BY DEF ConclaveTypeOK
<1>6. {"publish", "fetch", "synth"} \subseteq SessionLabels
  BY DEF SessionLabels
<1>7. ASSUME synth' = [synth EXCEPT ![s].key = key]
      PROVE  /\ synth' \in [Sessions -> SynthRecs] /\ \A t \in Sessions \ {s} : synth'[t] = synth[t]
             /\ synth'[s].key = key
             /\ synth'[s].st = synth[s].st /\ synth'[s].posted = synth[s].posted
  BY <1>5, <1>7 DEF SynthRecs
<1>8. CASE s # 1 /\ check.ok
  <2>1. /\ session' = [session EXCEPT ![s].pc = "publish", ![s].verdict = "ok"]
        /\ synth' = [synth EXCEPT ![s].key = key] /\ UNCHANGED checks
    BY <1>3, <1>4, <1>8, Zenon DEF Synthesize
  <2>2. key \in DOMAIN checks /\ checks[key].ok
    BY <1>4, <1>8 DEF NoCheck
  <2>3. /\ session' \in [Sessions -> SessionRecs]
        /\ \A t \in Sessions \ {s} : session'[t] = session[t]
        /\ session'[s].pc = "publish" /\ session'[s].verdict = "ok"
        /\ session'[s].role = session[s].role /\ session'[s].todo = session[s].todo
        /\ session'[s].results = session[s].results
    BY <1>5, <1>6, <2>1, LabelMoves
  <2> QED BY <1>1, <1>3, <1>7, <2>1, <2>2, <2>3 DEF ConclaveTypeOK
<1>9. CASE ~(s # 1 /\ check.ok) /\ check.request # 0 /\ Proven(check)
  <2>1. /\ session' = [session EXCEPT ![s].pc = "fetch"]
        /\ synth' = [synth EXCEPT ![s].key = key] /\ UNCHANGED checks
    BY <1>3, <1>4, <1>9, Zenon DEF Synthesize, Goes
  <2>2. key \in DOMAIN checks /\ checks[key].request # 0
    BY <1>4, <1>9 DEF NoCheck
  <2>3. session[s].verdict \in {"none", "ok", "failed"}
    BY <1>5 DEF SessionRecs
  <2>4. /\ session' \in [Sessions -> SessionRecs]
        /\ \A t \in Sessions \ {s} : session'[t] = session[t]
        /\ session'[s].pc = "fetch"
        /\ session'[s].role = session[s].role /\ session'[s].todo = session[s].todo
        /\ session'[s].results = session[s].results
    BY <1>5, <1>6, <2>1, <2>3, LabelMoves
  <2> QED BY <1>1, <1>3, <1>7, <2>1, <2>2, <2>4 DEF ConclaveTypeOK
<1>10. CASE ~(s # 1 /\ check.ok) /\ ~(check.request # 0 /\ Proven(check))
  <2>1. /\ session' = [session EXCEPT ![s].pc = "synth"]
        /\ synth' = [synth EXCEPT ![s] = [st |-> "queued", key |-> key, posted |-> "no"]]
        /\ PutCheck(key, [check EXCEPT !.request = s])
    BY <1>3, <1>4, <1>10, Zenon DEF Synthesize, Goes
  <2>2. key \in DOMAIN checks => checks[key].request = 0 \/ ~ProvesSubmission(checks[key].journal)
    BY <1>4, <1>10 DEF Proven
  <2>3. session[s].verdict \in {"none", "ok", "failed"}
    BY <1>5 DEF SessionRecs
  <2>4. /\ session' \in [Sessions -> SessionRecs]
        /\ \A t \in Sessions \ {s} : session'[t] = session[t]
        /\ session'[s].pc = "synth"
        /\ session'[s].role = session[s].role /\ session'[s].todo = session[s].todo
        /\ session'[s].results = session[s].results
    BY <1>5, <1>6, <2>1, <2>3, LabelMoves
  <2>5. [check EXCEPT !.request = s] \in CheckRecs
    BY DEF CheckRecs
  <2>6. DOMAIN checks' \subseteq Reports /\ \A k \in DOMAIN checks' : checks'[k] \in CheckRecs
    BY <2>1, <2>5, PutTyped
  <2>7. [st |-> "queued", key |-> key, posted |-> "no"] \in SynthRecs
    BY DEF SynthRecs, Live
  <2>8. /\ synth' \in [Sessions -> SynthRecs] /\ \A t \in Sessions \ {s} : synth'[t] = synth[t]
        /\ synth'[s].st = "queued" /\ synth'[s].posted = "no" /\ synth'[s].key = key
    BY <1>5, <2>1, <2>7
  <2>9. ConclaveTypeOK'
    <3>1. DOMAIN checks' = DOMAIN checks \cup {key}
      BY <2>1, PutMoves
    <3>2. \A t \in Sessions : synth'[t].st # "none" => synth'[t].key \in DOMAIN checks'
      BY <2>8, <3>1 DEF ConclaveTypeOK
    <3> QED BY <1>1, <2>4, <2>6, <2>8, <3>2 DEF ConclaveTypeOK
  <2>10. PutCheck(KeyOf(s), [Check0(KeyOf(s)) EXCEPT !.request = s])
    BY <1>3, <1>4, <2>1
  <2> QED BY <1>1, <1>3, <2>2, <2>4, <2>8, <2>9, <2>10
<1> QED BY <1>8, <1>9, <1>10

\* A resume fetches the answer of the synthesis that was posted, or gives up.
LEMMA FetchMoves ==
    ASSUME ConclaveTypeOK, NEW s \in Sessions, FetchSynthesis(s),
           synth[s].key \in DOMAIN checks, checks[synth[s].key].request # 0
    PROVE  /\ ConclaveTypeOK' /\ UNCHANGED <<vars, manifest, runLock, synth, report, lone>>
           /\ session[s].pc = "fetch"
           /\ \A t \in Sessions \ {s} : session'[t] = session[t]
           /\ session'[s].pc = "publish"
           /\ session'[s].role = session[s].role /\ session'[s].todo = session[s].todo
           /\ session'[s].results = session[s].results
           /\ \/ /\ session'[s].verdict = "ok"
                 /\ synth[checks[synth[s].key].request].posted = "answered"
                 /\ DOMAIN checks' = DOMAIN checks
                 /\ \A k \in DOMAIN checks : /\ checks'[k].request = checks[k].request
                                             /\ checks'[k].journal = checks[k].journal
                                             /\ checks'[k].ok => k = synth[s].key \/ checks[k].ok
              \/ session'[s].verdict = "failed" /\ UNCHANGED checks
<1>1. /\ UNCHANGED <<vars, manifest, runLock, synth, report, lone>> /\ session[s].pc = "fetch"
  BY DEF FetchSynthesis, Now
<1>2. PICK key \in DOMAIN checks : key = synth[s].key
  OBVIOUS
<1>3. PICK check \in CheckRecs : check = checks[key] /\ check = Check0(key) /\ key \in Reports
  BY DEF ConclaveTypeOK, Check0
<1>4. session \in [Sessions -> SessionRecs] /\ "publish" \in SessionLabels
  BY DEF ConclaveTypeOK, SessionLabels
<1>5. CASE /\ synth[check.request].posted = "answered"
           /\ PutCheck(key, [check EXCEPT !.ok = TRUE, !.saved = check.request])
           /\ session' = [session EXCEPT ![s].pc = "publish", ![s].verdict = "ok"]
  <2> DEFINE new == [check EXCEPT !.ok = TRUE, !.saved = check.request]
  <2>1. new \in CheckRecs /\ new.request = check.request /\ new.journal = check.journal
    BY DEF CheckRecs
  <2> HIDE DEF new
  <2>2. PutCheck(key, new)
    BY <1>5 DEF new
  <2>3. /\ DOMAIN checks' = DOMAIN checks \cup {key} /\ checks'[key] = new
        /\ \A k \in DOMAIN checks \ {key} : checks'[k] = checks[k]
    BY <2>2, PutMoves
  <2>4. DOMAIN checks' \subseteq Reports /\ \A k \in DOMAIN checks' : checks'[k] \in CheckRecs
    BY <1>3, <2>1, <2>2, PutTyped
  <2>5. DOMAIN checks' = DOMAIN checks
    BY <2>3
  <2>6. \A k \in DOMAIN checks : /\ checks'[k].request = checks[k].request
                                 /\ checks'[k].journal = checks[k].journal
                                 /\ checks'[k].ok => k = key \/ checks[k].ok
    BY <1>3, <2>1, <2>3
  <2>7. /\ session' \in [Sessions -> SessionRecs]
        /\ \A t \in Sessions \ {s} : session'[t] = session[t]
        /\ session'[s].pc = "publish" /\ session'[s].verdict = "ok"
        /\ session'[s].role = session[s].role /\ session'[s].todo = session[s].todo
        /\ session'[s].results = session[s].results
    BY <1>4, <1>5, LabelMoves
  <2>8. ConclaveTypeOK'
    BY <1>1, <2>4, <2>5, <2>7 DEF ConclaveTypeOK
  <2> QED BY <1>1, <1>2, <1>3, <1>5, <2>5, <2>6, <2>7, <2>8
<1>6. CASE /\ session' = [session EXCEPT ![s].pc = "publish", ![s].verdict = "failed"]
           /\ UNCHANGED checks
  <2>1. /\ session' \in [Sessions -> SessionRecs]
        /\ \A t \in Sessions \ {s} : session'[t] = session[t]
        /\ session'[s].pc = "publish" /\ session'[s].verdict = "failed"
        /\ session'[s].role = session[s].role /\ session'[s].todo = session[s].todo
        /\ session'[s].results = session[s].results
    BY <1>4, <1>6, LabelMoves
  <2> QED BY <1>1, <1>6, <2>1 DEF ConclaveTypeOK
<1> QED BY <1>2, <1>3, <1>5, <1>6, Zenon DEF FetchSynthesis

\* A session learns how its synthesis ended.
LEMMA SynthEndsMoves ==
    ASSUME ConclaveTypeOK, NEW s \in Sessions, SynthEnds(s), synth[s].key \in DOMAIN checks
    PROVE  /\ ConclaveTypeOK' /\ UNCHANGED <<vars, manifest, runLock, synth, report, lone>>
           /\ session[s].pc = "synth" /\ synth[s].st \in {"done", "failed", "killed"}
           /\ \A t \in Sessions \ {s} : session'[t] = session[t]
           /\ session'[s].pc = "publish"
           /\ session'[s].role = session[s].role /\ session'[s].todo = session[s].todo
           /\ session'[s].results = session[s].results
           /\ \/ /\ session'[s].verdict = "ok" /\ synth[s].st = "done"
                 /\ DOMAIN checks' = DOMAIN checks
                 /\ \A k \in DOMAIN checks : /\ checks'[k].request = checks[k].request
                                             /\ checks'[k].journal = checks[k].journal
                                             /\ checks'[k].ok => k = synth[s].key \/ checks[k].ok
              \/ session'[s].verdict = "failed" /\ UNCHANGED checks
<1>1. /\ UNCHANGED <<vars, manifest, runLock, synth, report, lone>> /\ session[s].pc = "synth"
      /\ synth[s].st \in {"done", "failed", "killed"}
  BY DEF SynthEnds, Now
<1>2. PICK key \in DOMAIN checks : key = synth[s].key
  OBVIOUS
<1>3. PICK check \in CheckRecs : check = checks[key] /\ key \in Reports
  BY DEF ConclaveTypeOK
<1>4. session \in [Sessions -> SessionRecs] /\ "publish" \in SessionLabels
  BY DEF ConclaveTypeOK, SessionLabels
<1>5. PICK verdict \in {"ok", "failed"} :
        /\ verdict = "ok" => synth[s].st = "done"
        /\ session' = [session EXCEPT ![s].pc = "publish", ![s].verdict = verdict]
        /\ IF verdict = "ok" THEN PutCheck(key, [check EXCEPT !.ok = TRUE]) ELSE UNCHANGED checks
  BY <1>2, <1>3, Zenon DEF SynthEnds
<1>6. /\ session' \in [Sessions -> SessionRecs]
      /\ \A t \in Sessions \ {s} : session'[t] = session[t]
      /\ session'[s].pc = "publish" /\ session'[s].verdict = verdict
      /\ session'[s].role = session[s].role /\ session'[s].todo = session[s].todo
      /\ session'[s].results = session[s].results
  BY <1>4, <1>5, LabelMoves
<1>7. CASE verdict = "ok"
  <2> DEFINE new == [check EXCEPT !.ok = TRUE]
  <2>1. new \in CheckRecs /\ new.request = check.request /\ new.journal = check.journal
    BY DEF CheckRecs
  <2> HIDE DEF new
  <2>2. PutCheck(key, new)
    BY <1>5, <1>7 DEF new
  <2>3. /\ DOMAIN checks' = DOMAIN checks \cup {key} /\ checks'[key] = new
        /\ \A k \in DOMAIN checks \ {key} : checks'[k] = checks[k]
    BY <2>2, PutMoves
  <2>4. DOMAIN checks' \subseteq Reports /\ \A k \in DOMAIN checks' : checks'[k] \in CheckRecs
    BY <1>3, <2>1, <2>2, PutTyped
  <2>5. DOMAIN checks' = DOMAIN checks
    BY <2>3
  <2>6. \A k \in DOMAIN checks : /\ checks'[k].request = checks[k].request
                                 /\ checks'[k].journal = checks[k].journal
                                 /\ checks'[k].ok => k = key \/ checks[k].ok
    BY <1>3, <2>1, <2>3
  <2>7. ConclaveTypeOK'
    BY <1>1, <1>6, <2>4, <2>5 DEF ConclaveTypeOK
  <2> QED BY <1>1, <1>2, <1>5, <1>6, <1>7, <2>5, <2>6, <2>7
<1>8. CASE verdict = "failed"
  <2>1. ConclaveTypeOK'
    BY <1>1, <1>5, <1>6, <1>8 DEF ConclaveTypeOK
  <2> QED BY <1>1, <1>5, <1>6, <1>8, <2>1
<1> QED BY <1>7, <1>8

\* What the child of a synthesis does to it and to its checkpoint.
LEMMA SynthStepMoves ==
    ASSUME ConclaveTypeOK, NEW s \in Sessions, SynthStep(s)
    PROVE  /\ ConclaveTypeOK' /\ UNCHANGED <<vars, manifest, runLock, session, report, lone>>
           /\ \A t \in Sessions \ {s} : synth'[t] = synth[t]
           /\ synth'[s].key = synth[s].key /\ DOMAIN checks' = DOMAIN checks
           /\ \A k \in DOMAIN checks : /\ checks'[k].request = checks[k].request
                                       /\ checks'[k].ok = checks[k].ok
                                       /\ k # synth[s].key => checks'[k] = checks[k]
           /\ \/ /\ synth[s].st = "queued" /\ synth'[s].st = "admitted"
                 /\ synth'[s].posted = synth[s].posted
              \/ /\ synth[s].st = "admitted" /\ synth'[s].st = "posting"
                 /\ synth'[s].posted = synth[s].posted
                 /\ ProvesSubmission(checks'[synth[s].key].journal)
              \/ /\ synth[s].st = "posting" /\ synth[s].posted = "no"
                 /\ synth'[s].st = "posting" /\ synth'[s].posted = "yes" /\ UNCHANGED checks
              \/ /\ synth[s].posted = "yes" /\ synth'[s].st = synth[s].st
                 /\ synth'[s].posted = "answered" /\ UNCHANGED checks
              \/ /\ synth[s].st = "posting" /\ synth'[s].st \in {"done", "failed"}
                 /\ synth'[s].posted = synth[s].posted
                 /\ synth'[s].st = "done" => synth[s].posted = "answered"
                 /\ ProvesSubmission(checks'[synth[s].key].journal)
              \/ /\ synth[s].st = "queued" /\ synth'[s].st = "failed"
                 /\ synth'[s].posted = synth[s].posted /\ UNCHANGED checks
<1>1. synth \in [Sessions -> SynthRecs]
  BY DEF ConclaveTypeOK
<1>2. PICK key : key = synth[s].key
  OBVIOUS
<1>3. ASSUME NEW st \in {"admitted", "posting", "done", "failed"}, NEW phase \in Phases,
             NEW by \in Sessions \cup {0}, synth[s].st # "none",
             SynthAt(s, st), AtSynth,
             \/ Journals(s, phase)
             \/ PutCheck(key, [checks[key] EXCEPT !.journal = phase, !.saved = by])
      PROVE  /\ ConclaveTypeOK' /\ UNCHANGED <<vars, manifest, runLock, session, report, lone>>
             /\ \A t \in Sessions \ {s} : synth'[t] = synth[t]
             /\ synth'[s].key = synth[s].key /\ DOMAIN checks' = DOMAIN checks
             /\ \A k \in DOMAIN checks : /\ checks'[k].request = checks[k].request
                                         /\ checks'[k].ok = checks[k].ok
                                         /\ k # synth[s].key => checks'[k] = checks[k]
             /\ synth'[s].st = st /\ synth'[s].posted = synth[s].posted
             /\ checks'[synth[s].key].journal = phase
  <2>1. key \in DOMAIN checks /\ checks[key] \in CheckRecs /\ key \in Reports
    BY <1>2, <1>3 DEF ConclaveTypeOK
  <2>2. PICK new \in CheckRecs : /\ PutCheck(key, new)
                                 /\ new.request = checks[key].request /\ new.ok = checks[key].ok
                                 /\ new.journal = phase
    <3>1. CASE Journals(s, phase)
      <4>1. [checks[key] EXCEPT !.journal = phase] \in CheckRecs
        BY <1>3, <2>1 DEF CheckRecs
      <4>2. /\ [checks[key] EXCEPT !.journal = phase].request = checks[key].request
            /\ [checks[key] EXCEPT !.journal = phase].ok = checks[key].ok
            /\ [checks[key] EXCEPT !.journal = phase].journal = phase
        BY <1>3, <2>1 DEF CheckRecs
      <4> QED BY <1>2, <3>1, <4>1, <4>2, Zenon DEF Journals
    <3>2. CASE PutCheck(key, [checks[key] EXCEPT !.journal = phase, !.saved = by])
      <4> DEFINE new == [checks[key] EXCEPT !.journal = phase, !.saved = by]
      <4>1. new \in CheckRecs
        BY <1>3, <2>1 DEF CheckRecs
      <4>2. new.request = checks[key].request /\ new.ok = checks[key].ok /\ new.journal = phase
        BY <1>3, <2>1 DEF CheckRecs
      <4>3. PutCheck(key, new)
        BY <3>2
      <4> HIDE DEF new
      <4> QED BY <4>1, <4>2, <4>3
    <3> QED BY <1>3, <3>1, <3>2
  <2>3. /\ DOMAIN checks' = DOMAIN checks \cup {key} /\ checks'[key] = new
        /\ \A k \in DOMAIN checks \ {key} : checks'[k] = checks[k]
    BY <2>2, PutMoves
  <2>4. DOMAIN checks' \subseteq Reports /\ \A k \in DOMAIN checks' : checks'[k] \in CheckRecs
    BY <2>1, <2>2, PutTyped
  <2>5. /\ DOMAIN checks' = DOMAIN checks
        /\ \A k \in DOMAIN checks : /\ checks'[k].request = checks[k].request
                                    /\ checks'[k].ok = checks[k].ok
                                    /\ k # key => checks'[k] = checks[k]
    BY <2>1, <2>2, <2>3
  <2>6. /\ synth' \in [Sessions -> SynthRecs] /\ \A t \in Sessions \ {s} : synth'[t] = synth[t]
        /\ synth'[s].key = synth[s].key
        /\ synth'[s].st = st /\ synth'[s].posted = synth[s].posted
    <3>1. synth' = [synth EXCEPT ![s].st = st] /\ st \in {"none", "done", "failed", "killed"} \cup Live
      BY <1>3 DEF SynthAt, Live
    <3> QED BY <1>1, <3>1 DEF SynthRecs
  <2>7. UNCHANGED <<vars, manifest, runLock, session, report, lone>>
    BY <1>3 DEF AtSynth
  <2>8. ConclaveTypeOK'
    BY <1>2, <2>1, <2>4, <2>5, <2>6, <2>7 DEF ConclaveTypeOK
  <2> QED BY <1>2, <2>2, <2>3, <2>5, <2>6, <2>7, <2>8
<1>4. ASSUME NEW posted \in {"yes", "answered"}, synth' = [synth EXCEPT ![s].posted = posted],
             AtSynth, UNCHANGED checks
      PROVE  /\ ConclaveTypeOK' /\ UNCHANGED <<vars, manifest, runLock, session, report, lone>>
             /\ \A t \in Sessions \ {s} : synth'[t] = synth[t]
             /\ synth'[s].key = synth[s].key /\ synth'[s].st = synth[s].st
             /\ synth'[s].posted = posted
  <2>1. /\ synth' \in [Sessions -> SynthRecs] /\ \A t \in Sessions \ {s} : synth'[t] = synth[t]
        /\ synth'[s].key = synth[s].key /\ synth'[s].st = synth[s].st /\ synth'[s].posted = posted
    BY <1>1, <1>4 DEF SynthRecs
  <2>2. UNCHANGED <<vars, manifest, runLock, session, report, lone>>
    BY <1>4 DEF AtSynth
  <2> QED BY <1>4, <2>1, <2>2 DEF ConclaveTypeOK
<1>5. /\ {"preflight-complete", "submission-started", "submission-outcome-unknown", "completed"}
           \subseteq Phases
      /\ \A p \in {"submission-started", "submission-outcome-unknown", "completed"} : ProvesSubmission(p)
  BY DEF Phases, ProvesSubmission
<1>6. CASE synth[s].st = "queued" /\ SynthAt(s, "admitted") /\ Journals(s, "preflight-complete") /\ AtSynth
  BY <1>3, <1>5, <1>6
<1>7. CASE synth[s].st = "admitted" /\ SynthAt(s, "posting") /\ Journals(s, "submission-started") /\ AtSynth
  BY <1>3, <1>5, <1>7
<1>8. CASE /\ synth[s].st = "posting" /\ synth[s].posted = "no"
           /\ synth' = [synth EXCEPT ![s].posted = "yes"] /\ AtSynth /\ UNCHANGED checks
  BY <1>4, <1>8
<1>9. CASE /\ synth[s].posted = "yes"
           /\ synth' = [synth EXCEPT ![s].posted = "answered"] /\ AtSynth /\ UNCHANGED checks
  BY <1>4, <1>9
<1>10. CASE /\ synth[s].st = "posting" /\ synth[s].posted = "answered" /\ SynthAt(s, "done")
            /\ PutCheck(key, [checks[key] EXCEPT !.journal = "completed", !.saved = s]) /\ AtSynth
  BY <1>3, <1>5, <1>10
<1>11. CASE /\ synth[s].st = "posting" /\ SynthAt(s, "failed")
            /\ Journals(s, "submission-outcome-unknown") /\ AtSynth
  BY <1>3, <1>5, <1>11
<1>12. CASE synth[s].st = "queued" /\ SynthAt(s, "failed") /\ AtSynth /\ UNCHANGED checks
  <2>1. /\ synth' \in [Sessions -> SynthRecs] /\ \A t \in Sessions \ {s} : synth'[t] = synth[t]
        /\ synth'[s].key = synth[s].key /\ synth'[s].st = "failed"
        /\ synth'[s].posted = synth[s].posted
    BY <1>1, <1>12 DEF SynthRecs, SynthAt
  <2>2. UNCHANGED <<vars, manifest, runLock, session, report, lone>>
    BY <1>12 DEF AtSynth
  <2> QED BY <1>12, <2>1, <2>2 DEF ConclaveTypeOK
<1> QED BY <1>2, <1>6, <1>7, <1>8, <1>9, <1>10, <1>11, <1>12, Zenon
        DEF SynthStep, SynthWorks, SynthFails

\* A synthesis that times out is killed by the session that waits for it.
LEMMA SynthTimesOutMoves ==
    ASSUME ConclaveTypeOK, NEW s \in Sessions, SynthTimesOut(s)
    PROVE  /\ ConclaveTypeOK' /\ UNCHANGED <<vars, manifest, runLock, checks, report, lone>>
           /\ \A t \in Sessions \ {s} : session'[t] = session[t] /\ synth'[t] = synth[t]
           /\ session[s].pc = "synth" /\ session'[s].pc = "publish"
           /\ session'[s].verdict = "failed" /\ session'[s].results = session[s].results
           /\ session'[s].todo = session[s].todo /\ session'[s].role = session[s].role
           /\ synth[s].st # "none" /\ synth'[s].st = "killed"
           /\ synth'[s].key = synth[s].key /\ synth'[s].posted = synth[s].posted
<1>1. /\ session \in [Sessions -> SessionRecs] /\ synth \in [Sessions -> SynthRecs]
      /\ session[s].pc = "synth" /\ synth[s].st # "none" /\ synth' = [synth EXCEPT ![s].st = "killed"]
      /\ UNCHANGED <<vars, manifest, runLock, checks, report, lone>>
      /\ session' = [session EXCEPT ![s].pc = "publish", ![s].verdict = "failed"]
  BY DEF SynthTimesOut, ConclaveTypeOK, Now, SynthAt
<1>2. /\ synth' \in [Sessions -> SynthRecs] /\ synth'[s].st = "killed"
      /\ synth'[s].key = synth[s].key /\ synth'[s].posted = synth[s].posted
      /\ \A t \in Sessions \ {s} : synth'[t] = synth[t]
  BY <1>1 DEF SynthRecs
<1>3. /\ session' \in [Sessions -> SessionRecs] /\ session'[s].pc = "publish"
      /\ session'[s].verdict = "failed" /\ session'[s].results = session[s].results
      /\ session'[s].todo = session[s].todo /\ session'[s].role = session[s].role
      /\ \A t \in Sessions \ {s} : session'[t] = session[t]
  BY <1>1 DEF SessionRecs, SessionLabels
<1>4. ConclaveTypeOK'
  BY <1>1, <1>2, <1>3 DEF ConclaveTypeOK
<1> QED BY <1>1, <1>2, <1>3, <1>4

\* So is an attempt that does, and with it its role is settled; its child runs on.
LEMMA RoleTimesOutMoves ==
    ASSUME TypeOK, ConclaveTypeOK, Locked, NEW s \in Sessions, NEW r \in Runs, RoleTimesOut(s, r)
    PROVE  /\ TypeOK' /\ ConclaveTypeOK' /\ lone' /\ UNCHANGED <<runLock, synth, checks, report>>
           /\ session[s].pc \in {"roles", "launched"} /\ r \in session[s].role
           /\ \E label \in {"roles", "resume"} :
                /\ Settle(s, r, NoTurn, "failed", label)
                /\ label = IF session[s].pc = "launched" THEN "resume" ELSE "roles"
<1>1. /\ session[s].pc \in {"roles", "launched"} /\ r \in session[s].role /\ lone' = TRUE
      /\ UNCHANGED <<runLock, synth, checks, report>>
      /\ UNCHANGED <<source, state, root, alive, port, keeper, counts, directory, child, turn, reader>>
  BY DEF RoleTimesOut
<1>2. PICK label \in {"roles", "resume"} :
        /\ Settle(s, r, NoTurn, "failed", label)
        /\ label = IF session[s].pc = "launched" THEN "resume" ELSE "roles"
  BY <1>1, Zenon DEF RoleTimesOut, Now
<1>3. ConclaveTypeOK'
  <2>1. Active(s) /\ label \in SessionLabels /\ "failed" \in Verdicts /\ lone' \in BOOLEAN
    BY <1>1 DEF Active, SessionLabels, Verdicts
  <2> QED BY <1>1, <1>2, <2>1, SettleTyped
<1>4. TypeOK'
  <2> DEFINE a == LastTry(r)
  <2>1. /\ main' = [main EXCEPT ![a] = [IdleMain EXCEPT !.pc = "killed", !.ws = main[a].ws]]
        /\ lock' = IF lock = a THEN NoOne ELSE lock
    BY Zenon DEF RoleTimesOut
  <2> HIDE DEF a
  <2>2. main' \in [Attempts -> Mains]
    <3>1. main \in [Attempts -> Mains]
      BY DEF TypeOK
    <3>2. a \in Attempts => [IdleMain EXCEPT !.pc = "killed", !.ws = main[a].ws] \in Mains
      BY <3>1 DEF IdleMain, Mains, Roots, Devs, Tunnels
    <3> QED BY <2>1, <3>1, <3>2
  <2> QED BY <1>1, <2>1, <2>2, ConnectorAssumption DEF TypeOK, ConnectorTypeOK, counts, directory
<1> QED BY <1>1, <1>2, <1>3, <1>4

\* A session that is killed leaves its files as they are, and its children and
\* its synthesis alone, or none of them.
LEMMA KillMoves ==
    ASSUME TypeOK, ConclaveTypeOK, NEW s \in Sessions, KillSession(s)
    PROVE  /\ TypeOK' /\ ConclaveTypeOK' /\ UNCHANGED <<directory, turn, manifest, checks, report>>
           /\ Active(s) /\ runLock' = 0
           /\ \A t \in Sessions \ {s} : session'[t] = session[t] /\ synth'[t] = synth[t]
           /\ session'[s].pc = "over" /\ session'[s].todo = {} /\ session'[s].role = {}
           /\ synth'[s].key = synth[s].key /\ synth'[s].posted = synth[s].posted
           /\ synth'[s].st = "none" <=> synth[s].st = "none"
           /\ \/ /\ lone' = (lone \/ session[s].role # {} \/ session[s].pc = "synth")
                 /\ UNCHANGED <<main, child, synth, reader>>
              \/ /\ lone' = lone /\ synth'[s].st \in {"none", "killed"}
                 /\ \A a \in Attempts :
                      IF a \in Children(s) /\ Running(a)
                      THEN main'[a].pc = "killed" /\ main'[a].conv = NoTurn
                      ELSE main'[a] = main[a]
                 /\ \A a \in Attempts :
                      child'[a] = IF a \in Children(s) /\ child[a] # "none" THEN "killed" ELSE child[a]
                 /\ \A r \in Runs :
                      reader'[r] = IF r \in session[s].role THEN IdleReader ELSE reader[r]
<1>1. /\ UNCHANGED <<source, state, root, alive, port, keeper, commands, spawned, edits>>
      /\ UNCHANGED <<directory, turn, manifest, checks, report>> /\ Active(s) /\ runLock' = 0
      /\ edits + faults < MaxEvents /\ faults' = faults + 1
  BY DEF KillSession, Fault, Active
<1>2. /\ session' \in [Sessions -> SessionRecs]
      /\ \A t \in Sessions \ {s} : session'[t] = session[t]
      /\ session'[s].pc = "over" /\ session'[s].todo = {} /\ session'[s].role = {}
  <2> DEFINE rec == [IdleSession EXCEPT !.pc = "over"]
  <2>1. /\ rec \in SessionRecs /\ rec.pc = "over" /\ rec.todo = {} /\ rec.role = {}
    BY DEF SessionRecs, SessionLabels, IdleSession, Results
  <2>2. session' = [session EXCEPT ![s] = rec] /\ session \in [Sessions -> SessionRecs]
    BY DEF KillSession, ConclaveTypeOK
  <2> HIDE DEF rec
  <2> QED BY <2>1, <2>2
<1>3. main \in [Attempts -> Mains] /\ child \in [Attempts -> ChildLabels]
      /\ reader \in [Runs -> Readers] /\ synth \in [Sessions -> SynthRecs]
      /\ IdleReader \in Readers /\ "killed" \in ChildLabels
      /\ lock \in Keepers \cup Attempts \cup {NoOne}
  BY DEF TypeOK, ConclaveTypeOK, IdleReader, Readers, Verdicts, ChildLabels
<1>4. CASE /\ lone' = (lone \/ session[s].role # {} \/ Now(s, "synth"))
           /\ UNCHANGED <<lock, main, child, synth, reader>>
  <2>1. TypeOK'
    BY <1>1, <1>4, ConnectorAssumption DEF TypeOK, ConnectorTypeOK, directory
  <2>2. lone' = (lone \/ session[s].role # {} \/ session[s].pc = "synth")
    BY <1>4 DEF Now
  <2>3. ConclaveTypeOK'
    BY <1>1, <1>2, <1>4, <2>2 DEF ConclaveTypeOK
  <2> QED BY <1>1, <1>2, <1>4, <2>1, <2>2, <2>3
<1>5. CASE /\ main' = [a \in Attempts |-> IF a \in Children(s) /\ Running(a)
                         THEN [IdleMain EXCEPT !.pc = "killed", !.ws = main[a].ws] ELSE main[a]]
           /\ child' = [a \in Attempts |-> IF a \in Children(s) /\ child[a] # "none"
                                           THEN "killed" ELSE child[a]]
           /\ lock' = IF lock \in Children(s) THEN NoOne ELSE lock
           /\ synth' = [synth EXCEPT ![s].st = IF @ = "none" THEN @ ELSE "killed"]
           /\ reader' = [r \in Runs |-> IF r \in session[s].role THEN IdleReader ELSE reader[r]]
           /\ UNCHANGED lone
  <2>1. /\ main' \in [Attempts -> Mains]
        /\ \A a \in Attempts :
             IF a \in Children(s) /\ Running(a)
             THEN main'[a].pc = "killed" /\ main'[a].conv = NoTurn
             ELSE main'[a] = main[a]
    <3>1. ASSUME NEW a \in Attempts
          PROVE  /\ [IdleMain EXCEPT !.pc = "killed", !.ws = main[a].ws] \in Mains
                 /\ [IdleMain EXCEPT !.pc = "killed", !.ws = main[a].ws].pc = "killed"
                 /\ [IdleMain EXCEPT !.pc = "killed", !.ws = main[a].ws].conv = NoTurn
      BY <1>3 DEF IdleMain, Mains, Roots, Devs, Tunnels
    <3> QED BY <1>3, <1>5, <3>1
  <2>2. /\ child' \in [Attempts -> ChildLabels] /\ reader' \in [Runs -> Readers]
        /\ lock' \in Keepers \cup Attempts \cup {NoOne}
    BY <1>3, <1>5
  <2>3. /\ \A a \in Attempts :
             child'[a] = IF a \in Children(s) /\ child[a] # "none" THEN "killed" ELSE child[a]
        /\ \A r \in Runs : reader'[r] = IF r \in session[s].role THEN IdleReader ELSE reader[r]
    BY <1>5
  <2>4. /\ synth' \in [Sessions -> SynthRecs]
        /\ \A t \in Sessions \ {s} : synth'[t] = synth[t]
        /\ synth'[s].key = synth[s].key /\ synth'[s].posted = synth[s].posted
        /\ synth'[s].st \in {"none", "killed"}
        /\ synth'[s].st = "none" <=> synth[s].st = "none"
    <3>1. PICK st \in {"none", "killed"} :
            synth' = [synth EXCEPT ![s].st = st] /\ (st = "none" <=> synth[s].st = "none")
      BY <1>5
    <3> QED BY <1>3, <3>1 DEF SynthRecs
  <2>5. TypeOK'
    BY <1>1, <2>1, <2>2, ConnectorAssumption DEF TypeOK, ConnectorTypeOK, directory
  <2>6. ConclaveTypeOK'
    BY <1>1, <1>2, <1>5, <2>4 DEF ConclaveTypeOK
  <2> QED BY <1>1, <1>2, <1>5, <2>1, <2>3, <2>4, <2>5, <2>6
<1> QED BY <1>4, <1>5 DEF KillSession

\* What belongs to the connector, the attempts or the sessions alone.
LEMMA VarsKeepTypes ==
    ASSUME TypeOK, UNCHANGED vars
    PROVE  TypeOK'
BY DEF TypeOK, ConnectorTypeOK, vars, turns, connector, counts, directory

\* A role is settled with a verdict, and a result that is a turn or none.
LEMMA RoleEndsTyped ==
    ASSUME TypeOK, ConclaveTypeOK, Locked, NEW s \in Sessions, NEW r \in Runs,
           RoleEnds(s, r) \/ KeepRole(s, r) \/ Recovered(s, r)
    PROVE  ConclaveTypeOK'
<1>1. /\ {"resume", "roles"} \subseteq SessionLabels
      /\ {"ok", "failed"} \subseteq Verdicts /\ reader[r].verdict \in Verdicts
      /\ response[r] \in Attempts \cup {NoTurn}
  BY DEF SessionLabels, Verdicts, TypeOK, Readers
<1>5. lone \in BOOLEAN
  BY DEF ConclaveTypeOK
<1>2. CASE RoleEnds(s, r)
  <2>1. Active(s) /\ UNCHANGED <<runLock, synth, checks, report, lone>>
    BY <1>2, RoleEndsMoves DEF Active
  <2>2. PICK result \in Attempts \cup {NoTurn}, status \in Verdicts, label \in SessionLabels :
          Settle(s, r, result, status, label)
    BY <1>1, <1>2, RoleEndsMoves
  <2> QED BY <1>5, <2>1, <2>2, SettleTyped
<1>3. CASE KeepRole(s, r)
  <2>1. Active(s) /\ UNCHANGED <<runLock, synth, checks, report, lone>>
    BY <1>3 DEF KeepRole, Active, Now
  <2>2. Settle(s, r, response[r], "ok", "resume")
    BY <1>3 DEF KeepRole
  <2> QED BY <1>1, <1>5, <2>1, <2>2, SettleTyped
<1>4. CASE Recovered(s, r)
  <2>1. Active(s) /\ UNCHANGED <<runLock, synth, checks, report, lone>>
    BY <1>4, RecoveredMoves DEF Active
  <2>2. CASE Settle(s, r, IF reader[r].verdict = "ok" THEN response[r] ELSE NoTurn,
                    reader[r].verdict, "resume")
    <3>1. PICK result \in Attempts \cup {NoTurn} : Settle(s, r, result, reader[r].verdict, "resume")
      BY <1>1, <2>2
    <3> QED BY <1>1, <1>5, <2>1, <3>1, SettleTyped
  <2> QED BY <1>4, <2>2, RecoveredMoves
<1> QED BY <1>2, <1>3, <1>4

-----------------------------------------------------------------------------
(* One session at a time.                                                  *)

\* While a session works, or none does, no other one does.
LEMMA OthersRest ==
    ASSUME Locked, NEW s \in Sessions, Active(s) \/ runLock = 0, NEW t \in Sessions, t # s
    PROVE  ~Active(t)
BY Nobodies DEF Locked, SessionOk

\* So what a session does is its own affair.
LEMMA LockedKept ==
    ASSUME Locked, NEW s \in Sessions, Active(s) \/ runLock = 0,
           \A t \in Sessions \ {s} : session'[t] = session[t],
           SessionOk(s)', manifest'.status = "none" => manifest.status = "none" /\ ~Active(s)'
    PROVE  Locked'
<1>1. ASSUME NEW t \in Sessions, t # s PROVE SessionOk(t)' /\ ~Active(t)'
  <2>1. SessionOk(t) /\ ~Active(t) /\ session'[t] = session[t]
    BY <1>1, OthersRest DEF Locked
  <2> QED BY <2>1 DEF SessionOk, Active
<1> QED BY <1>1 DEF Locked

\* The steps about roles keep it.
LEMMA RoleLocked ==
    ASSUME Always, NEW s \in Sessions, NEW r \in Runs,
           LaunchRole(s, r) \/ RoleEnds(s, r) \/ KeepRole(s, r) \/ RecoverRole(s, r)
             \/ Recovered(s, r) \/ RelaunchRole(s, r)
    PROVE  /\ Always' /\ Active(s) /\ session'[s].pc \in BeforeSynthesis \ {"idle"}
           /\ session[s].pc \in BeforeSynthesis \ {"idle"}
           /\ \A t \in Sessions \ {s} : session'[t] = session[t]
           /\ UNCHANGED <<runLock, synth, checks, report, lone>>
           /\ manifest'.status = manifest.status
<1> USE DEF Always
<1>1. SessionOk(s) /\ (Active(s) => runLock = s)
      /\ (Active(s) => session[s].results \in [Runs -> Attempts \cup {NoTurn}])
  BY DEF Locked, SessionOk
<1>2. ASSUME TypeOK', ConclaveTypeOK', Active(s), session'[s].pc \in BeforeSynthesis \ {"idle"},
             \A t \in Sessions \ {s} : session'[t] = session[t],
             UNCHANGED <<runLock, synth, checks, report, lone>>,
             manifest'.status = manifest.status, SessionOk(s)',
             session[s].pc \in BeforeSynthesis \ {"idle"}
      PROVE  /\ Always' /\ Active(s) /\ session'[s].pc \in BeforeSynthesis \ {"idle"}
             /\ session[s].pc \in BeforeSynthesis \ {"idle"}
             /\ \A t \in Sessions \ {s} : session'[t] = session[t]
             /\ UNCHANGED <<runLock, synth, checks, report, lone>>
             /\ manifest'.status = manifest.status
  <2>1. manifest.status # "none"
    BY <1>2 DEF Locked
  <2>2. Locked'
    BY <1>2, <2>1, LockedKept
  <2>3. Placed'
    <3>1. session'[s].pc \notin {"fetch", "synth"}
      BY <1>2 DEF BeforeSynthesis
    <3> QED BY <1>2, <3>1 DEF Placed
  <2> QED BY <1>2, <2>2, <2>3
<1>3. CASE LaunchRole(s, r)
  <2>1. SessionOk(s)'
    BY <1>1, <1>3, LaunchRoleMoves DEF SessionOk, Active
  <2>2. TypeOK'
    BY <1>3, LaunchRoleMoves, LaunchMoves
  <2> QED BY <1>2, <1>3, <2>1, <2>2, LaunchRoleMoves DEF Active, BeforeSynthesis
<1>4. ASSUME NEW result \in Attempts \cup {NoTurn}, NEW status,
             NEW label \in {"roles", "resume"}, Settle(s, r, result, status, label),
             session[s].pc \in {"roles", "resume", "launched", "recover"},
             label = "roles" <=> session[s].pc = "roles",
             session[s].pc \in {"launched", "recover"} => r \in session[s].role,
             UNCHANGED <<vars, runLock, synth, checks, report, lone>>, ConclaveTypeOK'
      PROVE  /\ Always' /\ Active(s) /\ session'[s].pc \in BeforeSynthesis \ {"idle"}
             /\ session[s].pc \in BeforeSynthesis \ {"idle"}
             /\ \A t \in Sessions \ {s} : session'[t] = session[t]
             /\ UNCHANGED <<runLock, synth, checks, report, lone>>
             /\ manifest'.status = manifest.status
  <2>1. Active(s) /\ label \in SessionLabels /\ TypeOK'
    BY <1>4, VarsKeepTypes DEF Active, SessionLabels
  <2>2. /\ \A t \in Sessions \ {s} : session'[t] = session[t]
        /\ session'[s].pc = label
        /\ session'[s].todo = session[s].todo \ {r}
        /\ session'[s].role = session[s].role \ {r}
        /\ session'[s].results \in [Runs -> Attempts \cup {NoTurn}]
        /\ manifest'.status = manifest.status
    BY <1>4, <2>1, SettleMoves
  <2>3. label = "resume" => session'[s].role = {}
    BY <1>1, <1>4, <2>2 DEF SessionOk
  <2>4. SessionOk(s)'
    BY <1>1, <1>4, <2>1, <2>2, <2>3 DEF SessionOk, Active
  <2>5. /\ session'[s].pc \in BeforeSynthesis \ {"idle"}
        /\ session[s].pc \in BeforeSynthesis \ {"idle"}
    BY <1>4, <2>2 DEF BeforeSynthesis
  <2> QED BY <1>2, <1>4, <2>1, <2>2, <2>4, <2>5
<1>5. response[r] \in Attempts \cup {NoTurn}
  BY DEF TypeOK
<1>6. CASE RoleEnds(s, r)
  <2>1. PICK result \in Attempts \cup {NoTurn}, status \in {"ok", "failed"},
             label \in {"roles", "resume"} :
          /\ Settle(s, r, result, status, label)
          /\ label = "roles" <=> session[s].pc = "roles"
    BY <1>5, <1>6, RoleEndsMoves
  <2>2. ConclaveTypeOK'
    BY <1>6, RoleEndsTyped
  <2> QED BY <1>4, <1>6, <2>1, <2>2, RoleEndsMoves
<1>7. CASE KeepRole(s, r)
  <2>1. /\ Settle(s, r, response[r], "ok", "resume") /\ session[s].pc = "resume"
        /\ UNCHANGED <<vars, runLock, synth, checks, report, lone>>
    BY <1>7 DEF KeepRole, Now
  <2>2. ConclaveTypeOK'
    BY <1>7, RoleEndsTyped
  <2> QED BY <1>4, <1>5, <2>1, <2>2
<1>8. CASE RecoverRole(s, r)
  <2>1. SessionOk(s)'
    BY <1>1, <1>8, RecoverMoves DEF SessionOk, Active
  <2> QED BY <1>2, <1>8, <2>1, RecoverMoves DEF Active, BeforeSynthesis
<1>9. CASE Recovered(s, r)
  <2>1. /\ UNCHANGED <<vars, runLock, synth, checks, report, lone>>
        /\ session[s].pc = "recover" /\ session[s].role = {r} /\ TypeOK' /\ ConclaveTypeOK'
    BY <1>9, RecoveredMoves, RoleEndsTyped, VarsKeepTypes
  <2>2. CASE Settle(s, r, IF reader[r].verdict = "ok" THEN response[r] ELSE NoTurn,
                    reader[r].verdict, "resume")
    <3>1. PICK result \in Attempts \cup {NoTurn} : Settle(s, r, result, reader[r].verdict, "resume")
      BY <1>5, <2>2
    <3> QED BY <1>4, <2>1, <3>1
  <2>3. CASE /\ \A t \in Sessions \ {s} : session'[t] = session[t]
             /\ session'[s].pc = "launch"
             /\ session'[s].todo = session[s].todo /\ session'[s].role = session[s].role
             /\ session'[s].results = session[s].results
             /\ manifest'.status = manifest.status
    <3>1. SessionOk(s)'
      BY <1>1, <2>1, <2>3 DEF SessionOk, Active
    <3> QED BY <1>2, <2>1, <2>3, <3>1 DEF Active, BeforeSynthesis
  <2> QED BY <1>9, <2>2, <2>3, RecoveredMoves
<1>10. CASE RelaunchRole(s, r)
  <2>1. SessionOk(s)'
    BY <1>1, <1>10, RelaunchMoves DEF SessionOk, Active
  <2>2. TypeOK'
    BY <1>10, RelaunchMoves, LaunchMoves
  <2> QED BY <1>2, <1>10, <2>1, <2>2, RelaunchMoves DEF Active, BeforeSynthesis
<1> QED BY <1>3, <1>6, <1>7, <1>8, <1>9, <1>10

\* So do the others, and none takes back that something runs on alone.
LEMMA SessionLocked ==
    ASSUME Always, NEW s \in Sessions,
           StartSession(s) \/ SessionStep(s) \/ SynthStep(s) \/ KillSession(s) \/ TimesOut(s)
    PROVE  Always' /\ (lone => lone')
<1> USE DEF Always
<1>1. SessionOk(s) /\ (Active(s) => runLock = s)
      /\ (Active(s) => session[s].results \in [Runs -> Attempts \cup {NoTurn}])
  BY DEF Locked, SessionOk
<1>2. \A t \in Sessions \ {s} : session[t].pc \in {"fetch", "synth"} => Active(t)
  BY DEF Active
<1>3. CASE StartSession(s)
  <2>1. SessionOk(s)'
    BY <1>3, StartMoves, Nobodies DEF SessionOk, Active
  <2>2. Locked'
    BY <1>3, <2>1, StartMoves, LockedKept
  <2>3. Placed'
    BY <1>3, StartMoves DEF Placed
  <2>4. TypeOK'
    BY <1>3, StartMoves, VarsKeepTypes
  <2> QED BY <1>3, <2>2, <2>3, <2>4, StartMoves
<1>4. ASSUME NEW status \in {"ok", "failed"}, NEW key \in Reports, Publish(s, status, key), Active(s),
             UNCHANGED <<vars, synth, checks, lone>>
      PROVE  Always' /\ (lone => lone')
  <2>1. SessionOk(s)' /\ ~Active(s)'
    BY <1>4, PublishMoves DEF SessionOk, Active
  <2>2. Locked'
    BY <1>4, <2>1, PublishMoves, LockedKept
  <2>3. Placed'
    BY <1>4, PublishMoves DEF Placed
  <2>4. TypeOK'
    BY <1>4, VarsKeepTypes
  <2> QED BY <1>4, <2>2, <2>3, <2>4, PublishMoves
<1>5. CASE NoSynthesis(s)
  <2>1. Active(s) /\ {} \in Reports
    BY <1>5 DEF NoSynthesis, RolesDone, Active, Reports
  <2> QED BY <1>4, <1>5, <2>1 DEF NoSynthesis
<1>6. CASE Finish(s)
  <2>1. Active(s) /\ synth[s].key \in Reports
    BY <1>6 DEF Finish, Now, Active, ConclaveTypeOK, SynthRecs
  <2>2. PICK status \in {"ok", "failed"} : Publish(s, status, synth[s].key)
    BY <1>6 DEF Finish
  <2> QED BY <1>4, <1>6, <2>1, <2>2 DEF Finish
<1>7. CASE Synthesize(s)
  <2>1. Active(s) /\ manifest.status # "none"
    BY <1>7, SynthesizeMoves DEF Active, Locked
  <2>2. SessionOk(s)'
    BY <1>1, <1>7, <2>1, SynthesizeMoves DEF SessionOk, Active
  <2>3. Locked'
    BY <1>7, <2>1, <2>2, SynthesizeMoves, LockedKept
  <2>4. Placed'
    <3>1. \A t \in Sessions \ {s} : session'[t].pc \notin {"fetch", "synth"}
      BY <1>2, <1>7, <2>1, OthersRest, SynthesizeMoves
    <3>2. session'[s].pc = "fetch" => /\ KeyOf(s) \in DOMAIN checks /\ checks[KeyOf(s)].request # 0
                                      /\ checks' = checks
      BY <1>7, SynthesizeMoves
    <3>3. ASSUME session'[s].pc = "synth"
          PROVE  KeyOf(s) \in DOMAIN checks' /\ checks'[KeyOf(s)].request = s
      <4>1. PutCheck(KeyOf(s), [Check0(KeyOf(s)) EXCEPT !.request = s])
        BY <1>7, <3>3, SynthesizeMoves
      <4>2. Check0(KeyOf(s)) \in CheckRecs
        BY FirstCheck
      <4>3. [Check0(KeyOf(s)) EXCEPT !.request = s].request = s
        BY <4>2 DEF CheckRecs
      <4> QED BY <4>1, <4>3, PutMoves
    <3>4. synth'[s].key = KeyOf(s)
      BY <1>7, SynthesizeMoves
    <3> QED BY <3>1, <3>2, <3>3, <3>4, Nobodies DEF Placed
  <2>5. TypeOK'
    BY <1>7, SynthesizeMoves, VarsKeepTypes
  <2> QED BY <1>7, <2>3, <2>4, <2>5, SynthesizeMoves
<1>8. CASE FetchSynthesis(s) \/ SynthEnds(s)
  <2>1. /\ TypeOK' /\ ConclaveTypeOK' /\ UNCHANGED <<manifest, runLock, synth, lone>>
        /\ session[s].pc \in {"fetch", "synth"} /\ session'[s].pc = "publish"
        /\ \A t \in Sessions \ {s} : session'[t] = session[t]
        /\ session'[s].role = session[s].role /\ session'[s].todo = session[s].todo
        /\ session'[s].results = session[s].results
    <3>1. CASE FetchSynthesis(s)
      <4>1. session[s].pc = "fetch"
        BY <3>1 DEF FetchSynthesis, Now
      <4> QED BY <3>1, <4>1, FetchMoves, VarsKeepTypes DEF Placed
    <3>2. CASE SynthEnds(s)
      <4>1. session[s].pc = "synth"
        BY <3>2 DEF SynthEnds, Now
      <4> QED BY <3>2, <4>1, SynthEndsMoves, VarsKeepTypes DEF Placed
    <3> QED BY <1>8, <3>1, <3>2
  <2>2. Active(s) /\ manifest.status # "none"
    BY <2>1 DEF Active, Locked
  <2>3. SessionOk(s)'
    BY <1>1, <2>1, <2>2 DEF SessionOk, Active
  <2>4. Locked'
    BY <2>1, <2>2, <2>3, LockedKept
  <2>5. Placed'
    <3>1. \A t \in Sessions : session'[t].pc \notin {"fetch", "synth"}
      BY <1>2, <2>1, <2>2, OthersRest
    <3> QED BY <3>1 DEF Placed
  <2> QED BY <2>1, <2>4, <2>5
<1>9. CASE SynthStep(s)
  <2>1. /\ TypeOK' /\ ConclaveTypeOK' /\ UNCHANGED <<manifest, runLock, session, lone>>
        /\ \A t \in Sessions : synth'[t].key = synth[t].key
        /\ DOMAIN checks' = DOMAIN checks
        /\ \A k \in DOMAIN checks : checks'[k].request = checks[k].request
    BY <1>9, SynthStepMoves, VarsKeepTypes
  <2>2. Locked'
    BY <2>1 DEF Locked, SessionOk, Active
  <2> QED BY <2>1, <2>2 DEF Placed
<1>10. CASE KillSession(s)
  <2>1. SessionOk(s)' /\ ~Active(s)'
    BY <1>10, KillMoves DEF SessionOk, Active
  <2>2. manifest.status # "none" /\ UNCHANGED <<manifest, checks>>
    BY <1>10, KillMoves DEF Locked
  <2>3. Locked'
    BY <1>10, <2>1, <2>2, KillMoves, LockedKept
  <2>4. Placed'
    <3>1. \A t \in Sessions : session'[t].pc \notin {"fetch", "synth"}
      BY <1>2, <1>10, OthersRest, KillMoves
    <3> QED BY <3>1 DEF Placed
  <2>5. lone => lone'
    BY <1>10, KillMoves
  <2> QED BY <1>10, <2>3, <2>4, <2>5, KillMoves
<1>11. CASE \E r \in Runs : \/ LaunchRole(s, r) \/ RoleEnds(s, r) \/ KeepRole(s, r)
                            \/ RecoverRole(s, r) \/ Recovered(s, r) \/ RelaunchRole(s, r)
  BY <1>11, RoleLocked
<1>12. CASE SynthTimesOut(s)
  <2>1. Active(s) /\ manifest.status # "none"
    BY <1>12, SynthTimesOutMoves DEF Active, Locked
  <2>2. SessionOk(s)'
    BY <1>1, <1>12, <2>1, SynthTimesOutMoves DEF SessionOk, Active
  <2>3. Locked'
    BY <1>12, <2>1, <2>2, SynthTimesOutMoves, LockedKept
  <2>4. Placed'
    BY <1>12, SynthTimesOutMoves DEF Placed
  <2>5. TypeOK'
    BY <1>12, SynthTimesOutMoves, VarsKeepTypes
  <2> QED BY <1>12, <2>3, <2>4, <2>5, SynthTimesOutMoves
<1>13. ASSUME NEW r \in Runs, RoleTimesOut(s, r) PROVE Always' /\ (lone => lone')
  <2>1. /\ TypeOK' /\ ConclaveTypeOK' /\ lone' /\ UNCHANGED <<runLock, synth, checks, report>>
        /\ session[s].pc \in {"roles", "launched"} /\ r \in session[s].role
    BY <1>13, RoleTimesOutMoves
  <2>2. PICK label \in {"roles", "resume"} :
          /\ Settle(s, r, NoTurn, "failed", label)
          /\ label = IF session[s].pc = "launched" THEN "resume" ELSE "roles"
    BY <1>13, RoleTimesOutMoves
  <2>3. Active(s) /\ manifest.status # "none" /\ label \in SessionLabels
    BY <2>1 DEF Active, Locked, SessionLabels
  <2>4. /\ \A t \in Sessions \ {s} : session'[t] = session[t]
        /\ session'[s].pc = label /\ session'[s].todo = session[s].todo \ {r}
        /\ session'[s].role = session[s].role \ {r}
        /\ session'[s].results \in [Runs -> Attempts \cup {NoTurn}]
        /\ manifest'.status = manifest.status
    BY <2>2, <2>3, SettleMoves
  <2>5. SessionOk(s)'
    <3>1. label = "resume" => session'[s].role = {}
      BY <1>1, <2>1, <2>2, <2>4 DEF SessionOk
    <3> QED BY <1>1, <2>1, <2>3, <2>4, <3>1 DEF SessionOk, Active
  <2>6. Locked'
    BY <2>3, <2>4, <2>5, LockedKept
  <2>7. Placed'
    BY <2>1, <2>4 DEF Placed
  <2> QED BY <2>1, <2>6, <2>7
<1> QED BY <1>3, <1>5, <1>6, <1>7, <1>8, <1>9, <1>10, <1>11, <1>12, <1>13 DEF SessionStep, TimesOut

\* The types, the lock and the place of the checkpoints, whatever runs on alone.
LEMMA AlwaysStep ==
    ASSUME Always, [ConclaveNext]_allVars
    PROVE  Always' /\ (lone => lone')
<1>1. ASSUME UNCHANGED conclave, TypeOK' PROVE Always' /\ (lone => lone')
  BY <1>1 DEF Always, conclave, ConclaveTypeOK, Locked, SessionOk, Active, Placed
<1>2. CASE UNCHANGED allVars
  BY <1>1, <1>2, VarsKeepTypes DEF allVars, Always
<1>3. ASSUME UNCHANGED conclave, NEW a \in Attempts, MainStep(a) \/ Asking(a)
      PROVE  Always' /\ (lone => lone')
  BY <1>1, <1>3, AttemptTyped DEF Attempting, Always
<1>4. ASSUME UNCHANGED conclave, NEW r \in Runs, ReaderStep(r)
      PROVE  Always' /\ (lone => lone')
  BY <1>1, <1>4, ResumeTyped DEF Resuming, Always
<1>5. CASE UNCHANGED <<turns, conclave>> /\ Edit
  BY <1>1, <1>5, NobodyTyped DEF Nobody, Always
<1>6. ASSUME NEW a \in Attempts, KillAttempt(a) PROVE Always' /\ (lone => lone')
  <2>1. TypeOK'
    BY <1>6, AttemptTyped DEF KillAttempt, Attempting, Asking, Always
  <2>2. /\ UNCHANGED <<manifest, runLock, session, synth, checks, report>>
        /\ lone' \in BOOLEAN /\ (lone => lone')
    BY <1>6 DEF KillAttempt, Always, ConclaveTypeOK
  <2>3. ConclaveTypeOK'
    BY <2>2 DEF Always, ConclaveTypeOK
  <2>4. Locked' /\ Placed'
    BY <2>2 DEF Always, Locked, SessionOk, Active, Placed
  <2> QED BY <2>1, <2>2, <2>3, <2>4 DEF Always
<1>7. CASE ConclaveNext
  BY <1>3, <1>4, <1>5, <1>6, <1>7, ConclaveCases, SessionLocked
<1> QED BY <1>2, <1>7

-----------------------------------------------------------------------------
(* The synthesis.                                                          *)

\* Answers stay, and so does what they answer.
LEMMA AnswersStay ==
    ASSUME \A t \in Sessions : synth[t].posted = "answered" =>
             synth'[t].posted = "answered" /\ synth'[t].key = synth[t].key,
           NEW key, Answered(key)
    PROVE  Answered(key)'
BY DEF Answered, SynthesesOf

\* A synthesis whose session and checkpoint stay as they are.
LEMMA SynthStays ==
    ASSUME NEW t \in Sessions, SynthOf(t), session'[t] = session[t], synth'[t] = synth[t],
           synth[t].key \in DOMAIN checks =>
             /\ synth[t].key \in DOMAIN checks'
             /\ checks[synth[t].key].request # 0 => checks'[synth[t].key].request # 0
             /\ session[t].pc = "synth" => checks'[synth[t].key].request = checks[synth[t].key].request
             /\ checks'[synth[t].key].journal = checks[synth[t].key].journal,
           session[t].pc = "synth" \/ synth[t].st # "none" => synth[t].key \in DOMAIN checks,
           \A u \in Sessions : synth[u].posted = "answered" =>
             synth'[u].posted = "answered" /\ synth'[u].key = synth[u].key
    PROVE  SynthOf(t)'
<1>1. KeyOf(t)' = KeyOf(t)
  BY DEF KeyOf, Successful
<1>2. ASSUME NEW k, k = synth[t].key, Answered(k) PROVE Answered(synth[t].key)'
  <2>1. Answered(k)'
    BY <1>2, AnswersStay
  <2> QED BY <1>2, <2>1
<1>3. /\ session'[t].pc = "publish" /\ session'[t].verdict = "ok" => Answered(synth[t].key)'
      /\ session'[t].pc \in {"fetch", "synth", "publish"} => synth'[t].key = KeyOf(t)'
  BY <1>1, <1>2 DEF SynthOf
<1>4. synth[t].st = "posting" => synth[t].st # "none"
  OBVIOUS
<1> QED BY <1>3, <1>4 DEF SynthOf

\* Steps that leave every synthesis and every checkpoint alone: what is left to
\* say is about the session that takes the step.
LEMMA SynthsKept ==
    ASSUME ConclaveTypeOK, Placed, Synths, NEW s \in Sessions, UNCHANGED <<synth, checks>>,
           \A t \in Sessions \ {s} : session'[t] = session[t],
           SynthOf(s)', session'[s].pc = "synth" => session[s].pc = "synth"
    PROVE  Synths'
<1>1. ASSUME NEW t \in Sessions \ {s} PROVE SynthOf(t)'
  BY SynthStays DEF Synths, Placed, ConclaveTypeOK
<1>2. Checkpoints'
  <2>1. ASSUME NEW k \in DOMAIN checks
        PROVE  /\ checks[k].request # 0 =>
                    synth[checks[k].request].key = k /\ synth[checks[k].request].st # "none"
               /\ checks[k].ok => Answered(k)'
    BY AnswersStay DEF Synths, Checkpoints
  <2> QED BY <2>1 DEF Checkpoints
<1>3. OnePost'
  BY DEF Synths, OnePost
<1> QED BY <1>1, <1>2, <1>3 DEF Synths

\* A session that begins, or is about its roles, has no synthesis yet.
LEMMA SynthsWait ==
    ASSUME Always, Synths, NEW s \in Sessions,
           \/ StartSession(s)
           \/ \E r \in Runs : \/ LaunchRole(s, r) \/ RoleEnds(s, r) \/ KeepRole(s, r)
                              \/ RecoverRole(s, r) \/ Recovered(s, r) \/ RelaunchRole(s, r)
    PROVE  Synths'
<1> USE DEF Always
<1>1. /\ session[s].pc \in BeforeSynthesis /\ session'[s].pc \in BeforeSynthesis
      /\ \A t \in Sessions \ {s} : session'[t] = session[t]
      /\ UNCHANGED <<synth, checks>>
  <2>1. CASE StartSession(s)
    BY <2>1, StartMoves DEF BeforeSynthesis
  <2>2. CASE ~StartSession(s)
    BY <2>2, RoleLocked
  <2> QED BY <2>1, <2>2
<1>2. synth[s] = IdleSynth /\ synth'[s] = IdleSynth
  BY <1>1 DEF Synths, SynthOf
<1>3. session'[s].pc \notin {"fetch", "synth", "publish"}
  BY <1>1 DEF BeforeSynthesis
<1>4. SynthOf(s)'
  BY <1>2, <1>3 DEF SynthOf, IdleSynth, Live
<1> QED BY <1>1, <1>3, <1>4, SynthsKept

\* One that publishes has nothing that runs.
LEMMA SynthsPublished ==
    ASSUME Always, Synths, NEW s \in Sessions, NoSynthesis(s) \/ Finish(s)
    PROVE  Synths'
<1> USE DEF Always
<1>1. session[s].pc \in {"roles", "resume", "publish"} /\ UNCHANGED <<synth, checks, lone>>
  BY DEF NoSynthesis, Finish, RolesDone, Now
<1>2. \E status \in {"ok", "failed"}, key \in Reports : Publish(s, status, key)
  <2>1. synth[s].key \in Reports /\ {} \in Reports
    BY DEF ConclaveTypeOK, SynthRecs, Reports
  <2>2. NoSynthesis(s) => Publish(s, "failed", {})
    BY DEF NoSynthesis
  <2>3. Finish(s) => \E status \in {"ok", "failed"} : Publish(s, status, synth[s].key)
    BY DEF Finish
  <2> QED BY <2>1, <2>2, <2>3
<1>3. session'[s].pc = "over" /\ \A t \in Sessions \ {s} : session'[t] = session[t]
  BY <1>1, <1>2, PublishMoves DEF Active
<1>4. SynthOf(s)'
  <2>1. SynthOf(s) /\ synth[s].st \notin Live
    BY <1>1 DEF Synths, SynthOf
  <2> QED BY <1>1, <1>3, <2>1 DEF SynthOf, Live, BeforeSynthesis
<1> QED BY <1>1, <1>3, <1>4, SynthsKept

\* A synthesis is asked for where none was posted for the same reports, ...
LEMMA SynthsAsked ==
    ASSUME Always, Synths, NEW s \in Sessions, Synthesize(s)
    PROVE  Synths'
<1> USE DEF Always
<1>1. /\ session[s].pc \in {"roles", "resume"} /\ session'[s].results = session[s].results
      /\ \A t \in Sessions \ {s} : session'[t] = session[t] /\ synth'[t] = synth[t]
      /\ synth'[s].key = KeyOf(s)
  BY SynthesizeMoves
<1>2. synth[s].st = "none" /\ synth[s].posted = "no"
  BY <1>1 DEF Synths, SynthOf, BeforeSynthesis, IdleSynth
<1>3. PICK key : key = KeyOf(s)
  OBVIOUS
<1>4. KeyOf(s)' = key
  BY <1>1, <1>3 DEF KeyOf, Successful
<1>5. \A t \in Sessions : synth[t].posted = "answered" =>
        synth'[t].posted = "answered" /\ synth'[t].key = synth[t].key
  BY <1>1, <1>2
<1>6. \A t \in Sessions \ {s} : session[t].pc # "synth"
  BY <1>1, OthersRest DEF Active
<1>7. ASSUME session'[s].pc \in {"publish", "fetch"}, UNCHANGED checks,
             synth'[s].st = synth[s].st, synth'[s].posted = synth[s].posted,
             session'[s].pc = "publish" => key \in DOMAIN checks /\ checks[key].ok
      PROVE  Synths'
  <2>1. ASSUME NEW t \in Sessions \ {s} PROVE SynthOf(t)'
    BY <1>1, <1>5, <1>7, SynthStays DEF Synths, Placed, ConclaveTypeOK
  <2>2. ASSUME NEW k \in DOMAIN checks, checks[k].ok PROVE Answered(k)'
    BY <1>5, <2>2, AnswersStay DEF Synths, Checkpoints
  <2>3. SynthOf(s)'
    <3>1. session'[s].pc = "publish" => Answered(key)'
      BY <1>7, <2>2
    <3>2. session'[s].pc = "publish" => Answered(synth[s].key)'
      BY <1>1, <1>3, <3>1
    <3> QED BY <1>1, <1>2, <1>3, <1>4, <1>7, <3>2 DEF SynthOf, BeforeSynthesis, Live
  <2>4. Checkpoints'
    <3>1. ASSUME NEW k \in DOMAIN checks, checks[k].request # 0
          PROVE  /\ synth'[checks[k].request].key = k
                 /\ synth'[checks[k].request].st # "none"
      <4>1. /\ synth[checks[k].request].key = k /\ synth[checks[k].request].st # "none"
            /\ checks[k].request \in Sessions
        BY <3>1 DEF Synths, Checkpoints, ConclaveTypeOK, CheckRecs
      <4>2. checks[k].request # s
        BY <1>2, <4>1
      <4> QED BY <1>1, <4>1, <4>2
    <3> QED BY <1>7, <2>2, <3>1 DEF Checkpoints
  <2>5. OnePost'
    BY <1>1, <1>2, <1>6, <1>7 DEF Synths, OnePost
  <2> QED BY <2>1, <2>3, <2>4, <2>5 DEF Synths
<1>8. ASSUME session'[s].pc = "synth", synth'[s].st = "queued", synth'[s].posted = "no",
             key \in DOMAIN checks => checks[key].request = 0 \/ ~ProvesSubmission(checks[key].journal),
             PutCheck(key, [Check0(key) EXCEPT !.request = s])
      PROVE  Synths'
  <2> DEFINE new == [Check0(key) EXCEPT !.request = s]
  <2>1. /\ new.request = s /\ new.journal = Check0(key).journal /\ new.ok = Check0(key).ok
        /\ key \in DOMAIN checks => Check0(key) = checks[key]
        /\ key \notin DOMAIN checks => Check0(key) = NoCheck
    BY FirstCheck DEF CheckRecs
  <2>2. /\ DOMAIN checks' = DOMAIN checks \cup {key} /\ checks'[key] = new
        /\ \A k \in DOMAIN checks \ {key} : checks'[k] = checks[k]
    BY <1>8, PutMoves
  <2> HIDE DEF new
  <2>3. s # 0
    BY Nobodies
  <2>4. ASSUME NEW t \in Sessions \ {s} PROVE SynthOf(t)'
    <3>1. synth[t].key \in DOMAIN checks =>
            /\ synth[t].key \in DOMAIN checks'
            /\ checks[synth[t].key].request # 0 => checks'[synth[t].key].request # 0
            /\ session[t].pc = "synth" => checks'[synth[t].key].request = checks[synth[t].key].request
            /\ checks'[synth[t].key].journal = checks[synth[t].key].journal
      BY <1>6, <2>1, <2>2, <2>3
    <3> QED BY <1>1, <1>5, <3>1, SynthStays DEF Synths, Placed, ConclaveTypeOK
  <2>5. SynthOf(s)'
    BY <1>1, <1>3, <1>4, <1>8, <2>1, <2>2, <2>3 DEF SynthOf, BeforeSynthesis, Live
  <2>6. Checkpoints'
    <3>1. ASSUME NEW k \in DOMAIN checks \ {key}
          PROVE  /\ checks[k].request # 0 => /\ synth'[checks[k].request].key = k
                                             /\ synth'[checks[k].request].st # "none"
                 /\ checks[k].ok => Answered(k)'
      <4>1. /\ checks[k].request # 0 => /\ synth[checks[k].request].key = k
                                        /\ synth[checks[k].request].st # "none"
                                        /\ checks[k].request \in Sessions
            /\ checks[k].ok => Answered(k)
        BY DEF Synths, Checkpoints, ConclaveTypeOK, CheckRecs
      <4>2. checks[k].ok => Answered(k)'
        BY <1>5, <4>1, AnswersStay
      <4> QED BY <1>1, <1>2, <4>1, <4>2
    <3>2. new.ok => Answered(key)'
      <4>1. new.ok => key \in DOMAIN checks /\ checks[key].ok
        <5>1. ~NoCheck.ok
          BY DEF NoCheck
        <5>2. CASE key \in DOMAIN checks
          BY <2>1, <5>2, Zenon
        <5>3. CASE key \notin DOMAIN checks
          BY <2>1, <5>1, <5>3, Zenon
        <5> QED BY <5>2, <5>3
      <4>2. new.ok => Answered(key)
        BY <4>1 DEF Synths, Checkpoints
      <4> QED BY <1>5, <4>2, AnswersStay
    <3>3. synth'[s].key = key /\ synth'[s].st # "none" /\ new.request = s
      BY <1>1, <1>3, <1>8, <2>1
    <3> QED BY <2>2, <3>1, <3>2, <3>3 DEF Checkpoints
  <2>7. OnePost'
    <3>1. \A t \in Sessions \ {s} : synth[t].posted # "no" => synth[t].key # key
      BY <1>8 DEF Synths, SynthOf
    <3> QED BY <1>1, <1>3, <1>6, <1>8, <3>1 DEF Synths, OnePost
  <2> QED BY <2>4, <2>5, <2>6, <2>7 DEF Synths
<1> QED BY <1>3, <1>7, <1>8, SynthesizeMoves

\* ... and it is read where it was answered.
LEMMA SynthsRead ==
    ASSUME Always, Synths, NEW s \in Sessions, FetchSynthesis(s) \/ SynthEnds(s)
    PROVE  Synths'
<1> USE DEF Always
<1>1. session[s].pc \in {"fetch", "synth"}
  BY DEF FetchSynthesis, SynthEnds, Now
<1>2. PICK key \in DOMAIN checks : key = synth[s].key /\ checks[key].request # 0
  BY <1>1 DEF Placed
<1>3. /\ UNCHANGED synth /\ synth[s].st \notin Live
      /\ \A t \in Sessions \ {s} : session'[t] = session[t]
      /\ session'[s].pc = "publish" /\ session'[s].results = session[s].results
      /\ \/ /\ session'[s].verdict = "ok"
            /\ DOMAIN checks' = DOMAIN checks
            /\ \A k \in DOMAIN checks : /\ checks'[k].request = checks[k].request
                                        /\ checks'[k].journal = checks[k].journal
                                        /\ checks'[k].ok => k = synth[s].key \/ checks[k].ok
            /\ Answered(key)
         \/ session'[s].verdict = "failed" /\ UNCHANGED checks
  <2>1. CASE FetchSynthesis(s)
    <3>1. session[s].pc = "fetch"
      BY <2>1 DEF FetchSynthesis, Now
    <3>2. synth[s].st \notin Live
      BY <3>1 DEF Synths, SynthOf
    <3>3. synth[checks[key].request].posted = "answered" => Answered(key)
      <4>1. checks[key].request \in Sessions /\ synth[checks[key].request].key = key
        BY <1>2 DEF Synths, Checkpoints, ConclaveTypeOK, CheckRecs
      <4> QED BY <4>1 DEF Answered, SynthesesOf
    <3> QED BY <1>2, <2>1, <3>2, <3>3, FetchMoves
  <2>2. CASE SynthEnds(s)
    <3>1. synth[s].st \in {"done", "failed", "killed"}
      BY <2>2 DEF SynthEnds
    <3>2. synth[s].st = "done" => Answered(key)
      BY <1>2 DEF Synths, SynthOf, Answered, SynthesesOf
    <3> QED BY <1>2, <2>2, <3>1, <3>2, SynthEndsMoves DEF Live
  <2> QED BY <2>1, <2>2
<1>4. KeyOf(s)' = KeyOf(s) /\ synth[s].key = KeyOf(s)
  BY <1>1, <1>3 DEF KeyOf, Successful, Synths, SynthOf
<1>5. DOMAIN checks' = DOMAIN checks
      /\ \A k \in DOMAIN checks : /\ checks'[k].request = checks[k].request
                                  /\ checks'[k].journal = checks[k].journal
                                  /\ checks'[k].ok => (k = key /\ Answered(key)) \/ checks[k].ok
  BY <1>2, <1>3
<1>6. ASSUME NEW t \in Sessions \ {s} PROVE SynthOf(t)'
  BY <1>3, <1>5, SynthStays DEF Synths, Placed, ConclaveTypeOK
<1>7. ASSUME NEW k, Answered(k) PROVE Answered(k)'
  BY <1>3, <1>7, AnswersStay
<1>8. SynthOf(s)'
  <2>1. session'[s].verdict = "ok" => Answered(synth[s].key)'
    <3>1. session'[s].verdict = "ok" => Answered(key)'
      BY <1>3, <1>7
    <3> QED BY <1>2, <1>3, <3>1
  <2>2. SynthOf(s)
    BY DEF Synths
  <2>3. synth[s].posted # "no" => /\ synth[s].key \in DOMAIN checks'
                                  /\ checks'[synth[s].key].request # 0
                                  /\ ProvesSubmission(checks'[synth[s].key].journal)
    BY <1>5, <2>2 DEF SynthOf
  <2>4. /\ synth[s].st \in {"none", "queued", "admitted"} => synth[s].posted = "no"
        /\ synth[s].st = "done" => synth[s].posted = "answered"
        /\ synth[s].st # "posting"
    BY <1>3, <2>2 DEF SynthOf, Live
  <2>5. /\ synth' = synth /\ session'[s].pc = "publish" /\ synth[s].st \notin Live
        /\ synth'[s].key = KeyOf(s)'
    BY <1>3, <1>4
  <2> QED BY <2>1, <2>3, <2>4, <2>5 DEF SynthOf, BeforeSynthesis
<1>9. Checkpoints'
  <2>1. ASSUME NEW k \in DOMAIN checks
        PROVE  /\ checks'[k].request # 0 =>
                    synth'[checks'[k].request].key = k /\ synth'[checks'[k].request].st # "none"
               /\ checks'[k].ok => Answered(k)'
    BY <1>3, <1>5, <1>7 DEF Synths, Checkpoints
  <2> QED BY <1>5, <2>1 DEF Checkpoints
<1>10. OnePost'
  BY <1>3 DEF Synths, OnePost
<1> QED BY <1>6, <1>8, <1>9, <1>10 DEF Synths

\* The child of a synthesis posts it once.
LEMMA SynthsGoOn ==
    ASSUME Always, Synths, NEW s \in Sessions, SynthStep(s)
    PROVE  Synths'
<1> USE DEF Always
<1>1. /\ UNCHANGED session /\ \A t \in Sessions \ {s} : synth'[t] = synth[t]
      /\ synth'[s].key = synth[s].key /\ DOMAIN checks' = DOMAIN checks
      /\ \A k \in DOMAIN checks : /\ checks'[k].request = checks[k].request
                                  /\ checks'[k].ok = checks[k].ok
                                  /\ k # synth[s].key => checks'[k] = checks[k]
  BY SynthStepMoves
<1>2. PICK key : key = synth[s].key
  OBVIOUS
<1>3. SynthOf(s) /\ synth[s].posted \in {"no", "yes", "answered"}
  BY DEF Synths, ConclaveTypeOK, SynthRecs
<1>4. synth[s].st # "none" /\ key \in DOMAIN checks
  <2>1. synth[s].st # "none"
    BY <1>3, SynthStepMoves DEF SynthOf
  <2> QED BY <1>2, <2>1 DEF ConclaveTypeOK
<1>5. \A t \in Sessions \ {s} : synth[t].posted # "no" /\ synth[t].key = key =>
        synth[s].posted = "no" /\ session[s].pc # "synth"
  BY <1>2 DEF Synths, OnePost
<1>6. synth[s].st \in Live \/ synth[s].posted # "no"
  BY SynthStepMoves DEF Live
<1>7. \A t \in Sessions \ {s} : synth[t].posted # "no" => synth[t].key # key
  BY <1>3, <1>5, <1>6 DEF SynthOf
<1>8. \A t \in Sessions : synth[t].posted = "answered" =>
        synth'[t].posted = "answered" /\ synth'[t].key = synth[t].key
  BY <1>1, SynthStepMoves
<1>9. ASSUME NEW t \in Sessions \ {s} PROVE SynthOf(t)'
  <2>1. CASE synth[t].key # key
    <3>1. synth[t].key \in DOMAIN checks => checks'[synth[t].key] = checks[synth[t].key]
      BY <1>1, <1>2, <2>1
    <3> QED BY <1>1, <1>8, <3>1, SynthStays DEF Synths, Placed, ConclaveTypeOK
  <2>2. CASE synth[t].key = key
    <3>1. SynthOf(t) /\ synth[t].posted = "no"
      BY <1>7, <2>2 DEF Synths
    <3>2. session[t].pc # "synth"
      <4>1. CASE synth[s].st \in Live
        <5>1. session[s].pc = "synth"
          BY <1>3, <4>1 DEF SynthOf
        <5>2. Active(s)
          BY <5>1 DEF Active
        <5>3. ~Active(t)
          BY <5>2, OthersRest
        <5> QED BY <5>3 DEF Active
      <4>2. CASE synth[s].posted # "no"
        BY <1>2, <2>2, <4>2 DEF Synths, OnePost
      <4> QED BY <1>6, <4>1, <4>2
    <3>3. synth[t].st # "posting" /\ synth[t].st \notin Live
      BY <3>1, <3>2 DEF SynthOf, Live
    <3>4. KeyOf(t)' = KeyOf(t)
      BY <1>1 DEF KeyOf, Successful
    <3>5. session[t].pc = "publish" /\ session[t].verdict = "ok" => Answered(key)'
      BY <1>8, <2>2, <3>1, AnswersStay DEF SynthOf
    <3>6. session[t].pc = "publish" /\ session[t].verdict = "ok" => Answered(synth[t].key)'
      <4>1. synth'[t].key = key
        BY <1>1, <2>2
      <4> QED BY <3>5, <4>1
    <3> QED BY <1>1, <3>1, <3>2, <3>3, <3>4, <3>6 DEF SynthOf
  <2> QED BY <2>1, <2>2
<1>10. Checkpoints'
  <2>1. ASSUME NEW k \in DOMAIN checks
        PROVE  /\ checks'[k].request # 0 =>
                    synth'[checks'[k].request].key = k /\ synth'[checks'[k].request].st # "none"
               /\ checks'[k].ok => Answered(k)'
    <3>1. /\ checks[k].request # 0 => /\ synth[checks[k].request].key = k
                                      /\ synth[checks[k].request].st # "none"
                                      /\ checks[k].request \in Sessions
          /\ checks[k].ok => Answered(k)
      BY DEF Synths, Checkpoints, ConclaveTypeOK, CheckRecs
    <3>2. synth'[s].st # "none"
      BY <1>4, SynthStepMoves
    <3>3. checks[k].ok => Answered(k)'
      BY <1>8, <3>1, AnswersStay
    <3> QED BY <1>1, <3>1, <3>2, <3>3
  <2> QED BY <1>1, <2>1 DEF Checkpoints
<1>11. OnePost'
  <2>1. synth'[s].posted # "no" => synth[s].st \in Live \/ synth[s].posted # "no"
    BY <1>6
  <2>2. ASSUME NEW t \in Sessions \ {s}, synth[t].key = key, synth'[s].posted # "no"
        PROVE  session[t].pc # "synth"
    <3>1. CASE synth[s].st \in Live
      <4>1. session[s].pc = "synth"
        BY <1>3, <3>1 DEF SynthOf
      <4>2. Active(s)
        BY <4>1 DEF Active
      <4>3. ~Active(t)
        BY <4>2, OthersRest
      <4> QED BY <4>3 DEF Active
    <3>2. CASE synth[s].posted # "no"
      BY <1>2, <2>2, <3>2 DEF Synths, OnePost
    <3> QED BY <1>6, <3>1, <3>2
  <2> QED BY <1>1, <1>2, <1>7, <2>2 DEF Synths, OnePost
<1>12. SynthOf(s)'
  <2>1. /\ session[s].pc \notin BeforeSynthesis
        /\ synth[s].posted # "no" => /\ checks[key].request # 0
                                     /\ ProvesSubmission(checks[key].journal)
        /\ synth[s].st \in Live => session[s].pc = "synth"
        /\ synth[s].st \in {"none", "queued", "admitted"} => synth[s].posted = "no"
        /\ synth[s].st = "done" => synth[s].posted = "answered"
        /\ synth[s].st = "posting" => ProvesSubmission(checks[key].journal)
        /\ session[s].pc = "synth" => checks[key].request = s
    BY <1>2, <1>3, <1>4 DEF SynthOf, IdleSynth
  <2>2. checks'[key].request = checks[key].request /\ s # 0
    BY <1>1, <1>4, Nobodies
  <2>3. synth'[s].st \in Live => synth[s].st \in Live
    BY SynthStepMoves DEF Live
  <2>4. /\ synth'[s].st \in {"none", "queued", "admitted"} => synth'[s].posted = "no"
        /\ synth'[s].st = "done" => synth'[s].posted = "answered"
    BY <2>1, SynthStepMoves
  <2>5. /\ synth'[s].st = "posting" => ProvesSubmission(checks'[key].journal)
        /\ synth'[s].posted # "no" => ProvesSubmission(checks'[key].journal)
    BY <1>2, <2>1, SynthStepMoves
  <2>6. synth'[s].posted # "no" => checks[key].request # 0
    BY <1>6, <2>1, <2>2
  <2>7. KeyOf(s)' = KeyOf(s)
    BY <1>1 DEF KeyOf, Successful
  <2>8. session[s].pc = "publish" /\ session[s].verdict = "ok" => Answered(synth[s].key)'
    <3>1. session[s].pc = "publish" /\ session[s].verdict = "ok" => Answered(key)'
      BY <1>2, <1>3, <1>8, AnswersStay DEF SynthOf
    <3> QED BY <1>1, <1>2, <3>1
  <2>9. session[s].pc \in {"fetch", "synth", "publish"} => key = KeyOf(s)
    BY <1>2, <1>3 DEF SynthOf
  <2> QED BY <1>1, <1>2, <1>4, <2>1, <2>2, <2>3, <2>4, <2>5, <2>6, <2>7, <2>8, <2>9 DEF SynthOf
<1> QED BY <1>9, <1>10, <1>11, <1>12 DEF Synths

\* A session that is killed, or whose synthesis times out, leaves no synthesis that
\* runs, unless it runs alone.
LEMMA SynthsKilled ==
    ASSUME Always, Synths, NEW s \in Sessions, KillSession(s) \/ SynthTimesOut(s), ~lone'
    PROVE  Synths'
<1> USE DEF Always
<1>1. /\ UNCHANGED checks
      /\ \A t \in Sessions \ {s} : session'[t] = session[t] /\ synth'[t] = synth[t]
      /\ synth'[s].key = synth[s].key /\ synth'[s].posted = synth[s].posted
      /\ synth'[s].st = "none" <=> synth[s].st = "none"
      /\ synth'[s].st \in {synth[s].st, "none", "killed"}
      /\ \/ session'[s].pc = "over"
         \/ /\ session[s].pc = "synth" /\ session'[s].pc = "publish"
            /\ session'[s].verdict = "failed" /\ session'[s].results = session[s].results
  BY KillMoves, SynthTimesOutMoves
<1>2. SynthOf(s) /\ session[s].pc \notin {"idle", "over"}
  BY KillMoves, SynthTimesOutMoves DEF Synths, Active
<1>3. synth'[s].st \notin Live
  <2>1. CASE lone' = (lone \/ session[s].role # {} \/ session[s].pc = "synth") /\ UNCHANGED synth
    BY <1>2, <2>1 DEF SynthOf
  <2>2. CASE synth'[s].st \in {"none", "killed"}
    BY <2>2 DEF Live
  <2> QED BY <2>1, <2>2, KillMoves, SynthTimesOutMoves
<1>4. \A t \in Sessions : synth[t].posted = "answered" =>
        synth'[t].posted = "answered" /\ synth'[t].key = synth[t].key
  BY <1>1
<1>5. ASSUME NEW t \in Sessions \ {s} PROVE SynthOf(t)'
  BY <1>1, <1>4, SynthStays DEF Synths, Placed, ConclaveTypeOK
<1>6. SynthOf(s)'
  <2>1. session'[s].pc = "publish" => KeyOf(s)' = KeyOf(s)
    BY <1>1 DEF KeyOf, Successful
  <2> QED BY <1>1, <1>2, <1>3, <2>1 DEF SynthOf, BeforeSynthesis, Live
<1>7. Checkpoints'
  <2>1. ASSUME NEW k \in DOMAIN checks
        PROVE  /\ checks[k].request # 0 =>
                    synth'[checks[k].request].key = k /\ synth'[checks[k].request].st # "none"
               /\ checks[k].ok => Answered(k)'
    <3>1. /\ checks[k].request # 0 => /\ synth[checks[k].request].key = k
                                      /\ synth[checks[k].request].st # "none"
                                      /\ checks[k].request \in Sessions
          /\ checks[k].ok => Answered(k)
      BY DEF Synths, Checkpoints, ConclaveTypeOK, CheckRecs
    <3>2. checks[k].ok => Answered(k)'
      BY <1>4, <3>1, AnswersStay
    <3> QED BY <1>1, <3>1, <3>2
  <2> QED BY <1>1, <2>1 DEF Checkpoints
<1>8. OnePost'
  BY <1>1 DEF Synths, OnePost
<1> QED BY <1>5, <1>6, <1>7, <1>8 DEF Synths

-----------------------------------------------------------------------------
(* The roles.                                                              *)

\* An answer with its proof stays as it is, and no turn is taken back.
AnswersLast ==
  /\ \A c \in Attempts : turn[c].st = "answered" =>
       turn'[c].st = "answered" /\ turn'[c].ws = turn[c].ws
  /\ Posted \subseteq Posted'

\* A step that changes nothing in the directory of a role, or about its attempts ...
Rests(r) ==
  /\ \A a \in Of(r) : main'[a] = main[a] /\ child'[a] = child[a] /\ turn'[a] = turn[a]
  /\ request'[r] = request[r] /\ journal'[r] = journal[r] /\ meta'[r] = meta[r]
  /\ saved'[r] = saved[r] /\ response'[r] = response[r] /\ reader'[r] = reader[r]

\* ... and one in which no session takes it up or lets it go.
Leaves(r) ==
  /\ manifest'.status = "none" => manifest.status = "none"
  /\ \A s \in Sessions :
       /\ Works(s, r)' <=> Works(s, r)
       /\ Reads(s, r)' <=> Reads(s, r)
       /\ Waits(s, r)' => Waits(s, r) \/ meta[r] # "ok"
       /\ Holds(s, r)' => /\ Holds(s, r)
                          /\ session'[s].results[r] = session[s].results[r]
                          /\ session'[s].todo \cup session'[s].role
                               \subseteq session[s].todo \cup session[s].role

\* An attempt is of the role in its name.
LEMMA AttemptsOf ==
    ASSUME NEW a \in Attempts
    PROVE  Run(a) \in Runs /\ a \in Of(Run(a)) /\ a[2] \in 1..Tries /\ a = <<Run(a), a[2]>>
BY DEF Attempts, Run, Of

\* The attempts of one role differ in their number.
LEMMA TriesDiffer ==
    ASSUME NEW r \in Runs, NEW a \in Of(r), NEW b \in Of(r), a[2] = b[2]
    PROVE  a = b
BY AttemptsOf DEF Of

\* The newest attempt is the only one.
LEMMA OneNewest ==
    ASSUME NEW r \in Runs, NEW a \in Of(r), NEW b \in Of(r), Newest(a), Newest(b)
    PROVE  a = b
<1>1. /\ a \in Attempts /\ b \in Attempts /\ a[2] \in Nat /\ b[2] \in Nat
      /\ Run(a) = r /\ Run(b) = r
  BY AttemptsOf, TurnAssumption DEF Of
<1>2. ~(a[2] > b[2]) /\ ~(b[2] > a[2])
  BY <1>1 DEF Newest
<1>3. a[2] = b[2]
  BY <1>1, <1>2
<1> QED BY <1>3, TriesDiffer

\* Of the attempts of a role only the newest runs.
LEMMA OneRunning ==
    ASSUME NEW r \in Runs, RoleOk(r), NEW a \in Of(r), Running(a)
    PROVE  /\ Newest(a) /\ meta[r] # "ok" /\ \E s \in Sessions : Works(s, r)
           /\ \A b \in Of(r) : Newest(b) \/ Running(b) => b = a
<1>1. /\ Newest(a) /\ meta[r] # "ok" /\ \E s \in Sessions : Works(s, r)
      /\ \A b \in Of(r) : Running(b) => Newest(b)
  BY DEF RoleOk, RunOf, Of
<1> QED BY <1>1, OneNewest

\* While a session has to do with a role nobody else has.
LEMMA WorkedOn ==
    ASSUME Locked, NEW r \in Runs, RoleOk(r), NEW s \in Sessions, Works(s, r)
    PROVE  /\ reader[r].pc \notin ReadsOn /\ manifest.status # "none"
           /\ \A t \in Sessions : ~Reads(t, r) /\ ~Waits(t, r) /\ ~Holds(t, r)
<1>1. Active(s) /\ SessionOk(s)
  BY DEF Works, Active, Locked
<1>2. \A t \in Sessions \ {s} : ~Active(t)
  BY <1>1, OthersRest
<1>3. ASSUME NEW t \in Sessions PROVE ~Reads(t, r) /\ ~Waits(t, r)
  BY <1>1, <1>2 DEF Reads, Waits, Works, Active, SessionOk
<1>4. ASSUME NEW t \in Sessions PROVE ~Holds(t, r)
  <2>1. Holds(t, r) => t = s /\ r \notin session[t].todo \cup session[t].role
    BY <1>2 DEF Holds, RoleOk, VerdictOf
  <2> QED BY <2>1 DEF Works
<1>5. reader[r].pc \notin ReadsOn
  BY <1>3 DEF RoleOk, VerdictOf
<1>6. manifest.status # "none"
  BY <1>1 DEF Locked
<1> QED BY <1>3, <1>4, <1>5, <1>6

\* Neither does anything of a role run while its directory is read, or while no
\* session waits for an attempt.
LEMMA ReadAlone ==
    ASSUME Locked, NEW r \in Runs, RoleOk(r), NEW s \in Sessions, Reads(s, r)
    PROVE  /\ manifest.status # "none"
           /\ \A t \in Sessions : ~Works(t, r) /\ ~Waits(t, r) /\ ~Holds(t, r)
           /\ \A a \in Of(r) : ~Running(a)
<1>1. Active(s) /\ SessionOk(s)
  BY DEF Reads, Active, Locked
<1>2. \A t \in Sessions \ {s} : ~Active(t)
  BY <1>1, OthersRest
<1>3. ASSUME NEW t \in Sessions PROVE ~Works(t, r) /\ ~Waits(t, r)
  BY <1>1, <1>2 DEF Reads, Waits, Works, Active, SessionOk
<1>4. ASSUME NEW t \in Sessions PROVE ~Holds(t, r)
  <2>1. Holds(t, r) => t = s /\ r \notin session[t].todo \cup session[t].role
    BY <1>2 DEF Holds, RoleOk, VerdictOf
  <2> QED BY <2>1 DEF Reads
<1>5. ASSUME NEW a \in Of(r) PROVE ~Running(a)
  BY <1>3, OneRunning
<1>6. manifest.status # "none"
  BY <1>1 DEF Locked
<1> QED BY <1>3, <1>4, <1>5, <1>6

\* A role nobody touches stays as it is.
LEMMA RoleRests ==
    ASSUME TypeOK, NEW r \in Runs, RoleOk(r), Rests(r), Leaves(r), AnswersLast
    PROVE  RoleOk(r)'
<1>1. ASSUME NEW a \in Of(r) PROVE Newest(a)' <=> Newest(a)
  <2>1. Run(a) = r
    BY DEF Of
  <2> QED BY <2>1 DEF Newest, Rests, Of
<1>2. ASSUME NEW c \in Attempts \cup {NoTurn} PROVE Proved(c) => turn'[c].st = "answered"
  BY DEF Proved, AnswersLast
<1>3. ASSUME NEW a \in Of(r) PROVE RunOf(a)'
  <2>1. Run(a) = r /\ a \in Attempts /\ main'[a] = main[a] /\ child'[a] = child[a]
    BY DEF Of, Rests
  <2>2. RunOf(a) /\ main[a].conv \in Attempts \cup {NoTurn}
    BY <2>1 DEF RoleOk, TypeOK, Mains
  <2>3. main[a].pc # "idle" => \A b \in Of(r) : b[2] < a[2] => main'[b].pc # "idle"
    BY <2>1, <2>2 DEF RunOf, Rests
  <2>4. Running(a)' => Newest(a)' /\ meta'[r] # "ok" /\ \E s \in Sessions : Works(s, r)'
    BY <1>1, <2>1, <2>2 DEF RunOf, Rests, Running, Leaves
  <2>5. main[a].pc \in {"mark", "passed", "accepted"} => Proved(main[a].conv)'
    BY <1>2, <2>1, <2>2 DEF RunOf, Proved
  <2>6. main[a].pc = "accepted" => Proved(response[r])'
    <3>1. response[r] \in Attempts \cup {NoTurn} /\ response'[r] = response[r]
      BY DEF TypeOK, Rests
    <3> QED BY <1>2, <2>1, <2>2, <3>1 DEF RunOf, Proved
  <2> QED BY <2>1, <2>2, <2>3, <2>4, <2>5, <2>6 DEF RunOf, Of
<1>4. ASSUME NEW a \in Of(r) PROVE WrittenOf(a)'
  <2>1. Run(a) = r /\ WrittenOf(a)
    BY DEF RoleOk, Of
  <2> QED BY <2>1 DEF WrittenOf, Rests, Of, Running, Final
<1>5. VerdictOf(r)'
  <2> USE DEF RoleOk, VerdictOf, Rests, Leaves
  <2>1. ASSUME NEW s \in Sessions, Works(s, r)'
        PROVE  \E a \in Of(r) : Newest(a)' /\ (main'[a].pc = "done" => meta'[r] = "ok")
    BY <1>1, <2>1
  <2>2. /\ saved[r] \in Attempts \cup {NoTurn} /\ response[r] \in Attempts \cup {NoTurn}
        /\ reader[r].conv \in Attempts \cup {NoTurn}
    BY DEF TypeOK, Readers
  <2>3. OfRun(saved[r], r)' /\ OfRun(reader[r].conv, r)'
    BY DEF OfRun, AnswersLast
  <2>4. meta'[r] = "ok" => Proved(response[r])' /\ manifest'.status # "none"
    BY <1>2, <2>2 DEF Proved
  <2>5. reader'[r].pc \in ReadsOn => \E s \in Sessions : Reads(s, r)'
    OBVIOUS
  <2>6. /\ reader'[r].pc \in ReadsOn \ {"local"} => meta'[r] # "ok"
        /\ reader'[r].verdict = "ok" =>
             /\ reader'[r].pc \in {"keep", "respond"} => Proved(reader[r].conv)'
             /\ reader'[r].pc = "conclude" => Proved(response[r])'
    <3>1. /\ Proved(reader[r].conv) => Proved(reader[r].conv)'
          /\ Proved(response[r]) => Proved(response[r])'
      BY <2>2 DEF Proved, AnswersLast
    <3> QED BY <3>1
  <2>7. ASSUME NEW s \in Sessions
        PROVE  /\ Reads(s, r)' /\ reader'[r].pc = "over" => (meta'[r] = "ok" <=> reader'[r].verdict = "ok")
               /\ Waits(s, r)' => meta'[r] # "ok"
               /\ Holds(s, r)' => /\ r \notin session'[s].todo \cup session'[s].role
                                  /\ session'[s].results[r] = response'[r] /\ meta'[r] = "ok"
    <3>1. Reads(s, r)' /\ reader'[r].pc = "over" => (meta'[r] = "ok" <=> reader'[r].verdict = "ok")
      OBVIOUS
    <3>2. Waits(s, r)' => meta'[r] # "ok"
      OBVIOUS
    <3>3. Holds(s, r)' => /\ r \notin session'[s].todo \cup session'[s].role
                          /\ session'[s].results[r] = response'[r] /\ meta'[r] = "ok"
      OBVIOUS
    <3> QED BY <3>1, <3>2, <3>3
  <2>8. Of(r)' = Of(r)
    BY DEF Of
  <2> QED BY <2>1, <2>3, <2>4, <2>5, <2>6, <2>7, <2>8
<1>6. Of(r)' = Of(r)
  BY DEF Of
<1> QED BY <1>3, <1>4, <1>5, <1>6 DEF RoleOk

\* Attempts, turns and resumes are no business of a session.
LEMMA SessionsLeave ==
    ASSUME UNCHANGED <<session, manifest>>, NEW r \in Runs
    PROVE  Leaves(r)
BY DEF Leaves, Works, Reads, Waits, Holds, Active

\* An attempt goes on, or is killed and leaves no child that runs.
Advances(a) == MainStep(a) \/ (Kill(a) /\ child'[a] \notin Alive)

\* What such a step adds to MainMoves.
LEMMA MainStepMoves ==
    ASSUME TypeOK, NEW a \in Attempts, RunOf(a), Advances(a)
    PROVE  /\ Running(a) /\ main'[a].pc \notin {"idle", "check"}
           /\ main[a].pc = "check" => main'[a].pc \in {"refused", "killed"} \/ Denies(Run(a))
           /\ main'[a].pc = "done" => meta'[Run(a)] = "ok"
           /\ Running(a)' => meta' = meta
           /\ main'[a].pc = "wait" => child'[a] # "none"
           /\ child'[a] \in Alive => main'[a].pc = "wait"
           /\ child'[a] \in {child[a], "killed"} \/ (child'[a] = "queued" /\ child[a] = "none")
           /\ child'[a] # "none" /\ child[a] = "none" => request'[Run(a)] # {}
           /\ request'[Run(a)] # request[Run(a)] => request'[Run(a)] # {}
<1>1. /\ Run(a) \in Runs /\ main[a] \in Mains /\ main \in [Attempts -> Mains]
      /\ child \in [Attempts -> ChildLabels] /\ meta \in [Runs -> Verdicts]
      /\ request \in [Runs -> {{}} \cup {{ws} : ws \in Roots}]
  BY DEF TypeOK, Run, Attempts
<1> USE <1>1 DEF Mains, Doing, Step, Running, directory
<1>2. /\ main[a].pc = "wait" => child[a] # "none"
      /\ child[a] \in Alive => main[a].pc = "wait"
      /\ main[a].pc \in Early => child[a] = "none"
  BY DEF RunOf
<1>3. CASE Check(a)
  <2>1. UNCHANGED <<request, meta, child>> /\ main[a].pc = "check"
    BY <1>3 DEF Check
  <2>2. CASE Denies(Run(a))
    <3>1. ASSUME NEW l \in {"refresh", "unready"},
                 main' = [main EXCEPT ![a].pc = l, ![a].dev = state.dev, ![a].tunnel = state.tunnel]
          PROVE  main'[a].pc = l
      BY <3>1
    <3>2. main'[a].pc \in {"refresh", "unready"}
      BY <1>3, <2>2, <3>1 DEF Check, Denies
    <3> QED BY <1>2, <2>1, <2>2, <3>2 DEF Early
  <2>3. CASE ~Denies(Run(a))
    <3>1. main'[a].pc = "refused"
      BY <1>3, <2>3 DEF Check, Denies
    <3> QED BY <1>2, <2>1, <3>1 DEF Early
  <2> QED BY <2>2, <2>3
<1>4. CASE Refresh(a)  BY <1>2, <1>4 DEF Refresh, Early
<1>5. CASE Pin(a)  BY <1>2, <1>5 DEF Pin, Early
<1>6. CASE RecordPin(a)  BY <1>2, <1>6 DEF RecordPin, Early
<1>7. CASE Verify(a)
  <2>1. ASSUME NEW l \in {"request", "unready"},
               main' = [main EXCEPT ![a].pc = l, ![a].dev = state.dev,
                                    ![a].tunnel = state.tunnel, ![a].pinned = state.ws]
        PROVE  main'[a].pc = l
    BY <2>1
  <2>2. main'[a].pc \in {"request", "unready"}
    BY <1>7, <2>1 DEF Verify
  <2> QED BY <1>2, <1>7, <2>2 DEF Verify, Early
<1>8. CASE Request(a)
  <2>1. main[a].pc \in {"request", "unready"} /\ child[a] = "none"
    BY <1>2, <1>8 DEF Request, Early
  <2>2. request'[Run(a)] # {} /\ meta' = meta
    BY <1>8 DEF Request
  <2>3. \/ main'[a].pc = "wait" /\ child'[a] = "queued"
        \/ main'[a].pc = "failed" /\ child' = child
    <3>1. CASE main[a].pc = "request"
      BY <1>8, <3>1 DEF Request
    <3>2. CASE main[a].pc # "request"
      BY <1>8, <3>2 DEF Request
    <3> QED BY <3>1, <3>2
  <2> QED BY <2>1, <2>2, <2>3 DEF Alive
<1>9. CASE Collect(a)
  <2>1. /\ main[a].pc = "wait" /\ UNCHANGED <<request, meta>>
        /\ child' = child /\ child[a] \in {"done", "failed", "killed"}
    BY <1>9 DEF Collect
  <2>2. main'[a].pc \in {"mark", "failed"}
    BY <1>9 DEF Collect
  <2> QED BY <1>2, <2>1, <2>2 DEF Alive
<1>10. CASE Mark(a) \/ LockTimesOut(a)  BY <1>2, <1>10 DEF Mark, LockTimesOut, Early
<1>11. CASE Save(a)
  <2>1. /\ main[a].pc \in {"accepted", "rejected"} /\ UNCHANGED <<request, child>>
        /\ main'[a].pc = IF main[a].pc = "accepted" THEN "done" ELSE "over"
        /\ meta'[Run(a)] = IF main[a].pc = "accepted" THEN "ok" ELSE "failed"
    BY <1>11 DEF Save, IdleMain
  <2> QED BY <1>2, <2>1
<1>12. CASE SaveResponse(a)
  <2>1. /\ main[a].pc \in {"passed", "failed"} /\ UNCHANGED <<request, meta, child>>
        /\ main'[a].pc \in {"accepted", "rejected"}
    BY <1>12 DEF SaveResponse
  <2> QED BY <1>2, <2>1 DEF Alive
<1>13. CASE ChildTimesOut(a)
  <2>1. /\ main[a].pc = "wait" /\ UNCHANGED <<request, meta>>
        /\ main'[a].pc = "failed" /\ child'[a] = "killed"
    BY <1>13 DEF ChildTimesOut
  <2> QED BY <1>2, <2>1 DEF Alive
<1>14. CASE Kill(a) /\ child'[a] \notin Alive
  <2>1. /\ main[a].pc \notin {"idle", "refused", "done", "over", "killed"}
        /\ main'[a].pc = "killed" /\ UNCHANGED <<request, meta>>
        /\ child'[a] \in {child[a], "killed"} /\ (child[a] = "none" => child'[a] = "none")
    BY <1>14 DEF Kill, IdleMain
  <2> QED BY <1>14, <2>1
<1> QED BY <1>3, <1>4, <1>5, <1>6, <1>7, <1>8, <1>9, <1>10, <1>11, <1>12, <1>13, <1>14
        DEF Advances, MainStep, MainWorks

\* A role whose journal denies a turn has none.
LEMMA DeniedIsUnposted ==
    ASSUME NEW r \in Runs, RoleOk(r), Denies(r), NEW a \in Of(r)
    PROVE  turn[a].st = "none"
BY DEF RoleOk, WrittenOf, Denies, Of

\* A step of an attempt keeps its role ...
LEMMA RoleAttempted ==
    ASSUME TypeOK, Locked, NEW a \in Attempts, RoleOk(Run(a)), Advances(a),
           UNCHANGED <<session, manifest>>
    PROVE  RoleOk(Run(a))'
<1> DEFINE r == Run(a)
<1>1. /\ r \in Runs /\ a \in Of(r) /\ RunOf(a) /\ WrittenOf(a) /\ Of(r)' = Of(r)
      /\ \A b \in Of(r) : b \in Attempts /\ Run(b) = r
  BY AttemptsOf DEF RoleOk, Of
<1>2. /\ Running(a) /\ main'[a].pc \notin {"idle", "check"}
      /\ main[a].pc = "check" => main'[a].pc \in {"refused", "killed"} \/ Denies(r)
      /\ main'[a].pc = "done" => meta'[r] = "ok"
      /\ Running(a)' => meta' = meta
      /\ main'[a].pc = "wait" => child'[a] # "none"
      /\ child'[a] \in Alive => main'[a].pc = "wait"
      /\ child'[a] \in {child[a], "killed"} \/ (child'[a] = "queued" /\ child[a] = "none")
      /\ child'[a] # "none" /\ child[a] = "none" => request'[r] # {}
      /\ request'[r] # request[r] => request'[r] # {}
  BY <1>1, MainStepMoves
<1>3. Attempting(a) /\ UNCHANGED <<turn, journal, saved, reader, session, manifest>>
  BY MainMoves DEF Advances, Attempting
<1>4. \A b \in Of(r) \ {a} : main'[b] = main[b] /\ child'[b] = child[b]
  BY <1>1, <1>3, AttemptIsLocal
<1>5. /\ Newest(a) /\ meta[r] # "ok" /\ \E s \in Sessions : Works(s, r)
      /\ \A b \in Of(r) \ {a} : ~Newest(b) /\ ~Running(b)
  BY <1>1, <1>2, OneRunning
<1> HIDE DEF r
<1>6. \A b \in Of(r) : main'[b].pc = "idle" <=> main[b].pc = "idle"
  BY <1>2, <1>4 DEF Running
<1>7. ASSUME NEW b \in Of(r) PROVE Newest(b)' <=> Newest(b)
  BY <1>1, <1>6 DEF Newest
<1>8. \A s \in Sessions : Works(s, r)' <=> Works(s, r)
  BY <1>3 DEF Works
<1>9. ASSUME NEW b \in Of(r) PROVE RunOf(b)'
  <2>1. RunOf(b) /\ Run(b) = r
    BY <1>1 DEF r, RoleOk
  <2>2. main'[b].pc # "idle" => \A c \in Of(r) : c[2] < b[2] => main'[c].pc # "idle"
    BY <1>6, <2>1 DEF RunOf
  <2>3. Running(b)' => /\ Newest(b)' /\ meta'[r] # "ok" /\ \E s \in Sessions : Works(s, r)'
    <3>1. CASE b = a
      BY <1>2, <1>5, <1>7, <1>8, <3>1
    <3>2. CASE b # a
      BY <1>4, <1>5, <3>2 DEF Running
    <3> QED BY <3>1, <3>2
  <2>4. /\ main'[b].pc \in Early => child'[b] = "none"
        /\ main'[b].pc = "wait" => child'[b] # "none"
        /\ child'[b] \in Alive => main'[b].pc = "wait"
        /\ main'[b].pc \in {"mark", "passed", "accepted"} => Proved(main[b].conv)'
        /\ main'[b].pc = "accepted" => Proved(response[r])'
    <3>1. CASE b = a
      <4>1. main'[a].pc \in Early => child'[a] = "none"
        <5>1. main'[a].pc \in Early => main[a].pc \in Early /\ child' = child
          BY <1>3, MainMoves DEF Early
        <5> QED BY <1>1, <5>1 DEF RunOf
      <4>2. main'[a].pc \in {"mark", "passed", "accepted"} => Proved(main[a].conv)'
        <5>1. main'[a].pc = "mark" => Proved(main'[a].conv)
          BY <1>3, MainMoves DEF Early
        <5>2. /\ main'[a].pc = "passed" => main[a].pc = "mark" /\ main'[a].conv = main[a].conv
              /\ main'[a].pc = "accepted" => main[a].pc = "passed" /\ main'[a].conv = main[a].conv
          BY <1>3, MainMoves DEF Early
        <5> QED BY <1>1, <1>3, <5>1, <5>2 DEF RunOf, Proved
      <4>3. main'[a].pc = "accepted" => Proved(response[r])'
        <5>1. main'[a].pc = "accepted" =>
                /\ main[a].pc = "passed"
                /\ response'[r] = IF main[a].conv # NoTurn THEN main[a].conv ELSE response[r]
          BY <1>3, MainMoves DEF Early, r
        <5>2. main[a].pc = "passed" => Proved(main[a].conv)
          BY <1>1 DEF RunOf
        <5> QED BY <1>3, <5>1, <5>2 DEF Proved
      <4> QED BY <1>2, <3>1, <4>1, <4>2, <4>3
    <3>2. CASE b # a
      <4>1. main'[b] = main[b] /\ ~Running(b)
        BY <1>4, <1>5, <3>2
      <4> QED BY <1>3, <1>4, <2>1, <3>2, <4>1 DEF RunOf, Proved, Running
    <3> QED BY <3>1, <3>2
  <2> QED BY <1>1, <2>1, <2>2, <2>3, <2>4 DEF RunOf
<1>10. ASSUME NEW b \in Of(r) PROVE WrittenOf(b)'
  <2>1. WrittenOf(b) /\ Run(b) = r
    BY <1>1 DEF r, RoleOk
  <2>2. /\ child'[b] \in {"none", "queued", "admitted"} => turn'[b].st = "none"
        /\ child'[b] \in Alive \cap Posting => ProvesSubmission(journal'[r])
        /\ turn'[b].st # "none" => ProvesSubmission(journal'[r])
        /\ child'[b] \in Posting \ {"posting"} => Final(b)'
    <3>1. CASE b = a
      BY <1>2, <1>3, <2>1, <3>1 DEF WrittenOf, Posting, Alive, Final
    <3>2. CASE b # a
      BY <1>3, <1>4, <2>1, <3>2 DEF WrittenOf, Final
    <3> QED BY <3>1, <3>2
  <2>3. child'[b] # "none" => request'[r] # {}
    BY <1>2, <1>4, <2>1 DEF WrittenOf
  <2>4. (Running(b)' /\ main'[b].pc # "check") \/ turn'[b].st # "none" =>
          \A c \in Of(r) : c # b => turn'[c].st = "none"
    <3>1. CASE turn'[b].st # "none"
      BY <1>3, <2>1, <3>1 DEF WrittenOf
    <3>2. CASE Running(b)'
      <4>1. b = a
        BY <1>4, <1>5, <3>2 DEF Running
      <4>2. CASE Denies(r)
        BY <1>1, <1>3, <4>2, DeniedIsUnposted DEF r
      <4>3. CASE main[a].pc # "check"
        BY <1>2, <1>3, <2>1, <4>1, <4>3 DEF WrittenOf
      <4> QED BY <1>2, <3>2, <4>1, <4>2, <4>3 DEF Running
    <3> QED BY <3>1, <3>2
  <2> QED BY <1>1, <2>1, <2>2, <2>3, <2>4 DEF WrittenOf
<1>11. VerdictOf(r)'
  <2>1. VerdictOf(r)
    BY DEF r, RoleOk
  <2>2. /\ reader'[r].pc \notin ReadsOn /\ manifest'.status # "none"
        /\ \A s \in Sessions : ~Reads(s, r)' /\ ~Waits(s, r)' /\ ~Holds(s, r)'
    <3>1. /\ reader[r].pc \notin ReadsOn /\ manifest.status # "none"
          /\ \A s \in Sessions : ~Reads(s, r) /\ ~Waits(s, r) /\ ~Holds(s, r)
      BY <1>1, <1>5, WorkedOn DEF r
    <3> QED BY <1>3, <3>1 DEF Reads, Waits, Holds, Active
  <2>3. Newest(a)' /\ (main'[a].pc = "done" => meta'[r] = "ok")
    BY <1>1, <1>2, <1>5, <1>7
  <2>4. OfRun(saved[r], r)' /\ OfRun(reader[r].conv, r)'
    BY <1>3, <2>1 DEF VerdictOf, OfRun, Posted
  <2>5. meta'[r] = "ok" => Proved(response[r])'
    <3>1. main[a].pc = "accepted" => Proved(response[r])
      BY <1>1 DEF RunOf, r
    <3>2. \/ meta' = meta
          \/ /\ response' = response
             /\ meta'[r] = "ok" => main[a].pc = "accepted"
      BY <1>3, MainMoves DEF r
    <3> QED BY <1>3, <1>5, <3>1, <3>2 DEF Proved
  <2> QED BY <1>1, <2>2, <2>3, <2>4, <2>5 DEF VerdictOf, ReadsOn
<1> QED BY <1>1, <1>9, <1>10, <1>11 DEF r, RoleOk

\* ... and so does its child, or its turn.
LEMMA RoleAsked ==
    ASSUME TypeOK, Locked, NEW a \in Attempts, RoleOk(Run(a)), Asking(a),
           UNCHANGED <<session, manifest>>
    PROVE  RoleOk(Run(a))'
<1> DEFINE r == Run(a)
<1>1. /\ r \in Runs /\ a \in Of(r) /\ RunOf(a) /\ WrittenOf(a) /\ VerdictOf(r) /\ Of(r)' = Of(r)
      /\ \A b \in Of(r) : b \in Attempts /\ Run(b) = r /\ RunOf(b) /\ WrittenOf(b)
  BY AttemptsOf DEF RoleOk, Of
<1>2. /\ UNCHANGED <<main, request, meta, reader, session, manifest>>
      /\ \A b \in Of(r) \ {a} : child'[b] = child[b] /\ turn'[b] = turn[b]
  BY <1>1, AskingMoves, AttemptIsLocal
<1>3. ASSUME child[a] \in Alive
      PROVE  /\ main[a].pc = "wait" /\ meta[r] # "ok"
             /\ \A b \in Of(r) \ {a} : /\ turn[b].st = "none" /\ child[b] \notin Alive
                                       /\ ~Running(b)
             /\ reader[r].pc \notin ReadsOn /\ \A s \in Sessions : ~Holds(s, r)
  <2>1. main[a].pc = "wait" /\ Running(a)
    BY <1>1, <1>3 DEF RunOf, Running
  <2>2. /\ meta[r] # "ok" /\ \A b \in Of(r) \ {a} : ~Running(b)
        /\ \E s \in Sessions : Works(s, r)
    BY <1>1, <2>1, OneRunning
  <2>3. \A b \in Of(r) \ {a} : turn[b].st = "none"
    BY <1>1, <2>1 DEF WrittenOf
  <2>4. ASSUME NEW b \in Of(r) \ {a} PROVE child[b] \notin Alive
    BY <1>1, <2>2 DEF RunOf, Running
  <2>5. reader[r].pc \notin ReadsOn /\ \A s \in Sessions : ~Holds(s, r)
    BY <1>1, <2>2, WorkedOn
  <2> QED BY <2>1, <2>2, <2>3, <2>4, <2>5
<1>4. /\ child[a] \in Alive
         \/ (UNCHANGED <<child, journal, saved, response>> /\ turn[a].st \in {"posted", "opened"})
      /\ child[a] # "none" \/ turn[a].st # "none"
      /\ child'[a] \in Alive => child[a] \in Alive
      /\ child'[a] # "none" \/ child[a] = "none"
      /\ saved'[r] = saved[r] \/ (saved'[r] = a /\ child[a] = "received")
      /\ response'[r] = response[r] \/ child[a] \in Alive
  BY AskingMoves DEF Alive, Posting
<1>5. AnswersLast
  BY ProofsLast DEF AnswersLast
<1>6. /\ child'[a] \in {"none", "queued", "admitted"} => turn'[a].st = "none"
      /\ child'[a] \in Alive \cap Posting => ProvesSubmission(journal'[r])
      /\ turn'[a].st # "none" => ProvesSubmission(journal'[r])
      /\ child'[a] \in Posting \ {"posting"} => Final(a)'
  <2>1. /\ child[a] \in {"none", "queued", "admitted"} => turn[a].st = "none"
        /\ child[a] \in Alive \cap Posting => ProvesSubmission(journal[r])
        /\ turn[a].st # "none" => ProvesSubmission(journal[r])
        /\ child[a] \in Posting \ {"posting"} => Final(a)
    BY <1>1 DEF WrittenOf
  <2>2. child'[a] \in {"none", "queued", "admitted"} => turn'[a].st = "none"
    BY <2>1, AskingMoves DEF Posting, Final
  <2>3. child'[a] \in Alive \cap Posting => ProvesSubmission(journal'[r])
    BY <2>1, AskingMoves DEF Posting, Alive
  <2>4. turn'[a].st # "none" => ProvesSubmission(journal'[r])
    BY <2>1, AskingMoves DEF Posting, Alive
  <2>5. child'[a] \in Posting \ {"posting"} => turn'[a].st \in {"answered", "unproved"}
    BY <2>1, AskingMoves DEF Posting, Final
  <2> QED BY <2>2, <2>3, <2>4, <2>5 DEF Final
<1> HIDE DEF r
<1>7. ASSUME NEW b \in Of(r) PROVE Newest(b)' <=> Newest(b)
  BY <1>1, <1>2 DEF Newest
<1>8. ASSUME NEW b \in Of(r) PROVE RunOf(b)'
  <2>1. RunOf(b) /\ Run(b) = r /\ main[b].conv \in Attempts \cup {NoTurn}
    BY <1>1 DEF TypeOK, Mains
  <2>2. Running(b)' => /\ Newest(b)' /\ meta'[r] # "ok" /\ \E s \in Sessions : Works(s, r)'
    BY <1>2, <1>7, <2>1 DEF RunOf, Running, Works
  <2>3. main'[b].pc # "idle" => \A c \in Of(r) : c[2] < b[2] => main'[c].pc # "idle"
    BY <1>2, <2>1 DEF RunOf
  <2>4. main'[b].pc \in Early => child'[b] = "none"
    <3>1. ASSUME b = a, main[a].pc \in Early PROVE child'[a] = "none"
      <4>1. child[a] = "none"
        BY <1>1, <3>1 DEF RunOf
      <4> QED BY <1>4, <4>1 DEF Alive
    <3> QED BY <1>2, <2>1, <3>1 DEF RunOf
  <2>5. main'[b].pc = "wait" => child'[b] # "none"
    BY <1>2, <1>4, <2>1 DEF RunOf
  <2>6. child'[b] \in Alive => main'[b].pc = "wait"
    BY <1>2, <1>4, <2>1 DEF RunOf
  <2>7. main'[b].pc \in {"mark", "passed", "accepted"} => Proved(main[b].conv)'
    BY <1>2, <1>5, <2>1 DEF RunOf, Proved, AnswersLast
  <2>8. main'[b].pc = "accepted" => Proved(response[r])'
    <3>1. response[r] \in Attempts \cup {NoTurn}
      BY <1>1 DEF TypeOK, r
    <3>2. main[b].pc = "accepted" => response'[r] = response[r]
      BY <1>3, <1>4 DEF Running
    <3> QED BY <1>2, <1>5, <2>1, <3>1, <3>2 DEF RunOf, Proved, AnswersLast
  <2> QED BY <1>1, <2>1, <2>2, <2>3, <2>4, <2>5, <2>6, <2>7, <2>8 DEF RunOf
<1>9. ASSUME NEW b \in Of(r) PROVE WrittenOf(b)'
  <2>1. WrittenOf(b) /\ Run(b) = r
    BY <1>1
  <2>2. /\ child'[b] \in {"none", "queued", "admitted"} => turn'[b].st = "none"
        /\ child'[b] \in Alive \cap Posting => ProvesSubmission(journal'[r])
        /\ turn'[b].st # "none" => ProvesSubmission(journal'[r])
        /\ child'[b] \in Posting \ {"posting"} => Final(b)'
    <3>1. CASE b = a
      BY <1>6, <3>1
    <3>2. CASE b # a
      <4>1. child'[b] = child[b] /\ turn'[b] = turn[b]
        BY <1>2, <3>2
      <4>2. journal' = journal \/ (child[b] \notin Alive /\ turn[b].st = "none")
        BY <1>3, <1>4, <3>2
      <4> QED BY <2>1, <4>1, <4>2 DEF WrittenOf, Final
    <3> QED BY <3>1, <3>2
  <2>3. child'[b] # "none" => request'[r] # {}
    <3>1. child'[b] # "none" => child[b] # "none"
      <4>1. child[a] = "none" => child'[a] = "none"
        BY <1>4 DEF Alive
      <4> QED BY <1>2, <4>1
    <3> QED BY <1>2, <2>1, <3>1 DEF WrittenOf
  <2>4. (Running(b)' /\ main'[b].pc # "check") \/ turn'[b].st # "none" =>
          \A c \in Of(r) : c # b => turn'[c].st = "none"
    <3>1. CASE child[a] \in Alive
      <4>1. \A c \in Of(r) \ {a} : turn'[c].st = "none"
        BY <1>2, <1>3, <3>1
      <4>2. b # a => ~Running(b) /\ turn'[b].st = "none"
        <5>1. Running(a)
          BY <1>3, <3>1 DEF Running
        <5> QED BY <1>1, <4>1, <5>1, OneRunning DEF r
      <4> QED BY <1>2, <4>1, <4>2 DEF Running
    <3>2. CASE turn[a].st \in {"posted", "opened"}
      <4>1. \A c \in Of(r) \ {a} : turn[c].st = "none"
        BY <1>1, <3>2 DEF WrittenOf, r
      <4>2. \A c \in Of(r) \ {a} : turn'[c].st = "none"
        BY <1>2, <4>1
      <4>3. b # a => ~(Running(b) /\ main[b].pc # "check")
        BY <1>1, <2>1, <3>2 DEF WrittenOf
      <4> QED BY <1>2, <4>2, <4>3 DEF Running
    <3> QED BY <1>4, <3>1, <3>2
  <2> QED BY <1>1, <2>1, <2>2, <2>3, <2>4 DEF WrittenOf
<1>10. VerdictOf(r)'
  <2>1. VerdictOf(r)
    BY <1>1
  <2>2. ASSUME NEW s \in Sessions, Works(s, r)'
        PROVE  \E b \in Of(r) : Newest(b)' /\ (main'[b].pc = "done" => meta'[r] = "ok")
    BY <1>2, <1>7, <2>1, <2>2 DEF VerdictOf, Works
  <2>3. OfRun(saved[r], r)' /\ OfRun(reader[r].conv, r)'
    <3>1. child[a] = "received" => a \in Posted /\ Run(a) = r
      BY <1>1 DEF WrittenOf, Posting, Final, Posted, r
    <3> QED BY <1>2, <1>4, <1>5, <2>1, <3>1 DEF VerdictOf, OfRun, AnswersLast
  <2>4. meta'[r] = "ok" => Proved(response[r])' /\ manifest'.status # "none"
    <3>1. response[r] \in Attempts \cup {NoTurn}
      BY <1>1 DEF TypeOK, r
    <3>2. meta[r] = "ok" => response'[r] = response[r]
      BY <1>3, <1>4
    <3> QED BY <1>2, <1>5, <2>1, <3>1, <3>2 DEF VerdictOf, Proved, AnswersLast
  <2>5. reader'[r].pc \in ReadsOn => \E s \in Sessions : Reads(s, r)'
    BY <1>2, <2>1 DEF VerdictOf, Reads
  <2>6. /\ reader'[r].pc \in ReadsOn \ {"local"} => meta'[r] # "ok"
        /\ reader'[r].verdict = "ok" =>
             /\ reader'[r].pc \in {"keep", "respond"} => Proved(reader[r].conv)'
             /\ reader'[r].pc = "conclude" => Proved(response[r])'
    <3>1. reader[r].conv \in Attempts \cup {NoTurn} /\ response[r] \in Attempts \cup {NoTurn}
      BY <1>1 DEF TypeOK, Readers, r
    <3>2. /\ Proved(reader[r].conv) => Proved(reader[r].conv)'
          /\ reader[r].pc = "conclude" /\ Proved(response[r]) => Proved(response[r])'
      <4>1. reader[r].pc = "conclude" => response'[r] = response[r]
        BY <1>3, <1>4 DEF ReadsOn
      <4> QED BY <1>2, <1>5, <3>1, <4>1 DEF Proved, AnswersLast
    <3> QED BY <1>2, <2>1, <3>2 DEF VerdictOf
  <2>7. ASSUME NEW s \in Sessions
        PROVE  /\ Reads(s, r)' /\ reader'[r].pc = "over" => (meta'[r] = "ok" <=> reader'[r].verdict = "ok")
               /\ Waits(s, r)' => meta'[r] # "ok"
               /\ Holds(s, r)' => /\ r \notin session'[s].todo \cup session'[s].role
                                  /\ session'[s].results[r] = response'[r] /\ meta'[r] = "ok"
    <3>1. /\ Reads(s, r) /\ reader[r].pc = "over" => (meta[r] = "ok" <=> reader[r].verdict = "ok")
          /\ Waits(s, r) => meta[r] # "ok"
          /\ Holds(s, r) => /\ r \notin session[s].todo \cup session[s].role
                            /\ session[s].results[r] = response[r] /\ meta[r] = "ok"
      BY <2>1 DEF VerdictOf
    <3>2. (Reads(s, r)' <=> Reads(s, r)) /\ (Waits(s, r)' <=> Waits(s, r)) /\ (Holds(s, r)' <=> Holds(s, r))
      BY <1>2 DEF Reads, Waits, Holds, Active
    <3>3. Holds(s, r) => response'[r] = response[r]
      BY <1>3, <1>4
    <3> QED BY <1>2, <3>1, <3>2, <3>3
  <2> QED BY <1>1, <2>2, <2>3, <2>4, <2>5, <2>6, <2>7 DEF VerdictOf
<1> QED BY <1>1, <1>8, <1>9, <1>10 DEF r, RoleOk

\* A resume keeps its role: nothing else is about it.
LEMMA RoleRead ==
    ASSUME TypeOK, Locked, NEW r \in Runs, RoleOk(r), ReaderStep(r), UNCHANGED conclave
    PROVE  RoleOk(r)'
<1>1. UNCHANGED <<request, journal, main, child, turn, session, manifest>>
  BY ResumeTyped DEF Resuming, conclave
<1>2. PICK s \in Sessions : Reads(s, r)
  BY DEF RoleOk, VerdictOf, ReadsOn, ReaderStep, ReadLocal, ReadRemote, KeepRead, WriteResponse,
         WriteResult, Reading
<1>3. /\ manifest.status # "none" /\ \A a \in Of(r) : ~Running(a)
      /\ \A t \in Sessions : ~Works(t, r) /\ ~Waits(t, r) /\ ~Holds(t, r)
  BY <1>2, ReadAlone
<1>4. /\ reader \in [Runs -> Readers] /\ saved \in [Runs -> Attempts \cup {NoTurn}]
      /\ response \in [Runs -> Attempts \cup {NoTurn}] /\ meta \in [Runs -> Verdicts]
      /\ request[r] = {} \/ \E ws \in Roots : request[r] = {ws}
  BY DEF TypeOK
<1>5. /\ OfRun(saved[r], r) /\ OfRun(reader[r].conv, r)
      /\ meta[r] = "ok" => Proved(response[r])
      /\ reader[r].pc \in ReadsOn \ {"local"} => meta[r] # "ok"
      /\ reader[r].verdict = "ok" =>
           /\ reader[r].pc \in {"keep", "respond"} => Proved(reader[r].conv)
           /\ reader[r].pc = "conclude" => Proved(response[r])
  BY DEF RoleOk, VerdictOf
<1> DEFINE Good ==
      /\ OfRun(saved'[r], r) /\ OfRun(reader'[r].conv, r)
      /\ meta'[r] = "ok" => Proved(response'[r])
      /\ reader'[r].pc \in ReadsOn \ {"local"} => meta'[r] # "ok"
      /\ reader'[r].verdict = "ok" =>
           /\ reader'[r].pc \in {"keep", "respond"} => Proved(reader'[r].conv)
           /\ reader'[r].pc = "conclude" => Proved(response'[r])
      /\ reader'[r].pc = "over" => (meta'[r] = "ok" <=> reader'[r].verdict = "ok")
<1>6. OfRun(NoTurn, r)
  BY DEF OfRun
<1>7. ASSUME ReadLocal(r) PROVE Good
  <2>1. \A v : Conclusion(r, v).conv = NoTurn /\ Conclusion(r, v).pc = "over" /\ Conclusion(r, v).verdict = v
    BY DEF Conclusion, IdleReader
  <2>2. UNCHANGED <<saved, response>>
    BY <1>7 DEF ReadLocal
  <2>3. CASE meta[r] = "ok" /\ response[r] # NoTurn
    <3>1. reader' = [reader EXCEPT ![r] = Conclusion(r, "ok")] /\ meta' = meta
      BY <1>7, <2>3 DEF ReadLocal
    <3>2. reader'[r].conv = NoTurn /\ reader'[r].pc = "over" /\ reader'[r].verdict = "ok"
      BY <1>4, <2>1, <3>1
    <3> QED BY <1>5, <1>6, <2>2, <2>3, <3>1, <3>2 DEF ReadsOn
  <2>4. CASE meta[r] # "ok"
    <3>1. CASE SafeToSubmit(r)
      <4>1. /\ reader' = [reader EXCEPT ![r] = Conclusion(r, "not-submitted")]
            /\ meta' = [meta EXCEPT ![r] = "not-submitted"]
        BY <1>7, <2>4, <3>1 DEF ReadLocal
      <4>2. reader'[r].conv = NoTurn /\ reader'[r].pc = "over" /\ reader'[r].verdict = "not-submitted"
        BY <1>4, <2>1, <4>1
      <4>3. meta'[r] = "not-submitted"
        BY <1>4, <4>1
      <4> QED BY <1>5, <1>6, <2>2, <4>2, <4>3 DEF ReadsOn
    <3>2. CASE ~SafeToSubmit(r)
      <4>1. reader' = [reader EXCEPT ![r].pc = "remote", ![r].conv = saved[r]] /\ meta' = meta
        BY <1>7, <2>4, <3>2 DEF ReadLocal
      <4>2. reader'[r].conv = saved[r] /\ reader'[r].pc = "remote"
        BY <1>4, <4>1 DEF Readers
      <4> QED BY <1>5, <2>2, <2>4, <4>1, <4>2
    <3> QED BY <3>1, <3>2
  <2>5. meta[r] = "ok" => response[r] # NoTurn
    BY <1>5 DEF Proved
  <2> QED BY <2>3, <2>4, <2>5
<1>8. ASSUME ReadRemote(r) PROVE Good
  <2>1. UNCHANGED <<saved, response, meta>> /\ meta[r] # "ok"
    BY <1>5, <1>8 DEF ReadRemote, Reading, ReadsOn
  <2>2. CASE reader' = [reader EXCEPT ![r].pc = "conclude", ![r].verdict = "remote-pending"]
    <3>1. /\ reader'[r].conv = reader[r].conv /\ reader'[r].verdict = "remote-pending"
          /\ reader'[r].pc = "conclude"
      BY <1>4, <2>2 DEF Readers
    <3> QED BY <1>5, <2>1, <3>1
  <2>3. ASSUME NEW a \in Found(r), NEW v \in {"ok", "failed"},
               NEW l, l = IF a \in Matching(r) THEN "keep" ELSE "conclude",
               v = "ok" => \E ws \in request[r] : Validated(a, ws),
               reader' = [reader EXCEPT ![r] = [pc |-> l, conv |-> a, verdict |-> v]]
        PROVE  Good
    <3>1. reader'[r].conv = a /\ reader'[r].verdict = v /\ reader'[r].pc = l
      BY <1>4, <2>3
    <3>2. OfRun(a, r) /\ a # NoTurn
      <4>1. CASE reader[r].conv # NoTurn
        BY <1>5, <4>1 DEF Found
      <4>2. CASE reader[r].conv = NoTurn
        <5>1. a \in Matching(r)
          BY <4>2, FoundAttempts
        <5>2. a # NoTurn
          BY <5>1, Nobodies DEF Matching, Posted
        <5> QED BY <5>1, <5>2 DEF Matching, OfRun
      <4> QED BY <4>1, <4>2
    <3>3. v = "ok" => Proved(a) /\ request[r] = {turn[a].ws}
      BY <1>4, <2>3, <3>2 DEF Validated, Proved
    <3>4. v = "ok" => l = "keep"
      BY <2>3, <3>2, <3>3 DEF Matching, OfRun
    <3>5. l = "keep" \/ l = "conclude"
      BY <2>3
    <3> QED BY <1>5, <2>1, <3>1, <3>2, <3>3, <3>4, <3>5
  <2> QED BY <1>8, <2>2, <2>3 DEF ReadRemote
<1>9. ASSUME KeepRead(r) \/ WriteResponse(r) \/ WriteResult(r) PROVE Good
  <2>1. ASSUME KeepRead(r) PROVE Good
    <3>1. /\ reader[r].pc = "keep" /\ UNCHANGED <<response, meta>>
          /\ saved'[r] = reader[r].conv
          /\ reader'[r].pc = "respond" /\ reader'[r].conv = reader[r].conv
          /\ reader'[r].verdict = reader[r].verdict
      BY <1>4, <2>1 DEF KeepRead, Reading, Readers
    <3> QED BY <1>5, <3>1 DEF ReadsOn
  <2>2. ASSUME WriteResponse(r) PROVE Good
    <3>1. /\ reader[r].pc = "respond" /\ UNCHANGED <<saved, meta>>
          /\ response'[r] = reader[r].conv
          /\ reader'[r].pc = "conclude" /\ reader'[r].conv = reader[r].conv
          /\ reader'[r].verdict = reader[r].verdict
      BY <1>4, <2>2 DEF WriteResponse, Reading, Readers
    <3> QED BY <1>5, <3>1 DEF ReadsOn
  <2>3. ASSUME WriteResult(r) PROVE Good
    <3>1. /\ reader[r].pc = "conclude" /\ UNCHANGED <<saved, response>>
          /\ meta'[r] = reader[r].verdict /\ reader'[r].verdict = reader[r].verdict
          /\ reader'[r].pc = "over" /\ reader'[r].conv = NoTurn
      BY <1>4, <2>3 DEF WriteResult, Reading, Conclusion, IdleReader
    <3> QED BY <1>5, <1>6, <3>1 DEF ReadsOn
  <2> QED BY <1>9, <2>1, <2>2, <2>3
<1>10. Good
  BY <1>7, <1>8, <1>9 DEF ReaderStep
<1>11. /\ Of(r)' = Of(r) /\ Posted' = Posted
       /\ \A a \in Of(r) : a \in Attempts /\ Run(a) = r /\ RunOf(a) /\ WrittenOf(a)
  BY <1>1 DEF RoleOk, Of, Posted
<1>12. ASSUME NEW a \in Of(r) PROVE RunOf(a)' /\ WrittenOf(a)'
  <2>1. RunOf(a)'
    BY <1>1, <1>3, <1>11 DEF RunOf, Running, Proved
  <2>2. WrittenOf(a)'
    BY <1>1, <1>3, <1>11 DEF WrittenOf, Running, Final
  <2> QED BY <2>1, <2>2
<1>13. VerdictOf(r)'
  <2>1. \A t \in Sessions : ~Works(t, r)' /\ ~Waits(t, r)' /\ ~Holds(t, r)'
    BY <1>1, <1>3 DEF Works, Waits, Holds, Active
  <2>2. Reads(s, r)' /\ manifest'.status # "none"
    BY <1>1, <1>2, <1>3 DEF Reads
  <2>3. OfRun(saved[r], r)' /\ OfRun(reader[r].conv, r)'
    BY <1>10, <1>11 DEF OfRun
  <2>4. /\ meta'[r] = "ok" => Proved(response[r])'
        /\ reader'[r].pc \in ReadsOn \ {"local"} => meta'[r] # "ok"
        /\ reader'[r].verdict = "ok" =>
             /\ reader'[r].pc \in {"keep", "respond"} => Proved(reader[r].conv)'
             /\ reader'[r].pc = "conclude" => Proved(response[r])'
        /\ reader'[r].pc = "over" => (meta'[r] = "ok" <=> reader'[r].verdict = "ok")
    BY <1>1, <1>10 DEF Proved
  <2> HIDE DEF Good
  <2> QED BY <2>1, <2>2, <2>3, <2>4 DEF VerdictOf
<1> QED BY <1>11, <1>12, <1>13 DEF RoleOk

\* The attempt a session waits for is the newest.
LEMMA LastIsNewest ==
    ASSUME NEW r \in Runs, NEW a \in Of(r), RunOf(a), Newest(a)
    PROVE  LastTry(r) = a
<1>1. /\ a \in Attempts /\ Run(a) = r /\ a[2] \in 1..Tries /\ a = <<r, a[2]>>
  BY AttemptsOf DEF Of
<1>2. Tries \in Nat
  BY TurnAssumption
<1>3. ASSUME NEW n \in 1..Tries PROVE n \in Fresh(r) <=> n > a[2]
  <2>1. PICK b \in Of(r) : b = <<r, n>> /\ b[2] = n
    <3>1. <<r, n>> \in Attempts /\ Run(<<r, n>>) = r /\ <<r, n>>[2] = n
      BY DEF Attempts, Run
    <3>2. <<r, n>> \in Of(r)
      BY <3>1 DEF Of
    <3> QED BY <3>1, <3>2
  <2>2. n > a[2] => main[b].pc = "idle"
    BY <1>1, <2>1 DEF Newest
  <2>3. n < a[2] => main[b].pc # "idle"
    BY <1>1, <2>1 DEF RunOf, Newest
  <2>4. n = a[2] => main[b].pc # "idle"
    BY <1>1, <2>1 DEF Newest
  <2>5. n \in Fresh(r) <=> main[b].pc = "idle"
    BY <2>1 DEF Fresh, Doing
  <2> QED BY <1>1, <1>2, <2>2, <2>3, <2>4, <2>5
<1>4. CASE Fresh(r) = {}
  <2>1. ~(Tries > a[2])
    <3>1. Tries \in 1..Tries
      BY TurnAssumption
    <3> QED BY <1>3, <1>4, <3>1
  <2>2. a[2] = Tries
    BY <1>1, <1>2, <2>1
  <2> QED BY <1>1, <1>4, <2>2 DEF LastTry
<1>5. CASE Fresh(r) # {}
  <2>1. Fresh(r) \subseteq 1..Tries
    BY DEF Fresh
  <2>2. \E n \in Fresh(r) : \A m \in Fresh(r) : n <= m
    <3>1. Fresh(r) \subseteq Nat
      BY <2>1
    <3> QED BY <1>5, <3>1, LeastNumber
  <2>3. NextTry(r) \in Fresh(r) /\ \A m \in Fresh(r) : NextTry(r) <= m
    BY <2>2 DEF NextTry
  <2>4. NextTry(r) \in 1..Tries /\ NextTry(r) > a[2]
    BY <1>3, <2>1, <2>3
  <2>5. a[2] + 1 \in 1..Tries
    BY <1>1, <1>2, <2>4
  <2>6. a[2] + 1 \in Fresh(r)
    BY <1>1, <1>3, <2>5
  <2>7. NextTry(r) <= a[2] + 1
    BY <2>3, <2>6
  <2>8. NextTry(r) - 1 = a[2]
    BY <1>1, <1>2, <2>4, <2>7
  <2> QED BY <1>1, <1>5, <2>8 DEF LastTry, Last
<1> QED BY <1>4, <1>5

\* Where no session waits for an attempt of a role or takes one up, and its files
\* and its attempts stay as they are, only what the sessions say of it is new.
LEMMA RoleSaid ==
    ASSUME TypeOK, NEW r \in Runs, RoleOk(r),
           UNCHANGED <<request, journal, saved, response, meta, main, child, turn>>,
           manifest'.status = "none" => manifest.status = "none",
           \A a \in Of(r) : ~Running(a),
           \A s \in Sessions : ~Works(s, r)',
           reader'[r] = reader[r] \/ (reader'[r].pc = "local" /\ reader'[r].conv = NoTurn),
           reader'[r].pc \in ReadsOn => \E s \in Sessions : Reads(s, r)',
           \A s \in Sessions :
             /\ Reads(s, r)' /\ reader'[r].pc = "over" => (meta[r] = "ok" <=> reader'[r].verdict = "ok")
             /\ Waits(s, r)' => meta[r] # "ok"
             /\ Holds(s, r)' => /\ r \notin session'[s].todo \cup session'[s].role
                                /\ session'[s].results[r] = response[r] /\ meta[r] = "ok"
    PROVE  RoleOk(r)'
<1>1. /\ Of(r)' = Of(r) /\ Posted' = Posted /\ VerdictOf(r)
      /\ \A a \in Of(r) : a \in Attempts /\ Run(a) = r /\ RunOf(a) /\ WrittenOf(a)
  BY DEF RoleOk, Of, Posted
<1>2. ASSUME NEW a \in Of(r) PROVE RunOf(a)' /\ WrittenOf(a)'
  <2>1. RunOf(a)'
    BY <1>1 DEF RunOf, Running, Proved
  <2>2. WrittenOf(a)'
    BY <1>1 DEF WrittenOf, Running, Final
  <2> QED BY <2>1, <2>2
<1>3. VerdictOf(r)'
  <2>1. OfRun(saved[r], r)' /\ OfRun(reader[r].conv, r)'
    BY <1>1 DEF VerdictOf, OfRun
  <2>2. meta[r] = "ok" => Proved(response[r])' /\ manifest'.status # "none"
    BY <1>1 DEF VerdictOf, Proved
  <2>3. /\ reader'[r].pc \in ReadsOn \ {"local"} => meta'[r] # "ok"
        /\ reader'[r].verdict = "ok" =>
             /\ reader'[r].pc \in {"keep", "respond"} => Proved(reader[r].conv)'
             /\ reader'[r].pc = "conclude" => Proved(response[r])'
    <3>1. CASE reader'[r] = reader[r]
      BY <1>1, <3>1 DEF VerdictOf, Proved
    <3>2. CASE reader'[r].pc = "local"
      BY <3>2
    <3> QED BY <3>1, <3>2
  <2> QED BY <2>1, <2>2, <2>3 DEF VerdictOf
<1> QED BY <1>1, <1>2, <1>3 DEF RoleOk

\* A role that is settled with a session.
LEMMA RoleSettled ==
    ASSUME Always, Roles, NEW s \in Sessions, NEW r \in Runs, NEW result \in Attempts \cup {NoTurn},
           NEW status, NEW label \in {"roles", "resume"}, Settle(s, r, result, status, label),
           \/ session[s].pc \in {"roles", "resume"} /\ label = session[s].pc
           \/ session[s].pc \in {"launched", "recover"} /\ session[s].role = {r} /\ label = "resume",
           UNCHANGED vars, \A a \in Of(r) : ~Running(a),
           reader[r].pc \notin ReadsOn,
           result # NoTurn => result = response[r] /\ meta[r] = "ok"
    PROVE  Roles'
<1>1. /\ Active(s) /\ label \in SessionLabels /\ TypeOK /\ SessionOk(s)
      /\ \A t \in Sessions \ {s} : ~Active(t)
  <2>1. Active(s)
    BY DEF Active
  <2> QED BY <2>1, OthersRest DEF Always, SessionLabels, Locked
<1>2. /\ \A t \in Sessions \ {s} : session'[t] = session[t]
      /\ session'[s].pc = label
      /\ session'[s].todo = session[s].todo \ {r}
      /\ session'[s].role = session[s].role \ {r}
      /\ session'[s].results[r] = result
      /\ \A q \in Runs \ {r} : session'[s].results[q] = session[s].results[q]
      /\ manifest'.status = manifest.status
  BY <1>1, SettleMoves DEF Always
<1>3. UNCHANGED <<request, journal, saved, response, meta, main, child, turn, reader>>
  BY DEF vars, turns, directory
<1>4. ASSUME NEW q \in Runs, q # r PROVE RoleOk(q)'
  <2>1. Rests(q) /\ AnswersLast
    BY <1>3 DEF Rests, AnswersLast, Posted
  <2>2. ASSUME NEW t \in Sessions
        PROVE  /\ (Works(t, q)' <=> Works(t, q)) /\ (Reads(t, q)' <=> Reads(t, q))
               /\ Waits(t, q)' => Waits(t, q)
               /\ Holds(t, q)' => /\ Holds(t, q) /\ session'[t].results[q] = session[t].results[q]
                                  /\ session'[t].todo \cup session'[t].role
                                       \subseteq session[t].todo \cup session[t].role
    <3>1. CASE t = s
      BY <1>1, <1>2, <1>4, <3>1 DEF Works, Reads, Waits, Holds, Active, SessionOk
    <3>2. CASE t # s
      BY <1>2, <3>2 DEF Works, Reads, Waits, Holds, Active
    <3> QED BY <3>1, <3>2
  <2>3. Leaves(q)
    BY <1>2, <2>2 DEF Leaves
  <2> QED BY <1>1, <2>1, <2>3, RoleRests DEF Roles
<1>5. RoleOk(r)'
  <2>1. ASSUME NEW t \in Sessions
        PROVE  /\ ~Works(t, r)' /\ ~Reads(t, r)' /\ ~Waits(t, r)'
               /\ Holds(t, r)' => /\ r \notin session'[t].todo \cup session'[t].role
                                  /\ session'[t].results[r] = response[r] /\ meta[r] = "ok"
    <3>1. CASE t = s
      BY <1>1, <1>2, <3>1 DEF Works, Reads, Waits, Holds, Active
    <3>2. CASE t # s
      BY <1>1, <1>2, <3>2 DEF Works, Reads, Waits, Holds, Active
    <3> QED BY <3>1, <3>2
  <2>2. RoleOk(r)
    BY DEF Roles
  <2> QED BY <1>1, <1>2, <1>3, <2>1, <2>2, RoleSaid
<1> QED BY <1>4, <1>5 DEF Roles

\* An attempt that ended, a verified result that is kept, and a resume that is
\* concluded settle a role.
LEMMA RolesSettled ==
    ASSUME Always, Roles, NEW s \in Sessions, NEW r \in Runs,
           RoleEnds(s, r) \/ KeepRole(s, r)
             \/ (Recovered(s, r) /\ session'[s].pc # "launch")
    PROVE  Roles'
<1> USE DEF Always
<1>1. /\ RoleOk(r) /\ VerdictOf(r) /\ response[r] \in Attempts \cup {NoTurn} /\ SessionOk(s)
      /\ \A a \in Of(r) : RunOf(a)
  BY DEF Roles, RoleOk, TypeOK, Locked
<1>2. CASE RoleEnds(s, r)
  <2>1. /\ UNCHANGED vars /\ session[s].pc \in {"roles", "launched"} /\ r \in session[s].role
        /\ Ended(LastTry(r))
    BY <1>2, RoleEndsMoves
  <2>2. Works(s, r)
    BY <2>1 DEF Works
  <2>3. PICK a \in Of(r) : Newest(a) /\ (main[a].pc = "done" => meta[r] = "ok")
    BY <1>1, <2>2 DEF VerdictOf
  <2>4. LastTry(r) = a
    BY <1>1, <2>3, LastIsNewest
  <2>5. \A b \in Of(r) : ~Running(b)
    <3>1. ~Running(a)
      BY <2>1, <2>4 DEF Ended, Running
    <3>2. ASSUME NEW b \in Of(r), Running(b) PROVE FALSE
      <4>1. Newest(b)
        BY <1>1, <3>2, OneRunning
      <4>2. a = b
        BY <2>3, <4>1, OneNewest
      <4> QED BY <3>1, <3>2, <4>2
    <3> QED BY <3>2
  <2>6. reader[r].pc \notin ReadsOn
    BY <1>1, <2>2, WorkedOn
  <2>7. PICK result \in Attempts \cup {NoTurn}, status \in {"ok", "failed"},
             label \in {"roles", "resume"} :
          /\ Settle(s, r, result, status, label)
          /\ result # NoTurn => result = response[r] /\ main[a].pc = "done"
          /\ label = IF session[s].pc = "launched" THEN "resume" ELSE "roles"
    <3> DEFINE ok == main[a].pc = "done"
    <3>1. Settle(s, r, IF ok THEN response[r] ELSE NoTurn, IF ok THEN "ok" ELSE "failed",
                 IF session[s].pc = "launched" THEN "resume" ELSE "roles")
      BY <1>2, <2>4, RoleEndsMoves
    <3>2. PICK label \in {"roles", "resume"} :
            label = IF session[s].pc = "launched" THEN "resume" ELSE "roles"
      OBVIOUS
    <3>3. CASE ok
      <4>1. Settle(s, r, response[r], "ok", label)
        BY <3>1, <3>2, <3>3
      <4> QED BY <1>1, <3>2, <3>3, <4>1
    <3>4. CASE ~ok
      <4>1. Settle(s, r, NoTurn, "failed", label) /\ NoTurn \in Attempts \cup {NoTurn}
        BY <3>1, <3>2, <3>4
      <4> QED BY <3>2, <4>1
    <3> QED BY <3>3, <3>4
  <2>8. \/ session[s].pc \in {"roles", "resume"} /\ label = session[s].pc
        \/ session[s].pc \in {"launched", "recover"} /\ session[s].role = {r} /\ label = "resume"
    BY <1>1, <2>1, <2>7 DEF SessionOk
  <2>9. result # NoTurn => result = response[r] /\ meta[r] = "ok"
    BY <2>3, <2>7
  <2> QED BY <2>1, <2>5, <2>6, <2>7, <2>8, <2>9, RoleSettled
<1>3. CASE KeepRole(s, r)
  <2>1. /\ UNCHANGED vars /\ session[s].pc = "resume" /\ Settle(s, r, response[r], "ok", "resume")
        /\ meta[r] = "ok"
    BY <1>3 DEF KeepRole, Now
  <2>2. /\ Active(s) /\ \A t \in Sessions \ {s} : ~Active(t)
    <3>1. Active(s)
      BY <2>1 DEF Active
    <3> QED BY <3>1, OthersRest
  <2>3. \A t \in Sessions : ~Works(t, r) /\ ~Reads(t, r)
    BY <2>1, <2>2 DEF Works, Reads, Active
  <2>4. \A a \in Of(r) : ~Running(a)
    BY <1>1, <2>3, OneRunning
  <2>5. reader[r].pc \notin ReadsOn
    BY <1>1, <2>3 DEF VerdictOf
  <2>6. PICK result \in Attempts \cup {NoTurn} : result = response[r]
    BY <1>1
  <2>7. PICK label \in {"roles", "resume"} : label = "resume"
    OBVIOUS
  <2>8. Settle(s, r, result, "ok", label) /\ session[s].pc \in {"roles", "resume"} /\ label = session[s].pc
    BY <2>1, <2>6, <2>7
  <2>9. result # NoTurn => result = response[r] /\ meta[r] = "ok"
    BY <2>1, <2>6
  <2> QED BY <2>1, <2>4, <2>5, <2>8, <2>9, RoleSettled
<1>4. CASE Recovered(s, r) /\ session'[s].pc # "launch"
  <2>1. /\ UNCHANGED vars /\ session[s].pc = "recover" /\ session[s].role = {r}
        /\ reader[r].pc = "over"
    BY <1>4, RecoveredMoves
  <2>2. Settle(s, r, IF reader[r].verdict = "ok" THEN response[r] ELSE NoTurn,
               reader[r].verdict, "resume")
    BY <1>4, RecoveredMoves
  <2>3. Reads(s, r)
    BY <2>1 DEF Reads
  <2>4. \A a \in Of(r) : ~Running(a)
    BY <1>1, <2>3, ReadAlone
  <2>5. PICK result \in Attempts \cup {NoTurn} :
          /\ Settle(s, r, result, reader[r].verdict, "resume")
          /\ result # NoTurn => result = response[r] /\ reader[r].verdict = "ok"
    BY <1>1, <2>2
  <2>6. result # NoTurn => result = response[r] /\ meta[r] = "ok"
    BY <1>1, <2>1, <2>3, <2>5 DEF VerdictOf
  <2>7. session[s].pc \in {"launched", "recover"} /\ session[s].role = {r}
    BY <2>1
  <2>8. PICK label \in {"roles", "resume"} : label = "resume"
    OBVIOUS
  <2>9. Settle(s, r, result, reader[r].verdict, label)
    BY <2>5, <2>8
  <2>10. reader[r].pc \notin ReadsOn
    BY <2>1 DEF ReadsOn
  <2> QED BY <2>1, <2>4, <2>6, <2>7, <2>8, <2>9, <2>10, RoleSettled
<1> QED BY <1>2, <1>3, <1>4

\* A session takes up the directory of a role, or goes on to launch it.
LEMMA RolesTakenUp ==
    ASSUME Always, Roles, NEW s \in Sessions, NEW r \in Runs,
           RecoverRole(s, r) \/ (Recovered(s, r) /\ session'[s].pc = "launch")
    PROVE  Roles'
<1> USE DEF Always
<1>1. /\ RoleOk(r) /\ VerdictOf(r) /\ SessionOk(s) /\ Of(r)' = Of(r)
  BY DEF Roles, RoleOk, Locked, Of
<1>2. /\ UNCHANGED <<request, journal, saved, response, meta, main, child, turn>>
      /\ \A q \in Runs \ {r} : reader'[q] = reader[q]
      /\ session[s].pc \in {"resume", "recover"} /\ session'[s].role = {r}
      /\ session[s].pc = "resume" => r \in session[s].todo
      /\ session[s].pc = "recover" => session[s].role = {r} /\ reader[r].pc = "over"
      /\ session'[s].todo = session[s].todo \ {r} /\ session'[s].results = session[s].results
      /\ \A t \in Sessions \ {s} : session'[t] = session[t]
      /\ manifest'.status = manifest.status
      /\ \/ /\ session'[s].pc = "recover" /\ session[s].pc = "resume"
            /\ reader'[r].pc = "local" /\ reader'[r].conv = NoTurn
         \/ /\ session'[s].pc = "launch" /\ session[s].pc = "recover" /\ reader' = reader
            /\ reader[r].verdict # "ok"
  <2>1. CASE RecoverRole(s, r)
    BY <2>1, RecoverMoves DEF directory
  <2>2. CASE Recovered(s, r) /\ session'[s].pc = "launch"
    <3>1. /\ UNCHANGED vars /\ session[s].pc = "recover" /\ session[s].role = {r}
          /\ reader[r].pc = "over"
      BY <2>2, RecoveredMoves
    <3>2. ~Settle(s, r, IF reader[r].verdict = "ok" THEN response[r] ELSE NoTurn,
                  reader[r].verdict, "resume")
      <4>1. ASSUME NEW result \in Attempts \cup {NoTurn}, Settle(s, r, result, reader[r].verdict, "resume")
            PROVE  FALSE
        <5>1. Active(s) /\ "resume" \in SessionLabels
          BY <3>1 DEF Active, SessionLabels
        <5>2. session'[s].pc = "resume"
          BY <4>1, <5>1, SettleMoves
        <5> QED BY <2>2, <5>2
      <4>2. response[r] \in Attempts \cup {NoTurn}
        BY DEF TypeOK
      <4> QED BY <4>1, <4>2
    <3>3. session[s].todo \ {r} = session[s].todo
      BY <1>1, <3>1 DEF SessionOk
    <3> QED BY <2>2, <3>1, <3>2, <3>3, RecoveredMoves DEF vars, turns, directory
  <2> QED BY <2>1, <2>2
<1>3. Active(s) /\ \A t \in Sessions \ {s} : ~Active(t)
  <2>1. Active(s)
    BY <1>2 DEF Active
  <2> QED BY <2>1, OthersRest
<1>4. ASSUME NEW t \in Sessions PROVE ~Works(t, r) /\ ~Works(t, r)'
  BY <1>2, <1>3 DEF Works, Active
<1>5. \A a \in Of(r) : ~Running(a)
  BY <1>1, <1>4, OneRunning
<1>6. ASSUME NEW q \in Runs, q # r PROVE RoleOk(q)'
  <2>1. Rests(q) /\ AnswersLast
    BY <1>2, <1>6 DEF Rests, AnswersLast, Posted
  <2>2. ASSUME NEW t \in Sessions
        PROVE  /\ (Works(t, q)' <=> Works(t, q)) /\ (Reads(t, q)' <=> Reads(t, q))
               /\ Waits(t, q)' => Waits(t, q)
               /\ Holds(t, q)' => /\ Holds(t, q) /\ session'[t].results[q] = session[t].results[q]
                                  /\ session'[t].todo \cup session'[t].role
                                       \subseteq session[t].todo \cup session[t].role
    <3>1. CASE t = s
      <4>1. (Works(t, q)' <=> Works(t, q)) /\ (Reads(t, q)' <=> Reads(t, q)) /\ (Waits(t, q)' => Waits(t, q))
        BY <1>1, <1>2, <1>6, <3>1 DEF Works, Reads, Waits, SessionOk
      <4>2. session'[t].todo \cup session'[t].role \subseteq session[t].todo \cup session[t].role
        BY <1>2, <3>1
      <4>3. Holds(t, q)' => Holds(t, q) /\ session'[t].results[q] = session[t].results[q]
        BY <1>2, <1>3, <3>1 DEF Holds
      <4> QED BY <4>1, <4>2, <4>3
    <3>2. CASE t # s
      BY <1>2, <3>2 DEF Works, Reads, Waits, Holds, Active
    <3> QED BY <3>1, <3>2
  <2>3. Leaves(q)
    BY <1>2, <2>2 DEF Leaves
  <2> QED BY <2>1, <2>3, RoleRests DEF Roles
<1>7. RoleOk(r)'
  <2>1. \A t \in Sessions : ~Holds(t, r)'
    <3>1. r \in session[s].todo \cup session[s].role
      BY <1>2
    <3>2. ~Holds(s, r)
      BY <1>1, <3>1 DEF VerdictOf
    <3> QED BY <1>2, <1>3, <3>2 DEF Holds, Active
  <2>2. ASSUME NEW t \in Sessions
        PROVE  /\ Reads(t, r)' /\ reader'[r].pc = "over" => (meta[r] = "ok" <=> reader'[r].verdict = "ok")
               /\ Waits(t, r)' => meta[r] # "ok"
    <3>1. CASE t = s
      <4>1. Reads(s, r) /\ reader[r].pc = "over" => (meta[r] = "ok" <=> reader[r].verdict = "ok")
        BY <1>1 DEF VerdictOf
      <4>2. session[s].pc = "recover" => Reads(s, r) /\ reader[r].pc = "over"
        BY <1>2 DEF Reads
      <4> QED BY <1>2, <3>1, <4>1, <4>2 DEF Reads, Waits
    <3>2. CASE t # s
      BY <1>2, <1>3, <3>2 DEF Reads, Waits, Active
    <3> QED BY <3>1, <3>2
  <2>3. reader'[r].pc \in ReadsOn => \E t \in Sessions : Reads(t, r)'
    BY <1>2 DEF Reads, ReadsOn
  <2>4. reader'[r] = reader[r] \/ (reader'[r].pc = "local" /\ reader'[r].conv = NoTurn)
    BY <1>2
  <2> QED BY <1>1, <1>2, <1>4, <1>5, <2>1, <2>2, <2>3, <2>4, RoleSaid
<1> QED BY <1>6, <1>7 DEF Roles

\* A role is launched where none of its attempts runs and no answer is kept.
LEMMA RolesLaunched ==
    ASSUME Always, Roles, NEW s \in Sessions, NEW r \in Runs, LaunchRole(s, r) \/ RelaunchRole(s, r)
    PROVE  Roles'
<1> USE DEF Always
<1>1. /\ RoleOk(r) /\ VerdictOf(r) /\ SessionOk(s) /\ Of(r)' = Of(r)
      /\ \A a \in Of(r) : a \in Attempts /\ Run(a) = r /\ RunOf(a) /\ WrittenOf(a) /\ a[2] \in Nat
  BY AttemptsOf, TurnAssumption DEF Roles, RoleOk, Locked, Of
<1>2. /\ Launches(r) /\ \A t \in Sessions \ {s} : session'[t] = session[t]
      /\ session[s].pc \in {"roles", "launch", "resume"} /\ session'[s].pc \in {"roles", "launched"}
      /\ session[s].pc = "roles" <=> session'[s].pc = "roles"
      /\ session[s].pc \in {"roles", "resume"} => r \in session[s].todo
      /\ session[s].pc = "launch" => session[s].role = {r}
      /\ session[s].pc = "resume" => meta[r] # "ok"
      /\ session'[s].todo = session[s].todo \ {r}
      /\ session[s].pc = "roles" => session'[s].role = session[s].role \cup {r}
      /\ session[s].pc # "roles" => session'[s].role = {r}
      /\ session'[s].results = session[s].results /\ UNCHANGED manifest
  <2>1. CASE LaunchRole(s, r)
    BY <2>1, LaunchRoleMoves
  <2>2. CASE RelaunchRole(s, r)
    BY <2>2, RelaunchMoves
  <2> QED BY <2>1, <2>2
<1>3. Active(s) /\ \A t \in Sessions \ {s} : ~Active(t)
  <2>1. Active(s)
    BY <1>2 DEF Active
  <2> QED BY <2>1, OthersRest
<1>4. \A t \in Sessions : ~Works(t, r) /\ ~Reads(t, r) /\ ~Holds(t, r)
  <2>1. ~Works(s, r) /\ ~Reads(s, r)
    BY <1>1, <1>2 DEF Works, Reads, SessionOk
  <2>2. ~Holds(s, r)
    BY <1>1, <1>2 DEF VerdictOf
  <2> QED BY <1>3, <2>1, <2>2 DEF Works, Reads, Holds, Active
<1>5. meta[r] # "ok"
  <2>1. session[s].pc # "resume" => Waits(s, r)
    BY <1>2 DEF Waits
  <2> QED BY <1>1, <1>2, <2>1 DEF VerdictOf
<1>6. \A a \in Of(r) : ~Running(a)
  BY <1>1, <1>4, OneRunning
<1>7. UNCHANGED <<request, journal, saved, response, meta, child, turn, reader>>
  BY <1>2, LaunchMoves DEF directory
<1>8. PICK a \in Of(r) :
        /\ main[a].pc = "idle" /\ \A b \in Of(r) : b[2] < a[2] => main[b].pc # "idle"
        /\ main'[a].pc = "check" /\ \A b \in Attempts \ {a} : main'[b] = main[b]
  <2>1. PICK n \in 1..Tries :
          /\ main[<<r, n>>].pc = "idle" /\ \A m \in 1..Tries : m < n => main[<<r, m>>].pc # "idle"
          /\ main'[<<r, n>>].pc = "check" /\ \A b \in Attempts \ {<<r, n>>} : main'[b] = main[b]
    BY <1>2, LaunchMoves
  <2>2. <<r, n>> \in Of(r) /\ <<r, n>>[2] = n
    <3>1. <<r, n>> \in Attempts /\ Run(<<r, n>>) = r /\ <<r, n>>[2] = n
      BY DEF Attempts, Run
    <3> QED BY <3>1 DEF Of
  <2>3. PICK a \in Of(r) : a = <<r, n>> /\ a[2] = n
    BY <2>2
  <2>4. ASSUME NEW b \in Of(r), b[2] < a[2] PROVE main[b].pc # "idle"
    <3>1. b = <<r, b[2]>> /\ b[2] \in 1..Tries
      BY <1>1, AttemptsOf
    <3>2. main[<<r, b[2]>>].pc # "idle"
      BY <2>1, <2>3, <2>4, <3>1
    <3> QED BY <3>1, <3>2
  <2> QED BY <2>1, <2>3, <2>4
<1>9. ASSUME NEW q \in Runs, q # r PROVE RoleOk(q)'
  <2>1. Rests(q) /\ AnswersLast
    BY <1>1, <1>7, <1>8, <1>9 DEF Rests, AnswersLast, Posted, Of
  <2>2. ASSUME NEW t \in Sessions
        PROVE  /\ (Works(t, q)' <=> Works(t, q)) /\ (Reads(t, q)' <=> Reads(t, q))
               /\ Waits(t, q)' => Waits(t, q)
               /\ Holds(t, q)' => /\ Holds(t, q) /\ session'[t].results[q] = session[t].results[q]
                                  /\ session'[t].todo \cup session'[t].role
                                       \subseteq session[t].todo \cup session[t].role
    <3>1. CASE t = s
      <4>1. (Works(t, q)' <=> Works(t, q)) /\ (Reads(t, q)' <=> Reads(t, q)) /\ (Waits(t, q)' => Waits(t, q))
        BY <1>1, <1>2, <1>9, <3>1 DEF Works, Reads, Waits, SessionOk
      <4>2. session'[t].todo \cup session'[t].role \subseteq session[t].todo \cup session[t].role
        BY <1>2, <3>1
      <4>3. Holds(t, q)' => Holds(t, q) /\ session'[t].results[q] = session[t].results[q]
        BY <1>2, <1>3, <3>1 DEF Holds
      <4> QED BY <4>1, <4>2, <4>3
    <3>2. CASE t # s
      BY <1>2, <3>2 DEF Works, Reads, Waits, Holds, Active
    <3> QED BY <3>1, <3>2
  <2>3. Leaves(q)
    BY <1>2, <2>2 DEF Leaves
  <2> QED BY <2>1, <2>3, RoleRests DEF Roles
<1>10. Newest(a)'
  <2>1. ASSUME NEW b \in Of(r), b[2] > a[2] PROVE main'[b].pc = "idle"
    <3>1. main[b].pc = "idle"
      <4>1. main[b].pc # "idle" => main[a].pc # "idle"
        BY <1>1, <2>1 DEF RunOf
      <4> QED BY <1>8, <4>1
    <3>2. b # a
      BY <1>1, <2>1
    <3> QED BY <1>1, <1>8, <3>1, <3>2
  <2>2. Run(a) = r
    BY <1>1
  <2> QED BY <1>1, <1>8, <2>1, <2>2 DEF Newest
<1>11. Works(s, r)'
  BY <1>2 DEF Works
<1>12. ASSUME NEW b \in Of(r) PROVE RunOf(b)' /\ WrittenOf(b)'
  <2>1. RunOf(b) /\ WrittenOf(b) /\ Run(b) = r /\ b \in Attempts
    BY <1>1
  <2>2. b # a => main'[b] = main[b] /\ ~Running(b)'
    BY <1>1, <1>6, <1>8 DEF Running
  <2>3. main'[b].pc # "idle" => \A c \in Of(r) : c[2] < b[2] => main'[c].pc # "idle"
    <3>1. \A c \in Of(r) : main[c].pc # "idle" => main'[c].pc # "idle"
      BY <1>1, <1>8
    <3>2. main'[b].pc # "idle" => \A c \in Of(r) : c[2] < b[2] => main[c].pc # "idle"
      BY <1>8, <2>1, <2>2 DEF RunOf
    <3> QED BY <3>1, <3>2
  <2>4. Running(b)' => Newest(b)' /\ meta'[r] # "ok" /\ \E t \in Sessions : Works(t, r)'
    BY <1>5, <1>7, <1>10, <1>11, <2>2
  <2>5. /\ main'[b].pc \in Early => child'[b] = "none"
        /\ main'[b].pc = "wait" => child'[b] # "none"
        /\ child'[b] \in Alive => main'[b].pc = "wait"
        /\ main'[b].pc \in {"mark", "passed", "accepted"} => Proved(main[b].conv)'
        /\ main'[b].pc = "accepted" => Proved(response[r])'
    <3>1. CASE b = a
      <4>1. child[a] = "none"
        BY <1>8, <2>1, <3>1 DEF RunOf, Early
      <4> QED BY <1>7, <1>8, <3>1, <4>1 DEF Alive
    <3>2. CASE b # a
      BY <1>7, <2>1, <2>2, <3>2 DEF RunOf, Proved
    <3> QED BY <3>1, <3>2
  <2>6. RunOf(b)'
    BY <1>1, <2>1, <2>3, <2>4, <2>5 DEF RunOf
  <2>7. Running(b)' /\ main'[b].pc # "check" => FALSE
    BY <1>8, <2>2
  <2>8. WrittenOf(b)'
    BY <1>1, <1>7, <2>1, <2>7 DEF WrittenOf, Final
  <2> QED BY <2>6, <2>8
<1>13. VerdictOf(r)'
  <2>1. ASSUME NEW t \in Sessions PROVE ~Reads(t, r)' /\ ~Waits(t, r)' /\ ~Holds(t, r)'
    <3>1. CASE t = s
      BY <1>2, <1>3, <1>4, <3>1 DEF Reads, Waits, Holds
    <3>2. CASE t # s
      BY <1>2, <1>3, <3>2 DEF Reads, Waits, Holds, Active
    <3> QED BY <3>1, <3>2
  <2>2. reader'[r].pc \notin ReadsOn /\ meta'[r] # "ok"
    BY <1>1, <1>4, <1>5, <1>7 DEF VerdictOf
  <2>3. OfRun(saved[r], r)' /\ OfRun(reader[r].conv, r)'
    BY <1>1, <1>7 DEF VerdictOf, OfRun, Posted
  <2>4. Newest(a)' /\ main'[a].pc # "done"
    BY <1>8, <1>10
  <2> QED BY <1>1, <2>1, <2>2, <2>3, <2>4 DEF VerdictOf, ReadsOn
<1>14. RoleOk(r)'
  BY <1>1, <1>12, <1>13 DEF RoleOk
<1> QED BY <1>9, <1>14 DEF Roles

\* A session that goes on with nothing in hand leaves every role.
LEMMA RolesLeft ==
    ASSUME Always, Roles, NEW s \in Sessions, UNCHANGED <<directory, main, child, turn, reader>>,
           \A t \in Sessions \ {s} : session'[t] = session[t],
           session[s].role = {}, session'[s].role = {},
           manifest'.status = "none" => manifest.status = "none",
           session'[s].pc = "roles" /\ session[s].pc # "roles" => manifest.status = "none",
           session'[s].pc = "roles" => session[s].pc \in {"idle", "roles"},
           session[s].pc = "roles" /\ session'[s].pc = "roles" =>
             session'[s].todo \subseteq session[s].todo,
           Active(s)' => \/ \A r \in Runs : session'[s].results[r] = NoTurn
                         \/ /\ Active(s) /\ session'[s].results = session[s].results
                            /\ session'[s].todo \subseteq session[s].todo
    PROVE  Roles'
<1>1. ASSUME NEW r \in Runs PROVE Rests(r) /\ AnswersLast
  BY DEF Rests, AnswersLast, Posted, Of, directory
<1>2. ASSUME NEW r \in Runs PROVE Leaves(r)
  <2>1. manifest.status = "none" => meta[r] # "ok"
    BY DEF Roles, RoleOk, VerdictOf
  <2>2. ASSUME NEW t \in Sessions
        PROVE  /\ (Works(t, r)' <=> Works(t, r)) /\ (Reads(t, r)' <=> Reads(t, r))
               /\ Waits(t, r)' => Waits(t, r) \/ meta[r] # "ok"
               /\ Holds(t, r)' => /\ Holds(t, r) /\ session'[t].results[r] = session[t].results[r]
                                  /\ session'[t].todo \cup session'[t].role
                                       \subseteq session[t].todo \cup session[t].role
    <3>1. CASE t = s
      <4>1. (Works(t, r)' <=> Works(t, r)) /\ (Reads(t, r)' <=> Reads(t, r))
        BY <3>1 DEF Works, Reads
      <4>2. Waits(t, r)' => Waits(t, r) \/ meta[r] # "ok"
        BY <2>1, <3>1 DEF Waits
      <4>3. Holds(t, r)' => /\ Holds(t, r) /\ session'[t].results[r] = session[t].results[r]
                            /\ session'[t].todo \cup session'[t].role
                                 \subseteq session[t].todo \cup session[t].role
        BY <3>1 DEF Holds
      <4> QED BY <4>1, <4>2, <4>3
    <3>2. CASE t # s
      BY <3>2 DEF Works, Reads, Waits, Holds, Active
    <3> QED BY <3>1, <3>2
  <2> QED BY <2>2 DEF Leaves
<1> QED BY <1>1, <1>2, RoleRests DEF Roles, Always

\* So does a session that begins, that is about the synthesis or publishes ...
LEMMA RolesGoOn ==
    ASSUME Always, Roles, NEW s \in Sessions,
           StartSession(s) \/ NoSynthesis(s) \/ Synthesize(s) \/ FetchSynthesis(s)
             \/ SynthEnds(s) \/ Finish(s) \/ SynthStep(s) \/ SynthTimesOut(s)
    PROVE  Roles'
<1> USE DEF Always
<1>1. SessionOk(s)
  BY DEF Locked
<1>2. ASSUME UNCHANGED vars PROVE UNCHANGED <<directory, main, child, turn, reader>>
  BY <1>2 DEF vars, turns
<1>3. CASE StartSession(s)
  <2>1. session[s].role = {}
    BY <1>1, <1>3, StartMoves DEF SessionOk
  <2>2. \A r \in Runs : session'[s].results[r] = NoTurn
    BY <1>3, StartMoves
  <2>3. /\ UNCHANGED vars /\ session[s].pc = "idle" /\ session'[s].role = {}
        /\ \A t \in Sessions \ {s} : session'[t] = session[t]
        /\ manifest'.status = "none" => manifest.status = "none"
        /\ session'[s].pc = "roles" => manifest.status = "none"
    BY <1>3, StartMoves
  <2> QED BY <1>2, <2>1, <2>2, <2>3, RolesLeft
<1>4. CASE NoSynthesis(s) \/ Finish(s)
  <2>1. /\ Active(s) /\ UNCHANGED <<vars, synth, checks, lone>> /\ session[s].role = {}
    BY <1>1, <1>4 DEF NoSynthesis, Finish, RolesDone, Now, Active, SessionOk
  <2>2. \E status \in {"ok", "failed"}, key \in Reports : Publish(s, status, key)
    <3>1. synth[s].key \in Reports /\ {} \in Reports
      BY DEF ConclaveTypeOK, SynthRecs, Reports
    <3>2. NoSynthesis(s) => Publish(s, "failed", {})
      BY DEF NoSynthesis
    <3>3. Finish(s) => \E status \in {"ok", "failed"} : Publish(s, status, synth[s].key)
      BY DEF Finish
    <3> QED BY <1>4, <3>1, <3>2, <3>3
  <2>3. /\ session'[s].pc = "over" /\ session'[s].role = {} /\ manifest'.status # "none"
        /\ \A t \in Sessions \ {s} : session'[t] = session[t]
    BY <2>1, <2>2, PublishMoves
  <2> QED BY <1>2, <2>1, <2>3, RolesLeft DEF Active
<1>5. CASE Synthesize(s) \/ FetchSynthesis(s) \/ SynthEnds(s) \/ SynthStep(s) \/ SynthTimesOut(s)
  <2>1. /\ UNCHANGED <<vars, manifest>> /\ (session[s].role = {} \/ session' = session)
        /\ \A t \in Sessions \ {s} : session'[t] = session[t]
        /\ session' # session =>
             /\ Active(s) /\ session'[s].pc # "roles"
             /\ session'[s].role = session[s].role /\ session'[s].todo = session[s].todo
             /\ session'[s].results = session[s].results
    <3>1. CASE Synthesize(s)
      BY <3>1, SynthesizeMoves DEF Active
    <3>2. CASE FetchSynthesis(s)
      <4>1. session[s].pc = "fetch"
        BY <3>2 DEF FetchSynthesis, Now
      <4> QED BY <1>1, <3>2, <4>1, FetchMoves DEF Placed, SessionOk, Active
    <3>3. CASE SynthEnds(s)
      <4>1. session[s].pc = "synth"
        BY <3>3 DEF SynthEnds, Now
      <4> QED BY <1>1, <3>3, <4>1, SynthEndsMoves DEF Placed, SessionOk, Active
    <3>4. CASE SynthStep(s)
      BY <3>4, SynthStepMoves
    <3>5. CASE SynthTimesOut(s)
      BY <1>1, <3>5, SynthTimesOutMoves DEF SessionOk, Active
    <3> QED BY <1>5, <3>1, <3>2, <3>3, <3>4, <3>5
  <2>2. CASE session' = session
    <3>1. ASSUME NEW r \in Runs PROVE RoleOk(r)'
      <4>1. Rests(r) /\ AnswersLast
        BY <2>1 DEF Rests, AnswersLast, Posted, Of, vars, turns, directory
      <4>2. Leaves(r)
        BY <2>1, <2>2 DEF Leaves, Works, Reads, Waits, Holds, Active
      <4> QED BY <4>1, <4>2, RoleRests DEF Roles
    <3> QED BY <3>1 DEF Roles
  <2>3. CASE session' # session
    BY <1>2, <2>1, <2>3, RolesLeft
  <2> QED BY <2>2, <2>3
<1> QED BY <1>3, <1>4, <1>5

\* ... and one that is killed leaves them with nothing that runs, unless it runs
\* on alone.
LEMMA RolesKilled ==
    ASSUME Always, Roles, NEW s \in Sessions, KillSession(s), ~lone'
    PROVE  Roles'
<1> USE DEF Always
<1>1. /\ UNCHANGED <<directory, turn, manifest>> /\ Active(s)
      /\ \A t \in Sessions \ {s} : session'[t] = session[t]
      /\ session'[s].pc = "over" /\ session'[s].todo = {} /\ session'[s].role = {}
  BY KillMoves
<1>2. ASSUME NEW t \in Sessions PROVE ~Active(t)'
  <2>1. t # s => ~Active(t)
    BY <1>1, OthersRest
  <2> QED BY <1>1, <2>1 DEF Active
<1>3. CASE /\ lone' = (lone \/ session[s].role # {} \/ session[s].pc = "synth")
           /\ UNCHANGED <<main, child, synth, reader>>
  <2>1. session[s].role = {}
    BY <1>3
  <2> QED BY <1>1, <1>2, <1>3, <2>1, RolesLeft
<1>4. CASE /\ \A a \in Attempts :
                IF a \in Children(s) /\ Running(a)
                THEN main'[a].pc = "killed" /\ main'[a].conv = NoTurn
                ELSE main'[a] = main[a]
           /\ \A a \in Attempts :
                child'[a] = IF a \in Children(s) /\ child[a] # "none" THEN "killed" ELSE child[a]
           /\ \A r \in Runs : reader'[r] = IF r \in session[s].role THEN IdleReader ELSE reader[r]
  <2>1. \A q \in Runs : \A a \in Of(q) : a \in Children(s) => q \in session[s].role
    BY DEF Children, LastTry, Last, Of, Run
  <2>2. UNCHANGED <<request, journal, saved, response, meta>> /\ AnswersLast
    BY <1>1 DEF directory, AnswersLast, Posted
  <2>3. \A t \in Sessions, q \in Runs : ~Works(t, q)' /\ ~Reads(t, q)' /\ ~Waits(t, q)' /\ ~Holds(t, q)'
    BY <1>2 DEF Works, Reads, Waits, Holds, Active
  <2>4. ASSUME NEW q \in Runs, q \notin session[s].role PROVE RoleOk(q)'
    <3>1. ASSUME NEW a \in Of(q) PROVE main'[a] = main[a] /\ child'[a] = child[a] /\ turn'[a] = turn[a]
      <4>1. a \notin Children(s) /\ a \in Attempts
        BY <2>1, <2>4 DEF Of
      <4> QED BY <1>1, <1>4, <4>1
    <3>2. Rests(q)
      BY <1>4, <2>2, <2>4, <3>1 DEF Rests
    <3>3. \A t \in Sessions : ~Works(t, q) /\ ~Reads(t, q)
      BY <1>1, <2>4, OthersRest DEF Works, Reads, Active
    <3>4. Leaves(q)
      BY <1>1, <2>3, <3>3 DEF Leaves
    <3> QED BY <2>2, <3>2, <3>4, RoleRests DEF Roles
  <2>5. ASSUME NEW r \in Runs, r \in session[s].role PROVE RoleOk(r)'
    <3>1. /\ VerdictOf(r) /\ RoleOk(r) /\ Of(r)' = Of(r)
          /\ \A a \in Of(r) : a \in Attempts /\ Run(a) = r /\ RunOf(a) /\ WrittenOf(a)
      BY DEF Roles, RoleOk, Of
    <3>2. ASSUME NEW a \in Of(r), Running(a) PROVE a \in Children(s)
      <4>1. Newest(a)
        BY <3>1, <3>2, OneRunning
      <4>2. LastTry(r) = a
        BY <3>1, <4>1, LastIsNewest
      <4> QED BY <2>5, <4>2 DEF Children
    <3>3. ASSUME NEW a \in Of(r)
          PROVE  /\ ~Running(a)' /\ (main'[a].pc = "idle" <=> main[a].pc = "idle")
                 /\ main'[a] = main[a] \/ main'[a].pc = "killed"
                 /\ child'[a] = child[a] \/ (child'[a] = "killed" /\ child[a] # "none")
      <4>1. CASE Running(a)
        BY <1>4, <3>1, <3>2, <4>1 DEF Running
      <4>2. CASE ~Running(a)
        BY <1>4, <3>1, <4>2 DEF Running
      <4> QED BY <4>1, <4>2
    <3>4. ASSUME NEW a \in Of(r) PROVE RunOf(a)'
      <4>1. RunOf(a) /\ Run(a) = r
        BY <3>1
      <4>2. child'[a] \notin Alive
        <5>1. child[a] \in Alive => Running(a)
          BY <4>1 DEF RunOf, Running
        <5>2. Running(a) /\ child[a] # "none" => child'[a] = "killed"
          BY <1>4, <3>1, <3>2
        <5> QED BY <3>3, <5>1, <5>2 DEF Alive
      <4>3. main'[a].pc \in Early => child'[a] = "none"
        BY <3>3, <4>1 DEF RunOf, Early
      <4>4. main'[a].pc \notin {"wait", "mark", "passed", "accepted"}
        BY <3>3 DEF Running
      <4>5. main'[a].pc # "idle" => \A b \in Of(r) : b[2] < a[2] => main'[b].pc # "idle"
        BY <3>3, <4>1 DEF RunOf
      <4> QED BY <3>1, <3>3, <4>1, <4>2, <4>3, <4>4, <4>5 DEF RunOf
    <3>5. ASSUME NEW a \in Of(r) PROVE WrittenOf(a)'
      <4>1. WrittenOf(a) /\ Run(a) = r
        BY <3>1
      <4> QED BY <1>1, <2>2, <3>1, <3>3, <4>1 DEF WrittenOf, Alive, Posting, Final
    <3>6. VerdictOf(r)'
      <4>1. reader'[r].pc = "idle" /\ OfRun(reader[r].conv, r)'
        BY <1>4, <2>5 DEF IdleReader, OfRun
      <4>5. reader'[r].pc \notin ReadsOn
        BY <4>1 DEF ReadsOn
      <4>2. OfRun(saved[r], r)'
        BY <1>1, <2>2, <3>1 DEF VerdictOf, OfRun, Posted
      <4>3. meta'[r] = "ok" => Proved(response[r])' /\ manifest'.status # "none"
        BY <1>1, <2>2, <3>1 DEF VerdictOf, Proved
      <4> QED BY <2>3, <4>1, <4>2, <4>3, <4>5 DEF VerdictOf
    <3> QED BY <3>1, <3>4, <3>5, <3>6 DEF RoleOk
  <2> QED BY <2>4, <2>5 DEF Roles
<1> QED BY <1>3, <1>4, KillMoves

-----------------------------------------------------------------------------
(* The invariant is inductive.                                             *)

\* As long as nothing runs on alone, every step keeps what is known of the
\* synthesis ...
LEMMA SynthsStep ==
    ASSUME Always, Synths, [ConclaveNext]_allVars, ~lone'
    PROVE  Synths'
<1>1. ASSUME UNCHANGED <<session, synth, checks>> PROVE Synths'
  BY <1>1 DEF Synths, SynthOf, Checkpoints, OnePost, Answered, SynthesesOf, KeyOf, Successful
<1>2. CASE UNCHANGED allVars
  BY <1>1, <1>2 DEF allVars, conclave
<1>3. CASE ConclaveNext
  <2>1. ASSUME NEW s \in Sessions,
               StartSession(s) \/ SessionStep(s) \/ SynthStep(s) \/ KillSession(s)
        PROVE  Synths'
    BY <2>1, SynthsWait, SynthsPublished, SynthsAsked, SynthsRead, SynthsGoOn, SynthsKilled
       DEF SessionStep
  <2>2. ASSUME NEW s \in Sessions, TimesOut(s) PROVE Synths'
    BY <2>2, SynthsKilled, RoleTimesOutMoves DEF TimesOut, Always
  <2>3. CASE UNCHANGED conclave \/ \E a \in Attempts : KillAttempt(a)
    BY <1>1, <2>3 DEF conclave, KillAttempt
  <2> QED BY <1>3, <2>1, <2>2, <2>3, ConclaveCases
<1> QED BY <1>2, <1>3

\* ... and of every role.
LEMMA RolesStep ==
    ASSUME Always, Roles, [ConclaveNext]_allVars, ~lone'
    PROVE  Roles'
<1> USE DEF Always
<1>1. ASSUME UNCHANGED <<session, manifest>>, NEW q \in Runs, Rests(q), AnswersLast
      PROVE  RoleOk(q)'
  BY <1>1, SessionsLeave, RoleRests DEF Roles
<1>2. CASE UNCHANGED allVars
  <2>1. ASSUME NEW q \in Runs PROVE Rests(q) /\ AnswersLast
    BY <1>2 DEF Rests, AnswersLast, Posted, Of, allVars, vars, turns, directory
  <2> QED BY <1>1, <1>2, <2>1 DEF allVars, conclave, Roles
<1>3. ASSUME UNCHANGED <<session, manifest>>, NEW a \in Attempts, Advances(a) \/ Asking(a)
      PROVE  Roles'
  <2>1. Run(a) \in Runs
    BY AttemptsOf
  <2>2. RoleOk(Run(a))'
    BY <1>3, <2>1, RoleAttempted, RoleAsked DEF Roles
  <2>3. AnswersLast
    <3>1. CASE Advances(a)
      BY <3>1, MainMoves DEF Advances, Attempting, AnswersLast, Posted
    <3>2. CASE Asking(a)
      BY <3>2, ProofsLast DEF AnswersLast
    <3> QED BY <1>3, <3>1, <3>2
  <2>4. ASSUME NEW q \in Runs, q # Run(a) PROVE Rests(q)
    BY <1>3, <2>4, AttemptIsLocal DEF Rests, Of, Attempting, Advances
  <2> QED BY <1>1, <1>3, <2>2, <2>3, <2>4 DEF Roles
<1>4. ASSUME UNCHANGED conclave, NEW r \in Runs, ReaderStep(r) PROVE Roles'
  <2>1. RoleOk(r)'
    BY <1>4, RoleRead DEF Roles
  <2>2. ASSUME NEW q \in Runs, q # r PROVE Rests(q) /\ AnswersLast
    BY <1>4, <2>2, ResumeTyped DEF Resuming, Rests, AnswersLast, Posted, Of
  <2> QED BY <1>1, <1>4, <2>1, <2>2 DEF conclave, Roles
<1>5. ASSUME NEW s \in Sessions,
             StartSession(s) \/ SessionStep(s) \/ SynthStep(s) \/ KillSession(s)
      PROVE  Roles'
  BY <1>5, RolesSettled, RolesTakenUp, RolesLaunched, RolesGoOn, RolesKilled DEF SessionStep
<1>6. ASSUME NEW s \in Sessions, TimesOut(s) PROVE Roles'
  BY <1>6, RolesGoOn, RoleTimesOutMoves DEF TimesOut
<1>7. CASE UNCHANGED <<turns, conclave>> /\ Edit
  <2>1. ASSUME NEW q \in Runs PROVE Rests(q) /\ AnswersLast
    BY <1>7 DEF Rests, AnswersLast, Posted, Of, turns, directory
  <2> QED BY <1>1, <1>7, <2>1 DEF conclave, Roles
<1>8. ASSUME NEW a \in Attempts, KillAttempt(a) PROVE Roles'
  <2>1. Advances(a) \/ Asking(a)
    BY <1>8 DEF KillAttempt, Advances, Asking, Alive
  <2> QED BY <1>3, <1>8, <2>1 DEF KillAttempt
<1>9. ASSUME UNCHANGED conclave, NEW a \in Attempts, MainStep(a) \/ Asking(a) PROVE Roles'
  BY <1>3, <1>9 DEF Advances, conclave
<1>10. CASE ConclaveNext
  BY <1>4, <1>5, <1>6, <1>7, <1>8, <1>9, <1>10, ConclaveCases
<1> QED BY <1>2, <1>10

\* It holds before anything was started.
LEMMA ConclaveStarts == ConclaveInit => CInv
<1> SUFFICES ASSUME ConclaveInit PROVE CInv
  OBVIOUS
<1>1. TypeOK
  BY InitTyped DEF ConclaveInit
<1> USE DEF ConclaveInit
<1>2. IdleSession \in SessionRecs /\ IdleSynth \in SynthRecs
  BY DEF IdleSession, IdleSynth, SessionRecs, SynthRecs, SessionLabels, Results, Reports
<1>3. ConclaveTypeOK
  <2>1. manifest \in [status : {"none", "running", "ok", "failed"},
                      roles : [Runs -> Verdicts \cup {"pending"}]]
    OBVIOUS
  <2>2. DOMAIN checks = {}
    OBVIOUS
  <2>3. \A s \in Sessions : synth[s].st = "none"
    BY DEF IdleSynth
  <2> QED BY <1>2, <2>1, <2>2, <2>3 DEF ConclaveTypeOK, Reports
<1>4. Locked /\ Placed
  BY DEF Locked, Placed, SessionOk, Active, IdleSession
<1>5. Synths
  <2>1. DOMAIN checks = {}
    OBVIOUS
  <2>2. \A s \in Sessions : session[s].pc = "idle" /\ synth[s] = IdleSynth /\ synth[s].posted = "no"
    BY DEF IdleSession, IdleSynth
  <2>3. ASSUME NEW s \in Sessions PROVE SynthOf(s)
    BY <2>2 DEF SynthOf, IdleSynth, Live
  <2> QED BY <2>1, <2>2, <2>3 DEF Synths, Checkpoints, OnePost
<1>6. Roles
  <2> USE DEF Init, TurnsInit
  <2>1. ASSUME NEW r \in Runs PROVE VerdictOf(r)
    <3>1. \A s \in Sessions : ~Works(s, r) /\ ~Reads(s, r) /\ ~Waits(s, r) /\ ~Holds(s, r)
      BY DEF Works, Reads, Waits, Holds, Active, IdleSession
    <3>2. reader[r].pc = "idle" /\ reader[r].conv = NoTurn /\ saved[r] = NoTurn /\ meta[r] = "none"
      BY DEF IdleReader
    <3> QED BY <3>1, <3>2 DEF VerdictOf, OfRun, ReadsOn
  <2>2. ASSUME NEW a \in Attempts PROVE RunOf(a) /\ WrittenOf(a)
    <3>1. main[a].pc = "idle" /\ child[a] = "none" /\ turn[a].st = "none"
      BY DEF IdleMain, NoPost
    <3> QED BY <3>1 DEF RunOf, WrittenOf, Running, Alive, Posting
  <2> QED BY <2>1, <2>2 DEF Roles, RoleOk, Of
<1> QED BY <1>1, <1>3, <1>4, <1>5, <1>6 DEF CInv, Always

\* Every step keeps it.
LEMMA ConclaveKeeps == CInv /\ [ConclaveNext]_allVars => CInv'
<1> SUFFICES ASSUME CInv, [ConclaveNext]_allVars PROVE CInv'
  OBVIOUS
<1>1. Always' /\ (lone => lone')
  BY AlwaysStep DEF CInv
<1>2. ~lone' => Synths' /\ Roles'
  BY <1>1, SynthsStep, RolesStep DEF CInv
<1> QED BY <1>1, <1>2 DEF CInv

\* The invariant of a conclave holds in every state.
LEMMA ConclaveCorrect == ConclaveSpec => []CInv
BY ConclaveStarts, ConclaveKeeps, PTL DEF ConclaveSpec

-----------------------------------------------------------------------------
(* What a conclave promises.                                               *)

\* README.md:773-776: a submitted turn is never replayed.  For any roles, tries
\* and sessions, wherever sessions are killed with what they started and others
\* resume, no role has two turns at ChatGPT, and no two syntheses of the same
\* reports were posted.
THEOREM NothingIsReplayed == ConclaveSpec => []NothingReplayed
<1>1. ASSUME CInv PROVE NothingReplayed
  <2>1. SUFFICES ASSUME Synths, Roles
                 PROVE  /\ NoRoleReplayed
                        /\ \A k \in DOMAIN checks : Cardinality(SynthesesOf(k)) <= 1
    BY <1>1 DEF CInv, NothingReplayed
  <2>2. ASSUME NEW S, \A x, y \in S : x = y PROVE Cardinality(S) <= 1
    <3>1. CASE S = {}
      BY <3>1, FS_EmptySet
    <3>2. CASE S # {}
      <4>1. PICK x : S = {x}
        BY <2>2, <3>2
      <4> QED BY <4>1, FS_Singleton
    <3> QED BY <3>1, <3>2
  <2>3. ASSUME NEW r \in Runs PROVE Cardinality(PostedOf(r)) <= 1
    <3>1. ASSUME NEW a \in PostedOf(r), NEW b \in PostedOf(r) PROVE a = b
      <4>1. a \in Of(r) /\ b \in Of(r) /\ Run(a) = r /\ turn[a].st # "none" /\ turn[b].st # "none"
        BY DEF PostedOf, Posted, Of
      <4> QED BY <2>1, <4>1 DEF Roles, RoleOk, WrittenOf
    <3> QED BY <2>2, <3>1
  <2>4. ASSUME NEW k \in DOMAIN checks PROVE Cardinality(SynthesesOf(k)) <= 1
    <3>1. ASSUME NEW s \in SynthesesOf(k), NEW t \in SynthesesOf(k) PROVE s = t
      BY <2>1 DEF SynthesesOf, Synths, OnePost
    <3> QED BY <2>2, <3>1
  <2> QED BY <2>3, <2>4 DEF NoRoleReplayed
<1> QED BY <1>1, ConclaveCorrect, PTL

\* For any roles and sessions: as long as nothing runs on alone, a conclave is
\* published as successful only with a synthesis that was made, and answered,
\* from the verified answer of every role.
THEOREM OkReportsAreWhole == ConclaveSpec => OkReportIsWhole
<1>1. ASSUME CInv, ConclaveNext, report' # report, report'.status = "ok", ~lone
      PROVE  /\ report'.key = {response[r] : r \in Runs} /\ report'.key \subseteq Posted
             /\ \A a \in report'.key : turn[a].st = "answered"
             /\ \E s \in SynthesesOf(report'.key) : synth[s].posted = "answered"
  <2>1. Always /\ Synths /\ Roles
    BY <1>1 DEF CInv
  <2>2. PICK s \in Sessions : Finish(s)
    <3>1. PICK s \in Sessions : StartSession(s) \/ SessionStep(s) \/ SynthStep(s)
                                 \/ KillSession(s) \/ TimesOut(s)
      BY <1>1, ConclaveCases DEF conclave, KillAttempt
    <3>2. ~StartSession(s) /\ ~SynthStep(s) /\ ~KillSession(s) /\ ~TimesOut(s)
      <4>1. TypeOK /\ ConclaveTypeOK /\ Locked
        BY <2>1 DEF Always
      <4>2. ~TimesOut(s)
        BY <1>1, <4>1, SynthTimesOutMoves, RoleTimesOutMoves DEF TimesOut
      <4> QED BY <1>1, <4>1, <4>2, StartMoves, SynthStepMoves, KillMoves
    <3>3. ~NoSynthesis(s)
      <4>1. NoSynthesis(s) => report'.status = "failed"
        BY DEF NoSynthesis, Publish
      <4> QED BY <1>1, <4>1
    <3>4. ~Synthesize(s) /\ ~FetchSynthesis(s) /\ ~SynthEnds(s)
      BY <1>1 DEF Synthesize, FetchSynthesis, SynthEnds
    <3>5. ASSUME NEW r \in Runs
          PROVE  /\ ~LaunchRole(s, r) /\ ~RoleEnds(s, r) /\ ~KeepRole(s, r)
                 /\ ~RecoverRole(s, r) /\ ~Recovered(s, r) /\ ~RelaunchRole(s, r)
      BY <1>1, <2>1, RoleLocked
    <3> QED BY <3>1, <3>2, <3>3, <3>4, <3>5 DEF SessionStep
  <2>3. /\ session[s].pc = "publish" /\ report'.key = synth[s].key
        /\ session[s].verdict = "ok" /\ Successful(s) = Runs
    BY <1>1, <2>2 DEF Finish, Publish, Now
  <2>4. synth[s].key = KeyOf(s) /\ Answered(synth[s].key)
    BY <2>1, <2>3 DEF Synths, SynthOf
  <2>5. ASSUME NEW r \in Runs
        PROVE  /\ session[s].results[r] = response[r] /\ response[r] \in Attempts
               /\ turn[response[r]].st = "answered"
    <3>1. Holds(s, r)
      <4>1. r \in Successful(s)
        BY <2>3
      <4> QED BY <2>3, <4>1 DEF Holds, Active, Successful
    <3>2. /\ session[s].results[r] = response[r] /\ Proved(response[r])
      BY <2>1, <3>1 DEF Roles, RoleOk, VerdictOf
    <3>3. response[r] \in Attempts \cup {NoTurn}
      BY <2>1 DEF Always, TypeOK
    <3> QED BY <3>2, <3>3 DEF Proved
  <2>6. report'.key = {response[r] : r \in Runs}
    <3>1. KeyOf(s) = {session[s].results[r] : r \in Runs}
      BY <2>3 DEF KeyOf
    <3>2. {session[s].results[r] : r \in Runs} = {response[r] : r \in Runs}
      BY <2>5
    <3> QED BY <2>3, <2>4, <3>1, <3>2
  <2>7. \A a \in report'.key : a \in Posted /\ turn[a].st = "answered"
    BY <2>5, <2>6 DEF Posted
  <2>8. \E t \in SynthesesOf(report'.key) : synth[t].posted = "answered"
    BY <2>3, <2>4 DEF Answered
  <2> QED BY <2>6, <2>7, <2>8
<1>2. CInv /\ [ConclaveNext]_allVars =>
        [report' # report /\ report'.status = "ok" /\ ~lone =>
           /\ report'.key = {response[r] : r \in Runs} /\ report'.key \subseteq Posted
           /\ \A a \in report'.key : turn[a].st = "answered"
           /\ \E s \in SynthesesOf(report'.key) : synth[s].posted = "answered"]_allVars
  BY <1>1
<1> QED BY <1>2, ConclaveCorrect, PTL DEF ConclaveSpec, OkReportIsWhole

\* Every variable of a conclave keeps its type, whoever is killed.
THEOREM ConclaveTypes == ConclaveSpec => [](TypeOK /\ ConclaveTypeOK)
<1>1. CInv => TypeOK /\ ConclaveTypeOK
  BY DEF CInv, Always
<1> QED BY <1>1, ConclaveCorrect, PTL
=============================================================================
