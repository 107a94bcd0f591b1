---------------------------- MODULE GoalReports ----------------------------
(***************************************************************************)
(* The validation rules of a goal-research run, as predicates on abstract  *)
(* reports (goal_research_state.py, goal_research_roles.py).               *)
(*                                                                         *)
(* A report is what an advisor, or Codex, hands to the controller.  Its    *)
(* prose is left out: the field "schema" says whether the checks on types, *)
(* known keys, strings, enumerations and bindings to role, run, goal       *)
(* version, iteration and snapshot passed.  What remains are the fields    *)
(* that refer to each other or decide which event may be recorded.         *)
(***************************************************************************)
EXTENDS Integers, FiniteSets, FiniteSetsExt

CONSTANTS Contras,   \* identities a contradiction may have
          Critical,  \* those that are reported as critical
          Hyps       \* signatures a hypothesis may have

ASSUME ReportsAssumption == Critical \subseteq Contras

Outcomes == {"accepted", "rejected", "inconclusive", "escalated"}

-----------------------------------------------------------------------------
(***************************************************************************)
(* The goal contract.  A contract is a record                              *)
(*   [version, clauses, critical, dims, required, links, hard, waivers,    *)
(*    iterations, turns, specialists, hypotheses, profiles]                *)
(* where links maps a dimension to its clauses, critical are the clauses   *)
(* the goal stands or falls with and hard the dimensions nothing waives.   *)
(***************************************************************************)

\* Mutant: the final audit is forgotten.
SliceWithoutFinal(g) == 10 + g.specialists

MinimumSlice(g) == 11 + g.specialists

ValidAcceptance(g) ==
  /\ g.dims # {} /\ g.required \subseteq g.dims
  /\ \A d \in g.dims : g.links[d] # {} /\ g.links[d] \subseteq g.clauses
  /\ g.clauses = UNION {g.links[d] : d \in g.required}

ValidWaivers(g) == g.waivers \subseteq g.dims \ g.hard

ValidBudgets(g) ==
  /\ g.iterations \in 1..100
  /\ g.turns \in MinimumSlice(g)..10000
  /\ g.specialists \in 0..2
  /\ g.hypotheses \in 1..3

ValidContract(g) ==
  /\ g.version >= 1
  /\ g.clauses # {} /\ g.critical \subseteq g.clauses
  /\ ValidAcceptance(g) /\ ValidWaivers(g) /\ ValidBudgets(g)

ValidAmendment(previous, g) ==
  /\ ValidContract(g)
  /\ g.version = previous.version + 1
  /\ <<g.iterations, g.turns, g.specialists, g.hypotheses>>
       = <<previous.iterations, previous.turns, previous.specialists, previous.hypotheses>>

HasAuthority(g, d, status) == status = "waived" => d \in g.waivers

SatisfiesGate(g, d, status) == status = "passed" \/ (status = "waived" /\ d \in g.waivers)

\* The gates every acceptance, and every candidate for completion, must pass.
GatesPass(g, acc, clauses) ==
  /\ \A d \in g.required : d \in DOMAIN acc /\ SatisfiesGate(g, d, acc[d])
  /\ \A c \in g.critical : c \in DOMAIN clauses /\ clauses[c] = "supported"

-----------------------------------------------------------------------------
(***************************************************************************)
(* Goal fidelity: a trace maps each clause to dimensions, says whether it  *)
(* is covered, and by which evidence.                                      *)
(***************************************************************************)
ValidTrace(g, raw) ==
  /\ raw.schema
  /\ DOMAIN raw.links = g.clauses
  /\ \A c \in g.clauses : raw.links[c] = {d \in g.dims : c \in g.links[d]}

\* After a change, a covered clause needs fresh evidence; before it, there is none.
ValidFidelity(g, raw, afterChange) ==
  /\ ValidTrace(g, raw)
  /\ afterChange => raw.covered \subseteq raw.evidenced
  /\ ~afterChange => raw.evidenced = {}

-----------------------------------------------------------------------------
(***************************************************************************)
(* Grounding reports:                                                      *)
(*   [schema, claims, questions, contras, requests, candidates, info].     *)
(***************************************************************************)

\* claims: [id, observed, located, links]
ValidClaims(g, claims) ==
  /\ claims # {}
  /\ \A c \in claims : (c.observed => c.located) /\ c.links \subseteq g.clauses
  /\ Cardinality({c.id : c \in claims}) = Cardinality(claims)

\* contras: [id, refs], of the claims of the same report
ValidContradictions(contras, claims) ==
  \A x \in contras : x.refs # {} /\ x.refs \subseteq {c.id : c \in claims}

Rank == [p \in {"high", "medium", "low"} |->
           CASE p = "high" -> 1 [] p = "medium" -> 2 [] p = "low" -> 3]

\* requests: [profile, question, priority]; only core roles may ask
ValidRequests(g, requests, isSpecialist) ==
  /\ \A r \in requests : r.profile \in g.profiles /\ r.priority \in DOMAIN Rank
  /\ isSpecialist => requests = {}

\* candidates: [kind, sig, score, changed], ranked by evidence and source role
ValidCandidates(candidates) == \A c \in candidates : c.sig \in Hyps

\* fields: [id, relevant, explained], stages: [id, reads, writes]
ValidPipeline(info) ==
  LET fields == {f.id : f \in info.fields} IN
  /\ fields # {} /\ info.stages # {}
  /\ \A s \in info.stages : s.reads \cup s.writes \subseteq fields

\* boundaries: [stage, fields, layer, critical].  What is unexplained must lie in
\* a critical boundary, which no layer may contradict.
ValidBoundaries(info) ==
  LET critical == {b \in info.boundaries : b.critical} IN
  /\ \A b \in info.boundaries : /\ b.stage \in {s.id : s \in info.stages}
                                /\ b.fields # {} /\ b.fields \subseteq {f.id : f \in info.fields}
  /\ {f.id : f \in {f \in info.fields : f.relevant /\ ~f.explained}}
       \subseteq UNION {b.fields : b \in critical}
  /\ \A b \in critical : b.layer \notin info.supported

\* An information assessment is due from the mapping roles, and from no other.
ValidGrounding(g, raw, isMapper, isSpecialist) ==
  /\ raw.schema
  /\ ValidClaims(g, raw.claims)
  /\ ValidContradictions(raw.contras, raw.claims)
  /\ ValidRequests(g, raw.requests, isSpecialist)
  /\ ValidCandidates(raw.candidates)
  /\ raw.info # {} <=> isMapper
  /\ \A info \in raw.info : ValidPipeline(info) /\ ValidBoundaries(info)

Merged(reports) ==
  [contras |-> UNION {{x.id : x \in r.contras} : r \in reports},
   candidates |-> UNION {r.candidates : r \in reports}]

-----------------------------------------------------------------------------
(***************************************************************************)
(* Selections from the reports.  answer maps the roles that answered to    *)
(* their reports.                                                          *)
(***************************************************************************)
\* A request counts if exactly one report names its question as unknown.
Grounded(answer) ==
  {r \in UNION {answer[role].requests : role \in DOMAIN answer} :
     Cardinality({role \in DOMAIN answer : r.question \in answer[role].questions}) = 1}

\* The profiles of highest priority, up to the budget; CHOOSE stands for the
\* order of the request identities.
SelectSpecialists(g, answer) ==
  LET asked   == {r.profile : r \in Grounded(answer)}
      best(p) == Min({Rank[r.priority] : r \in {r \in Grounded(answer) : r.profile = p}})
      count   == Min({g.specialists, Cardinality(asked)})
  IN  CHOOSE S \in SUBSET asked : /\ Cardinality(S) = count
                                  /\ \A p \in S, q \in asked \ S : best(p) <= best(q)

Best(cands) == CHOOSE c \in cands : \A d \in cands : d.score <= c.score

\* Of candidates with one signature, the one of highest score.
Representatives(cands) == {Best({c \in cands : c.sig = sig}) : sig \in {c.sig : c \in cands}}

Kinds == <<"leading", "alternative", "null_measurement">>

\* The best candidate of each kind, as many as the goal allows.
Portfolio(g, cands) ==
  LET of(i) == {c \in Representatives(cands) : c.kind = Kinds[i]}
      due   == {i \in 1..3 : /\ of(i) # {}
                             /\ Cardinality({j \in 1..i : of(j) # {}}) <= g.hypotheses}
  IN  {Best(of(i)) : i \in due}

\* One leading hypothesis, no signature twice, and a changed condition for each
\* that was rejected before in this goal version.
ValidPortfolio(P, retired) ==
  /\ Cardinality({c \in P : c.kind = "leading"}) = 1
  /\ Cardinality({c.sig : c \in P}) = Cardinality(P)
  /\ \A c \in P : c.sig \in retired => c.changed

-----------------------------------------------------------------------------
(***************************************************************************)
(* Challenge, synthesis and the receipts of Codex.                         *)
(***************************************************************************)
Sigs(P) == {c.sig : c \in P}

ValidChallenge(raw, P) == raw.schema /\ raw.reviewed = Sigs(P)

\* A packet tests one active hypothesis and stays in the goal's scope.
ValidPacket(packet, P) == packet.sig \in Sigs(P) /\ packet.scopeOk

\* Every open contradiction is preserved, in a packet as in a decision to block.
ValidSynthesis(raw, P) ==
  /\ raw.schema /\ raw.keepsAll
  /\ raw.decision = "packet" => ValidPacket(raw.packet, P)

\* Codex commits and stages nothing, reports the exact delta of the checkout and
\* changes only what goal and packet permit.
ValidCodexReceipt(raw, current) ==
  raw.schema /\ raw.snap = current /\ raw.deltaOk /\ raw.scopeOk

CommandsPass(raw) == \A code \in raw.exits : code = 0

ChecksPass(raw) == \A status \in raw.checks : status = "passed"

\* Local verification accounts for every required dimension; a passed
\* dimension cannot rest on a failed command or packet check.
ValidVerification(g, raw) ==
  /\ raw.schema /\ raw.exits # {}
  /\ g.required \subseteq DOMAIN raw.acc /\ DOMAIN raw.acc \subseteq g.dims
  /\ \A d \in DOMAIN raw.acc : HasAuthority(g, d, raw.acc[d])
  /\ (\E d \in DOMAIN raw.acc : raw.acc[d] = "passed") => CommandsPass(raw) /\ ChecksPass(raw)

-----------------------------------------------------------------------------
(***************************************************************************)
(* Audits.                                                                 *)
(***************************************************************************)
ValidUpdates(g, raw) ==
  /\ DOMAIN raw.acc \subseteq g.dims /\ DOMAIN raw.clauses \subseteq g.clauses
  /\ \A d \in DOMAIN raw.acc : HasAuthority(g, d, raw.acc[d])

\* What an audit leaves open of the existing contradictions, and what is
\* critical of these and of its own.
AuditOpen(raw, existing)     == (existing \ raw.resolved) \cup raw.contras
AuditCritical(raw, existing) == AuditOpen(raw, existing) \cap Critical

\* A post-change audit resolves a contradiction only with fresh evidence and
\* may say "accepted" only if the gates pass and nothing critical is open.
ValidPostAudit(g, raw, existing, P) ==
  /\ raw.schema
  /\ ValidUpdates(g, raw)
  /\ DOMAIN raw.acc = g.dims /\ DOMAIN raw.clauses = g.clauses
  /\ raw.resolved \cap existing # {} => raw.evidence
  /\ raw.outcome \in Outcomes
  /\ raw.outcome = "accepted" =>
       AuditCritical(raw, existing) = {} /\ GatesPass(g, raw.acc, raw.clauses)
  /\ DOMAIN raw.hyp = Sigs(P)

\* The refresh keeps every contradiction still open and every decisive status of
\* a hypothesis; its recommendation decides what it says of a remap.
ValidRefresh(raw, audit, P) ==
  /\ raw.schema /\ raw.keepsAll
  /\ DOMAIN raw.hyp = Sigs(P)
  /\ \A s \in Sigs(P) : audit.hyp[s] \in {"rejected", "supported"} => raw.hyp[s] = audit.hyp[s]
  /\ raw.recommendation = "next_iteration" => raw.remap
  /\ raw.recommendation = "final_audit" => ~raw.remap

\* The blind final audit recommends completion exactly if its own gates pass.
ValidFinalAudit(g, raw) ==
  /\ raw.schema
  /\ ValidUpdates(g, raw)
  /\ DOMAIN raw.acc = g.dims /\ DOMAIN raw.clauses = g.clauses
  /\ raw.recommend <=> /\ raw.blockers = {}
                       /\ raw.contras \cap Critical = {}
                       /\ GatesPass(g, raw.acc, raw.clauses)
=============================================================================
