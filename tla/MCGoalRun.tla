----------------------------- MODULE MCGoalRun -----------------------------
(***************************************************************************)
(* A goal with one critical clause and one required dimension, run twice   *)
(* at most, with two hypotheses, one specialist and an amendment, on a     *)
(* checkout of two snapshots.                                              *)
(***************************************************************************)
EXTENDS GoalRun, TLC

CONSTANTS ra, rb, rc, rd

MCRoles       == {ra, rb, rc, rd}
MCMappers     == {ra, rb}
MCSpecialists == {"security"}
MCSnaps       == {"base", "change"}
MCInScope     == {"base", "change"}

Contract(version, iterations, turns) ==
  [version |-> version, clauses |-> {"c"}, critical |-> {"c"}, dims |-> {"d"},
   required |-> {"d"}, links |-> [d \in {"d"} |-> {"c"}], hard |-> {"d"}, waivers |-> {},
   iterations |-> iterations, turns |-> turns, specialists |-> 1, hypotheses |-> 2,
   profiles |-> MCSpecialists]

MCContracts == {Contract(1, 1, 11), Contract(1, 1, 13), Contract(1, 2, 21), Contract(2, 2, 21)}

Info == [fields |-> {[id |-> "f", relevant |-> TRUE, explained |-> FALSE]},
         stages |-> {[id |-> "s", reads |-> {"f"}, writes |-> {"f"}]},
         boundaries |-> {[stage |-> "s", fields |-> {"f"}, layer |-> "transform", critical |-> TRUE]},
         supported |-> {"parse"}]

Candidate(kind, sig) == [kind |-> kind, sig |-> sig, score |-> 1, changed |-> FALSE]

\* What role r reports; a role that maps nothing may ask for a specialist.
Report(r, asks) ==
  [schema |-> TRUE,
   claims |-> {[id |-> "k", observed |-> TRUE, located |-> TRUE, links |-> {"c"}]},
   contras |-> {},
   questions |-> IF r = rc THEN {"q"} ELSE {},
   requests |-> IF asks THEN {[profile |-> "security", question |-> "q", priority |-> "high"]} ELSE {},
   candidates |-> {Candidate("leading", "h1")}
                  \cup IF r \in MCMappers THEN {Candidate("alternative", "h2")} ELSE {},
   info |-> IF r \in MCMappers THEN {Info} ELSE {}]

MCGrounds == [r \in MCRoles \cup MCSpecialists |->
                {Report(r, asks) : asks \in IF r = rc THEN BOOLEAN ELSE {FALSE}}]

MCChallenges == {[schema |-> TRUE, reviewed |-> Hyps, contras |-> {}]}

MCSyntheses == {[schema |-> TRUE, keepsAll |-> TRUE, decision |-> d,
                 packet |-> [sig |-> "h1", scopeOk |-> TRUE]] : d \in {"packet", "block"}}

Statuses(h) == [sig \in Hyps |-> IF sig = "h1" THEN h ELSE "inconclusive"]

Audit(a, h, contras) ==
  [schema |-> TRUE, acc |-> [d \in {"d"} |-> a], clauses |-> [k \in {"c"} |-> "supported"],
   resolved |-> {}, evidence |-> TRUE, contras |-> contras, hyp |-> Statuses(h),
   outcome |-> "inconclusive"]

MCAudits == {Audit(a, h, {}) : a \in {"passed", "failed"}, h \in {"rejected", "inconclusive"}}

\* The auditor finds a critical contradiction, or nothing.
OpenAudits == {Audit("passed", "inconclusive", x) : x \in {{}, {"x"}}}

MCRefreshes ==
  {[schema |-> TRUE, keepsAll |-> TRUE, hyp |-> Statuses(h), recommendation |-> r,
    remap |-> r # "final_audit"] :
     h \in {"rejected", "inconclusive"}, r \in {"next_iteration", "final_audit"}}

MCFinals ==
  {[schema |-> TRUE, acc |-> [d \in {"d"} |-> a], clauses |-> [k \in {"c"} |-> "supported"],
    blockers |-> {}, contras |-> {}, recommend |-> a = "passed"] : a \in {"passed", "failed"}}

Trace(evidenced) == [schema |-> TRUE, links |-> [c \in {"c"} |-> {"d"}], covered |-> {"c"},
                     evidenced |-> evidenced, blocking |-> FALSE]

MCFidelities == [name \in {"fidelity", "post-fidelity"} |->
                   {Trace(IF name = "fidelity" THEN {} ELSE {"c"})}]

MCVerifications == {[schema |-> TRUE, acc |-> [d \in {"d"} |-> "passed"], exits |-> {0},
                     checks |-> {"passed"}]}

\* Runs of two iterations are explored without faults and by one process at a
\* time, runs of one iteration with all faults, two processes or a resumption.
Scenarios ==
  LET resumed == \E i \in 1..Len(log) : log[i].e.type = "run_resumed"
      together == Cardinality({p \in Procs : proc[p].pc # "idle"}) > 1
  IN  /\ Goal(1).iterations > 1 => edits + crashes = 0 /\ ~resumed /\ ~together
      /\ resumed => ~together

\* A goal of three iterations is amended while its first one ends: what was
\* blocked, or amended before, is left out.
LateContracts == {Contract(version, 3, 31) : version \in {1, 2}}

LateAmendment ==
  /\ Current.phase # Blocked
  /\ \A p \in Procs : proc[p].cmd = "amend" => View(proc[p].n).phase = "EPISTEMIC_REFRESH"
  /\ Cardinality({p \in Procs : proc[p].pc # "idle"}) > 1 => Current.phase = "EPISTEMIC_REFRESH"

MCSymmetry == Permutations(MCMappers) \cup Permutations(Procs)
=============================================================================
