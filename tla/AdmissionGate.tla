--------------------------- MODULE AdmissionGate ---------------------------
(***************************************************************************)
(* What remote_call_slot promises to its users, without tickets, locks or  *)
(* polling: a call enters shared with fewer than Cap others, or exclusive  *)
(* with nobody else, and it is inside until it leaves.  The promise is     *)
(* good until the advertised capacity changes: an exclusive call owns the  *)
(* slots known when it looked, not those of a larger capacity.             *)
(***************************************************************************)
EXTENDS Integers, FiniteSets

CONSTANTS Callers,
          Cap       \* remote ChatGPT turns that may run at once

VARIABLES mode,     \* how each caller is inside: "none", "shared", "exclusive"
          steady    \* the capacity advertised at the start is still in force

gate == <<mode, steady>>

In(m) == {c \in Callers : mode[c] = m}

Init == /\ mode = [c \in Callers |-> "none"]
        /\ steady = TRUE

EnterShared(c) ==
    /\ mode[c] = "none"
    /\ steady => In("exclusive") = {} /\ Cardinality(In("shared")) < Cap
    /\ mode' = [mode EXCEPT ![c] = "shared"]

EnterExclusive(c) ==
    /\ mode[c] = "none"
    /\ steady => \A d \in Callers : mode[d] = "none"
    /\ mode' = [mode EXCEPT ![c] = "exclusive"]

LeaveGate(c) ==
    /\ mode[c] # "none"
    /\ mode' = [mode EXCEPT ![c] = "none"]

CapacityChanges == steady' = FALSE /\ UNCHANGED mode

Next == \/ /\ \E c \in Callers : EnterShared(c) \/ EnterExclusive(c) \/ LeaveGate(c)
           /\ UNCHANGED steady
        \/ CapacityChanges

Spec == Init /\ [][Next]_gate
=============================================================================
