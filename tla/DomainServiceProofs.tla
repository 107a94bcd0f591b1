------------------------ MODULE DomainServiceProofs ------------------------
(***************************************************************************)
(* Theorems about the domain service, for any checkouts, commands,         *)
(* identities, controls, and any changes and kills.                        *)
(***************************************************************************)
EXTENDS DomainService, WellFoundedInduction, TLAPS

-----------------------------------------------------------------------------
(* Masks.                                                                  *)

\* The order of the natural numbers is well-founded.
LEMMA Descending ==
    \E R : IsWellFoundedOn(R, Nat) /\ \A x, y \in Nat : x < y => <<x, y>> \in R
<1>1. IsWellFoundedOn(OpToRel(<, Nat), Nat)
  BY NatLessThanWellFounded
<1>2. \A x, y \in Nat : x < y => <<x, y>> \in OpToRel(<, Nat)
  BY DEF OpToRel
<1> QED BY <1>1, <1>2

\* A set of natural numbers has a least one.
LEMMA Least ==
    ASSUME NEW S, S \subseteq Nat, S # {}
    PROVE  \E x \in S : \A y \in S : ~(y < x)
<1>1. PICK R : IsWellFoundedOn(R, Nat) /\ \A x, y \in Nat : x < y => <<x, y>> \in R
  BY Descending
<1>2. \E x \in S : \A y \in S : <<y, x>> \notin R
  BY <1>1, WFMin, Zenon
<1>3. PICK x \in S : \A y \in S : <<y, x>> \notin R
  BY <1>2
<1>4. ASSUME NEW y \in S, y < x PROVE FALSE
  <2>1. x \in Nat /\ y \in Nat
    OBVIOUS
  <2>2. <<y, x>> \in R
    BY <1>1, <1>4, <2>1
  <2> QED BY <1>3, <2>2
<1> QED BY <1>3, <1>4

\* What is at or below a path, seen entry by entry.
LEMMA Prefixed ==
    ASSUME NEW S, NEW p \in Seq(S), NEW q \in Seq(S)
    PROVE  IsPrefix(q, p) <=> Len(q) <= Len(p) /\ \A i \in 1..Len(q) : q[i] = p[i]
<1>1. ASSUME Len(q) <= Len(p)
      PROVE  SubSeq(q, 1, Len(q)) = SubSeq(p, 1, Len(q)) <=> \A i \in 1..Len(q) : q[i] = p[i]
  <2>1. Len(q) \in Nat /\ Len(p) \in Nat
    OBVIOUS
  <2>2. \A i \in 1..Len(q) : SubSeq(q, 1, Len(q))[i] = q[i] /\ SubSeq(p, 1, Len(q))[i] = p[i]
    BY <1>1, <2>1
  <2>3. /\ SubSeq(q, 1, Len(q)) = [i \in 1..Len(q) |-> q[i]]
        /\ SubSeq(p, 1, Len(q)) = [i \in 1..Len(q) |-> p[i]]
    BY <1>1, <2>1
  <2> QED BY <2>2, <2>3
<1> QED BY <1>1 DEF IsPrefix

\* What is at or below a path is at or below what is above that path.
LEMMA PrefixesNest ==
    ASSUME NEW S, NEW p \in Seq(S), NEW q \in Seq(S), NEW r \in Seq(S),
           AtOrBelow(p, q), Below(q, r)
    PROVE  AtOrBelow(p, r) /\ Len(r) < Len(q)
<1>1. /\ Len(q) <= Len(p) /\ \A i \in 1..Len(q) : q[i] = p[i]
      /\ Len(r) <= Len(q) /\ (\A i \in 1..Len(r) : r[i] = q[i]) /\ r # q
  BY Prefixed DEF AtOrBelow, Below
<1>2. Len(r) # Len(q)
  BY <1>1
<1>3. Len(p) \in Nat /\ Len(q) \in Nat /\ Len(r) \in Nat
  OBVIOUS
<1>4. Len(r) <= Len(p) /\ \A i \in 1..Len(r) : r[i] = p[i]
  BY <1>1, <1>3
<1> QED BY <1>1, <1>2, <1>3, <1>4, Prefixed DEF AtOrBelow

\* The mask plan of a checkout hides everything sensitive in it.
LEMMA PlanSeals ==
    ASSUME NEW c, NEW S, \A e \in c.entries : e.path \in Seq(S)
    PROVE  Sealed(c, MaskPlan(c))
<1> SUFFICES ASSUME NEW e \in c.entries, e.path[1] \notin BulkRoots, Sensitive(e.path),
                    ~HarmlessTemplate(e)
             PROVE  \E m \in MaskPlan(c) : AtOrBelow(e.path, m)
  BY DEF Sealed, Visible
<1>1. e.path \in Candidates(c) /\ Candidates(c) \subseteq Seq(S)
  BY DEF Candidates
<1> DEFINE L == {Len(q) : q \in {x \in Candidates(c) : AtOrBelow(e.path, x)}}
<1>2. AtOrBelow(e.path, e.path)
  BY <1>1, Prefixed DEF AtOrBelow
<1>3. L \subseteq Nat /\ L # {}
  <2>1. \A x \in Candidates(c) : Len(x) \in Nat
    BY <1>1
  <2>2. Len(e.path) \in L
    BY <1>1, <1>2
  <2> QED BY <2>1, <2>2
<1>4. PICK n \in L : \A y \in L : ~(y < n)
  BY <1>3, Least
<1>5. PICK q \in Candidates(c) : AtOrBelow(e.path, q) /\ Len(q) = n
  BY <1>4
<1>6. ASSUME NEW r \in Candidates(c), Below(q, r) PROVE FALSE
  <2>1. AtOrBelow(e.path, r) /\ Len(r) < Len(q)
    BY <1>1, <1>5, <1>6, PrefixesNest
  <2>2. Len(r) \in L
    BY <1>6, <2>1
  <2> QED BY <1>4, <1>5, <2>1, <2>2
<1> QED BY <1>5, <1>6 DEF MaskPlan

-----------------------------------------------------------------------------
(* The invariant.                                                          *)

\* Steps during which the services are down, and the configuration changes.
Changing == {"pin", "plan", "write", "gwrite", "uwrite", "pop", "remote", "local", "attest"}

\* The attestation in the configuration speaks for it.
Vouched == \E c \in cfg : \E a \in c.att : a.identity = Identity(c)

\* An attestation is there only after an audit that passed.
Certified(S) == \A c \in S : c.att # {} => lastAudit = "passed"

\* What holds of a process by where it is.
OnPath(p) ==
  /\ proc[p].pc \in Changing => origin.st = "off" /\ gateway.st = "off"
  /\ proc[p].pc \in {"posture", "restart", "launch"} => Vouched
  /\ (proc[p].pc = "write" /\ proc[p].a.cmd = "prepare") => Certified(proc[p].c)
  /\ proc[p].pc \in {"remote", "local", "attest"} => \A c \in cfg : c.att = {}
  /\ proc[p].pc = "attest" => lastAudit = "passed"

\* What holds of the units that run.
Opened ==
  /\ (origin.st # "off" \/ gateway.st # "off") => Vouched
  /\ origin.st \in {"staged", "on"} =>
       /\ origin.c \in cfg /\ origin.c.masks = MaskPlan(origin.seen)
       /\ \E j \in Projects : origin.seen \in Checkouts[j]
  /\ gateway.st = "on" => \E c \in cfg : gateway.ident = c.ident

Inv == TypeOK /\ (\A p \in Procs : OnPath(p)) /\ Certified(cfg) /\ Opened

\* One command holds the lock: every other process is before or behind it.
LEMMA Waiting ==
    ASSUME TypeOK, NEW p \in lock, NEW q \in Procs, q # p
    PROVE  proc[q].pc \in {"idle", "done", "lock"}
<1> QED BY DEF TypeOK, ProcsOk, AtMostOne

\* A process that does not hold the lock has nothing to keep.
LEMMA Outside ==
    ASSUME NEW p \in Procs, proc[p].pc \in {"idle", "done", "lock"}
    PROVE  OnPath(p)
<1> QED BY DEF OnPath, Changing

\* The arguments of the commands.
LEMMA Arguments ==
    ASSUME NEW a \in Commands
    PROVE  /\ a.cmd \in {"prepare", "configure", "audit", "start", "stop"}
           /\ a.cmd = "prepare" => /\ a.project \in Projects /\ a.window \in Windows
                                   /\ a.ident \in Idents \cup {None}
           /\ a.cmd = "configure" => a.ident \in Idents
<1>1. CASE a \in [cmd : {"prepare"}, project : Projects, ident : Idents \cup {None},
                  window : Windows, dirty : BOOLEAN]
  BY <1>1
<1>2. CASE a \in [cmd : {"configure"}, ident : Idents]
  BY <1>2
<1>3. CASE a \in [cmd : {"audit", "start", "stop"}]
  BY <1>3
<1> QED BY <1>1, <1>2, <1>3 DEF Commands

\* A command goes on to another of its steps.
LEMMA Goes ==
    ASSUME NEW p \in Procs, NEW r, IsCall(p, r), r.pc # "plan",
           NEW pc \in StepsOf(r.a.cmd), pc \in {"plan", "write", "gwrite", "uwrite"} => r.c # {},
           (r.a.cmd = "configure" /\ r.pc = "read") => pc \in {"lock", "read"} \/ r.c # {},
           (r.a.cmd = "configure" /\ r.pc = "lock") => pc \in {"lock", "read"}
    PROVE  /\ IsCall(p, [r EXCEPT !.pc = pc])
           /\ [r EXCEPT !.pc = pc].pc = pc /\ [r EXCEPT !.pc = pc].a = r.a
           /\ [r EXCEPT !.pc = pc].c = r.c /\ [r EXCEPT !.pc = pc].ok = r.ok
<1> DEFINE new == [r EXCEPT !.pc = pc]
<1>1. DOMAIN r = {"pc", "a", "c", "ok"}
  BY DEF IsCall
<1>2. DOMAIN new = DOMAIN r /\ new.pc = pc /\ new.a = r.a /\ new.c = r.c /\ new.ok = r.ok
  BY <1>1
<1> HIDE DEF new
<1>3. IsCall(p, new)
  BY <1>2 DEF IsCall
<1> QED BY <1>2, <1>3 DEF new

\* ... with another configuration in its hands.
LEMMA GoesWith ==
    ASSUME NEW p \in Procs, NEW r, IsCall(p, r),
           NEW pc \in StepsOf(r.a.cmd), NEW S, AtMostOne(S), S # {},
           pc # "plan" => \A c \in S : IsConfig(c),
           NEW new, DOMAIN new = {"pc", "a", "c", "ok"}, new.pc = pc, new.a = r.a, new.c = S
    PROVE  IsCall(p, new)
<1> QED BY DEF IsCall

\* The holder of the lock goes on, or returns and releases it.
LEMMA Moves ==
    ASSUME TypeOK, NEW p \in lock, NEW r, proc' = [proc EXCEPT ![p] = r],
           \/ r \in {Idle, [pc |-> "done"]} /\ lock' = {}
           \/ IsCall(p, r) /\ r.pc # "lock" /\ lock' = lock
    PROVE  ProcsOk'
<1>1. p \in Procs /\ DOMAIN proc = Procs
  BY DEF TypeOK, ProcsOk
<1>2. \A q \in Procs : proc'[q] = IF q = p THEN r ELSE proc[q]
  BY <1>1
<1>3. \A q \in Procs : q # p => q \notin lock
  BY DEF TypeOK, ProcsOk, AtMostOne
<1>4. Idle.pc = "idle" /\ [pc |-> "done"].pc = "done"
  BY DEF Idle
<1>5. r.pc \in {"idle", "done", "lock"} <=> r \in {Idle, [pc |-> "done"]}
  <2>1. IsCall(p, r) => r.pc \notin {"idle", "done"}
    BY DEF IsCall, StepsOf
  <2> QED BY <1>4, <2>1
<1>6. DOMAIN proc' = Procs /\ lock' \subseteq Procs /\ AtMostOne(lock')
  BY <1>1 DEF TypeOK, ProcsOk, AtMostOne
<1>7. ASSUME NEW q \in Procs
      PROVE  /\ proc'[q] \in {Idle, [pc |-> "done"]} \/ IsCall(q, proc'[q])
             /\ q \in lock' <=> proc'[q].pc \notin {"idle", "done", "lock"}
  <2>1. CASE q = p
    <3>1. proc'[q] = r
      BY <1>2, <2>1
    <3>2. CASE r \in {Idle, [pc |-> "done"]} /\ lock' = {}
      BY <1>5, <3>1, <3>2
    <3>3. CASE IsCall(p, r) /\ r.pc # "lock" /\ lock' = lock
      <4>1. r.pc \notin {"idle", "done"}
        BY <3>3 DEF IsCall, StepsOf
      <4> QED BY <2>1, <3>1, <3>3, <4>1
    <3> QED BY <3>2, <3>3
  <2>2. CASE q # p
    BY <1>2, <1>3, <2>2 DEF TypeOK, ProcsOk
  <2> QED BY <2>1, <2>2
<1> QED BY <1>6, <1>7 DEF ProcsOk, AtMostOne

\* ... and nobody else moves.
LEMMA OthersWait ==
    ASSUME TypeOK, NEW p \in lock, NEW r, proc' = [proc EXCEPT ![p] = r],
           r \in {Idle, [pc |-> "done"]} \/ OnPath(p)'
    PROVE  \A q \in Procs : OnPath(q)'
<1>1. p \in Procs /\ DOMAIN proc = Procs
  BY DEF TypeOK, ProcsOk
<1>2. ASSUME NEW q \in Procs, q # p PROVE OnPath(q)'
  <2>1. proc'[q].pc \in {"idle", "done", "lock"}
    BY <1>1, <1>2, Waiting
  <2> QED BY <2>1 DEF OnPath, Changing
<1>3. ASSUME r \in {Idle, [pc |-> "done"]} PROVE OnPath(p)'
  <2>1. proc'[p].pc \in {"idle", "done", "lock"}
    BY <1>1, <1>3 DEF Idle
  <2> QED BY <2>1 DEF OnPath, Changing
<1> QED BY <1>2, <1>3

-----------------------------------------------------------------------------
(* The units.                                                              *)

\* Starting the expiry service starts it, or it runs already.
LEMMA ExpiryStarts ==
    ASSUME UnitsOk, NEW of, StartExpiry(of)
    PROVE  expiry'.st \in {"off", "on"}
<1> QED BY DEF UnitsOk, StartExpiry

\* The units move under the commands only while no command needs them down.
LEMMA Undisturbed ==
    ASSUME Inv, UNCHANGED <<cfg, proc, lastAudit>>,
           \/ origin.st # "off" \/ gateway.st # "off"
           \/ origin' = origin /\ gateway' = gateway
    PROVE  (\A p \in Procs : OnPath(p)') /\ Certified(cfg)' /\ Vouched' = Vouched
<1>1. Certified(cfg)' /\ Vouched' = Vouched
  BY DEF Inv, Certified, Vouched
<1>2. ASSUME NEW p \in Procs PROVE OnPath(p)'
  <2>1. OnPath(p)
    BY DEF Inv
  <2>2. proc'[p].pc \in Changing => origin'.st = "off" /\ gateway'.st = "off"
    BY <2>1 DEF OnPath
  <2>3. Certified(proc[p].c) => Certified(proc[p].c)'
    BY DEF Certified
  <2> QED BY <1>1, <2>1, <2>2, <2>3 DEF OnPath
<1> QED BY <1>1, <1>2

\* What the units do on their own keeps the types of everything else.
LEMMA UnitTypes ==
    ASSUME TypeOK, UNCHANGED <<files, checkout, world, lock, proc>>, UnitsOk'
    PROVE  TypeOK'
<1> QED BY DEF TypeOK, FilesOk, WorldOk, ProcsOk, files

\* The origin, the gateway and the timer, on their own.
LEMMA UnitsKeepInv == Inv /\ Units => Inv'
<1> SUFFICES ASSUME Inv, Units PROVE Inv'
  OBVIOUS
<1>1. /\ TypeOK /\ UnitsOk /\ Opened
      /\ UNCHANGED <<files, checkout, world, lock, proc, lastAudit>>
      /\ UNCHANGED <<cfg, proc, lastAudit>>
  BY DEF Inv, TypeOK, Units, OriginVerify, OriginLaunch, OriginEnds, GatewayLaunch,
         GatewayEnds, TimerElapses, files
<1>2. ASSUME OriginDown(TRUE, FALSE) \/ OriginDown(TRUE, TRUE) \/ OriginDown(FALSE, TRUE),
             UNCHANGED timer
      PROVE  UnitsOk' /\ Opened'
  <2>1. expiry'.st \in {"off", "on"}
    BY <1>1, <1>2, ExpiryStarts DEF OriginDown, UnitsOk
  <2>2. run' \in {run, EmptyRun}
    BY <1>2 DEF OriginDown
  <2>3. origin'.st = "off" /\ gateway'.st = "off"
    BY <1>2 DEF OriginDown, Off
  <2>4. /\ DOMAIN run' = {"socks", "secret"} /\ run'.socks \subseteq {"origin", "gateway"}
        /\ run'.secret \in BOOLEAN
    <3>1. CASE run' = run
      BY <1>1, <3>1 DEF UnitsOk
    <3>2. CASE run' = EmptyRun
      BY <3>2 DEF EmptyRun
    <3> QED BY <2>2, <3>1, <3>2
  <2>5. UnitsOk'
    BY <1>1, <1>2, <2>1, <2>3, <2>4 DEF UnitsOk
  <2> QED BY <2>3, <2>5 DEF Opened
<1>3. CASE OriginVerify
  <2>1. PICK c \in cfg :
          IF RuntimeOk(c) /\ CheckoutOk(c) /\ MasksOk(c)
          THEN /\ origin' = [st |-> "staged", c |-> c, seen |-> checkout[c.project]]
               /\ UNCHANGED <<gateway, expiry, run>>
          ELSE OriginDown(TRUE, FALSE)
    BY <1>3 DEF OriginVerify
  <2>2. origin.st = "up" /\ UNCHANGED timer
    BY <1>3 DEF OriginVerify
  <2>3. (\A p \in Procs : OnPath(p)') /\ Certified(cfg)' /\ Vouched' = Vouched
    BY <1>1, <2>2, Undisturbed
  <2>4. CASE RuntimeOk(c) /\ CheckoutOk(c) /\ MasksOk(c)
    <3>1. /\ origin' = [st |-> "staged", c |-> c, seen |-> checkout[c.project]]
          /\ UNCHANGED <<gateway, expiry, run>>
      BY <2>1, <2>4
    <3>2. UnitsOk'
      BY <1>1, <2>2, <3>1 DEF UnitsOk
    <3>3. origin'.c \in cfg' /\ origin'.c.masks = MaskPlan(origin'.seen)
      BY <1>1, <2>4, <3>1 DEF MasksOk
    <3>4. c.project \in Projects /\ origin'.seen \in Checkouts[c.project]
      BY <1>1, <3>1 DEF TypeOK, FilesOk, WorldOk, IsConfig
    <3>5. Opened'
      BY <1>1, <2>2, <2>3, <3>1, <3>3, <3>4 DEF Opened
    <3> QED BY <1>1, <2>3, <3>2, <3>5, UnitTypes DEF Inv
  <2>5. CASE ~(RuntimeOk(c) /\ CheckoutOk(c) /\ MasksOk(c))
    BY <1>1, <1>2, <2>1, <2>2, <2>3, <2>5, UnitTypes DEF Inv
  <2> QED BY <2>4, <2>5
<1>4. CASE OriginLaunch
  <2>1. origin.st = "staged" /\ UNCHANGED timer
    BY <1>4 DEF OriginLaunch
  <2>2. (\A p \in Procs : OnPath(p)') /\ Certified(cfg)' /\ Vouched' = Vouched
    BY <1>1, <2>1, Undisturbed
  <2>3. CASE RuntimeOk(origin.c)
    <3>1. /\ origin' = [origin EXCEPT !.st = "on"] /\ UNCHANGED <<gateway, expiry>>
          /\ run' = [socks |-> run.socks \cup {"origin"}, secret |-> TRUE]
      BY <1>4, <2>3 DEF OriginLaunch
    <3>2. /\ DOMAIN origin' = {"st", "c", "seen"} /\ origin'.st = "on"
          /\ origin'.c = origin.c /\ origin'.seen = origin.seen
      BY <1>1, <2>1, <3>1 DEF UnitsOk
    <3>3. UnitsOk'
      BY <1>1, <2>1, <3>1, <3>2 DEF UnitsOk
    <3>4. Opened'
      BY <1>1, <2>1, <2>2, <3>1, <3>2 DEF Opened
    <3> QED BY <1>1, <2>2, <3>3, <3>4, UnitTypes DEF Inv
  <2>4. CASE ~RuntimeOk(origin.c)
    <3>1. /\ origin' = Off /\ gateway' = Off /\ StartExpiry(session)
          /\ run' = [run EXCEPT !.secret = TRUE]
      BY <1>4, <2>4 DEF OriginLaunch
    <3>2. UnitsOk'
      BY <1>1, <2>1, <3>1, ExpiryStarts DEF UnitsOk, Off
    <3>3. Opened'
      BY <3>1 DEF Opened, Off
    <3> QED BY <1>1, <2>2, <3>2, <3>3, UnitTypes DEF Inv
  <2> QED BY <2>3, <2>4
<1>5. CASE OriginEnds
  <2>1. origin.st = "on" /\ UNCHANGED timer
    BY <1>5 DEF OriginEnds
  <2>2. OriginDown(TRUE, FALSE) \/ OriginDown(TRUE, TRUE) \/ OriginDown(FALSE, TRUE)
    BY <1>5 DEF OriginEnds, OriginDown
  <2>3. (\A p \in Procs : OnPath(p)') /\ Certified(cfg)'
    BY <1>1, <2>1, Undisturbed
  <2> QED BY <1>1, <1>2, <2>1, <2>2, <2>3, UnitTypes DEF Inv
<1>6. CASE GatewayLaunch
  <2>1. PICK c \in cfg :
          IF RuntimeOk(c) /\ AccessComplete(c)
          THEN /\ gateway' = [st |-> "on", ident |-> gcfg, window |-> units]
               /\ run' = [run EXCEPT !.socks = @ \cup {"gateway"}]
               /\ UNCHANGED expiry
          ELSE gateway' = Off /\ StartExpiry(session) /\ UNCHANGED run
    BY <1>6 DEF GatewayLaunch
  <2>2. gateway.st = "up" /\ UNCHANGED <<origin, timer>>
    BY <1>6 DEF GatewayLaunch
  <2>3. (\A p \in Procs : OnPath(p)') /\ Certified(cfg)' /\ Vouched' = Vouched
    BY <1>1, <2>2, Undisturbed
  <2>4. CASE RuntimeOk(c) /\ AccessComplete(c)
    <3>1. UnitsOk'
      BY <1>1, <2>1, <2>2, <2>4 DEF UnitsOk
    <3>2. gateway'.ident = c.ident
      BY <2>1, <2>4 DEF RuntimeOk
    <3>3. Opened'
      BY <1>1, <2>1, <2>2, <2>3, <2>4, <3>2 DEF Opened
    <3> QED BY <1>1, <2>3, <3>1, <3>3, UnitTypes DEF Inv
  <2>5. CASE ~(RuntimeOk(c) /\ AccessComplete(c))
    <3>1. UnitsOk' /\ gateway'.st = "off"
      BY <1>1, <2>1, <2>2, <2>5, ExpiryStarts DEF UnitsOk, Off
    <3>2. Opened'
      BY <1>1, <2>2, <2>3, <3>1 DEF Opened
    <3> QED BY <1>1, <2>3, <3>1, <3>2, UnitTypes DEF Inv
  <2> QED BY <2>4, <2>5
<1>7. CASE GatewayEnds
  <2>1. /\ gateway.st = "on" /\ gateway' = Off /\ StartExpiry(session)
        /\ UNCHANGED <<origin, timer, run>>
    BY <1>7 DEF GatewayEnds
  <2>2. (\A p \in Procs : OnPath(p)') /\ Certified(cfg)' /\ Vouched' = Vouched
    BY <1>1, <2>1, Undisturbed
  <2>3. UnitsOk' /\ gateway'.st = "off"
    BY <1>1, <2>1, ExpiryStarts DEF UnitsOk, Off
  <2>4. Opened'
    BY <1>1, <2>1, <2>2, <2>3 DEF Opened
  <2> QED BY <1>1, <2>2, <2>3, <2>4, UnitTypes DEF Inv
<1>8. CASE TimerElapses
  <2>1. StartExpiry(session) /\ UNCHANGED <<origin, gateway, timer, run>>
    BY <1>8 DEF TimerElapses
  <2>2. (\A p \in Procs : OnPath(p)') /\ Certified(cfg)' /\ Vouched' = Vouched
    BY <1>1, <2>1, Undisturbed
  <2>3. UnitsOk'
    BY <1>1, <2>1, ExpiryStarts DEF UnitsOk
  <2>4. Opened'
    BY <1>1, <2>1, <2>2 DEF Opened
  <2> QED BY <1>1, <2>2, <2>3, <2>4, UnitTypes DEF Inv
<1> QED BY <1>3, <1>4, <1>5, <1>6, <1>7, <1>8 DEF Units

-----------------------------------------------------------------------------
(* The commands.                                                           *)

\* A step of the holder of the lock, from its parts.
LEMMA HolderKeepsInv ==
    ASSUME Inv, NEW p \in lock, NEW r, proc' = [proc EXCEPT ![p] = r],
           \/ r \in {Idle, [pc |-> "done"]} /\ lock' = {}
           \/ IsCall(p, r) /\ r.pc # "lock" /\ lock' = lock /\ OnPath(p)',
           FilesOk', WorldOk', UnitsOk', Certified(cfg)', Opened'
    PROVE  Inv'
<1>1. TypeOK
  BY DEF Inv
<1>2. ProcsOk'
  BY <1>1, Moves
<1>3. \A q \in Procs : OnPath(q)'
  BY <1>1, OthersWait
<1> QED BY <1>2, <1>3 DEF Inv, TypeOK

\* Where the holder of the lock is.
LEMMA Holder ==
    ASSUME Inv, NEW p \in Procs, proc[p].pc \notin {"idle", "done", "lock"}
    PROVE  /\ p \in lock /\ IsCall(p, proc[p]) /\ OnPath(p) /\ TypeOK
           /\ FilesOk /\ WorldOk /\ UnitsOk /\ ProcsOk /\ Certified(cfg) /\ Opened
           /\ proc[p].a.cmd # "prepare" => proc[p].pc \notin {"pin", "plan"}
           /\ proc[p].a.cmd \notin {"prepare", "configure"} =>
                proc[p].pc \notin {"write", "gwrite", "uwrite"}
           /\ proc[p].a.cmd = "expire" \/ proc[p].a \in Commands
<1>1. TypeOK /\ ProcsOk /\ OnPath(p)
  BY DEF Inv, TypeOK
<1>2. p \in lock /\ IsCall(p, proc[p])
  BY <1>1 DEF ProcsOk, Idle
<1>3. /\ proc[p].a.cmd # "prepare" => proc[p].pc \notin {"pin", "plan"}
      /\ proc[p].a.cmd \notin {"prepare", "configure"} =>
           proc[p].pc \notin {"write", "gwrite", "uwrite"}
  BY <1>2 DEF IsCall, StepsOf
<1>4. proc[p].a.cmd = "expire" \/ proc[p].a \in Commands
  BY <1>2 DEF IsCall
<1> QED BY <1>1, <1>2, <1>3, <1>4 DEF Inv, TypeOK

\* What a step leaves alone keeps what is known of it.
LEMMA Untouched ==
    ASSUME Inv
    PROVE  /\ UNCHANGED <<cfg, lastAudit>> => Certified(cfg)' /\ Vouched' = Vouched
           /\ UNCHANGED <<cfg, origin, gateway>> => Opened'
           /\ UNCHANGED files => FilesOk'
           /\ UNCHANGED <<checkout, world>> => WorldOk'
           /\ UNCHANGED services => UnitsOk' /\ origin' = origin /\ gateway' = gateway
           /\ origin'.st = "off" /\ gateway'.st = "off" => Opened'
<1>1. FilesOk /\ WorldOk /\ UnitsOk /\ Certified(cfg) /\ Opened
  BY DEF Inv, TypeOK
<1>2. UNCHANGED <<cfg, lastAudit>> => Certified(cfg)' /\ Vouched' = Vouched
  BY <1>1 DEF Certified, Vouched
<1>3. UNCHANGED <<cfg, origin, gateway>> => Opened'
  <2>1. cfg' = cfg => Vouched' = Vouched
    BY DEF Vouched
  <2> QED BY <1>1, <2>1 DEF Opened
<1>4. UNCHANGED files => FilesOk'
  BY <1>1 DEF files, FilesOk
<1>5. UNCHANGED <<checkout, world>> => WorldOk'
  BY <1>1 DEF WorldOk
<1>6. UNCHANGED services => UnitsOk' /\ origin' = origin /\ gateway' = gateway
  BY <1>1 DEF services, UnitsOk
<1>7. origin'.st = "off" /\ gateway'.st = "off" => Opened'
  BY DEF Opened
<1> QED BY <1>2, <1>3, <1>4, <1>5, <1>6, <1>7

\* A stop of the units, done or refused.
LEMMA StopsKeep ==
    ASSUME UnitsOk, Opened, StopUnits, cfg' = cfg
    PROVE  UnitsOk' /\ Opened'
<1>1. CASE UNCHANGED services
  <2>1. Vouched' = Vouched
    BY DEF Vouched
  <2> QED BY <1>1, <2>1 DEF services, UnitsOk, Opened
<1>2. CASE ~UNCHANGED services
  <2>1. timer' = Off /\ origin' = Off /\ gateway' = Off
    BY <1>2 DEF StopUnits, OriginDown
  <2>2. expiry' = expiry \/ StartExpiry(session)
    BY <1>2 DEF StopUnits, OriginDown
  <2>3. expiry'.st \in {"off", "on"}
    BY <2>2, ExpiryStarts DEF UnitsOk
  <2>4. \/ run' = run
        \/ run' = EmptyRun
        \/ \E staged \in {run.secret, origin.st = "staged"} : run' = [run EXCEPT !.secret = staged \/ @]
    BY <1>2 DEF StopUnits, OriginDown
  <2>5. /\ DOMAIN run' = {"socks", "secret"} /\ run'.socks \subseteq {"origin", "gateway"}
        /\ run'.secret \in BOOLEAN
    <3>1. CASE run' = run
      BY <3>1 DEF UnitsOk
    <3>2. CASE run' = EmptyRun
      BY <3>2 DEF EmptyRun
    <3>3. ASSUME NEW staged \in BOOLEAN, run' = [run EXCEPT !.secret = staged \/ @]
          PROVE  /\ DOMAIN run' = {"socks", "secret"} /\ run'.socks \subseteq {"origin", "gateway"}
                 /\ run'.secret \in BOOLEAN
      BY <3>3 DEF UnitsOk
    <3>4. run.secret \in BOOLEAN /\ (origin.st = "staged") \in BOOLEAN
      BY DEF UnitsOk
    <3> QED BY <2>4, <3>1, <3>2, <3>3, <3>4
  <2>6. UnitsOk'
    BY <2>1, <2>3, <2>5 DEF UnitsOk, Off
  <2> QED BY <2>1, <2>6 DEF Opened, Off
<1> QED BY <1>1, <1>2

\* A command stops the units.
LEMMA StopKeepsInv == ASSUME Inv, NEW p \in Procs, Stop(p) PROVE Inv'
<1>1. /\ proc[p].pc = "stop" /\ StopUnits /\ proc' = [proc EXCEPT ![p].pc = "rest"]
      /\ UNCHANGED <<files, checkout, world, lock, lastAudit>> /\ cfg' = cfg
  BY DEF Stop, At, Goto, files
<1> DEFINE r == [proc[p] EXCEPT !.pc = "rest"]
<1>2. p \in lock /\ IsCall(p, proc[p]) /\ UnitsOk /\ Opened /\ ProcsOk
  BY <1>1, Holder
<1>3. IsCall(p, r) /\ r.pc = "rest"
  BY <1>1, <1>2, Goes DEF StepsOf
<1>4. proc' = [proc EXCEPT ![p] = r]
  BY <1>1
<1>5. OnPath(p)'
  BY <1>2, <1>3, <1>4 DEF OnPath, Changing, ProcsOk
<1>6. UnitsOk' /\ Opened' /\ Certified(cfg)' /\ FilesOk' /\ WorldOk'
  BY <1>1, <1>2, StopsKeep, Untouched
<1> HIDE DEF r
<1> QED BY <1>1, <1>2, <1>3, <1>4, <1>5, <1>6, HolderKeepsInv

\* A command ends an expiry service that waits, which holds no lock.
LEMMA StopExpiryKeepsInv == ASSUME Inv, NEW p \in Procs, StopExpiry(p) PROVE Inv'
<1>1. /\ proc[p].pc = "rest" /\ UNCHANGED <<files, checkout, world, origin, gateway, timer, run, lock, lastAudit>>
      /\ cfg' = cfg
  BY DEF StopExpiry, At, files
<1> DEFINE r == [proc[p] EXCEPT !.pc = "clean"]
<1>2. p \in lock /\ IsCall(p, proc[p]) /\ UnitsOk /\ Opened /\ ProcsOk /\ TypeOK
  BY <1>1, Holder
<1>3. IsCall(p, r) /\ r.pc = "clean"
  BY <1>1, <1>2, Goes DEF StepsOf
<1>4. Certified(cfg)' /\ Opened' /\ FilesOk' /\ WorldOk'
  BY <1>1, Untouched
<1>5. CASE p = "expiry"
  <2>1. proc' = [proc EXCEPT ![p] = r] /\ expiry' = expiry
    BY <1>5 DEF StopExpiry, Goto
  <2>2. OnPath(p)'
    BY <1>2, <1>3, <2>1 DEF OnPath, Changing, ProcsOk
  <2>3. UnitsOk'
    BY <1>1, <1>2, <2>1 DEF UnitsOk
  <2> HIDE DEF r
  <2> QED BY <1>1, <1>2, <1>3, <1>4, <2>1, <2>2, <2>3, HolderKeepsInv
<1>6. CASE p # "expiry"
  <2>1. expiry' = Off /\ proc' = [proc EXCEPT !["expiry"] = Idle, ![p].pc = "clean"]
    BY <1>6 DEF StopExpiry
  <2>2. "expiry" \in Procs /\ DOMAIN proc = Procs
    BY <1>2 DEF Procs, ProcsOk
  <2>3. /\ DOMAIN proc' = Procs /\ proc'["expiry"] = Idle /\ proc'[p] = r
        /\ \A q \in Procs : q \notin {p, "expiry"} => proc'[q] = proc[q]
    BY <1>6, <2>1, <2>2
  <2> HIDE DEF r
  <2>4. UnitsOk'
    BY <1>1, <1>2, <2>1 DEF UnitsOk, Off
  <2>5. \A q \in Procs : q # p => q \notin lock
    BY <1>2 DEF ProcsOk, AtMostOne
  <2>6. ProcsOk'
    <3>1. ASSUME NEW q \in Procs
          PROVE  /\ proc'[q] \in {Idle, [pc |-> "done"]} \/ IsCall(q, proc'[q])
                 /\ q \in lock' <=> proc'[q].pc \notin {"idle", "done", "lock"}
      <4>1. CASE q = p
        BY <1>1, <1>2, <1>3, <2>3, <4>1
      <4>2. CASE q = "expiry"
        BY <1>1, <1>6, <2>3, <2>5, <4>2 DEF Idle
      <4>3. CASE q \notin {p, "expiry"}
        BY <1>1, <1>2, <2>3, <4>3 DEF ProcsOk
      <4> QED BY <4>1, <4>2, <4>3
    <3> QED BY <1>1, <1>2, <2>3, <3>1 DEF ProcsOk
  <2>7. ASSUME NEW q \in Procs PROVE OnPath(q)'
    <3>1. proc'[q].pc \in {"idle", "done", "lock", "clean"}
      <4>1. CASE q = p
        BY <1>3, <2>3, <4>1
      <4>2. CASE q = "expiry"
        BY <2>3, <4>2 DEF Idle
      <4>3. CASE q \notin {p, "expiry"}
        BY <1>2, <2>3, <4>3, Waiting
      <4> QED BY <4>1, <4>2, <4>3
    <3> QED BY <3>1 DEF OnPath, Changing
  <2> QED BY <1>4, <2>4, <2>6, <2>7 DEF Inv, TypeOK
<1> QED BY <1>5, <1>6

\* What was stopped is verified: only then the configuration may change.
LEMMA CleanKeepsInv == ASSUME Inv, NEW p \in Procs, Clean(p) PROVE Inv'
<1>1. /\ proc[p].pc = "clean" /\ run' = EmptyRun
      /\ UNCHANGED <<files, checkout, world, origin, gateway, timer, lastAudit>> /\ cfg' = cfg
      /\ expiry' \in {Off, expiry}
  BY DEF Clean, At, files
<1>2. p \in lock /\ IsCall(p, proc[p]) /\ UnitsOk /\ ProcsOk
      /\ (proc[p].a.cmd = "expire" \/ proc[p].a \in Commands)
  BY <1>1, Holder
<1>3. Certified(cfg)' /\ Opened' /\ FilesOk' /\ WorldOk'
  BY <1>1, Untouched
<1>4. UnitsOk'
  BY <1>1, <1>2 DEF UnitsOk, Off, EmptyRun
<1> DEFINE stopped == origin.st = "off" /\ gateway.st = "off" /\ timer.st = "off"
<1>5. CASE stopped /\ proc[p].a.cmd # "start" /\ AfterStop(p) # "done"
  <2> DEFINE r == [proc[p] EXCEPT !.pc = AfterStop(p)]
  <2>1. proc' = [proc EXCEPT ![p] = r] /\ lock' = lock
    BY <1>5 DEF Clean, Goto
  <2>2. /\ AfterStop(p) \in StepsOf(proc[p].a.cmd) /\ AfterStop(p) \in {"pin", "write", "pop"}
        /\ AfterStop(p) = "write" => proc[p].a.cmd = "configure"
    BY <1>5 DEF AfterStop, StepsOf
  <2>3. AfterStop(p) = "write" => proc[p].c # {}
    BY <1>1, <1>2, <2>2 DEF IsCall
  <2>4. IsCall(p, r) /\ r.pc = AfterStop(p) /\ r.a = proc[p].a
    BY <1>1, <1>2, <2>2, <2>3, Goes
  <2> HIDE DEF r
  <2>5. OnPath(p)'
    BY <1>1, <1>2, <1>5, <2>1, <2>2, <2>4 DEF OnPath, ProcsOk
  <2> QED BY <1>2, <1>3, <1>4, <2>1, <2>2, <2>4, <2>5, HolderKeepsInv
<1>6. CASE ~(stopped /\ proc[p].a.cmd # "start" /\ AfterStop(p) # "done")
  <2>1. proc[p].a.cmd = "start" => AfterStop(p) = "done"
    BY DEF AfterStop
  <2>2. Return(p) \/ Succeed(p)
    BY <1>6, <2>1 DEF Clean
  <2>3. PICK r \in {Idle, [pc |-> "done"]} : proc' = [proc EXCEPT ![p] = r] /\ lock' = {}
    BY <2>2 DEF Return, Succeed
  <2> QED BY <1>2, <1>3, <1>4, <2>3, HolderKeepsInv
<1> QED BY <1>5, <1>6

\* A command that returns changes nothing else.
LEMMA ReturnKeepsInv ==
    ASSUME Inv, NEW p \in lock, Return(p) \/ Succeed(p),
           FilesOk', WorldOk', UnitsOk', Certified(cfg)', Opened'
    PROVE  Inv'
<1>1. PICK r \in {Idle, [pc |-> "done"]} : proc' = [proc EXCEPT ![p] = r] /\ lock' = {}
  BY DEF Return, Succeed
<1> QED BY <1>1, HolderKeepsInv

\* prepare pins the checkout.
LEMMA PreparePinKeepsInv == ASSUME Inv, NEW p \in Procs, PreparePin(p) PROVE Inv'
<1>1. /\ proc[p].pc = "pin" /\ UNCHANGED <<files, checkout, world, services, lastAudit>>
      /\ cfg' = cfg /\ origin' = origin /\ gateway' = gateway
  BY DEF PreparePin, At, files, services
<1>2. p \in lock /\ IsCall(p, proc[p]) /\ OnPath(p) /\ ProcsOk /\ proc[p].a.cmd = "prepare"
  BY <1>1, Holder
<1>3. Certified(cfg)' /\ Opened' /\ FilesOk' /\ WorldOk' /\ UnitsOk'
  BY <1>1, Untouched
<1>4. CASE Return(p)
  BY <1>2, <1>3, <1>4, ReturnKeepsInv
<1>5. CASE ~Return(p)
  <2>1. PICK c : /\ proc' = [proc EXCEPT ![p] = [@ EXCEPT !.pc = "plan", !.c = {c}]]
                 /\ lock' = lock
    BY <1>5 DEF PreparePin, GotoWith
  <2>2. PICK r : r = [proc[p] EXCEPT !.pc = "plan", !.c = {c}] /\ proc' = [proc EXCEPT ![p] = r]
    BY <2>1
  <2>3. IsCall(p, r) /\ r.pc = "plan"
    <3>1. "plan" \in StepsOf(proc[p].a.cmd) /\ AtMostOne({c}) /\ {c} # {}
      BY <1>2 DEF StepsOf, AtMostOne
    <3>2. DOMAIN r = {"pc", "a", "c", "ok"} /\ r.pc = "plan" /\ r.a = proc[p].a /\ r.c = {c}
      BY <1>2, <2>2 DEF IsCall
    <3> QED BY <1>2, <3>1, <3>2, GoesWith
  <2>4. OnPath(p)'
    BY <1>1, <1>2, <2>2, <2>3 DEF OnPath, ProcsOk, Changing
  <2> QED BY <1>2, <1>3, <2>1, <2>2, <2>3, <2>4, HolderKeepsInv
<1> QED BY <1>4, <1>5

\* Attestations that are kept are attestations of the configuration.
LEMMA KeptWasThere ==
    ASSUME FilesOk, Certified(cfg), NEW i, NEW j
    PROVE  AtMostOne(Kept(i, j)) /\ (Kept(i, j) # {} => lastAudit = "passed")
<1>1. \A a \in Kept(i, j) : \E c \in cfg : a \in c.att
  BY DEF Kept
<1> QED BY <1>1 DEF FilesOk, IsConfig, AtMostOne, Certified

\* prepare makes the configuration, with the attestation it may keep.
LEMMA PreparePlanKeepsInv == ASSUME Inv, NEW p \in Procs, PreparePlan(p) PROVE Inv'
<1>1. /\ proc[p].pc = "plan" /\ UNCHANGED <<files, checkout, world, services, lastAudit, lock>>
      /\ cfg' = cfg /\ origin' = origin /\ gateway' = gateway
  BY DEF PreparePlan, At, files, services
<1>2. /\ p \in lock /\ IsCall(p, proc[p]) /\ OnPath(p) /\ ProcsOk /\ proc[p].a.cmd = "prepare"
      /\ proc[p].a \in Commands /\ FilesOk /\ Certified(cfg)
  BY <1>1, Holder
<1>3. Certified(cfg)' /\ Opened' /\ FilesOk' /\ WorldOk' /\ UnitsOk'
  BY <1>1, Untouched
<1> DEFINE a == proc[p].a
           ident == IF a.ident = None /\ cfg # {} THEN (CHOOSE c \in cfg : TRUE).ident ELSE a.ident
<1>4. PICK part \in proc[p].c :
        GotoWith(p, "write",
          [project |-> a.project, pin |-> part.pin, masks |-> MaskPlan(checkout[a.project]),
           ident |-> ident, window |-> a.window, rt |-> Integrity,
           att |-> Kept(ident, a.project)])
  BY DEF PreparePlan
<1>5. PICK c : c = [project |-> a.project, pin |-> part.pin, masks |-> MaskPlan(checkout[a.project]),
                    ident |-> ident, window |-> a.window, rt |-> Integrity,
                    att |-> Kept(ident, a.project)]
  OBVIOUS
<1>6. ident \in Idents \cup {None} /\ a.project \in Projects /\ a.window \in Windows
  <2>1. a.ident \in Idents \cup {None} /\ a.project \in Projects /\ a.window \in Windows
    BY <1>2, Arguments
  <2>2. cfg # {} => (CHOOSE x \in cfg : TRUE).ident \in Idents \cup {None}
    BY <1>2 DEF FilesOk, IsConfig
  <2> QED BY <2>1, <2>2
<1>7. AtMostOne(Kept(ident, a.project)) /\ (Kept(ident, a.project) # {} => lastAudit = "passed")
  BY <1>2, KeptWasThere
<1>8. IsConfig(c) /\ (c.att # {} => lastAudit = "passed")
  BY <1>5, <1>6, <1>7 DEF IsConfig
<1>9. PICK r : r = [proc[p] EXCEPT !.pc = "write", !.c = {c}] /\ proc' = [proc EXCEPT ![p] = r]
  BY <1>4, <1>5 DEF GotoWith
<1>10. IsCall(p, r) /\ r.pc = "write" /\ r.c = {c}
  <2>1. "write" \in StepsOf(proc[p].a.cmd) /\ AtMostOne({c}) /\ {c} # {}
    BY <1>2 DEF StepsOf, AtMostOne
  <2>2. \A x \in {c} : IsConfig(x)
    BY <1>8
  <2>3. DOMAIN r = {"pc", "a", "c", "ok"} /\ r.pc = "write" /\ r.a = proc[p].a /\ r.c = {c}
    BY <1>2, <1>9 DEF IsCall
  <2> QED BY <1>2, <2>1, <2>2, <2>3, GoesWith
<1>11. OnPath(p)'
  BY <1>1, <1>2, <1>8, <1>9, <1>10 DEF OnPath, ProcsOk, Changing, Certified
<1> QED BY <1>1, <1>2, <1>3, <1>9, <1>10, <1>11, HolderKeepsInv

\* The configuration is written while the services are down.
LEMMA WriteConfigKeepsInv == ASSUME Inv, NEW p \in Procs, WriteConfig(p) PROVE Inv'
<1>1. /\ proc[p].pc = "write" /\ UNCHANGED <<gcfg, units, checkout, world, services, lastAudit, lock>>
      /\ origin' = origin /\ gateway' = gateway
      /\ proc' = [proc EXCEPT ![p] = [@ EXCEPT !.pc = "gwrite", !.c = cfg']]
      /\ cfg' = IF proc[p].a.cmd = "prepare" THEN proc[p].c
                ELSE {[c EXCEPT !.ident = proc[p].a.ident, !.att = {}] : c \in proc[p].c}
  BY DEF WriteConfig, At, services
<1>2. /\ p \in lock /\ IsCall(p, proc[p]) /\ OnPath(p) /\ ProcsOk /\ FilesOk
      /\ proc[p].a.cmd \in {"prepare", "configure"}
      /\ (proc[p].a.cmd = "expire" \/ proc[p].a \in Commands)
  BY <1>1, Holder
<1>3. WorldOk' /\ UnitsOk' /\ Opened'
  BY <1>1, <1>2, Untouched DEF OnPath, Changing
<1>4. AtMostOne(cfg') /\ (\A c \in cfg' : IsConfig(c)) /\ cfg' # {} /\ Certified(cfg)'
  <2>1. AtMostOne(proc[p].c) /\ (\A c \in proc[p].c : IsConfig(c)) /\ proc[p].c # {}
    BY <1>1, <1>2 DEF IsCall
  <2>2. CASE proc[p].a.cmd = "prepare"
    BY <1>1, <1>2, <2>1, <2>2 DEF OnPath, Certified
  <2>3. CASE proc[p].a.cmd = "configure"
    <3>1. proc[p].a.ident \in Idents
      BY <1>2, <2>3, Arguments
    <3>2. ASSUME NEW c \in proc[p].c
          PROVE  /\ IsConfig([c EXCEPT !.ident = proc[p].a.ident, !.att = {}])
                 /\ [c EXCEPT !.ident = proc[p].a.ident, !.att = {}].att = {}
      BY <2>1, <3>1 DEF IsConfig, AtMostOne
    <3>3. cfg' = {[c EXCEPT !.ident = proc[p].a.ident, !.att = {}] : c \in proc[p].c}
      BY <1>1, <2>3
    <3>4. \A c \in cfg' : IsConfig(c) /\ c.att = {}
      BY <3>2, <3>3
    <3>5. AtMostOne(cfg') /\ cfg' # {}
      BY <2>1, <3>3 DEF AtMostOne
    <3> QED BY <3>4, <3>5 DEF Certified
  <2> QED BY <1>2, <2>2, <2>3
<1>5. FilesOk'
  BY <1>1, <1>2, <1>4 DEF FilesOk
<1>6. PICK r : r = [proc[p] EXCEPT !.pc = "gwrite", !.c = cfg'] /\ proc' = [proc EXCEPT ![p] = r]
  BY <1>1
<1>7. IsCall(p, r) /\ r.pc = "gwrite"
  <2>1. "gwrite" \in StepsOf(proc[p].a.cmd)
    BY <1>2 DEF StepsOf
  <2>2. DOMAIN r = {"pc", "a", "c", "ok"} /\ r.pc = "gwrite" /\ r.a = proc[p].a /\ r.c = cfg'
    BY <1>2, <1>6 DEF IsCall
  <2> QED BY <1>2, <1>4, <2>1, <2>2, GoesWith
<1>8. OnPath(p)'
  BY <1>1, <1>2, <1>6, <1>7 DEF OnPath, ProcsOk, Changing
<1> QED BY <1>1, <1>2, <1>3, <1>4, <1>5, <1>6, <1>7, <1>8, HolderKeepsInv

\* The gateway's part of the configuration follows.
LEMMA WriteGatewayKeepsInv == ASSUME Inv, NEW p \in Procs, WriteGateway(p) PROVE Inv'
<1>1. /\ proc[p].pc = "gwrite" /\ gcfg' = (CHOOSE c \in proc[p].c : TRUE).ident
      /\ UNCHANGED <<cfg, units, checkout, world, services, lastAudit, lock>>
      /\ origin' = origin /\ gateway' = gateway
      /\ proc' = [proc EXCEPT ![p].pc = "uwrite"]
  BY DEF WriteGateway, At, Goto, services
<1>2. /\ p \in lock /\ IsCall(p, proc[p]) /\ OnPath(p) /\ ProcsOk /\ FilesOk
      /\ proc[p].a.cmd \in {"prepare", "configure"}
  BY <1>1, Holder
<1>3. WorldOk' /\ UnitsOk' /\ Opened' /\ Certified(cfg)'
  BY <1>1, Untouched
<1>4. (\A c \in proc[p].c : IsConfig(c)) /\ proc[p].c # {}
  BY <1>1, <1>2 DEF IsCall
<1>5. FilesOk'
  BY <1>1, <1>2, <1>4 DEF FilesOk, IsConfig
<1> DEFINE r == [proc[p] EXCEPT !.pc = "uwrite"]
<1>6. IsCall(p, r) /\ r.pc = "uwrite" /\ proc' = [proc EXCEPT ![p] = r]
  <2>1. "uwrite" \in StepsOf(proc[p].a.cmd)
    BY <1>2 DEF StepsOf
  <2> QED BY <1>1, <1>2, <1>4, <2>1, Goes
<1> HIDE DEF r
<1>7. OnPath(p)'
  BY <1>1, <1>2, <1>6 DEF OnPath, ProcsOk, Changing
<1> QED BY <1>1, <1>2, <1>3, <1>5, <1>6, <1>7, HolderKeepsInv

\* The units follow.
LEMMA InstallUnitsKeepsInv == ASSUME Inv, NEW p \in Procs, InstallUnits(p) PROVE Inv'
<1>1. /\ proc[p].pc = "uwrite" /\ units' = (CHOOSE c \in proc[p].c : TRUE).window
      /\ UNCHANGED <<cfg, gcfg, checkout, world, services, lastAudit>>
      /\ origin' = origin /\ gateway' = gateway
      /\ \/ proc' = [proc EXCEPT ![p].pc = "stop"] /\ lock' = lock
         \/ Succeed(p)
  BY DEF InstallUnits, At, Goto, services
<1>2. p \in lock /\ IsCall(p, proc[p]) /\ ProcsOk /\ FilesOk
  BY <1>1, Holder
<1>3. WorldOk' /\ UnitsOk' /\ Opened' /\ Certified(cfg)'
  BY <1>1, Untouched
<1>4. (\A c \in proc[p].c : IsConfig(c)) /\ proc[p].c # {}
  BY <1>1, <1>2 DEF IsCall
<1>5. FilesOk'
  BY <1>1, <1>2, <1>4 DEF FilesOk, IsConfig
<1>6. CASE Succeed(p)
  BY <1>2, <1>3, <1>5, <1>6, ReturnKeepsInv
<1>7. CASE proc' = [proc EXCEPT ![p].pc = "stop"] /\ lock' = lock
  <2> DEFINE r == [proc[p] EXCEPT !.pc = "stop"]
  <2>1. IsCall(p, r) /\ r.pc = "stop" /\ proc' = [proc EXCEPT ![p] = r]
    <3>1. "stop" \in StepsOf(proc[p].a.cmd)
      BY DEF StepsOf
    <3> QED BY <1>1, <1>2, <1>7, <3>1, Goes
  <2> HIDE DEF r
  <2>2. OnPath(p)'
    BY <1>2, <2>1 DEF OnPath, ProcsOk, Changing
  <2> QED BY <1>2, <1>3, <1>5, <1>7, <2>1, <2>2, HolderKeepsInv
<1> QED BY <1>1, <1>6, <1>7

\* start goes on only with an attestation that speaks for the configuration.
LEMMA ReadConfigKeepsInv == ASSUME Inv, NEW p \in Procs, ReadConfig(p) PROVE Inv'
<1>1. /\ proc[p].pc = "read" /\ UNCHANGED <<files, checkout, world, services, lastAudit>>
      /\ cfg' = cfg /\ origin' = origin /\ gateway' = gateway
  BY DEF ReadConfig, At, files, services
<1>2. /\ p \in lock /\ IsCall(p, proc[p]) /\ ProcsOk /\ FilesOk
      /\ proc[p].a.cmd \in {"configure", "start"}
  BY <1>1, Holder DEF IsCall, StepsOf
<1>3. Certified(cfg)' /\ Opened' /\ FilesOk' /\ WorldOk' /\ UnitsOk' /\ Vouched' = Vouched
  BY <1>1, Untouched
<1>4. CASE Return(p)
  BY <1>2, <1>3, <1>4, ReturnKeepsInv
<1>5. CASE ~Return(p)
  <2> DEFINE pc == IF proc[p].a.cmd = "start" THEN "posture" ELSE "stop"
  <2>1. /\ proc' = [proc EXCEPT ![p] = [@ EXCEPT !.c = cfg, !.pc = pc]] /\ lock' = lock
        /\ \E c \in cfg : RuntimeOk(c) /\ (proc[p].a.cmd = "start" => HardeningCurrent(c))
    BY <1>5 DEF ReadConfig
  <2>2. PICK r : r = [proc[p] EXCEPT !.c = cfg, !.pc = pc] /\ proc' = [proc EXCEPT ![p] = r]
    BY <2>1
  <2>3. DOMAIN r = {"pc", "a", "c", "ok"} /\ r.pc = pc /\ r.a = proc[p].a /\ r.c = cfg
    BY <1>2, <2>2 DEF IsCall
  <2>4. pc \in StepsOf(proc[p].a.cmd) /\ pc \in {"posture", "stop"}
        /\ (pc = "posture" => proc[p].a.cmd = "start")
    BY <1>2 DEF StepsOf
  <2> HIDE DEF pc
  <2>5. IsCall(p, r)
    BY <1>2, <2>1, <2>3, <2>4, GoesWith DEF FilesOk
  <2>6. pc = "posture" => Vouched
    BY <2>1, <2>4 DEF HardeningCurrent, Vouched
  <2>7. OnPath(p)'
    BY <1>2, <1>3, <2>2, <2>3, <2>4, <2>6 DEF OnPath, ProcsOk, Changing
  <2> QED BY <1>2, <1>3, <2>1, <2>2, <2>3, <2>4, <2>5, <2>7, HolderKeepsInv
<1> QED BY <1>4, <1>5

\* A step that only goes on to a place where nothing more is asked.
LEMMA GoingOnKeepsInv ==
    ASSUME Inv, NEW p \in lock, IsCall(p, proc[p]), proc[p].a.cmd = "start",
           NEW pc \in StepsOf("start"), pc # "lock",
           pc \in {"posture", "restart", "launch"} => Vouched',
           proc' = [proc EXCEPT ![p].pc = pc], lock' = lock,
           FilesOk', WorldOk', UnitsOk', Certified(cfg)', Opened'
    PROVE  Inv'
<1>1. PICK r : r = [proc[p] EXCEPT !.pc = pc] /\ proc' = [proc EXCEPT ![p] = r]
  OBVIOUS
<1>2. /\ DOMAIN r = {"pc", "a", "c", "ok"} /\ r.pc = pc /\ r.a = proc[p].a /\ r.c = proc[p].c
  BY <1>1 DEF IsCall
<1>3. /\ pc \notin {"plan", "write", "gwrite", "uwrite", "pin", "pop", "remote", "local", "attest"}
      /\ proc[p].pc # "plan"
  BY DEF StepsOf, IsCall
<1>4. IsCall(p, r)
  BY <1>2, <1>3 DEF IsCall
<1>5. p \in Procs /\ DOMAIN proc = Procs
  BY DEF Inv, TypeOK, ProcsOk
<1>6. OnPath(p)'
  BY <1>1, <1>2, <1>3, <1>5 DEF OnPath, Changing
<1> QED BY <1>1, <1>2, <1>4, <1>6, HolderKeepsInv

\* The later steps of start.
LEMMA StartKeepsInv ==
    ASSUME Inv, NEW p \in Procs,
           \/ StartPosture(p) \/ StartClears(p) \/ StartLaunches(p)
           \/ StartReady(p) \/ StartGivesUp(p)
    PROVE  Inv'
<1>1. /\ proc[p].pc \in {"posture", "restart", "launch", "wait"}
      /\ UNCHANGED <<files, checkout, world, lastAudit>> /\ cfg' = cfg
  BY DEF StartPosture, StartClears, StartLaunches, StartReady, StartGivesUp, At, files
<1>2. /\ p \in lock /\ IsCall(p, proc[p]) /\ OnPath(p) /\ UnitsOk /\ Opened
      /\ proc[p].a.cmd = "start"
  <2>1. p \in lock /\ IsCall(p, proc[p]) /\ OnPath(p) /\ UnitsOk /\ Opened
    BY <1>1, Holder
  <2> QED BY <1>1, <2>1 DEF IsCall, StepsOf
<1>3. Certified(cfg)' /\ FilesOk' /\ WorldOk' /\ Vouched' = Vouched
  BY <1>1, Untouched
<1>4. proc[p].pc \in {"posture", "restart", "launch"} => Vouched
  BY <1>2 DEF OnPath
<1>5. {"restart", "launch", "wait", "stop"} \subseteq StepsOf("start")
  BY DEF StepsOf
<1>6. CASE StartPosture(p) \/ StartReady(p) \/ StartGivesUp(p)
  <2>1. UnitsOk' /\ Opened'
    <3>1. UNCHANGED services /\ cfg' = cfg
      BY <1>1, <1>6 DEF StartPosture, StartReady, StartGivesUp
    <3>2. UNCHANGED <<cfg, origin, gateway>>
      BY <3>1 DEF services
    <3> QED BY <3>1, <3>2, Untouched
  <2>2. CASE Return(p) \/ Succeed(p)
    BY <1>2, <1>3, <2>1, <2>2, ReturnKeepsInv
  <2>3. CASE ~(Return(p) \/ Succeed(p))
    <3>1. PICK pc \in {"restart", "stop"} :
            /\ proc' = [proc EXCEPT ![p].pc = pc] /\ lock' = lock
            /\ pc = "restart" => proc[p].pc = "posture"
      BY <1>6, <2>3 DEF StartPosture, StartReady, StartGivesUp, Goto, At
    <3>2. pc = "restart" => Vouched'
      BY <1>3, <1>4, <3>1
    <3> QED BY <1>2, <1>3, <1>5, <2>1, <3>1, <3>2, GoingOnKeepsInv
  <2> QED BY <2>2, <2>3
<1>7. CASE StartClears(p)
  <2>1. /\ proc[p].pc = "restart" /\ StopUnits /\ lock' = lock
        /\ proc' = [proc EXCEPT ![p].pc = "launch"]
    BY <1>7 DEF StartClears, At, Goto
  <2>2. UnitsOk' /\ Opened'
    BY <1>1, <1>2, <2>1, StopsKeep
  <2>3. Vouched'
    BY <1>3, <1>4, <2>1
  <2> QED BY <1>2, <1>3, <1>5, <2>1, <2>2, <2>3, GoingOnKeepsInv
<1>8. CASE StartLaunches(p)
  <2>1. /\ proc[p].pc = "launch" /\ lock' = lock /\ UNCHANGED <<expiry, run>>
        /\ proc' = [proc EXCEPT ![p].pc = "wait"]
        /\ origin'  = IF origin.st = "off" THEN [st |-> "up"] ELSE origin
        /\ gateway' = IF gateway.st = "off" THEN [st |-> "up"] ELSE gateway
        /\ timer'   = [st |-> "on"]
    BY <1>8 DEF StartLaunches, At, Goto
  <2>2. origin'.st = "up" \/ origin' = origin
    BY <2>1
  <2>3. gateway'.st = "up" \/ gateway' = gateway
    BY <2>1
  <2>4. UnitsOk'
    BY <1>2, <2>1, <2>2, <2>3 DEF UnitsOk
  <2>5. Opened'
    BY <1>1, <1>2, <1>3, <1>4, <2>1, <2>2, <2>3 DEF Opened
  <2> QED BY <1>2, <1>3, <1>5, <2>1, <2>4, <2>5, GoingOnKeepsInv
<1> QED BY <1>6, <1>7, <1>8

\* The steps of an audit, while the services are down.
LEMMA AuditGoesOnKeepsInv ==
    ASSUME Inv, NEW p \in lock, IsCall(p, proc[p]), proc[p].a.cmd = "audit",
           proc[p].pc \in {"pop", "remote", "local", "attest"}, OnPath(p),
           UNCHANGED <<gcfg, units, checkout, world, services>>,
           AtMostOne(cfg'), \A c \in cfg' : IsConfig(c),
           \/ Return(p) \/ Succeed(p)
           \/ /\ lock' = lock
              /\ \E r : /\ proc' = [proc EXCEPT ![p] = r] /\ IsCall(p, r)
                        /\ r.pc \in {"remote", "local", "attest"}
                        /\ r.pc = "attest" => lastAudit' = "passed"
                        /\ \A c \in cfg' : c.att = {},
           Certified(cfg)'
    PROVE  Inv'
<1>1. WorldOk' /\ UnitsOk' /\ Opened' /\ origin'.st = "off" /\ gateway'.st = "off"
  <2>1. origin.st = "off" /\ gateway.st = "off"
    BY DEF OnPath, Changing
  <2> QED BY <2>1, Untouched
<1>2. FilesOk'
  <2>1. FilesOk
    BY DEF Inv, TypeOK
  <2> QED BY <2>1 DEF FilesOk
<1>3. CASE Return(p) \/ Succeed(p)
  BY <1>1, <1>2, <1>3, ReturnKeepsInv
<1>4. CASE /\ lock' = lock
           /\ \E r : /\ proc' = [proc EXCEPT ![p] = r] /\ IsCall(p, r)
                     /\ r.pc \in {"remote", "local", "attest"}
                     /\ r.pc = "attest" => lastAudit' = "passed"
                     /\ \A c \in cfg' : c.att = {}
  <2>1. PICK r : /\ proc' = [proc EXCEPT ![p] = r] /\ IsCall(p, r)
                 /\ r.pc \in {"remote", "local", "attest"}
                 /\ r.pc = "attest" => lastAudit' = "passed"
                 /\ \A c \in cfg' : c.att = {}
    BY <1>4
  <2>2. p \in Procs /\ DOMAIN proc = Procs
    BY DEF Inv, TypeOK, ProcsOk
  <2>3. OnPath(p)'
    BY <1>1, <2>1, <2>2 DEF OnPath
  <2> QED BY <1>1, <1>2, <1>4, <2>1, <2>3, HolderKeepsInv
<1> QED BY <1>3, <1>4

\* The steps of an audit.
LEMMA AuditKeepsInv ==
    ASSUME Inv, NEW p \in Procs,
           AuditWithdraws(p) \/ AuditReadsRemote(p) \/ AuditJudges(p) \/ AuditAttests(p)
    PROVE  Inv'
<1>1. /\ proc[p].pc \in {"pop", "remote", "local", "attest"}
      /\ UNCHANGED <<gcfg, units, checkout, world, services>>
  BY DEF AuditWithdraws, AuditReadsRemote, AuditJudges, AuditAttests, At, files
<1>2. /\ p \in lock /\ IsCall(p, proc[p]) /\ OnPath(p) /\ FilesOk /\ Certified(cfg)
      /\ proc[p].a.cmd = "audit"
  <2>1. p \in lock /\ IsCall(p, proc[p]) /\ OnPath(p) /\ FilesOk /\ Certified(cfg)
    BY <1>1, Holder
  <2> QED BY <1>1, <2>1 DEF IsCall, StepsOf
<1>3. DOMAIN proc[p] = {"pc", "a", "c", "ok"}
  BY <1>2 DEF IsCall
<1>4. /\ AtMostOne(cfg) /\ (\A c \in cfg : IsConfig(c))
      /\ AtMostOne(proc[p].c) /\ (\A c \in proc[p].c : IsConfig(c))
  BY <1>1, <1>2 DEF FilesOk, IsCall
<1>5. {"remote", "local", "attest"} \subseteq StepsOf("audit")
  BY DEF StepsOf
<1>6. CASE AuditWithdraws(p)
  <2>1. CASE Return(p) /\ cfg' = cfg /\ lastAudit' = lastAudit
    <3>1. Certified(cfg)'
      BY <1>2, <2>1 DEF Certified
    <3> QED BY <1>1, <1>2, <1>4, <2>1, <3>1, AuditGoesOnKeepsInv
  <2>2. CASE ~(Return(p) /\ cfg' = cfg /\ lastAudit' = lastAudit)
    <3>1. /\ cfg' = {Withdrawn(c) : c \in cfg} /\ lock' = lock /\ cfg # {}
          /\ proc' = [proc EXCEPT ![p] = [@ EXCEPT !.pc = "remote", !.c = cfg']]
      BY <1>6, <2>2 DEF AuditWithdraws
    <3>2. \A c \in cfg : IsConfig(Withdrawn(c)) /\ Withdrawn(c).att = {}
      BY <1>4 DEF Withdrawn, IsConfig, AtMostOne
    <3>3. AtMostOne(cfg') /\ (\A c \in cfg' : IsConfig(c) /\ c.att = {}) /\ cfg' # {}
      BY <1>4, <3>1, <3>2 DEF AtMostOne
    <3>4. PICK r : r = [proc[p] EXCEPT !.pc = "remote", !.c = cfg'] /\ proc' = [proc EXCEPT ![p] = r]
      BY <3>1
    <3>5. DOMAIN r = {"pc", "a", "c", "ok"} /\ r.pc = "remote" /\ r.a = proc[p].a /\ r.c = cfg'
      BY <1>3, <3>4
    <3>6. IsCall(p, r)
      BY <1>2, <1>5, <3>3, <3>5, GoesWith
    <3>7. Certified(cfg)'
      BY <3>3 DEF Certified
    <3>8. \E x : /\ proc' = [proc EXCEPT ![p] = x] /\ IsCall(p, x)
                 /\ x.pc \in {"remote", "local", "attest"}
                 /\ x.pc = "attest" => lastAudit' = "passed"
                 /\ \A c \in cfg' : c.att = {}
      BY <3>3, <3>4, <3>5, <3>6
    <3> QED BY <1>1, <1>2, <3>1, <3>3, <3>7, <3>8, AuditGoesOnKeepsInv
  <2> QED BY <2>1, <2>2
<1>7. CASE AuditReadsRemote(p) \/ AuditJudges(p)
  <2>1. /\ cfg' = cfg /\ proc[p].pc \in {"remote", "local"} /\ \A c \in cfg : c.att = {}
    BY <1>2, <1>7 DEF AuditReadsRemote, AuditJudges, OnPath, At, files
  <2>2. Certified(cfg)'
    BY <2>1 DEF Certified
  <2>3. CASE Return(p)
    BY <1>1, <1>2, <1>4, <2>1, <2>2, <2>3, AuditGoesOnKeepsInv
  <2>4. CASE ~Return(p)
    <3>1. /\ lock' = lock
          /\ \/ proc' = [proc EXCEPT ![p] = [@ EXCEPT !.pc = "local", !.ok = {world.conn}]]
             \/ proc' = [proc EXCEPT ![p].pc = "attest"] /\ lastAudit' = "passed"
      BY <1>7, <2>4 DEF AuditReadsRemote, AuditJudges, Goto
    <3>2. PICK r : /\ proc' = [proc EXCEPT ![p] = r]
                   /\ \/ r = [proc[p] EXCEPT !.pc = "local", !.ok = {world.conn}]
                      \/ r = [proc[p] EXCEPT !.pc = "attest"] /\ lastAudit' = "passed"
      BY <3>1
    <3>3. /\ DOMAIN r = {"pc", "a", "c", "ok"} /\ r.pc \in {"local", "attest"}
          /\ r.a = proc[p].a /\ r.c = proc[p].c /\ (r.pc = "attest" => lastAudit' = "passed")
      BY <1>3, <3>2
    <3>4. IsCall(p, r)
      BY <1>2, <1>4, <1>5, <3>3 DEF IsCall
    <3>5. \E x : /\ proc' = [proc EXCEPT ![p] = x] /\ IsCall(p, x)
                 /\ x.pc \in {"remote", "local", "attest"}
                 /\ x.pc = "attest" => lastAudit' = "passed"
                 /\ \A c \in cfg' : c.att = {}
      BY <2>1, <3>2, <3>3, <3>4
    <3> QED BY <1>1, <1>2, <1>4, <2>1, <2>2, <3>1, <3>5, AuditGoesOnKeepsInv
  <2> QED BY <2>3, <2>4
<1>8. CASE AuditAttests(p)
  <2>1. PICK x : x = CHOOSE n \in proc[p].ok : TRUE
    OBVIOUS
  <2>2. PICK t : t = world.now
    OBVIOUS
  <2>3. /\ proc[p].pc = "attest" /\ Succeed(p) /\ lastAudit' = lastAudit
        /\ cfg' = {[c EXCEPT !.att = {[identity |-> Identity(c), conn |-> x, at |-> t]}] : c \in proc[p].c}
    BY <1>8, <2>1, <2>2 DEF AuditAttests, At
  <2>4. ASSUME NEW c \in proc[p].c
        PROVE  IsConfig([c EXCEPT !.att = {[identity |-> Identity(c), conn |-> x, at |-> t]}])
    <3>1. PICK a : a = [identity |-> Identity(c), conn |-> x, at |-> t]
      OBVIOUS
    <3>2. IsConfig([c EXCEPT !.att = {a}])
      BY <1>4 DEF IsConfig, AtMostOne
    <3> QED BY <3>1, <3>2
  <2>5. AtMostOne(cfg') /\ \A c \in cfg' : IsConfig(c)
    BY <1>4, <2>3, <2>4 DEF AtMostOne
  <2>6. Certified(cfg)'
    BY <1>2, <2>3 DEF OnPath, Certified
  <2> QED BY <1>1, <1>2, <2>3, <2>5, <2>6, AuditGoesOnKeepsInv
<1> QED BY <1>6, <1>7, <1>8

\* Every step of the holder of the lock.
LEMMA StepKeepsInv == ASSUME Inv, NEW p \in Procs, Step(p) PROVE Inv'
<1> QED BY StopKeepsInv, StopExpiryKeepsInv, CleanKeepsInv, PreparePinKeepsInv,
           PreparePlanKeepsInv, WriteConfigKeepsInv, WriteGatewayKeepsInv,
           InstallUnitsKeepsInv, ReadConfigKeepsInv, StartKeepsInv, AuditKeepsInv DEF Step

\* One process changes and the lock with it; nothing else does.
LEMMA OneMovesKeepsInv ==
    ASSUME Inv, NEW p \in Procs, NEW r, proc' = [proc EXCEPT ![p] = r],
           UNCHANGED <<files, checkout, world, services, lastAudit>>,
           lock' \subseteq Procs, AtMostOne(lock'),
           \A q \in Procs \ {p} : q \in lock' <=> q \in lock,
           p \in lock' <=> r.pc \notin {"idle", "done", "lock"},
           r \in {Idle, [pc |-> "done"]} \/ IsCall(p, r),
           r.pc \in {"idle", "lock", "read", "stop"}
    PROVE  Inv'
<1>1. ProcsOk /\ (\A q \in Procs : OnPath(q)) /\ p \in DOMAIN proc
  BY DEF Inv, TypeOK, ProcsOk
<1>2. \A q \in Procs : proc'[q] = IF q = p THEN r ELSE proc[q]
  BY <1>1 DEF ProcsOk
<1>3. UNCHANGED <<cfg, origin, gateway, lastAudit>>
  BY DEF files, services
<1>4. FilesOk' /\ WorldOk' /\ UnitsOk' /\ Certified(cfg)' /\ Opened' /\ Vouched' = Vouched
  BY <1>3, Untouched
<1>5. ProcsOk'
  <2>1. ASSUME NEW q \in Procs
        PROVE  /\ proc'[q] \in {Idle, [pc |-> "done"]} \/ IsCall(q, proc'[q])
               /\ q \in lock' <=> proc'[q].pc \notin {"idle", "done", "lock"}
    <3>1. CASE q = p
      BY <1>2, <3>1
    <3>2. CASE q # p
      BY <1>1, <1>2, <3>2 DEF ProcsOk
    <3> QED BY <3>1, <3>2
  <2>2. DOMAIN proc' = Procs
    BY <1>1 DEF ProcsOk
  <2> QED BY <2>1, <2>2 DEF ProcsOk
<1>6. ASSUME NEW q \in Procs PROVE OnPath(q)'
  <2>1. CASE q = p
    BY <1>2, <2>1 DEF OnPath, Changing
  <2>2. CASE q # p
    <3>1. proc'[q] = proc[q] /\ OnPath(q)
      BY <1>1, <1>2, <2>2
    <3>2. Certified(proc[q].c) => Certified(proc[q].c)'
      BY <1>3, <3>1 DEF Certified
    <3> QED BY <1>3, <1>4, <3>1, <3>2 DEF OnPath
  <2> QED BY <2>1, <2>2
<1> QED BY <1>4, <1>5, <1>6 DEF Inv, TypeOK

\* A command, or the expiry service, begins and waits for the lock.
LEMMA InvokeKeepsInv == ASSUME Inv, NEW p \in Procs, Invoke(p) \/ (p = "expiry" /\ ExpiryRuns)
                        PROVE  Inv'
<1>1. PICK a : /\ proc' = [proc EXCEPT ![p] = [pc |-> "lock", a |-> a, c |-> {}, ok |-> {}]]
               /\ IF p = "expiry" THEN a = [cmd |-> "expire"] ELSE a \in Commands
  BY DomainAssumption DEF Invoke, ExpiryRuns
<1>2. /\ UNCHANGED <<files, checkout, world, services, lock, lastAudit>>
      /\ proc[p].pc \in {"idle", "done"}
  BY DEF Invoke, ExpiryRuns, Resting
<1>3. PICK r : r = [pc |-> "lock", a |-> a, c |-> {}, ok |-> {}]
  OBVIOUS
<1>4. /\ DOMAIN r = {"pc", "a", "c", "ok"} /\ r.pc = "lock" /\ r.a = a /\ r.c = {}
  BY <1>3
<1>5. IsCall(p, r)
  BY <1>1, <1>4 DEF IsCall, StepsOf, AtMostOne
<1>6. p \notin lock /\ lock \subseteq Procs /\ AtMostOne(lock)
  BY <1>2 DEF Inv, TypeOK, ProcsOk
<1> QED BY <1>1, <1>2, <1>3, <1>4, <1>5, <1>6, OneMovesKeepsInv

\* It takes the lock.
LEMMA AcquireKeepsInv == ASSUME Inv, NEW p \in Procs, Acquire(p) PROVE Inv'
<1> DEFINE pc == IF proc[p].a.cmd \in {"configure", "start"} THEN "read" ELSE "stop"
<1>1. /\ proc[p].pc = "lock" /\ lock = {} /\ lock' = {p} /\ proc' = [proc EXCEPT ![p].pc = pc]
      /\ UNCHANGED <<files, checkout, world, services, lastAudit>>
  BY DEF Acquire, At, Goto
<1>2. IsCall(p, proc[p])
  BY <1>1 DEF Inv, TypeOK, ProcsOk, Idle
<1>3. /\ pc \in StepsOf(proc[p].a.cmd) /\ pc \in {"read", "stop"}
      /\ proc[p].a.cmd = "configure" => pc = "read"
  BY DEF StepsOf
<1> HIDE DEF pc
<1>4. PICK r : r = [proc[p] EXCEPT !.pc = pc] /\ proc' = [proc EXCEPT ![p] = r]
  BY <1>1
<1>5. IsCall(p, r) /\ r.pc = pc
  BY <1>1, <1>2, <1>3, <1>4, Goes
<1>6. lock' \subseteq Procs /\ AtMostOne(lock')
  BY <1>1 DEF AtMostOne
<1> QED BY <1>1, <1>3, <1>4, <1>5, <1>6, OneMovesKeepsInv

\* It is killed, and loses the lock.
LEMMA KillKeepsInv == ASSUME Inv, NEW p \in Procs, Kill(p) PROVE Inv'
<1>1. /\ proc' = [proc EXCEPT ![p] = Idle] /\ lock' = lock \ {p} /\ Idle.pc = "idle"
      /\ UNCHANGED <<files, checkout, world, services, lastAudit>>
  BY DEF Kill, Idle
<1>2. lock' \subseteq Procs /\ AtMostOne(lock')
  BY <1>1 DEF Inv, TypeOK, ProcsOk, AtMostOne
<1> QED BY <1>1, <1>2, OneMovesKeepsInv

\* The checkout, the tunnel, the controls and the clock change.
LEMMA ChangesKeepInv == ASSUME Inv, Changes PROVE Inv'
<1>1. /\ UNCHANGED <<files, services, lock, proc, lastAudit>>
      /\ UNCHANGED <<cfg, origin, gateway>>
  BY DEF Changes, files, services
<1>2. FilesOk' /\ UnitsOk' /\ Certified(cfg)' /\ Opened' /\ Vouched' = Vouched
  BY <1>1, Untouched
<1>3. WorldOk'
  <2>1. WorldOk
    BY DEF Inv, TypeOK
  <2>2. ASSUME NEW j \in Projects, NEW k \in Checkouts[j], checkout' = [checkout EXCEPT ![j] = k],
               world' = world
        PROVE  WorldOk'
    BY <2>1, <2>2 DEF WorldOk
  <2>3. checkout' = checkout /\ DOMAIN world' = DOMAIN world => WorldOk'
    BY <2>1 DEF WorldOk
  <2> QED BY <2>1, <2>2, <2>3 DEF Changes
<1>4. ProcsOk'
  BY <1>1 DEF Inv, TypeOK, ProcsOk
<1>5. ASSUME NEW p \in Procs PROVE OnPath(p)'
  <2>1. OnPath(p)
    BY DEF Inv
  <2>2. Certified(proc[p].c) => Certified(proc[p].c)'
    BY <1>1 DEF Certified
  <2> QED BY <1>1, <1>2, <2>1, <2>2 DEF OnPath
<1> QED BY <1>2, <1>3, <1>4, <1>5 DEF Inv, TypeOK

-----------------------------------------------------------------------------
\* Nothing runs, and the configuration, if any, was audited.
LEMMA InitInv == Init => Inv
<1> SUFFICES ASSUME Init PROVE Inv
  OBVIOUS
<1>1. WorldOk
  <2>1. \A j \in Projects : \E k \in Checkouts[j] : BoundaryOk(k) /\ GitConfigOk(k) /\ ~Dirty(k)
    BY DomainAssumption
  <2>2. checkout = [j \in Projects |-> CHOOSE k \in Checkouts[j] :
                                         BoundaryOk(k) /\ GitConfigOk(k) /\ ~Dirty(k)]
    BY DEF Init
  <2> QED BY <2>1, <2>2 DEF Init, InitWorld, WorldOk
<1>2. UnitsOk /\ Opened
  BY DEF Init, UnitsOk, Opened, Off, EmptyRun
<1>3. ProcsOk /\ \A p \in Procs : proc[p].pc = "idle"
  BY DEF Init, ProcsOk, AtMostOne, Idle
<1>4. FilesOk /\ Certified(cfg)
  <2>1. CASE cfg = {} /\ gcfg = None /\ units = 0 /\ lastAudit = None
    BY <2>1 DEF FilesOk, AtMostOne, Certified
  <2>2. ASSUME NEW j \in Projects, NEW i \in Idents, NEW w \in Windows,
               cfg = {Attested(j, i, w)}, gcfg = i, units = w, lastAudit = "passed"
        PROVE  FilesOk /\ Certified(cfg)
    <3>1. PICK c : c = [project |-> j, pin |-> GitState(checkout[j]), masks |-> MaskPlan(checkout[j]),
                        ident |-> i, window |-> w, rt |-> 0, att |-> {}]
      OBVIOUS
    <3>2. PICK a : a = [identity |-> Identity(c), conn |-> InitWorld.conn, at |-> 0]
      OBVIOUS
    <3>3. Attested(j, i, w) = [c EXCEPT !.att = {a}]
      BY <3>1, <3>2 DEF Attested
    <3>4. IsConfig([c EXCEPT !.att = {a}])
      BY <3>1 DEF IsConfig, AtMostOne
    <3> QED BY <2>2, <3>3, <3>4 DEF FilesOk, Certified, AtMostOne
  <2> QED BY <2>1, <2>2 DEF Init
<1>5. \A p \in Procs : OnPath(p)
  BY <1>3, Outside
<1> QED BY <1>1, <1>2, <1>3, <1>4, <1>5 DEF Inv, TypeOK

\* Every step keeps the invariant.
LEMMA NextKeepsInv == Inv /\ [Next]_vars => Inv'
<1> SUFFICES ASSUME Inv, [Next]_vars PROVE Inv'
  OBVIOUS
<1>1. ASSUME NEW p \in Procs, Invoke(p) \/ Acquire(p) \/ Step(p) \/ Kill(p) PROVE Inv'
  BY <1>1, InvokeKeepsInv, AcquireKeepsInv, StepKeepsInv, KillKeepsInv
<1>2. CASE ExpiryRuns
  <2>1. "expiry" \in Procs
    BY DEF Procs
  <2> QED BY <1>2, <2>1, InvokeKeepsInv
<1>3. CASE Units
  BY <1>3, UnitsKeepInv
<1>4. CASE Changes
  BY <1>4, ChangesKeepInv
<1>5. CASE UNCHANGED vars
  <2>1. UNCHANGED <<files, checkout, world, origin, gateway, timer, expiry, run, lock, proc, lastAudit>>
        /\ UNCHANGED <<cfg, proc, lastAudit>>
    BY <1>5 DEF vars, files
  <2>2. UnitsOk'
    BY <2>1 DEF Inv, TypeOK, UnitsOk
  <2>3. (\A p \in Procs : OnPath(p)') /\ Certified(cfg)' /\ Vouched' = Vouched
    BY <2>1, Undisturbed
  <2>4. Opened'
    BY <2>1, <2>3 DEF Inv, Opened, files
  <2>5. TypeOK'
    BY <2>1, <2>2, UnitTypes DEF Inv
  <2> QED BY <2>3, <2>4, <2>5 DEF Inv
<1> QED BY <1>1, <1>2, <1>3, <1>4, <1>5 DEF Next

\* The invariant holds throughout.
LEMMA Invariance == Spec => []Inv
<1> QED BY InitInv, NextKeepsInv, PTL DEF Spec

\* Type correctness: one configuration, one holder of the lock, and every
\* command at a step that is its own.
THEOREM TypeCorrect == Spec => []TypeOK
<1>1. Inv => TypeOK
  BY DEF Inv
<1> QED BY <1>1, Invariance, PTL

\* While the origin and the gateway both serve (run_origin, run_gateway), they
\* serve one configuration, which the latest audit to reach a verdict passed.
THEOREM AuditedIsServed == Spec => []ServedAsAudited
<1>1. ASSUME Inv PROVE ServedAsAudited
  <2> SUFFICES ASSUME origin.st = "on", gateway.st = "on"
               PROVE  \E c \in cfg : /\ gateway.ident = c.ident /\ origin.c.ident = c.ident
                                     /\ origin.c.project = c.project /\ origin.c.masks = c.masks
                                     /\ lastAudit = "passed"
                                     /\ \E a \in c.att : a.identity = Identity(origin.c)
    BY DEF ServedAsAudited, Serving
  <2>1. AtMostOne(cfg) /\ Opened /\ Certified(cfg)
    BY <1>1 DEF Inv, TypeOK, FilesOk
  <2>2. origin.c \in cfg /\ Vouched /\ \E c \in cfg : gateway.ident = c.ident
    BY <2>1 DEF Opened
  <2>3. gateway.ident = origin.c.ident /\ \E a \in origin.c.att : a.identity = Identity(origin.c)
    BY <2>1, <2>2 DEF AtMostOne, Vouched
  <2>4. lastAudit = "passed"
    BY <2>1, <2>2, <2>3 DEF Certified
  <2> QED BY <2>2, <2>3, <2>4
<1> QED BY <1>1, Invariance, PTL

\* No sensitive path of the checkout that was verified is visible in the
\* sandbox of the origin (sensitive_mask_plan, bwrap_command).
THEOREM SecretsAreMasked == Spec => []SecretsMasked
<1>1. ASSUME Inv PROVE SecretsMasked
  <2> SUFFICES ASSUME origin.st = "on" PROVE Sealed(origin.seen, origin.c.masks)
    BY DEF SecretsMasked
  <2>1. origin.c.masks = MaskPlan(origin.seen) /\ \E j \in Projects : origin.seen \in Checkouts[j]
    BY <1>1 DEF Inv, Opened
  <2>2. \A e \in origin.seen.entries : e.path \in Seq(STRING)
    BY <2>1, DomainAssumption
  <2> QED BY <2>1, <2>2, PlanSeals
<1> QED BY <1>1, Invariance, PTL
=============================================================================
