--------------------------- MODULE DomainService ---------------------------
(***************************************************************************)
(* The domain service (advisor_domain_mcp.py): the commands that prepare,  *)
(* attest, start and stop a time-limited exposure of one checkout, the     *)
(* three user units (origin, gateway, expiry timer) that make it up, and   *)
(* the expiry service that tears it down.                                  *)
(*                                                                         *)
(* The commands and the expiry service take the lifecycle lock; the units  *)
(* do not, and read the configuration when they get to it.  The checkout,  *)
(* the tunnel and the remote controls change under all of them, and a      *)
(* command may be killed at every step.                                    *)
(***************************************************************************)
EXTENDS ExposedCheckout

CONSTANTS Cmds,       \* invocations of the command line
          Projects, Checkouts,   \* project -> the checkouts it may have
          Idents,     \* Access identities: issuer, audience and email
          Windows,    \* session lengths, in minutes
          Controls,   \* remote controls the audit examines, by inventory
          Late,       \* those of them read last, with the local connector
          Conns,      \* identities of the local tunnel connector
          MaxAge,     \* how long an attestation lasts
          MaxCmds, MaxWorld, MaxKills   \* bounds of the model

ASSUME DomainAssumption ==
  /\ "edge" \in Controls /\ Late \subseteq Controls /\ MaxAge \in Nat
  /\ \A w \in Windows : w \in 5..480
  /\ "expiry" \notin Cmds
  /\ \A j \in Projects :
       /\ \E k \in Checkouts[j] : BoundaryOk(k) /\ GitConfigOk(k) /\ ~Dirty(k)
       /\ \A k \in Checkouts[j] : \A e \in k.entries : e.path \in Seq(STRING) \ {<<>>}

VARIABLES cfg,       \* the configuration file, {} or {record}
          gcfg,      \* identity in the gateway's runtime configuration
          units,     \* session length in the installed units
          checkout,  \* the live checkouts
          world,     \* tunnel connector, remote controls, runtime, clock
          origin, gateway, timer, expiry,   \* the units
          run,       \* the runtime directory: sockets and staged secret
          lock,      \* holder of lifecycle.lock, {} or {process}
          proc,      \* what each process is doing
          lastAudit, \* history: verdict of the last completed remote audit
          session,   \* history: number of launches
          count      \* commands, changes of the world and kills so far

files    == <<cfg, gcfg, units>>
services == <<origin, gateway, timer, expiry, run>>
vars == <<cfg, gcfg, units, checkout, world, origin, gateway, timer, expiry, run,
          lock, proc, lastAudit, session, count>>

Procs == Cmds \cup {"expiry"}
None  == "none"
Off   == [st |-> "off"]
Idle  == [pc |-> "idle"]
EmptyRun == [socks |-> {}, secret |-> FALSE]

-----------------------------------------------------------------------------
(***************************************************************************)
(* Judgements about a configuration.                                       *)
(***************************************************************************)
\* Digest of the runtime files: it changes when any of them does.
Integrity == world.rt

\* The pinned runtime, gateway configuration and boundary are as prepared.
RuntimeOk(c) == /\ c.rt = Integrity /\ gcfg = c.ident
                /\ BoundaryOk(checkout[c.project]) /\ GitConfigOk(checkout[c.project])

CheckoutOk(c) == /\ GitConfigOk(checkout[c.project]) /\ Pinnable(checkout[c.project])
                 /\ GitState(checkout[c.project]) = c.pin
MasksOk(c)    == MaskPlan(checkout[c.project]) = c.masks
AccessComplete(c) == c.ident # None

Identity(c) == [ident |-> c.ident, project |-> c.project, rt |-> c.rt]

\* The attestation of the last audit still speaks for this configuration.
HardeningCurrent(c) ==
  \E a \in c.att : a.identity = Identity(c) /\ world.now - a.at \in 0..MaxAge

\* The tunnel runs as audited, and the public route is behind Access.
PostureOk(c) == \E a \in c.att : a.conn = world.conn
EdgeReady    == "edge" \in world.controls

SocketReady(s) == s \in run.socks
Healthy == gateway.st = "on" /\ SocketReady("gateway")
Ready   == Healthy /\ SocketReady("origin") /\ origin.st = "on" /\ timer.st = "on"

-----------------------------------------------------------------------------
(***************************************************************************)
(* The units.  Whoever fails starts the expiry service.                    *)
(***************************************************************************)
StartExpiry(of) == expiry' = IF expiry.st = "off" THEN [st |-> "on", of |-> of] ELSE expiry

\* The gateway is bound to the origin: it goes down with it.
OriginDown(failed, cleaned) ==
  /\ origin' = Off /\ gateway' = Off
  /\ IF failed THEN StartExpiry(session) ELSE UNCHANGED expiry
  /\ run' = IF cleaned THEN EmptyRun ELSE run

\* run-origin verifies the configuration again, as it is by then ...
OriginVerify ==
  /\ origin.st = "up"
  /\ \E c \in cfg :
       IF RuntimeOk(c) /\ CheckoutOk(c) /\ MasksOk(c)
       THEN /\ origin' = [st |-> "staged", c |-> c, seen |-> checkout[c.project]]
            /\ UNCHANGED <<gateway, expiry, run>>
       ELSE OriginDown(TRUE, FALSE)
  /\ UNCHANGED <<files, checkout, world, timer, lock, proc, lastAudit, session, count>>

\* ... stages the secret, verifies the runtime once more and enters the sandbox.
OriginLaunch ==
  /\ origin.st = "staged"
  /\ IF RuntimeOk(origin.c)
     THEN /\ origin' = [origin EXCEPT !.st = "on"]
          /\ run' = [socks |-> run.socks \cup {"origin"}, secret |-> TRUE]
          /\ UNCHANGED <<gateway, expiry>>
     ELSE /\ origin' = Off /\ gateway' = Off /\ StartExpiry(session)
          /\ run' = [run EXCEPT !.secret = TRUE]
  /\ UNCHANGED <<files, checkout, world, timer, lock, proc, lastAudit, session, count>>

\* The sandbox ends by itself, at the free-space reserve, or at its runtime
\* limit; killed at the limit, run-origin does not get to clean up.
OriginEnds ==
  /\ origin.st = "on"
  /\ \E failed, cleaned \in BOOLEAN : (cleaned \/ failed) /\ OriginDown(failed, cleaned)
  /\ UNCHANGED <<files, checkout, world, timer, lock, proc, lastAudit, session, count>>

GatewayLaunch ==
  /\ gateway.st = "up"
  /\ \E c \in cfg :
       IF RuntimeOk(c) /\ AccessComplete(c)
       THEN /\ gateway' = [st |-> "on", ident |-> gcfg, window |-> units]
            /\ run' = [run EXCEPT !.socks = @ \cup {"gateway"}]
            /\ UNCHANGED expiry
       ELSE gateway' = Off /\ StartExpiry(session) /\ UNCHANGED run
  /\ UNCHANGED <<files, checkout, world, origin, timer, lock, proc, lastAudit, session, count>>

\* The gateway fails, or reaches its runtime limit.
GatewayEnds ==
  /\ gateway.st = "on" /\ gateway' = Off /\ StartExpiry(session)
  /\ UNCHANGED <<files, checkout, world, origin, timer, run, lock, proc, lastAudit, session, count>>

TimerElapses ==
  /\ timer.st = "on" /\ expiry.st = "off" /\ StartExpiry(session)
  /\ UNCHANGED <<files, checkout, world, origin, gateway, timer, run, lock, proc,
                 lastAudit, session, count>>

-----------------------------------------------------------------------------
(***************************************************************************)
(* Steps of the commands.                                                  *)
(***************************************************************************)
At(p, pc) == proc[p].pc = pc
Goto(p, pc)     == proc' = [proc EXCEPT ![p].pc = pc]
GotoWith(p, pc, c) == proc' = [proc EXCEPT ![p] = [@ EXCEPT !.pc = pc, !.c = {c}]]
Return(p) == proc' = [proc EXCEPT ![p] = Idle] /\ lock' = {}

Succeed(p) == proc' = [proc EXCEPT ![p] = [pc |-> "done"]] /\ lock' = {}

Resting(p) == proc[p].pc \in {"idle", "done"}

\* prepare, configure-access, audit-cloudflare, start and stop, with their arguments.
Commands ==
  [cmd : {"prepare"}, project : Projects, ident : Idents \cup {None}, window : Windows,
   dirty : BOOLEAN]
  \cup [cmd : {"configure"}, ident : Idents] \cup [cmd : {"audit", "start", "stop"}]

Invoke(p) ==
  /\ p \in Cmds /\ Resting(p) /\ count.cmds < MaxCmds
  /\ \E a \in Commands : proc' = [proc EXCEPT ![p] = [pc |-> "lock", a |-> a, c |-> {}, ok |-> {}]]
  /\ count' = [count EXCEPT !.cmds = @ + 1]
  /\ UNCHANGED <<files, checkout, world, services, lock, lastAudit, session>>

\* The expiry service is a command of its own.
ExpiryRuns ==
  /\ expiry.st = "on" /\ Resting("expiry")
  /\ proc' = [proc EXCEPT !["expiry"] = [pc |-> "lock", a |-> [cmd |-> "expire"], c |-> {}, ok |-> {}]]
  /\ UNCHANGED <<files, checkout, world, services, lock, lastAudit, session, count>>

Acquire(p) ==
  /\ At(p, "lock") /\ lock = {} /\ lock' = {p}
  /\ Goto(p, IF proc[p].a.cmd \in {"configure", "start"} THEN "read" ELSE "stop")
  /\ UNCHANGED <<files, checkout, world, services, lastAudit, session, count>>

\* What a stopped unit leaves: the origin cleans up unless it has to be killed;
\* a sandbox that dies from the signal makes it fail.  The stop may be refused.
StopUnits ==
  \/ UNCHANGED services
  \/ /\ timer' = Off
     /\ IF origin.st = "on"
        THEN \E failed, cleaned \in BOOLEAN : (cleaned \/ failed) /\ OriginDown(failed, cleaned)
        ELSE /\ origin' = Off /\ gateway' = Off /\ UNCHANGED expiry
             /\ \E staged \in {run.secret, origin.st = "staged"} : run' = [run EXCEPT !.secret = staged \/ @]

Stop(p) ==
  /\ At(p, "stop") /\ StopUnits /\ Goto(p, "rest")
  /\ UNCHANGED <<files, checkout, world, lock, lastAudit, session, count>>

\* Mutant: expire stops its own unit, as stop does.
EndsItself(p) ==
  /\ At(p, "rest") /\ expiry' = Off
  /\ IF p = "expiry" THEN Return(p)
     ELSE proc' = [proc EXCEPT !["expiry"] = Idle, ![p].pc = "clean"] /\ UNCHANGED lock
  /\ UNCHANGED <<files, checkout, world, origin, gateway, timer, run, lastAudit, session, count>>

\* Mutant: a waiting expiry service is waited for.
AwaitsExpiry(p) ==
  /\ At(p, "rest") /\ (p = "expiry" \/ expiry.st = "off") /\ Goto(p, "clean")
  /\ UNCHANGED <<files, checkout, world, services, lock, lastAudit, session, count>>

\* stop-services also ends an expiry service that waits for the lock; the
\* expiry service does not stop its own unit.
StopExpiry(p) ==
  /\ At(p, "rest")
  /\ IF p = "expiry" THEN Goto(p, "clean") /\ UNCHANGED expiry
     ELSE expiry' = Off /\ proc' = [proc EXCEPT !["expiry"] = Idle, ![p].pc = "clean"]
  /\ UNCHANGED <<files, checkout, world, origin, gateway, timer, run, lock, lastAudit, session, count>>

AfterStop(p) ==
  CASE proc[p].a.cmd = "prepare" /\ proc[p].c = {} -> "pin"
    [] proc[p].a.cmd = "configure" -> "write"
    [] proc[p].a.cmd = "audit" -> "pop"
    [] OTHER -> "done"

\* Sockets and secret are removed, then the stop is verified.  start, which
\* stops what it could not get ready, fails in any case.
Clean(p) ==
  /\ At(p, "clean") /\ run' = EmptyRun
  /\ LET stopped == origin.st = "off" /\ gateway.st = "off" /\ timer.st = "off"
     IN  CASE ~stopped \/ proc[p].a.cmd = "start" -> Return(p)
           [] stopped /\ AfterStop(p) # "done" -> Goto(p, AfterStop(p)) /\ UNCHANGED lock
           [] OTHER -> Succeed(p)
  /\ IF p = "expiry" THEN expiry' = Off ELSE UNCHANGED expiry
  /\ UNCHANGED <<files, checkout, world, origin, gateway, timer, lastAudit, session, count>>

-----------------------------------------------------------------------------
(***************************************************************************)
(* prepare.                                                                *)
(***************************************************************************)
\* The boundary, the Git configuration and the state of the checkout are judged ...
PreparePin(p) ==
  /\ At(p, "pin")
  /\ LET k == checkout[proc[p].a.project]
     IN  IF BoundaryOk(k) /\ GitConfigOk(k) /\ Pinnable(k) /\ (Dirty(k) => proc[p].a.dirty)
         THEN /\ GotoWith(p, "plan", [pin |-> GitState(k)]) /\ UNCHANGED lock
         ELSE Return(p)
  /\ UNCHANGED <<files, checkout, world, services, lastAudit, session, count>>

\* ... and later the masks, the identity and the attestation that is kept.
Kept(ident, project) ==
  UNION {{a \in c.att : c.ident = ident /\ c.project = project} : c \in cfg}

PreparePlan(p) ==
  /\ At(p, "plan")
  /\ LET a == proc[p].a
         ident == IF a.ident = None /\ cfg # {} THEN (CHOOSE c \in cfg : TRUE).ident ELSE a.ident
     IN  \E part \in proc[p].c :
           GotoWith(p, "write",
             [project |-> a.project, pin |-> part.pin, masks |-> MaskPlan(checkout[a.project]),
              ident |-> ident, window |-> a.window, rt |-> Integrity,
              att |-> Kept(ident, a.project)])
  /\ UNCHANGED <<files, checkout, world, services, lock, lastAudit, session, count>>

\* Three files in turn: the configuration, the gateway's part of it, the units.
WriteConfig(p) ==
  /\ At(p, "write")
  /\ cfg' = IF proc[p].a.cmd = "prepare" THEN proc[p].c
            ELSE {[c EXCEPT !.ident = proc[p].a.ident, !.att = {}] : c \in proc[p].c}
  /\ proc' = [proc EXCEPT ![p] = [@ EXCEPT !.pc = "gwrite", !.c = cfg']]
  /\ UNCHANGED <<gcfg, units, checkout, world, services, lock, lastAudit, session, count>>

WriteGateway(p) ==
  /\ At(p, "gwrite") /\ gcfg' = (CHOOSE c \in proc[p].c : TRUE).ident /\ Goto(p, "uwrite")
  /\ UNCHANGED <<cfg, units, checkout, world, services, lock, lastAudit, session, count>>

\* prepare stops the services a second time, configure-access is done.
InstallUnits(p) ==
  /\ At(p, "uwrite") /\ units' = (CHOOSE c \in proc[p].c : TRUE).window
  /\ IF proc[p].a.cmd = "prepare" THEN Goto(p, "stop") /\ UNCHANGED lock ELSE Succeed(p)
  /\ UNCHANGED <<cfg, gcfg, checkout, world, services, lastAudit, session, count>>

-----------------------------------------------------------------------------
(***************************************************************************)
(* configure-access and start begin with the configuration as it is.       *)
(***************************************************************************)
ReadConfig(p) ==
  /\ At(p, "read")
  /\ IF \E c \in cfg : /\ RuntimeOk(c)
                       /\ proc[p].a.cmd = "start" =>
                            /\ CheckoutOk(c) /\ MasksOk(c)
                            /\ AccessComplete(c) /\ HardeningCurrent(c)
     THEN /\ proc' = [proc EXCEPT ![p] = [@ EXCEPT !.c = cfg,
                        !.pc = IF proc[p].a.cmd = "start" THEN "posture" ELSE "stop"]]
          /\ UNCHANGED lock
     ELSE Return(p)
  /\ UNCHANGED <<files, checkout, world, services, lastAudit, session, count>>

\* start looks at the tunnel and the public route, clears the units ...
StartPosture(p) ==
  /\ At(p, "posture")
  /\ IF EdgeReady /\ \A c \in proc[p].c : PostureOk(c)
     THEN Goto(p, "restart") /\ UNCHANGED lock
     ELSE Return(p)
  /\ UNCHANGED <<files, checkout, world, services, lastAudit, session, count>>

StartClears(p) ==
  /\ At(p, "restart") /\ StopUnits /\ Goto(p, "launch")
  /\ UNCHANGED <<files, checkout, world, lock, lastAudit, session, count>>

\* ... starts the gateway, which brings the origin and the timer, ...
StartLaunches(p) ==
  /\ At(p, "launch") /\ Goto(p, "wait")
  /\ session' = IF origin.st = "off" THEN session + 1 ELSE session
  /\ origin'  = IF origin.st = "off" THEN [st |-> "up"] ELSE origin
  /\ gateway' = IF gateway.st = "off" THEN [st |-> "up"] ELSE gateway
  /\ timer'   = [st |-> "on"]
  /\ UNCHANGED <<files, checkout, world, expiry, run, lock, lastAudit, count>>

\* ... and waits; at the deadline, or interrupted, it stops everything.
StartReady(p) ==
  /\ At(p, "wait") /\ Ready /\ Succeed(p)
  /\ UNCHANGED <<files, checkout, world, services, lastAudit, session, count>>

StartGivesUp(p) ==
  /\ At(p, "wait") /\ Goto(p, "stop")
  /\ UNCHANGED <<files, checkout, world, services, lock, lastAudit, session, count>>

-----------------------------------------------------------------------------
(***************************************************************************)
(* audit-cloudflare: the old attestation is withdrawn first, the           *)
(* inventories are read one after another.                                 *)
(***************************************************************************)
\* Mutant: the old attestation stays until a new one is written.
PopsNothing(c) == c

Withdrawn(c) == [c EXCEPT !.att = {}]

AuditWithdraws(p) ==
  /\ At(p, "pop")
  /\ IF \E c \in cfg : RuntimeOk(c) /\ CheckoutOk(c) /\ MasksOk(c) /\ AccessComplete(c)
     THEN /\ cfg' = {Withdrawn(c) : c \in cfg}
          /\ proc' = [proc EXCEPT ![p] = [@ EXCEPT !.pc = "remote", !.c = cfg']]
          /\ UNCHANGED lock
     ELSE Return(p) /\ UNCHANGED cfg
  /\ UNCHANGED <<gcfg, units, checkout, world, services, lastAudit, session, count>>

\* The tunnel's active connector is among what is read first; a call may fail.
AuditReadsRemote(p) ==
  /\ At(p, "remote")
  /\ \/ /\ Controls \ Late \subseteq world.controls
        /\ proc' = [proc EXCEPT ![p] = [@ EXCEPT !.pc = "local", !.ok = {world.conn}]]
        /\ UNCHANGED lock
        /\ UNCHANGED lastAudit
     \/ ~(Controls \ Late \subseteq world.controls) /\ Return(p) /\ lastAudit' = "failed"
     \/ Return(p) /\ UNCHANGED lastAudit
  /\ UNCHANGED <<files, checkout, world, services, session, count>>

AuditJudges(p) ==
  /\ At(p, "local")
  /\ IF Late \subseteq world.controls /\ world.conn \in proc[p].ok
     THEN Goto(p, "attest") /\ lastAudit' = "passed" /\ UNCHANGED lock
     ELSE Return(p) /\ lastAudit' = "failed"
  /\ UNCHANGED <<files, checkout, world, services, session, count>>

AuditAttests(p) ==
  /\ At(p, "attest") /\ Succeed(p)
  /\ cfg' = {[c EXCEPT !.att = {[identity |-> Identity(c), conn |-> CHOOSE x \in proc[p].ok : TRUE,
                                 at |-> world.now]}] : c \in proc[p].c}
  /\ UNCHANGED <<gcfg, units, checkout, world, services, lastAudit, session, count>>

-----------------------------------------------------------------------------
\* A command is killed: the lock goes with it.  (The expiry service is not.)
Kill(p) ==
  /\ p \in Cmds /\ ~Resting(p) /\ count.kills < MaxKills
  /\ proc' = [proc EXCEPT ![p] = Idle] /\ lock' = lock \ {p}
  /\ count' = [count EXCEPT !.kills = @ + 1]
  /\ UNCHANGED <<files, checkout, world, services, lastAudit, session>>

\* Everything that changes behind the service's back.
Changes ==
  /\ count.world < MaxWorld /\ count' = [count EXCEPT !.world = @ + 1]
  /\ \/ \E j \in Projects : \E k \in Checkouts[j] \ {checkout[j]} :
          checkout' = [checkout EXCEPT ![j] = k] /\ UNCHANGED world
     \/ /\ UNCHANGED checkout
        /\ \/ \E n \in Conns \ {world.conn} : world' = [world EXCEPT !.conn = n]
           \/ \E k \in Controls : world' = [world EXCEPT !.controls =
                                              IF k \in @ THEN @ \ {k} ELSE @ \cup {k}]
           \/ world' = [world EXCEPT !.rt = 1 - @]
           \/ world' = [world EXCEPT !.now = @ + MaxAge + 1]
  /\ UNCHANGED <<files, services, lock, proc, lastAudit, session>>

-----------------------------------------------------------------------------
InitWorld == [conn |-> CHOOSE n \in Conns : TRUE, controls |-> Controls,
              rt |-> 0, now |-> 0]

\* A configuration that was prepared from the checkout, and audited.
Attested(j, i, w) ==
  LET c == [project |-> j, pin |-> GitState(checkout[j]), masks |-> MaskPlan(checkout[j]),
            ident |-> i, window |-> w, rt |-> 0, att |-> {}]
  IN  [c EXCEPT !.att = {[identity |-> Identity(c), conn |-> InitWorld.conn, at |-> 0]}]

Init ==
  /\ checkout = [j \in Projects |-> CHOOSE k \in Checkouts[j] :
                                      BoundaryOk(k) /\ GitConfigOk(k) /\ ~Dirty(k)]
  /\ world = InitWorld
  /\ \/ cfg = {} /\ gcfg = None /\ units = 0 /\ lastAudit = None
     \/ \E j \in Projects, i \in Idents, w \in Windows :
          cfg = {Attested(j, i, w)} /\ gcfg = i /\ units = w /\ lastAudit = "passed"
  /\ origin = Off /\ gateway = Off /\ timer = Off /\ expiry = Off /\ run = EmptyRun
  /\ lock = {} /\ proc = [p \in Procs |-> Idle]
  /\ session = 0 /\ count = [cmds |-> 0, world |-> 0, kills |-> 0]

Step(p) ==
  \/ Stop(p) \/ StopExpiry(p) \/ Clean(p)
  \/ PreparePin(p) \/ PreparePlan(p)
  \/ WriteConfig(p) \/ WriteGateway(p) \/ InstallUnits(p)
  \/ ReadConfig(p) \/ StartPosture(p) \/ StartClears(p) \/ StartLaunches(p)
  \/ StartReady(p) \/ StartGivesUp(p)
  \/ AuditWithdraws(p) \/ AuditReadsRemote(p) \/ AuditJudges(p) \/ AuditAttests(p)

Units == OriginVerify \/ OriginLaunch \/ OriginEnds \/ GatewayLaunch \/ GatewayEnds \/ TimerElapses

Next ==
  \/ \E p \in Procs : Invoke(p) \/ Acquire(p) \/ Step(p) \/ Kill(p)
  \/ ExpiryRuns \/ Units \/ Changes

\* Every wait in the code has a deadline, systemd serves the units, and the
\* lock is released by whoever holds it; users need not do anything.
Fairness ==
  /\ \A p \in Procs : SF_vars(Acquire(p)) /\ WF_vars(Step(p))
  /\ WF_vars(ExpiryRuns) /\ WF_vars(OriginVerify) /\ WF_vars(OriginLaunch)
  /\ WF_vars(OriginEnds) /\ WF_vars(GatewayLaunch) /\ WF_vars(TimerElapses)

Spec     == Init /\ [][Next]_vars
FairSpec == Spec /\ Fairness

-----------------------------------------------------------------------------
AtMostOne(S) == \A x, y \in S : x = y

IsConfig(c) ==
  /\ DOMAIN c = {"project", "pin", "masks", "ident", "window", "rt", "att"}
  /\ c.project \in Projects /\ c.ident \in Idents \cup {None} /\ c.window \in Windows
  /\ AtMostOne(c.att)

\* The steps of a command, in the order of the code but for the stops.
StepsOf(cmd) ==
  {"lock", "stop", "rest", "clean"} \cup
  CASE cmd = "prepare"   -> {"pin", "plan", "write", "gwrite", "uwrite"}
    [] cmd = "configure" -> {"read", "write", "gwrite", "uwrite"}
    [] cmd = "audit"     -> {"pop", "remote", "local", "attest"}
    [] cmd = "start"     -> {"read", "posture", "restart", "launch", "wait"}
    [] OTHER             -> {}

\* A command at work: the configuration it is making or has read, if any.
IsCall(p, r) ==
  /\ DOMAIN r = {"pc", "a", "c", "ok"} /\ r.pc \in StepsOf(r.a.cmd)
  /\ IF p = "expiry" THEN r.a = [cmd |-> "expire"] ELSE r.a \in Commands
  /\ AtMostOne(r.c)
  /\ r.pc # "plan" => \A c \in r.c : IsConfig(c)
  /\ r.pc \in {"plan", "write", "gwrite", "uwrite"} => r.c # {}
  /\ (r.a.cmd = "configure" /\ r.pc \notin {"lock", "read"}) => r.c # {}

FilesOk ==
  /\ AtMostOne(cfg) /\ \A c \in cfg : IsConfig(c)
  /\ gcfg \in Idents \cup {None} /\ units \in Windows \cup {0}

WorldOk ==
  /\ DOMAIN checkout = Projects /\ \A j \in Projects : checkout[j] \in Checkouts[j]
  /\ DOMAIN world = {"conn", "controls", "rt", "now"}

UnitsOk ==
  /\ origin.st \in {"off", "up", "staged", "on"}
  /\ origin.st \in {"staged", "on"} => DOMAIN origin = {"st", "c", "seen"}
  /\ gateway.st \in {"off", "up", "on"} /\ timer.st \in {"off", "on"}
  /\ expiry.st \in {"off", "on"}
  /\ DOMAIN run = {"socks", "secret"} /\ run.socks \subseteq {"origin", "gateway"}
  /\ run.secret \in BOOLEAN

\* The lock is held exactly from Acquire to the return.
ProcsOk ==
  /\ lock \subseteq Procs /\ AtMostOne(lock) /\ DOMAIN proc = Procs
  /\ \A p \in Procs : /\ proc[p] \in {Idle, [pc |-> "done"]} \/ IsCall(p, proc[p])
                      /\ p \in lock <=> proc[p].pc \notin {"idle", "done", "lock"}

\* Shape of the state.
TypeOK == FilesOk /\ WorldOk /\ UnitsOk /\ ProcsOk

Serving == origin.st = "on" /\ gateway.st = "on"

\* What is served is what was configured and audited.  No command changes the
\* identity, the project or the masks under a running session, none that was
\* killed half way leaves a session of two configurations, and the attestation
\* is the one the latest audit to reach a verdict gave for the identity, the
\* project and the runtime that are served.
ServedAsAudited ==
  Serving => \E c \in cfg : /\ gateway.ident = c.ident /\ origin.c.ident = c.ident
                            /\ origin.c.project = c.project /\ origin.c.masks = c.masks
                            /\ lastAudit = "passed"
                            /\ \E a \in c.att : a.identity = Identity(origin.c)

\* Nothing sensitive in the checkout that the origin verified is visible in
\* its sandbox, whatever was edited while the plan was made.
SecretsMasked == origin.st = "on" => Sealed(origin.seen, origin.c.masks)

\* Whatever fails or runs out while a secret is staged, the secret is removed
\* or a new session takes it over, unless a command was killed meanwhile.
SecretRemoved ==
  (run.secret /\ origin.st = "off")
    ~> (~run.secret \/ origin.st # "off" \/ count.kills > 0)

\* The lifecycle lock never blocks for good: every command returns.
CommandsReturn == \A p \in Cmds : (~Resting(p)) ~> Resting(p)

\* The installed units run as long as the configuration says ("independent
\* service runtime limits stop them after 60 minutes").
WindowAsConfigured == Serving => \E c \in cfg : gateway.window = c.window

\* The expiry service ends the session whose end or failure started it.
ExpiryEndsItsOwn ==
  [][(At("expiry", "stop") /\ proc'["expiry"].pc = "rest" /\ Ready /\ ~Ready')
       => expiry.of = session]_vars
=============================================================================
