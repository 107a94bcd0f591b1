--------------------------- MODULE RepoConnector ---------------------------
(***************************************************************************)
(* The connector of one project (advisor_agent_connect.py): the commands   *)
(* `serve` and `stop`, the DevSpace server and the tunnel they start, the  *)
(* state file that names them and the exact-root file that says which      *)
(* snapshot of the project the server may open.                            *)
(*                                                                         *)
(* The commands hold the lifecycle lock; everyone else reads the two files *)
(* when they like.  A command may be killed between any two of its steps,  *)
(* and the processes it started go on without it.                          *)
(***************************************************************************)
EXTENDS Integers

CONSTANTS Keepers,   \* invocations of serve and stop
          NoOne,     \* nobody holds the lock
          Started,   \* a connector serves already when the model begins
          MaxCommands, MaxSpawn, MaxEvents   \* bounds of the model

ASSUME ConnectorAssumption ==
  /\ NoOne \notin Keepers
  /\ {MaxCommands, MaxSpawn, MaxEvents} \subseteq Nat
  /\ Started \in BOOLEAN /\ (Started => MaxSpawn >= 1)

VARIABLES source,  \* the snapshot a sanitized workspace made now would hold
          state,   \* the state file: life, processes, workspace, attachment
          root,    \* the exact-root file
          alive,   \* processes started by serve that still run
          port,    \* the DevSpace that listens on the local port
          lock,    \* holder of lifecycle.lock
          keeper,  \* what each invocation is doing
          commands, spawned, edits, faults   \* so far

counts    == <<commands, spawned, edits, faults>>
connector == <<source, state, root, alive, port, lock, keeper, counts>>

Snapshots == 0..MaxEvents
NoRoot    == -1
NoProc    == <<"none", 0>>
Pids      == {"dev", "tunnel"} \X (1..MaxSpawn)
Urls      == {"configured", "stale", "tunnel"}

State(life, dev, tunnel, ws) ==
  [life |-> life, dev |-> dev, tunnel |-> tunnel, ws |-> ws, attached |-> FALSE]
Idle == [pc |-> "idle", ws |-> NoRoot, dev |-> NoProc, tunnel |-> NoProc, url |-> "tunnel"]

ConnectorInit ==
  LET dev == IF Started THEN <<"dev", 1>> ELSE NoProc IN
  /\ source = 0 /\ edits = 0 /\ faults = 0 /\ commands = 0 /\ lock = NoOne
  /\ alive = {dev} \ {NoProc} /\ port = dev
  /\ spawned = IF Started THEN 1 ELSE 0
  /\ state = IF Started THEN State("connector-ready", dev, NoProc, 0)
                        ELSE State("absent", NoProc, NoProc, NoRoot)
  /\ root = IF Started THEN 0 ELSE NoRoot
  /\ keeper = [k \in Keepers |-> Idle]

-----------------------------------------------------------------------------
(***************************************************************************)
(* Processes and the judgement everyone makes of the connector.            *)
(***************************************************************************)
Recorded == {state.dev, state.tunnel}
Held(k)  == {keeper[k].dev, keeper[k].tunnel}

\* terminate_process: what it names is gone, and its port with it.
Terminate(pids) == /\ alive' = alive \ pids
                   /\ port'  = IF port \in pids THEN NoProc ELSE port

\* connector_runtime_status, when both probes are answered.
RuntimeReady ==
  /\ state.dev \in alive
  /\ state.tunnel \in alive \cup {NoProc}
  /\ root = state.ws
  /\ port # NoProc

At(k, label) == keeper[k].pc = label
Hop(k, label) == keeper' = [keeper EXCEPT ![k].pc = label]
Leave(k) == /\ keeper' = [keeper EXCEPT ![k] = Idle]
            /\ lock' = NoOne

-----------------------------------------------------------------------------
(***************************************************************************)
(* serve                                                                   *)
(***************************************************************************)
Serve(k) ==
  /\ At(k, "idle") /\ lock = NoOne /\ commands < MaxCommands
  /\ lock' = k /\ commands' = commands + 1
  /\ Hop(k, "setup")
  /\ UNCHANGED <<source, state, root, alive, port, spawned, edits, faults>>

\* configure_allowed_roots and evaluate_status build the snapshot to expose;
\* a project they refuse ends the command.
Setup(k) ==
  /\ At(k, "setup")
  /\ \/ /\ keeper' = [keeper EXCEPT ![k].pc = "decide", ![k].ws = source]
        /\ UNCHANGED lock
     \/ Leave(k)
  /\ UNCHANGED <<source, state, root, alive, port, counts>>

\* A connector that is ready is kept and pointed at the new snapshot ...
Reuse(k) ==
  /\ At(k, "decide") /\ RuntimeReady
  /\ root' = keeper[k].ws
  /\ Hop(k, "adopt")
  /\ UNCHANGED <<source, state, alive, port, lock, counts>>

Adopt(k) ==
  /\ At(k, "adopt")
  /\ state' = [state EXCEPT !.life = "connector-ready", !.ws = keeper[k].ws]
  /\ Leave(k)
  /\ UNCHANGED <<source, root, alive, port, counts>>

\* ... any other (not ready, a probe unanswered, --force) is stopped.
StopOld(k) ==
  /\ At(k, "decide")
  /\ Terminate(Recorded)
  /\ \E url \in Urls : keeper' = [keeper EXCEPT ![k].pc = "point", ![k].url = url]
  /\ UNCHANGED <<source, state, root, lock, counts>>

Point(k) ==
  /\ At(k, "point")
  /\ root' = keeper[k].ws
  /\ Hop(k, "begin")
  /\ UNCHANGED <<source, state, alive, port, lock, counts>>

\* persist_lifecycle
Persist(k, life) == state' = State(life, keeper[k].dev, keeper[k].tunnel, keeper[k].ws)

Begin(k) ==
  /\ At(k, "begin")
  /\ Persist(k, "starting")
  /\ Hop(k, IF keeper[k].url = "tunnel" THEN "dig" ELSE "launch")
  /\ UNCHANGED <<source, root, alive, port, lock, counts>>

NewPid(kind) == <<kind, spawned + 1>>

\* start_quick_tunnel: cloudflared is started, recorded, and waited for.
SpawnTunnel(k) ==
  /\ At(k, "dig") /\ spawned < MaxSpawn
  /\ spawned' = spawned + 1
  /\ alive' = alive \cup {NewPid("tunnel")}
  /\ keeper' = [keeper EXCEPT ![k].pc = "dug", ![k].tunnel = NewPid("tunnel")]
  /\ UNCHANGED <<source, state, root, port, lock, commands, edits, faults>>

RecordTunnel(k) ==
  /\ At(k, "dug")
  /\ Persist(k, "starting")
  /\ Hop(k, "published")
  /\ UNCHANGED <<source, root, alive, port, lock, counts>>

TunnelUp(k) ==
  /\ At(k, "published") /\ keeper[k].tunnel \in alive
  /\ Persist(k, "starting")
  /\ Hop(k, "launch")
  /\ UNCHANGED <<source, root, alive, port, lock, counts>>

\* launch_with_url: DevSpace is started, recorded, and probed.  It listens
\* only when nothing else does.
SpawnDev(k) ==
  /\ At(k, "launch") /\ spawned < MaxSpawn
  /\ spawned' = spawned + 1
  /\ alive' = alive \cup {NewPid("dev")}
  /\ port' = IF port = NoProc THEN NewPid("dev") ELSE port
  /\ keeper' = [keeper EXCEPT ![k].pc = "launched", ![k].dev = NewPid("dev")]
  /\ UNCHANGED <<source, state, root, lock, commands, edits, faults>>

RecordDev(k) ==
  /\ At(k, "launched")
  /\ Persist(k, "starting")
  /\ Hop(k, "probe")
  /\ UNCHANGED <<source, root, alive, port, lock, counts>>

\* The local port answers and, unless the configured address is stale, so does
\* the public one.
Answers(k) ==
  /\ port # NoProc
  /\ keeper[k].url # "stale"
  /\ keeper[k].tunnel \in alive \cup {NoProc}

Ready(k) ==
  /\ At(k, "probe") /\ Answers(k)
  /\ Persist(k, "connector-ready")
  /\ Leave(k)
  /\ UNCHANGED <<source, root, alive, port, counts>>

\* No answer in time: a stale configured address is replaced by a tunnel.
ReplaceAddress(k) ==
  /\ At(k, "probe") /\ keeper[k].url = "stale"
  /\ Terminate({keeper[k].dev})
  /\ keeper' = [keeper EXCEPT ![k].pc = "dig", ![k].dev = NoProc, ![k].url = "tunnel"]
  /\ UNCHANGED <<source, state, root, lock, counts>>

\* Whatever else goes wrong ends here, by an exception or by Ctrl-C.
Trying == {"dig", "dug", "published", "launch", "launched", "probe"}

\* Mutant: the tunnel is forgotten.
GivesUpDev(k) == /\ Terminate({keeper[k].dev})
                 /\ state' = State("failed", NoProc, NoProc, keeper[k].ws)
                 /\ Leave(k)

GivesUp(k) == /\ Terminate(Held(k))
              /\ state' = State("failed", NoProc, NoProc, keeper[k].ws)
              /\ Leave(k)

Fail(k) ==
  /\ keeper[k].pc \in Trying
  /\ GivesUp(k)
  /\ UNCHANGED <<source, root, counts>>

-----------------------------------------------------------------------------
(***************************************************************************)
(* stop                                                                    *)
(***************************************************************************)
Stop(k) ==
  /\ At(k, "idle") /\ lock = NoOne /\ commands < MaxCommands /\ state.life # "absent"
  /\ lock' = k /\ commands' = commands + 1
  /\ Terminate(Recorded)
  /\ Hop(k, "stop")
  /\ UNCHANGED <<source, state, root, spawned, edits, faults>>

Stopped(k) ==
  /\ At(k, "stop")
  /\ state' = [state EXCEPT !.life = "stopped", !.dev = NoProc, !.tunnel = NoProc]
  /\ Leave(k)
  /\ UNCHANGED <<source, root, alive, port, counts>>

-----------------------------------------------------------------------------
(***************************************************************************)
(* What nobody asked for.                                                  *)
(***************************************************************************)
\* The project is edited: the next snapshot will be another one.
Edit ==
  /\ edits + faults < MaxEvents
  /\ edits' = edits + 1 /\ source' = edits + 1
  /\ UNCHANGED <<state, root, alive, port, lock, keeper, commands, spawned, faults>>

Fault == edits + faults < MaxEvents /\ faults' = faults + 1

\* A command is killed; its children run in a session of their own.
KillKeeper(k) ==
  /\ Fault /\ ~At(k, "idle")
  /\ Leave(k)
  /\ UNCHANGED <<source, state, root, alive, port, commands, spawned, edits>>

Die(pid) ==
  /\ Fault /\ pid \in alive
  /\ Terminate({pid})
  /\ UNCHANGED <<source, state, root, lock, keeper, commands, spawned, edits>>

\* A DevSpace that found its port taken ends.
Doomed == {pid \in alive : pid[1] = "dev" /\ pid # port}
BindFails ==
  /\ \E pid \in Doomed : alive' = alive \ {pid}
  /\ UNCHANGED <<source, state, root, port, lock, keeper, counts>>

KeeperStep(k) ==
  \/ Setup(k) \/ Reuse(k) \/ Adopt(k) \/ StopOld(k) \/ Point(k) \/ Begin(k)
  \/ SpawnTunnel(k) \/ RecordTunnel(k) \/ TunnelUp(k)
  \/ SpawnDev(k) \/ RecordDev(k) \/ Ready(k) \/ ReplaceAddress(k) \/ Fail(k)
  \/ Stopped(k)

ConnectorNext ==
  \/ \E k \in Keepers : Serve(k) \/ Stop(k) \/ KeeperStep(k) \/ KillKeeper(k)
  \/ \E pid \in alive : Die(pid)
  \/ BindFails \/ Edit

-----------------------------------------------------------------------------
Labels == {"idle", "setup", "decide", "adopt", "point", "begin", "stop"} \cup Trying
Roots  == Snapshots \cup {NoRoot}
Devs    == ({"dev"} \X (1..MaxSpawn)) \cup {NoProc}
Tunnels == ({"tunnel"} \X (1..MaxSpawn)) \cup {NoProc}

ConnectorTypeOK ==
  /\ source \in Snapshots /\ {edits, faults, commands} \subseteq Nat
  /\ edits + faults <= MaxEvents /\ commands <= MaxCommands
  /\ spawned \in 0..MaxSpawn
  /\ state \in [life : {"absent", "starting", "connector-ready", "failed", "stopped"},
                dev : Devs, tunnel : Tunnels, ws : Roots, attached : BOOLEAN]
  /\ root \in Roots
  /\ alive \subseteq Pids /\ port \in (alive \cap Devs) \cup {NoProc}
  /\ keeper \in [Keepers -> [pc : Labels, ws : Roots, dev : Devs, tunnel : Tunnels, url : Urls]]

\* Processes that no state file names and no command has in hand.
Untracked == alive \ (Recorded \cup UNION {Held(k) : k \in Keepers})
=============================================================================
