-------------------------- MODULE AgentTurnProofs --------------------------
(***************************************************************************)
(* Theorems about repo-aware runs and the connector under them, for any    *)
(* runs, invocations of serve and stop, and values of the bounds.          *)
(***************************************************************************)
EXTENDS AgentTurn, TLAPS

-----------------------------------------------------------------------------
(* The inductive invariant.                                                *)

\* Process ids are given out once: none is in use that was not started.
Numbered(pid) == pid[2] <= spawned
Pedigree ==
  /\ \A pid \in alive : Numbered(pid)
  /\ Numbered(state.dev) /\ Numbered(state.tunnel)
  /\ \A k \in Keepers : Numbered(keeper[k].dev) /\ Numbered(keeper[k].tunnel)
  /\ \A a \in Attempts : Numbered(main[a].dev)

\* A command works under the lock, an attempt records its pin under it.
LockHeld ==
  /\ \A k \in Keepers : keeper[k].pc # "idle" => lock = k
  /\ \A a \in Attempts : main[a].pc = "record" => lock = a

\* What a command has in hand, and what the state file may name while it works.
InHand ==
  \A k \in Keepers :
    /\ keeper[k].pc \notin Trying => Held(k) = {NoProc}
    /\ keeper[k].pc \in {"dig", "dug", "published", "launch"} => keeper[k].dev = NoProc
    /\ keeper[k].pc = "dig" => keeper[k].tunnel = NoProc
    /\ keeper[k].url # "tunnel" => keeper[k].tunnel = NoProc
    /\ keeper[k].pc = "dig" => keeper[k].url = "tunnel"
    /\ keeper[k].pc \in {"point", "begin", "stop"} => Recorded \cap alive = {}
    /\ keeper[k].pc \in Trying => Recorded \cap alive \subseteq Held(k)

Early == {"idle", "check", "refused", "refresh", "unready", "pin", "record", "verify", "request"}

\* Only the first attempt of a run is made, and it has its directory alone
\* until its request is written.
OneAttempt ==
  \A a \in Attempts :
    /\ a[2] # 1 => main[a].pc = "idle"
    /\ main[a].pc \in Early => child[a] = "none"
    /\ a[2] = 1 /\ main[a].pc \in Early => request[Run(a)] = {}

\* The journal never denies a turn.
Posting == {"posting", "received", "kept", "complete", "done"}
Journaled ==
  \A a \in Attempts :
    /\ child[a] \in {"none", "queued", "admitted"} => turn[a].st = "none"
    /\ child[a] \in Posting => ProvesSubmission(journal[Run(a)])
    /\ turn[a].st # "none" => ProvesSubmission(journal[Run(a)])
    /\ child[a] \in Posting \ {"posting"} => Final(a)

\* Answers are of turns of the run that keeps them.
OfRun(c, r) == c # NoTurn => c \in Posted /\ Run(c) = r
Own ==
  /\ \A r \in Runs : OfRun(saved[r], r) /\ OfRun(response[r], r) /\ OfRun(reader[r].conv, r)
  /\ \A a \in Attempts : OfRun(main[a].conv, Run(a))

\* Who says ok has seen the proof of just the answer it keeps.
Proved(c) == c # NoTurn /\ turn[c].st = "answered"
Judged ==
  /\ \A a \in Attempts :
       /\ main[a].pc \in {"mark", "passed", "accepted"} => Proved(main[a].conv)
       /\ main[a].pc = "accepted" => Proved(response[Run(a)])
  /\ \A r \in Runs :
       /\ reader[r].pc # "idle" => request[r] # {}
       /\ meta[r] = "ok" => Proved(response[r])
       /\ reader[r].pc \in {"keep", "respond"} => reader[r].conv # NoTurn
       /\ reader[r].pc \in {"keep", "respond"} /\ reader[r].verdict = "ok" =>
            Proved(reader[r].conv)
       /\ reader[r].pc = "conclude" /\ reader[r].verdict = "ok" => Proved(response[r])

\* A turn is served by the DevSpace its attempt read about, if that one still
\* runs: two do not share the port.
SameDevSpace ==
  \A a \in Attempts :
    turn[a].st \in {"opened", "answered"} /\ main[a].pc \in {"wait", "mark"}
      /\ main[a].dev \in alive => turn[a].dev = main[a].dev

Attached ==
  state.attached /\ state.dev # NoProc =>
    \E a \in Posted : turn[a].st = "answered" /\ turn[a].dev = state.dev

ConnectorInv == Pedigree /\ LockHeld /\ InHand
TurnInv      == OneAttempt /\ Journaled /\ Own /\ Judged
IInv         == TypeOK /\ ConnectorInv /\ TurnInv /\ SameDevSpace /\ Attached

Hands == [pc : Labels, ws : Roots, dev : Devs, tunnel : Tunnels, url : Urls]

\* The steps of one command, attempt and resume.
Command(k) == (Serve(k) \/ Stop(k) \/ KeeperStep(k) \/ KillKeeper(k)) /\ UNCHANGED turns
Nobody     == ((\E pid \in alive : Die(pid)) \/ BindFails \/ Edit) /\ UNCHANGED turns
Attempting(a) == MainStep(a) \/ Kill(a) \/ (BeginRun(a) /\ a[2] = 1)
Asking(a)  == ChildStep(a) \/ KillChild(a) \/ Open(a) \/ Answer(a) \/ Unproved(a)
Resuming(r) == ReaderStep(r) \/ Resume(r)

\* Every step is one of these.
LEMMA StepCases ==
    ASSUME Next
    PROVE  \/ \E k \in Keepers : Command(k)
           \/ Nobody
           \/ \E a \in Attempts : Attempting(a) \/ Asking(a)
           \/ \E r \in Runs : Resuming(r)
<1>1. CASE ConnectorNext /\ UNCHANGED turns
  BY <1>1 DEF ConnectorNext, Command, Nobody
<1>2. CASE TurnsNext
  BY <1>2 DEF TurnsNext, Attempting, Asking, Resuming
<1>3. CASE \E a \in Attempts : Kill(a) \/ KillChild(a)
  BY <1>3 DEF Attempting, Asking
<1>4. ASSUME NEW r \in Runs, BeginRun(<<r, 1>>) \/ Resume(r)
      PROVE  (\E a \in Attempts : Attempting(a)) \/ Resuming(r)
  <2>1. <<r, 1>> \in Attempts /\ <<r, 1>>[2] = 1
    BY TurnAssumption DEF Attempts
  <2> QED BY <1>4, <2>1 DEF Attempting, Resuming
<1> QED BY <1>1, <1>2, <1>3, <1>4 DEF Next

\* What a command has in hand keeps its type when a field changes with the label.
LEMMA HandTyped ==
    ASSUME keeper \in [Keepers -> Hands], NEW k \in Keepers, NEW l \in Labels
    PROVE  /\ \A ws \in Roots : [keeper EXCEPT ![k].pc = l, ![k].ws = ws] \in [Keepers -> Hands]
           /\ \A url \in Urls : [keeper EXCEPT ![k].pc = l, ![k].url = url] \in [Keepers -> Hands]
           /\ \A pid \in Devs : [keeper EXCEPT ![k].pc = l, ![k].dev = pid] \in [Keepers -> Hands]
           /\ \A pid \in Tunnels :
                [keeper EXCEPT ![k].pc = l, ![k].tunnel = pid] \in [Keepers -> Hands]
BY DEF Hands

\* A step of a command keeps the types.
LEMMA CommandTyped ==
    ASSUME TypeOK, NEW k \in Keepers, Command(k)
    PROVE  TypeOK'
<1> USE ConnectorAssumption, TurnAssumption
<1> DEFINE Good == ConnectorTypeOK' /\ lock' \in Keepers \cup Attempts \cup {NoOne}
<1>0. keeper \in [Keepers -> Hands] /\ {"decide", "point", "dug", "launched"} \subseteq Labels
  BY DEF TypeOK, ConnectorTypeOK, Hands, Labels, Trying
<1> USE DEF TypeOK, ConnectorTypeOK, At, Hop, Leave, Persist, State, Idle, Terminate, NewPid,
         counts, Labels, Trying, Roots, Devs, Tunnels, Pids, Snapshots, NoRoot, NoProc, Urls
<1>1. ASSUME Serve(k) PROVE Good  BY <1>1 DEF Serve
<1>2. ASSUME Setup(k) PROVE Good
  <2>1. ASSUME Leave(k) PROVE Good  BY <1>2, <2>1 DEF Setup
  <2>2. CASE keeper' = [keeper EXCEPT ![k].pc = "decide", ![k].ws = source]
    <3>1. source \in Roots  OBVIOUS
    <3>2. keeper' \in [Keepers -> Hands]
      <4> HIDE DEF Labels, Roots
      <4> QED BY <1>0, <2>2, <3>1, HandTyped
    <3> QED BY <1>2, <2>2, <3>2 DEF Setup, Hands
  <2> QED BY <1>2, <2>1, <2>2 DEF Setup
<1>3. ASSUME Reuse(k) PROVE Good  BY <1>3 DEF Reuse
<1>4. ASSUME Adopt(k) PROVE Good  BY <1>4 DEF Adopt
<1>5. ASSUME StopOld(k) PROVE Good
  <2>1. PICK url \in Urls : keeper' = [keeper EXCEPT ![k].pc = "point", ![k].url = url]
    BY <1>5 DEF StopOld
  <2>2. keeper' \in [Keepers -> Hands]
    <3> HIDE DEF Labels, Urls
    <3> QED BY <1>0, <2>1, HandTyped
  <2> QED BY <1>5, <2>2 DEF StopOld, Hands
<1>6. ASSUME Point(k) PROVE Good  BY <1>6 DEF Point
<1>7. ASSUME Begin(k) PROVE Good  BY <1>7 DEF Begin
<1>8. ASSUME SpawnTunnel(k) PROVE Good
  <2>1. NewPid("tunnel") \in Tunnels \cap Pids /\ spawned' \in 0..MaxSpawn
    BY <1>8 DEF SpawnTunnel
  <2>2. keeper' \in [Keepers -> Hands]
    <3> HIDE DEF Labels, Devs, Tunnels, NewPid
    <3> QED BY <1>8, <1>0, <2>1, HandTyped DEF SpawnTunnel
  <2> QED BY <1>8, <2>1, <2>2 DEF SpawnTunnel, Hands
<1>9. ASSUME RecordTunnel(k) PROVE Good  BY <1>9 DEF RecordTunnel
<1>10. ASSUME TunnelUp(k) PROVE Good  BY <1>10 DEF TunnelUp
<1>11. ASSUME SpawnDev(k) PROVE Good
  <2>1. NewPid("dev") \in Devs \cap Pids /\ spawned' \in 0..MaxSpawn
    BY <1>11 DEF SpawnDev
  <2>2. keeper' \in [Keepers -> Hands]
    <3> HIDE DEF Labels, Devs, Tunnels, NewPid
    <3> QED BY <1>11, <1>0, <2>1, HandTyped DEF SpawnDev
  <2> QED BY <1>11, <2>1, <2>2 DEF SpawnDev, Hands
<1>12. ASSUME RecordDev(k) PROVE Good  BY <1>12 DEF RecordDev
<1>13. ASSUME Ready(k) PROVE Good  BY <1>13 DEF Ready
<1>14. ASSUME ReplaceAddress(k) PROVE Good  BY <1>14 DEF ReplaceAddress
<1>15. ASSUME Fail(k) PROVE Good  BY <1>15 DEF Fail, GivesUp, Held
<1>16. ASSUME Stop(k) PROVE Good  BY <1>16 DEF Stop, Recorded
<1>17. ASSUME Stopped(k) PROVE Good  BY <1>17 DEF Stopped
<1>18. ASSUME KillKeeper(k) PROVE Good  BY <1>18 DEF KillKeeper, Fault
<1>19. Good
  BY <1>1, <1>2, <1>3, <1>4, <1>5, <1>6, <1>7, <1>8, <1>9, <1>10, <1>11, <1>12, <1>13, <1>14,
     <1>15, <1>16, <1>17, <1>18 DEF Command, KeeperStep
<1>20. UNCHANGED turns
  BY DEF Command
<1> QED BY <1>19, <1>20 DEF turns, directory

\* So does what nobody asked for.
LEMMA NobodyTyped ==
    ASSUME TypeOK, Nobody
    PROVE  TypeOK'
<1> USE ConnectorAssumption
<1>1. ConnectorTypeOK' /\ lock' = lock
  <2> USE DEF TypeOK, ConnectorTypeOK, counts
  <2>1. ASSUME NEW pid \in alive, Die(pid) PROVE ConnectorTypeOK' /\ lock' = lock
    BY <2>1 DEF Die, Fault, Terminate
  <2>2. ASSUME BindFails PROVE ConnectorTypeOK' /\ lock' = lock
    BY <2>2 DEF BindFails, Doomed
  <2>3. ASSUME Edit PROVE ConnectorTypeOK' /\ lock' = lock
    BY <2>3 DEF Edit, Snapshots
  <2> QED BY <2>1, <2>2, <2>3 DEF Nobody
<1>2. UNCHANGED turns
  BY DEF Nobody
<1> QED BY <1>1, <1>2 DEF TypeOK, turns, directory

\* A step of an attempt or of its turn is about it, its run and nothing else.
LEMMA AttemptIsLocal ==
    ASSUME TypeOK, NEW a \in Attempts, Attempting(a) \/ Asking(a)
    PROVE  /\ UNCHANGED <<source, alive, port, keeper, commands, spawned, edits, reader>>
           /\ \A b \in Attempts \ {a} :
                main'[b] = main[b] /\ child'[b] = child[b] /\ turn'[b] = turn[b]
           /\ \A r \in Runs \ {Run(a)} :
                /\ request'[r] = request[r] /\ journal'[r] = journal[r] /\ meta'[r] = meta[r]
                /\ saved'[r] = saved[r] /\ response'[r] = response[r]
<1> USE DEF TypeOK, Doing, Step, connector, directory, counts, NotConnector
<1>1. CASE MainStep(a)
  BY <1>1 DEF MainStep, MainWorks, Check, Refresh, Pin, RecordPin, Verify, Request, Collect, Mark,
         LockTimesOut, ChildTimesOut, SaveResponse, Save
<1>2. CASE Kill(a)
  BY <1>2 DEF Kill
<1>3. CASE BeginRun(a)
  BY <1>3 DEF BeginRun
<1>4. CASE ChildStep(a) \/ KillChild(a)
  BY <1>4 DEF ChildStep, ChildWorks, KillChild, Admit, Submit, Post, Receive, Keep, Finalize,
         Conclude, ChildFails, Phase, ChildTo, AtHome
<1>5. CASE Open(a) \/ Answer(a) \/ Unproved(a)
  BY <1>5 DEF Open, Answer, Unproved, Becomes, AtChatGPT
<1> QED BY <1>1, <1>2, <1>3, <1>4, <1>5 DEF Attempting, Asking

\* What an attempt knows keeps its type.
LEMMA MainTyped ==
    ASSUME TypeOK, NEW a \in Attempts, Attempting(a) \/ Asking(a)
    PROVE  main' \in [Attempts -> Mains]
<1>1. main \in [Attempts -> Mains] /\ saved[Run(a)] \in Attempts \cup {NoTurn}
  BY DEF TypeOK, Run, Attempts
<1>2. /\ state.dev \in Devs /\ state.tunnel \in Tunnels /\ state.ws \in Roots
      /\ source \in Roots /\ NoProc \in Devs \cap Tunnels /\ NoRoot \in Roots
  BY DEF TypeOK, ConnectorTypeOK, Devs, Tunnels, Roots
<1> USE <1>1, <1>2 DEF Mains, Step
<1>3. ASSUME Check(a) PROVE main' \in [Attempts -> Mains]  BY <1>3 DEF Check
<1>4. ASSUME Refresh(a) PROVE main' \in [Attempts -> Mains]  BY <1>4 DEF Refresh
<1>5. ASSUME Pin(a) PROVE main' \in [Attempts -> Mains]  BY <1>5 DEF Pin
<1>6. ASSUME Verify(a) PROVE main' \in [Attempts -> Mains]
  <2>1. PICK m \in Mains : main' = [main EXCEPT ![a] = m]
    <3>1. PICK l \in {"request", "unready"} :
            main' = [main EXCEPT ![a] = [main[a] EXCEPT !.pc = l, !.dev = state.dev,
                                           !.tunnel = state.tunnel, !.pinned = state.ws]]
      BY <1>6 DEF Verify
    <3>2. [main[a] EXCEPT !.pc = l, !.dev = state.dev, !.tunnel = state.tunnel,
                          !.pinned = state.ws] \in Mains
      OBVIOUS
    <3> QED BY <3>1, <3>2
  <2> QED BY <2>1
<1>7. ASSUME Request(a) PROVE main' \in [Attempts -> Mains]
  <2>1. CASE Doing(a, "request")
    BY <1>7, <2>1 DEF Request
  <2>2. CASE ~Doing(a, "request")
    BY <1>7, <2>2 DEF Request
  <2> QED BY <2>1, <2>2
<1>8. ASSUME Collect(a) \/ ChildTimesOut(a) PROVE main' \in [Attempts -> Mains]
  BY <1>8 DEF Collect, ChildTimesOut
<1>9. ASSUME Save(a) PROVE main' \in [Attempts -> Mains]  BY <1>9 DEF Save, IdleMain
<1>10. ASSUME Kill(a) PROVE main' \in [Attempts -> Mains]  BY <1>10 DEF Kill, IdleMain
<1>11. ASSUME RecordPin(a) \/ Mark(a) \/ LockTimesOut(a) \/ SaveResponse(a) \/ BeginRun(a)
       PROVE main' \in [Attempts -> Mains]
  BY <1>11 DEF RecordPin, Mark, LockTimesOut, SaveResponse, BeginRun
<1>12. ASSUME Asking(a) PROVE main' \in [Attempts -> Mains]
  BY <1>12 DEF Asking, ChildStep, ChildWorks, KillChild, Admit, Submit, Post, Receive, Keep,
         Finalize, Conclude, ChildFails, Open, Answer, Unproved, AtHome, AtChatGPT
<1> QED BY <1>3, <1>4, <1>5, <1>6, <1>7, <1>8, <1>9, <1>10, <1>11, <1>12 DEF Attempting, MainStep,
           MainWorks

\* A step of an attempt or of its turn keeps the types.
LEMMA AttemptTyped ==
    ASSUME TypeOK, NEW a \in Attempts, Attempting(a) \/ Asking(a)
    PROVE  TypeOK'
<1>1. /\ Run(a) \in Runs /\ main[a] \in Mains /\ main' \in [Attempts -> Mains]
      /\ UNCHANGED <<source, alive, port, keeper, commands, spawned, edits, reader>>
  BY MainTyped, AttemptIsLocal DEF TypeOK, Run, Attempts
<1>2. ConnectorTypeOK' /\ lock' \in Keepers \cup Attempts \cup {NoOne}
  <2> USE <1>1 DEF TypeOK, ConnectorTypeOK, connector, counts, NotConnector
  <2>1. ASSUME Pin(a) PROVE ConnectorTypeOK' /\ lock' \in Keepers \cup Attempts \cup {NoOne}
    BY <2>1 DEF Pin, Mains
  <2>2. ASSUME RecordPin(a) PROVE ConnectorTypeOK' /\ lock' \in Keepers \cup Attempts \cup {NoOne}
    BY <2>2 DEF RecordPin, Mains
  <2>3. ASSUME Mark(a) PROVE ConnectorTypeOK' /\ lock' \in Keepers \cup Attempts \cup {NoOne}
    <3>1. (state.attached \/ Markable(a)) \in BOOLEAN
      BY DEF Markable
    <3>2. /\ state' = [state EXCEPT !.attached = state.attached \/ Markable(a)]
          /\ UNCHANGED <<source, alive, port, keeper, counts, root, lock>>
      BY <2>3 DEF Mark
    <3>3. state' \in [life : {"absent", "starting", "connector-ready", "failed", "stopped"},
                      dev : Devs, tunnel : Tunnels, ws : Roots, attached : BOOLEAN]
      <4> HIDE DEF Markable
      <4> QED BY <3>1, <3>2
    <3> QED BY <3>2, <3>3
  <2>4. ASSUME Kill(a) \/ KillChild(a)
        PROVE  ConnectorTypeOK' /\ lock' \in Keepers \cup Attempts \cup {NoOne}
    BY <2>4, ConnectorAssumption DEF Kill, KillChild, Fault
  <2>5. ASSUME ~(Pin(a) \/ RecordPin(a) \/ Mark(a) \/ Kill(a) \/ KillChild(a)) PROVE UNCHANGED connector
    BY <2>5 DEF Attempting, MainStep, MainWorks, Check, Refresh, Verify, Request, Collect,
           LockTimesOut, ChildTimesOut, SaveResponse, Save, BeginRun, Asking, ChildStep,
           ChildWorks, KillChild, Admit, Submit, Post, Receive, Keep, Finalize, Conclude,
           ChildFails, AtHome, Open, Answer, Unproved, AtChatGPT
  <2> QED BY <2>1, <2>2, <2>3, <2>4, <2>5
<1>3. /\ request' \in [Runs -> {{}} \cup {{ws} : ws \in Roots}]
      /\ meta' \in [Runs -> Verdicts]
  <2> USE <1>1 DEF TypeOK, directory
  <2>1. ASSUME Request(a) PROVE request' \in [Runs -> {{}} \cup {{ws} : ws \in Roots}] /\ meta' = meta
    BY <2>1 DEF Request, Mains
  <2>2. ASSUME Save(a) PROVE request' = request /\ meta' \in [Runs -> Verdicts]
    BY <2>2 DEF Save, Verdicts
  <2>3. ASSUME ~(Request(a) \/ Save(a)) PROVE UNCHANGED <<request, meta>>
    BY <2>3 DEF Attempting, MainStep, MainWorks, Check, Refresh, Pin, RecordPin, Verify,
           Collect, Mark, LockTimesOut, ChildTimesOut, SaveResponse, BeginRun, Kill, Asking,
           ChildStep, ChildWorks, KillChild, Admit, Submit, Post, Receive, Keep, Finalize,
           Conclude, ChildFails, AtHome, Open, Answer, Unproved, AtChatGPT
  <2> QED BY <2>1, <2>2, <2>3
<1>4. /\ journal' \in [Runs -> Phases] /\ child' \in [Attempts -> ChildLabels]
      /\ {saved', response'} \subseteq [Runs -> Attempts \cup {NoTurn}]
      /\ turn' \in [Attempts -> Turns]
  <2> USE <1>1 DEF TypeOK, directory
  <2>1. ASSUME ChildStep(a) \/ KillChild(a)
        PROVE  /\ journal' \in [Runs -> Phases] /\ child' \in [Attempts -> ChildLabels]
               /\ {saved', response'} \subseteq [Runs -> Attempts \cup {NoTurn}]
    BY <2>1 DEF ChildStep, ChildWorks, KillChild, Admit, Submit, Post, Receive, Keep, Finalize,
           Conclude, ChildFails, Phase, ChildTo, AtHome, Phases, ChildLabels
  <2>2. ASSUME Post(a) PROVE turn' \in [Attempts -> Turns]
    <3>1. [NoPost EXCEPT !.st = "posted", !.ws = main[a].ws] \in Turns
      BY DEF NoPost, Turns, Mains, Devs
    <3> QED BY <2>2, <3>1 DEF Post
  <2>3. ASSUME ChildStep(a) \/ KillChild(a), ~Post(a) PROVE turn' = turn
    BY <2>3 DEF ChildStep, ChildWorks, KillChild, Admit, Submit, Post, Receive, Keep, Finalize,
           Conclude, ChildFails, Phase, ChildTo, AtHome
  <2>4. ASSUME Open(a) \/ Answer(a) \/ Unproved(a)
        PROVE UNCHANGED <<directory, child>> /\ turn' \in [Attempts -> Turns]
    <3>1. port \in Devs /\ turn[a] \in Turns
      BY DEF ConnectorTypeOK, Devs
    <3> QED BY <2>4, <3>1 DEF Open, Answer, Unproved, Becomes, AtChatGPT, Turns
  <2>5. ASSUME Attempting(a) PROVE /\ UNCHANGED <<journal, saved, turn>> /\ child' \in [Attempts -> ChildLabels]
                                /\ response' \in [Runs -> Attempts \cup {NoTurn}]
    <3> USE DEF ChildLabels
    <3>1. ASSUME SaveResponse(a) PROVE response' \in [Runs -> Attempts \cup {NoTurn}]
      BY <3>1 DEF SaveResponse, Mains
    <3>2. UNCHANGED <<journal, saved, turn>> /\ (~SaveResponse(a) => response' = response)
      BY <2>5 DEF Attempting, MainStep, MainWorks, Check, Refresh, Pin, RecordPin, Verify,
             Request, Collect, Mark, LockTimesOut, ChildTimesOut, SaveResponse, Save, BeginRun,
             Kill
    <3>3. child' \in [Attempts -> ChildLabels]
      BY <2>5 DEF Attempting, MainStep, MainWorks, Check, Refresh, Pin, RecordPin, Verify,
             Request, Collect, Mark, LockTimesOut, ChildTimesOut, SaveResponse, Save, BeginRun,
             Kill
    <3> QED BY <3>1, <3>2, <3>3
  <2> QED BY <2>1, <2>2, <2>3, <2>4, <2>5 DEF Asking
<1> QED BY <1>1, <1>2, <1>3, <1>4 DEF TypeOK

\* What a resume finds is an attempt.
LEMMA FoundAttempts ==
    ASSUME TypeOK, NEW r \in Runs
    PROVE  Found(r) \subseteq Attempts /\ (reader[r].conv = NoTurn => Found(r) \subseteq Matching(r))
BY DEF Found, Matching, Posted, TypeOK, Readers

\* A resume keeps the types, and is about its run and nothing else.
LEMMA ResumeTyped ==
    ASSUME TypeOK, NEW r \in Runs, Resuming(r)
    PROVE  /\ TypeOK' /\ UNCHANGED <<connector, request, journal, main, child, turn>>
           /\ \A q \in Runs \ {r} :
                /\ saved'[q] = saved[q] /\ response'[q] = response[q] /\ meta'[q] = meta[q]
                /\ reader'[q] = reader[q]
<1> USE DEF TypeOK
<1>1. UNCHANGED <<connector, request, journal, main, child, turn>>
  BY DEF Resuming, ReaderStep, ReadLocal, ReadRemote, KeepRead, WriteResponse, WriteResult, Resume,
         Unread, directory
<1>2. /\ saved[r] \in Attempts \cup {NoTurn} /\ reader[r] \in Readers
      /\ {"none", "ok", "not-submitted", "remote-pending", "failed"} \subseteq Verdicts
      /\ NoTurn \in Attempts \cup {NoTurn}
  BY DEF Verdicts
<1>3. ASSUME ReadLocal(r)
      PROVE  /\ reader' \in [Runs -> Readers] /\ meta' \in [Runs -> Verdicts]
             /\ UNCHANGED <<saved, response>>
             /\ \A q \in Runs \ {r} : meta'[q] = meta[q] /\ reader'[q] = reader[q]
  <2>1. ASSUME NEW v \in {"ok", "not-submitted"} PROVE Conclusion(r, v) \in Readers
    BY <1>2 DEF Conclusion, IdleReader, Readers
  <2>2. CASE reader' = [reader EXCEPT ![r].pc = "remote", ![r].conv = saved[r]] /\ UNCHANGED meta
    BY <1>2, <1>3, <2>2 DEF ReadLocal, Readers
  <2> QED BY <1>2, <1>3, <2>1, <2>2 DEF ReadLocal
<1>4. ASSUME ReadRemote(r)
      PROVE  /\ reader' \in [Runs -> Readers] /\ UNCHANGED <<saved, response, meta>>
             /\ \A q \in Runs \ {r} : reader'[q] = reader[q]
  <2>1. CASE reader' = [reader EXCEPT ![r].pc = "conclude", ![r].verdict = "remote-pending"]
    BY <1>2, <1>4, <2>1 DEF ReadRemote, Readers
  <2>2. ASSUME NEW a \in Found(r), NEW v \in {"ok", "failed"}, NEW l \in {"keep", "conclude"},
               reader' = [reader EXCEPT ![r] = [pc |-> l, conv |-> a, verdict |-> v]]
        PROVE  reader' \in [Runs -> Readers] /\ \A q \in Runs \ {r} : reader'[q] = reader[q]
    BY <1>2, <2>2, FoundAttempts DEF Readers
  <2> QED BY <1>4, <2>1, <2>2 DEF ReadRemote
<1>5. ASSUME KeepRead(r) \/ WriteResponse(r) \/ WriteResult(r)
      PROVE  /\ reader' \in [Runs -> Readers] /\ meta' \in [Runs -> Verdicts]
             /\ {saved', response'} \subseteq [Runs -> Attempts \cup {NoTurn}]
             /\ \A q \in Runs \ {r} : /\ saved'[q] = saved[q] /\ response'[q] = response[q]
                                      /\ meta'[q] = meta[q] /\ reader'[q] = reader[q]
  <2>1. CASE KeepRead(r)  BY <1>2, <2>1 DEF KeepRead, Readers
  <2>2. CASE WriteResponse(r)  BY <1>2, <2>2 DEF WriteResponse, Readers
  <2>3. CASE WriteResult(r)
    BY <1>2, <2>3 DEF WriteResult, Conclusion, IdleReader, Readers
  <2> QED BY <1>5, <2>1, <2>2, <2>3
<1>6. ASSUME Resume(r)
      PROVE  /\ reader' \in [Runs -> Readers] /\ UNCHANGED <<saved, response, meta>>
             /\ \A q \in Runs \ {r} : reader'[q] = reader[q]
  BY <1>2, <1>6 DEF Resume, IdleReader, Readers, directory
<1>7. ConnectorTypeOK' /\ lock' = lock
  BY <1>1 DEF ConnectorTypeOK, connector, counts
<1> QED BY <1>1, <1>3, <1>4, <1>5, <1>6, <1>7 DEF Resuming, ReaderStep

\* The initial states are well typed.
LEMMA InitTyped == Init => TypeOK
<1> SUFFICES ASSUME Init PROVE TypeOK
  OBVIOUS
<1>1. ConnectorTypeOK /\ lock = NoOne
  <2> USE ConnectorAssumption DEF Init, ConnectorInit, State, Idle, Labels, Urls, Roots, Devs,
         Tunnels, Pids, Snapshots, NoRoot, NoProc
  <2>1. CASE Started
    BY <2>1 DEF ConnectorTypeOK
  <2>2. CASE ~Started
    BY <2>2 DEF ConnectorTypeOK
  <2> QED BY <2>1, <2>2
<1>2. IdleMain \in Mains /\ NoPost \in Turns /\ IdleReader \in Readers
  BY DEF IdleMain, NoPost, IdleReader, Mains, Turns, Readers, Roots, Devs, Tunnels, Verdicts
<1>3. "none" \in Phases \cap Verdicts \cap ChildLabels
  BY DEF Phases, Verdicts, ChildLabels
<1> QED BY <1>1, <1>2, <1>3 DEF Init, TurnsInit, TypeOK

\* Every step keeps the types.
LEMMA StepTyped == TypeOK /\ [Next]_vars => TypeOK'
<1>1. ASSUME TypeOK, UNCHANGED vars PROVE TypeOK'
  BY <1>1 DEF vars, turns, directory, connector, counts, TypeOK, ConnectorTypeOK
<1> QED BY <1>1, StepCases, CommandTyped, NobodyTyped, AttemptTyped, ResumeTyped

\* Every variable keeps its type: the files, the processes and the turns have
\* the shape the code gives them.
THEOREM TypeCorrect == Spec => []TypeOK
BY InitTyped, StepTyped, PTL DEF Spec

-----------------------------------------------------------------------------
(* The connector: what its commands hold and name.                         *)

\* A command that works has the lock, and no other one does.
LEMMA WorksAlone ==
    ASSUME TypeOK, LockHeld, NEW k \in Keepers, Command(k)
    PROVE  /\ \A j \in Keepers \ {k} : keeper[j].pc = "idle" /\ keeper'[j] = keeper[j]
           /\ keeper'[k].pc # "idle" => lock' = k
           /\ \A a \in Attempts : main[a].pc # "record"
<1> USE DEF TypeOK, ConnectorTypeOK
<1>1. \A a \in Attempts : a # NoOne /\ a # k
  BY TurnAssumption
<1>2. k # NoOne /\ (lock = NoOne \/ lock = k)
  BY ConnectorAssumption DEF LockHeld, Command, KeeperStep, KillKeeper, At, Trying, Serve, Stop,
         Setup, Reuse, Adopt, StopOld, Point, Begin, SpawnTunnel, RecordTunnel, TunnelUp, SpawnDev,
         RecordDev, Ready, ReplaceAddress, Fail, Stopped
<1>3. ASSUME NEW j \in Keepers \ {k} PROVE keeper[j].pc = "idle"
  BY <1>2, ConnectorAssumption DEF LockHeld
<1>4. ASSUME NEW j \in Keepers \ {k} PROVE keeper'[j] = keeper[j]
  BY DEF Command, KeeperStep, KillKeeper, Hop, Leave, Serve, Stop, GivesUp,
         Setup, Reuse, Adopt, StopOld, Point, Begin, SpawnTunnel, RecordTunnel, TunnelUp, SpawnDev,
         RecordDev, Ready, ReplaceAddress, Fail, Stopped
<1>5. ASSUME keeper'[k].pc # "idle" PROVE lock' = k
  <2>1. ASSUME Serve(k) \/ Stop(k) PROVE lock' = k
    BY <2>1 DEF Serve, Stop
  <2>2. ASSUME KeeperStep(k) \/ KillKeeper(k), ~Leave(k) PROVE keeper[k].pc # "idle" /\ lock' = lock
    BY <2>2 DEF KeeperStep, KillKeeper, At, Trying, GivesUp,
         Setup, Reuse, Adopt, StopOld, Point, Begin, SpawnTunnel, RecordTunnel, TunnelUp, SpawnDev,
         RecordDev, Ready, ReplaceAddress, Fail, Stopped
  <2>3. ASSUME Leave(k) PROVE FALSE
    BY <1>5, <2>3 DEF Leave, Idle
  <2> QED BY <2>1, <2>2, <2>3 DEF Command, LockHeld
<1> QED BY <1>1, <1>2, <1>3, <1>4, <1>5 DEF LockHeld

\* What a command has in hand, and what the state file names, are as it says.
LEMMA CommandInHand ==
    ASSUME TypeOK, LockHeld, InHand, NEW k \in Keepers, Command(k)
    PROVE  InHand'
<1> DEFINE Hand(h, recorded, running) ==
      /\ h.pc \notin Trying => h.dev = NoProc /\ h.tunnel = NoProc
      /\ h.pc \in {"dig", "dug", "published", "launch"} => h.dev = NoProc
      /\ h.pc = "dig" => h.tunnel = NoProc
      /\ h.url # "tunnel" => h.tunnel = NoProc
      /\ h.pc = "dig" => h.url = "tunnel"
      /\ h.pc \in {"point", "begin", "stop"} => recorded \cap running = {}
      /\ h.pc \in Trying => recorded \cap running \subseteq {h.dev, h.tunnel}
<1>1. InHand <=> \A j \in Keepers : Hand(keeper[j], Recorded, alive)
  BY DEF InHand, Held, Trying
<1>2. InHand' <=> \A j \in Keepers : Hand(keeper'[j], Recorded', alive')
  BY DEF InHand, Held, Trying
<1>3. /\ Hand(keeper[k], Recorded, alive) /\ NoProc \notin alive
      /\ keeper \in [Keepers -> Hands]
      /\ state \in [life : {"absent", "starting", "connector-ready", "failed", "stopped"},
                    dev : Devs, tunnel : Tunnels, ws : Roots, attached : BOOLEAN]
  BY <1>1 DEF TypeOK, ConnectorTypeOK, Pids, NoProc, Hands
<1>4. ASSUME NEW j \in Keepers \ {k} PROVE Hand(keeper'[j], Recorded', alive')
  BY <1>1, WorksAlone DEF Trying
<1> USE <1>3 DEF Hands, At, Hop, Leave, Idle, Persist, State, Terminate, Recorded, Trying
<1> HIDE DEF Hand
<1>5. ASSUME Serve(k) PROVE Hand(keeper'[k], Recorded', alive')
  BY <1>5 DEF Serve, Hand
<1>6. ASSUME Setup(k) PROVE Hand(keeper'[k], Recorded', alive')
  BY <1>6 DEF Setup, Hand
<1>7. ASSUME Reuse(k) PROVE Hand(keeper'[k], Recorded', alive')
  BY <1>7 DEF Reuse, Hand
<1>8. ASSUME Adopt(k) PROVE Hand(keeper'[k], Recorded', alive')
  BY <1>8 DEF Adopt, Hand
<1>9. ASSUME StopOld(k) PROVE Hand(keeper'[k], Recorded', alive')
  BY <1>9 DEF StopOld, Hand
<1>10. ASSUME Point(k) PROVE Hand(keeper'[k], Recorded', alive')
  BY <1>10 DEF Point, Hand
<1>11. ASSUME Begin(k) PROVE Hand(keeper'[k], Recorded', alive')
  BY <1>11 DEF Begin, Hand
<1>12. ASSUME SpawnTunnel(k) PROVE Hand(keeper'[k], Recorded', alive')
  BY <1>12 DEF SpawnTunnel, Hand
<1>13. ASSUME RecordTunnel(k) PROVE Hand(keeper'[k], Recorded', alive')
  BY <1>13 DEF RecordTunnel, Hand
<1>14. ASSUME TunnelUp(k) PROVE Hand(keeper'[k], Recorded', alive')
  BY <1>14 DEF TunnelUp, Hand
<1>15. ASSUME SpawnDev(k) PROVE Hand(keeper'[k], Recorded', alive')
  BY <1>15 DEF SpawnDev, Hand
<1>16. ASSUME RecordDev(k) PROVE Hand(keeper'[k], Recorded', alive')
  BY <1>16 DEF RecordDev, Hand
<1>17. ASSUME Ready(k) PROVE Hand(keeper'[k], Recorded', alive')
  BY <1>17 DEF Ready, Hand
<1>18. ASSUME ReplaceAddress(k) PROVE Hand(keeper'[k], Recorded', alive')
  BY <1>18 DEF ReplaceAddress, Hand
<1>19. ASSUME Fail(k) PROVE Hand(keeper'[k], Recorded', alive')
  BY <1>19 DEF Fail, GivesUp, Held, Hand
<1>20. ASSUME Stop(k) PROVE Hand(keeper'[k], Recorded', alive')
  BY <1>20 DEF Stop, Hand
<1>21. ASSUME Stopped(k) PROVE Hand(keeper'[k], Recorded', alive')
  BY <1>21 DEF Stopped, Hand
<1>22. ASSUME KillKeeper(k) PROVE Hand(keeper'[k], Recorded', alive')
  BY <1>22 DEF KillKeeper, Hand
<1>23. Hand(keeper'[k], Recorded', alive')
  BY <1>5, <1>6, <1>7, <1>8, <1>9, <1>10, <1>11, <1>12, <1>13, <1>14, <1>15, <1>16, <1>17, <1>18,
     <1>19, <1>20, <1>21, <1>22 DEF Command, KeeperStep
<1> QED BY <1>2, <1>4, <1>23

\* A pid that is new in use is the one just given out.
LEMMA CommandPedigree ==
    ASSUME TypeOK, LockHeld, Pedigree, NEW k \in Keepers, Command(k)
    PROVE  /\ Pedigree'
           /\ \A pid \in alive' \ alive : pid[2] = spawned + 1
<1>1. /\ keeper \in [Keepers -> Hands] /\ spawned \in Nat
      /\ \A pid \in alive \cup Devs \cup Tunnels : pid[2] \in Nat
      /\ state \in [life : {"absent", "starting", "connector-ready", "failed", "stopped"},
                    dev : Devs, tunnel : Tunnels, ws : Roots, attached : BOOLEAN]
      /\ \A a \in Attempts : main[a].dev \in Devs
  BY ConnectorAssumption DEF TypeOK, ConnectorTypeOK, Pids, NoProc, Hands, Devs, Tunnels, Mains
<1>2. NoProc[2] = 0
  BY DEF NoProc
<1> DEFINE Fresh ==
      /\ spawned' \in {spawned, spawned + 1} /\ spawned' \in Nat
      /\ \A pid \in alive' : pid \in alive \/ pid[2] = spawned + 1
      /\ \A pid \in alive' : pid[2] <= spawned'
      /\ state'.dev[2] <= spawned' /\ state'.tunnel[2] <= spawned'
      /\ keeper'[k].dev[2] <= spawned' /\ keeper'[k].tunnel[2] <= spawned'
<1>3. /\ \A pid \in alive : pid[2] <= spawned
      /\ state.dev[2] <= spawned /\ state.tunnel[2] <= spawned
      /\ keeper[k].dev[2] <= spawned /\ keeper[k].tunnel[2] <= spawned
  BY DEF Pedigree, Numbered
<1> USE <1>1, <1>2, <1>3 DEF Hands, At, Hop, Leave, Idle, Persist, State, Terminate, counts
<1>4. ASSUME Serve(k) PROVE Fresh
  BY <1>4 DEF Serve
<1>5. ASSUME Setup(k) PROVE Fresh
  BY <1>5 DEF Setup
<1>6. ASSUME Reuse(k) PROVE Fresh
  BY <1>6 DEF Reuse
<1>7. ASSUME Adopt(k) PROVE Fresh
  BY <1>7 DEF Adopt
<1>8. ASSUME StopOld(k) PROVE Fresh
  BY <1>8 DEF StopOld
<1>9. ASSUME Point(k) PROVE Fresh
  BY <1>9 DEF Point
<1>10. ASSUME Begin(k) PROVE Fresh
  BY <1>10 DEF Begin
<1>11. ASSUME SpawnTunnel(k) PROVE Fresh
  BY <1>11 DEF SpawnTunnel, NewPid
<1>12. ASSUME RecordTunnel(k) PROVE Fresh
  BY <1>12 DEF RecordTunnel
<1>13. ASSUME TunnelUp(k) PROVE Fresh
  BY <1>13 DEF TunnelUp
<1>14. ASSUME SpawnDev(k) PROVE Fresh
  BY <1>14 DEF SpawnDev, NewPid
<1>15. ASSUME RecordDev(k) PROVE Fresh
  BY <1>15 DEF RecordDev
<1>16. ASSUME Ready(k) PROVE Fresh
  BY <1>16 DEF Ready
<1>17. ASSUME ReplaceAddress(k) PROVE Fresh
  BY <1>17 DEF ReplaceAddress
<1>18. ASSUME Fail(k) PROVE Fresh
  BY <1>18 DEF Fail, GivesUp
<1>19. ASSUME Stop(k) PROVE Fresh
  BY <1>19 DEF Stop
<1>20. ASSUME Stopped(k) PROVE Fresh
  BY <1>20 DEF Stopped
<1>21. ASSUME KillKeeper(k) PROVE Fresh
  BY <1>21 DEF KillKeeper
<1>22. Fresh
  BY <1>4, <1>5, <1>6, <1>7, <1>8, <1>9, <1>10, <1>11, <1>12, <1>13, <1>14, <1>15, <1>16, <1>17,
     <1>18, <1>19, <1>20, <1>21 DEF Command, KeeperStep
<1> HIDE DEF Hop, Leave, Persist, Terminate
<1>23. /\ \A j \in Keepers \ {k} : keeper'[j] = keeper[j]
      /\ main' = main
  BY WorksAlone DEF Command, turns
<1>24. /\ \A j \in Keepers : Numbered(keeper[j].dev) /\ Numbered(keeper[j].tunnel)
      /\ \A a \in Attempts : Numbered(main[a].dev)
  BY DEF Pedigree
<1>25. \A j \in Keepers : keeper'[j].dev[2] <= spawned' /\ keeper'[j].tunnel[2] <= spawned'
  BY <1>22, <1>23, <1>24 DEF Numbered
<1>26. \A a \in Attempts : main'[a].dev[2] <= spawned'
  BY <1>22, <1>23, <1>24 DEF Numbered
<1> QED BY <1>22, <1>25, <1>26 DEF Pedigree, Numbered

\* What nobody asked for takes processes away, at most.
LEMMA NobodyTakes ==
    ASSUME TypeOK, Nobody
    PROVE  alive' \subseteq alive /\ UNCHANGED <<state, lock, keeper, spawned, turns>>
BY DEF Nobody, Die, BindFails, Edit, Terminate, turns, directory, counts

\* An attempt names the connector it was told of, and leaves it as it is.
LEMMA AttemptNames ==
    ASSUME TypeOK, NEW a \in Attempts, Attempting(a) \/ Asking(a)
    PROVE  /\ UNCHANGED <<state.dev, state.tunnel>>
           /\ main'[a].dev \in {main[a].dev, state.dev, NoProc}
<1> USE DEF TypeOK, ConnectorTypeOK, Mains
<1>1. UNCHANGED <<state.dev, state.tunnel>>
  BY DEF Attempting, MainStep, MainWorks, Check, Refresh, Pin, RecordPin, Verify, Request,
         Collect, Mark, LockTimesOut, ChildTimesOut, SaveResponse, Save, BeginRun, Kill, Asking,
         ChildStep, ChildWorks, KillChild, Admit, Submit, Post, Receive, Keep, Finalize,
         Conclude, ChildFails, AtHome, Open, Answer, Unproved, AtChatGPT, connector
<1>2. ASSUME Check(a) \/ Verify(a) PROVE main'[a].dev \in {main[a].dev, state.dev}
  <2>1. CASE main' = [main EXCEPT ![a].pc = "refused"]
    BY <2>1
  <2>2. ASSUME NEW l, main' = [main EXCEPT ![a].pc = l, ![a].dev = state.dev, ![a].tunnel = state.tunnel]
        PROVE  main'[a].dev = state.dev
    BY <2>2
  <2>3. ASSUME NEW l, main' = [main EXCEPT ![a].pc = l, ![a].dev = state.dev,
                                      ![a].tunnel = state.tunnel, ![a].pinned = state.ws]
        PROVE  main'[a].dev = state.dev
    BY <2>3
  <2> QED BY <1>2, <2>1, <2>2, <2>3 DEF Check, Verify, Step
<1>3. ASSUME Save(a) \/ Kill(a) PROVE main'[a].dev = NoProc
  <2>1. ASSUME Save(a) PROVE main'[a].dev = NoProc
    BY <2>1 DEF Save, IdleMain
  <2>2. ASSUME Kill(a) PROVE main'[a].dev = NoProc
    BY <2>2 DEF Kill, IdleMain
  <2> QED BY <1>3, <2>1, <2>2
<1>4. ASSUME ~(Check(a) \/ Verify(a) \/ Save(a) \/ Kill(a)) PROVE main'[a].dev = main[a].dev
  BY <1>4 DEF Attempting, MainStep, MainWorks, Refresh, Pin, RecordPin, Request, Collect, Mark,
         Step, LockTimesOut, ChildTimesOut, SaveResponse, BeginRun, Asking, ChildStep,
         ChildWorks, KillChild, Admit, Submit, Post, Receive, Keep, Finalize, Conclude,
         ChildFails, AtHome, Open, Answer, Unproved, AtChatGPT
<1> QED BY <1>1, <1>2, <1>3, <1>4

\* The lock is taken free, and given back by who has it.
LEMMA AttemptLocks ==
    ASSUME TypeOK, LockHeld, NEW a \in Attempts, Attempting(a) \/ Asking(a)
    PROVE  LockHeld'
<1>1. a \notin Keepers /\ a # NoOne
  BY TurnAssumption
<1>2. UNCHANGED keeper /\ \A b \in Attempts \ {a} : main'[b] = main[b]
  BY AttemptIsLocal
<1>3. \A k \in Keepers : keeper[k].pc # "idle" => lock # NoOne /\ lock # a
  BY <1>1, ConnectorAssumption DEF LockHeld
<1>4. \A b \in Attempts \ {a} : main[b].pc = "record" => lock # NoOne /\ lock # a
  BY TurnAssumption DEF LockHeld
<1>5. \/ lock = NoOne
      \/ lock' = lock
      \/ lock = a /\ lock' = NoOne
  BY DEF Attempting, MainStep, MainWorks, Check, Refresh, Pin, RecordPin, Verify, Request,
         Collect, Mark, Doing, LockTimesOut, ChildTimesOut, SaveResponse, Save, BeginRun, Kill,
         Asking, ChildStep, ChildWorks, KillChild, Admit, Submit, Post, Receive, Keep, Finalize,
         Conclude, ChildFails, AtHome, Open, Answer, Unproved, AtChatGPT, connector, LockHeld
<1>6. main'[a].pc = "record" => lock' = a
  <2> USE DEF TypeOK, Mains
  <2>1. CASE Pin(a)
    BY <2>1 DEF Pin, Step
  <2>2. CASE ~Pin(a)
    <3>1. main'[a].pc = "record" => main[a].pc = "record" /\ lock' = lock
      <4>1. ASSUME Check(a) PROVE main'[a].pc \in {"refused", "refresh", "unready"}
        BY <4>1 DEF Check, Step
      <4>2. ASSUME Save(a) \/ Kill(a) PROVE main'[a].pc \in {"done", "over", "killed"}
        <5>1. ASSUME Save(a) PROVE main'[a].pc \in {"done", "over"}
          BY <5>1 DEF Save, IdleMain
        <5>2. ASSUME Kill(a) PROVE main'[a].pc = "killed"
          BY <5>2 DEF Kill, IdleMain
        <5> QED BY <4>2, <5>1, <5>2
      <4>3. ASSUME Verify(a) PROVE main'[a].pc \in {"request", "unready"}
        BY <4>3 DEF Verify
      <4> QED BY <2>2, <4>1, <4>2, <4>3 DEF Attempting, MainStep, MainWorks, Check, Refresh,
             RecordPin, Verify, Request, Collect, Mark, Doing, Step, IdleMain, LockTimesOut,
             ChildTimesOut, SaveResponse, Save, BeginRun, Kill, Asking, ChildStep, ChildWorks,
             KillChild, Admit, Submit, Post, Receive, Keep, Finalize, Conclude, ChildFails,
             AtHome, Open, Answer, Unproved, AtChatGPT, connector
    <3> QED BY <3>1 DEF LockHeld
  <2> QED BY <2>1, <2>2
<1> QED BY <1>2, <1>3, <1>4, <1>5, <1>6 DEF LockHeld

\* The connector's part of the invariant is inductive.
LEMMA ConnectorStep ==
    ASSUME TypeOK, ConnectorInv, [Next]_vars
    PROVE  ConnectorInv'
<1> USE DEF ConnectorInv
<1>1. ASSUME NEW k \in Keepers, Command(k) PROVE ConnectorInv'
  <2>1. LockHeld'
    BY <1>1, WorksAlone DEF LockHeld, Command, turns
  <2> QED BY <1>1, <2>1, CommandInHand, CommandPedigree
<1>2. ASSUME Nobody PROVE ConnectorInv'
  <2>1. alive' \subseteq alive /\ UNCHANGED <<state, lock, keeper, spawned, main>>
    BY <1>2, NobodyTakes DEF turns
  <2> QED BY <2>1 DEF Pedigree, Numbered, LockHeld, InHand, Held, Recorded
<1>3. ASSUME NEW a \in Attempts, Attempting(a) \/ Asking(a) PROVE ConnectorInv'
  <2>1. /\ UNCHANGED <<alive, keeper, spawned, state.dev, state.tunnel>>
        /\ \A b \in Attempts \ {a} : main'[b] = main[b]
    BY <1>3, AttemptIsLocal, AttemptNames
  <2>2. Numbered(NoProc)
    BY ConnectorAssumption DEF Numbered, NoProc, TypeOK, ConnectorTypeOK
  <2>3. Pedigree'
    BY <1>3, <2>1, <2>2, AttemptNames DEF Pedigree, Numbered
  <2>4. InHand'
    BY <2>1 DEF InHand, Held, Recorded
  <2> QED BY <1>3, <2>3, <2>4, AttemptLocks
<1>4. ASSUME NEW r \in Runs, Resuming(r) PROVE ConnectorInv'
  BY <1>4, ResumeTyped DEF connector, counts, Pedigree, Numbered, LockHeld, InHand, Held, Recorded
<1>5. ASSUME UNCHANGED vars PROVE ConnectorInv'
  BY <1>5 DEF vars, turns, connector, counts, Pedigree, Numbered, LockHeld, InHand, Held, Recorded
<1> QED BY <1>1, <1>2, <1>3, <1>4, <1>5, StepCases

\* Nothing is in use before the first command but the connector that serves.
LEMMA ConnectorStarts == Init => ConnectorInv
<1> SUFFICES ASSUME Init PROVE ConnectorInv
  OBVIOUS
<1> USE ConnectorAssumption DEF Init, ConnectorInit, TurnsInit, State, Idle, IdleMain, NoProc
<1>1. Pedigree
  BY DEF Pedigree, Numbered
<1>2. LockHeld
  BY DEF LockHeld
<1>3. InHand
  BY DEF InHand, Held, Trying
<1> QED BY <1>1, <1>2, <1>3 DEF ConnectorInv

\* Types and the connector's invariant hold together.
LEMMA ConnectorCorrect == Spec => [](TypeOK /\ ConnectorInv)
<1>1. TypeOK /\ ConnectorInv /\ [Next]_vars => (TypeOK /\ ConnectorInv)'
  BY StepTyped, ConnectorStep
<1> QED BY <1>1, InitTyped, ConnectorStarts, PTL DEF Spec

\* No step of a command but its being killed leaves a process that neither the
\* state file names nor a command has in hand: a tunnel or DevSpace is recorded,
\* kept in hand or terminated.
LEMMA CommandTracks ==
    ASSUME TypeOK, ConnectorInv, NEW k \in Keepers, Command(k), ~KillKeeper(k)
    PROVE  Untracked' \subseteq Untracked
<1>1. /\ \A j \in Keepers \ {k} : Held(j)' = Held(j)
      /\ keeper \in [Keepers -> Hands] /\ NoProc \notin alive
  BY WorksAlone DEF ConnectorInv, Held, TypeOK, ConnectorTypeOK, Hands, Pids, NoProc
<1>2. SUFFICES ASSUME NEW pid \in alive', pid \notin Recorded', pid \notin Held(k)'
               PROVE  pid \in alive /\ pid \notin Recorded /\ pid \notin Held(k)
  BY <1>1, <1>2 DEF Untracked
<1>3. /\ keeper[k].pc \notin Trying => Held(k) = {NoProc}
      /\ keeper[k].pc \in {"dig", "dug", "published", "launch"} => keeper[k].dev = NoProc
      /\ keeper[k].pc = "dig" => keeper[k].tunnel = NoProc
      /\ keeper[k].pc \in {"point", "begin", "stop"} => Recorded \cap alive = {}
      /\ keeper[k].pc \in Trying => Recorded \cap alive \subseteq Held(k)
  BY DEF ConnectorInv, InHand
<1> DEFINE Good == pid \in alive /\ pid \notin Recorded /\ pid \notin Held(k)
<1> HIDE DEF ConnectorInv
<1> USE <1>1, <1>2, <1>3 DEF Hands, At, Hop, Leave, Idle, Persist, State, Terminate, Recorded,
        Held, Trying, TypeOK, ConnectorTypeOK
<1>4. ASSUME Serve(k) PROVE Good
  BY <1>4 DEF Serve
<1>5. ASSUME Setup(k) PROVE Good
  BY <1>5 DEF Setup
<1>6. ASSUME Reuse(k) PROVE Good
  BY <1>6 DEF Reuse
<1>7. ASSUME Adopt(k) PROVE Good
  BY <1>7 DEF Adopt
<1>8. ASSUME StopOld(k) PROVE Good
  BY <1>8 DEF StopOld
<1>9. ASSUME Point(k) PROVE Good
  BY <1>9 DEF Point
<1>10. ASSUME Begin(k) PROVE Good
  BY <1>10 DEF Begin
<1>11. ASSUME SpawnTunnel(k) PROVE Good
  BY <1>11 DEF SpawnTunnel, NewPid
<1>12. ASSUME RecordTunnel(k) PROVE Good
  BY <1>12 DEF RecordTunnel
<1>13. ASSUME TunnelUp(k) PROVE Good
  BY <1>13 DEF TunnelUp
<1>14. ASSUME SpawnDev(k) PROVE Good
  BY <1>14 DEF SpawnDev, NewPid
<1>15. ASSUME RecordDev(k) PROVE Good
  BY <1>15 DEF RecordDev
<1>16. ASSUME Ready(k) PROVE Good
  BY <1>16 DEF Ready
<1>17. ASSUME ReplaceAddress(k) PROVE Good
  BY <1>17 DEF ReplaceAddress
<1>18. ASSUME Fail(k) PROVE Good
  BY <1>18 DEF Fail, GivesUp
<1>19. ASSUME Stop(k) PROVE Good
  BY <1>19 DEF Stop
<1>20. ASSUME Stopped(k) PROVE Good
  BY <1>20 DEF Stopped
<1> QED BY <1>4, <1>5, <1>6, <1>7, <1>8, <1>9, <1>10, <1>11, <1>12, <1>13, <1>14, <1>15, <1>16,
           <1>17, <1>18, <1>19, <1>20 DEF Command, KeeperStep

\* For any number of commands, runs and faults, only a kill in the middle of a
\* command leaves a process of the connector untracked.
THEOREM OnlyKillsUntrack == Spec => TrackedUnlessKilled
<1>1. ASSUME TypeOK, ConnectorInv, [Next]_vars
      PROVE  Untracked' \subseteq Untracked \/ \E k \in Keepers : KillKeeper(k)
  <2>1. ASSUME NEW k \in Keepers, Command(k), ~KillKeeper(k) PROVE Untracked' \subseteq Untracked
    BY <1>1, <2>1, CommandTracks
  <2>2. ASSUME Nobody PROVE Untracked' \subseteq Untracked
    BY <1>1, <2>2, NobodyTakes DEF Untracked, Recorded, Held
  <2>3. ASSUME NEW a \in Attempts, Attempting(a) \/ Asking(a) PROVE Untracked' = Untracked
    BY <1>1, <2>3, AttemptIsLocal, AttemptNames DEF Untracked, Recorded, Held
  <2>4. ASSUME NEW r \in Runs, Resuming(r) PROVE Untracked' = Untracked
    BY <1>1, <2>4, ResumeTyped DEF connector, Untracked, Recorded, Held
  <2>5. ASSUME UNCHANGED vars PROVE Untracked' = Untracked
    BY <2>5 DEF vars, connector, Untracked, Recorded, Held
  <2> QED BY <1>1, <2>1, <2>2, <2>3, <2>4, <2>5, StepCases
<1>2. TypeOK /\ ConnectorInv /\ [Next]_vars
        => [Untracked' \subseteq Untracked \/ \E k \in Keepers : KillKeeper(k)]_vars
  BY <1>1
<1> QED BY <1>2, ConnectorCorrect, PTL DEF Spec, TrackedUnlessKilled

-----------------------------------------------------------------------------
(* The directory of a run, its turn and its answer.                        *)

\* What a step of an attempt does to its label, its directory and its child.
LEMMA MainMoves ==
    ASSUME TypeOK, NEW a \in Attempts, Attempting(a)
    PROVE  /\ UNCHANGED <<turn, journal, saved, reader>>
           /\ main[a].pc = "idle" => a[2] = 1
           /\ \/ /\ main[a].pc \in Early /\ main'[a].pc \in Early /\ main'[a].conv = main[a].conv
                 /\ UNCHANGED <<request, response, meta, child>>
              \/ /\ main[a].pc \in Early /\ main'[a].pc \in {"wait", "failed"}
                 /\ main'[a].conv = main[a].conv /\ main'[a].dev = main[a].dev
                 /\ request' = [request EXCEPT ![Run(a)] = {main[a].ws}]
                 /\ child'[a] \in {child[a], "queued"} /\ UNCHANGED <<response, meta>>
              \/ /\ main[a].pc = "wait" /\ main'[a].pc \in {"mark", "failed"}
                 /\ main'[a].conv = saved[Run(a)] /\ main'[a].dev = main[a].dev
                 /\ main'[a].pc = "mark" => Proved(main'[a].conv)
                 /\ child'[a] \in {child[a], "killed"} /\ UNCHANGED <<request, response, meta>>
              \/ /\ main[a].pc = "mark" /\ main'[a].pc = "passed" /\ main'[a].conv = main[a].conv
                 /\ UNCHANGED <<request, response, meta, child>>
              \/ /\ main[a].pc \in {"passed", "failed"} /\ main'[a].pc \in {"accepted", "rejected"}
                 /\ main'[a].pc = "accepted" => main[a].pc = "passed"
                 /\ main'[a].conv = main[a].conv /\ UNCHANGED <<request, meta, child>>
                 /\ response'[Run(a)] = IF main[a].conv # NoTurn THEN main[a].conv
                                        ELSE response[Run(a)]
              \/ /\ main[a].pc \in {"accepted", "rejected"} /\ main'[a].pc \in {"done", "over"}
                 /\ main'[a].conv = NoTurn /\ UNCHANGED <<request, response, child>>
                 /\ meta'[Run(a)] = "ok" => main[a].pc = "accepted"
              \/ /\ main'[a].pc = "killed" /\ main'[a].conv = NoTurn
                 /\ child'[a] \in {child[a], "killed"} /\ (child[a] = "none" => child'[a] = "none")
                 /\ UNCHANGED <<request, response, meta>>
<1>1. /\ Run(a) \in Runs /\ main[a] \in Mains /\ main \in [Attempts -> Mains]
      /\ child \in [Attempts -> ChildLabels] /\ response \in [Runs -> Attempts \cup {NoTurn}]
      /\ meta \in [Runs -> Verdicts]
  BY DEF TypeOK, Run, Attempts
<1>2. UNCHANGED <<turn, journal, saved, reader>>
  BY DEF Attempting, MainStep, MainWorks, Check, Refresh, Pin, RecordPin, Verify, Request,
         Collect, Mark, LockTimesOut, ChildTimesOut, SaveResponse, Save, BeginRun, Kill,
         directory
<1>3. main[a].pc = "idle" => a[2] = 1
  BY DEF Attempting, MainStep, MainWorks, Check, Refresh, Pin, RecordPin, Verify, Request,
         Collect, Mark, LockTimesOut, ChildTimesOut, SaveResponse, Save, BeginRun, Kill,
         Running, Doing
<1> USE <1>1, <1>2, <1>3 DEF Mains, Doing, Step, Early, directory
<1>4. CASE Check(a)
  <2>1. PICK m \in {"refused", "refresh", "unready"} : main'[a].pc = m /\ main'[a].conv = main[a].conv
    <3>1. CASE main' = [main EXCEPT ![a].pc = "refused"]
      BY <3>1
    <3>2. ASSUME NEW l \in {"refresh", "unready"},
                 main' = [main EXCEPT ![a].pc = l, ![a].dev = state.dev, ![a].tunnel = state.tunnel]
          PROVE  main'[a].pc = l /\ main'[a].conv = main[a].conv
      BY <3>2
    <3> QED BY <1>4, <3>1, <3>2 DEF Check
  <2> QED BY <1>4, <2>1 DEF Check
<1>5. CASE Refresh(a)  BY <1>5 DEF Refresh
<1>6. CASE Pin(a)  BY <1>6 DEF Pin
<1>7. CASE RecordPin(a)  BY <1>7 DEF RecordPin
<1>8. CASE Verify(a)
  <2>1. ASSUME NEW l \in {"request", "unready"},
               main' = [main EXCEPT ![a].pc = l, ![a].dev = state.dev,
                                    ![a].tunnel = state.tunnel, ![a].pinned = state.ws]
        PROVE  main'[a].pc = l /\ main'[a].conv = main[a].conv
    BY <2>1
  <2> QED BY <1>8, <2>1 DEF Verify
<1>9. CASE Request(a)  BY <1>9 DEF Request
<1>10. CASE Collect(a)
  <2>1. child'[a] \in {child[a], "killed"}
    BY <1>10 DEF Collect
  <2> QED BY <1>10, <2>1 DEF Collect, Proved, Validated
<1>11. CASE Mark(a) \/ LockTimesOut(a)  BY <1>11 DEF Mark, LockTimesOut
<1>12. CASE Save(a)  BY <1>12 DEF Save, IdleMain
<1>13. CASE Kill(a)  BY <1>13 DEF Kill, IdleMain
<1>14. CASE BeginRun(a)  BY <1>14 DEF BeginRun
<1>15. CASE ChildTimesOut(a)  BY <1>15 DEF ChildTimesOut
<1>16. CASE SaveResponse(a)  BY <1>16 DEF SaveResponse
<1> QED BY <1>4, <1>5, <1>6, <1>7, <1>8, <1>9, <1>10, <1>11, <1>12, <1>13, <1>14, <1>15, <1>16
        DEF Attempting, MainStep, MainWorks

\* Two attempts that were begun are of two runs.
LEMMA FirstsApart ==
    ASSUME NEW a \in Attempts, NEW b \in Attempts, a[2] = 1, b[2] = 1, Run(a) = Run(b)
    PROVE  a = b
BY DEF Attempts, Run

\* A turn is of an attempt that was begun, and whose request is written.
LEMMA PostedBegun ==
    ASSUME TypeOK, TurnInv, NEW a \in Attempts, turn[a].st # "none" \/ child[a] # "none"
    PROVE  a[2] = 1 /\ main[a].pc \notin Early
BY DEF TurnInv, OneAttempt, Journaled, Early, TypeOK, ChildLabels

\* A run has one answer: whatever names a turn of it names that one.
LEMMA OneAnswer ==
    ASSUME TypeOK, TurnInv, NEW r \in Runs, NEW c, NEW d, OfRun(c, r), OfRun(d, r),
           c # NoTurn, d # NoTurn
    PROVE  c = d
<1>1. c \in Attempts /\ d \in Attempts /\ Run(c) = r /\ Run(d) = r
  BY DEF OfRun, Posted
<1>2. c[2] = 1 /\ d[2] = 1
  BY <1>1, PostedBegun DEF OfRun, Posted
<1> QED BY <1>1, <1>2, FirstsApart

\* What an attempt does keeps the invariant of the directories.
LEMMA AttemptTurns ==
    ASSUME TypeOK, TurnInv, NEW a \in Attempts, Attempting(a)
    PROVE  TurnInv'
<1> USE DEF TurnInv
<1>1. /\ Run(a) \in Runs /\ main[a] \in Mains /\ TypeOK'
      /\ \A b \in Attempts \ {a} : main'[b] = main[b] /\ child'[b] = child[b]
      /\ \A r \in Runs \ {Run(a)} : /\ request'[r] = request[r] /\ meta'[r] = meta[r]
                                    /\ response'[r] = response[r]
      /\ UNCHANGED <<turn, journal, saved, reader>>
  <2>1. Run(a) \in Runs /\ main[a] \in Mains
    BY DEF TypeOK, Run, Attempts
  <2>2. TypeOK'
    BY AttemptTyped
  <2>3. UNCHANGED <<turn, journal, saved, reader>>
    BY MainMoves
  <2> QED BY <2>1, <2>2, <2>3, AttemptIsLocal
<1>2. a[2] = 1
  BY MainMoves DEF OneAttempt
<1>3. \A b \in Attempts \ {a} : b[2] = 1 => Run(b) # Run(a)
  BY <1>2, FirstsApart
<1>4. OneAttempt'
  <2>1. main'[a].pc \in Early => /\ main[a].pc \in Early
                                 /\ child'[a] = child[a] /\ request' = request
    BY MainMoves DEF Early
  <2>2. ASSUME NEW b \in Attempts \ {a}, b[2] = 1 PROVE request'[Run(b)] = request[Run(b)]
    BY <1>1, <1>3, <2>2 DEF Run, Attempts
  <2> QED BY <1>1, <1>2, <2>1, <2>2 DEF OneAttempt
<1>5. Journaled'
  <2>1. child'[a] \in {child[a], "killed"} \/ (child'[a] = "queued" /\ child[a] = "none")
    BY MainMoves DEF OneAttempt
  <2> QED BY <1>1, <2>1 DEF Journaled, Posting, Final
<1>6. Own'
  <2>1. Posted' = Posted
    BY <1>1 DEF Posted
  <2>2. OfRun(main'[a].conv, Run(a))
    BY <1>1, MainMoves DEF Own, OfRun
  <2>3. OfRun(response'[Run(a)], Run(a))
    BY <1>1, MainMoves DEF Own, OfRun
  <2>4. \A b \in Attempts \ {a} : OfRun(main'[b].conv, Run(b))
    BY <1>1 DEF Own
  <2>5. \A r \in Runs : OfRun(response'[r], r)
    BY <1>1, <2>3 DEF Own
  <2>6. \A r \in Runs : OfRun(saved[r], r) /\ OfRun(reader[r].conv, r)
    BY DEF Own
  <2> QED BY <1>1, <2>1, <2>2, <2>4, <2>5, <2>6 DEF Own, OfRun
<1>7. Judged'
  <2>1. main'[a].pc \in {"mark", "passed", "accepted"} => Proved(main'[a].conv)
    BY MainMoves DEF Judged, Early
  <2>2. OfRun(response[Run(a)], Run(a)) /\ OfRun(main[a].conv, Run(a))
    BY <1>1 DEF Own
  <2>3. response'[Run(a)] \in {response[Run(a)], main[a].conv}
    BY MainMoves
  <2>4. Proved(response[Run(a)]) => Proved(response'[Run(a)])
    <3>1. ASSUME Proved(response[Run(a)]), response'[Run(a)] # response[Run(a)] PROVE FALSE
      <4>1. response'[Run(a)] = main[a].conv /\ main[a].conv # NoTurn
        BY <3>1, MainMoves
      <4> QED BY <1>1, <2>2, <3>1, <4>1, OneAnswer DEF Proved
    <3> QED BY <3>1
  <2>5. main'[a].pc = "accepted" => Proved(response'[Run(a)])
    BY MainMoves DEF Judged, Early, Proved
  <2>6. meta'[Run(a)] = "ok" => Proved(response'[Run(a)])
    <3>1. meta'[Run(a)] = "ok" => meta[Run(a)] = "ok" \/ main[a].pc = "accepted"
      BY MainMoves
    <3> QED BY <1>1, <2>4, <3>1 DEF Judged
  <2>7. reader[Run(a)].pc # "idle" => request'[Run(a)] # {} /\ request' = request
    <3>1. CASE request' = request
      BY <1>1, <3>1 DEF Judged
    <3>2. CASE main[a].pc \in Early
      BY <1>1, <1>2, <3>2 DEF Judged, OneAttempt
    <3> QED BY <3>1, <3>2, MainMoves
  <2>8. ASSUME NEW r \in Runs
        PROVE  /\ reader'[r].pc # "idle" => request'[r] # {}
               /\ meta'[r] = "ok" => Proved(response[r])'
               /\ reader'[r].pc = "conclude" /\ reader'[r].verdict = "ok" => Proved(response[r])'
    <3>1. CASE r = Run(a)
      BY <1>1, <2>4, <2>6, <2>7, <3>1 DEF Judged, Proved
    <3>2. CASE r # Run(a)
      BY <1>1, <3>2 DEF Judged, Proved
    <3> QED BY <3>1, <3>2
  <2>9. \A r \in Runs :
          /\ reader'[r].pc \in {"keep", "respond"} => reader'[r].conv # NoTurn
          /\ reader'[r].pc \in {"keep", "respond"} /\ reader'[r].verdict = "ok" =>
               Proved(reader[r].conv)'
    BY <1>1 DEF Judged, Proved
  <2>10. ASSUME NEW b \in Attempts
         PROVE  /\ main'[b].pc \in {"mark", "passed", "accepted"} => Proved(main[b].conv)'
                /\ main'[b].pc = "accepted" => Proved(response[Run(b)])'
    <3>1. CASE b = a
      BY <1>1, <2>1, <2>5, <3>1 DEF Proved
    <3>2. CASE b # a
      <4>1. main'[b] = main[b] /\ Run(b) \in Runs
        BY <1>1, <3>2 DEF Run, Attempts
      <4>2. Proved(response[Run(b)]) => Proved(response'[Run(b)])
        BY <1>1, <2>4, <4>1
      <4> QED BY <1>1, <4>1, <4>2 DEF Judged, Proved
    <3> QED BY <3>1, <3>2
  <2> QED BY <2>8, <2>9, <2>10 DEF Judged
<1> QED BY <1>4, <1>5, <1>6, <1>7

\* What the child of an attempt and its turn do.
LEMMA AskingMoves ==
    ASSUME TypeOK, NEW a \in Attempts, Asking(a)
    PROVE  /\ UNCHANGED <<state, main, request, meta, reader>>
           /\ child[a] # "none" \/ turn[a].st # "none"
           /\ \/ /\ child[a] \in {"queued", "admitted", "posting", "received", "kept"}
                 /\ child'[a] \in {"admitted"} \cup Posting
                 /\ child'[a] = "admitted" <=> child[a] = "queued"
                 /\ child'[a] \in Posting => ProvesSubmission(journal'[Run(a)])
                 /\ child[a] = "admitted" => child'[a] = "posting"
                 /\ child[a] = "posting" => Final(a)
                 /\ UNCHANGED <<turn, response>>
                 /\ (saved'[Run(a)] = a /\ child[a] = "received") \/ saved' = saved
              \/ /\ child[a] = "complete" /\ child'[a] = "done" /\ response'[Run(a)] = a
                 /\ UNCHANGED <<journal, saved, turn>>
              \/ /\ child[a] \in {"queued", "posting", "kept"} /\ child'[a] = "failed"
                 /\ child[a] = "posting" => ProvesSubmission(journal'[Run(a)])
                 /\ child[a] # "posting" => journal' = journal
                 /\ UNCHANGED <<saved, turn, response>>
              \/ /\ child[a] \in {"queued", "admitted", "posting", "received", "kept", "complete"}
                 /\ child'[a] = "killed" /\ UNCHANGED <<journal, saved, turn, response>>
              \/ /\ child[a] = "posting" /\ turn[a].st = "none" /\ turn'[a].st = "posted"
                 /\ UNCHANGED <<child, journal, saved, response>>
              \/ /\ turn[a].st \in {"posted", "opened"} /\ turn'[a].ws = turn[a].ws
                 /\ turn'[a].st \in {"opened", "answered", "unproved"}
                 /\ UNCHANGED <<child, journal, saved, response>>
<1> USE DEF directory
<1>1. /\ Run(a) \in Runs /\ child \in [Attempts -> ChildLabels] /\ turn \in [Attempts -> Turns]
      /\ journal \in [Runs -> Phases] /\ saved \in [Runs -> Attempts \cup {NoTurn}]
      /\ response \in [Runs -> Attempts \cup {NoTurn}]
  BY DEF TypeOK, Run, Attempts
<1>2. UNCHANGED <<state, main, request, meta, reader>>
  BY DEF connector, Asking, ChildStep, ChildWorks, KillChild, Admit, Submit, Post, Receive,
         Keep, Finalize, Conclude, ChildFails, AtHome, Open, Answer, Unproved, AtChatGPT
<1> USE <1>1, <1>2
<1>3. CASE Admit(a)  BY <1>3 DEF Admit, Phase, ChildTo, AtHome, Posting
<1>4. CASE Submit(a)  BY <1>4 DEF Submit, Phase, ChildTo, AtHome, Posting, ProvesSubmission
<1>5. CASE Post(a)  BY <1>5 DEF Post, AtHome, NoPost
<1>6. CASE Receive(a)  BY <1>6 DEF Receive, Phase, ChildTo, AtHome, Posting, ProvesSubmission
<1>7. CASE Keep(a)  BY <1>7 DEF Keep, Phase, ChildTo, AtHome, Posting, ProvesSubmission
<1>8. CASE Finalize(a)  BY <1>8 DEF Finalize, Phase, ChildTo, AtHome, Posting, ProvesSubmission
<1>9. CASE Conclude(a)  BY <1>9 DEF Conclude, ChildTo
<1>10. CASE ChildFails(a)
  BY <1>10 DEF ChildFails, Phase, ChildTo, AtHome, ProvesSubmission
<1>11. CASE Open(a)  BY <1>11 DEF Open, AtChatGPT, Turns
<1>12. CASE Answer(a)  BY <1>12 DEF Answer, Becomes, AtChatGPT, Turns
<1>13. CASE Unproved(a)  BY <1>13 DEF Unproved, Becomes, AtChatGPT, Turns
<1>14. CASE KillChild(a)  BY <1>14 DEF KillChild, ChildLabels
<1> QED BY <1>3, <1>4, <1>5, <1>6, <1>7, <1>8, <1>9, <1>10, <1>11, <1>12, <1>13, <1>14
        DEF Asking, ChildStep, ChildWorks

\* An answer with its proof stays as it is, and no turn is taken back.
LEMMA ProofsLast ==
    ASSUME TypeOK, NEW a \in Attempts, Asking(a)
    PROVE  /\ \A c \in Attempts : turn[c].st = "answered" =>
                turn'[c].st = "answered" /\ turn'[c].ws = turn[c].ws
           /\ Posted \subseteq Posted'
<1>1. \A b \in Attempts \ {a} : turn'[b] = turn[b]
  BY AttemptIsLocal
<1>2. turn[a].st = "answered" => turn'[a] = turn[a]
  BY AskingMoves
<1>3. turn[a].st # "none" => turn'[a].st # "none"
  BY AskingMoves
<1> QED BY <1>1, <1>2, <1>3 DEF Posted

\* The child and the turn keep the invariant of the directories.
LEMMA AskingTurns ==
    ASSUME TypeOK, TurnInv, NEW a \in Attempts, Asking(a)
    PROVE  TurnInv'
<1>1. /\ Run(a) \in Runs
      /\ \A b \in Attempts \ {a} : child'[b] = child[b] /\ turn'[b] = turn[b]
      /\ \A r \in Runs \ {Run(a)} : /\ journal'[r] = journal[r] /\ saved'[r] = saved[r]
                                    /\ response'[r] = response[r]
      /\ UNCHANGED <<main, request, meta, reader>>
  <2>1. Run(a) \in Runs
    BY DEF Run, Attempts
  <2> QED BY <2>1, AttemptIsLocal, AskingMoves
<1>2. a[2] = 1 /\ main[a].pc \notin Early
  BY AskingMoves, PostedBegun
<1>3. \A b \in Attempts \ {a} : Run(b) = Run(a) => child[b] = "none" /\ turn[b].st = "none"
  BY <1>2, FirstsApart, PostedBegun
<1>4. OneAttempt'
  <2>1. \A b \in Attempts : main'[b].pc \in Early => child'[b] = "none"
    BY <1>1, <1>2 DEF TurnInv, OneAttempt
  <2> QED BY <1>1, <2>1 DEF TurnInv, OneAttempt
<1>5. Journaled'
  <2>1. /\ child'[a] \in {"none", "queued", "admitted"} => turn'[a].st = "none"
        /\ child'[a] \in Posting => ProvesSubmission(journal'[Run(a)])
        /\ turn'[a].st # "none" => ProvesSubmission(journal'[Run(a)])
        /\ child'[a] \in Posting \ {"posting"} => turn'[a].st \in {"answered", "unproved"}
    <3>1. /\ child[a] \in {"none", "queued", "admitted"} => turn[a].st = "none"
          /\ child[a] \in Posting => ProvesSubmission(journal[Run(a)])
          /\ turn[a].st # "none" => ProvesSubmission(journal[Run(a)])
          /\ child[a] \in Posting \ {"posting"} => turn[a].st \in {"answered", "unproved"}
      BY DEF TurnInv, Journaled, Final
    <3>2. child'[a] \in {"none", "queued", "admitted"} => turn'[a].st = "none"
      BY <3>1, AskingMoves DEF Posting, Final
    <3>3. child'[a] \in Posting => ProvesSubmission(journal'[Run(a)])
      BY <3>1, AskingMoves DEF Posting
    <3>4. turn'[a].st # "none" => ProvesSubmission(journal'[Run(a)])
      BY <3>1, AskingMoves DEF Posting
    <3>5. child'[a] \in Posting \ {"posting"} => turn'[a].st \in {"answered", "unproved"}
      BY <3>1, AskingMoves DEF Posting, Final
    <3> QED BY <3>2, <3>3, <3>4, <3>5
  <2>2. ASSUME NEW b \in Attempts \ {a}, Run(b) = Run(a)
        PROVE  child'[b] = "none" /\ turn'[b].st = "none"
    BY <1>1, <1>3, <2>2
  <2>3. ASSUME NEW b \in Attempts \ {a}, Run(b) # Run(a)
        PROVE  child'[b] = child[b] /\ turn'[b] = turn[b] /\ journal'[Run(b)] = journal[Run(b)]
    BY <1>1, <2>3 DEF Run, Attempts
  <2>4. ASSUME NEW b \in Attempts
        PROVE  /\ child'[b] \in {"none", "queued", "admitted"} => turn'[b].st = "none"
               /\ child'[b] \in Posting => ProvesSubmission(journal'[Run(b)])
               /\ turn'[b].st # "none" => ProvesSubmission(journal'[Run(b)])
               /\ child'[b] \in Posting \ {"posting"} => turn'[b].st \in {"answered", "unproved"}
    BY <2>1, <2>2, <2>3 DEF TurnInv, Journaled, Final, Posting
  <2> QED BY <2>4 DEF Journaled, Final
<1>6. Own'
  <2>1. Posted \subseteq Posted'
    BY ProofsLast
  <2>2. /\ saved'[Run(a)] \in {saved[Run(a)], a} /\ response'[Run(a)] \in {response[Run(a)], a}
        /\ saved'[Run(a)] = a \/ response'[Run(a)] = a =>
             a \in Posted \/ (saved' = saved /\ response' = response)
    <3>1. child[a] \in {"received", "complete"} => a \in Posted
      BY DEF TurnInv, Journaled, Posting, Final, Posted
    <3> QED BY <3>1, AskingMoves
  <2>3. \A r \in Runs : OfRun(saved[r], r) /\ OfRun(response[r], r) /\ OfRun(reader[r].conv, r)
    BY DEF TurnInv, Own
  <2>4. \A b \in Attempts : OfRun(main[b].conv, Run(b))
    BY DEF TurnInv, Own
  <2>5. ASSUME NEW r \in Runs PROVE OfRun(saved'[r], r) /\ OfRun(response'[r], r)
    BY <1>1, <2>2, <2>3, <2>5 DEF OfRun
  <2> QED BY <1>1, <2>1, <2>3, <2>4, <2>5 DEF Own, OfRun
<1>7. Judged'
  <2>1. \A b \in Attempts : main[b].conv # NoTurn => main[b].conv \in Attempts
    BY DEF TypeOK, Mains
  <2>2. \A r \in Runs : /\ response[r] # NoTurn => response[r] \in Attempts
                        /\ reader[r].conv # NoTurn => reader[r].conv \in Attempts
    BY DEF TypeOK, Readers
  <2>3. ASSUME NEW b \in Attempts, main[b].pc \in {"mark", "passed", "accepted"}
        PROVE  Proved(main[b].conv)'
    <3>1. Proved(main[b].conv)
      BY <2>3 DEF TurnInv, Judged
    <3> QED BY <1>1, <2>1, <3>1, ProofsLast DEF Proved
  <2>4. ASSUME NEW r \in Runs, Proved(response[r]) PROVE Proved(response[r])'
    <3>1. OfRun(response[r], r)
      BY DEF TurnInv, Own
    <3>2. response'[r] = response[r]
      <4>1. CASE r # Run(a)
        BY <1>1, <4>1
      <4>2. CASE r = Run(a)
        <5>1. response[r] \in Attempts /\ Run(response[r]) = r /\ turn[response[r]].st # "none"
          BY <2>4, <3>1 DEF OfRun, Proved, Posted
        <5>2. response[r] = a
          BY <4>2, <5>1, <1>2, PostedBegun, FirstsApart
        <5> QED BY <4>2, <5>2, AskingMoves
      <4> QED BY <4>1, <4>2
    <3>3. response[r] \in Attempts /\ turn[response[r]].st = "answered"
      BY <2>2, <2>4 DEF Proved
    <3>4. turn'[response[r]].st = "answered"
      BY <3>3, ProofsLast
    <3> QED BY <2>4, <3>2, <3>4 DEF Proved
  <2>5. ASSUME NEW r \in Runs, reader[r].pc \in {"keep", "respond"}, reader[r].verdict = "ok"
        PROVE  Proved(reader[r].conv)'
    <3>1. Proved(reader[r].conv)
      BY <2>5 DEF TurnInv, Judged
    <3>2. reader[r].conv \in Attempts /\ turn[reader[r].conv].st = "answered"
      BY <2>2, <3>1 DEF Proved
    <3>3. turn'[reader[r].conv].st = "answered"
      BY <3>2, ProofsLast
    <3> QED BY <1>1, <3>1, <3>3 DEF Proved
  <2>6. \A r \in Runs : /\ reader[r].pc # "idle" => request[r] # {}
                        /\ reader[r].pc \in {"keep", "respond"} => reader[r].conv # NoTurn
                        /\ meta[r] = "ok" => Proved(response[r])
                        /\ reader[r].pc = "conclude" /\ reader[r].verdict = "ok" =>
                             Proved(response[r])
    BY DEF TurnInv, Judged
  <2>7. \A b \in Attempts : main[b].pc = "accepted" => Run(b) \in Runs /\ Proved(response[Run(b)])
    BY DEF TurnInv, Judged, Run, Attempts
  <2> QED BY <1>1, <2>3, <2>4, <2>5, <2>6, <2>7 DEF Judged
<1> QED BY <1>4, <1>5, <1>6, <1>7 DEF TurnInv

\* A resume keeps the invariant of the directories.
LEMMA ResumeTurns ==
    ASSUME TypeOK, TurnInv, NEW r \in Runs, Resuming(r)
    PROVE  TurnInv'
<1>1. /\ UNCHANGED <<connector, request, journal, main, child, turn>>
      /\ \A q \in Runs \ {r} : /\ saved'[q] = saved[q] /\ response'[q] = response[q]
                               /\ meta'[q] = meta[q] /\ reader'[q] = reader[q]
  BY ResumeTyped
<1>2. OneAttempt' /\ Journaled'
  BY <1>1 DEF TurnInv, OneAttempt, Journaled, Final
<1>3. /\ reader \in [Runs -> Readers] /\ saved \in [Runs -> Attempts \cup {NoTurn}]
      /\ response \in [Runs -> Attempts \cup {NoTurn}] /\ meta \in [Runs -> Verdicts]
      /\ request[r] = {} \/ \E ws \in Roots : request[r] = {ws}
  BY DEF TypeOK
<1>4. OfRun(saved[r], r) /\ OfRun(response[r], r) /\ OfRun(reader[r].conv, r)
  BY DEF TurnInv, Own
<1>5. /\ reader[r].pc # "idle" => request[r] # {}
      /\ meta[r] = "ok" => Proved(response[r])
      /\ reader[r].pc \in {"keep", "respond"} => reader[r].conv # NoTurn
      /\ reader[r].pc \in {"keep", "respond"} /\ reader[r].verdict = "ok" => Proved(reader[r].conv)
      /\ reader[r].pc = "conclude" /\ reader[r].verdict = "ok" => Proved(response[r])
  BY DEF TurnInv, Judged
<1> DEFINE Good ==
      /\ OfRun(saved'[r], r) /\ OfRun(response'[r], r) /\ OfRun(reader'[r].conv, r)
      /\ reader'[r].pc # "idle" => request[r] # {}
      /\ meta'[r] = "ok" => Proved(response'[r])
      /\ Proved(response[r]) => Proved(response'[r])
      /\ reader'[r].pc \in {"keep", "respond"} => reader'[r].conv # NoTurn
      /\ reader'[r].pc \in {"keep", "respond"} /\ reader'[r].verdict = "ok" =>
           Proved(reader'[r].conv)
      /\ reader'[r].pc = "conclude" /\ reader'[r].verdict = "ok" => Proved(response'[r])
<1>6. OfRun(NoTurn, r)
  BY DEF OfRun
<1>7. ASSUME ReadLocal(r) PROVE Good
  <2>1. \A v : Conclusion(r, v).conv = NoTurn /\ Conclusion(r, v).pc = "over"
    BY DEF Conclusion, IdleReader
  <2>2. UNCHANGED <<saved, response>> /\ reader[r].pc = "local"
    BY <1>7 DEF ReadLocal, Reading
  <2>3. CASE \E v : reader' = [reader EXCEPT ![r] = Conclusion(r, v)]
    <3>1. reader'[r].conv = NoTurn /\ reader'[r].pc = "over"
      BY <1>3, <2>1, <2>3
    <3>2. meta' = meta \/ meta' = [meta EXCEPT ![r] = "not-submitted"]
      BY <1>7 DEF ReadLocal
    <3>3. meta'[r] = "ok" => meta[r] = "ok"
      BY <1>3, <3>2
    <3> QED BY <1>4, <1>5, <1>6, <2>2, <3>1, <3>3
  <2>4. CASE /\ reader' = [reader EXCEPT ![r].pc = "remote", ![r].conv = saved[r]]
             /\ UNCHANGED meta
    <3>1. reader'[r].conv = saved[r] /\ reader'[r].pc = "remote"
      BY <1>3, <2>4 DEF Readers
    <3> QED BY <1>4, <1>5, <2>2, <2>4, <3>1
  <2> QED BY <1>7, <2>3, <2>4 DEF ReadLocal
<1>8. ASSUME ReadRemote(r) PROVE Good
  <2>1. UNCHANGED <<saved, response, meta>> /\ reader[r].pc = "remote"
    BY <1>8 DEF ReadRemote, Reading
  <2>2. CASE reader' = [reader EXCEPT ![r].pc = "conclude", ![r].verdict = "remote-pending"]
    <3>1. /\ reader'[r].conv = reader[r].conv /\ reader'[r].verdict = "remote-pending"
          /\ reader'[r].pc = "conclude"
      BY <1>3, <2>2 DEF Readers
    <3> QED BY <1>4, <1>5, <2>1, <3>1
  <2>3. ASSUME NEW a \in Found(r), NEW v \in {"ok", "failed"},
               NEW l, l = IF a \in Matching(r) THEN "keep" ELSE "conclude",
               v = "ok" => \E ws \in request[r] : Validated(a, ws),
               reader' = [reader EXCEPT ![r] = [pc |-> l, conv |-> a, verdict |-> v]]
        PROVE  Good
    <3>1. reader'[r].conv = a /\ reader'[r].verdict = v /\ reader'[r].pc = l
      BY <1>3, <2>3
    <3>2. OfRun(a, r) /\ a # NoTurn
      <4>1. CASE reader[r].conv # NoTurn
        BY <1>4, <4>1 DEF Found
      <4>2. CASE reader[r].conv = NoTurn
        <5>1. a \in Matching(r)
          BY <4>2, FoundAttempts
        <5>2. a # NoTurn
          BY <5>1, TurnAssumption DEF Matching, Posted, Attempts, NoTurn
        <5> QED BY <5>1, <5>2 DEF Matching, OfRun
      <4> QED BY <4>1, <4>2
    <3>3. v = "ok" => Proved(a) /\ request[r] = {turn[a].ws}
      BY <1>3, <2>3, <3>2 DEF Validated, Proved
    <3>4. v = "ok" => l = "keep"
      BY <2>3, <3>2, <3>3 DEF Matching, OfRun
    <3>5. l = "keep" \/ l = "conclude"
      BY <2>3
    <3> QED BY <1>4, <1>5, <2>1, <3>1, <3>2, <3>3, <3>4, <3>5
  <2> QED BY <1>8, <2>2, <2>3 DEF ReadRemote
<1>9. ASSUME KeepRead(r) \/ WriteResponse(r) \/ WriteResult(r) PROVE Good
  <2>1. ASSUME KeepRead(r) PROVE Good
    <3>1. /\ reader[r].pc = "keep" /\ UNCHANGED <<response, meta>>
          /\ saved'[r] = reader[r].conv
          /\ reader'[r].pc = "respond" /\ reader'[r].conv = reader[r].conv
          /\ reader'[r].verdict = reader[r].verdict
      BY <1>3, <2>1 DEF KeepRead, Reading, Readers
    <3> QED BY <1>4, <1>5, <3>1
  <2>2. ASSUME WriteResponse(r) PROVE Good
    <3>1. /\ reader[r].pc = "respond" /\ UNCHANGED <<saved, meta>>
          /\ response'[r] = reader[r].conv
          /\ reader'[r].pc = "conclude" /\ reader'[r].conv = reader[r].conv
          /\ reader'[r].verdict = reader[r].verdict
      BY <1>3, <2>2 DEF WriteResponse, Reading, Readers
    <3>2. Proved(response[r]) => Proved(response'[r])
      BY <1>4, <1>5, <3>1, OneAnswer DEF Proved
    <3> QED BY <1>4, <1>5, <3>1, <3>2
  <2>3. ASSUME WriteResult(r) PROVE Good
    <3>1. /\ reader[r].pc = "conclude" /\ UNCHANGED <<saved, response>>
          /\ meta'[r] = reader[r].verdict
          /\ reader'[r].pc = "over" /\ reader'[r].conv = NoTurn
      BY <1>3, <2>3 DEF WriteResult, Reading, Conclusion, IdleReader
    <3> QED BY <1>4, <1>5, <1>6, <3>1
  <2> QED BY <1>9, <2>1, <2>2, <2>3
<1>10. ASSUME Resume(r) PROVE Good
  <2>1. /\ request[r] # {} /\ UNCHANGED directory
        /\ reader'[r].pc = "local" /\ reader'[r].conv = NoTurn
    BY <1>3, <1>10 DEF Resume, IdleReader
  <2> QED BY <1>4, <1>5, <1>6, <2>1 DEF directory
<1>11. Good
  BY <1>7, <1>8, <1>9, <1>10 DEF Resuming, ReaderStep
<1>12. Own'
  <2>1. ASSUME NEW q \in Runs
        PROVE  OfRun(saved'[q], q) /\ OfRun(response'[q], q) /\ OfRun(reader'[q].conv, q)
    BY <1>1, <1>11 DEF TurnInv, Own
  <2> QED BY <1>1, <2>1 DEF TurnInv, Own, OfRun, Posted
<1>13. Judged'
  <2>1. ASSUME NEW q \in Runs
        PROVE  /\ reader'[q].pc # "idle" => request[q] # {}
               /\ meta'[q] = "ok" => Proved(response'[q])
               /\ Proved(response[q]) => Proved(response'[q])
               /\ reader'[q].pc \in {"keep", "respond"} => reader'[q].conv # NoTurn
               /\ reader'[q].pc \in {"keep", "respond"} /\ reader'[q].verdict = "ok" =>
                    Proved(reader'[q].conv)
               /\ reader'[q].pc = "conclude" /\ reader'[q].verdict = "ok" =>
                    Proved(response'[q])
    <3>1. CASE q = r
      BY <1>11, <3>1
    <3>2. CASE q # r
      BY <1>1, <3>2 DEF TurnInv, Judged
    <3> QED BY <3>1, <3>2
  <2>2. \A b \in Attempts : Run(b) \in Runs
    BY DEF Run, Attempts
  <2> QED BY <1>1, <2>1, <2>2 DEF TurnInv, Judged, Proved
<1> QED BY <1>2, <1>12, <1>13 DEF TurnInv

\* The invariant of the directories is inductive.
LEMMA TurnStep ==
    ASSUME TypeOK, TurnInv, [Next]_vars
    PROVE  TurnInv'
<1>1. ASSUME UNCHANGED turns PROVE TurnInv'
  BY <1>1 DEF turns, directory, TurnInv, OneAttempt, Journaled, Own, Judged, OfRun, Posted,
     Proved, Final
<1>2. ASSUME NEW k \in Keepers, Command(k) PROVE UNCHANGED turns
  BY <1>2 DEF Command
<1>3. ASSUME Nobody PROVE UNCHANGED turns
  BY <1>3 DEF Nobody
<1>4. ASSUME UNCHANGED vars PROVE UNCHANGED turns
  BY <1>4 DEF vars
<1> QED BY <1>1, <1>2, <1>3, <1>4, StepCases, AttemptTurns, AskingTurns, ResumeTurns

\* It holds before anything was begun.
LEMMA TurnsStart == Init => TurnInv
<1> SUFFICES ASSUME Init PROVE TurnInv
  OBVIOUS
<1> USE TurnAssumption DEF Init, TurnsInit, IdleMain, IdleReader, NoPost
<1>1. OneAttempt
  <2>1. \A a \in Attempts : Run(a) \in Runs
    BY DEF Attempts, Run
  <2> QED BY <2>1 DEF OneAttempt
<1>2. Journaled
  BY DEF Journaled, Posting
<1>3. Own
  BY DEF Own, OfRun
<1>4. Judged
  BY DEF Judged
<1> QED BY <1>1, <1>2, <1>3, <1>4 DEF TurnInv

\* Types and the invariant of the directories hold together.
LEMMA TurnsCorrect == Spec => [](TypeOK /\ TurnInv)
<1>1. TypeOK /\ TurnInv /\ [Next]_vars => (TypeOK /\ TurnInv)'
  BY StepTyped, TurnStep
<1> QED BY <1>1, InitTyped, TurnsStart, PTL DEF Spec

\* A directory that a resume declares safe to submit has no turn at ChatGPT, for
\* any runs and wherever attempts and children are killed.
THEOREM NotSubmittedHolds == Spec => []NotSubmittedIsSafe
<1>1. ASSUME TurnInv PROVE NotSubmittedIsSafe
  BY <1>1 DEF TurnInv, Journaled, NotSubmittedIsSafe, SafeToSubmit, Posted
<1> QED BY <1>1, TurnsCorrect, PTL

\* Metadata says ok only for an answer of that run which carries its proof,
\* whoever wrote the directory: attempt, child or resume.
THEOREM OkIsProved == Spec => []OkMeansProved
<1>1. ASSUME TurnInv PROVE OkMeansProved
  BY <1>1 DEF TurnInv, Own, Judged, Proved, OfRun, OkMeansProved
<1> QED BY <1>1, TurnsCorrect, PTL

-----------------------------------------------------------------------------
(* The attachment of the connector.                                        *)

\* What a turn opens, and what it keeps.
LEMMA TurnKeepsDevSpace ==
    ASSUME TypeOK, NEW a \in Attempts, Asking(a)
    PROVE  \/ turn'[a].st \in {"posted", "unproved"}
           \/ turn[a].st = "posted" /\ Serving /\ turn'[a].dev = port
           \/ turn'[a].dev = turn[a].dev /\ turn[a].st \in {"opened", "answered"}
           \/ turn'[a] = turn[a]
<1>1. turn \in [Attempts -> Turns]
  BY DEF TypeOK
<1>2. CASE Open(a)  BY <1>1, <1>2 DEF Open, Turns
<1>3. CASE Answer(a)  BY <1>1, <1>3 DEF Answer, Becomes, Turns
<1>4. CASE Unproved(a)  BY <1>1, <1>4 DEF Unproved, Becomes, Turns
<1>5. CASE Post(a)  BY <1>1, <1>5 DEF Post, NoPost
<1>6. CASE (ChildStep(a) \/ KillChild(a)) /\ ~Post(a)
  BY <1>6 DEF ChildStep, ChildWorks, KillChild, Admit, Submit, Receive, Keep, Finalize,
         Conclude, ChildFails, AtHome
<1> QED BY <1>2, <1>3, <1>4, <1>5, <1>6 DEF Asking

\* A DevSpace that serves is the only one that runs.
LEMMA OneServes ==
    ASSUME TypeOK, Serving, NEW pid \in Devs, pid \in alive
    PROVE  pid = port
<1>1. pid[1] = "dev"
  BY DEF TypeOK, ConnectorTypeOK, Devs, Pids, NoProc
<1> QED BY <1>1 DEF Serving, Doomed

\* A turn is served by the DevSpace its attempt read about.
LEMMA DevSpaceStep ==
    ASSUME TypeOK, ConnectorInv, TurnInv, SameDevSpace, [Next]_vars
    PROVE  SameDevSpace'
<1>1. \A a \in Attempts : main[a].dev \in Devs /\ main[a].dev[2] <= spawned
  BY DEF TypeOK, Mains, ConnectorInv, Pedigree, Numbered
<1>2. ASSUME NEW k \in Keepers, Command(k) PROVE SameDevSpace'
  <2>1. UNCHANGED turns /\ \A pid \in alive' \ alive : pid[2] = spawned + 1
    BY <1>2, CommandPedigree DEF ConnectorInv, Command
  <2>2. spawned \in Nat /\ \A pid \in Devs : pid[2] \in Nat
    BY ConnectorAssumption DEF TypeOK, ConnectorTypeOK, Devs, NoProc
  <2>3. \A a \in Attempts : main[a].dev \in alive' => main[a].dev \in alive
    BY <1>1, <2>1, <2>2
  <2> QED BY <2>1, <2>3 DEF SameDevSpace, turns
<1>3. ASSUME Nobody PROVE SameDevSpace'
  BY <1>3, NobodyTakes DEF SameDevSpace, turns
<1>4. ASSUME NEW a \in Attempts, Attempting(a) PROVE SameDevSpace'
  <2>1. /\ UNCHANGED <<turn, alive>>
        /\ \A b \in Attempts \ {a} : main'[b] = main[b]
    BY <1>4, AttemptIsLocal, MainMoves
  <2>2. turn[a].st \in {"opened", "answered"} /\ main'[a].pc \in {"wait", "mark"}
          => main[a].pc = "wait" /\ main'[a].dev = main[a].dev
    BY <1>4, MainMoves, PostedBegun DEF Early
  <2> QED BY <2>1, <2>2 DEF SameDevSpace
<1>5. ASSUME NEW a \in Attempts, Asking(a) PROVE SameDevSpace'
  <2>1. /\ UNCHANGED <<main, alive>>
        /\ \A b \in Attempts \ {a} : turn'[b] = turn[b]
    BY <1>5, AttemptIsLocal, AskingMoves
  <2>2. turn[a].st = "posted" /\ Serving /\ turn'[a].dev = port /\ main[a].dev \in alive
          => turn'[a].dev = main[a].dev
    BY <1>1, OneServes
  <2> QED BY <1>5, <2>1, <2>2, TurnKeepsDevSpace DEF SameDevSpace
<1>6. ASSUME NEW r \in Runs, Resuming(r) PROVE SameDevSpace'
  BY <1>6, ResumeTyped DEF SameDevSpace, connector
<1>7. ASSUME UNCHANGED vars PROVE SameDevSpace'
  BY <1>7 DEF SameDevSpace, vars, turns, connector
<1> QED BY <1>2, <1>3, <1>4, <1>5, <1>6, <1>7, StepCases

\* A command keeps an attachment only with its DevSpace.
LEMMA CommandAttachment ==
    ASSUME TypeOK, NEW k \in Keepers, Command(k), state'.attached, state'.dev # NoProc
    PROVE  state.attached /\ state'.dev = state.dev
<1> USE DEF Persist, State, TypeOK, ConnectorTypeOK, counts, NoProc
<1>1. CASE Serve(k)  BY <1>1 DEF Serve
<1>2. CASE Setup(k)  BY <1>2 DEF Setup
<1>3. CASE Reuse(k)  BY <1>3 DEF Reuse
<1>4. CASE Adopt(k)  BY <1>4 DEF Adopt
<1>5. CASE StopOld(k)  BY <1>5 DEF StopOld
<1>6. CASE Point(k)  BY <1>6 DEF Point
<1>7. CASE Begin(k)  BY <1>7 DEF Begin
<1>8. CASE SpawnTunnel(k)  BY <1>8 DEF SpawnTunnel
<1>9. CASE RecordTunnel(k)  BY <1>9 DEF RecordTunnel
<1>10. CASE TunnelUp(k)  BY <1>10 DEF TunnelUp
<1>11. CASE SpawnDev(k)  BY <1>11 DEF SpawnDev
<1>12. CASE RecordDev(k)  BY <1>12 DEF RecordDev
<1>13. CASE Ready(k)  BY <1>13 DEF Ready
<1>14. CASE ReplaceAddress(k)  BY <1>14 DEF ReplaceAddress
<1>15. CASE Fail(k)  BY <1>15 DEF Fail, GivesUp
<1>16. CASE Stop(k)  BY <1>16 DEF Stop
<1>17. CASE Stopped(k)  BY <1>17 DEF Stopped
<1>18. CASE KillKeeper(k)  BY <1>18 DEF KillKeeper
<1> QED BY <1>1, <1>2, <1>3, <1>4, <1>5, <1>6, <1>7, <1>8, <1>9, <1>10, <1>11, <1>12, <1>13,
           <1>14, <1>15, <1>16, <1>17, <1>18 DEF Command, KeeperStep

\* A connector is marked only for a turn that proved it.
LEMMA AttachedStep ==
    ASSUME TypeOK, TurnInv, SameDevSpace, Attached, [Next]_vars
    PROVE  Attached'
<1>1. ASSUME NEW k \in Keepers, Command(k) PROVE Attached'
  <2>1. UNCHANGED turn
    BY <1>1 DEF Command, turns
  <2> QED BY <1>1, <2>1, CommandAttachment DEF Attached, Posted
<1>2. ASSUME Nobody PROVE Attached'
  BY <1>2, NobodyTakes DEF Attached, Posted, turns
<1>3. ASSUME NEW a \in Attempts, Mark(a) PROVE Attached'
  <2>1. UNCHANGED turn /\ state' = [state EXCEPT !.attached = @ \/ Markable(a)]
    BY <1>3 DEF Mark
  <2>2. state'.dev = state.dev /\ (state'.attached => state.attached \/ Markable(a))
    BY <2>1 DEF TypeOK, ConnectorTypeOK
  <2>3. ASSUME Markable(a)
        PROVE  a \in Posted /\ turn[a].st = "answered" /\ turn[a].dev = state.dev
    <3>1. main[a].pc = "mark" /\ Proved(main[a].conv) /\ OfRun(main[a].conv, Run(a))
      BY <1>3 DEF Mark, Doing, TurnInv, Judged, Own
    <3>2. main[a].conv \in Attempts /\ Run(main[a].conv) = Run(a)
      BY <3>1 DEF Proved, OfRun, Posted
    <3>3. main[a].conv = a
      <4>1. a[2] = 1
        BY <3>1 DEF TurnInv, OneAttempt
      <4>2. main[a].conv[2] = 1
        BY <3>1, <3>2, PostedBegun DEF Proved
      <4> QED BY <3>2, <4>1, <4>2, FirstsApart
    <3>4. main[a].dev = state.dev /\ state.dev \in alive
      BY <2>3 DEF Markable, SameConnector, RuntimeReady
    <3> QED BY <3>1, <3>3, <3>4 DEF Proved, SameDevSpace, Posted
  <2> QED BY <2>1, <2>2, <2>3 DEF Attached, Posted
<1>4. ASSUME NEW a \in Attempts, Attempting(a), ~Mark(a) PROVE Attached'
  <2>1. UNCHANGED turn
    BY <1>4, MainMoves
  <2>2. state'.attached = state.attached /\ state'.dev = state.dev
    BY <1>4 DEF Attempting, MainStep, MainWorks, Check, Refresh, Pin, RecordPin, Verify,
           Request, Collect, LockTimesOut, ChildTimesOut, SaveResponse, Save, BeginRun, Kill,
           connector, TypeOK, ConnectorTypeOK
  <2> QED BY <2>1, <2>2 DEF Attached, Posted
<1>5. ASSUME NEW a \in Attempts, Asking(a) PROVE Attached'
  <2>1. UNCHANGED state /\ Posted \subseteq Posted'
    BY <1>5, AskingMoves, ProofsLast
  <2>2. \A b \in Posted : turn[b].st = "answered" =>
          turn'[b].st = "answered" /\ turn'[b].dev = turn[b].dev
    <3>1. turn[a].st = "answered" => turn'[a] = turn[a]
      BY <1>5, AskingMoves
    <3> QED BY <1>5, <3>1, AttemptIsLocal DEF Posted
  <2> QED BY <2>1, <2>2 DEF Attached
<1>6. ASSUME NEW r \in Runs, Resuming(r) PROVE Attached'
  BY <1>6, ResumeTyped DEF Attached, Posted, connector
<1>7. ASSUME UNCHANGED vars PROVE Attached'
  BY <1>7 DEF Attached, Posted, vars, turns, connector
<1> QED BY <1>1, <1>2, <1>3, <1>4, <1>5, <1>6, <1>7, StepCases

\* The whole invariant is inductive.
LEMMA IInvCorrect == Spec => []IInv
<1>1. Init => IInv
  <2> SUFFICES ASSUME Init PROVE SameDevSpace /\ Attached
    BY InitTyped, ConnectorStarts, TurnsStart DEF IInv
  <2> QED BY DEF Init, TurnsInit, ConnectorInit, NoPost, State, SameDevSpace, Attached
<1>2. IInv /\ [Next]_vars => IInv'
  BY StepTyped, ConnectorStep, TurnStep, DevSpaceStep, AttachedStep DEF IInv
<1> QED BY <1>1, <1>2, PTL DEF Spec

\* A connector that is marked as attached, and is up, served a turn that proved
\* it, for any commands, edits, kills and deaths in between.
THEOREM AttachmentIsProved == Spec => []AttachedByProof
<1>1. ASSUME IInv PROVE AttachedByProof
  <2>1. RuntimeReady => state.dev # NoProc
    BY <1>1 DEF IInv, RuntimeReady, TypeOK, ConnectorTypeOK, Pids, NoProc
  <2> QED BY <1>1, <2>1 DEF IInv, Attached, AttachedByProof
<1> QED BY <1>1, IInvCorrect, PTL
=============================================================================
