----------------------- MODULE CoordinatedCallProofs -----------------------
(***************************************************************************)
(* Theorems about the coordinated call, for any calls, state files,        *)
(* conversations and workers, and any values of the bounds.                *)
(***************************************************************************)
EXTENDS CoordinatedCall, TLAPS, FiniteSetTheorems

\* One step of a call.
CallStep(c) == Progress(c) \/ GiveUp(c) \/ Crash(c)

\* Where a call of each kind may be.
CliLabels == {"start", "queued", "state", "reread", "conversation", "pool", "worker",
              "leased", "ready", "streaming", "answered", "saving", "saved",
              "closing", "unlocking", "leaving", "done"}
GuiLabels == {"start", "queued", "conversation", "prepare", "ready",
              "streaming", "unlocking", "leaving", "done"}

Kinds == /\ \A c \in CliCalls : pc[c] \in CliLabels
         /\ \A c \in GuiTurns : pc[c] \in GuiLabels

\* A GUI turn is for a conversation that exists.
Opened == \A c \in GuiTurns : pc[c] \notin {"start", "done"} => want[c] \in created

Typed == TypeOK /\ Kinds /\ Opened

-----------------------------------------------------------------------------
(* Types.                                                                  *)

\* The initial states are well typed.
LEMMA InitTyped == Init => Typed
<1> SUFFICES ASSUME Init PROVE Typed
  OBVIOUS
<1>1. mode \in [Calls -> {"none", "shared", "exclusive"}]
  BY DEF Init, Gate!Init
<1>2. first \in [CliCalls -> BOOLEAN]
  BY DEF Init
<1>3. copies \in 0 .. MaxCopies
  BY CallsAssumption DEF Init
<1>4. file \in [Files -> created \cup {NoConv}] /\ created \subseteq Convs
  BY DEF Init
<1>5. gone \subseteq created /\ running \subseteq created
  BY DEF Init
<1>6. Kinds
  BY DEF Init, Kinds, CliLabels, GuiLabels, Calls
<1>7. Opened
  BY DEF Init, Opened, Calls
<1>8. TypeOK
  BY <1>1, <1>2, <1>3, <1>4, <1>5 DEF Init, TypeOK
<1> QED BY <1>6, <1>7, <1>8 DEF Typed

\* A step of a call moves no other call.
LEMMA OnlyItMoves ==
    ASSUME Typed, NEW c \in Calls, CallStep(c)
    PROVE  /\ pc' = [pc EXCEPT ![c] = pc'[c]]
           /\ \A d \in Calls \ {c} : pc'[d] = pc[d]
<1>1. \A l : pc' = [pc EXCEPT ![c] = l] => pc' = [pc EXCEPT ![c] = pc'[c]]
  BY DEF Typed, TypeOK
<1>2. pc' = [pc EXCEPT ![c] = pc'[c]]
  <2>1. CASE pc' = pc
    BY <2>1 DEF Typed, TypeOK
  <2> QED BY <1>1, <2>1 DEF CallStep, Progress, ClassifyTurn, OpenTurn, Enter, LockState,
         ReadConversationKey, LockConversation, ReadPool, LeaseWorker, SyncRemote,
         PrepareCloudTurn, Submit, Answer, Break, UpgradeLock, SaveConversation,
         SyncAgain, ReleaseWorker, ReleaseConversation, Leave, Exit, GiveUp, Crash, Goto
<1> QED BY <1>2 DEF Typed, TypeOK

\* A call keeps to the labels of its kind.
LEMMA CallKinds ==
    ASSUME Typed, NEW c \in Calls, CallStep(c)
    PROVE  /\ Kinds'
           /\ pc' \in [Calls -> CliLabels \cup GuiLabels]
<1>1. pc \in [Calls -> CliLabels \cup GuiLabels]
  BY DEF Typed, TypeOK, Kinds, CliLabels, GuiLabels, Calls
<1>2. /\ c \in CliCalls => pc[c] \in CliLabels
      /\ c \in GuiTurns => pc[c] \in GuiLabels
      /\ c \in CliCalls <=> c \notin GuiTurns
  BY CallsAssumption DEF Typed, Kinds, Calls
<1>3. \A d \in Calls \ {c} : pc'[d] = pc[d]
  BY OnlyItMoves
<1>4. /\ c \in CliCalls => pc'[c] \in CliLabels
      /\ c \in GuiTurns => pc'[c] \in GuiLabels
  BY <1>1, <1>2 DEF CallStep, Progress, ClassifyTurn, OpenTurn, Enter, LockState,
         ReadConversationKey, LockConversation, ReadPool, LeaseWorker, SyncRemote,
         PrepareCloudTurn, Submit, Answer, Break, UpgradeLock, SaveConversation,
         SyncAgain, ReleaseWorker, ReleaseConversation, Leave, Exit, GiveUp, Crash, Goto,
         CliLabels, GuiLabels
<1>5. pc' = [pc EXCEPT ![c] = pc'[c]]
  BY OnlyItMoves
<1>6. Kinds'
  BY <1>3, <1>4, CallsAssumption DEF Typed, Kinds, Calls
<1> QED BY <1>1, <1>4, <1>5, <1>6 DEF Calls

\* A step of a call keeps everything well typed.
LEMMA CallTyped ==
    ASSUME Typed, NEW c \in Calls, CallStep(c)
    PROVE  Typed'
<1>0. TypeOK /\ Kinds /\ Opened
  BY DEF Typed
<1>1. Kinds' /\ pc' \in [Calls -> CliLabels \cup GuiLabels]
  BY CallKinds
<1>2. c \notin GuiTurns => c \in CliCalls /\ state[c] \in Files
                           /\ file[state[c]] \in created \cup {NoConv}
  BY <1>0 DEF Calls, TypeOK
<1>3. c \in GuiTurns => pc[c] \in GuiLabels
  BY <1>0 DEF Kinds
<1>4. state' = state /\ gone' = gone /\ copies' = copies
  BY DEF CallStep, Progress, ClassifyTurn, OpenTurn, Enter, LockState,
         ReadConversationKey, LockConversation, ReadPool, LeaseWorker, SyncRemote,
         PrepareCloudTurn, Submit, Answer, Break, UpgradeLock, SaveConversation,
         SyncAgain, ReleaseWorker, ReleaseConversation, Leave, Exit, GiveUp, Crash,
         locals, remote
<1>5. created \subseteq created' /\ created' \subseteq Convs
  BY <1>0 DEF CallStep, Progress, ClassifyTurn, OpenTurn, Enter, LockState,
         ReadConversationKey, LockConversation, ReadPool, LeaseWorker, SyncRemote,
         PrepareCloudTurn, Submit, Answer, Break, UpgradeLock, SaveConversation,
         SyncAgain, ReleaseWorker, ReleaseConversation, Leave, Exit, GiveUp, Crash,
         TypeOK, remote
<1>6. first' \in [CliCalls -> BOOLEAN]
  <2>1. CASE ClassifyTurn(c)
    <3>1. (file[state[c]] = NoConv) \in BOOLEAN
      OBVIOUS
    <3> QED BY <1>0, <2>1, <3>1 DEF ClassifyTurn, TypeOK
  <2>2. CASE first' = first
    BY <1>0, <2>2 DEF TypeOK
  <2> QED BY <2>1, <2>2 DEF CallStep, Progress, OpenTurn, Enter, LockState, ReadConversationKey,
         LockConversation, ReadPool, LeaseWorker, SyncRemote, PrepareCloudTurn, Submit,
         Answer, Break, UpgradeLock, SaveConversation, SyncAgain, ReleaseWorker,
         ReleaseConversation, Leave, Exit, GiveUp, Crash, locals
<1>7. want' \in [Calls -> Convs \cup {NoConv}]
  <2>1. CASE OpenTurn(c)
    BY <1>0, <2>1 DEF OpenTurn, TypeOK
  <2>2. CASE ReadConversationKey(c)
    <3>1. file[state[c]] \in Convs \cup {NoConv}
      BY <1>0, <1>2, <1>3, <2>2 DEF ReadConversationKey, GuiLabels, TypeOK
    <3> QED BY <1>0, <2>2, <3>1 DEF ReadConversationKey, TypeOK
  <2>3. CASE want' = want \/ want' = [want EXCEPT ![c] = NoConv]
    BY <1>0, <2>3 DEF TypeOK
  <2> QED BY <2>1, <2>2, <2>3 DEF CallStep, Progress, ClassifyTurn, Enter, LockState, LockConversation,
         ReadPool, LeaseWorker, SyncRemote, PrepareCloudTurn, Submit, Answer, Break,
         UpgradeLock, SaveConversation, SyncAgain, ReleaseWorker,
         ReleaseConversation, Leave, Exit, GiveUp, Crash, locals
<1>8. turn' \in [Calls -> created' \cup {NoConv}]
  <2>1. CASE SyncRemote(c)
    <3>1. file[state[c]] \in created \cup {NoConv}
      BY <1>2, <1>3, <2>1 DEF SyncRemote, GuiLabels
    <3>2. created' = created
      BY <2>1 DEF SyncRemote, remote
    <3> QED BY <1>0, <2>1, <3>1, <3>2 DEF SyncRemote, TypeOK
  <2>2. CASE PrepareCloudTurn(c)
    <3>1. c \in GuiTurns
      BY <1>0, <2>2, CallsAssumption DEF PrepareCloudTurn, Kinds, CliLabels, Calls
    <3>2. want[c] \in created
      BY <1>0, <2>2, <3>1 DEF PrepareCloudTurn, Opened
    <3> QED BY <1>0, <1>5, <2>2, <3>2 DEF PrepareCloudTurn, TypeOK
  <2>3. CASE Submit(c)
    BY <1>0, <1>5, <2>3 DEF Submit, TypeOK
  <2>4. CASE turn' = turn \/ turn' = [turn EXCEPT ![c] = NoConv]
    BY <1>0, <1>5, <2>4 DEF TypeOK
  <2> QED BY <2>1, <2>2, <2>3, <2>4 DEF CallStep, Progress, ClassifyTurn, OpenTurn, Enter, LockState,
         ReadConversationKey, LockConversation, ReadPool, LeaseWorker, Answer, Break,
         UpgradeLock, SaveConversation, SyncAgain, ReleaseWorker,
         ReleaseConversation, Leave, Exit, GiveUp, Crash, locals
<1>9. mode' \in [Calls -> {"none", "shared", "exclusive"}]
  BY <1>0 DEF CallStep, Progress, ClassifyTurn, OpenTurn, Enter, LockState,
         ReadConversationKey, LockConversation, ReadPool, LeaseWorker, SyncRemote,
         PrepareCloudTurn, Submit, Answer, Break, UpgradeLock, SaveConversation,
         SyncAgain, ReleaseWorker, ReleaseConversation, Leave, Exit, GiveUp, Crash,
         TypeOK, Gate!EnterExclusive, Gate!EnterShared, Gate!LeaveGate
<1>10. /\ stateOwner' \in [Files -> Calls \cup {Nobody}]
       /\ convOwner' \in [Convs -> Calls \cup {Nobody}]
       /\ workerOwner' \in [Workers -> Calls \cup {Nobody}]
  BY <1>0 DEF CallStep, Progress, ClassifyTurn, OpenTurn, Enter, LockState,
         ReadConversationKey, LockConversation, ReadPool, LeaseWorker, SyncRemote,
         PrepareCloudTurn, Submit, Answer, Break, UpgradeLock, SaveConversation,
         SyncAgain, ReleaseWorker, ReleaseConversation, Leave, Exit, GiveUp, Crash,
         TypeOK, owners
<1>11. file' \in [Files -> created' \cup {NoConv}]
  <2>1. CASE SaveConversation(c)
    BY <1>0, <2>1 DEF SaveConversation, TypeOK, remote
  <2>2. CASE SyncRemote(c) \/ SyncAgain(c)
    BY <1>0, <2>2 DEF SyncRemote, SyncAgain, TypeOK, remote
  <2>3. CASE file' = file
    BY <1>0, <1>5, <2>3 DEF TypeOK
  <2> QED BY <2>1, <2>2, <2>3 DEF CallStep, Progress, ClassifyTurn, OpenTurn, Enter, LockState,
         ReadConversationKey, LockConversation, ReadPool, LeaseWorker, PrepareCloudTurn,
         Submit, Answer, Break, UpgradeLock, ReleaseWorker, ReleaseConversation,
         Leave, Exit, GiveUp, Crash
<1>12. running' \subseteq created'
  <2>1. CASE Submit(c)
    <3>1. turn'[c] \in created'
      BY <1>0, <2>1 DEF Submit, TypeOK
    <3> QED BY <1>0, <1>5, <2>1, <3>1 DEF Submit, TypeOK
  <2>2. CASE running' \subseteq running
    BY <1>0, <1>5, <2>2 DEF TypeOK
  <2> QED BY <2>1, <2>2 DEF CallStep, Progress, ClassifyTurn, OpenTurn, Enter, LockState,
         ReadConversationKey, LockConversation, ReadPool, LeaseWorker, SyncRemote,
         PrepareCloudTurn, Answer, Break, UpgradeLock, SaveConversation, SyncAgain,
         ReleaseWorker, ReleaseConversation, Leave, Exit, GiveUp, Crash, remote
<1>13. Opened'
  <2>1. CASE OpenTurn(c)
    BY <1>0, <2>1 DEF OpenTurn, Opened, TypeOK, remote, Goto, Calls
  <2>2. CASE \A d \in GuiTurns :
               pc'[d] # "done" => want'[d] = want[d] /\ pc[d] # "done"
                                  /\ (pc[d] = "start" => pc'[d] = "start")
    BY <1>0, <1>5, <2>2 DEF Opened
  <2>3. CASE ReadConversationKey(c)
    <3>1. c \notin GuiTurns
      BY <1>3, <2>3 DEF ReadConversationKey, GuiLabels
    <3>2. \A d \in GuiTurns : want'[d] = want[d] /\ pc'[d] = pc[d]
      BY <1>0, <2>3, <3>1 DEF ReadConversationKey, TypeOK, Goto, Calls
    <3> QED BY <2>2, <3>2
  <2>4. CASE ClassifyTurn(c)
    BY <1>0, <2>2, <2>4, CallsAssumption DEF ClassifyTurn, TypeOK, Goto, Calls
  <2>5. CASE /\ want' = want \/ (want' = [want EXCEPT ![c] = NoConv] /\ pc'[c] = "done")
             /\ pc[c] \notin {"start", "done"}
    <3>1. \A d \in Calls \ {c} : pc'[d] = pc[d] /\ want'[d] = want[d]
      BY <1>0, <2>5, OnlyItMoves DEF TypeOK
    <3>2. pc'[c] # "done" => want'[c] = want[c]
      BY <2>5
    <3> QED BY <2>2, <2>5, <3>1, <3>2 DEF Calls
  <2>6. want' = want \/ (want' = [want EXCEPT ![c] = NoConv] /\ pc'[c] = "done")
        \/ OpenTurn(c) \/ ReadConversationKey(c)
    BY <1>0 DEF CallStep, Progress, ClassifyTurn, Enter, LockState, LockConversation, ReadPool,
         LeaseWorker, SyncRemote, PrepareCloudTurn, Submit, Answer, Break, UpgradeLock,
         SaveConversation, SyncAgain, ReleaseWorker, ReleaseConversation, Leave, Exit,
         GiveUp, Crash, Goto, TypeOK, locals
  <2> QED BY <2>1, <2>3, <2>4, <2>5, <2>6 DEF CallStep, Progress, Enter, LockState, LockConversation, ReadPool, LeaseWorker,
         SyncRemote, PrepareCloudTurn, Submit, Answer, Break, UpgradeLock,
         SaveConversation, SyncAgain, ReleaseWorker, ReleaseConversation, Leave, Exit,
         GiveUp, Crash, locals
<1>14. pc' \in [Calls -> {"start", "queued", "state", "reread", "conversation",
                         "pool", "worker", "leased", "prepare", "ready", "streaming",
                         "answered", "saving", "saved", "closing", "unlocking",
                         "leaving", "done"}]
  BY <1>1 DEF CliLabels, GuiLabels
<1>15. active' \in [CliCalls -> SUBSET Workers]
  BY <1>0 DEF CallStep, Progress, ClassifyTurn, OpenTurn, Enter, LockState,
         ReadConversationKey, LockConversation, ReadPool, LeaseWorker, SyncRemote,
         PrepareCloudTurn, Submit, Answer, Break, UpgradeLock, SaveConversation,
         SyncAgain, ReleaseWorker, ReleaseConversation, Leave, Exit, GiveUp, Crash,
         TypeOK, locals
<1>16. TypeOK'
  BY <1>0, <1>4, <1>5, <1>6, <1>7, <1>8, <1>9, <1>10, <1>11, <1>12, <1>14, <1>15 DEF TypeOK
<1> QED BY <1>1, <1>13, <1>16 DEF Typed

\* So does every step.
LEMMA NextTyped == Typed /\ [Next]_vars => Typed'
<1> SUFFICES ASSUME Typed, [Next]_vars PROVE Typed'
  OBVIOUS
<1>1. CASE \E c \in Calls : CallStep(c)
  BY <1>1, CallTyped
<1>2. CASE CopyState
  <2>1. file' \in [Files -> created \cup {NoConv}] /\ copies' \in 0 .. MaxCopies
    BY <1>2, CallsAssumption DEF CopyState, Typed, TypeOK
  <2>2. TypeOK'
    BY <1>2, <2>1 DEF CopyState, Typed, TypeOK, locals, owners, remote
  <2> QED BY <1>2, <2>2 DEF CopyState, Typed, Kinds, Opened, locals, remote
<1>3. CASE LoseConversation
  <2>1. TypeOK'
    BY <1>3 DEF LoseConversation, Typed, TypeOK, locals, owners
  <2> QED BY <1>3, <2>1 DEF LoseConversation, Typed, Kinds, Opened, locals
<1>4. CASE FinishRemotely
  <2>1. TypeOK'
    BY <1>4 DEF FinishRemotely, Typed, TypeOK, locals, owners
  <2> QED BY <1>4, <2>1 DEF FinishRemotely, Typed, Kinds, Opened, locals
<1>5. CASE UNCHANGED vars
  <2>1. TypeOK'
    BY <1>5 DEF vars, Typed, TypeOK, locals, owners, remote
  <2> QED BY <1>5, <2>1 DEF vars, Typed, Kinds, Opened, locals, remote
<1> QED BY <1>1, <1>2, <1>3, <1>4, <1>5 DEF Next, CallStep

\* Every variable keeps its type; turns and state files name only conversations
\* that exist, for any number of calls, files, conversations and workers.
THEOREM TypeCorrect == Spec => []TypeOK
<1>1. Typed => TypeOK
  BY DEF Typed
<1> QED BY <1>1, InitTyped, NextTyped, PTL DEF Spec

-----------------------------------------------------------------------------
(* A call holds the lock of its state file from LockState on.              *)

Locked == {"reread", "conversation", "pool", "worker", "leased", "ready", "streaming",
           "answered", "saving", "saved", "closing"}

HoldsState == \A c \in CliCalls : pc[c] \in Locked => stateOwner[state[c]] = c

\* No call has a state lock in the initial state.
LEMMA InitHoldsState == Init => HoldsState
BY DEF Init, HoldsState, Locked, Calls

\* A step of a call takes no lock from another one.
LEMMA StepSparesLocks ==
    ASSUME Typed, NEW c \in Calls, CallStep(c), NEW d \in Calls, d # c
    PROVE  /\ \A f \in Files : stateOwner[f] = d => stateOwner'[f] = d
           /\ \A k \in Convs : convOwner[k] = d => convOwner'[k] = d
<1>1. d # Nobody /\ c # Nobody /\ TypeOK
  BY CallsAssumption DEF Typed
<1>2. \A f \in Files : stateOwner[f] = d => stateOwner'[f] = d
  BY <1>1 DEF CallStep, Progress, ClassifyTurn, OpenTurn, Enter, LockState,
         ReadConversationKey, LockConversation, ReadPool, LeaseWorker, SyncRemote,
         PrepareCloudTurn, Submit, Answer, Break, UpgradeLock, SaveConversation,
         SyncAgain, ReleaseWorker, ReleaseConversation, Leave, Exit, GiveUp, Crash,
         TypeOK, owners
<1>3. \A k \in Convs : convOwner[k] = d => convOwner'[k] = d
  BY <1>1 DEF CallStep, Progress, ClassifyTurn, OpenTurn, Enter, LockState,
         ReadConversationKey, LockConversation, ReadPool, LeaseWorker, SyncRemote,
         PrepareCloudTurn, Submit, Answer, Break, UpgradeLock, SaveConversation,
         SyncAgain, ReleaseWorker, ReleaseConversation, Leave, Exit, GiveUp, Crash,
         TypeOK, owners, ConvLocks
<1> QED BY <1>2, <1>3

\* Every step keeps the state locks with their calls.
LEMMA NextHoldsState ==
    ASSUME Typed, HoldsState, [Next]_vars
    PROVE  HoldsState'
<1> SUFFICES ASSUME NEW d \in CliCalls, pc'[d] \in Locked
             PROVE  (stateOwner[state[d]] = d)'
  BY DEF HoldsState
<1>0. d \in Calls /\ TypeOK /\ state[d] \in Files
  BY DEF Calls, Typed, TypeOK
<1>1. ASSUME NEW c \in Calls, CallStep(c) PROVE (stateOwner[state[d]] = d)'
  <2>0. state' = state
    BY <1>1 DEF CallStep, Progress, ClassifyTurn, OpenTurn, Enter, LockState,
         ReadConversationKey, LockConversation, ReadPool, LeaseWorker, SyncRemote,
         PrepareCloudTurn, Submit, Answer, Break, UpgradeLock, SaveConversation,
         SyncAgain, ReleaseWorker, ReleaseConversation, Leave, Exit, GiveUp, Crash, locals
  <2>1. CASE d # c
    <3>1. pc[d] \in Locked
      BY <1>0, <1>1, <2>1, OnlyItMoves
    <3>2. stateOwner[state[d]] = d
      BY <3>1 DEF HoldsState
    <3> QED BY <1>0, <1>1, <2>0, <2>1, <3>2, StepSparesLocks
  <2>2. CASE LockState(c) /\ d = c
    BY <1>0, <2>0, <2>2 DEF LockState, TypeOK
  <2>3. CASE d = c /\ ~LockState(c)
    <3>0. pc[d] # "prepare"
      BY DEF Typed, Kinds, CliLabels
    <3>1. pc[d] \in Locked /\ stateOwner' = stateOwner
      BY <1>0, <1>1, <2>3, <3>0 DEF CallStep, Progress, ClassifyTurn, OpenTurn, Enter, ReadConversationKey,
         LockConversation, ReadPool, LeaseWorker, SyncRemote, PrepareCloudTurn, Submit,
         Answer, Break, UpgradeLock, SaveConversation, SyncAgain, ReleaseWorker,
         ReleaseConversation, Leave, Exit, GiveUp, Crash, Goto, Locked, TypeOK, owners
    <3> QED BY <2>0, <3>1 DEF HoldsState
  <2> QED BY <2>1, <2>2, <2>3
<1>2. CASE UNCHANGED <<pc, state, stateOwner>>
  BY <1>2 DEF HoldsState
<1> QED BY <1>1, <1>2 DEF Next, CallStep, CopyState, LoseConversation, FinishRemotely,
           vars, locals, owners

\* Two calls of one state file never run turns at once, also when conversations
\* become inaccessible and are reset, for any number of calls and files.
THEOREM StateFilesHaveOneTurn == Spec => []OneTurnPerStateFile
<1>1. HoldsState => OneTurnPerStateFile
  BY DEF HoldsState, OneTurnPerStateFile, InTurn, Locked
<1>2. Typed /\ HoldsState /\ [Next]_vars => Typed' /\ HoldsState'
  BY NextTyped, NextHoldsState
<1> QED BY <1>1, <1>2, InitTyped, InitHoldsState, PTL DEF Spec

-----------------------------------------------------------------------------
(* An id is recorded under both locks.                                     *)

\* Nobody but the holder of a state lock writes the state file.
LEMMA StepSparesFiles ==
    ASSUME Typed, HoldsState, NEW c \in Calls, CallStep(c),
           NEW f \in Files, stateOwner[f] # c
    PROVE  file'[f] = file[f]
<1>0. TypeOK /\ Kinds
  BY DEF Typed
<1>1. CASE SyncRemote(c) \/ SaveConversation(c) \/ SyncAgain(c)
  <2>1. c \in CliCalls /\ pc[c] \in Locked
    BY <1>0, <1>1 DEF SyncRemote, SaveConversation, SyncAgain, Locked, Kinds,
       GuiLabels, Calls
  <2>2. stateOwner[state[c]] = c
    BY <2>1 DEF HoldsState
  <2>3. state[c] # f
    BY <2>2
  <2> QED BY <1>0, <1>1, <2>3 DEF SyncRemote, SaveConversation, SyncAgain, TypeOK
<1>2. CASE file' = file
  BY <1>2
<1> QED BY <1>1, <1>2 DEF CallStep, Progress, ClassifyTurn, OpenTurn, Enter, LockState,
         ReadConversationKey, LockConversation, ReadPool, LeaseWorker, PrepareCloudTurn,
         Submit, Answer, Break, UpgradeLock, ReleaseWorker, ReleaseConversation,
         Leave, Exit, GiveUp, Crash

\* What a call knows of its turn: the state file names no other conversation,
\* the turn's conversation exists once it is submitted, and it is locked before
\* its id is saved.
KnowsTurn ==
    \A c \in CliCalls :
        /\ pc[c] \in {"ready", "streaming", "answered", "saving"} =>
              file[state[c]] \in {NoConv, turn[c]}
        /\ pc[c] \in {"streaming", "answered", "saving"} => turn[c] \in created
        /\ pc[c] = "saving" => convOwner[turn[c]] = c

\* Nobody runs a turn in the initial state.
LEMMA InitKnowsTurn == Init => KnowsTurn
BY DEF Init, KnowsTurn, Calls

\* Every step keeps what calls know of their turns.
LEMMA NextKnowsTurn ==
    ASSUME Typed, HoldsState, KnowsTurn, [Next]_vars
    PROVE  KnowsTurn'
<1> DEFINE
    Knows(c) == /\ pc[c] \in {"ready", "streaming", "answered", "saving"} =>
                      file[state[c]] \in {NoConv, turn[c]}
                /\ pc[c] \in {"streaming", "answered", "saving"} => turn[c] \in created
                /\ pc[c] = "saving" => convOwner[turn[c]] = c
<1> SUFFICES ASSUME NEW d \in CliCalls PROVE Knows(d)'
  BY DEF KnowsTurn
<1>0. d \in Calls /\ TypeOK /\ state[d] \in Files /\ Knows(d)
  BY DEF Calls, Typed, TypeOK, KnowsTurn
<1>1. pc[d] \in {"ready", "streaming", "answered", "saving"} => stateOwner[state[d]] = d
  BY DEF HoldsState, Locked
<1>2. ASSUME NEW c \in Calls, CallStep(c), d # c PROVE Knows(d)'
  <2>1. pc'[d] = pc[d]
    BY <1>0, <1>2, OnlyItMoves
  <2>2. state' = state /\ turn'[d] = turn[d] /\ created \subseteq created'
    BY <1>0, <1>2 DEF CallStep, Progress, ClassifyTurn, OpenTurn, Enter, LockState,
         ReadConversationKey, LockConversation, ReadPool, LeaseWorker, SyncRemote,
         PrepareCloudTurn, Submit, Answer, Break, UpgradeLock, SaveConversation,
         SyncAgain, ReleaseWorker, ReleaseConversation, Leave, Exit, GiveUp, Crash,
         locals, remote, TypeOK
  <2>3. stateOwner[state[d]] = d => file'[state[d]] = file[state[d]]
    BY <1>0, <1>2, StepSparesFiles
  <2>4. turn[d] \in created /\ convOwner[turn[d]] = d => convOwner'[turn[d]] = d
    BY <1>0, <1>2, StepSparesLocks DEF TypeOK
  <2> QED BY <1>0, <1>1, <2>1, <2>2, <2>3, <2>4
<1>3. ASSUME CallStep(d) PROVE Knows(d)'
  <2>1. CASE SyncRemote(d)
    BY <1>0, <2>1 DEF SyncRemote, Goto, TypeOK
  <2>2. CASE Submit(d)
    <3>1. turn'[d] \in created' /\ file[state[d]] \in {NoConv, turn'[d]}
      BY <1>0, <2>2 DEF Submit, TypeOK
    <3> QED BY <1>0, <2>2, <3>1 DEF Submit, Goto, TypeOK
  <2>3. CASE Answer(d)
    BY <1>0, <2>3 DEF Answer, Goto, TypeOK, locals
  <2>4. CASE UpgradeLock(d)
    BY <1>0, <2>4 DEF UpgradeLock, Goto, TypeOK, locals, remote
  <2>5. CASE pc'[d] \notin {"ready", "streaming", "answered", "saving"}
    BY <2>5
  <2>6. CASE PrepareCloudTurn(d)
    BY <2>6, CallsAssumption DEF PrepareCloudTurn, Typed, Kinds, CliLabels
  <2>7. CASE ReleaseConversation(d)
    BY <1>0, <2>5, <2>7 DEF ReleaseConversation, Goto, TypeOK
  <2> HIDE DEF Knows
  <2>8. CASE ~(SyncRemote(d) \/ Submit(d) \/ Answer(d) \/ UpgradeLock(d)
               \/ PrepareCloudTurn(d) \/ ReleaseConversation(d))
    <3>1. pc'[d] \notin {"ready", "streaming", "answered", "saving"}
      BY <1>0, <1>3, <2>8 DEF CallStep, Progress, ClassifyTurn, OpenTurn, Enter, LockState,
         ReadConversationKey, LockConversation, ReadPool, LeaseWorker, Break,
         SaveConversation, SyncAgain, ReleaseWorker, Leave, Exit, GiveUp, Crash, Goto,
         TypeOK
    <3> QED BY <2>5, <3>1
  <2> QED BY <2>1, <2>2, <2>3, <2>4, <2>6, <2>7, <2>8
<1>4. CASE CopyState
  <2>1. stateOwner[state[d]] = d => file'[state[d]] = file[state[d]]
    BY <1>0, <1>4, CallsAssumption DEF CopyState, TypeOK
  <2> QED BY <1>0, <1>1, <1>4, <2>1 DEF CopyState, locals, owners, remote
<1>5. CASE LoseConversation \/ FinishRemotely \/ UNCHANGED vars
  BY <1>0, <1>5 DEF LoseConversation, FinishRemotely, vars, locals, owners, remote
<1> HIDE DEF Knows
<1> QED BY <1>0, <1>2, <1>3, <1>4, <1>5 DEF Next, CallStep

\* The id of a finished turn is written under the state lock and the lock of the
\* conversation, and over no other id, also when conversations become
\* inaccessible.
THEOREM IdsAreSavedUnderBothLocks == Spec => SavedUnderBothLocks
<1> DEFINE
    IInv == Typed /\ HoldsState /\ KnowsTurn
    Saved == \A f \in Files :
                file'[f] # file[f] /\ file'[f] # NoConv /\ copies' = copies =>
                   /\ stateOwner[f] # Nobody
                   /\ convOwner[file'[f]] = stateOwner[f]
                   /\ file[f] = NoConv
<1>1. Init => IInv
  BY InitTyped, InitHoldsState, InitKnowsTurn
<1>2. IInv /\ [Next]_vars => IInv'
  BY NextTyped, NextHoldsState, NextKnowsTurn
<1>3. IInv /\ [Next]_vars => [Saved]_vars
  <2> SUFFICES ASSUME IInv, [Next]_vars, NEW f \in Files,
                      file'[f] # file[f], file'[f] # NoConv, copies' = copies
               PROVE  /\ stateOwner[f] # Nobody
                      /\ convOwner[file'[f]] = stateOwner[f]
                      /\ file[f] = NoConv
    OBVIOUS
  <2>0. TypeOK /\ Kinds
    BY DEF Typed
  <2>1. ~CopyState
    BY <2>0 DEF CopyState, TypeOK
  <2>2. PICK c \in Calls : CallStep(c)
    BY <2>1 DEF Next, LoseConversation, FinishRemotely, vars, CallStep
  <2>3. SaveConversation(c)
    BY <2>0, <2>2 DEF CallStep, Progress, ClassifyTurn, OpenTurn, Enter, LockState,
         ReadConversationKey, LockConversation, ReadPool, LeaseWorker, SyncRemote,
         PrepareCloudTurn, Submit, Answer, Break, UpgradeLock, SaveConversation,
         SyncAgain, ReleaseWorker, ReleaseConversation, Leave, Exit, GiveUp, Crash, TypeOK
  <2>4. c \in CliCalls
    BY <2>0, <2>3 DEF SaveConversation, Kinds, GuiLabels, Calls
  <2>5. f = state[c] /\ file'[f] = turn[c]
    BY <2>0, <2>3 DEF SaveConversation, TypeOK
  <2>6. stateOwner[f] = c /\ convOwner[turn[c]] = c /\ file[f] \in {NoConv, turn[c]}
    BY <2>3, <2>4, <2>5 DEF SaveConversation, HoldsState, Locked, KnowsTurn
  <2> QED BY <2>5, <2>6, CallsAssumption
<1> QED BY <1>1, <1>2, <1>3, PTL DEF Spec, SavedUnderBothLocks

-----------------------------------------------------------------------------
(* One turn per conversation, until one is lost: a reset makes a call that   *)
(* was admitted as shared open a conversation.                              *)

\* Calls inside the remote admission: a first turn is alone there.
Inside == {"state", "reread", "conversation", "pool", "worker", "leased", "prepare",
           "ready", "streaming", "answered", "saving", "saved", "closing",
           "unlocking", "leaving"}

Admission ==
    /\ \A c \in Calls : pc[c] \in Inside => mode[c] # "none"
    /\ \A c \in CliCalls : pc[c] \in Inside /\ first[c] => mode[c] = "exclusive"
    /\ \A c, d \in Calls : mode[c] = "exclusive" /\ mode[d] # "none" => c = d

\* Nobody is inside in the initial state.
LEMMA InitAdmission == Init => Admission
BY DEF Init, Gate!Init, Admission, Inside, Calls

\* Every step keeps first turns alone.
LEMMA NextAdmission ==
    ASSUME Typed, Admission, [Next]_vars
    PROVE  Admission'
<1>0. TypeOK
  BY DEF Typed
<1>1. ASSUME NEW c \in Calls, CallStep(c) PROVE Admission'
  <2>0. /\ pc' = [pc EXCEPT ![c] = pc'[c]]
        /\ \A d \in Calls \ {c} : pc'[d] = pc[d]
    BY <1>1, OnlyItMoves
  <2>1. CASE Enter(c)
    <3>1. CASE c \in CliCalls /\ first[c]
      <4>1. /\ mode' = [mode EXCEPT ![c] = "exclusive"]
            /\ \A d \in Calls : mode[d] = "none"
            /\ first' = first
        BY <2>1, <3>1 DEF Enter, Gate!EnterExclusive, locals
      <4> QED BY <1>0, <2>0, <4>1 DEF Admission, TypeOK, Calls
    <3>2. CASE ~(c \in CliCalls /\ first[c])
      <4>1. /\ mode' = [mode EXCEPT ![c] = "shared"]
            /\ \A d \in Calls : mode[d] # "exclusive"
            /\ first' = first
        BY <2>1, <3>2 DEF Enter, Gate!EnterShared, Gate!In, locals
      <4> QED BY <1>0, <2>0, <3>2, <4>1 DEF Admission, TypeOK, Calls
    <3> QED BY <3>1, <3>2
  <2>2. CASE Leave(c) \/ Crash(c)
    <3>1. pc'[c] \notin Inside /\ mode' = [mode EXCEPT ![c] = "none"] /\ first' = first
      BY <1>0, <2>2 DEF Leave, Exit, Crash, Gate!LeaveGate, Goto, Inside, TypeOK, locals
    <3> QED BY <1>0, <2>0, <3>1 DEF Admission, TypeOK, Calls
  <2>3. CASE ClassifyTurn(c)
    <3>1. /\ pc'[c] \notin Inside /\ mode' = mode
          /\ \A d \in CliCalls \ {c} : first'[d] = first[d]
      BY <1>0, <2>3 DEF ClassifyTurn, Goto, Inside, TypeOK
    <3> QED BY <1>0, <2>0, <3>1 DEF Admission, Calls
  <2>4. CASE ~(Enter(c) \/ Leave(c) \/ Crash(c) \/ ClassifyTurn(c))
    <3>1. mode' = mode /\ first' = first
      BY <1>1, <2>4 DEF CallStep, Progress, OpenTurn, LockState, ReadConversationKey,
         LockConversation, ReadPool, LeaseWorker, SyncRemote, PrepareCloudTurn, Submit,
         Answer, Break, UpgradeLock, SaveConversation, SyncAgain, ReleaseWorker,
         ReleaseConversation, GiveUp, locals
    <3>2. pc'[c] \in Inside => pc[c] \in Inside
      BY <1>0, <1>1, <2>4 DEF CallStep, Progress, OpenTurn, LockState, ReadConversationKey,
         LockConversation, ReadPool, LeaseWorker, SyncRemote, PrepareCloudTurn, Submit,
         Answer, Break, UpgradeLock, SaveConversation, SyncAgain, ReleaseWorker,
         ReleaseConversation, GiveUp, Goto, TypeOK, Inside
    <3> QED BY <2>0, <3>1, <3>2 DEF Admission, Calls
  <2> QED BY <2>1, <2>2, <2>3, <2>4
<1>2. CASE UNCHANGED <<pc, mode, first>>
  BY <1>2 DEF Admission
<1> QED BY <1>1, <1>2 DEF Next, CallStep, CopyState, LoseConversation, FinishRemotely,
           vars, locals

\* A state file that has an id keeps one: only a reset takes it away.
Kept ==
    /\ gone = {}
    /\ \A c \in CliCalls :
          pc[c] # "start" /\ ~first[c] => file[state[c]] # NoConv

\* What ChatGPT lost stays lost.
LEMMA GoneGrows == [Next]_vars => gone \subseteq gone'
BY DEF Next, Progress, ClassifyTurn, OpenTurn, Enter, LockState, ReadConversationKey,
   LockConversation, ReadPool, LeaseWorker, SyncRemote, PrepareCloudTurn, Submit, Answer,
   Break, UpgradeLock, SaveConversation, SyncAgain, ReleaseWorker, ReleaseConversation,
   Leave, Exit, GiveUp, Crash, remote, CopyState, LoseConversation, FinishRemotely, vars

\* No call has classified its turn in the initial state.
LEMMA InitKept == Init => Kept
BY DEF Init, Kept, Calls

\* Every step that loses no conversation keeps the ids of state files.
LEMMA NextKept ==
    ASSUME Typed, KnowsTurn, Kept, [Next]_vars, gone' = {}
    PROVE  Kept'
<1>0. TypeOK /\ Kinds /\ NoConv \notin created
  BY CallsAssumption DEF Typed, TypeOK
<1>1. ~LoseConversation
  BY DEF LoseConversation
<1>3. ASSUME NEW f \in Files, file[f] # NoConv PROVE file'[f] # NoConv
  <2>1. ASSUME NEW c \in Calls, CallStep(c) PROVE file'[f] # NoConv
    <3>1. CASE SaveConversation(c)
      <4>1. c \in CliCalls
        BY <1>0, <3>1 DEF SaveConversation, Kinds, GuiLabels, Calls
      <4>2. turn[c] \in created
        BY <3>1, <4>1 DEF SaveConversation, KnowsTurn
      <4> QED BY <1>0, <1>3, <3>1, <4>2 DEF SaveConversation, TypeOK
    <3>2. CASE SyncRemote(c) \/ SyncAgain(c)
      BY <1>0, <1>3, <3>2 DEF SyncRemote, SyncAgain, Kept, TypeOK
    <3>3. CASE file' = file
      BY <1>3, <3>3
    <3> QED BY <2>1, <3>1, <3>2, <3>3 DEF CallStep, Progress, ClassifyTurn, OpenTurn, Enter, LockState,
         ReadConversationKey, LockConversation, ReadPool, LeaseWorker, PrepareCloudTurn,
         Submit, Answer, Break, UpgradeLock, ReleaseWorker, ReleaseConversation,
         Leave, Exit, GiveUp, Crash
  <2>2. CASE CopyState
    BY <1>0, <1>3, <2>2 DEF CopyState, TypeOK
  <2>3. CASE file' = file
    BY <1>3, <2>3
  <2> QED BY <1>1, <2>1, <2>2, <2>3 DEF Next, CallStep, FinishRemotely, vars
<1>4. ASSUME NEW d \in CliCalls, pc'[d] # "start", ~first'[d]
      PROVE  (file[state[d]] # NoConv)'
  <2>0. d \in Calls /\ state[d] \in Files
    BY <1>0 DEF Calls, TypeOK
  <2>1. state' = state
    BY <1>1 DEF Next, Progress, ClassifyTurn, OpenTurn, Enter, LockState,
       ReadConversationKey, LockConversation, ReadPool, LeaseWorker, SyncRemote,
       PrepareCloudTurn, Submit, Answer, Break, UpgradeLock, SaveConversation,
       SyncAgain, ReleaseWorker, ReleaseConversation, Leave, Exit, GiveUp, Crash, locals,
       CopyState, FinishRemotely, vars
  <2>2. file[state[d]] # NoConv
    <3>1. CASE ClassifyTurn(d)
      <4>1. first'[d] = (file[state[d]] = NoConv)
        BY <1>0, <3>1, <1>4 DEF ClassifyTurn, TypeOK
      <4> QED BY <1>4, <4>1
    <3>2. CASE \E c \in Calls : CallStep(c) /\ ~ClassifyTurn(d)
      <4>1. PICK c \in Calls : CallStep(c)
        BY <3>2
      <4>2. first'[d] = first[d]
        <5>1. CASE ClassifyTurn(c)
          BY <1>0, <2>0, <3>2, <5>1 DEF ClassifyTurn, TypeOK
        <5>2. CASE ~ClassifyTurn(c)
          BY <4>1, <5>2 DEF CallStep, Progress, OpenTurn, Enter, LockState, ReadConversationKey,
         LockConversation, ReadPool, LeaseWorker, SyncRemote, PrepareCloudTurn, Submit,
         Answer, Break, UpgradeLock, SaveConversation, SyncAgain, ReleaseWorker,
         ReleaseConversation, Leave, Exit, GiveUp, Crash, locals
        <5> QED BY <5>1, <5>2
      <4>3. pc[d] # "start"
        <5>1. CASE c = d
          BY <1>4, <3>2, <4>1, <5>1, CallsAssumption DEF CallStep, Progress, OpenTurn, Enter, LockState, ReadConversationKey,
         LockConversation, ReadPool, LeaseWorker, SyncRemote, PrepareCloudTurn, Submit,
         Answer, Break, UpgradeLock, SaveConversation, SyncAgain, ReleaseWorker,
         ReleaseConversation, Leave, Exit, GiveUp, Crash
        <5>2. CASE c # d
          BY <1>4, <2>0, <4>1, <5>2, OnlyItMoves
        <5> QED BY <5>1, <5>2
      <4> QED BY <1>4, <4>2, <4>3 DEF Kept
    <3>3. CASE UNCHANGED <<pc, first>>
      BY <1>4, <3>3 DEF Kept
    <3> QED BY <1>1, <3>1, <3>2, <3>3 DEF Next, CallStep, CopyState, FinishRemotely,
               vars, locals
  <2> QED BY <1>3, <2>0, <2>1, <2>2
<1> QED BY <1>4 DEF Kept

\* A call owns the lock of the conversation it wants, and its turn is one of
\* that conversation; a CLI call that wants none is a first turn.
AtKey  == {"pool", "worker", "leased", "prepare", "ready", "streaming", "answered", "saving"}
AtTurn == {"ready", "streaming", "answered", "saving"}

Keys ==
    /\ \A c \in Calls :
          /\ pc[c] \in AtKey /\ want[c] # NoConv => convOwner[want[c]] = c
          /\ pc[c] \in AtTurn => want[c] \in {NoConv, turn[c]}
    /\ \A c \in CliCalls :
          /\ pc[c] \in {"conversation", "pool", "worker", "leased"} => want[c] = file[state[c]]
          /\ pc[c] \in AtKey \cup {"conversation"} /\ want[c] = NoConv => first[c]

\* Nobody wants a conversation in the initial state.
LEMMA InitKeys == Init => Keys
BY DEF Init, Keys, AtKey, AtTurn, Calls

\* Every step keeps the conversation locks with the calls that want them.
LEMMA NextKeys ==
    ASSUME Typed, HoldsState, KnowsTurn, Kept, Keys, [Next]_vars
    PROVE  Keys'
<1> DEFINE
    Key(c) == /\ pc[c] \in AtKey /\ want[c] # NoConv => convOwner[want[c]] = c
              /\ pc[c] \in AtTurn => want[c] \in {NoConv, turn[c]}
    CliKey(c) ==
        /\ pc[c] \in {"conversation", "pool", "worker", "leased"} => want[c] = file[state[c]]
        /\ pc[c] \in AtKey \cup {"conversation"} /\ want[c] = NoConv => first[c]
<1> SUFFICES ASSUME NEW d \in Calls PROVE Key(d)' /\ (d \in CliCalls => CliKey(d)')
  BY DEF Keys, Calls
<1>0. TypeOK /\ Kinds /\ Key(d) /\ (d \in CliCalls => CliKey(d) /\ state[d] \in Files)
  BY DEF Typed, TypeOK, Keys
<1>1. want[d] # NoConv => want[d] \in Convs
  BY <1>0 DEF TypeOK
<1>2. ASSUME NEW c \in Calls, CallStep(c), d # c
      PROVE  Key(d)' /\ (d \in CliCalls => CliKey(d)')
  <2>1. pc'[d] = pc[d]
    BY <1>2, OnlyItMoves
  <2>2. state' = state /\ turn'[d] = turn[d] /\ want'[d] = want[d]
    BY <1>0, <1>2 DEF CallStep, Progress, ClassifyTurn, OpenTurn, Enter, LockState,
         ReadConversationKey, LockConversation, ReadPool, LeaseWorker, SyncRemote,
         PrepareCloudTurn, Submit, Answer, Break, UpgradeLock, SaveConversation,
         SyncAgain, ReleaseWorker, ReleaseConversation, Leave, Exit, GiveUp, Crash,
         locals, TypeOK
  <2>3. d \in CliCalls => first'[d] = first[d]
    BY <1>0, <1>2 DEF CallStep, Progress, ClassifyTurn, OpenTurn, Enter, LockState,
         ReadConversationKey, LockConversation, ReadPool, LeaseWorker, SyncRemote,
         PrepareCloudTurn, Submit, Answer, Break, UpgradeLock, SaveConversation,
         SyncAgain, ReleaseWorker, ReleaseConversation, Leave, Exit, GiveUp, Crash,
         locals, TypeOK
  <2>4. want[d] # NoConv /\ convOwner[want[d]] = d => convOwner'[want[d]] = d
    BY <1>1, <1>2, StepSparesLocks
  <2>5. d \in CliCalls /\ pc[d] \in Locked => file'[state[d]] = file[state[d]]
    BY <1>0, <1>2, StepSparesFiles DEF HoldsState
  <2>6. Key(d)'
    BY <1>0, <2>1, <2>2, <2>4
  <2>7. d \in CliCalls => CliKey(d)'
    BY <1>0, <2>1, <2>2, <2>3, <2>5 DEF Locked
  <2> QED BY <2>6, <2>7
<1>3. ASSUME CallStep(d) PROVE Key(d)' /\ (d \in CliCalls => CliKey(d)')
  <2>0. d \in GuiTurns => pc[d] \in GuiLabels
    BY <1>0 DEF Kinds
  <2>1. CASE ReadConversationKey(d)
    <3>1. d \in CliCalls
      BY <2>0, <2>1 DEF ReadConversationKey, GuiLabels, Calls
    <3>2. /\ want'[d] = file[state[d]] /\ file' = file /\ state' = state
          /\ first' = first
          /\ pc'[d] = IF want'[d] = NoConv THEN "pool" ELSE "conversation"
      BY <1>0, <2>1 DEF ReadConversationKey, Goto, TypeOK
    <3>3. want'[d] = NoConv => first[d]
      BY <2>1, <3>1, <3>2 DEF ReadConversationKey, Kept
    <3> QED BY <3>2, <3>3 DEF AtKey, AtTurn
  <2>2. CASE LockConversation(d)
    <3>1. /\ want' = want /\ file' = file /\ state' = state /\ first' = first
          /\ pc[d] = "conversation" /\ pc'[d] \in {"pool", "prepare"}
          /\ d \in CliCalls => pc'[d] = "pool"
          /\ want[d] # NoConv => convOwner'[want[d]] = d
      BY <1>0, <1>1, <2>2 DEF LockConversation, Goto, TypeOK, locals
    <3> QED BY <1>0, <3>1 DEF AtKey, AtTurn
  <2>3. CASE ReadPool(d) \/ LeaseWorker(d)
    <3>1. /\ \/ pc[d] = "pool" /\ pc'[d] = "worker"
             \/ pc[d] = "worker" /\ pc'[d] = "leased"
          /\ UNCHANGED <<want, file, state, first, convOwner>>
      <4>1. CASE ReadPool(d)
        BY <1>0, <4>1 DEF ReadPool, Goto, TypeOK, owners
      <4>2. CASE LeaseWorker(d)
        BY <1>0, <4>2 DEF LeaseWorker, Goto, TypeOK
      <4> QED BY <2>3, <4>1, <4>2
    <3> QED BY <1>0, <3>1 DEF AtKey, AtTurn
  <2>4. CASE SyncRemote(d)
    <3>1. d \in CliCalls
      BY <2>0, <2>4 DEF SyncRemote, GuiLabels, Calls
    <3>2. /\ pc[d] = "leased" /\ pc'[d] = "ready"
          /\ UNCHANGED <<want, state, first, convOwner>>
          /\ turn'[d] = file[state[d]]
      BY <1>0, <2>4 DEF SyncRemote, Goto, TypeOK, owners, Kept
    <3> QED BY <1>0, <3>1, <3>2 DEF AtKey, AtTurn
  <2>5. CASE PrepareCloudTurn(d)
    <3>1. /\ pc[d] = "prepare" /\ d \notin CliCalls
          /\ pc'[d] = "unlocking" \/ (pc'[d] = "ready" /\ turn'[d] = want[d])
          /\ UNCHANGED <<want, convOwner>>
      BY <1>0, <2>5 DEF PrepareCloudTurn, Goto, TypeOK, owners, Kinds, CliLabels
    <3> QED BY <1>0, <3>1 DEF AtKey, AtTurn
  <2>6. CASE Submit(d)
    <3>1. /\ pc[d] = "ready" /\ pc'[d] = "streaming"
          /\ UNCHANGED <<want, state, first, convOwner>>
          /\ turn[d] # NoConv => turn'[d] = turn[d]
      BY <1>0, <2>6 DEF Submit, Goto, TypeOK, owners
    <3> QED BY <1>0, <3>1 DEF AtKey, AtTurn
  <2>7. CASE Answer(d)
    <3>1. /\ pc[d] = "streaming" /\ pc'[d] \in {"answered", "unlocking"}
          /\ UNCHANGED <<want, turn, state, first, convOwner>>
      BY <1>0, <2>7 DEF Answer, Goto, TypeOK, owners, locals
    <3> QED BY <1>0, <3>1 DEF AtKey, AtTurn
  <2>8. CASE UpgradeLock(d)
    <3>1. /\ pc[d] = "answered" /\ pc'[d] = "saving"
          /\ UNCHANGED <<want, turn, state, first>>
          /\ \A k \in Convs : convOwner[k] = d => convOwner'[k] = d
      BY <1>0, <2>8 DEF UpgradeLock, Goto, TypeOK, locals
    <3> QED BY <1>0, <1>1, <3>1 DEF AtKey, AtTurn
  <2>9. CASE Enter(d)
    <3>1. d \in CliCalls => pc'[d] = "state"
      BY <1>0, <2>9 DEF Enter, Goto, TypeOK
    <3>2. d \notin CliCalls => pc'[d] = "conversation"
      BY <1>0, <2>9 DEF Enter, Goto, TypeOK
    <3> QED BY <3>1, <3>2 DEF AtKey, AtTurn
  <2>10. CASE pc'[d] \notin AtKey \cup {"conversation"}
    BY <2>10 DEF AtKey, AtTurn
  <2>11. CASE ReleaseConversation(d)
    <3>1. pc'[d] \in {"unlocking", "leaving"}
      BY <1>0, <2>11 DEF ReleaseConversation, Goto, TypeOK
    <3> QED BY <2>10, <3>1 DEF AtKey
  <2> HIDE DEF Key, CliKey
  <2>12. CASE ~(ReadConversationKey(d) \/ LockConversation(d) \/ ReadPool(d) \/ LeaseWorker(d)
                \/ SyncRemote(d) \/ PrepareCloudTurn(d) \/ Submit(d) \/ Answer(d)
                \/ UpgradeLock(d) \/ Enter(d) \/ ReleaseConversation(d))
    <3>1. pc'[d] \notin AtKey \cup {"conversation"}
      BY <1>0, <1>3, <2>12 DEF CallStep, Progress, ClassifyTurn, OpenTurn, LockState, Break,
         SaveConversation, SyncAgain, ReleaseWorker, Leave, Exit, GiveUp, Crash, Goto,
         TypeOK, AtKey
    <3> QED BY <2>10, <3>1
  <2> QED BY <2>1, <2>2, <2>3, <2>4, <2>5, <2>6, <2>7, <2>8, <2>9, <2>11, <2>12
<1>4. CASE CopyState
  <2>1. d \in CliCalls /\ stateOwner[state[d]] = d => file'[state[d]] = file[state[d]]
    BY <1>0, <1>4, CallsAssumption DEF CopyState, TypeOK, Calls
  <2>2. d \in CliCalls /\ pc[d] \in Locked => file'[state[d]] = file[state[d]]
    BY <2>1 DEF HoldsState
  <2> QED BY <1>0, <1>4, <2>2 DEF CopyState, locals, owners, Locked
<1>5. CASE LoseConversation \/ FinishRemotely \/ UNCHANGED vars
  BY <1>0, <1>5 DEF LoseConversation, FinishRemotely, vars, locals, owners
<1> HIDE DEF Key, CliKey
<1> QED BY <1>2, <1>3, <1>4, <1>5 DEF Next, CallStep

\* The inductive invariant: what depends on the ids in state files holds until
\* one is taken away.
TurnsInv ==
    /\ Typed /\ HoldsState /\ KnowsTurn /\ Admission
    /\ gone = {} => Kept /\ Keys

\* It holds in the initial state.
LEMMA InitTurnsInv == Init => TurnsInv
BY InitTyped, InitHoldsState, InitKnowsTurn, InitAdmission, InitKept, InitKeys DEF TurnsInv

\* Every step keeps it.
LEMMA NextTurnsInv == TurnsInv /\ [Next]_vars => TurnsInv'
<1> SUFFICES ASSUME TurnsInv, [Next]_vars PROVE TurnsInv'
  OBVIOUS
<1>1. (Typed /\ HoldsState /\ KnowsTurn /\ Admission)'
  BY NextTyped, NextHoldsState, NextKnowsTurn, NextAdmission DEF TurnsInv
<1>2. ASSUME gone' = {} PROVE (Kept /\ Keys)'
  <2>1. gone = {}
    BY <1>2, GoneGrows
  <2> QED BY <1>2, <2>1, NextKept, NextKeys DEF TurnsInv
<1> QED BY <1>1, <1>2 DEF TurnsInv

\* Until ChatGPT loses a conversation, two calls never run turns of the same one
\* at once, for any number of CLI calls and GUI turns, state files that are
\* copies of each other, broken streams, timeouts and crashes.
THEOREM ConversationsHaveOneTurn == Spec => []OneTurnPerConversation
<1>1. TurnsInv => OneTurnPerConversation
  <2> SUFFICES ASSUME TurnsInv, gone = {}, NEW c \in Calls, NEW d \in Calls,
                      InTurn(c), InTurn(d), turn[c] = turn[d]
               PROVE  c = d
    BY DEF OneTurnPerConversation
  <2>0. Typed /\ Admission /\ Keys
    BY DEF TurnsInv
  <2>1. /\ pc[c] \in AtKey /\ pc[c] \in AtTurn /\ mode[c] # "none"
        /\ pc[d] \in AtKey /\ pc[d] \in AtTurn /\ mode[d] # "none"
    BY <2>0 DEF InTurn, AtKey, AtTurn, Admission, Inside
  <2>2. ASSUME NEW e \in Calls, InTurn(e), want[e] = NoConv
        PROVE  mode[e] = "exclusive"
    <3>1. e \in CliCalls
      BY <2>0, <2>2, CallsAssumption DEF Typed, TypeOK, Opened, InTurn, Calls
    <3>2. first[e]
      BY <2>0, <2>2, <3>1 DEF Keys, InTurn, AtKey
    <3> QED BY <2>0, <2>2, <3>1, <3>2 DEF Admission, InTurn, Inside
  <2>3. CASE want[c] = NoConv \/ want[d] = NoConv
    BY <2>0, <2>1, <2>2, <2>3 DEF Admission
  <2>4. CASE want[c] # NoConv /\ want[d] # NoConv
    BY <2>0, <2>1, <2>4 DEF Keys
  <2> QED BY <2>3, <2>4
<1> QED BY <1>1, InitTurnsInv, NextTurnsInv, PTL DEF Spec

\* Until ChatGPT loses a conversation, calls that upgrade their locks under a
\* worker never wait for calls that wait for these workers: the owner of such a
\* lock would have to be inside with a first turn, which is alone there.
THEOREM UpgradesDoNotDeadlock == Spec => []NoUpgradeDeadlock
<1>1. TurnsInv => NoUpgradeDeadlock
  <2> SUFFICES ASSUME TurnsInv, gone = {}, UpgradeDeadlock PROVE FALSE
    BY DEF NoUpgradeDeadlock
  <2>0. Typed /\ KnowsTurn /\ Admission /\ Keys
    BY DEF TurnsInv
  <2>1. PICK c \in CliCalls : /\ pc[c] = "answered"
                             /\ \E d \in Calls \ {c} :
                                   convOwner[turn[c]] = d /\ pc[d] = "worker"
    BY DEF UpgradeDeadlock
  <2>2. PICK d \in Calls \ {c} : convOwner[turn[c]] = d /\ pc[d] = "worker"
    BY <2>1
  <2>3. c \in Calls /\ mode[d] # "none"
    BY <2>0, <2>2 DEF Admission, Inside, Calls
  <2>4. turn[c] \in created /\ turn[c] # NoConv
    BY <2>0, <2>1, CallsAssumption DEF KnowsTurn, Typed, TypeOK
  <2>5. want[c] = NoConv
    BY <2>0, <2>1, <2>2, <2>3, <2>4 DEF Keys, AtKey, AtTurn
  <2>6. mode[c] = "exclusive"
    BY <2>0, <2>1, <2>3, <2>5 DEF Keys, AtKey, Admission, Inside
  <2> QED BY <2>0, <2>2, <2>3, <2>6 DEF Admission
<1> QED BY <1>1, InitTurnsInv, NextTurnsInv, PTL DEF Spec

-----------------------------------------------------------------------------
(* The GUI spares running turns, also when conversations are lost.         *)

\* Before the turn is prepared a call has none; what it wants is what its state
\* file names, is locked, and is the conversation of its turn.
Early == {"start", "queued", "state", "reread", "conversation", "pool", "worker",
          "leased", "prepare"}

Wanted ==
    /\ \A c \in Calls :
          /\ pc[c] \in {"pool", "worker", "leased", "prepare", "ready"} /\ want[c] # NoConv =>
                convOwner[want[c]] = c
          /\ pc[c] \in Early => turn[c] = NoConv
          /\ pc[c] = "ready" => turn[c] \in {NoConv, want[c]}
    /\ \A c \in CliCalls :
          pc[c] \in {"conversation", "pool", "worker", "leased"} => want[c] = file[state[c]]

\* No call has a turn in the initial state.
LEMMA InitWanted == Init => Wanted
BY DEF Init, Wanted, Calls

\* Every step keeps turns within what their calls want.
LEMMA NextWanted ==
    ASSUME Typed, HoldsState, Wanted, [Next]_vars
    PROVE  Wanted'
<1> DEFINE
    Own(c) == /\ pc[c] \in {"pool", "worker", "leased", "prepare", "ready"} /\ want[c] # NoConv =>
                    convOwner[want[c]] = c
              /\ pc[c] \in Early => turn[c] = NoConv
              /\ pc[c] = "ready" => turn[c] \in {NoConv, want[c]}
    Read(c) == pc[c] \in {"conversation", "pool", "worker", "leased"} => want[c] = file[state[c]]
<1> SUFFICES ASSUME NEW d \in Calls PROVE Own(d)' /\ (d \in CliCalls => Read(d)')
  BY DEF Wanted, Calls
<1>0. TypeOK /\ Kinds /\ Own(d) /\ (d \in CliCalls => Read(d) /\ state[d] \in Files)
  BY DEF Typed, TypeOK, Wanted
<1>1. want[d] # NoConv => want[d] \in Convs
  BY <1>0 DEF TypeOK
<1>2. ASSUME NEW c \in Calls, CallStep(c), d # c
      PROVE  Own(d)' /\ (d \in CliCalls => Read(d)')
  <2>1. pc'[d] = pc[d]
    BY <1>2, OnlyItMoves
  <2>2. state' = state /\ turn'[d] = turn[d] /\ want'[d] = want[d]
    BY <1>0, <1>2 DEF CallStep, Progress, ClassifyTurn, OpenTurn, Enter, LockState,
         ReadConversationKey, LockConversation, ReadPool, LeaseWorker, SyncRemote,
         PrepareCloudTurn, Submit, Answer, Break, UpgradeLock, SaveConversation,
         SyncAgain, ReleaseWorker, ReleaseConversation, Leave, Exit, GiveUp, Crash,
         locals, TypeOK
  <2>3. want[d] # NoConv /\ convOwner[want[d]] = d => convOwner'[want[d]] = d
    BY <1>1, <1>2, StepSparesLocks
  <2>4. d \in CliCalls /\ pc[d] \in Locked => file'[state[d]] = file[state[d]]
    BY <1>0, <1>2, StepSparesFiles DEF HoldsState
  <2> QED BY <1>0, <2>1, <2>2, <2>3, <2>4 DEF Locked
<1>3. ASSUME CallStep(d) PROVE Own(d)' /\ (d \in CliCalls => Read(d)')
  <2>0. (d \in GuiTurns => pc[d] \in GuiLabels) /\ (d \in CliCalls => pc[d] \in CliLabels)
    BY <1>0 DEF Kinds
  <2>1. CASE ClassifyTurn(d) \/ OpenTurn(d) \/ LockState(d)
    <3>1. /\ pc[d] \in {"start", "state"} /\ pc'[d] \in {"queued", "reread"}
          /\ turn' = turn
      BY <1>0, <2>1 DEF ClassifyTurn, OpenTurn, LockState, Goto, TypeOK, locals
    <3> QED BY <1>0, <3>1 DEF Early
  <2>2. CASE Enter(d)
    <3>1. /\ pc[d] = "queued" /\ pc'[d] \in {"state", "conversation"} /\ turn' = turn
          /\ d \in CliCalls => pc'[d] = "state"
      BY <1>0, <2>2 DEF Enter, Goto, TypeOK, locals
    <3> QED BY <1>0, <3>1 DEF Early
  <2>3. CASE ReadConversationKey(d)
    <3>1. d \in CliCalls
      BY <2>0, <2>3 DEF ReadConversationKey, GuiLabels, Calls
    <3>2. /\ want'[d] = file[state[d]] /\ file' = file /\ state' = state
          /\ turn' = turn /\ pc[d] = "reread"
          /\ pc'[d] = IF want'[d] = NoConv THEN "pool" ELSE "conversation"
      BY <1>0, <2>3 DEF ReadConversationKey, Goto, TypeOK
    <3> QED BY <1>0, <3>1, <3>2 DEF Early
  <2>4. CASE LockConversation(d)
    <3>1. /\ UNCHANGED <<want, file, state, turn>>
          /\ pc[d] = "conversation" /\ pc'[d] \in {"pool", "prepare"}
          /\ d \in CliCalls => pc'[d] = "pool"
          /\ want[d] # NoConv => convOwner'[want[d]] = d
      BY <1>0, <1>1, <2>4 DEF LockConversation, Goto, TypeOK, locals
    <3> QED BY <1>0, <3>1 DEF Early
  <2>5. CASE ReadPool(d) \/ LeaseWorker(d)
    <3>1. /\ \/ pc[d] = "pool" /\ pc'[d] = "worker"
             \/ pc[d] = "worker" /\ pc'[d] = "leased"
          /\ UNCHANGED <<want, file, state, turn, convOwner>>
      <4>1. CASE ReadPool(d)
        BY <1>0, <4>1 DEF ReadPool, Goto, TypeOK, owners
      <4>2. CASE LeaseWorker(d)
        BY <1>0, <4>2 DEF LeaseWorker, Goto, TypeOK
      <4> QED BY <2>5, <4>1, <4>2
    <3> QED BY <1>0, <3>1 DEF Early
  <2>6. CASE SyncRemote(d)
    <3>1. d \in CliCalls
      BY <2>0, <2>6 DEF SyncRemote, GuiLabels, Calls
    <3>2. /\ pc[d] = "leased" /\ pc'[d] = "ready"
          /\ UNCHANGED <<want, state, convOwner>>
          /\ turn'[d] \in {turn[d], file[state[d]]}
      BY <1>0, <2>6 DEF SyncRemote, Goto, TypeOK, owners
    <3> QED BY <1>0, <3>1, <3>2 DEF Early
  <2>7. CASE PrepareCloudTurn(d)
    <3>1. /\ pc[d] = "prepare" /\ d \notin CliCalls
          /\ pc'[d] = "unlocking" \/ (pc'[d] = "ready" /\ turn'[d] = want[d])
          /\ UNCHANGED <<want, convOwner>>
      BY <1>0, <2>7 DEF PrepareCloudTurn, Goto, TypeOK, owners, Kinds, CliLabels
    <3> QED BY <1>0, <3>1 DEF Early
  <2>8. CASE pc'[d] \notin Early \cup {"ready"}
    BY <2>8 DEF Early
  <2> HIDE DEF Own, Read
  <2>9. CASE ~(ClassifyTurn(d) \/ OpenTurn(d) \/ LockState(d) \/ Enter(d)
               \/ ReadConversationKey(d) \/ LockConversation(d) \/ ReadPool(d) \/ LeaseWorker(d)
               \/ SyncRemote(d) \/ PrepareCloudTurn(d))
    <3>1. pc'[d] \notin Early \cup {"ready"}
      BY <1>0, <1>3, <2>9 DEF CallStep, Progress, Submit, Answer, Break, UpgradeLock,
         SaveConversation, SyncAgain, ReleaseWorker, ReleaseConversation, Leave, Exit,
         GiveUp, Crash, Goto, TypeOK, Early
    <3> QED BY <2>8, <3>1
  <2> QED BY <2>1, <2>2, <2>3, <2>4, <2>5, <2>6, <2>7, <2>9
<1>4. CASE CopyState
  <2>1. d \in CliCalls /\ stateOwner[state[d]] = d => file'[state[d]] = file[state[d]]
    BY <1>0, <1>4, CallsAssumption DEF CopyState, TypeOK, Calls
  <2>2. d \in CliCalls /\ pc[d] \in Locked => file'[state[d]] = file[state[d]]
    BY <2>1 DEF HoldsState
  <2> QED BY <1>0, <1>4, <2>2 DEF CopyState, locals, owners, Locked
<1>5. CASE LoseConversation \/ FinishRemotely \/ UNCHANGED vars
  BY <1>0, <1>5 DEF LoseConversation, FinishRemotely, vars, locals, owners
<1> HIDE DEF Own, Read
<1> QED BY <1>2, <1>3, <1>4, <1>5 DEF Next, CallStep

\* The conversation of a prepared GUI turn has no running turn.
Spared == \A c \in GuiTurns : pc[c] = "ready" => turn[c] # NoConv /\ turn[c] \notin running

\* No GUI turn is prepared in the initial state.
LEMMA InitSpared == Init => Spared
BY DEF Init, Spared, Calls

\* A call submits its turn to a conversation it has locked or a new one, never
\* to the one a prepared GUI turn waits for.
LEMMA NextSpared ==
    ASSUME Typed, Wanted, Spared, [Next]_vars
    PROVE  Spared'
<1> SUFFICES ASSUME NEW g \in GuiTurns, pc'[g] = "ready"
             PROVE  (turn[g] # NoConv /\ turn[g] \notin running)'
  BY DEF Spared
<1>0. TypeOK /\ Kinds /\ Opened /\ g \in Calls /\ NoConv \notin created
  BY CallsAssumption DEF Typed, TypeOK, Calls
<1>1. CASE PrepareCloudTurn(g)
  <2>1. want[g] \in created
    BY <1>0, <1>1 DEF PrepareCloudTurn, Opened
  <2>2. turn'[g] = want[g] /\ want[g] \notin running /\ running' = running
    BY <1>0, <1>1 DEF PrepareCloudTurn, Goto, TypeOK, remote
  <2> QED BY <1>0, <2>1, <2>2
<1>2. CASE ~PrepareCloudTurn(g)
  <2>1. pc[g] = "ready" /\ turn'[g] = turn[g]
    <3>1. ASSUME NEW c \in Calls, CallStep(c) PROVE pc[g] = "ready" /\ turn'[g] = turn[g]
      <4>1. CASE c = g
        <5>1. pc[g] # "leased"
          BY <1>0 DEF Kinds, GuiLabels
        <5> QED BY <1>0, <1>2, <3>1, <4>1, <5>1 DEF CallStep, Progress, ClassifyTurn,
         OpenTurn, Enter, LockState, ReadConversationKey, LockConversation,
         ReadPool, LeaseWorker, SyncRemote, Submit, Answer, Break, UpgradeLock,
         SaveConversation, SyncAgain, ReleaseWorker, ReleaseConversation, Leave, Exit,
         GiveUp, Crash, Goto, TypeOK, locals
      <4>2. CASE c # g
        <5>1. pc'[g] = pc[g]
          BY <1>0, <3>1, <4>2, OnlyItMoves
        <5>2. turn'[g] = turn[g]
          BY <1>0, <3>1, <4>2 DEF CallStep, Progress, ClassifyTurn, OpenTurn, Enter,
         LockState, ReadConversationKey, LockConversation, ReadPool, LeaseWorker, SyncRemote,
         PrepareCloudTurn, Submit, Answer, Break, UpgradeLock, SaveConversation,
         SyncAgain, ReleaseWorker, ReleaseConversation, Leave, Exit, GiveUp, Crash,
         locals, TypeOK
        <5> QED BY <5>1, <5>2
      <4> QED BY <4>1, <4>2
    <3>2. CASE UNCHANGED <<pc, turn>>
      BY <3>2
    <3> QED BY <3>1, <3>2 DEF Next, CallStep, CopyState, LoseConversation,
               FinishRemotely, vars, locals
  <2>2. turn[g] # NoConv /\ turn[g] \notin running /\ turn[g] \in created
    BY <1>0, <2>1 DEF Spared, TypeOK
  <2>3. convOwner[turn[g]] = g
    BY <1>0, <2>1, <2>2 DEF Wanted
  <2>4. ASSUME NEW c \in Calls, Submit(c) PROVE turn[g] \notin running'
    <3>1. c # g
      BY <1>0, <2>1, <2>4 DEF Submit, Goto, TypeOK
    <3>2. CASE turn[c] = NoConv
      <4>1. turn'[c] \notin created
        BY <1>0, <2>4, <3>2 DEF Submit, TypeOK
      <4> QED BY <2>2, <2>4, <4>1 DEF Submit
    <3>3. CASE turn[c] # NoConv
      <4>1. turn[c] = want[c] /\ convOwner[turn[c]] = c
        BY <2>4, <3>3 DEF Submit, Wanted
      <4>2. turn'[c] = turn[c] /\ turn[c] # turn[g]
        BY <2>3, <2>4, <3>1, <3>3, <4>1 DEF Submit
      <4> QED BY <2>2, <2>4, <4>2 DEF Submit
    <3> QED BY <3>2, <3>3
  <2>5. CASE running' \subseteq running
    BY <2>1, <2>2, <2>5
  <2>6. (\E c \in Calls : Submit(c)) \/ running' \subseteq running
    BY DEF Next, Progress, ClassifyTurn, OpenTurn, Enter, LockState,
         ReadConversationKey, LockConversation, ReadPool, LeaseWorker, SyncRemote,
         PrepareCloudTurn, Answer, Break, UpgradeLock, SaveConversation, SyncAgain,
         ReleaseWorker, ReleaseConversation, Leave, Exit, GiveUp, Crash, CopyState,
         LoseConversation, FinishRemotely, vars, remote
  <2> QED BY <2>1, <2>2, <2>4, <2>5, <2>6
<1> QED BY <1>1, <1>2

\* The GUI sends no turn into a conversation that still answers one, for any
\* number of calls and also after broken streams, crashes and lost conversations.
THEOREM RunningTurnsAreSpared == Spec => GuiSparesRunningTurns
<1> DEFINE
    IInv == Typed /\ HoldsState /\ Wanted /\ Spared
    Spares == \A c \in GuiTurns :
                 pc[c] = "ready" /\ pc'[c] = "streaming" => turn[c] \notin running
<1>1. Init => IInv
  BY InitTyped, InitHoldsState, InitWanted, InitSpared
<1>2. IInv /\ [Next]_vars => IInv'
  BY NextTyped, NextHoldsState, NextWanted, NextSpared
<1>3. IInv => [Spares]_vars
  BY DEF Spared
<1> QED BY <1>1, <1>2, <1>3, PTL DEF Spec, GuiSparesRunningTurns
=============================================================================
