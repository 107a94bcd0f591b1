-------------------------- MODULE CoordinatedCall --------------------------
(***************************************************************************)
(* One advisor call from admission to release: coordinated_call of         *)
(* advisor_concurrency.py with the part of call_compatible (advisor.py)    *)
(* that runs inside it, next to cloud turns of the browser GUI             *)
(* (advisor_gui.py).  Four kinds of resources are taken in order:          *)
(*                                                                         *)
(*   remote admission   the gate of AdmissionGate, which RemoteQueue       *)
(*                      implements                                         *)
(*   state lock         conversations/<sha of "state:" + path>             *)
(*   conversation lock  conversations/<sha of "conversation:" + id>        *)
(*   worker lock        one of the g4f workers (CLI calls only)            *)
(*                                                                         *)
(* A first turn learns its conversation id only from the answer, while it  *)
(* already holds a worker, and must then take the conversation lock: the   *)
(* order of the locks is broken there, and the exclusive admission of      *)
(* first turns is what keeps that from ending in a deadlock.               *)
(***************************************************************************)
EXTENDS Integers, FiniteSets

CONSTANTS CliCalls,    \* runs of advisor.py
          GuiTurns,    \* cloud turns of the GUI
          Files,       \* conversation state files
          Convs,       \* ChatGPT conversations that may come to exist
          Workers,     \* workers of the fixed g4f pool
          Cap,         \* remote capacity
          NoConv,      \* a state file without a conversation id
          Nobody,      \* owner of a free lock
          MaxCopies,   \* bound: state files copied by hand
          MaxGone      \* bound: conversations that become inaccessible

Calls == CliCalls \cup GuiTurns

ASSUME CallsAssumption ==
    /\ CliCalls \cap GuiTurns = {}
    /\ Nobody \notin Calls
    /\ NoConv \notin Convs
    /\ Cap \in Nat \ {0}
    /\ MaxCopies \in Nat
    /\ MaxGone \in Nat

VARIABLES
    pc,         \* where each call is
    state,      \* state file of each CLI call
    first,      \* local first_turn_exclusive
    want,       \* conversation id the call locks next
    turn,       \* remote conversation the submitted turn belongs to
    active,     \* workers a CLI call may lease
    mode,       \* the admission gate
    stateOwner, convOwner, workerOwner,
    file,       \* conversation id persisted in each state file
    created,    \* conversations that exist at ChatGPT
    gone,       \* those it no longer lets this account read
    running,    \* those in which ChatGPT is generating an answer
    copies      \* state files copied so far

locals == <<state, first, want, turn, active>>
owners == <<stateOwner, convOwner, workerOwner>>
remote == <<created, gone, running>>
vars   == <<pc, locals, mode, owners, file, remote, copies>>

\* The remote admission, at a capacity that does not change.
Gate == INSTANCE AdmissionGate WITH Callers <- Calls, steady <- TRUE

Init ==
    /\ pc = [c \in Calls |-> "start"]
    /\ state \in [CliCalls -> Files]
    /\ first = [c \in CliCalls |-> FALSE]
    /\ want = [c \in Calls |-> NoConv]
    /\ turn = [c \in Calls |-> NoConv]
    /\ active = [c \in CliCalls |-> Workers]
    /\ Gate!Init
    /\ stateOwner = [f \in Files |-> Nobody]
    /\ convOwner = [k \in Convs |-> Nobody]
    /\ workerOwner = [w \in Workers |-> Nobody]
    /\ created \in SUBSET Convs
    /\ Cardinality(Convs \ created) >= Cardinality(CliCalls)  \* each may open one
    /\ file \in [Files -> created \cup {NoConv}]
    /\ gone = {}
    /\ running = {}
    /\ copies = 0

-----------------------------------------------------------------------------

Goto(c, label) == pc' = [pc EXCEPT ![c] = label]

\* The call is over, and what it knew of conversations with it.
Exit(c) ==
    /\ Goto(c, "done")
    /\ want' = [want EXCEPT ![c] = NoConv]
    /\ turn' = [turn EXCEPT ![c] = NoConv]
    /\ UNCHANGED <<state, first, active>>

\* The conversation locks one call holds.
ConvLocks(c)  == {k \in Convs : convOwner[k] = c}

-----------------------------------------------------------------------------
(* Remote admission.                                                       *)

\* Mutant: first turns are admitted like any other.
ClassifyNoTurnAsFirst(c) ==
    /\ pc[c] = "start" /\ c \in CliCalls
    /\ first' = [first EXCEPT ![c] = FALSE]
    /\ Goto(c, "queued")
    /\ UNCHANGED <<state, want, turn, active, mode, owners, file, remote, copies>>

\* first_turn_exclusive = not state_has_conversation_id(state_path), read
\* before the call queues and never again.
ClassifyTurn(c) ==
    /\ pc[c] = "start" /\ c \in CliCalls
    /\ first' = [first EXCEPT ![c] = file[state[c]] = NoConv]
    /\ Goto(c, "queued")
    /\ UNCHANGED <<state, want, turn, active, mode, owners, file, remote, copies>>

\* A GUI turn is for a conversation of the cloud catalog.
OpenTurn(c) ==
    /\ pc[c] = "start" /\ c \in GuiTurns
    /\ \E k \in created : want' = [want EXCEPT ![c] = k]
    /\ Goto(c, "queued")
    /\ UNCHANGED <<state, first, turn, active, mode, owners, file, remote, copies>>

\* remote_call_slot(exclusive=first_turn_exclusive); the GUI never asks for
\* an exclusive slot.
Enter(c) ==
    /\ pc[c] = "queued"
    /\ IF c \in CliCalls /\ first[c] THEN Gate!EnterExclusive(c)
                                     ELSE Gate!EnterShared(c)
    /\ Goto(c, IF c \in CliCalls THEN "state" ELSE "conversation")
    /\ UNCHANGED <<locals, owners, file, remote, copies>>

-----------------------------------------------------------------------------
(* Conversation locks and worker.                                          *)

\* Mutant: the state path is not locked.
SkipStateLock(c) ==
    /\ pc[c] = "state"
    /\ Goto(c, "reread")
    /\ UNCHANGED <<locals, mode, owners, file, remote, copies>>

\* conversation_lock: lease.acquire_key("state:" + path)
LockState(c) ==
    /\ pc[c] = "state"
    /\ stateOwner[state[c]] = Nobody
    /\ stateOwner' = [stateOwner EXCEPT ![state[c]] = c]
    /\ Goto(c, "reread")
    /\ UNCHANGED <<locals, mode, convOwner, workerOwner, file, remote, copies>>

\* Mutant: the state path is the only key.
ReadStateKeyOnly(c) ==
    /\ pc[c] = "reread"
    /\ Goto(c, "pool")
    /\ UNCHANGED <<locals, mode, owners, file, remote, copies>>

\* for key in conversation_lock_keys(state_path), read under the state lock
ReadConversationKey(c) ==
    /\ pc[c] = "reread"
    /\ want' = [want EXCEPT ![c] = file[state[c]]]
    /\ Goto(c, IF want'[c] = NoConv THEN "pool" ELSE "conversation")
    /\ UNCHANGED <<state, first, turn, active, mode, owners, file, remote, copies>>

LockConversation(c) ==
    /\ pc[c] = "conversation"
    /\ convOwner[want[c]] = Nobody
    /\ convOwner' = [convOwner EXCEPT ![want[c]] = c]
    /\ Goto(c, IF c \in CliCalls THEN "pool" ELSE "prepare")
    /\ UNCHANGED <<locals, mode, stateOwner, workerOwner, file, remote, copies>>

\* worker_lease reads once, before it waits, whether the transport failures of
\* these and other calls degrade the pool to one preferred worker.
ReadPool(c) ==
    /\ pc[c] = "pool"
    /\ \E pool \in {Workers} \cup {{w} : w \in Workers} :
          active' = [active EXCEPT ![c] = pool]
    /\ Goto(c, "worker")
    /\ UNCHANGED <<state, first, want, turn, mode, owners, file, remote, copies>>

\* Any of these workers that is free.
LeaseWorker(c) ==
    /\ pc[c] = "worker"
    /\ \E w \in active[c] :
          /\ workerOwner[w] = Nobody
          /\ workerOwner' = [workerOwner EXCEPT ![w] = c]
    /\ active' = [active EXCEPT ![c] = Workers]   \* not used any more
    /\ Goto(c, "leased")
    /\ UNCHANGED <<state, first, want, turn, mode, stateOwner, convOwner, file, remote, copies>>

-----------------------------------------------------------------------------
(* The turn.                                                               *)

\* sync_remote_conversation: a conversation that is gone makes
\* remove_state_files forget it, and the call goes on as a first turn.
SyncRemote(c) ==
    /\ pc[c] = "leased"
    /\ LET k == file[state[c]] IN
       IF k \in gone
       THEN /\ file' = [file EXCEPT ![state[c]] = NoConv]
            /\ UNCHANGED turn
       ELSE /\ turn' = [turn EXCEPT ![c] = k]
            /\ UNCHANGED file
    /\ Goto(c, "ready")
    /\ UNCHANGED <<state, first, want, active, mode, owners, remote, copies>>

\* Mutant: no require_complete_conversation.
PrepareAnyTurn(c) ==
    /\ pc[c] = "prepare"
    /\ IF want[c] \in gone
       THEN Goto(c, "unlocking") /\ UNCHANGED turn
       ELSE Goto(c, "ready") /\ turn' = [turn EXCEPT ![c] = want[c]]
    /\ UNCHANGED <<state, first, want, active, mode, owners, file, remote, copies>>

\* _prepare_cloud_turn refuses a conversation whose remote turn still runs, as
\* after a call whose stream broke or whose process was killed.
PrepareCloudTurn(c) ==
    /\ pc[c] = "prepare"
    /\ IF want[c] \in running \cup gone
       THEN Goto(c, "unlocking") /\ UNCHANGED turn
       ELSE Goto(c, "ready") /\ turn' = [turn EXCEPT ![c] = want[c]]
    /\ UNCHANGED <<state, first, want, active, mode, owners, file, remote, copies>>

\* The request boundary: the POST reaches ChatGPT, which opens a new
\* conversation for a request that names none.
Submit(c) ==
    /\ pc[c] = "ready"
    /\ IF turn[c] = NoConv
       THEN \E k \in Convs \ created : /\ turn' = [turn EXCEPT ![c] = k]
                                       /\ created' = created \cup {k}
       ELSE UNCHANGED <<turn, created>>
    /\ running' = running \cup {turn'[c]}
    /\ Goto(c, "streaming")
    /\ UNCHANGED <<state, first, want, active, mode, owners, file, gone, copies>>

\* The stream ends with an answer ...
Answer(c) ==
    /\ pc[c] = "streaming"
    /\ running' = running \ {turn[c]}
    /\ Goto(c, IF c \in CliCalls THEN "answered" ELSE "unlocking")
    /\ UNCHANGED <<locals, mode, owners, file, created, gone, copies>>

\* ... or breaks, while ChatGPT may go on; no path of the code submits the
\* turn again.  The answer to a turn of a known conversation is looked for with
\* the reads of SyncAgain.
Break(c) ==
    /\ pc[c] = "streaming"
    /\ \/ c \in GuiTurns /\ Goto(c, "unlocking")
       \/ c \in CliCalls /\ Goto(c, "closing")
       \/ c \in CliCalls /\ file[state[c]] = turn[c] /\ Goto(c, "saved")
    /\ UNCHANGED <<locals, mode, owners, file, remote, copies>>

\* Mutant: save_conversation does not upgrade the lock.
SkipUpgrade(c) ==
    /\ pc[c] = "answered"
    /\ Goto(c, "saving")
    /\ UNCHANGED <<locals, mode, owners, file, remote, copies>>

\* save_conversation: upgrade_active_conversation_lock(conversation_id)
\* blocks unless the call already holds that lock ...
UpgradeLock(c) ==
    /\ pc[c] = "answered"
    /\ convOwner[turn[c]] \in {Nobody, c}
    /\ convOwner' = [convOwner EXCEPT ![turn[c]] = c]
    /\ Goto(c, "saving")
    /\ UNCHANGED <<locals, mode, stateOwner, workerOwner, file, remote, copies>>

\* ... and only then is the id written.
SaveConversation(c) ==
    /\ pc[c] = "saving"
    /\ file' = [file EXCEPT ![state[c]] = turn[c]]
    /\ Goto(c, "saved")
    /\ UNCHANGED <<locals, mode, owners, remote, copies>>

\* sync_remote_conversation once more, for the transcript of the answer.
SyncAgain(c) ==
    /\ pc[c] = "saved"
    /\ file' = [file EXCEPT ![state[c]] = IF @ \in gone THEN NoConv ELSE @]
    /\ Goto(c, "closing")
    /\ UNCHANGED <<locals, mode, owners, remote, copies>>

-----------------------------------------------------------------------------
(* Release, in the order in which the context managers unwind.             *)

ReleaseWorker(c) ==
    /\ pc[c] = "closing"
    /\ workerOwner' = [w \in Workers |-> IF workerOwner[w] = c THEN Nobody
                                                               ELSE workerOwner[w]]
    /\ Goto(c, "unlocking")
    /\ UNCHANGED <<locals, mode, stateOwner, convOwner, file, remote, copies>>

\* Mutant: a lock that was acquired by the upgrade is forgotten.
ReleaseWantedOnly(c) ==
    /\ pc[c] = "unlocking"
    /\ convOwner' = [k \in Convs |-> IF k = want[c] /\ convOwner[k] = c THEN Nobody
                                                                     ELSE convOwner[k]]
    /\ stateOwner' = [f \in Files |-> IF stateOwner[f] = c THEN Nobody ELSE stateOwner[f]]
    /\ Goto(c, "leaving")
    /\ UNCHANGED <<locals, mode, workerOwner, file, remote, copies>>

\* ConversationLockLease.release: the conversation locks first, then the
\* state lock.
ReleaseConversation(c) ==
    /\ pc[c] = "unlocking"
    /\ \/ \E k \in ConvLocks(c) :
             /\ convOwner' = [convOwner EXCEPT ![k] = Nobody]
             /\ UNCHANGED <<pc, stateOwner>>
       \/ /\ ConvLocks(c) = {}
          /\ stateOwner' = [f \in Files |-> IF stateOwner[f] = c THEN Nobody
                                                                 ELSE stateOwner[f]]
          /\ Goto(c, "leaving")
          /\ UNCHANGED convOwner
    /\ UNCHANGED <<locals, mode, workerOwner, file, remote, copies>>

Leave(c) ==
    /\ pc[c] = "leaving"
    /\ Gate!LeaveGate(c)
    /\ Exit(c)
    /\ UNCHANGED <<owners, file, remote, copies>>

\* The queue timeout of whatever the call waits for; the call unwinds.  A
\* timeout of the lock upgrade loses the id of a conversation that exists.
GiveUp(c) ==
    /\ \/ pc[c] = "queued" /\ Goto(c, "done")
       \/ pc[c] \in {"state", "conversation", "worker"} /\ Goto(c, "unlocking")
       \/ pc[c] = "answered" /\ Goto(c, "closing")
    /\ UNCHANGED <<locals, mode, owners, file, remote, copies>>

\* The process is killed; every lock it holds is an OS lock.
Crash(c) ==
    /\ pc[c] \notin {"start", "done"}
    /\ Exit(c)
    /\ mode' = [mode EXCEPT ![c] = "none"]
    /\ stateOwner' = [f \in Files |-> IF stateOwner[f] = c THEN Nobody ELSE stateOwner[f]]
    /\ convOwner' = [k \in Convs |-> IF convOwner[k] = c THEN Nobody ELSE convOwner[k]]
    /\ workerOwner' = [w \in Workers |-> IF workerOwner[w] = c THEN Nobody
                                                               ELSE workerOwner[w]]
    /\ UNCHANGED <<file, remote, copies>>

-----------------------------------------------------------------------------
(* The environment.                                                        *)

\* Somebody copies the state of a conversation to a role that has none.
CopyState ==
    /\ copies < MaxCopies
    /\ copies' = copies + 1
    /\ \E f \in Files, k \in created :
          /\ file[f] = NoConv /\ stateOwner[f] = Nobody
          /\ file' = [file EXCEPT ![f] = k]
    /\ UNCHANGED <<pc, locals, mode, owners, remote>>

\* ChatGPT answers 404 or 410 for a conversation from now on.
LoseConversation ==
    /\ Cardinality(gone) < MaxGone
    /\ \E k \in created \ gone : gone' = gone \cup {k}
    /\ UNCHANGED <<pc, locals, mode, owners, file, created, running, copies>>

\* ChatGPT ends a turn whose stream broke.
FinishRemotely ==
    /\ \E k \in running :
          /\ \A c \in Calls : ~(pc[c] = "streaming" /\ turn[c] = k)
          /\ running' = running \ {k}
    /\ UNCHANGED <<pc, locals, mode, owners, file, created, gone, copies>>

-----------------------------------------------------------------------------

Progress(c) ==
    \/ ClassifyTurn(c) \/ OpenTurn(c) \/ Enter(c) \/ LockState(c)
    \/ ReadConversationKey(c) \/ LockConversation(c) \/ ReadPool(c) \/ LeaseWorker(c)
    \/ SyncRemote(c) \/ PrepareCloudTurn(c) \/ Submit(c) \/ Answer(c) \/ Break(c)
    \/ UpgradeLock(c) \/ SaveConversation(c) \/ SyncAgain(c) \/ ReleaseWorker(c)
    \/ ReleaseConversation(c) \/ Leave(c)

Next == \/ \E c \in Calls : Progress(c) \/ GiveUp(c) \/ Crash(c)
        \/ CopyState \/ LoseConversation \/ FinishRemotely

Spec == Init /\ [][Next]_vars

\* A live call goes on as soon as what it waits for is free, and a remote
\* turn ends.  No timeout is assumed: ADVISOR_QUEUE_TIMEOUT may be 0.
FairSpec == Spec /\ \A c \in Calls : WF_vars(Progress(c))

-----------------------------------------------------------------------------
(* What the coordination is for.                                           *)

\* Types; a turn or a state file names only conversations that exist.
TypeOK ==
    /\ pc \in [Calls -> {"start", "queued", "state", "reread", "conversation",
                         "pool", "worker", "leased", "prepare", "ready", "streaming",
                         "answered", "saving", "saved", "closing", "unlocking",
                         "leaving", "done"}]
    /\ state \in [CliCalls -> Files]
    /\ first \in [CliCalls -> BOOLEAN]
    /\ want \in [Calls -> Convs \cup {NoConv}]
    /\ turn \in [Calls -> created \cup {NoConv}]
    /\ active \in [CliCalls -> SUBSET Workers]
    /\ mode \in [Calls -> {"none", "shared", "exclusive"}]
    /\ stateOwner \in [Files -> Calls \cup {Nobody}]
    /\ convOwner \in [Convs -> Calls \cup {Nobody}]
    /\ workerOwner \in [Workers -> Calls \cup {Nobody}]
    /\ file \in [Files -> created \cup {NoConv}]
    /\ created \subseteq Convs
    /\ gone \subseteq created
    /\ running \subseteq created
    /\ copies \in 0 .. MaxCopies

\* A call whose turn is submitted and not yet recorded.
InTurn(c) == pc[c] \in {"streaming", "answered", "saving"}

\* Until ChatGPT loses a conversation, two calls never run turns of the same one
\* at once, whether they come from one state file, from a copy of it or from the
\* GUI, and also while a first turn does not know yet which one it created.
OneTurnPerConversation ==
    gone = {} =>
      \A c, d \in Calls : InTurn(c) /\ InTurn(d) /\ turn[c] = turn[d] => c = d

\* Two calls of one state file never run turns at once, so no second
\* conversation is opened while the first one is being recorded.
OneTurnPerStateFile ==
    \A c, d \in CliCalls : InTurn(c) /\ InTurn(d) /\ state[c] = state[d] => c = d

\* The GUI sends no turn into a conversation in which ChatGPT still answers the
\* turn of an earlier call, not even when that call lost its stream or died.
GuiSparesRunningTurns ==
    [][\A c \in GuiTurns :
          pc[c] = "ready" /\ pc'[c] = "streaming" => turn[c] \notin running]_vars

\* Calls that must upgrade their locks wait for calls that wait for workers, all
\* of which they hold.
UpgradeDeadlock ==
    \E B \in SUBSET CliCalls :
        /\ B # {}
        /\ \A c \in B :
              /\ pc[c] = "answered"
              /\ \E d \in Calls \ {c} :
                    /\ convOwner[turn[c]] = d /\ pc[d] = "worker"
                    /\ \A w \in active[d] : workerOwner[w] \in B

\* Calls deadlock over the upgrade of a lock only after ChatGPT lost a
\* conversation: a call admitted as shared then opens one.
NoUpgradeDeadlock == UpgradeDeadlock => gone # {}

\* The id of a finished turn is written while both the state lock and the lock
\* of that conversation are held, and it never replaces the id of another
\* conversation that another call recorded meanwhile.
SavedUnderBothLocks ==
    [][\A f \in Files :
          file'[f] # file[f] /\ file'[f] # NoConv /\ copies' = copies =>
             /\ stateOwner[f] # Nobody
             /\ convOwner[file'[f]] = stateOwner[f]
             /\ file[f] = NoConv]_vars

\* Whatever they contend for, the admission, a state file, a conversation or the
\* last worker, calls end without the help of a timeout, unless the deadlock of
\* an upgrade comes to stay: nothing else makes calls wait for ever.
EveryCallEnds ==
    []<>~UpgradeDeadlock => \A c \in Calls : pc[c] = "queued" ~> pc[c] = "done"
=============================================================================
