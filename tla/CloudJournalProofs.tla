------------------------ MODULE CloudJournalProofs -------------------------
(***************************************************************************)
(* Theorems about the submission journal, for any numbers of cloud turns,  *)
(* tabs and turns made elsewhere.                                          *)
(***************************************************************************)
EXTENDS CloudJournal, TLAPS

\* One step of a request of the GUI.
Step(p) == Turn(p) \/ Refresh(p) \/ GiveUp(p) \/ Unlock(p) \/ ShowToken(p) \/ Adopt(p)

\* One step of ChatGPT or of another tab.
Elsewhere(t) == ChatGPT(t) \/ PostOutside(t)

-----------------------------------------------------------------------------
(* Types.                                                                  *)

\* The initial states are well typed.
LEMMA InitTypeOK == Init => TypeOK
<1> SUFFICES ASSUME Init PROVE TypeOK
  OBVIOUS
<1>1. message \in ReplyNodes \cup {NoNode} /\ current \in shown /\ shown \subseteq Nodes
  BY DEF Init, ReplyNodes, Root, Nodes
<1>2. /\ pc \in [Procs -> {"idle", "prepare", "fetch", "prepared", "journaled",
                         "bound", "streaming", "streamed", "collected", "status",
                         "history", "update", "clear", "recheck", "read", "adopt",
                         "unlock", "done"}]
      /\ got \in [Procs -> ReplyNodes \cup {NoNode}]
      /\ token \in [Adopters -> Sends \cup {Nobody}]
  BY DEF Init
<1>3. /\ text \in [Turns -> Texts]
      /\ phase \in [Turns -> {"none", "inflight", "lost", "running", "complete"}]
      /\ reply \in [Turns -> {"none", "answer", "tool", "silent"}]
      /\ parent \in [Turns -> ReplyNodes \cup {NoNode}]
  BY DEF Init
<1> QED BY <1>1, <1>2, <1>3 DEF Init, TypeOK

\* A request keeps everything well typed.
LEMMA StepTypeOK ==
    ASSUME TypeOK, NEW p \in Procs, Step(p)
    PROVE  TypeOK'
<1>1. pc' \in [Procs -> {"idle", "prepare", "fetch", "prepared", "journaled",
                         "bound", "streaming", "streamed", "collected", "status",
                         "history", "update", "clear", "recheck", "read", "adopt",
                         "unlock", "done"}]
  BY DEF Step, Turn, Refresh, Adopt, LockForTurn, CheckComplete, FetchParent,
         BeginSubmission, BindUserMessage, Post, StreamState, CollectResult,
         CompleteSubmission, LockForRefresh, ReadStatus, ReadHistory,
         UpdateRemoteState, ClearAfterRefresh, LockForAdoption, RecheckJournal,
         ReadBranch, AdoptBranch, ShowToken, GiveUp, Unlock, TypeOK, Goto
<1>2. lock' \in Procs \cup {Nobody}
  BY DEF Step, Turn, Refresh, Adopt, LockForTurn, CheckComplete, FetchParent,
         BeginSubmission, BindUserMessage, Post, StreamState, CollectResult,
         CompleteSubmission, LockForRefresh, ReadStatus, ReadHistory,
         UpdateRemoteState, ClearAfterRefresh, LockForAdoption, RecheckJournal,
         ReadBranch, AdoptBranch, ShowToken, GiveUp, Unlock, TypeOK, Lock
<1>3. got' \in [Procs -> ReplyNodes \cup {NoNode}]
  BY DEF Step, Turn, Refresh, Adopt, LockForTurn, CheckComplete, FetchParent,
         BeginSubmission, BindUserMessage, Post, StreamState, CollectResult,
         CompleteSubmission, LockForRefresh, ReadStatus, ReadHistory,
         UpdateRemoteState, ClearAfterRefresh, LockForAdoption, RecheckJournal,
         ReadBranch, AdoptBranch, ShowToken, GiveUp, Unlock, TypeOK, ReadState,
         Continuable, tab
<1>4. message' \in ReplyNodes \cup {NoNode}
  <2>1. p \in Sends => ReplyNode(p) \in ReplyNodes
    BY DEF ReplyNodes, Turns
  <2> QED BY <2>1 DEF Step, Turn, Refresh, Adopt, LockForTurn, CheckComplete, FetchParent,
         BeginSubmission, BindUserMessage, Post, StreamState, CollectResult,
         CompleteSubmission, LockForRefresh, ReadStatus, ReadHistory,
         UpdateRemoteState, ClearAfterRefresh, LockForAdoption, RecheckJournal,
         ReadBranch, AdoptBranch, ShowToken, GiveUp, Unlock, TypeOK, ReadState,
         Continuable, record
<1>5. /\ journal' \in Sends \cup {Nobody}
      /\ bound' \in BOOLEAN
      /\ overdue' \in BOOLEAN
  BY DEF Step, Turn, Refresh, Adopt, LockForTurn, CheckComplete, FetchParent,
         BeginSubmission, BindUserMessage, Post, StreamState, CollectResult,
         CompleteSubmission, LockForRefresh, ReadStatus, ReadHistory,
         UpdateRemoteState, ClearAfterRefresh, LockForAdoption, RecheckJournal,
         ReadBranch, AdoptBranch, ShowToken, GiveUp, Unlock, TypeOK, ClearJournal,
         record
<1>6. prior' \in ReplyNodes \cup {NoNode}
  BY DEF Step, Turn, Refresh, Adopt, LockForTurn, CheckComplete, FetchParent,
         BeginSubmission, BindUserMessage, Post, StreamState, CollectResult,
         CompleteSubmission, LockForRefresh, ReadStatus, ReadHistory,
         UpdateRemoteState, ClearAfterRefresh, LockForAdoption, RecheckJournal,
         ReadBranch, AdoptBranch, ShowToken, GiveUp, Unlock, TypeOK, ClearJournal,
         record
<1>7. archived' \subseteq Sends
  BY DEF Step, Turn, Refresh, Adopt, LockForTurn, CheckComplete, FetchParent,
         BeginSubmission, BindUserMessage, Post, StreamState, CollectResult,
         CompleteSubmission, LockForRefresh, ReadStatus, ReadHistory,
         UpdateRemoteState, ClearAfterRefresh, LockForAdoption, RecheckJournal,
         ReadBranch, AdoptBranch, ShowToken, GiveUp, Unlock, TypeOK,
         TokenIsCurrent, record
<1>8. token' \in [Adopters -> Sends \cup {Nobody}]
  BY DEF Step, Turn, Refresh, Adopt, LockForTurn, CheckComplete, FetchParent,
         BeginSubmission, BindUserMessage, Post, StreamState, CollectResult,
         CompleteSubmission, LockForRefresh, ReadStatus, ReadHistory,
         UpdateRemoteState, ClearAfterRefresh, LockForAdoption, RecheckJournal,
         ReadBranch, AdoptBranch, ShowToken, GiveUp, Unlock, TypeOK, tab
<1>9. /\ phase' \in [Turns -> {"none", "inflight", "lost", "running", "complete"}]
      /\ parent' \in [Turns -> ReplyNodes \cup {NoNode}]
      /\ UNCHANGED <<text, reply, shown, current>>
  BY DEF Step, Turn, Refresh, Adopt, LockForTurn, CheckComplete, FetchParent,
         BeginSubmission, BindUserMessage, Post, StreamState, CollectResult,
         CompleteSubmission, LockForRefresh, ReadStatus, ReadHistory,
         UpdateRemoteState, ClearAfterRefresh, LockForAdoption, RecheckJournal,
         ReadBranch, AdoptBranch, ShowToken, GiveUp, Unlock, TypeOK, cloud
<1> QED BY <1>1, <1>2, <1>3, <1>4, <1>5, <1>6, <1>7, <1>8, <1>9 DEF TypeOK

\* So does ChatGPT.
LEMMA ElsewhereTypeOK ==
    ASSUME TypeOK, NEW t \in Turns, Elsewhere(t)
    PROVE  TypeOK'
<1>1. UNCHANGED <<pc, lock, record, tab, text>>
  BY DEF Elsewhere, ChatGPT, Accept, Complete, Show, PostOutside
<1>2. /\ phase' \in [Turns -> {"none", "inflight", "lost", "running", "complete"}]
      /\ reply' \in [Turns -> {"none", "answer", "tool", "silent"}]
  BY DEF Elsewhere, ChatGPT, Accept, Complete, Show, PostOutside, TypeOK
<1>3. parent' \in [Turns -> ReplyNodes \cup {NoNode}]
  BY DEF Elsewhere, ChatGPT, Accept, Complete, Show, PostOutside, TypeOK
<1>4. shown' \subseteq Nodes /\ current' \in shown'
  <2>1. UserNode(t) \in Nodes /\ ReplyNode(t) \in Nodes
    BY DEF Nodes, ReplyNodes
  <2> QED BY <2>1 DEF Elsewhere, ChatGPT, Accept, Complete, Show, PostOutside, TypeOK
<1> QED BY <1>1, <1>2, <1>3, <1>4 DEF TypeOK, record, tab

\* And so does every step.
LEMMA NextTypeOK == TypeOK /\ [Next]_vars => TypeOK'
<1> SUFFICES ASSUME TypeOK, [Next]_vars PROVE TypeOK'
  OBVIOUS
<1>1. CASE \E p \in Procs : Step(p)
  BY <1>1, StepTypeOK
<1>2. CASE \E t \in Turns : Elsewhere(t)
  BY <1>2, ElsewhereTypeOK
<1>3. CASE JournalAges
  BY <1>3 DEF JournalAges, TypeOK, tab, cloud
<1>4. CASE Crash
  BY <1>4 DEF Crash, TypeOK, record, cloud
<1>5. CASE UNCHANGED vars
  BY <1>5 DEF vars, TypeOK, record, tab, cloud
<1> QED BY <1>1, <1>2, <1>3, <1>4, <1>5 DEF Next, Step, Elsewhere

\* Every variable keeps its type; what a turn continues, or is to continue, is a
\* reply and never an unanswered message.
THEOREM TypeCorrect == Spec => []TypeOK
BY InitTypeOK, NextTypeOK, PTL DEF Spec

-----------------------------------------------------------------------------
(* The lock of the conversation.                                           *)

LockHeld == \A p \in Procs : pc[p] \notin {"idle", "done"} => lock = p

\* Every request is idle in the initial state.
LEMMA InitLockHeld == Init => LockHeld
BY DEF Init, LockHeld

\* A step of a request moves no other one, and but for the display of a token
\* it is the only request that is on its way.
LEMMA StepIsAlone ==
    ASSUME TypeOK, LockHeld, NEW p \in Procs, Step(p), NEW q \in Procs, q # p
    PROVE  /\ pc'[q] = pc[q]
           /\ pc[q] \in {"idle", "done"} \/ ShowToken(p)
<1>0. p # Nobody /\ q # Nobody
  BY JournalAssumption DEF Procs
<1>1. pc'[q] = pc[q]
  BY DEF Step, Turn, Refresh, Adopt, LockForTurn, CheckComplete, FetchParent,
         BeginSubmission, BindUserMessage, Post, StreamState, CollectResult,
         CompleteSubmission, LockForRefresh, ReadStatus, ReadHistory,
         UpdateRemoteState, ClearAfterRefresh, LockForAdoption, RecheckJournal,
         ReadBranch, AdoptBranch, ShowToken, GiveUp, Unlock, Goto, TypeOK
<1>2. lock = Nobody \/ lock = p \/ ShowToken(p)
  BY DEF Step, Turn, Refresh, Adopt, LockForTurn, CheckComplete, FetchParent,
         BeginSubmission, BindUserMessage, Post, StreamState, CollectResult,
         CompleteSubmission, LockForRefresh, ReadStatus, ReadHistory,
         UpdateRemoteState, ClearAfterRefresh, LockForAdoption, RecheckJournal,
         ReadBranch, AdoptBranch, GiveUp, Unlock, Lock, LockHeld
<1> QED BY <1>0, <1>1, <1>2 DEF LockHeld

\* Every step keeps the lock with the request on its way.
LEMMA NextLockHeld ==
    ASSUME TypeOK, LockHeld, [Next]_vars
    PROVE  LockHeld'
<1>1. ASSUME NEW p \in Procs, Step(p) PROVE LockHeld'
  <2>1. \A q \in Procs \ {p} : pc'[q] = pc[q] /\ (pc[q] \in {"idle", "done"} \/ ShowToken(p))
    BY <1>1, StepIsAlone
  <2>2. pc'[p] \notin {"idle", "done"} => lock' = p
    BY <1>1 DEF Step, Turn, Refresh, Adopt, LockForTurn, CheckComplete, FetchParent,
         BeginSubmission, BindUserMessage, Post, StreamState, CollectResult,
         CompleteSubmission, LockForRefresh, ReadStatus, ReadHistory,
         UpdateRemoteState, ClearAfterRefresh, LockForAdoption, RecheckJournal,
         ReadBranch, AdoptBranch, ShowToken, GiveUp, Unlock, Goto, TypeOK, Lock,
         LockHeld
  <2>3. ShowToken(p) => UNCHANGED <<pc, lock>>
    BY DEF ShowToken
  <2> QED BY <2>1, <2>2, <2>3 DEF LockHeld
<1>2. CASE UNCHANGED <<pc, lock>>
  BY <1>2 DEF LockHeld
<1>3. CASE Crash
  BY <1>3 DEF Crash, LockHeld
<1> QED BY <1>1, <1>2, <1>3 DEF Next, Step, ChatGPT, Accept, Complete, Show, PostOutside,
           JournalAges, vars

-----------------------------------------------------------------------------
(* What ChatGPT has, and what the requests know of it.                     *)

\* A turn continues a message of the history and is shown after it was posted;
\* the current node never goes back to the message that a shown turn continues.
History ==
    /\ \A t \in Turns : /\ Posted(t) => parent[t] \in shown
                        /\ UserNode(t) \in shown => Posted(t) /\ current # parent[t]
                        /\ ReplyNode(t) \in shown => UserNode(t) \in shown
    /\ \A p \in Procs : got[p] \in shown \cup {NoNode}

Fetched   == {"prepared", "journaled", "bound"}
Unposted  == {"idle", "prepare", "fetch"} \cup Fetched
Begun     == {"journaled", "bound", "streaming", "streamed", "collected"}
Resolving == {"update", "clear", "collected"}

\* No POST that is still to be accounted for continues the message got[t].
Unforked(t) == \A d \in Sends : Posted(d) => got[t] # parent[d] \/ d \in archived

\* What a cloud turn relies on at each of its steps.
Requests ==
    \A t \in Sends :
       /\ pc[t] = "fetch" => journal = Nobody
       /\ pc[t] \in Unposted => ~Posted(t)
       /\ pc[t] \in Fetched => got[t] \in shown /\ Unforked(t)
       /\ pc[t] \in Begun => journal = t
       /\ pc[t] \in Begun \ {"journaled"} => bound

\* The journal stands for every POST that was neither seen nor given up.
Accounted ==
    \A d \in Sends :
       Posted(d) => (journal = d /\ bound) \/ UserNode(d) \in shown \/ d \in archived

\* A request about to clear a bound journal has seen its turn.
Seen ==
    \A p \in Procs : pc[p] \in Resolving /\ journal # Nobody /\ bound =>
                        UserNode(journal) \in shown

JournalInv == TypeOK /\ LockHeld /\ History /\ Requests /\ Accounted /\ Seen /\ NoForks

\* The turns of the active branch are in the history: those in the history are
\* closed under the turn that each continues.
LEMMA ActiveBranchIsShown ==
    ASSUME TypeOK, History, NEW t \in ActiveBranch
    PROVE  t \in Turns /\ UserNode(t) \in shown
<1> DEFINE S == {u \in Turns : UserNode(u) \in shown}
<1>1. \A n \in shown : n[1] \in S \cup {Nobody}
  <2> SUFFICES ASSUME NEW n \in shown PROVE n[1] \in S \cup {Nobody}
    OBVIOUS
  <2>1. CASE \E u \in Turns : n = UserNode(u)
    BY <2>1 DEF UserNode
  <2>2. CASE \E u \in Turns : n = ReplyNode(u)
    BY <2>2 DEF ReplyNode, History
  <2>3. CASE n = ReplyNode(Nobody)
    BY <2>3 DEF ReplyNode
  <2> QED BY <2>1, <2>2, <2>3 DEF TypeOK, Nodes, ReplyNodes
<1>2. current[1] \in S \cup {Nobody}
  BY <1>1 DEF TypeOK
<1>3. \A u \in S : parent[u][1] \in S \cup {Nobody}
  BY <1>1 DEF History
<1>4. S \in SUBSET Turns
  OBVIOUS
<1>5. t \in Turns /\ t \in S
  BY <1>2, <1>3, <1>4 DEF ActiveBranch
<1> QED BY <1>5

\* The initial states satisfy the invariant: nothing was posted.
LEMMA InitJournalInv == Init => JournalInv
<1> SUFFICES ASSUME Init PROVE JournalInv
  OBVIOUS
<1>1. TypeOK /\ LockHeld
  BY InitTypeOK, InitLockHeld
<1>2. /\ \A t \in Turns : ~Posted(t) /\ UserNode(t) \notin shown /\ ReplyNode(t) \notin shown
      /\ \A p \in Procs : got[p] = NoNode /\ pc[p] = "idle"
  BY JournalAssumption DEF Init, Posted, UserNode, ReplyNode, Root, Turns
<1>3. History
  BY <1>2 DEF History
<1>4. \A t \in Sends : t \in Turns /\ t \in Procs
  BY DEF Turns, Procs
<1>5. Requests
  BY <1>2, <1>4 DEF Requests, Fetched, Begun
<1>6. Accounted /\ NoForks /\ Seen
  BY <1>2, <1>4 DEF Accounted, NoForks, Seen, Resolving
<1> QED BY <1>1, <1>3, <1>5, <1>6 DEF JournalInv

-----------------------------------------------------------------------------
(* Steps of the requests.                                                  *)

\* Only its own request posts a turn, and continues what it has fetched.
LEMMA OnlyPostPosts ==
    ASSUME TypeOK, NEW p \in Procs, Step(p)
    PROVE  /\ UNCHANGED <<shown, current>>
           /\ Post(p) \/ UNCHANGED <<phase, parent>>
           /\ archived \subseteq archived'
BY DEF Step, Turn, Refresh, Adopt, LockForTurn, CheckComplete, FetchParent,
         BeginSubmission, BindUserMessage, Post, StreamState, CollectResult,
         CompleteSubmission, LockForRefresh, ReadStatus, ReadHistory,
         UpdateRemoteState, ClearAfterRefresh, LockForAdoption, RecheckJournal,
         ReadBranch, AdoptBranch, ShowToken, GiveUp, Unlock, record, cloud

\* Every step of a request keeps the history sound.
LEMMA StepHistory ==
    ASSUME TypeOK, History, Requests, NEW p \in Procs, Step(p)
    PROVE  History'
<1>1. UNCHANGED <<shown, current>> /\ (Post(p) \/ UNCHANGED <<phase, parent>>)
  BY OnlyPostPosts
<1>2. \A q \in Procs : got'[q] \in shown \cup {NoNode}
  BY DEF Step, Turn, Refresh, Adopt, LockForTurn, CheckComplete, FetchParent,
         BeginSubmission, BindUserMessage, Post, StreamState, CollectResult,
         CompleteSubmission, LockForRefresh, ReadStatus, ReadHistory,
         UpdateRemoteState, ClearAfterRefresh, LockForAdoption, RecheckJournal,
         ReadBranch, AdoptBranch, ShowToken, GiveUp, Unlock, History, TypeOK,
         ReadState, tab
<1>3. CASE UNCHANGED <<phase, parent>>
  BY <1>1, <1>2, <1>3 DEF History, Posted
<1>4. CASE Post(p)
  <2>1. p \in Sends /\ p \in Turns /\ pc[p] = "bound"
    BY <1>4 DEF Post, Turns
  <2>2. ~Posted(p) /\ got[p] \in shown
    BY <2>1 DEF Requests, Unposted, Fetched
  <2>3. \A t \in Turns : t # p => phase'[t] = phase[t] /\ parent'[t] = parent[t]
    BY <1>4 DEF Post, TypeOK
  <2>4. Posted(p)' /\ parent'[p] = got[p]
    BY <1>4, <2>1 DEF Post, TypeOK, Posted
  <2> QED BY <1>1, <1>2, <2>1, <2>2, <2>3, <2>4 DEF History, Posted
<1> QED BY <1>1, <1>3, <1>4

\* A request that reads its result has seen the turn of a bound journal.
LEMMA EvidenceIsSeen ==
    ASSUME TypeOK, History, Evidence, bound
    PROVE  UserNode(journal) \in shown
<1>1. PICK t \in ActiveBranch : t = journal
  BY DEF Evidence
<1> QED BY <1>1, ActiveBranchIsShown

\* Every step of a request leaves each cloud turn what it relies on.
LEMMA StepRequests ==
    ASSUME TypeOK, LockHeld, History, Requests, Accounted,
           NEW p \in Procs, Step(p), ~ShowToken(p)
    PROVE  Requests'
<1> USE DEF Fetched, Unposted, Begun
<1>1. \A q \in Procs : q # p => pc'[q] = pc[q] /\ pc[q] \in {"idle", "done"}
  BY StepIsAlone
<1>2. \A t \in Sends : t \in Turns /\ t \in Procs
  BY DEF Turns, Procs
<1>3. \A t \in Sends : t # p => phase'[t] = phase[t] /\ parent'[t] = parent[t]
  BY OnlyPostPosts, <1>2 DEF Post, TypeOK
<1>4. \A t \in Sends : t # p =>
         /\ pc'[t] \in {"idle", "done"}
         /\ pc'[t] \in Unposted => ~Posted(t)'
  BY <1>1, <1>2, <1>3 DEF Requests, Posted
<1>5. ASSUME p \in Sends PROVE pc'[p] = "fetch" => journal' = Nobody
  BY <1>5 DEF Step, Turn, Refresh, Adopt, LockForTurn, CheckComplete, FetchParent,
         BeginSubmission, BindUserMessage, Post, StreamState, CollectResult,
         CompleteSubmission, LockForRefresh, ReadStatus, ReadHistory,
         UpdateRemoteState, ClearAfterRefresh, LockForAdoption, RecheckJournal,
         ReadBranch, AdoptBranch, ShowToken, GiveUp, Unlock, TypeOK, Goto, record
<1>6. ASSUME p \in Sends PROVE pc'[p] \in Unposted => ~Posted(p)'
  <2>1. CASE Post(p)
    BY <2>1 DEF Post, Goto, TypeOK
  <2>2. CASE ~Post(p)
    <3>1. phase' = phase
      BY <2>2, OnlyPostPosts
    <3>2. pc'[p] \in Unposted => pc[p] \in Unposted
      <4>1. p \notin Refreshes \cup Adopters
        BY <1>6, JournalAssumption
      <4>2. CASE Turn(p)
        BY <2>2, <4>2 DEF Turn, LockForTurn, CheckComplete, FetchParent,
                          BeginSubmission, BindUserMessage, StreamState,
                          CollectResult, CompleteSubmission, TypeOK, Goto
      <4>3. CASE GiveUp(p) \/ Unlock(p)
        BY <1>6, <4>3 DEF GiveUp, Unlock, TypeOK, Goto
      <4> QED BY <4>1, <4>2, <4>3 DEF Step, Refresh, Adopt, ShowToken,
                 LockForRefresh, ReadStatus, ReadHistory, UpdateRemoteState,
                 ClearAfterRefresh, LockForAdoption, RecheckJournal, ReadBranch,
                 AdoptBranch
    <3> QED BY <1>6, <3>1, <3>2 DEF Requests, Posted
  <2> QED BY <2>1, <2>2
<1>7. ASSUME p \in Sends, pc'[p] \in Fetched PROVE got'[p] \in shown' /\ Unforked(p)'
  <2>1. CASE FetchParent(p)
    <3>1. got'[p] = current /\ journal = Nobody /\ UNCHANGED <<phase, parent, archived, shown>>
      BY <1>7, <2>1 DEF FetchParent, ReadState, Requests, cloud, TypeOK
    <3>2. \A d \in Sends : Posted(d) => UserNode(d) \in shown \/ d \in archived
      BY <3>1, JournalAssumption DEF Accounted, Procs
    <3>3. \A d \in Sends : Posted(d) => current # parent[d] \/ d \in archived
      BY <1>2, <3>2 DEF History
    <3> QED BY <3>1, <3>3 DEF Unforked, Posted, TypeOK
  <2>2. CASE ~FetchParent(p)
    <3>1. pc[p] \in Fetched /\ ~Post(p) /\ got'[p] = got[p]
      BY <1>7, <2>2 DEF Step, Turn, Refresh, Adopt, LockForTurn, CheckComplete,
         BeginSubmission, BindUserMessage, Post, StreamState, CollectResult,
         CompleteSubmission, LockForRefresh, ReadStatus, ReadHistory,
         UpdateRemoteState, ClearAfterRefresh, LockForAdoption, RecheckJournal,
         ReadBranch, AdoptBranch, ShowToken, GiveUp, Unlock, TypeOK, Goto, tab,
         Procs
    <3>2. UNCHANGED <<phase, parent, shown>> /\ archived \subseteq archived'
      BY <3>1, OnlyPostPosts
    <3> QED BY <1>7, <3>1, <3>2 DEF Requests, Unforked, Posted
  <2> QED BY <2>1, <2>2
<1>8. ASSUME p \in Sends PROVE pc'[p] \in Begun => journal' = p
  BY <1>8 DEF Step, Turn, Refresh, Adopt, LockForTurn, CheckComplete, FetchParent,
         BeginSubmission, BindUserMessage, Post, StreamState, CollectResult,
         CompleteSubmission, LockForRefresh, ReadStatus, ReadHistory,
         UpdateRemoteState, ClearAfterRefresh, LockForAdoption, RecheckJournal,
         ReadBranch, AdoptBranch, ShowToken, GiveUp, Unlock, TypeOK, Goto, record,
         Requests
<1>9. ASSUME p \in Sends PROVE pc'[p] \in Begun \ {"journaled"} => bound' = TRUE
  BY <1>9 DEF Step, Turn, Refresh, Adopt, LockForTurn, CheckComplete, FetchParent,
         BeginSubmission, BindUserMessage, Post, StreamState, CollectResult,
         CompleteSubmission, LockForRefresh, ReadStatus, ReadHistory,
         UpdateRemoteState, ClearAfterRefresh, LockForAdoption, RecheckJournal,
         ReadBranch, AdoptBranch, ShowToken, GiveUp, Unlock, TypeOK, Goto, record,
         Requests
<1> HIDE DEF Fetched, Unposted, Begun
<1>10. \A t \in Sends : t # p => pc'[t] \notin Fetched \cup Begun \cup {"fetch"}
  BY <1>4 DEF Fetched, Begun
<1> QED BY <1>4, <1>5, <1>6, <1>7, <1>8, <1>9, <1>10 DEF Requests

\* Every POST stays accounted for: a journal is dropped for a turn that was seen,
\* given up, or never posted.
LEMMA StepAccounted ==
    ASSUME TypeOK, LockHeld, Requests, Accounted, Seen,
           NEW p \in Procs, Step(p), ~ShowToken(p)
    PROVE  Accounted'
<1> SUFFICES ASSUME NEW d \in Sends, Posted(d)'
             PROVE  (journal' = d /\ bound') \/ UserNode(d) \in shown' \/ d \in archived'
  BY DEF Accounted
<1>1. d \in Turns /\ d \in Procs /\ d # Nobody
  BY JournalAssumption DEF Turns, Procs
<1>2. shown' = shown /\ archived \subseteq archived'
  BY OnlyPostPosts
<1>3. CASE Post(p)
  <2>1. journal' = p /\ bound' = TRUE
    BY <1>3 DEF Post, Requests, Begun, record
  <2>2. d # p => Posted(d) /\ journal # d
    BY <1>1, <1>3, <2>1 DEF Post, Posted, TypeOK, record
  <2> QED BY <1>2, <2>1, <2>2 DEF Accounted
<1>4. CASE ~Post(p)
  <2>1. Posted(d)
    BY <1>4, OnlyPostPosts DEF Posted
  <2>2. CASE UserNode(d) \in shown \/ d \in archived
    BY <1>2, <2>2
  <2>3. CASE journal = d /\ bound /\ UserNode(d) \notin shown /\ d \notin archived
    <3>1. pc[p] \notin Resolving
      BY <1>1, <2>3 DEF Seen
    <3>2. CASE AdoptBranch(p)
      BY <2>3, <3>2 DEF AdoptBranch
    <3>3. CASE ~AdoptBranch(p)
      <4>1. UNCHANGED <<journal, bound>>
        BY <1>1, <2>3, <3>1, <3>3 DEF Step, Turn, Refresh, Adopt, LockForTurn, CheckComplete, FetchParent,
         BeginSubmission, BindUserMessage, Post, StreamState, CollectResult,
         CompleteSubmission, LockForRefresh, ReadStatus, ReadHistory,
         UpdateRemoteState, ClearAfterRefresh, LockForAdoption, RecheckJournal,
         ReadBranch, ShowToken, GiveUp, Unlock, record, Resolving
      <4> QED BY <2>3, <4>1
    <3> QED BY <3>2, <3>3
  <2> QED BY <2>1, <2>2, <2>3 DEF Accounted
<1> QED BY <1>3, <1>4

\* A request about to clear a bound journal has still seen its turn.
LEMMA StepSeen ==
    ASSUME TypeOK, LockHeld, History, Requests, Seen,
           NEW p \in Procs, Step(p), ~ShowToken(p)
    PROVE  Seen'
<1>1. \A q \in Procs : q # p => pc'[q] \in {"idle", "done"}
  BY StepIsAlone
<1>2. shown' = shown
  BY OnlyPostPosts
<1>3. ASSUME pc'[p] \in Resolving, journal' # Nobody, bound'
      PROVE  UserNode(journal') \in shown
  <2>1. CASE CollectResult(p)
    <3>1. UNCHANGED <<journal, bound>>
      BY <2>1 DEF CollectResult, record
    <3> QED BY <1>3, <2>1, <3>1, EvidenceIsSeen DEF CollectResult
  <2>2. CASE ReadHistory(p)
    <3>1. UNCHANGED <<journal, bound>>
      BY <2>2 DEF ReadHistory, record
    <3> QED BY <1>3, <2>2, <3>1, EvidenceIsSeen DEF ReadHistory
  <2>3. CASE ~CollectResult(p) /\ ~ReadHistory(p)
    <3>1. pc[p] \in Resolving /\ UNCHANGED <<journal, bound>>
      BY <1>3, <2>3 DEF Step, Turn, Refresh, Adopt, LockForTurn, CheckComplete, FetchParent,
         BeginSubmission, BindUserMessage, Post, StreamState, CompleteSubmission,
         LockForRefresh, ReadStatus, UpdateRemoteState, ClearAfterRefresh,
         LockForAdoption, RecheckJournal, ReadBranch, AdoptBranch, ShowToken,
         GiveUp, Unlock, TypeOK, Goto, record, Resolving
    <3> QED BY <1>3, <3>1 DEF Seen
  <2> QED BY <2>1, <2>2, <2>3
<1> QED BY <1>1, <1>2, <1>3 DEF Seen, Resolving

\* A step of a request forks nothing: what it posts continues a message that no
\* other turn to be accounted for continues.
LEMMA StepNoForks ==
    ASSUME TypeOK, Requests, NoForks, NEW p \in Procs, Step(p)
    PROVE  NoForks'
<1>1. archived \subseteq archived'
  BY OnlyPostPosts
<1>2. CASE UNCHANGED <<phase, parent>>
  BY <1>1, <1>2 DEF NoForks, Posted
<1>3. CASE Post(p)
  <2>1. p \in Sends /\ Unforked(p)
    BY <1>3 DEF Post, Requests, Fetched
  <2>2. \A d \in Sends : d \in Turns
    BY DEF Turns
  <2>3. \A d \in Sends : d # p => phase'[d] = phase[d] /\ parent'[d] = parent[d]
    BY <1>3, <2>2 DEF Post, TypeOK
  <2>4. parent'[p] = got[p]
    BY <1>3, <2>1, <2>2 DEF Post, TypeOK
  <2>5. \A d \in Sends \ {p} : Posted(d)' => parent'[p] # parent'[d] \/ d \in archived'
    BY <1>1, <2>1, <2>3, <2>4 DEF Unforked, Posted
  <2> QED BY <1>1, <2>3, <2>5 DEF NoForks, Posted
<1> QED BY <1>2, <1>3, OnlyPostPosts

\* A step of a request keeps the invariant.
LEMMA StepJournalInv ==
    ASSUME JournalInv, NEW p \in Procs, Step(p)
    PROVE  JournalInv'
<1>1. TypeOK' /\ LockHeld'
  BY NextTypeOK, NextLockHeld DEF JournalInv, Next, Step
<1>2. History' /\ NoForks'
  BY StepHistory, StepNoForks DEF JournalInv
<1>3. CASE ShowToken(p)
  <2>1. UNCHANGED <<pc, journal, bound, archived, got, phase, parent, shown>>
    BY <1>3 DEF ShowToken, record, cloud
  <2>2. Requests' /\ Accounted' /\ Seen'
    BY <2>1 DEF JournalInv, Requests, Unforked, Accounted, Seen, Posted
  <2> QED BY <1>1, <1>2, <2>2 DEF JournalInv
<1>4. CASE ~ShowToken(p)
  BY <1>1, <1>2, <1>4, StepRequests, StepAccounted, StepSeen DEF JournalInv
<1> QED BY <1>3, <1>4

-----------------------------------------------------------------------------
(* Steps of the others, and the theorems.                                  *)

\* ChatGPT and the other tabs post no cloud turn and change none that is posted,
\* and what they show is never what a shown turn continues.
LEMMA ElsewhereHistory ==
    ASSUME TypeOK, History, NEW t \in Turns, Elsewhere(t)
    PROVE  /\ History'
           /\ shown \subseteq shown'
           /\ \A d \in Sends : /\ Posted(d)' <=> Posted(d)
                               /\ parent'[d] = parent[d]
<1>0. \A d \in Sends : d \in Turns /\ d \notin Outsiders
  BY JournalAssumption DEF Turns
<1>1. UNCHANGED got
  BY DEF Elsewhere, ChatGPT, Accept, Complete, Show, PostOutside, tab
<1>2. CASE Accept(t) \/ Complete(t)
  <2>1. UNCHANGED <<parent, shown, current>>
    BY <1>2 DEF Accept, Complete
  <2>2. \A u \in Turns : Posted(u)' <=> Posted(u)
    BY <1>2 DEF Accept, Complete, Posted, TypeOK
  <2> QED BY <1>0, <1>1, <2>1, <2>2 DEF History
<1>3. CASE PostOutside(t)
  <2>1. t \in Outsiders /\ ~Posted(t) /\ UNCHANGED <<shown, current>>
    BY <1>3 DEF PostOutside, Posted
  <2>2. \A u \in Turns : u # t => parent'[u] = parent[u] /\ (Posted(u)' <=> Posted(u))
    BY <1>3 DEF PostOutside, Posted, TypeOK
  <2>3. parent'[t] \in shown
    BY <1>3 DEF PostOutside, TypeOK
  <2> QED BY <1>0, <1>1, <2>1, <2>2, <2>3 DEF History
<1>4. CASE Show(t)
  <2>1. /\ UNCHANGED <<phase, parent>>
        /\ shown' = shown \cup {current'}
        /\ current' \notin shown
        /\ \/ current' = UserNode(t) /\ Posted(t)
           \/ current' = ReplyNode(t) /\ UserNode(t) \in shown
    BY <1>4 DEF Show, Posted
  <2>2. \A u \in Turns : /\ Posted(u)' <=> Posted(u)
                         /\ Posted(u) => parent[u] \in shown /\ current' # parent[u]
    BY <2>1 DEF History, Posted
  <2>3. \A u \in Turns : /\ UserNode(u) \in shown' => Posted(u)
                         /\ ReplyNode(u) \in shown' => UserNode(u) \in shown'
    <3>1. \A u \in Turns : UserNode(u) \in shown => Posted(u)
      BY DEF History
    <3>2. \A u \in Turns : ReplyNode(u) \in shown => UserNode(u) \in shown
      BY DEF History
    <3>3. \A u \in Turns : /\ UserNode(u) = UserNode(t) => u = t
                           /\ ReplyNode(u) = ReplyNode(t) => u = t
                           /\ UserNode(u) # ReplyNode(t)
                           /\ ReplyNode(u) # UserNode(t)
      BY DEF UserNode, ReplyNode
    <3>4. CASE current' = UserNode(t) /\ Posted(t)
      BY <2>1, <3>1, <3>2, <3>3, <3>4
    <3>5. CASE current' = ReplyNode(t) /\ UserNode(t) \in shown
      BY <2>1, <3>1, <3>2, <3>3, <3>5
    <3> QED BY <2>1, <3>4, <3>5
  <2>4. \A p \in Procs : got'[p] \in shown' \cup {NoNode}
    BY <1>1, <2>1 DEF History
  <2>5. \A u \in Turns : /\ Posted(u)' => parent'[u] \in shown'
                         /\ UserNode(u) \in shown' => Posted(u)' /\ current' # parent'[u]
    BY <2>1, <2>2, <2>3
  <2>6. History'
    BY <2>3, <2>4, <2>5 DEF History
  <2> QED BY <1>0, <2>1, <2>2, <2>6
<1> QED BY <1>2, <1>3, <1>4 DEF Elsewhere, ChatGPT

\* The invariant survives what posts no cloud turn and leaves the journal alone,
\* even when it ends all requests.
LEMMA BystanderJournalInv ==
    ASSUME JournalInv, TypeOK', LockHeld', History',
           UNCHANGED <<journal, bound, archived>>,
           shown \subseteq shown',
           \A d \in Sends : (Posted(d)' <=> Posted(d)) /\ parent'[d] = parent[d],
           \/ UNCHANGED <<pc, got>>
           \/ \A p \in Procs : /\ pc'[p] \in {"idle", "done"}
                               /\ pc'[p] = "idle" => pc[p] = "idle" \/ p \notin Sends
    PROVE  JournalInv'
<1>1. \A t \in Sends : t \in Procs
  BY DEF Procs
<1>2. Requests'
  <2>1. CASE UNCHANGED <<pc, got>>
    <3>1. \A t \in Sends : Unforked(t) => Unforked(t)'
      BY <1>1, <2>1 DEF Unforked
    <3>2. Requests
      BY DEF JournalInv
    <3> QED BY <2>1, <3>1, <3>2 DEF Requests
  <2>2. CASE \A p \in Procs : /\ pc'[p] \in {"idle", "done"}
                              /\ pc'[p] = "idle" => pc[p] = "idle" \/ p \notin Sends
    BY <1>1, <2>2 DEF JournalInv, Requests, Unposted, Fetched, Begun
  <2> QED BY <2>1, <2>2
<1>3. Accounted' /\ NoForks'
  BY DEF JournalInv, Accounted, NoForks
<1>4. Seen'
  <2>1. \A p \in Procs : pc'[p] \in Resolving => pc[p] \in Resolving
    BY DEF Resolving
  <2>2. Seen
    BY DEF JournalInv
  <2> QED BY <2>1, <2>2 DEF Seen
<1> QED BY <1>2, <1>3, <1>4 DEF JournalInv

\* Every step keeps the invariant.
LEMMA NextJournalInv == JournalInv /\ [Next]_vars => JournalInv'
<1> SUFFICES ASSUME JournalInv, [Next]_vars PROVE JournalInv'
  OBVIOUS
<1>1. TypeOK' /\ LockHeld'
  BY NextTypeOK, NextLockHeld DEF JournalInv
<1>2. CASE \E p \in Procs : Step(p)
  BY <1>2, StepJournalInv
<1>3. ASSUME NEW t \in Turns, Elsewhere(t) PROVE JournalInv'
  <2>1. UNCHANGED <<pc, got, journal, bound, archived>>
    BY <1>3 DEF Elsewhere, ChatGPT, Accept, Complete, Show, PostOutside, record, tab
  <2>2. /\ History'
        /\ shown \subseteq shown'
        /\ \A d \in Sends : (Posted(d)' <=> Posted(d)) /\ parent'[d] = parent[d]
    BY <1>3, ElsewhereHistory DEF JournalInv
  <2> QED BY <1>1, <2>1, <2>2, BystanderJournalInv
<1>4. CASE JournalAges \/ UNCHANGED vars
  <2>1. UNCHANGED <<pc, got, journal, bound, archived, phase, parent, shown, current>>
    BY <1>4 DEF JournalAges, vars, record, tab, cloud
  <2>2. History'
    BY <2>1 DEF JournalInv, History, Posted
  <2> QED BY <1>1, <2>1, <2>2, BystanderJournalInv DEF Posted
<1>5. CASE Crash
  <2>1. UNCHANGED <<journal, bound, archived, phase, parent, shown, current>>
    BY <1>5 DEF Crash, record, cloud
  <2>2. \A p \in Procs : /\ pc'[p] \in {"idle", "done"}
                         /\ pc'[p] = "idle" => pc[p] = "idle" \/ p \notin Sends
                         /\ got'[p] = NoNode
    BY <1>5 DEF Crash
  <2>3. History'
    <3>1. History
      BY DEF JournalInv
    <3> QED BY <2>1, <2>2, <3>1 DEF History, Posted
  <2> QED BY <1>1, <2>1, <2>2, <2>3, BystanderJournalInv DEF Posted
<1> QED BY <1>2, <1>3, <1>4, <1>5 DEF Next, Step, Elsewhere

\* The invariant holds in every reachable state.
LEMMA JournalInvHolds == Spec => []JournalInv
BY InitJournalInv, NextJournalInv, PTL DEF Spec

\* Unless one was given up in an adoption, no two cloud turns continue the same
\* message, however requests end and the history lags.
THEOREM TurnsDoNotFork == Spec => []NoForks
<1>1. JournalInv => NoForks
  BY DEF JournalInv
<1> QED BY <1>1, JournalInvHolds, PTL

\* A turn is posted only when each earlier POST was read back from the history or
\* given up in an adoption.
THEOREM NothingIsPostedBlindly == Spec => NoBlindSubmission
<1>1. ASSUME JournalInv, [Next]_vars,
             NEW t \in Sends, NEW d \in Sends, Posted(t)', ~Posted(t), Posted(d)
      PROVE  UserNode(d) \in shown \/ d \in archived
  <2>1. \E p \in Procs : Step(p)
    <3>1. CASE \E u \in Turns : Elsewhere(u)
      BY <1>1, <3>1, ElsewhereHistory DEF JournalInv
    <3>2. CASE JournalAges \/ Crash \/ UNCHANGED vars
      BY <1>1, <3>2 DEF JournalAges, Crash, vars, cloud, Posted
    <3> QED BY <1>1, <3>1, <3>2 DEF Next, Step, Elsewhere
  <2>2. PICK p \in Procs : Step(p)
    BY <2>1
  <2>3. Post(p) /\ t \in Turns
    BY <1>1, <2>2, OnlyPostPosts DEF JournalInv, Posted, Turns
  <2>4. p = t
    BY <1>1, <2>3 DEF Post, Posted, JournalInv, TypeOK
  <2>5. journal = t /\ d # t
    BY <1>1, <2>3, <2>4 DEF Post, JournalInv, Requests, Begun
  <2> QED BY <1>1, <2>5 DEF JournalInv, Accounted
<1>2. JournalInv /\ [Next]_vars =>
        [\A t, d \in Sends :
            Posted(t)' /\ ~Posted(t) /\ Posted(d) =>
               UserNode(d) \in shown \/ d \in archived]_vars
  BY <1>1
<1> QED BY <1>2, JournalInvHolds, PTL DEF Spec, NoBlindSubmission

\* A journal that knows the identity of its user message is dropped only for that
\* message, never for another one with its text, or by an adoption.
THEOREM BoundJournalsWaitForTheirTurn == Spec => BoundJournalNeedsItsTurn
<1>1. ASSUME JournalInv, [Next]_vars, journal # Nobody, bound, journal' # journal
      PROVE  UserNode(journal) \in shown \/ journal \in archived'
  <2>1. \E p \in Procs : Step(p)
    BY <1>1 DEF Next, Step, ChatGPT, Accept, Complete, Show, PostOutside,
                JournalAges, Crash, vars, record
  <2>2. PICK p \in Procs : Step(p)
    BY <2>1
  <2>3. AdoptBranch(p) \/ pc[p] \in Resolving
    BY <1>1, <2>2 DEF Step, Turn, Refresh, Adopt, LockForTurn, CheckComplete, FetchParent,
         BeginSubmission, BindUserMessage, Post, StreamState, CollectResult,
         CompleteSubmission, LockForRefresh, ReadStatus, ReadHistory,
         UpdateRemoteState, ClearAfterRefresh, LockForAdoption, RecheckJournal,
         ReadBranch, ShowToken, GiveUp, Unlock, record, Resolving
  <2>4. CASE AdoptBranch(p)
    BY <2>4 DEF AdoptBranch
  <2>5. CASE pc[p] \in Resolving
    BY <1>1, <2>5 DEF JournalInv, Seen
  <2> QED BY <2>3, <2>4, <2>5
<1>2. JournalInv /\ [Next]_vars =>
        [journal # Nobody /\ bound /\ journal' # journal =>
            UserNode(journal) \in shown \/ journal \in archived']_vars
  BY <1>1
<1> QED BY <1>2, JournalInvHolds, PTL DEF Spec, BoundJournalNeedsItsTurn

\* An adoption archives the journal that its tab has shown.
THEOREM AdoptionsAreOfTheShownJournal == Spec => AdoptionArchivesWhatItShowed
<1>1. ASSUME TypeOK, [Next]_vars, archived' # archived
      PROVE  \E a \in Adopters : /\ pc[a] = "adopt" /\ pc'[a] = "unlock"
                                 /\ archived' = archived \cup {token[a]}
  <2>1. \E a \in Procs : AdoptBranch(a)
    BY <1>1 DEF Next, Turn, Refresh, Adopt, LockForTurn, CheckComplete, FetchParent,
         BeginSubmission, BindUserMessage, Post, StreamState, CollectResult,
         CompleteSubmission, LockForRefresh, ReadStatus, ReadHistory,
         UpdateRemoteState, ClearAfterRefresh, LockForAdoption, RecheckJournal,
         ReadBranch, ShowToken, GiveUp, Unlock, ChatGPT, Accept, Complete, Show,
         PostOutside, JournalAges, Crash, vars, record
  <2> QED BY <1>1, <2>1 DEF AdoptBranch, TokenIsCurrent, Goto, TypeOK
<1>2. TypeOK /\ [Next]_vars =>
        [archived' # archived =>
            \E a \in Adopters : /\ pc[a] = "adopt" /\ pc'[a] = "unlock"
                                /\ archived' = archived \cup {token[a]}]_vars
  BY <1>1
<1> QED BY <1>2, TypeCorrect, PTL DEF Spec, AdoptionArchivesWhatItShowed
=============================================================================
