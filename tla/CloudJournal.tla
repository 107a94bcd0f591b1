---------------------------- MODULE CloudJournal ----------------------------
(***************************************************************************)
(* One ChatGPT conversation under the browser GUI: the submission journal  *)
(* of advisor_cloud_catalog.py and the requests of advisor_gui.py that     *)
(* write, reconcile and adopt it.                                          *)
(*                                                                         *)
(* A cloud turn leaves one POST whose outcome the GUI may never learn: the *)
(* browser disconnects, the server is killed, the cloud history lags.  The *)
(* journal in the catalog blocks the conversation until that outcome is    *)
(* read back from the history, and no request ever posts a turn again.     *)
(* Meanwhile the user may continue the conversation in another tab.        *)
(*                                                                         *)
(* The conversation is a tree of messages: every turn has a user node and, *)
(* unless it fails, one reply, the assistant's answer or a terminal tool   *)
(* node.  Nodes that ChatGPT has stored show up in the history later.      *)
(***************************************************************************)
CONSTANTS Sends,     \* cloud turns of the GUI, each with its own nonce
          Refreshes, \* browser tabs that import or refresh the conversation
          Adopters,  \* browser tabs that may adopt the current branch
          Outsiders, \* turns made in other ChatGPT tabs
          Texts,     \* what a user message may say
          Nobody     \* no turn, no journal, nobody's lock

ASSUME JournalAssumption ==
    /\ Sends \cap Outsiders = {}
    /\ Nobody \notin Sends \cup Refreshes \cup Adopters \cup Outsiders
    /\ Sends \cap (Refreshes \cup Adopters) = {}
    /\ Refreshes \cap Adopters = {}

Turns == Sends \cup Outsiders
Procs == Sends \cup Refreshes \cup Adopters

\* Nodes of the conversation; the root is the answer it began with.
UserNode(t)  == <<t, "user">>
ReplyNode(t) == <<t, "reply">>
Root         == ReplyNode(Nobody)
NoNode       == UserNode(Nobody)
ReplyNodes   == {ReplyNode(t) : t \in Turns \cup {Nobody}}
Nodes        == ReplyNodes \cup {UserNode(t) : t \in Turns}

VARIABLES
    pc,       \* where each request is
    lock,     \* holder of the lock "conversation:<id>"
    journal,  \* nonce of record["submission"]; Nobody if there is none
    prior,    \* its prior_message_id
    bound,    \* it has the user_message_id of its own turn
    overdue,  \* it is older than the automatic retry window
    message,  \* record["message_id"], the next parent
    archived, \* nonces in record["recovery_history"]
    got,      \* node each request read from the history
    token,    \* journal whose recovery token a tab shows
    text,     \* what each turn says
    phase,    \* each turn at ChatGPT
    reply,    \* how it ended
    parent,   \* node it continues
    shown,    \* nodes in the cloud history
    current   \* current_node of the history

record == <<journal, prior, bound, overdue, message, archived>>
tab    == <<got, token>>
cloud  == <<phase, reply, parent, shown, current>>
vars   == <<pc, lock, record, tab, text, cloud>>

Init ==
    /\ pc       = [p \in Procs |-> "idle"]
    /\ lock     = Nobody
    /\ journal  = Nobody
    /\ prior    = NoNode
    /\ bound    = FALSE
    /\ overdue  = FALSE
    /\ message  \in {NoNode, Root}
    /\ archived = {}
    /\ got      = [p \in Procs |-> NoNode]
    /\ token    = [a \in Adopters |-> Nobody]
    /\ text     \in [Turns -> Texts]
    /\ phase    = [t \in Turns |-> "none"]
    /\ reply    = [t \in Turns |-> "none"]
    /\ parent   = [t \in Turns |-> NoNode]
    /\ shown    = {Root}
    /\ current  = Root

-----------------------------------------------------------------------------
(* What a read of the cloud tells.                                         *)

Goto(p, label) == pc' = [pc EXCEPT ![p] = label]

\* stream_status: complete when no turn is being generated.
RemoteComplete == \A t \in Turns : phase[t] # "running"

\* Turns on the way from the root to the current node: the least set with the
\* turn of the current node and, with each turn, the turn it continues.
ActiveBranch ==
    {t \in Turns : \A S \in SUBSET Turns :
        /\ current[1] \in S \cup {Nobody}
        /\ \A u \in S : parent[u][1] \in S \cup {Nobody}
        => t \in S}

\* Mutant: a complete stream status is enough.
EvidenceOfStatus == TRUE

\* Mutant: the identity of the user message is not compared.
EvidenceOfText ==
    \E t \in ActiveBranch :
       /\ parent[t] = prior
       /\ text[t] = text[journal]
       /\ ReplyNode(t) \in shown
       /\ reply[t] = "answer"

\* fetch_ambiguous_submission_result: the first user message after the prior
\* one has the text of the journal and, once the journal is bound, its id; an
\* unbound journal needs a final answer, too.
Evidence ==
    \E t \in ActiveBranch :
       /\ parent[t] = prior
       /\ text[t] = text[journal]
       /\ IF bound THEN t = journal
                   ELSE ReplyNode(t) \in shown /\ reply[t] = "answer"

\* remote_state_from_data refuses a branch that ends in a user message.
Continuable == current \in ReplyNodes

ReadState(p) == /\ Continuable
                /\ got' = [got EXCEPT ![p] = current]

ClearJournal ==
    /\ journal' = Nobody
    /\ prior'   = NoNode
    /\ bound'   = FALSE
    /\ overdue' = FALSE

-----------------------------------------------------------------------------
(* A cloud turn: _prepare_cloud_turn, then the response stream.            *)

Lock(p) == /\ lock = Nobody
           /\ lock' = p

LockForTurn(t) ==
    /\ t \in Sends /\ pc[t] = "idle"
    /\ Lock(t)
    /\ Goto(t, "prepare")
    /\ UNCHANGED <<record, tab, text, cloud>>

\* The journal is looked at and the status is read ...
CheckComplete(t) ==
    /\ t \in Sends /\ pc[t] = "prepare"
    /\ journal = Nobody
    /\ RemoteComplete
    /\ Goto(t, "fetch")
    /\ UNCHANGED <<lock, record, tab, text, cloud>>

\* ... and then the history, whose current node becomes the parent.
FetchParent(t) ==
    /\ t \in Sends /\ pc[t] = "fetch"
    /\ ReadState(t)
    /\ message' = current
    /\ Goto(t, "prepared")
    /\ UNCHANGED <<lock, journal, prior, bound, overdue, archived, token, text,
                   cloud>>

\* The stream starts: begin_submission, before the provider is iterated.
BeginSubmission(t) ==
    /\ t \in Sends /\ pc[t] = "prepared"
    /\ journal = Nobody
    /\ journal' = t
    /\ prior'   = message
    /\ bound'   = FALSE
    /\ overdue' = FALSE
    /\ Goto(t, "journaled")
    /\ UNCHANGED <<lock, message, archived, tab, text, cloud>>

\* The provider announces its request: bind_submission_user_message.
BindUserMessage(t) ==
    /\ t \in Sends /\ pc[t] = "journaled"
    /\ journal = t
    /\ bound' = TRUE
    /\ Goto(t, "bound")
    /\ UNCHANGED <<lock, journal, prior, overdue, message, archived, tab, text,
                   cloud>>

\* The provider posts the turn.
Post(t) ==
    /\ t \in Sends /\ pc[t] = "bound"
    /\ phase' = [phase EXCEPT ![t] = "inflight"]
    /\ parent' = [parent EXCEPT ![t] = got[t]]
    /\ Goto(t, "streaming")
    /\ UNCHANGED <<lock, record, tab, text, reply, shown, current>>

\* The "conversation" event of the stream: update_remote_state.
StreamState(t) ==
    /\ t \in Sends /\ pc[t] = "streaming"
    /\ phase[t] \in {"running", "complete"}
    /\ message' = ReplyNode(t)
    /\ Goto(t, "streamed")
    /\ UNCHANGED <<lock, journal, prior, bound, overdue, archived, tab, text,
                   cloud>>

\* The stream ends normally: _finish_submission_if_remote_complete reads
\* status and history once ...
CollectResult(t) ==
    /\ t \in Sends /\ pc[t] = "streamed"
    /\ journal = t
    /\ RemoteComplete
    /\ Evidence
    /\ ReadState(t)
    /\ Goto(t, "collected")
    /\ UNCHANGED <<lock, record, token, text, cloud>>

\* ... and complete_submission_from_remote_state resolves the journal.
CompleteSubmission(t) ==
    /\ t \in Sends /\ pc[t] = "collected"
    /\ journal = t
    /\ message' = got[t]
    /\ ClearJournal
    /\ Goto(t, "unlock")
    /\ UNCHANGED <<lock, archived, tab, text, cloud>>

-----------------------------------------------------------------------------
(* import_conversation: reconciliation, which never posts.                 *)

LockForRefresh(r) ==
    /\ r \in Refreshes /\ pc[r] = "idle"
    /\ Lock(r)
    /\ Goto(r, "status")
    /\ UNCHANGED <<record, tab, text, cloud>>

ReadStatus(r) ==
    /\ r \in Refreshes /\ pc[r] = "status"
    /\ RemoteComplete
    /\ Goto(r, "history")
    /\ UNCHANGED <<lock, record, tab, text, cloud>>

ReadHistory(r) ==
    /\ r \in Refreshes /\ pc[r] = "history"
    /\ journal # Nobody => Evidence
    /\ ReadState(r)
    /\ Goto(r, "update")
    /\ UNCHANGED <<lock, record, token, text, cloud>>

\* update_remote_state
UpdateRemoteState(r) ==
    /\ r \in Refreshes /\ pc[r] = "update"
    /\ message' = got[r]
    /\ Goto(r, "clear")
    /\ UNCHANGED <<lock, journal, prior, bound, overdue, archived, tab, text,
                   cloud>>

ClearAfterRefresh(r) ==
    /\ r \in Refreshes /\ pc[r] = "clear"
    /\ ClearJournal
    /\ Goto(r, "unlock")
    /\ UNCHANGED <<lock, message, archived, tab, text, cloud>>

-----------------------------------------------------------------------------
(* adopt_current_cloud_branch: the user gives up on an overdue journal.    *)

\* The tab was shown the recovery token of the journal.
ShowToken(a) ==
    /\ a \in Adopters /\ pc[a] = "idle"
    /\ journal # Nobody
    /\ token' = [token EXCEPT ![a] = journal]
    /\ UNCHANGED <<pc, lock, record, got, text, cloud>>

\* Mutant: the token names the conversation and not its journal.
TokenOfAnyJournal(a) == journal # Nobody

\* recovery_journal_token: an identity of exactly one unresolved journal.
TokenIsCurrent(a) == journal # Nobody /\ token[a] = journal

LockForAdoption(a) ==
    /\ a \in Adopters /\ pc[a] = "idle"
    /\ token[a] # Nobody
    /\ Lock(a)
    /\ Goto(a, "recheck")
    /\ UNCHANGED <<record, tab, text, cloud>>

RecheckJournal(a) ==
    /\ a \in Adopters /\ pc[a] = "recheck"
    /\ TokenIsCurrent(a) /\ overdue
    /\ RemoteComplete
    /\ Goto(a, "read")
    /\ UNCHANGED <<lock, record, tab, text, cloud>>

ReadBranch(a) ==
    /\ a \in Adopters /\ pc[a] = "read"
    /\ ReadState(a)
    /\ Goto(a, "adopt")
    /\ UNCHANGED <<lock, record, token, text, cloud>>

\* Mutant: a journal without a user message id is not offered for adoption.
AdoptBoundBranch(a) ==
    /\ a \in Adopters /\ pc[a] = "adopt"
    /\ TokenIsCurrent(a) /\ bound
    /\ archived' = archived \cup {journal}
    /\ message' = got[a]
    /\ ClearJournal
    /\ Goto(a, "unlock")
    /\ UNCHANGED <<lock, tab, text, cloud>>

\* adopt_current_branch of the catalog archives the journal.
AdoptBranch(a) ==
    /\ a \in Adopters /\ pc[a] = "adopt"
    /\ TokenIsCurrent(a)
    /\ archived' = archived \cup {journal}
    /\ message' = got[a]
    /\ ClearJournal
    /\ Goto(a, "unlock")
    /\ UNCHANGED <<lock, tab, text, cloud>>

-----------------------------------------------------------------------------
(* Ends.                                                                   *)

\* A check refuses, a read fails, the provider reports an error or the
\* browser disconnects: the request unwinds and the journal stays as it is.
GiveUp(p) ==
    /\ pc[p] \notin {"idle", "unlock", "done"}
    /\ Goto(p, "unlock")
    /\ UNCHANGED <<lock, record, tab, text, cloud>>

\* Refreshing and adopting can be tried again; a cloud turn cannot.
Unlock(p) ==
    /\ pc[p] = "unlock"
    /\ lock' = Nobody
    /\ got' = [got EXCEPT ![p] = NoNode]
    /\ token' = IF p \in Adopters THEN [token EXCEPT ![p] = Nobody] ELSE token
    /\ Goto(p, IF p \in Sends THEN "done" ELSE "idle")
    /\ UNCHANGED <<record, text, cloud>>

\* The GUI server is killed: every request in it dies, and so do its locks.
Crash ==
    /\ \E p \in Procs : pc[p] \notin {"idle", "done"}
    /\ pc' = [p \in Procs |-> IF p \in Sends /\ pc[p] # "idle" THEN "done" ELSE "idle"]
    /\ lock' = Nobody
    /\ got' = [p \in Procs |-> NoNode]
    /\ UNCHANGED <<record, token, text, cloud>>

\* _unresolved_after_seconds have passed since begin_submission.
JournalAges ==
    /\ journal # Nobody /\ ~overdue
    /\ overdue' = TRUE
    /\ UNCHANGED <<pc, lock, journal, prior, bound, message, archived, tab, text,
                   cloud>>

-----------------------------------------------------------------------------
(* ChatGPT and the other tabs.                                             *)

\* The POST arrives, maybe long after the GUI lost interest, or never.
Accept(t) ==
    /\ phase[t] = "inflight"
    /\ \/ phase' = [phase EXCEPT ![t] = "running"]
       \/ phase' = [phase EXCEPT ![t] = "lost"]
    /\ UNCHANGED <<pc, lock, record, tab, text, reply, parent, shown, current>>

\* A turn typed into another tab continues any reply the history shows.
PostOutside(t) ==
    /\ t \in Outsiders /\ phase[t] = "none"
    /\ \E n \in shown \cap ReplyNodes : parent' = [parent EXCEPT ![t] = n]
    /\ phase' = [phase EXCEPT ![t] = "running"]
    /\ UNCHANGED <<pc, lock, record, tab, text, reply, shown, current>>

\* Its answer ends, with a terminal tool node, or with nothing.
Complete(t) ==
    /\ phase[t] = "running"
    /\ phase' = [phase EXCEPT ![t] = "complete"]
    /\ \E how \in {"answer", "tool", "silent"} : reply' = [reply EXCEPT ![t] = how]
    /\ UNCHANGED <<pc, lock, record, tab, text, parent, shown, current>>

\* The history catches up: first the user's message, then the reply.
Show(t) ==
    /\ \/ /\ phase[t] \in {"running", "complete"} /\ UserNode(t) \notin shown
          /\ current' = UserNode(t)
       \/ /\ UserNode(t) \in shown /\ ReplyNode(t) \notin shown
          /\ reply[t] \in {"answer", "tool"}
          /\ current' = ReplyNode(t)
    /\ shown' = shown \cup {current'}
    /\ UNCHANGED <<pc, lock, record, tab, text, phase, reply, parent>>

-----------------------------------------------------------------------------

Turn(t) ==
    \/ LockForTurn(t) \/ CheckComplete(t) \/ FetchParent(t) \/ BeginSubmission(t)
    \/ BindUserMessage(t) \/ Post(t) \/ StreamState(t) \/ CollectResult(t)
    \/ CompleteSubmission(t)

Refresh(r) ==
    \/ LockForRefresh(r) \/ ReadStatus(r) \/ ReadHistory(r)
    \/ UpdateRemoteState(r) \/ ClearAfterRefresh(r)

Adopt(a) ==
    \/ LockForAdoption(a) \/ RecheckJournal(a) \/ ReadBranch(a) \/ AdoptBranch(a)

ChatGPT(t) == Accept(t) \/ Complete(t) \/ Show(t)

Next ==
    \/ \E p \in Procs : Turn(p) \/ Refresh(p) \/ GiveUp(p) \/ Unlock(p)
                        \/ ShowToken(p) \/ Adopt(p)
    \/ \E t \in Turns : ChatGPT(t) \/ PostOutside(t)
    \/ JournalAges \/ Crash

Spec == Init /\ [][Next]_vars

\* Requests end, ChatGPT ends its turns and shows them, time passes; and the
\* user keeps trying to adopt an overdue branch, reads failing at times only.
FairSpec ==
    /\ Spec
    /\ \A p \in Procs : WF_vars(Unlock(p)) /\ WF_vars(GiveUp(p) \/ Turn(p) \/ Refresh(p))
    /\ \A t \in Turns : WF_vars(ChatGPT(t))
    /\ WF_vars(JournalAges)
    /\ \A a \in Adopters :
          /\ SF_vars(ShowToken(a) /\ token[a] # journal)
          /\ SF_vars(LockForAdoption(a) /\ TokenIsCurrent(a) /\ overdue)
          /\ SF_vars(RecheckJournal(a))
          /\ SF_vars(ReadBranch(a))
          /\ SF_vars(AdoptBranch(a))

-----------------------------------------------------------------------------
(* What the journal is for.                                                *)

\* Types; a turn continues a reply, never an unanswered message.
TypeOK ==
    /\ pc \in [Procs -> {"idle", "prepare", "fetch", "prepared", "journaled",
                         "bound", "streaming", "streamed", "collected", "status",
                         "history", "update", "clear", "recheck", "read", "adopt",
                         "unlock", "done"}]
    /\ lock \in Procs \cup {Nobody}
    /\ journal \in Sends \cup {Nobody}
    /\ prior \in ReplyNodes \cup {NoNode}
    /\ bound \in BOOLEAN
    /\ overdue \in BOOLEAN
    /\ message \in ReplyNodes \cup {NoNode}
    /\ archived \subseteq Sends
    /\ got \in [Procs -> ReplyNodes \cup {NoNode}]
    /\ token \in [Adopters -> Sends \cup {Nobody}]
    /\ text \in [Turns -> Texts]
    /\ phase \in [Turns -> {"none", "inflight", "lost", "running", "complete"}]
    /\ reply \in [Turns -> {"none", "answer", "tool", "silent"}]
    /\ parent \in [Turns -> ReplyNodes \cup {NoNode}]
    /\ shown \subseteq Nodes
    /\ current \in shown

Posted(t) == phase[t] # "none"

\* "The bridge provides at-most-once automatic submission": a turn is posted
\* only when each earlier POST was found in the history or given up by an
\* explicit adoption, however the requests before it ended.
NoBlindSubmission ==
    [][\A t, d \in Sends :
          Posted(t)' /\ ~Posted(t) /\ Posted(d) =>
             UserNode(d) \in shown \/ d \in archived]_vars

\* Without an adoption, no two cloud turns continue the same message: a lagging
\* history does not make the GUI fork the conversation.
NoForks ==
    \A t, d \in Sends :
        Posted(t) /\ Posted(d) /\ parent[t] = parent[d] =>
           t = d \/ t \in archived \/ d \in archived

\* A journal bound to its user message is cleared only when that message is in
\* the history, or by adoption: a message of the same text does not do.
BoundJournalNeedsItsTurn ==
    [][journal # Nobody /\ bound /\ journal' # journal =>
          UserNode(journal) \in shown \/ journal \in archived']_vars

\* "Unrelated or same-text advancement from another tab cannot clear the
\* journal": no exception for a journal that is not bound yet.
OnlyItsTurnClearsJournal ==
    [][journal # Nobody /\ journal' # journal =>
          UserNode(journal) \in shown \/ journal \in archived']_vars

\* An adoption archives the journal its tab has shown to the user, never one
\* that a later turn has begun since.
AdoptionArchivesWhatItShowed ==
    [][archived' # archived =>
          \E a \in Adopters : /\ pc[a] = "adopt" /\ pc'[a] = "unlock"
                              /\ archived' = archived \cup {token[a]}]_vars

\* A blocked conversation can be unblocked: its journal is resolved in the end,
\* unless the conversation ends with a message that ChatGPT never answered.
PendingJournalIsResolvable ==
    \A t \in Sends :
        journal = t ~> \/ journal # t
                       \/ \E u \in Turns : current = UserNode(u) /\ reply[u] = "silent"
=============================================================================
