--------------------------- MODULE OutreachSystem ---------------------------
(***************************************************************************)
(* First greetings as a whole: CLI sessions, workers and the panel over    *)
(* one SQLite ledger, with the properties that make it safe.               *)
(***************************************************************************)
EXTENDS OutreachCli, WorkerGateway, GreetingDecisions

vars == <<ledgerVars, cliVars, workerVars, decisionVars>>

Init == LedgerInit /\ CliInit /\ WorkerInit /\ DecisionsInit

Cli == \E s \in Sessions : CliStep(s)
Worker == \E w \in Workers : WorkerStep(w)
Panel == \E h \in Handlers : PanelStep(h)

Next ==
    \/ (Tick \/ EditEvidence) /\ UNCHANGED <<cliVars, workerVars, decisionVars>>
    \/ Cli /\ UNCHANGED <<workerVars, decisionVars>>
    \/ (Worker \/ FetchStep \/ AckStep) /\ UNCHANGED <<cliVars, decisionVars>>
    \/ (Panel \/ FeedbackStep) /\ UNCHANGED <<cliVars, workerVars>>

Spec == Init /\ [][Next]_vars

TypeOK == LedgerTypeOK /\ CliTypeOK /\ WorkerTypeOK /\ DecisionsTypeOK

-----------------------------------------------------------------------------
(* The send ledger.                                                        *)

RowItem(k) == <<audits[k].batch, audits[k].number>>

\* Every result is final and nothing is retried: an item has one result at most,
\* whichever of two racing sessions, or of a session and a worker, records it, and
\* only an item a person approved has one.
OneResultPerItem == \A k, l \in DOMAIN audits :
    /\ ApprovedItem(RowItem(k))
    /\ RowItem(k) = RowItem(l) => k = l

\* What the ledger already held when row k was committed, on its platform.
EarlierRows(k) == {j \in 1..(k - 1) : audits[j].platform = audits[k].platform}
EarlierSameDay(k) == {j \in EarlierRows(k) : Day(audits[j].at) = Day(audits[k].at)}

\* A row that stands for something done on the platform.
Attempt(k) == audits[k].result # "withdrawn"

\* Row k kept the pace its platform allows: the gap to every earlier attempt, no stop
\* earlier that day, and the day's cap.
PacedRow(k) ==
    /\ \A j \in EarlierRows(k) : Attempt(j) => audits[k].at - audits[j].at >= MinGap
    /\ \A j \in EarlierSameDay(k) : audits[j].result \notin Halting
    /\ Cardinality({j \in EarlierSameDay(k) : audits[j].result = "sent"}) < Cap

\* Row k is the first contact with its job.
FirstContactRow(k) == \A j \in 1..(k - 1) :
    audits[j].job = audits[k].job => audits[j].result \notin CountsAsContact

SentRows == {k \in DOMAIN audits : audits[k].result = "sent"}
ConfirmedRows == {k \in SentRows : Completed(RowItem(k))}

\* A send the gateway confirmed kept the platform's pace, whatever the CLI sessions
\* recorded between the worker's claim, its authorization and its readback.
ConfirmedSendsPaced == \A k \in ConfirmedRows : PacedRow(k)

\* A send the gateway confirmed was the first contact with its job, although the
\* job may be listed, approved and released in several batches.
ConfirmedSendsFirst == \A k \in ConfirmedRows : FirstContactRow(k)

\* The rows of one host that reports what it sent keep the pace through `next` alone, over
\* crashes between any two statements: `record` itself checks none of it.  A greeting that was
\* sent and lost with its host has no row, and nothing is said of it.
SendsPaced == \A k \in SentRows : PacedRow(k)

-----------------------------------------------------------------------------
(* The worker gateway.                                                     *)

\* Of all workers, sessions and batches, one greeting at most is out per platform.
OneOpenClaim == \A i, j \in ItemKey :
    Open(i) /\ Open(j) /\ SiteOf(i) = SiteOf(j) => i = j

\* Receipt, audit row and completion event commit together or not at all.
CompletionTogether == \A i \in ItemKey :
    /\ Completed(i) <=> i \in events
    /\ Completed(i) => Recorded(i)

-----------------------------------------------------------------------------
(* Decisions on single items.                                              *)

\* No decision is lost or counted twice: a card's revision counts the operations
\* stored for its list, under concurrent requests and repeated ones.
NoLostDecision == \A b \in BatchId : cards[b] # None =>
    cards[b].revision =
        Cardinality({k \in OpKeys : saved[k] # None /\ saved[k].batch = b})

\* What a panel approval released is the asked item word for word, answered a
\* question, and its list is withdrawn once nothing on it is left to decide.
PanelApprovalExact == \A c \in Children : LET b == c[1] n == c[2] IN
    Approved(c) => /\ batches[c] = <<batches[b][n]>>
                          /\ asks[b] # None /\ n \in Decided(b)
DecidedListWithdrawn == \A b \in Batches :
    Known(b) /\ DOMAIN batches[b] \subseteq Decided(b) => b \in withdrawn

\* What the panel decided stands, as it was decided, on the card, in its list and in the whole one.
DecisionsStand ==
    /\ NoLostDecision
    /\ PanelApprovalExact
    /\ DecidedListWithdrawn

\* An approval answers a question that was put first and names listed items, whatever
\* other sessions draft, ask and withdraw meanwhile (approve).
ApprovalAnswersQuestion == \A b \in BatchId : Approved(b) =>
    /\ asks[b] # None
    /\ approvals[b].numbers # {} /\ approvals[b].numbers \subseteq DOMAIN batches[b]

\* Feedback and approvals tell one story: a recorded signal is never revised, and an
\* approval signal stands only where an approval does.
FeedbackKept ==
    [][\A b \in BatchId, n \in Numbers :
        /\ feedback[b][n] # None => feedback'[b][n] = feedback[b][n]
        /\ feedback'[b][n] = "approved" => ApprovedItem(<<b, n>>)]_vars

-----------------------------------------------------------------------------
(* The inductive invariant behind the safety properties (OutreachProofs).  *)

\* What a session or the panel carries from one statement to the next stays true of
\* the tables: a list being drafted is nobody else's, an answer names listed items,
\* and the items at hand are approved.
DraftApart(s) == Drafting(s) =>
    /\ ~Known(cli[s].batch)
    /\ \A r \in Sessions \ {s} : Drafting(r) => cli[r].batch # cli[s].batch
AnswerSound(s) ==
    /\ At(s, "approve_answer") \/ At(s, "approve_save") =>
          cli[s].numbers # {} /\ cli[s].numbers \subseteq DOMAIN batches[cli[s].batch]
    /\ At(s, "approve_save") => asks[cli[s].batch] # None
    /\ At(s, "record_save") => ApprovedItem(cli[s].item)
PanelSound(h) == panel[h] # None =>
    panel[h].request.number \in DOMAIN batches[panel[h].request.batch]
CarriedSound ==
    /\ \A s \in Sessions : DraftApart(s) /\ AnswerSound(s)
    /\ \A h \in Handlers : PanelSound(h)

\* A row repeats the job and the site of the item it is about.
RowsFaithful == \A k \in DOMAIN audits :
    audits[k].job = ItemOf(RowItem(k)).job /\ audits[k].platform = SiteOf(RowItem(k))

ClaimsApproved == \A i \in ItemKey : Claimed(i) => ApprovedItem(i)

SafetyInvariant ==
    /\ TypeOK
    /\ ApprovalAnswersQuestion
    /\ CarriedSound
    /\ OneResultPerItem /\ RowsFaithful
    /\ ClaimsApproved /\ OneOpenClaim /\ CompletionTogether
    /\ ConfirmedSendsPaced /\ ConfirmedSendsFirst

-----------------------------------------------------------------------------
(* The system implements the promise.                                      *)

ASSUME PairAssumption == None \notin ItemKey \X Jobs

ApprovedPairs == {<<i, ItemOf(i).job>> : i \in {i \in ItemKey : ApprovedItem(i)}}
LedgerRows == [k \in DOMAIN audits |->
    [item |-> RowItem(k), job |-> audits[k].job, result |-> audits[k].result,
     at |-> audits[k].at, confirmed |-> Completed(RowItem(k))]]
OutWith == [p \in Platforms |->
    IF PlatformClaimed(p)
    THEN LET i == CHOOSE i \in ItemKey : Open(i) /\ SiteOf(i) = p IN <<i, ItemOf(i).job>>
    ELSE None]

Promise == INSTANCE GreetingPromise WITH
    Items <- ItemKey, clock <- now, approved <- ApprovedPairs, ledger <- LedgerRows,
    out <- OutWith

\* Every step of every session, worker and panel is a step of the promise, or none.
PromiseKept == Promise!Spec

-----------------------------------------------------------------------------
(* What the repository says of the whole, and interleavings break.         *)

ReleasedTo(s, i) == hand'[s] = i /\ hand[s] # i

\* migrations/0009: a withdrawn batch can no longer be approved or sent.
WithdrawnNeverReleased ==
    [][\A s \in Sessions, i \in ItemKey : ReleasedTo(s, i) => i[1] \notin withdrawn]_vars

=============================================================================
