-------------------------- MODULE GreetingDecisions --------------------------
(***************************************************************************)
(* A person's decisions about single items of an asked list: the panel     *)
(* (bridge/panel_decisions.py over SqliteFeedbackRepository.commit) and    *)
(* the host-neutral `outreach feedback` (record_outreach_feedback).        *)
(*                                                                         *)
(* A panel operation reads the list and its card on connections of its     *)
(* own and commits last, in one transaction guarded by the card's          *)
(* revision.  A client that lost the answer repeats the request under the  *)
(* same operation key, possibly while the first one is still being handled.*)
(***************************************************************************)
EXTENDS OutreachLedger

CONSTANTS
    Handlers,     \* panel requests that can be under way at once
    Signals,      \* decisions hosts record as feedback (a bound on the instance)
    OpKeys        \* operation keys a client gives its requests

VARIABLES
    panel,        \* panel[h]: the request h handles, with what it read, or None
    saved,        \* sourcing_feedback_events of panel operations, by key, or None
    feedback      \* outreach_feedback_links: feedback[b][n], or None

decisionVars == <<panel, saved, feedback>>

ASSUME DecisionsAssumption ==
    /\ OpKeys # {} => Children = Batches \X Numbers
    /\ Signals \subseteq Decisions

\* A request names an item of a drafted list: a list of one is approved already.
Request == [key : OpKeys, batch : Batches, number : Numbers, action : Decisions]
PanelState ==
    [pc : {"card"}, request : Request, at : Nat]
    \cup [pc : {"commit"}, request : Request, at : Nat, card : Card]

ASSUME PanelAssumption == None \notin Request /\ None \notin PanelState

DecisionsInit ==
    /\ panel = [h \in Handlers |-> None]
    /\ saved = [k \in OpKeys |-> None]
    /\ feedback = [b \in BatchId |-> [n \in Numbers |-> None]]

DecisionsTypeOK ==
    /\ panel \in [Handlers -> PanelState \cup {None}]
    /\ saved \in [OpKeys -> Request \cup {None}]
    /\ feedback \in [BatchId -> [Numbers -> Decisions \cup {None}]]

NewCard == [revision |-> 0, decisions |-> [n \in Numbers |-> None]]
Child(request) == <<request.batch, request.number>>

\* _open_items: asked, unapproved, unwithdrawn, and no decision has closed it.
OpenItem(b, n) ==
    /\ n \in DOMAIN batches[b]
    /\ asks[b] # None
    /\ ~Approved(b)
    /\ b \notin withdrawn
    /\ n \notin Decided(b)

\* _approval: the single item still passes the drafting rules, word for word.
Approvable(item) ==
    /\ ItemSourcesCurrent(item)
    /\ item.rev = jobRev[item.job]
    /\ ~Contacted(item.job)
    /\ item.job \notin Undrafted

PanelAt(h, pc) == panel[h] # None /\ panel[h].pc = pc
PanelDone(h) == panel' = [panel EXCEPT ![h] = None]

\* record_panel_decision: an operation stored before only reads its receipt back.
PanelRead(h, request) ==
    /\ panel[h] = None /\ saved[request.key] = None
    /\ OpenItem(request.batch, request.number)
    /\ panel' = [panel EXCEPT ![h] = [pc |-> "card", request |-> request, at |-> now]]
    /\ UNCHANGED <<ledgerVars, saved, feedback>>

\* _commit, before the transaction: the list's first card is registered and read.
PanelRegister(h) ==
    /\ PanelAt(h, "card")
    /\ cards[panel[h].request.batch] = None
    /\ cards' = [cards EXCEPT ![panel[h].request.batch] = NewCard]
    /\ UNCHANGED <<now, jobRev, evidenceRev, batches, asks, approvals, withdrawn,
                   leases, audits, decisionVars>>

\* The card is read, and for an approval the item is checked again.
PanelPrepare(h) ==
    /\ PanelAt(h, "card")
    /\ LET request == panel[h].request
           card == cards[request.batch]
       IN /\ card # None
          /\ IF request.action = "approved" => Approvable(ItemOf(Child(request)))
             THEN panel' = [panel EXCEPT ![h] = [pc |-> "commit", request |-> request,
                                                 at |-> panel[h].at, card |-> card]]
             ELSE PanelDone(h)
    /\ UNCHANGED <<ledgerVars, saved, feedback>>

\* Mutant: an approval is counted, but leaves its item open on the card.
RevisedOpen(card, request) ==
    [revision |-> card.revision + 1,
     decisions |-> IF request.action = "approved" THEN card.decisions
                   ELSE [card.decisions EXCEPT ![request.number] = request.action]]
\* The card this decision leads to, from the card the request read.
Revised(card, request) ==
    [revision |-> card.revision + 1,
     decisions |-> [card.decisions EXCEPT ![request.number] = request.action]]
Closes(card, request) ==
    \A n \in DOMAIN batches[request.batch] : Revised(card, request).decisions[n] # None

\* commit refuses a repeated operation and a stale card, and rolls back when the
\* single-item list or the withdrawal is already there.
CommitAllowed(h) ==
    LET request == panel[h].request
        card == panel[h].card
    IN /\ saved[request.key] = None
       /\ cards[request.batch] # None /\ cards[request.batch].revision = card.revision
       /\ request.action = "approved" => ~Known(Child(request))
       /\ Closes(card, request) => request.batch \notin withdrawn

\* commit: the card, the exact approval, the event and the withdrawal of a list
\* whose items are all decided, as one transaction.
PanelCommit(h) ==
    /\ PanelAt(h, "commit") /\ CommitAllowed(h)
    /\ LET request == panel[h].request
           card == panel[h].card
           child == Child(request)
           approve == request.action = "approved"
       IN /\ cards' = [cards EXCEPT ![request.batch] = Revised(card, request)]
          /\ batches' = IF approve THEN [batches EXCEPT ![child] = <<ItemOf(child)>>]
                        ELSE batches
          /\ asks' = IF approve THEN [asks EXCEPT ![child] = panel[h].at] ELSE asks
          /\ approvals' = IF approve
                          THEN [approvals EXCEPT ![child] =
                                   [numbers |-> {1}, at |-> panel[h].at]]
                          ELSE approvals
          /\ withdrawn' = IF Closes(card, request) THEN withdrawn \cup {request.batch}
                          ELSE withdrawn
          /\ saved' = [saved EXCEPT ![request.key] = request]
    /\ PanelDone(h)
    /\ UNCHANGED <<now, jobRev, evidenceRev, leases, audits, feedback>>

\* A refused commit, or a request whose process died: the client may ask again.
PanelGiveUp(h) ==
    /\ panel[h] # None
    /\ PanelDone(h)
    /\ UNCHANGED <<ledgerVars, saved, feedback>>

-----------------------------------------------------------------------------
\* Mutant: the approval is not consulted, and a later signal overwrites an earlier one.
FeedbackUnchecked(b, said) ==
    LET numbers == {n \in Numbers : said[n] # None}
    IN /\ Known(b) /\ asks[b] # None
       /\ numbers # {} /\ numbers \subseteq DOMAIN batches[b]
       /\ feedback' = [feedback EXCEPT ![b] =
              [n \in Numbers |-> IF n \in numbers THEN said[n] ELSE feedback[b][n]]]
       /\ UNCHANGED <<ledgerVars, panel, saved>>

\* record_outreach_feedback: one request decides several items, all or none.  An
\* approval signal mirrors an approval, no other signal may contradict one, and a
\* replay that says the same again is a no-op.
Feedback(b, said) ==
    LET numbers == {n \in Numbers : said[n] # None}
    IN /\ Known(b) /\ asks[b] # None
       /\ numbers # {} /\ numbers \subseteq DOMAIN batches[b]
       /\ \A n \in numbers : (said[n] = "approved") <=> ApprovedItem(<<b, n>>)
       /\ \A n \in numbers : feedback[b][n] \in {None, said[n]}
       /\ feedback' = [feedback EXCEPT ![b] =
              [n \in Numbers |-> IF n \in numbers THEN said[n] ELSE feedback[b][n]]]
       /\ UNCHANGED <<ledgerVars, panel, saved>>

-----------------------------------------------------------------------------

PanelStep(h) ==
    \/ \E request \in Request : PanelRead(h, request)
    \/ PanelRegister(h) \/ PanelPrepare(h) \/ PanelCommit(h) \/ PanelGiveUp(h)

FeedbackStep ==
    \E b \in BatchId, said \in [Numbers -> Signals \cup {None}] : Feedback(b, said)

=============================================================================
