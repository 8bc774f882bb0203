--------------------------- MODULE OutreachProofs ---------------------------
(***************************************************************************)
(* Proofs about OutreachSystem: for every number of sessions, workers,     *)
(* panel requests, lists and jobs, and every cap, gap and lease.  The      *)
(* inductive invariant is SafetyInvariant of OutreachSystem.               *)
(***************************************************************************)
EXTENDS OutreachSystem, TLAPS

-----------------------------------------------------------------------------
(* What a session carries at each statement of a command.                  *)

\* The fields of a session's state follow from the statement it is at.
LEMMA CarriedTypes ==
    ASSUME NEW c \in CliState
    PROVE  /\ c.pc = "draft_build" => c.batch \in Batches
           /\ c.pc = "draft_save" => c.batch \in Batches /\ c.items \in ItemLists
           /\ c.pc = "ask_save" => c.batch \in BatchId /\ c.at \in Nat
           /\ c.pc = "approve_answer" =>
                c.batch \in BatchId /\ c.numbers \in SUBSET Numbers
           /\ c.pc = "approve_save" =>
                c.batch \in BatchId /\ c.numbers \in SUBSET Numbers /\ c.at \in Nat
           /\ c.pc = "withdraw_save" => c.batch \in BatchId
           /\ c.pc = "lease_save" => c.platform \in Platforms /\ c.at \in Nat
           /\ c.pc = "next_lease" => c.batch \in BatchId /\ c.platform \in Platforms
           /\ c.pc \in {"next_renew", "next_renew_save"} =>
                c.batch \in BatchId /\ c.platform \in Platforms /\ c.at \in Nat
           /\ c.pc = "next_decide" =>
                /\ c.batch \in BatchId /\ c.platform \in Platforms
                /\ c.held \in BOOLEAN /\ c.at \in Nat
           /\ c.pc = "record_save" =>
                c.item \in ItemKey /\ c.result \in Results /\ c.at \in Nat
  BY DEF CliState, Idle

-----------------------------------------------------------------------------
(* Type correctness, one step per statement of a command.                  *)

\* A row written for a listed item, from a stamped time, is a row of the table.
LEMMA AuditRowTyped ==
    ASSUME LedgerTypeOK, NEW i \in ItemKey, i[2] \in DOMAIN batches[i[1]],
           NEW result \in Results, NEW t \in Nat
    PROVE  AuditRow(i, result, t) \in Audit
  <1>1. /\ i[1] \in BatchId /\ i[2] \in Numbers
    BY DEF ItemKey
  <1>2. batches[i[1]] \in Seq(Item)
    BY <1>1 DEF LedgerTypeOK, ItemLists
  <1>3. ItemOf(i) \in Item
    BY <1>2 DEF ItemOf
  <1>4. SiteOf(i) \in Platforms
    BY <1>3, LedgerAssumption DEF SiteOf, Item
  <1> QED
    BY <1>1, <1>3, <1>4 DEF AuditRow, Audit, Item

\* What was approved is on the list it was approved on.
LEMMA ApprovedListed ==
    ASSUME ApprovalAnswersQuestion, NEW i \in ItemKey, ApprovedItem(i)
    PROVE  /\ i[1] \in BatchId /\ i[2] \in Numbers
           /\ i[2] \in DOMAIN batches[i[1]] /\ Known(i[1])
  <1>1. i[1] \in BatchId /\ i[2] \in Numbers
    BY DEF ItemKey
  <1>2. i[2] \in DOMAIN batches[i[1]]
    BY <1>1 DEF ApprovalAnswersQuestion, ApprovedItem
  <1> QED
    BY <1>1, <1>2 DEF Known

\* Type correctness over the statements of the CLI commands.
LEMMA CliTyped ==
    ASSUME TypeOK, ApprovalAnswersQuestion, CarriedSound, NEW s \in Sessions, CliStep(s),
           UNCHANGED <<workerVars, decisionVars>>
    PROVE  TypeOK'
  <1>. USE DEF TypeOK
  <1>1. /\ cli[s] \in CliState /\ cli \in [Sessions -> CliState]
        /\ hand \in [Sessions -> ItemKey \cup {None}]
    BY DEF CliTypeOK
  <1>2. WorkerTypeOK' /\ DecisionsTypeOK'
    BY DEF WorkerTypeOK, DecisionsTypeOK, workerVars, decisionVars
  <1>3. ASSUME NEW c \in CliState, Goto(s, c) PROVE cli' \in [Sessions -> CliState]
    BY <1>1, <1>3 DEF Goto
  <1>4. ASSUME Done(s) PROVE cli' \in [Sessions -> CliState]
    BY <1>3, <1>4 DEF Done, CliState
  <1>5. ASSUME UNCHANGED ledgerVars PROVE LedgerTypeOK'
    BY <1>5 DEF LedgerTypeOK, ledgerVars, outreachVars
  <1>6. ASSUME NEW c \in CliState, Goto(s, c), UNCHANGED <<ledgerVars, hand>> PROVE TypeOK'
    BY <1>1, <1>2, <1>3, <1>5, <1>6 DEF CliTypeOK
  <1>7. ASSUME Done(s), UNCHANGED <<ledgerVars, hand>> PROVE TypeOK'
    BY <1>6, <1>7 DEF Done, CliState
  <1>8. CASE \E b \in Batches, drafts \in DraftLists : DraftRead(s, b, drafts)
    <2>1. PICK b \in Batches, drafts \in DraftLists : DraftRead(s, b, drafts)
      BY <1>8
    <2>. DEFINE found == [j \in Jobs |-> IF Contains(drafts, j) THEN jobRev[j] ELSE 0]
                c == [pc |-> "draft_build", batch |-> b, drafts |-> drafts,
                      found |-> found, evidence |-> evidenceRev]
    <2>2. found \in [Jobs -> Nat] /\ evidenceRev \in Nat
      BY DEF LedgerTypeOK
    <2>3. c \in CliState
      BY <2>2 DEF CliState
    <2>4. Goto(s, c) /\ UNCHANGED <<ledgerVars, hand>>
      BY <2>1 DEF DraftRead
    <2>. HIDE DEF c
    <2> QED
      BY <2>3, <2>4, <1>6
  <1>9. CASE DraftBuild(s)
    <2>. DEFINE items == BuildItems(cli[s].drafts, cli[s].found, cli[s].evidence)
                c == [pc |-> "draft_save", batch |-> cli[s].batch, items |-> items]
    <2>1. UNCHANGED <<ledgerVars, hand>> /\ cli[s].batch \in Batches
      BY <1>1, <1>9, CarriedTypes DEF DraftBuild, At
    <2>2. CASE items \in ItemLists
      <3>1. c \in CliState
        BY <2>1, <2>2 DEF CliState
      <3>2. Goto(s, c)
        BY <1>9, <2>2 DEF DraftBuild
      <3> QED
        BY <2>1, <3>1, <3>2, <1>6
    <2>3. CASE items \notin ItemLists
      BY <1>9, <2>1, <2>3, <1>7 DEF DraftBuild
    <2> QED
      BY <2>2, <2>3
  <1>10. CASE DraftSave(s)
    <2>1. cli[s].batch \in BatchId /\ cli[s].items \in ItemLists
      BY <1>1, <1>10, CarriedTypes DEF DraftSave, At, BatchId
    <2>2. LedgerTypeOK'
      BY <1>10, <2>1 DEF DraftSave, LedgerTypeOK
    <2> QED
      BY <1>1, <1>2, <1>4, <1>10, <2>2 DEF DraftSave, CliTypeOK
  <1>11. CASE \E b \in BatchId : AskRead(s, b)
    <2>1. PICK b \in BatchId : AskRead(s, b)
      BY <1>11
    <2>2. [pc |-> "ask_save", batch |-> b, at |-> now] \in CliState
      BY DEF CliState, LedgerTypeOK
    <2> QED
      BY <2>1, <2>2, <1>6 DEF AskRead
  <1>12. CASE AskSave(s)
    <2>1. cli[s].batch \in BatchId /\ cli[s].at \in Nat
      BY <1>1, <1>12, CarriedTypes DEF AskSave, At
    <2>2. LedgerTypeOK'
      BY <1>12, <2>1 DEF AskSave, LedgerTypeOK
    <2> QED
      BY <1>1, <1>2, <1>4, <1>12, <2>2 DEF AskSave, CliTypeOK
  <1>13. CASE \E b \in BatchId, numbers \in SUBSET Numbers : ApproveRead(s, b, numbers)
    <2>1. PICK b \in BatchId, numbers \in SUBSET Numbers : ApproveRead(s, b, numbers)
      BY <1>13
    <2>2. [pc |-> "approve_answer", batch |-> b, numbers |-> numbers] \in CliState
      BY DEF CliState
    <2> QED
      BY <2>1, <2>2, <1>6 DEF ApproveRead
  <1>14. CASE ApproveAnswer(s)
    <2>1. cli[s].batch \in BatchId /\ cli[s].numbers \in SUBSET Numbers /\ now \in Nat
      BY <1>1, <1>14, CarriedTypes DEF ApproveAnswer, At, LedgerTypeOK
    <2>2. [pc |-> "approve_save", batch |-> cli[s].batch, numbers |-> cli[s].numbers,
           at |-> now] \in CliState
      BY <2>1 DEF CliState
    <2> QED
      BY <1>14, <2>2, <1>6, <1>7 DEF ApproveAnswer
  <1>15. CASE ApproveSave(s)
    <2>1. /\ cli[s].batch \in BatchId
          /\ cli[s].numbers \in SUBSET Numbers /\ cli[s].at \in Nat
      BY <1>1, <1>15, CarriedTypes DEF ApproveSave, At
    <2>2. [numbers |-> cli[s].numbers, at |-> cli[s].at] \in Approval
      BY <2>1 DEF Approval
    <2>3. approvals' \in [BatchId -> Approval \cup {None}]
      BY <1>15, <2>1, <2>2 DEF ApproveSave, LedgerTypeOK
    <2>4. LedgerTypeOK'
      BY <1>15, <2>3 DEF ApproveSave, LedgerTypeOK
    <2> QED
      BY <1>1, <1>2, <1>4, <1>15, <2>4 DEF ApproveSave, CliTypeOK
  <1>16. CASE \E b \in BatchId : WithdrawRead(s, b)
    <2>1. PICK b \in BatchId : WithdrawRead(s, b)
      BY <1>16
    <2>2. [pc |-> "withdraw_save", batch |-> b] \in CliState
      BY DEF CliState
    <2> QED
      BY <2>1, <2>2, <1>6 DEF WithdrawRead
  <1>17. CASE WithdrawSave(s)
    <2>1. cli[s].batch \in BatchId
      BY <1>1, <1>17, CarriedTypes DEF WithdrawSave, At
    <2>2. LedgerTypeOK'
      BY <1>17, <2>1 DEF WithdrawSave, LedgerTypeOK
    <2> QED
      BY <1>1, <1>2, <1>4, <1>17, <2>2 DEF WithdrawSave, CliTypeOK
  <1>18. CASE \E p \in Platforms : LeaseRead(s, p)
    <2>1. PICK p \in Platforms : LeaseRead(s, p)
      BY <1>18
    <2>2. [pc |-> "lease_save", platform |-> p, at |-> now] \in CliState
      BY DEF CliState, LedgerTypeOK
    <2> QED
      BY <2>1, <2>2, <1>6 DEF LeaseRead
  <1>19. ASSUME NEW p \in Platforms, NEW t \in Nat, WriteLease(p, s, t)
         PROVE  leases' \in [Platforms -> Lease \cup {None}]
    <2>1. [session |-> s, expires |-> t + LeaseTicks] \in Lease
      BY LedgerAssumption DEF Lease
    <2> QED
      BY <1>19, <2>1 DEF WriteLease, LedgerTypeOK
  <1>20. CASE LeaseSave(s)
    <2>1. cli[s].platform \in Platforms /\ cli[s].at \in Nat
      BY <1>1, <1>20, CarriedTypes DEF LeaseSave, At
    <2>2. leases' \in [Platforms -> Lease \cup {None}]
      BY <1>20, <2>1, <1>19 DEF LeaseSave
    <2>3. LedgerTypeOK'
      BY <1>20, <2>2 DEF LeaseSave, LedgerTypeOK
    <2> QED
      BY <1>1, <1>2, <1>4, <1>20, <2>3 DEF LeaseSave, CliTypeOK
  <1>21. CASE \E p \in Platforms : LeaseRelease(s, p)
    <2>1. LedgerTypeOK'
      BY <1>21 DEF LeaseRelease, LedgerTypeOK
    <2> QED
      BY <1>1, <1>2, <1>21, <2>1 DEF LeaseRelease, CliTypeOK, cliVars
  <1>22. CASE \E b \in BatchId, p \in Platforms : NextRead(s, b, p)
    <2>1. PICK b \in BatchId, p \in Platforms : NextRead(s, b, p)
      BY <1>22
    <2>2. [pc |-> "next_lease", batch |-> b, platform |-> p] \in CliState
      BY DEF CliState
    <2> QED
      BY <2>1, <2>2, <1>6 DEF NextRead
  <1>23. CASE NextLease(s)
    <2>1. cli[s].batch \in BatchId /\ cli[s].platform \in Platforms /\ now \in Nat
      BY <1>1, <1>23, CarriedTypes DEF NextLease, At, LedgerTypeOK
    <2>2. /\ [pc |-> "next_renew", batch |-> cli[s].batch,
              platform |-> cli[s].platform, at |-> now] \in CliState
          /\ [pc |-> "next_decide", batch |-> cli[s].batch,
              platform |-> cli[s].platform, held |-> FALSE, at |-> now] \in CliState
      BY <2>1 DEF CliState
    <2> QED
      BY <1>23, <2>2, <1>6 DEF NextLease
  <1>24. ASSUME At(s, "next_renew") \/ At(s, "next_renew_save")
         PROVE  /\ cli[s].platform \in Platforms /\ cli[s].at \in Nat
                /\ [pc |-> "next_decide", batch |-> cli[s].batch,
                    platform |-> cli[s].platform, held |-> TRUE, at |-> cli[s].at]
                        \in CliState
    <2>1. /\ cli[s].batch \in BatchId
          /\ cli[s].platform \in Platforms /\ cli[s].at \in Nat
      BY <1>1, <1>24, CarriedTypes DEF At
    <2> QED
      BY <2>1 DEF CliState
  <1>25. CASE NextRenew(s)
    <2>1. At(s, "next_renew")
      BY <1>25 DEF NextRenew
    <2>2. [cli[s] EXCEPT !.pc = "next_renew_save"] \in CliState
      BY <1>1, <2>1 DEF At, CliState, Idle
    <2> QED
      BY <1>25, <2>1, <2>2, <1>24, <1>6 DEF NextRenew, Decide
  <1>26. CASE NextRenewSave(s)
    <2>1. leases' \in [Platforms -> Lease \cup {None}]
      BY <1>26, <1>19, <1>24 DEF NextRenewSave
    <2>2. LedgerTypeOK'
      BY <1>26, <2>1 DEF NextRenewSave, LedgerTypeOK
    <2>3. cli' \in [Sessions -> CliState]
      BY <1>26, <1>3, <1>24 DEF NextRenewSave, Decide
    <2> QED
      BY <1>1, <1>2, <1>26, <2>2, <2>3 DEF NextRenewSave, CliTypeOK
  <1>27. CASE NextDecide(s)
    <2>1. cli[s].batch \in BatchId
      BY <1>1, <1>27, CarriedTypes DEF NextDecide, At
    <2>2. hand' \in [Sessions -> ItemKey \cup {None}]
      BY <1>1, <1>27, <2>1 DEF NextDecide, ItemKey
    <2> QED
      BY <1>2, <1>4, <1>5, <1>27, <2>2 DEF NextDecide, CliTypeOK
  <1>28. CASE \E i \in ItemKey, result \in Recordable : RecordRead(s, i, result)
    <2>1. PICK i \in ItemKey, result \in Recordable : RecordRead(s, i, result)
      BY <1>28
    <2>2. [pc |-> "record_save", item |-> i, result |-> result, at |-> now] \in CliState
      BY CliAssumption DEF CliState, LedgerTypeOK
    <2> QED
      BY <2>1, <2>2, <1>6 DEF RecordRead
  <1>29. CASE RecordSave(s)
    <2>1. /\ cli[s].item \in ItemKey /\ cli[s].result \in Results /\ cli[s].at \in Nat
          /\ ApprovedItem(cli[s].item)
      BY <1>1, <1>29, CarriedTypes DEF RecordSave, At, CarriedSound, AnswerSound
    <2>. DEFINE row == AuditRow(cli[s].item, cli[s].result, cli[s].at)
    <2>2. row \in Audit
      BY <2>1, ApprovedListed, AuditRowTyped
    <2>3. audits' = audits \/ audits' = Append(audits, row)
      BY <1>29 DEF RecordSave, AppendAudit
    <2>4. audits' \in Seq(Audit)
      <3>. HIDE DEF row
      <3> QED
        BY <2>2, <2>3 DEF LedgerTypeOK
    <2>5. LedgerTypeOK'
      BY <1>29, <2>4 DEF RecordSave, LedgerTypeOK
    <2>6. hand' \in [Sessions -> ItemKey \cup {None}]
      BY <1>1, <1>29, <2>1 DEF RecordSave
    <2> QED
      BY <1>2, <1>4, <1>29, <2>5, <2>6 DEF RecordSave, CliTypeOK
  <1>30. CASE Crash(s)
    BY <1>1, <1>2, <1>4, <1>5, <1>30 DEF Crash, CliTypeOK
  <1> QED
    BY <1>8, <1>9, <1>10, <1>11, <1>12, <1>13, <1>14, <1>15, <1>16, <1>17, <1>18, <1>20,
       <1>21, <1>22, <1>23, <1>25, <1>26, <1>27, <1>28, <1>29, <1>30 DEF CliStep

\* Whatever a worker reads back, the gateway files one of the five results.
LEMMA SettledTyped ==
    ASSUME NEW i, NEW readback \in Readback
    PROVE  Settled(i, readback) \in Results
  BY DEF Settled, Readback, Observed, Results, CountsAsContact

\* Type correctness over the gateway's transactions.
LEMMA WorkerTyped ==
    ASSUME TypeOK, ApprovalAnswersQuestion, ClaimsApproved,
           (\E w \in Workers : WorkerStep(w)) \/ FetchStep \/ AckStep,
           UNCHANGED <<cliVars, decisionVars>>
    PROVE  TypeOK'
  <1>. USE DEF TypeOK
  <1>1. CliTypeOK' /\ DecisionsTypeOK'
    BY DEF CliTypeOK, DecisionsTypeOK, cliVars, decisionVars
  <1>2. ASSUME UNCHANGED ledgerVars PROVE LedgerTypeOK'
    BY <1>2 DEF LedgerTypeOK, ledgerVars, outreachVars
  <1>3. CASE FetchStep
    <2>1. PICK t \in Tasks, fetch \in Fetches : \E stored \in SUBSET fetch :
              \E changed \in SUBSET stored : Ingest(t, fetch, stored, changed)
      BY <1>3 DEF FetchStep
    <2>2. PICK stored \in SUBSET fetch : \E changed \in SUBSET stored :
              Ingest(t, fetch, stored, changed)
      BY <2>1
    <2>3. PICK changed \in SUBSET stored : Ingest(t, fetch, stored, changed)
      BY <2>2
    <2>4. LedgerTypeOK'
      BY <2>3 DEF Ingest, LedgerTypeOK, outreachVars
    <2>5. WorkerTypeOK'
      BY <2>3 DEF Ingest, WorkerTypeOK
    <2> QED
      BY <1>1, <2>4, <2>5
  <1>4. CASE AckStep
    BY <1>1, <1>2, <1>4 DEF AckStep, Acknowledge, WorkerTypeOK
  <1>5. ASSUME NEW w \in Workers, NEW b \in BatchId, NEW p \in Platforms,
               ClaimGreeting(w, b, p)
        PROVE  TypeOK'
    <2>1. PICK n \in Numbers :
              claims' = [claims EXCEPT ![<<b, n>>] = [worker |-> w, status |-> "claimed"]]
      BY <1>5 DEF ClaimGreeting
    <2>2. [worker |-> w, status |-> "claimed"] \in Claim
      BY WorkerAssumption DEF Claim
    <2>3. WorkerTypeOK'
      BY <1>5, <2>1, <2>2 DEF ClaimGreeting, WorkerTypeOK
    <2> QED
      BY <1>1, <1>2, <1>5, <2>3 DEF ClaimGreeting
  <1>6. ASSUME NEW i \in ItemKey, Claimed(i),
               NEW status \in {"authorized", "completed"},
               claims' = [claims EXCEPT ![i].status = status]
        PROVE  claims' \in [ItemKey -> Claim \cup {None}]
    <2>1. claims[i] \in Claim
      BY <1>6 DEF WorkerTypeOK, Claimed
    <2>2. [claims[i] EXCEPT !.status = status] \in Claim
      BY <2>1, <1>6 DEF Claim
    <2> QED
      BY <1>6, <2>2 DEF WorkerTypeOK
  <1>7. ASSUME NEW w \in Workers, NEW i \in ItemKey, AuthorizeGreeting(w, i)
        PROVE  TypeOK'
    <2>1. claims' \in [ItemKey -> Claim \cup {None}]
      BY <1>6, <1>7 DEF AuthorizeGreeting
    <2>2. WorkerTypeOK'
      BY <1>7, <2>1 DEF AuthorizeGreeting, WorkerTypeOK
    <2> QED
      BY <1>1, <1>2, <1>7, <2>2 DEF AuthorizeGreeting
  <1>8. ASSUME NEW w \in Workers, NEW i \in ItemKey, NEW readback \in Readback,
               RecordGreeting(w, i, readback)
        PROVE  TypeOK'
    <2>. DEFINE row == AuditRow(i, Settled(i, readback), now)
    <2>1. ApprovedItem(i) /\ Claimed(i)
      BY <1>8 DEF RecordGreeting, Open, ClaimsApproved
    <2>2. row \in Audit
      BY <2>1, ApprovedListed, AuditRowTyped, SettledTyped DEF LedgerTypeOK
    <2>3. audits' = Append(audits, row)
      BY <1>8 DEF RecordGreeting, AppendAudit
    <2>4. audits' \in Seq(Audit)
      <3>. HIDE DEF row
      <3> QED
        BY <2>2, <2>3 DEF LedgerTypeOK
    <2>5. LedgerTypeOK'
      BY <1>8, <2>4 DEF RecordGreeting, LedgerTypeOK
    <2>6. claims' \in [ItemKey -> Claim \cup {None}]
      BY <1>6, <1>8, <2>1 DEF RecordGreeting
    <2>7. WorkerTypeOK'
      BY <1>8, <2>6 DEF RecordGreeting, WorkerTypeOK
    <2> QED
      BY <1>1, <2>5, <2>7
  <1> QED
    BY <1>3, <1>4, <1>5, <1>7, <1>8 DEF WorkerStep

\* The item an open request is about, and the id of the list it may derive.
LEMMA RequestItem ==
    ASSUME LedgerTypeOK, NEW request \in Request,
           request.number \in DOMAIN batches[request.batch]
    PROVE  /\ request.batch \in BatchId /\ request.number \in Numbers
           /\ Child(request) \in Children /\ Child(request) \in BatchId
           /\ ItemOf(Child(request)) \in Item
           /\ <<ItemOf(Child(request))>> \in ItemLists
  <1>1. request.batch \in Batches /\ request.number \in Numbers /\ OpKeys # {}
    BY DEF Request
  <1>2. Child(request) \in Children /\ Child(request) \in BatchId
    BY <1>1, DecisionsAssumption DEF Child, BatchId
  <1>3. request.batch \in BatchId
    BY <1>1 DEF BatchId
  <1>4. batches[request.batch] \in Seq(Item)
    BY <1>3 DEF LedgerTypeOK, ItemLists
  <1>5. ItemOf(Child(request)) \in Item
    BY <1>4 DEF ItemOf, Child
  <1>. DEFINE item == ItemOf(Child(request))
  <1>6. <<item>> \in Seq(Item) /\ <<item>> # <<>> /\ DOMAIN <<item>> = {1}
    <2>. HIDE DEF item
    <2> QED
      BY <1>5 DEF item
  <1>7. {1} \subseteq Numbers
    BY LedgerAssumption DEF Numbers
  <1> QED
    BY <1>1, <1>2, <1>3, <1>5, <1>6, <1>7 DEF ItemLists

\* A request is typed, and so is the card it read.
LEMMA PanelTypes ==
    ASSUME DecisionsTypeOK, NEW h \in Handlers, panel[h] # None
    PROVE  /\ panel[h].request \in Request /\ panel[h].at \in Nat
           /\ panel[h].pc = "commit" => panel[h].card \in Card
  BY DEF DecisionsTypeOK, PanelState

\* Type correctness over the panel's statements and recorded feedback.
LEMMA PanelTyped ==
    ASSUME TypeOK, CarriedSound,
           (\E h \in Handlers : PanelStep(h)) \/ FeedbackStep,
           UNCHANGED <<cliVars, workerVars>>
    PROVE  TypeOK'
  <1>. USE DEF TypeOK
  <1>1. CliTypeOK' /\ WorkerTypeOK'
    BY DEF CliTypeOK, WorkerTypeOK, cliVars, workerVars
  <1>2. ASSUME UNCHANGED ledgerVars PROVE LedgerTypeOK'
    BY <1>2 DEF LedgerTypeOK, ledgerVars, outreachVars
  <1>3. ASSUME NEW h \in Handlers, PanelDone(h)
        PROVE  panel' \in [Handlers -> PanelState \cup {None}]
    BY <1>3 DEF PanelDone, DecisionsTypeOK
  <1>4. CASE FeedbackStep
    <2>1. PICK b \in BatchId, said \in [Numbers -> Signals \cup {None}] : Feedback(b, said)
      BY <1>4 DEF FeedbackStep
    <2>. DEFINE numbers == {n \in Numbers : said[n] # None}
                row == [n \in Numbers |-> IF n \in numbers THEN said[n] ELSE feedback[b][n]]
    <2>2. row \in [Numbers -> Decisions \cup {None}]
      BY DecisionsAssumption DEF DecisionsTypeOK
    <2>3. feedback' = [feedback EXCEPT ![b] = row]
      BY <2>1 DEF Feedback
    <2>4. feedback' \in [BatchId -> [Numbers -> Decisions \cup {None}]]
      <3>. HIDE DEF row
      <3> QED
        BY <2>2, <2>3 DEF DecisionsTypeOK
    <2> QED
      BY <1>1, <1>2, <2>1, <2>4 DEF Feedback, DecisionsTypeOK
  <1>5. ASSUME NEW h \in Handlers, NEW request \in Request, PanelRead(h, request)
        PROVE  TypeOK'
    <2>1. [pc |-> "card", request |-> request, at |-> now] \in PanelState
      BY DEF PanelState, LedgerTypeOK
    <2> QED
      BY <1>1, <1>2, <1>5, <2>1 DEF PanelRead, DecisionsTypeOK
  <1>6. ASSUME NEW h \in Handlers, PanelRegister(h)
        PROVE  TypeOK'
    <2>1. panel[h].request.batch \in BatchId
      BY <1>6, PanelTypes DEF PanelRegister, PanelAt, Request, BatchId
    <2>2. NewCard \in Card
      BY DEF NewCard, Card
    <2>3. LedgerTypeOK'
      BY <1>6, <2>1, <2>2 DEF PanelRegister, LedgerTypeOK
    <2>4. DecisionsTypeOK'
      BY <1>6 DEF PanelRegister, DecisionsTypeOK, decisionVars
    <2> QED
      BY <1>1, <2>3, <2>4
  <1>7. ASSUME NEW h \in Handlers, PanelPrepare(h)
        PROVE  TypeOK'
    <2>. DEFINE request == panel[h].request
                card == cards[request.batch]
    <2>1. request \in Request /\ request.batch \in BatchId /\ panel[h].at \in Nat
      BY <1>7, PanelTypes DEF PanelPrepare, PanelAt, Request, BatchId
    <2>2. card \in Card
      BY <1>7, <2>1 DEF PanelPrepare, LedgerTypeOK
    <2>3. [pc |-> "commit", request |-> request, at |-> panel[h].at, card |-> card]
              \in PanelState
      BY <2>1, <2>2 DEF PanelState
    <2>4. panel' \in [Handlers -> PanelState \cup {None}]
      BY <1>3, <1>7, <2>3 DEF PanelPrepare, DecisionsTypeOK
    <2> QED
      BY <1>1, <1>2, <1>7, <2>4 DEF PanelPrepare, DecisionsTypeOK
  <1>8. ASSUME NEW h \in Handlers, PanelCommit(h)
        PROVE  TypeOK'
    <2>. DEFINE request == panel[h].request
                card == panel[h].card
                child == Child(request)
    <2>1. /\ request \in Request /\ panel[h].at \in Nat /\ card \in Card
          /\ request.number \in DOMAIN batches[request.batch]
      BY <1>8, PanelTypes DEF PanelCommit, PanelAt, CarriedSound, PanelSound
    <2>2. /\ request.batch \in BatchId /\ child \in BatchId
          /\ <<ItemOf(child)>> \in ItemLists
      BY <2>1, RequestItem
    <2>3. Revised(card, request) \in Card
      BY <2>1 DEF Revised, Card, Request
    <2>4. [numbers |-> {1}, at |-> panel[h].at] \in Approval
      BY <2>1, LedgerAssumption DEF Approval, Numbers
    <2>5. /\ cards' \in [BatchId -> Card \cup {None}]
          /\ batches' \in [BatchId -> ItemLists \cup {<<>>}]
          /\ asks' \in [BatchId -> Nat \cup {None}]
      BY <1>8, <2>1, <2>2, <2>3 DEF PanelCommit, LedgerTypeOK
    <2>6. /\ approvals' \in [BatchId -> Approval \cup {None}]
          /\ withdrawn' \subseteq BatchId
      BY <1>8, <2>2, <2>4 DEF PanelCommit, LedgerTypeOK
    <2>7. LedgerTypeOK'
      BY <1>8, <2>5, <2>6 DEF PanelCommit, LedgerTypeOK
    <2>8. saved' \in [OpKeys -> Request \cup {None}]
      BY <1>8, <2>1 DEF PanelCommit, DecisionsTypeOK, Request
    <2> QED
      BY <1>1, <1>3, <1>8, <2>7, <2>8 DEF PanelCommit, DecisionsTypeOK
  <1>9. ASSUME NEW h \in Handlers, PanelGiveUp(h)
        PROVE  TypeOK'
    BY <1>1, <1>2, <1>3, <1>9 DEF PanelGiveUp, DecisionsTypeOK
  <1> QED
    BY <1>4, <1>5, <1>6, <1>7, <1>8, <1>9 DEF PanelStep

-----------------------------------------------------------------------------
(* What no step undoes: a stored list, an approval and a question stay.    *)

Frozen == \A b \in BatchId :
    /\ Known(b) => batches'[b] = batches[b]
    /\ Approved(b) => approvals'[b] = approvals[b]
    /\ asks[b] # None => asks'[b] # None

\* No step undoes a stored list, an approval, or the fact that a question was put.
LEMMA FrozenStep ==
    ASSUME TypeOK, ApprovalAnswersQuestion, CarriedSound, [Next]_vars
    PROVE  Frozen
  <1>. USE DEF TypeOK
  <1>1. ASSUME UNCHANGED <<batches, approvals, asks>> PROVE Frozen
    BY <1>1 DEF Frozen
  <1>2. ASSUME NEW s \in Sessions, CliStep(s) PROVE Frozen
    <2>1. cli[s] \in CliState
      BY DEF CliTypeOK
    <2>2. CASE DraftSave(s)
      <3>1. cli[s].batch \in BatchId /\ ~Known(cli[s].batch)
        BY <2>1, <2>2, CarriedTypes
           DEF DraftSave, At, BatchId, CarriedSound, DraftApart, Drafting
      <3>2. \A b \in BatchId : Known(b) => batches'[b] = batches[b]
        BY <2>2, <3>1 DEF DraftSave, LedgerTypeOK
      <3> QED
        BY <2>2, <3>2 DEF DraftSave, Frozen
    <2>3. CASE AskSave(s)
      <3>1. cli[s].batch \in BatchId /\ cli[s].at # None
        BY <2>1, <2>3, CarriedTypes, LedgerAssumption DEF AskSave, At
      <3> QED
        BY <2>3, <3>1 DEF AskSave, Frozen, LedgerTypeOK
    <2>4. CASE ApproveSave(s)
      <3>1. \A b \in BatchId : Approved(b) => approvals'[b] = approvals[b]
        BY <2>4 DEF ApproveSave, LedgerTypeOK, Approved
      <3> QED
        BY <2>4, <3>1 DEF ApproveSave, Frozen
    <2> QED
      BY <1>1, <1>2, <2>2, <2>3, <2>4
         DEF CliStep, DraftRead, DraftBuild, AskRead, ApproveRead, ApproveAnswer,
             WithdrawRead, WithdrawSave, LeaseRead, LeaseSave, LeaseRelease, NextRead,
             NextLease, NextRenew, NextRenewSave, NextDecide, RecordRead, RecordSave,
             Crash, ledgerVars, outreachVars
  <1>3. ASSUME (\E w \in Workers : WorkerStep(w)) \/ FetchStep \/ AckStep PROVE Frozen
    BY <1>1, <1>3
       DEF WorkerStep, ClaimGreeting, AuthorizeGreeting, RecordGreeting, FetchStep,
           Ingest, AckStep, Acknowledge, ledgerVars, outreachVars
  <1>4. ASSUME NEW h \in Handlers, PanelCommit(h) PROVE Frozen
    <2>. DEFINE request == panel[h].request
                child == Child(request)
    <2>1. /\ request \in Request /\ panel[h].at \in Nat
          /\ request.number \in DOMAIN batches[request.batch]
      BY <1>4, PanelTypes DEF PanelCommit, PanelAt, CarriedSound, PanelSound
    <2>2. child \in BatchId
      BY <2>1, RequestItem
    <2>3. CASE request.action = "approved"
      <3>1. ~Known(child)
        BY <1>4, <2>3 DEF PanelCommit, CommitAllowed
      <3>2. ~Approved(child)
        BY <2>2, <3>1 DEF ApprovalAnswersQuestion, Known
      <3>3. /\ batches' = [batches EXCEPT ![child] = <<ItemOf(child)>>]
            /\ approvals' = [approvals EXCEPT ![child] =
                                [numbers |-> {1}, at |-> panel[h].at]]
            /\ asks' = [asks EXCEPT ![child] = panel[h].at]
        BY <1>4, <2>3 DEF PanelCommit
      <3>4. panel[h].at # None
        BY <2>1, LedgerAssumption
      <3>. HIDE DEF child
      <3> QED
        BY <2>2, <3>1, <3>2, <3>3, <3>4 DEF Frozen, LedgerTypeOK
    <2>4. CASE request.action # "approved"
      BY <1>1, <1>4, <2>4 DEF PanelCommit
    <2> QED
      BY <2>3, <2>4
  <1>5. ASSUME (\E h \in Handlers : PanelStep(h)) \/ FeedbackStep PROVE Frozen
    BY <1>1, <1>4, <1>5
       DEF PanelStep, PanelRead, PanelRegister, PanelPrepare, PanelGiveUp, FeedbackStep,
           Feedback, ledgerVars, outreachVars
  <1>6. CASE UNCHANGED vars \/ Tick \/ EditEvidence
    BY <1>1, <1>6 DEF vars, Tick, EditEvidence, ledgerVars, outreachVars
  <1> QED
    BY <1>2, <1>3, <1>5, <1>6 DEF Next, Cli, Worker, Panel

\* An approved item stays approved, and stays the item it was.
LEMMA ApprovedStays ==
    ASSUME ApprovalAnswersQuestion, Frozen, NEW i \in ItemKey, ApprovedItem(i)
    PROVE  ApprovedItem(i)' /\ ItemOf(i)' = ItemOf(i) /\ SiteOf(i)' = SiteOf(i)
  <1>1. Known(i[1]) /\ i[1] \in BatchId
    BY ApprovedListed
  <1>2. approvals'[i[1]] = approvals[i[1]] /\ batches'[i[1]] = batches[i[1]]
    BY <1>1 DEF Frozen, ApprovedItem
  <1> QED
    BY <1>2 DEF ApprovedItem, Approved, ItemOf, SiteOf

-----------------------------------------------------------------------------
(* What sessions and the panel carry stays true, whoever moves.            *)

\* A session's step leaves every list being drafted to one session.
LEMMA DraftApartCli ==
    ASSUME TypeOK, CarriedSound, NEW s \in Sessions, CliStep(s), NEW r \in Sessions
    PROVE  DraftApart(r)'
  <1>1. cli \in [Sessions -> CliState] /\ \A q \in Sessions : DraftApart(q)
    BY DEF TypeOK, CliTypeOK, CarriedSound
  <1>2. \A q \in Sessions : Drafting(q) => cli[q].batch \in Batches
    BY <1>1, CarriedTypes DEF Drafting, At
  <1>3. ASSUME NEW c, Goto(s, c), UNCHANGED batches,
               c.pc \notin {"draft_build", "draft_save"}
        PROVE  DraftApart(r)'
    BY <1>1, <1>3 DEF Goto, DraftApart, Drafting, At, Known
  <1>4. ASSUME Done(s), UNCHANGED batches PROVE DraftApart(r)'
    BY <1>3, <1>4 DEF Done, Idle
  <1>5. CASE \E b \in Batches, drafts \in DraftLists : DraftRead(s, b, drafts)
    <2>1. PICK b \in Batches, drafts \in DraftLists : DraftRead(s, b, drafts)
      BY <1>5
    <2>. DEFINE found == [j \in Jobs |-> IF Contains(drafts, j) THEN jobRev[j] ELSE 0]
                c == [pc |-> "draft_build", batch |-> b, drafts |-> drafts,
                      found |-> found, evidence |-> evidenceRev]
    <2>2. cli' = [cli EXCEPT ![s] = c] /\ c.batch = b
      BY <2>1 DEF DraftRead, Goto
    <2>. HIDE DEF c
    <2>3. UNCHANGED batches
      BY <2>1 DEF DraftRead, ledgerVars, outreachVars
    <2>4. /\ ~Known(b) /\ \A q \in Sessions : Drafting(q) => cli[q].batch # b
      BY <2>1 DEF DraftRead
    <2> QED
      BY <1>1, <2>2, <2>3, <2>4 DEF DraftApart, Drafting, At, Known
  <1>6. CASE DraftBuild(s)
    <2>1. PICK c : (Goto(s, c) /\ c.batch = cli[s].batch)
                   \/ Done(s)
      BY <1>6 DEF DraftBuild
    <2>2. UNCHANGED batches /\ Drafting(s)
      BY <1>6 DEF DraftBuild, ledgerVars, outreachVars, Drafting
    <2>3. CASE Goto(s, c) /\ c.batch = cli[s].batch
      BY <1>1, <2>2, <2>3 DEF Goto, DraftApart, Drafting, At, Known
    <2> QED
      BY <2>1, <2>2, <2>3, <1>4
  <1>7. CASE DraftSave(s)
    <2>1. batches' = [batches EXCEPT ![cli[s].batch] = cli[s].items] /\ Drafting(s)
      BY <1>7 DEF DraftSave, Drafting
    <2>2. cli' = [cli EXCEPT ![s] = Idle] /\ Idle.pc = "idle"
      BY <1>7 DEF DraftSave, Done, Goto, Idle
    <2>3. batches \in [BatchId -> ItemLists \cup {<<>>}]
      BY DEF TypeOK, LedgerTypeOK
    <2> QED
      BY <1>1, <1>2, <2>1, <2>2, <2>3 DEF DraftApart, Drafting, At, Known, BatchId
  <1>8. CASE NextRenew(s)
    <2>1. /\ cli[s].pc = "next_renew"
          /\ [cli[s] EXCEPT !.pc = "next_renew_save"].pc = "next_renew_save"
      BY <1>1, <1>8 DEF NextRenew, At, CliState, Idle
    <2> QED
      BY <1>3, <1>8, <2>1 DEF NextRenew, Decide, ledgerVars, outreachVars
  <1>9. CASE \E p \in Platforms : LeaseRelease(s, p)
    BY <1>1, <1>9 DEF LeaseRelease, cliVars, DraftApart, Drafting, At, Known
  <1> QED
    BY <1>3, <1>4, <1>5, <1>6, <1>7, <1>8, <1>9
       DEF CliStep, AskRead, AskSave, ApproveRead, ApproveAnswer, ApproveSave,
           WithdrawRead, WithdrawSave, LeaseRead, LeaseSave, NextRead, NextLease,
           NextRenewSave, Decide, NextDecide, RecordRead, RecordSave, Crash,
           ledgerVars, outreachVars

\* Another session's step, or a worker's or the panel's, leaves an answer sound.
LEMMA AnswerStays ==
    ASSUME TypeOK, ApprovalAnswersQuestion, CarriedSound, Frozen,
           NEW r \in Sessions, cli'[r] = cli[r]
    PROVE  AnswerSound(r)'
  <1>1. cli[r] \in CliState /\ AnswerSound(r)
    BY DEF TypeOK, CliTypeOK, CarriedSound
  <1>2. CASE At(r, "approve_answer") \/ At(r, "approve_save")
    <2>1. /\ cli[r].batch \in BatchId /\ cli[r].numbers # {}
          /\ cli[r].numbers \subseteq DOMAIN batches[cli[r].batch]
      BY <1>1, <1>2, CarriedTypes DEF AnswerSound, At
    <2>2. batches'[cli[r].batch] = batches[cli[r].batch]
      BY <2>1 DEF Frozen, Known
    <2>3. asks[cli[r].batch] # None => asks'[cli[r].batch] # None
      BY <2>1 DEF Frozen
    <2>4. ~At(r, "record_save")
      BY <1>2 DEF At
    <2> QED
      BY <1>1, <2>1, <2>2, <2>3, <2>4 DEF AnswerSound, At
  <1>3. CASE At(r, "record_save")
    <2>1. cli[r].item \in ItemKey /\ ApprovedItem(cli[r].item)
      BY <1>1, <1>3, CarriedTypes DEF AnswerSound, At
    <2>2. ApprovedItem(cli[r].item)'
      BY <2>1, ApprovedStays DEF ApprovedItem, Approved
    <2> QED
      BY <1>3, <2>2 DEF AnswerSound, At, ApprovedItem, Approved
  <1> QED
    BY <1>2, <1>3 DEF AnswerSound, At

\* A session's step leaves what every session carries about an answer true.
LEMMA AnswerSoundCli ==
    ASSUME TypeOK, ApprovalAnswersQuestion, CarriedSound, Frozen,
           NEW s \in Sessions, CliStep(s), NEW r \in Sessions
    PROVE  AnswerSound(r)'
  <1>1. cli \in [Sessions -> CliState] /\ AnswerSound(s)
    BY DEF TypeOK, CliTypeOK, CarriedSound
  <1>. DEFINE Said == {"approve_answer", "approve_save", "record_save"}
  <1>2. ASSUME NEW c, Goto(s, c) PROVE r # s => AnswerSound(r)'
    BY <1>1, <1>2, AnswerStays DEF Goto
  <1>3. ASSUME NEW c, Goto(s, c), c.pc \notin Said PROVE AnswerSound(r)'
    BY <1>1, <1>2, <1>3 DEF Goto, AnswerSound, At
  <1>4. ASSUME Done(s) PROVE AnswerSound(r)'
    BY <1>3, <1>4 DEF Done, Idle
  <1>5. CASE \E b \in BatchId, numbers \in SUBSET Numbers : ApproveRead(s, b, numbers)
    <2>1. PICK b \in BatchId, numbers \in SUBSET Numbers : ApproveRead(s, b, numbers)
      BY <1>5
    <2>. DEFINE c == [pc |-> "approve_answer", batch |-> b, numbers |-> numbers]
    <2>2. Goto(s, c) /\ batches' = batches
          /\ numbers # {} /\ numbers \subseteq DOMAIN batches[b]
      BY <2>1 DEF ApproveRead, ledgerVars, outreachVars
    <2>3. CASE r = s
      BY <1>1, <2>2, <2>3 DEF Goto, AnswerSound, At
    <2> QED
      BY <1>2, <2>2, <2>3
  <1>6. CASE ApproveAnswer(s)
    <2>. DEFINE c == [pc |-> "approve_save", batch |-> cli[s].batch,
                      numbers |-> cli[s].numbers, at |-> now]
    <2>1. CASE Goto(s, c) /\ asks[cli[s].batch] # None
      <3>1. UNCHANGED <<asks, batches>> /\ At(s, "approve_answer")
        BY <1>6 DEF ApproveAnswer, ledgerVars, outreachVars
      <3>2. CASE r = s
        BY <1>1, <2>1, <3>1, <3>2 DEF Goto, AnswerSound, At
      <3> QED
        BY <1>2, <2>1, <3>2
    <2> QED
      BY <1>4, <1>6, <2>1 DEF ApproveAnswer
  <1>7. CASE \E i \in ItemKey, result \in Recordable : RecordRead(s, i, result)
    <2>1. PICK i \in ItemKey, result \in Recordable : RecordRead(s, i, result)
      BY <1>7
    <2>. DEFINE c == [pc |-> "record_save", item |-> i, result |-> result, at |-> now]
    <2>2. Goto(s, c) /\ ApprovedItem(i)
      BY <2>1 DEF RecordRead
    <2>3. ApprovedItem(i)'
      BY <2>2, ApprovedStays DEF ApprovedItem, Approved
    <2>4. CASE r = s
      BY <1>1, <2>2, <2>3, <2>4 DEF Goto, AnswerSound, At, ApprovedItem, Approved
    <2> QED
      BY <1>2, <2>2, <2>4
  <1>8. CASE NextRenew(s)
    <2>1. [cli[s] EXCEPT !.pc = "next_renew_save"].pc = "next_renew_save"
      BY <1>1, <1>8 DEF NextRenew, At, CliState, Idle
    <2> QED
      BY <1>3, <1>8, <2>1 DEF NextRenew, Decide
  <1>9. CASE \E p \in Platforms : LeaseRelease(s, p)
    BY <1>9, AnswerStays DEF LeaseRelease, cliVars
  <1> QED
    BY <1>3, <1>4, <1>5, <1>6, <1>7, <1>8, <1>9
       DEF CliStep, DraftRead, DraftBuild, DraftSave, AskRead, AskSave, ApproveSave,
           WithdrawRead, WithdrawSave, LeaseRead, LeaseSave, NextRead, NextLease,
           NextRenewSave, Decide, NextDecide, RecordSave, Crash

\* A request under way still names a listed item after any step.
LEMMA PanelSoundStays ==
    ASSUME TypeOK, CarriedSound, Frozen, NEW h \in Handlers,
           panel'[h] = panel[h] \/ panel'[h] = None
           \/ (panel[h] # None /\ panel'[h].request = panel[h].request)
    PROVE  PanelSound(h)'
  <1>1. CASE panel[h] = None
    BY <1>1 DEF PanelSound
  <1>2. CASE panel[h] # None
    <2>. DEFINE request == panel[h].request
    <2>1. /\ request.batch \in BatchId
          /\ request.number \in DOMAIN batches[request.batch]
      BY <1>2, PanelTypes DEF TypeOK, Request, BatchId, CarriedSound, PanelSound
    <2>2. batches'[request.batch] = batches[request.batch]
      BY <2>1 DEF Frozen, Known
    <2> QED
      BY <1>2, <2>1, <2>2 DEF PanelSound
  <1> QED
    BY <1>1, <1>2

\* What sessions and the panel carry stays true over every step.
LEMMA CarriedStep ==
    ASSUME TypeOK, ApprovalAnswersQuestion, CarriedSound, [Next]_vars
    PROVE  CarriedSound'
  <1>1. Frozen
    BY FrozenStep
  <1>2. ASSUME UNCHANGED cli, UNCHANGED batches
        PROVE  \A s \in Sessions : DraftApart(s)' /\ AnswerSound(s)'
    BY <1>1, <1>2, AnswerStays DEF CarriedSound, DraftApart, Drafting, At, Known
  <1>3. ASSUME UNCHANGED panel PROVE \A h \in Handlers : PanelSound(h)'
    BY <1>1, <1>3, PanelSoundStays
  <1>4. CASE Cli /\ UNCHANGED <<workerVars, decisionVars>>
    <2>1. \A s \in Sessions : DraftApart(s)' /\ AnswerSound(s)'
      BY <1>1, <1>4, DraftApartCli, AnswerSoundCli DEF Cli
    <2> QED
      BY <1>3, <1>4, <2>1 DEF CarriedSound, decisionVars
  <1>5. CASE (Worker \/ FetchStep \/ AckStep) /\ UNCHANGED <<cliVars, decisionVars>>
    <2>1. UNCHANGED <<cli, batches, panel>>
      BY <1>5 DEF Worker, WorkerStep, ClaimGreeting, AuthorizeGreeting, RecordGreeting,
                  FetchStep, Ingest, AckStep, Acknowledge, ledgerVars, outreachVars,
                  cliVars, decisionVars
    <2> QED
      BY <1>2, <1>3, <2>1 DEF CarriedSound
  <1>6. CASE (Panel \/ FeedbackStep) /\ UNCHANGED <<cliVars, workerVars>>
    <2>1. UNCHANGED cli
      BY <1>6 DEF cliVars
    <2>2. ASSUME UNCHANGED batches
          PROVE  \A s \in Sessions : DraftApart(s)' /\ AnswerSound(s)'
      BY <1>2, <2>1, <2>2
    <2>3. ASSUME NEW h \in Handlers, NEW request \in Request, PanelRead(h, request)
          PROVE  CarriedSound'
      <3>1. UNCHANGED batches /\ panel \in [Handlers -> PanelState \cup {None}]
        BY <2>3 DEF PanelRead, ledgerVars, outreachVars, TypeOK, DecisionsTypeOK
      <3>2. PanelSound(h)'
        BY <2>3, <3>1 DEF PanelRead, OpenItem, PanelSound
      <3>3. ASSUME NEW g \in Handlers, g # h PROVE PanelSound(g)'
        BY <1>1, <2>3, <3>1, <3>3, PanelSoundStays DEF PanelRead
      <3> QED
        BY <2>2, <3>1, <3>2, <3>3 DEF CarriedSound
    <2>4. ASSUME NEW h \in Handlers,
                 PanelRegister(h) \/ PanelPrepare(h) \/ PanelGiveUp(h) \/ PanelCommit(h)
          PROVE  \A g \in Handlers : PanelSound(g)'
      <3>. DEFINE c == [pc |-> "commit", request |-> panel[h].request, at |-> panel[h].at,
                        card |-> cards[panel[h].request.batch]]
      <3>1. \/ UNCHANGED panel
            \/ PanelDone(h)
            \/ panel[h] # None /\ panel' = [panel EXCEPT ![h] = c]
        BY <2>4 DEF PanelRegister, PanelPrepare, PanelGiveUp, PanelCommit, PanelAt,
                    decisionVars
      <3>2. panel \in [Handlers -> PanelState \cup {None}] /\ c.request = panel[h].request
        BY DEF TypeOK, DecisionsTypeOK
      <3>. HIDE DEF c
      <3> QED
        BY <1>1, <3>1, <3>2, PanelSoundStays DEF PanelDone
    <2>5. ASSUME NEW h \in Handlers,
                 PanelRegister(h) \/ PanelPrepare(h) \/ PanelGiveUp(h)
          PROVE  CarriedSound'
      BY <2>2, <2>4, <2>5
         DEF PanelRegister, PanelPrepare, PanelGiveUp, ledgerVars, outreachVars, CarriedSound
    <2>6. ASSUME NEW h \in Handlers, PanelCommit(h)
          PROVE  CarriedSound'
      <3>. DEFINE child == Child(panel[h].request)
      <3>1. child \in Children
        BY <2>6, PanelTypes, RequestItem
           DEF PanelCommit, PanelAt, TypeOK, CarriedSound, PanelSound
      <3>2. \A b \in Batches : batches'[b] = batches[b]
        BY <2>6, <3>1, LedgerAssumption
           DEF PanelCommit, TypeOK, LedgerTypeOK, BatchId
      <3>3. \A s \in Sessions : Drafting(s) => cli[s].batch \in Batches
        BY CarriedTypes DEF Drafting, At, TypeOK, CliTypeOK
      <3>4. \A s \in Sessions : DraftApart(s)'
        BY <2>1, <3>2, <3>3 DEF CarriedSound, DraftApart, Drafting, At, Known
      <3>5. \A s \in Sessions : AnswerSound(s)'
        BY <1>1, <2>1, AnswerStays
      <3> QED
        BY <2>4, <2>6, <3>4, <3>5 DEF CarriedSound
    <2>7. CASE FeedbackStep
      BY <1>3, <2>2, <2>7
         DEF FeedbackStep, Feedback, ledgerVars, outreachVars, CarriedSound
    <2> QED
      BY <1>6, <2>3, <2>5, <2>6, <2>7 DEF Panel, PanelStep
  <1>7. CASE (Tick \/ EditEvidence) /\ UNCHANGED <<cliVars, workerVars, decisionVars>>
    BY <1>2, <1>3, <1>7
       DEF Tick, EditEvidence, outreachVars, cliVars, decisionVars, CarriedSound
  <1>8. CASE UNCHANGED vars
    BY <1>2, <1>3, <1>8
       DEF vars, ledgerVars, outreachVars, cliVars, decisionVars, CarriedSound
  <1> QED
    BY <1>4, <1>5, <1>6, <1>7, <1>8 DEF Next

\* ApprovalAnswersQuestion is kept by every step: two of them write approvals.
LEMMA ApprovalStep ==
    ASSUME TypeOK, ApprovalAnswersQuestion, CarriedSound, [Next]_vars
    PROVE  ApprovalAnswersQuestion'
  <1>1. Frozen
    BY FrozenStep
  <1>2. ASSUME NEW b \in BatchId, approvals'[b] = approvals[b], Approved(b)
        PROVE  /\ asks'[b] # None /\ approvals'[b].numbers # {}
               /\ approvals'[b].numbers \subseteq DOMAIN batches'[b]
    <2>1. Known(b) /\ asks[b] # None
      BY <1>2 DEF ApprovalAnswersQuestion, Known
    <2> QED
      BY <1>1, <1>2, <2>1 DEF ApprovalAnswersQuestion, Frozen
  <1>3. CASE UNCHANGED approvals
    BY <1>2, <1>3 DEF ApprovalAnswersQuestion, Approved
  <1>4. ASSUME NEW s \in Sessions, ApproveSave(s) PROVE ApprovalAnswersQuestion'
    <2>. DEFINE b == cli[s].batch
    <2>1. /\ b \in BatchId /\ asks[b] # None
          /\ cli[s].numbers # {} /\ cli[s].numbers \subseteq DOMAIN batches[b]
      BY <1>4, CarriedTypes
         DEF ApproveSave, At, TypeOK, CliTypeOK, CarriedSound, AnswerSound
    <2>2. CASE Approved(b)
      BY <1>3, <1>4, <2>2 DEF ApproveSave
    <2>3. CASE ~Approved(b)
      <3>1. approvals' = [approvals EXCEPT ![b] =
                             [numbers |-> cli[s].numbers, at |-> cli[s].at]]
        BY <1>4, <2>3 DEF ApproveSave
      <3>2. UNCHANGED <<asks, batches>>
        BY <1>4 DEF ApproveSave
      <3>. HIDE DEF b
      <3> QED
        BY <1>2, <2>1, <3>1, <3>2
           DEF ApprovalAnswersQuestion, Approved, b, TypeOK, LedgerTypeOK
    <2> QED
      BY <2>2, <2>3
  <1>5. ASSUME NEW h \in Handlers, PanelCommit(h) PROVE ApprovalAnswersQuestion'
    <2>. DEFINE request == panel[h].request
                child == Child(request)
    <2>1. /\ request \in Request /\ panel[h].at \in Nat
          /\ request.number \in DOMAIN batches[request.batch]
      BY <1>5, PanelTypes DEF PanelCommit, PanelAt, CarriedSound, PanelSound, TypeOK
    <2>2. child \in BatchId /\ panel[h].at # None
      BY <2>1, RequestItem, LedgerAssumption DEF TypeOK
    <2>3. CASE request.action # "approved"
      BY <1>3, <1>5, <2>3 DEF PanelCommit
    <2>4. CASE request.action = "approved"
      <3>1. /\ batches' = [batches EXCEPT ![child] = <<ItemOf(child)>>]
            /\ approvals' = [approvals EXCEPT ![child] =
                                [numbers |-> {1}, at |-> panel[h].at]]
            /\ asks' = [asks EXCEPT ![child] = panel[h].at]
        BY <1>5, <2>4 DEF PanelCommit
      <3>2. /\ asks'[child] # None /\ approvals'[child].numbers = {1}
            /\ DOMAIN batches'[child] = {1}
        <4>. HIDE DEF child
        <4> QED
          BY <2>2, <3>1 DEF TypeOK, LedgerTypeOK
      <3>3. ASSUME NEW b \in BatchId, b # child PROVE approvals'[b] = approvals[b]
        BY <3>1, <3>3 DEF TypeOK, LedgerTypeOK
      <3>. HIDE DEF child
      <3> QED
        BY <1>2, <3>2, <3>3 DEF ApprovalAnswersQuestion, Approved
    <2> QED
      BY <2>3, <2>4
  <1>6. \/ UNCHANGED approvals
        \/ \E s \in Sessions : ApproveSave(s)
        \/ \E h \in Handlers : PanelCommit(h)
    <2>1. ASSUME NEW s \in Sessions, CliStep(s) PROVE UNCHANGED approvals \/ ApproveSave(s)
      BY <2>1
         DEF CliStep, DraftRead, DraftBuild, DraftSave, AskRead, AskSave, ApproveRead,
             ApproveAnswer, WithdrawRead, WithdrawSave, LeaseRead, LeaseSave, LeaseRelease,
             NextRead, NextLease, NextRenew, NextRenewSave, NextDecide, RecordRead,
             RecordSave, Crash, ledgerVars, outreachVars
    <2>2. CASE Worker
      BY <2>2 DEF Worker, WorkerStep, ClaimGreeting, AuthorizeGreeting, RecordGreeting,
                  ledgerVars, outreachVars
    <2>3. CASE FetchStep \/ AckStep \/ FeedbackStep
      BY <2>3 DEF FetchStep, Ingest, AckStep, Acknowledge, FeedbackStep, Feedback,
                  ledgerVars, outreachVars
    <2>4. CASE Panel
      BY <2>4 DEF Panel, PanelStep, PanelRead, PanelRegister, PanelPrepare, PanelGiveUp,
                  ledgerVars, outreachVars
    <2>5. CASE Tick \/ EditEvidence \/ UNCHANGED vars
      BY <2>5 DEF Tick, EditEvidence, vars, ledgerVars, outreachVars
    <2> QED
      BY <2>1, <2>2, <2>3, <2>4, <2>5 DEF Next, Cli
  <1> QED
    BY <1>3, <1>4, <1>5, <1>6

-----------------------------------------------------------------------------
(* The audits and the claims.  Five steps touch them; all others only have *)
(* to leave approved items as they are.                                    *)

\* The five ways a step touches the audits, the claims or the events.
LEMMA LedgerSteps ==
    ASSUME TypeOK, [Next]_vars
    PROVE  \/ UNCHANGED <<audits, claims>> /\ \E t \in SUBSET Tasks : events' = events \cup t
           \/ \E s \in Sessions : RecordSave(s) /\ UNCHANGED workerVars
           \/ \E w \in Workers, b \in BatchId, p \in Platforms : ClaimGreeting(w, b, p)
           \/ \E w \in Workers, i \in ItemKey : AuthorizeGreeting(w, i)
           \/ \E w \in Workers, i \in ItemKey, readback \in Readback :
                  RecordGreeting(w, i, readback)
  <1>1. ASSUME UNCHANGED <<audits, claims, events>>
        PROVE  UNCHANGED <<audits, claims>> /\ \E t \in SUBSET Tasks : events' = events \cup t
    <2>1. events' = events \cup {}
      BY <1>1
    <2> QED
      BY <1>1, <2>1
  <1>2. CASE Cli /\ UNCHANGED <<workerVars, decisionVars>>
    <2>1. ASSUME NEW s \in Sessions, CliStep(s) PROVE UNCHANGED audits \/ RecordSave(s)
      BY <2>1
         DEF CliStep, ledgerVars, outreachVars, DraftRead, DraftBuild, DraftSave, AskRead,
             AskSave, ApproveRead, ApproveAnswer, ApproveSave, WithdrawRead, WithdrawSave,
             LeaseRead, LeaseSave, LeaseRelease, NextRead, NextLease, NextRenew,
             NextRenewSave, NextDecide, RecordRead, Crash
    <2> QED
      BY <1>1, <1>2, <2>1 DEF Cli, workerVars
  <1>3. CASE FetchStep
    <2>1. PICK t \in Tasks : events' = events \cup {t} /\ UNCHANGED <<audits, claims>>
      BY <1>3 DEF FetchStep, Ingest, outreachVars
    <2> QED
      BY <2>1
  <1>4. CASE AckStep
    BY <1>1, <1>4 DEF AckStep, Acknowledge, ledgerVars, outreachVars
  <1>5. CASE Worker
    BY <1>5 DEF Worker, WorkerStep
  <1>6. CASE (Panel \/ FeedbackStep) /\ UNCHANGED <<cliVars, workerVars>>
    BY <1>1, <1>6
       DEF Panel, PanelStep, PanelRead, PanelRegister, PanelPrepare, PanelCommit,
           PanelGiveUp, FeedbackStep, Feedback, ledgerVars, outreachVars, workerVars
  <1>7. CASE (Tick \/ EditEvidence) /\ UNCHANGED <<cliVars, workerVars, decisionVars>>
    BY <1>1, <1>7 DEF Tick, EditEvidence, outreachVars, workerVars
  <1>8. CASE UNCHANGED vars
    BY <1>1, <1>8 DEF vars, ledgerVars, outreachVars, workerVars
  <1> QED
    BY <1>2, <1>3, <1>4, <1>5, <1>6, <1>7, <1>8 DEF Next

\* A row is about an item of the ledger.
LEMMA RowTyped ==
    ASSUME LedgerTypeOK, NEW k \in DOMAIN audits
    PROVE  RowItem(k) \in ItemKey /\ audits[k] \in Audit
  <1>1. audits[k] \in Audit
    BY DEF LedgerTypeOK
  <1>2. audits[k].batch \in BatchId /\ audits[k].number \in Numbers
    BY <1>1 DEF Audit
  <1> QED
    BY <1>1, <1>2 DEF RowItem, ItemKey

\* Appending keeps every earlier row where it was.
LEMMA Appended ==
    ASSUME LedgerTypeOK, NEW i \in ItemKey, NEW result, NEW t, AppendAudit(i, result, t)
    PROVE  \E new \in Nat \ {0} :
             /\ DOMAIN audits = 1..(new - 1) /\ DOMAIN audits' = 1..new
             /\ \A k \in DOMAIN audits : audits'[k] = audits[k]
             /\ audits'[new] = AuditRow(i, result, t)
  <1>1. PICK row : audits' = Append(audits, row) /\ row = AuditRow(i, result, t)
    BY DEF AppendAudit
  <1>2. audits \in Seq(Audit)
    BY DEF LedgerTypeOK
  <1>3. /\ Len(audits) \in Nat /\ DOMAIN audits = 1..Len(audits)
        /\ DOMAIN Append(audits, row) = 1..(Len(audits) + 1)
        /\ \A k \in DOMAIN audits : Append(audits, row)[k] = audits[k]
        /\ Append(audits, row)[Len(audits) + 1] = row
    BY <1>2
  <1> QED
    BY <1>1, <1>3

\* Only RecordSave and RecordGreeting add a row; UNIQUE (batch_id, number) keeps them apart.
LEMMA RowsStep ==
    ASSUME TypeOK, ApprovalAnswersQuestion, CarriedSound, ClaimsApproved,
           OneResultPerItem, RowsFaithful, [Next]_vars
    PROVE  OneResultPerItem' /\ RowsFaithful'
  <1>1. Frozen /\ LedgerTypeOK
    BY FrozenStep DEF TypeOK
  <1>2. ASSUME NEW k \in DOMAIN audits, k \in DOMAIN audits', audits'[k] = audits[k]
        PROVE  /\ ApprovedItem(RowItem(k))' /\ RowItem(k)' = RowItem(k)
               /\ audits'[k].job = ItemOf(RowItem(k))'.job
               /\ audits'[k].platform = SiteOf(RowItem(k))'
    <2>1. RowItem(k) \in ItemKey /\ ApprovedItem(RowItem(k))
      BY <1>1, RowTyped DEF OneResultPerItem
    <2>2. RowItem(k)' = RowItem(k)
      BY <1>2 DEF RowItem
    <2>. DEFINE i == RowItem(k)
    <2>3. /\ i[1] \in BatchId /\ approvals'[i[1]] = approvals[i[1]]
          /\ batches'[i[1]] = batches[i[1]]
      <3>1. Known(i[1]) /\ Approved(i[1]) /\ i[1] \in BatchId
        BY <2>1, ApprovedListed DEF ApprovedItem
      <3> QED
        BY <1>1, <3>1 DEF Frozen
    <2> QED
      BY <1>2, <2>1, <2>2, <2>3
         DEF RowsFaithful, ApprovedItem, Approved, ItemOf, SiteOf
  <1>3. CASE UNCHANGED audits
    BY <1>2, <1>3 DEF OneResultPerItem, RowsFaithful
  <1>4. ASSUME NEW i \in ItemKey, NEW result, NEW t, ApprovedItem(i),
               AppendAudit(i, result, t)
        PROVE  OneResultPerItem' /\ RowsFaithful'
    <2>1. PICK new \in Nat \ {0} :
              /\ DOMAIN audits = 1..(new - 1) /\ DOMAIN audits' = 1..new
              /\ \A k \in DOMAIN audits : audits'[k] = audits[k]
              /\ audits'[new] = AuditRow(i, result, t)
      BY <1>1, <1>4, Appended
    <2>2. ApprovedItem(i)' /\ ItemOf(i)' = ItemOf(i) /\ SiteOf(i)' = SiteOf(i)
      BY <1>1, <1>4, ApprovedStays DEF ApprovedItem, Approved
    <2>3. /\ audits'[new].batch = i[1] /\ audits'[new].number = i[2]
          /\ audits'[new].job = ItemOf(i).job /\ audits'[new].platform = SiteOf(i)
      BY <2>1 DEF AuditRow
    <2>4. RowItem(new)' = i
      <3>1. i = <<i[1], i[2]>>
        BY DEF ItemKey
      <3> QED
        BY <2>3, <3>1 DEF RowItem
    <2>5. \A k \in DOMAIN audits : RowItem(k) # i
      BY <1>4 DEF AppendAudit, Recorded, RowItem
    <2>6. \A k \in DOMAIN audits' : k \in DOMAIN audits \/ k = new
      BY <2>1
    <2>7. RowsFaithful'
      BY <1>2, <2>1, <2>2, <2>3, <2>4, <2>6 DEF RowsFaithful
    <2>8. \A k \in DOMAIN audits : RowItem(k)' = RowItem(k) /\ ApprovedItem(RowItem(k))'
      BY <1>2, <2>1
    <2>9. OneResultPerItem'
      BY <2>2, <2>4, <2>5, <2>6, <2>8 DEF OneResultPerItem, ApprovedItem, Approved
    <2> QED
      BY <2>7, <2>9
  <1>5. ASSUME NEW s \in Sessions, RecordSave(s) PROVE OneResultPerItem' /\ RowsFaithful'
    <2>1. cli[s].item \in ItemKey /\ ApprovedItem(cli[s].item)
      BY <1>5, CarriedTypes
         DEF RecordSave, At, TypeOK, CliTypeOK, CarriedSound, AnswerSound
    <2> QED
      BY <1>3, <1>4, <1>5, <2>1 DEF RecordSave
  <1>6. ASSUME NEW w \in Workers, NEW i \in ItemKey, NEW readback \in Readback,
               RecordGreeting(w, i, readback)
        PROVE  OneResultPerItem' /\ RowsFaithful'
    BY <1>4, <1>6 DEF RecordGreeting, Open, ClaimsApproved
  <1> QED
    BY <1>3, <1>5, <1>6, LedgerSteps
       DEF ClaimGreeting, AuthorizeGreeting, ledgerVars, outreachVars

ClaimsSound == ClaimsApproved /\ OneOpenClaim /\ CompletionTogether

\* Claims stay sound when no claim changes, and rows are only added.
LEMMA ClaimsStay ==
    ASSUME ApprovalAnswersQuestion, ClaimsSound, Frozen, UNCHANGED claims,
           \E t \in SUBSET Tasks : events' = events \cup t,
           \A i \in ItemKey : Recorded(i) => Recorded(i)'
    PROVE  ClaimsSound'
  <1>1. \A i \in ItemKey : /\ (Claimed(i)' <=> Claimed(i)) /\ (Open(i)' <=> Open(i))
                           /\ (Completed(i)' <=> Completed(i))
    BY DEF Claimed, Open, Completed
  <1>2. \A i \in ItemKey : Claimed(i) => ApprovedItem(i)' /\ SiteOf(i)' = SiteOf(i)
    BY ApprovedStays DEF ClaimsSound, ClaimsApproved, ApprovedItem, Approved
  <1>3. \A i \in ItemKey : i \in events' <=> i \in events
    BY WorkerAssumption
  <1>4. \A i \in ItemKey : Open(i) => Claimed(i)
    BY DEF Open
  <1>5. ClaimsApproved'
    BY <1>1, <1>2 DEF ClaimsApproved
  <1>6. OneOpenClaim'
    BY <1>1, <1>2, <1>4 DEF ClaimsSound, OneOpenClaim
  <1>7. CompletionTogether'
    BY <1>1, <1>3 DEF ClaimsSound, CompletionTogether
  <1> QED
    BY <1>5, <1>6, <1>7 DEF ClaimsSound

\* A row more: what was recorded still is, and the item of the row now is.
LEMMA RecordedGrows ==
    ASSUME LedgerTypeOK, NEW i \in ItemKey, NEW result, NEW t, AppendAudit(i, result, t)
    PROVE  Recorded(i)' /\ \A j \in ItemKey : Recorded(j) => Recorded(j)'
  <1>1. PICK new \in Nat \ {0} :
            /\ DOMAIN audits = 1..(new - 1) /\ DOMAIN audits' = 1..new
            /\ \A k \in DOMAIN audits : audits'[k] = audits[k]
            /\ audits'[new] = AuditRow(i, result, t)
    BY Appended
  <1>2. audits'[new].batch = i[1] /\ audits'[new].number = i[2] /\ new \in DOMAIN audits'
    BY <1>1 DEF AuditRow
  <1>3. \A k \in DOMAIN audits : k \in DOMAIN audits'
    BY <1>1
  <1> QED
    BY <1>1, <1>2, <1>3 DEF Recorded

\* Claims stay approved, one per platform, and complete with their event.
LEMMA ClaimsStep ==
    ASSUME TypeOK, ApprovalAnswersQuestion, CarriedSound, ClaimsSound, [Next]_vars
    PROVE  ClaimsSound'
  <1>1. Frozen /\ LedgerTypeOK /\ claims \in [ItemKey -> Claim \cup {None}]
    BY FrozenStep DEF TypeOK, WorkerTypeOK
  <1>2. \A i \in ItemKey : Claimed(i) => ApprovedItem(i)' /\ SiteOf(i)' = SiteOf(i)
    BY <1>1, ApprovedStays DEF ClaimsSound, ClaimsApproved, ApprovedItem, Approved
  <1>3. ASSUME UNCHANGED audits PROVE \A i \in ItemKey : (Recorded(i)' <=> Recorded(i))
    BY <1>3 DEF Recorded
  <1>4. CASE UNCHANGED <<audits, claims>> /\ \E t \in SUBSET Tasks : events' = events \cup t
    BY <1>1, <1>3, <1>4, ClaimsStay
  <1>5. ASSUME NEW s \in Sessions, RecordSave(s), UNCHANGED workerVars PROVE ClaimsSound'
    <2>1. cli[s].item \in ItemKey
      BY <1>5, CarriedTypes DEF RecordSave, At, TypeOK, CliTypeOK
    <2>2. \A i \in ItemKey : Recorded(i) => Recorded(i)'
      <3>1. CASE UNCHANGED audits
        BY <1>3, <3>1
      <3>2. CASE AppendAudit(cli[s].item, cli[s].result, cli[s].at)
        BY <1>1, <2>1, <3>2, RecordedGrows
      <3> QED
        BY <1>5, <3>1, <3>2 DEF RecordSave
    <2>3. events' = events \cup {} /\ UNCHANGED claims
      BY <1>5 DEF workerVars
    <2> QED
      BY <1>1, <2>2, <2>3, ClaimsStay
  <1>6. ASSUME NEW w \in Workers, NEW b \in BatchId, NEW p \in Platforms,
               ClaimGreeting(w, b, p)
        PROVE  ClaimsSound'
    <2>1. PICK n \in Numbers :
              /\ NextItem(b, p, w, n)
              /\ claims' = [claims EXCEPT ![<<b, n>>] = [worker |-> w, status |-> "claimed"]]
      BY <1>6 DEF ClaimGreeting
    <2>2. PICK i \in ItemKey : i = <<b, n>>
      BY DEF ItemKey
    <2>3. ApprovedItem(i) /\ SiteOf(i) = p /\ ~Recorded(i)
      BY <2>1, <2>2 DEF NextItem, Released, Remaining
    <2>4. /\ \A j \in ItemKey : j # i => claims'[j] = claims[j]
          /\ claims'[i] = [worker |-> w, status |-> "claimed"]
          /\ [worker |-> w, status |-> "claimed"] \in Claim
      BY <1>1, <2>1, <2>2, WorkerAssumption DEF Claim
    <2>5. claims'[i] # None /\ claims'[i].status = "claimed"
      BY <2>4, ClaimAssumption
    <2>6. /\ Open(i)' /\ Claimed(i)' /\ ~Completed(i)'
          /\ \A j \in ItemKey \ {i} : /\ (Claimed(j)' <=> Claimed(j)) /\ (Open(j)' <=> Open(j))
                                      /\ (Completed(j)' <=> Completed(j))
      BY <2>4, <2>5 DEF Open, Claimed, Completed
    <2>7. UNCHANGED <<audits, events, approvals, batches>>
      BY <1>6 DEF ClaimGreeting, ledgerVars, outreachVars
    <2>8. ApprovedItem(i)' /\ SiteOf(i)' = SiteOf(i)
      BY <2>3, <2>7 DEF ApprovedItem, Approved, SiteOf, ItemOf
    <2>9. ClaimsApproved'
      BY <1>2, <2>6, <2>8 DEF ClaimsApproved
    <2>10. OneOpenClaim'
      <3>1. \A j \in ItemKey : Open(j) => SiteOf(j) # p /\ Claimed(j)
        BY <1>6 DEF ClaimGreeting, PlatformClaimed, Open
      <3> QED
        BY <1>2, <2>3, <2>6, <2>8, <3>1 DEF OneOpenClaim, ClaimsSound
    <2>11. CompletionTogether'
      <3>1. ~Completed(i)
        BY <2>3 DEF ClaimsSound, CompletionTogether
      <3> QED
        BY <1>3, <2>6, <2>7, <3>1 DEF CompletionTogether, ClaimsSound
    <2> QED
      BY <2>9, <2>10, <2>11 DEF ClaimsSound
  <1>7. ASSUME NEW i \in ItemKey, Claimed(i),
               NEW status \in {"authorized", "completed"},
               claims' = [claims EXCEPT ![i].status = status]
        PROVE  /\ Claimed(i)' /\ (Completed(i)' <=> status = "completed")
               /\ (Open(i)' <=> status # "completed")
               /\ \A j \in ItemKey \ {i} : /\ (Claimed(j)' <=> Claimed(j)) /\ (Open(j)' <=> Open(j))
                                           /\ (Completed(j)' <=> Completed(j))
    <2>1. claims[i] \in Claim
      BY <1>1, <1>7 DEF Claimed
    <2>2. PICK c : c = [claims[i] EXCEPT !.status = status]
      OBVIOUS
    <2>3. c \in Claim /\ c.status = status
      BY <1>7, <2>1, <2>2 DEF Claim
    <2>4. claims'[i] = c /\ \A j \in ItemKey : j # i => claims'[j] = claims[j]
      BY <1>1, <1>7, <2>2
    <2>5. claims'[i] # None /\ claims'[i].status = status
      BY <2>3, <2>4, ClaimAssumption
    <2> QED
      BY <1>7, <2>4, <2>5 DEF Claimed, Open, Completed
  <1>8. ASSUME NEW w \in Workers, NEW i \in ItemKey, AuthorizeGreeting(w, i)
        PROVE  ClaimsSound'
    <2>1. /\ Claimed(i) /\ Open(i) /\ ~Completed(i)
          /\ UNCHANGED <<audits, events>>
      BY <1>8 DEF AuthorizeGreeting, Open, Completed, ledgerVars, outreachVars
    <2>2. \A j \in ItemKey : /\ (Claimed(j)' <=> Claimed(j)) /\ (Open(j)' <=> Open(j))
                             /\ (Completed(j)' <=> Completed(j))
      <3>1. claims' = [claims EXCEPT ![i].status = "authorized"]
        BY <1>8 DEF AuthorizeGreeting
      <3>2. Claimed(i)' /\ Open(i)' /\ ~Completed(i)'
        BY <1>7, <2>1, <3>1
      <3> QED
        BY <1>7, <2>1, <3>1, <3>2
    <2>3. \A j \in ItemKey : Open(j) => Claimed(j)
      BY DEF Open
    <2> QED
      BY <1>2, <1>3, <2>1, <2>2, <2>3
         DEF ClaimsSound, ClaimsApproved, OneOpenClaim, CompletionTogether
  <1>9. ASSUME NEW w \in Workers, NEW i \in ItemKey, NEW readback \in Readback,
               RecordGreeting(w, i, readback)
        PROVE  ClaimsSound'
    <2>1. /\ Claimed(i) /\ events' = events \cup {i}
          /\ AppendAudit(i, Settled(i, readback), now)
          /\ claims' = [claims EXCEPT ![i].status = "completed"]
      BY <1>9 DEF RecordGreeting, Open
    <2>2. /\ Claimed(i)' /\ Completed(i)' /\ ~Open(i)'
          /\ \A j \in ItemKey \ {i} : /\ (Claimed(j)' <=> Claimed(j)) /\ (Open(j)' <=> Open(j))
                                      /\ (Completed(j)' <=> Completed(j))
      BY <1>7, <2>1
    <2>3. Recorded(i)' /\ \A j \in ItemKey : Recorded(j) => Recorded(j)'
      BY <1>1, <2>1, RecordedGrows
    <2>4. \A j \in ItemKey : Open(j) => Claimed(j)
      BY DEF Open
    <2>5. ClaimsApproved' /\ OneOpenClaim'
      BY <1>2, <2>1, <2>2, <2>4 DEF ClaimsSound, ClaimsApproved, OneOpenClaim
    <2>6. CompletionTogether'
      BY <2>1, <2>2, <2>3 DEF ClaimsSound, CompletionTogether
    <2> QED
      BY <2>5, <2>6 DEF ClaimsSound
  <1> QED
    BY <1>4, <1>5, <1>6, <1>8, <1>9, LedgerSteps

-----------------------------------------------------------------------------
(* What the gateway confirms as sent kept the pace and was a first contact.*)

ConfirmedSound == ConfirmedSendsPaced /\ ConfirmedSendsFirst

\* An earlier row is judged by what came before it, so a new one changes nothing.
LEMMA EarlierRowStays ==
    ASSUME NEW new \in Nat, NEW k \in DOMAIN audits, DOMAIN audits = 1..(new - 1),
           DOMAIN audits' = 1..new, \A j \in DOMAIN audits : audits'[j] = audits[j]
    PROVE  /\ PacedRow(k) => PacedRow(k)'
           /\ FirstContactRow(k) => FirstContactRow(k)'
           /\ RowItem(k)' = RowItem(k) /\ audits'[k] = audits[k]
  <1>1. \A j \in 1..(k - 1) : j \in DOMAIN audits
    OBVIOUS
  <1>2. \A j \in 1..k : audits'[j] = audits[j]
    OBVIOUS
  <1>3. k \in 1..k
    OBVIOUS
  <1>4. EarlierRows(k)' = EarlierRows(k)
    BY <1>2, <1>3 DEF EarlierRows
  <1>5. \A j \in EarlierRows(k) : j \in 1..k
    BY DEF EarlierRows
  <1>6. EarlierSameDay(k)' = EarlierSameDay(k)
    BY <1>2, <1>3, <1>4, <1>5 DEF EarlierSameDay
  <1>7. \A j \in EarlierSameDay(k) : j \in 1..k
    BY <1>5 DEF EarlierSameDay
  <1>8. {j \in EarlierSameDay(k)' : audits'[j].result = "sent"}
            = {j \in EarlierSameDay(k) : audits[j].result = "sent"}
    BY <1>2, <1>6, <1>7
  <1>9. PacedRow(k) => PacedRow(k)'
    BY <1>2, <1>3, <1>4, <1>5, <1>6, <1>7, <1>8 DEF PacedRow, Attempt
  <1>10. FirstContactRow(k) => FirstContactRow(k)'
    BY <1>2, <1>3 DEF FirstContactRow
  <1> QED
    BY <1>2, <1>3, <1>9, <1>10 DEF RowItem

\* The gate the gateway checks at the readback is the pace of the row it then writes.
LEMMA GateIsPace ==
    ASSUME LedgerTypeOK, NEW i \in ItemKey, NEW held, GateOpen(SiteOf(i), held, now),
           ~Contacted(ItemOf(i).job), NEW new \in Nat,
           DOMAIN audits = 1..(new - 1), DOMAIN audits' = 1..new,
           \A j \in DOMAIN audits : audits'[j] = audits[j],
           audits'[new] = AuditRow(i, "sent", now)
    PROVE  PacedRow(new)' /\ FirstContactRow(new)'
  <1>. DEFINE p == SiteOf(i)
  <1>1. /\ audits'[new].platform = p /\ audits'[new].at = now
        /\ audits'[new].job = ItemOf(i).job
    BY DEF AuditRow
  <1>2. EarlierRows(new)' = OnPlatform(p)
    BY <1>1 DEF EarlierRows, OnPlatform
  <1>3. \A j \in OnPlatform(p) : audits'[j] = audits[j]
    BY DEF OnPlatform
  <1>4. EarlierSameDay(new)' = Todays(p, now)
    BY <1>1, <1>2, <1>3 DEF EarlierSameDay, Todays
  <1>5. \A j \in Todays(p, now) : j \in OnPlatform(p)
    BY DEF Todays
  <1>6. {j \in EarlierSameDay(new)' : audits'[j].result = "sent"} = SentToday(p, now)
    BY <1>3, <1>4, <1>5 DEF SentToday
  <1>7. \A j \in OnPlatform(p) : now - audits[j].at >= MinGap
    BY DEF GateOpen, Spaced
  <1>8. \A j \in Todays(p, now) : audits[j].result \notin Halting
    BY DEF GateOpen, HaltedToday
  <1>9. Cardinality(SentToday(p, now)) < Cap
    BY DEF GateOpen
  <1>10. PacedRow(new)'
    BY <1>1, <1>2, <1>3, <1>4, <1>5, <1>6, <1>7, <1>8, <1>9 DEF PacedRow, Attempt
  <1>11. FirstContactRow(new)'
    BY <1>1 DEF FirstContactRow, Contacted
  <1> QED
    BY <1>10, <1>11

\* Confirmed sends keep their pace and their first contact over every step.
LEMMA ConfirmedStep ==
    ASSUME TypeOK, ApprovalAnswersQuestion, CarriedSound, ClaimsSound, ConfirmedSound,
           [Next]_vars
    PROVE  ConfirmedSound'
  <1>1. LedgerTypeOK /\ claims \in [ItemKey -> Claim \cup {None}]
    BY DEF TypeOK, WorkerTypeOK
  <1>2. \A k \in DOMAIN audits : RowItem(k) \in ItemKey /\ Recorded(RowItem(k))
    BY <1>1, RowTyped DEF Recorded, RowItem
  <1>3. ASSUME UNCHANGED audits,
               \A j \in ItemKey : Recorded(j) => (Completed(j)' => Completed(j))
        PROVE  ConfirmedSound'
    <2>1. \A k : RowItem(k)' = RowItem(k) /\ (PacedRow(k) => PacedRow(k)')
                 /\ (FirstContactRow(k) => FirstContactRow(k)')
      BY <1>3 DEF RowItem, PacedRow, FirstContactRow, EarlierRows, EarlierSameDay, Attempt
    <2>2. SentRows' = SentRows
      BY <1>3 DEF SentRows
    <2>3. \A k \in ConfirmedRows' : k \in ConfirmedRows
      BY <1>2, <1>3, <2>1, <2>2 DEF ConfirmedRows, SentRows
    <2> QED
      BY <2>1, <2>3 DEF ConfirmedSound, ConfirmedSendsPaced, ConfirmedSendsFirst
  <1>4. ASSUME NEW i \in ItemKey, NEW result, NEW t, AppendAudit(i, result, t),
               \A j \in ItemKey \ {i} : Completed(j)' => Completed(j),
               \/ ~Completed(i)'
               \/ result # "sent"
               \/ /\ t = now /\ ~Contacted(ItemOf(i).job)
                  /\ \E held : GateOpen(SiteOf(i), held, now)
        PROVE  ConfirmedSound'
    <2>1. PICK new \in Nat \ {0} :
              /\ DOMAIN audits = 1..(new - 1) /\ DOMAIN audits' = 1..new
              /\ \A k \in DOMAIN audits : audits'[k] = audits[k]
              /\ audits'[new] = AuditRow(i, result, t)
      BY <1>1, <1>4, Appended
    <2>2. ASSUME NEW k \in DOMAIN audits, k \in ConfirmedRows'
          PROVE  PacedRow(k)' /\ FirstContactRow(k)'
      <3>1. /\ PacedRow(k) => PacedRow(k)'
            /\ FirstContactRow(k) => FirstContactRow(k)'
            /\ RowItem(k)' = RowItem(k) /\ audits'[k] = audits[k]
        BY <2>1, EarlierRowStays
      <3>2. RowItem(k) # i
        BY <1>2, <1>4 DEF AppendAudit
      <3>3. k \in ConfirmedRows
        BY <1>2, <1>4, <2>2, <3>1, <3>2 DEF ConfirmedRows, SentRows
      <3> QED
        BY <3>1, <3>3 DEF ConfirmedSound, ConfirmedSendsPaced, ConfirmedSendsFirst
    <2>3. ASSUME new \in ConfirmedRows' PROVE PacedRow(new)' /\ FirstContactRow(new)'
      <3>1. RowItem(new)' = i
        <4>1. i = <<i[1], i[2]>>
          BY DEF ItemKey
        <4> QED
          BY <2>1, <4>1 DEF RowItem, AuditRow
      <3>2. Completed(i)' /\ result = "sent"
        BY <2>1, <2>3, <3>1 DEF ConfirmedRows, SentRows, AuditRow, Completed, Claimed
      <3> QED
        BY <1>1, <1>4, <2>1, <3>2, GateIsPace
    <2>4. \A k \in ConfirmedRows' : k \in DOMAIN audits \/ k = new
      BY <2>1 DEF ConfirmedRows, SentRows
    <2> QED
      BY <2>2, <2>3, <2>4 DEF ConfirmedSound, ConfirmedSendsPaced, ConfirmedSendsFirst
  <1>5. CASE UNCHANGED <<audits, claims>>
    BY <1>3, <1>5 DEF Completed, Claimed
  <1>6. ASSUME NEW s \in Sessions, RecordSave(s), UNCHANGED workerVars PROVE ConfirmedSound'
    <2>1. cli[s].item \in ItemKey
      BY <1>6, CarriedTypes DEF RecordSave, At, TypeOK, CliTypeOK
    <2>2. \A j \in ItemKey : Completed(j)' <=> Completed(j)
      BY <1>6 DEF workerVars, Completed, Claimed
    <2>3. AppendAudit(cli[s].item, cli[s].result, cli[s].at) => ~Completed(cli[s].item)
      BY <2>1 DEF AppendAudit, ClaimsSound, CompletionTogether
    <2> QED
      BY <1>3, <1>4, <1>6, <2>1, <2>2, <2>3 DEF RecordSave
  <1>7. ASSUME NEW w \in Workers, NEW b \in BatchId, NEW p \in Platforms,
               ClaimGreeting(w, b, p)
        PROVE  ConfirmedSound'
    <2>1. PICK n \in Numbers :
              claims' = [claims EXCEPT ![<<b, n>>] = [worker |-> w, status |-> "claimed"]]
      BY <1>7 DEF ClaimGreeting
    <2>2. \A j \in ItemKey : Completed(j)' => Completed(j)
      BY <1>1, <2>1 DEF Completed, Claimed
    <2> QED
      BY <1>3, <1>7, <2>2 DEF ClaimGreeting, ledgerVars, outreachVars
  <1>8. ASSUME NEW w \in Workers, NEW i \in ItemKey, AuthorizeGreeting(w, i)
        PROVE  ConfirmedSound'
    <2>1. claims[i] \in Claim /\ claims' = [claims EXCEPT ![i].status = "authorized"]
      BY <1>1, <1>8 DEF AuthorizeGreeting, Claimed
    <2>2. \A j \in ItemKey : Completed(j)' => Completed(j)
      BY <1>1, <2>1 DEF Completed, Claimed, Claim
    <2> QED
      BY <1>3, <1>8, <2>2 DEF AuthorizeGreeting, ledgerVars, outreachVars
  <1>9. ASSUME NEW w \in Workers, NEW i \in ItemKey, NEW readback \in Readback,
               RecordGreeting(w, i, readback)
        PROVE  ConfirmedSound'
    <2>1. /\ AppendAudit(i, Settled(i, readback), now)
          /\ claims' = [claims EXCEPT ![i].status = "completed"]
      BY <1>9 DEF RecordGreeting
    <2>2. \A j \in ItemKey \ {i} : Completed(j)' => Completed(j)
      BY <1>1, <2>1 DEF Completed, Claimed
    <2>3. ASSUME Settled(i, readback) = "sent"
          PROVE  /\ ~Contacted(ItemOf(i).job)
                 /\ \E held : GateOpen(SiteOf(i), held, now)
      <3>1. StillReleased(i)
        BY <2>3 DEF Settled, Readback, Observed, CountsAsContact
      <3>2. i = <<i[1], i[2]>>
        BY DEF ItemKey
      <3> QED
        BY <3>1, <3>2 DEF StillReleased, NextItem, Released
    <2> QED
      BY <1>4, <2>1, <2>2, <2>3
  <1> QED
    BY <1>5, <1>6, <1>7, <1>8, <1>9, LedgerSteps

-----------------------------------------------------------------------------
(* The theorems.                                                           *)

\* An empty database has nothing out of order.
LEMMA InitSound == Init => SafetyInvariant
  <1>. SUFFICES ASSUME Init PROVE SafetyInvariant
    OBVIOUS
  <1>. USE DEF Init, LedgerInit, CliInit, WorkerInit, DecisionsInit
  <1>1. LedgerTypeOK
    BY DEF LedgerTypeOK
  <1>2. CliTypeOK /\ WorkerTypeOK /\ DecisionsTypeOK
    BY DEF CliTypeOK, CliState, WorkerTypeOK, DecisionsTypeOK
  <1>3. ApprovalAnswersQuestion
    BY DEF ApprovalAnswersQuestion, Approved
  <1>4. CarriedSound
    BY DEF CarriedSound, DraftApart, AnswerSound, PanelSound, Drafting, At, Idle
  <1>5. OneResultPerItem /\ RowsFaithful /\ ConfirmedSendsPaced /\ ConfirmedSendsFirst
    BY DEF OneResultPerItem, RowsFaithful, ConfirmedSendsPaced, ConfirmedSendsFirst,
           ConfirmedRows, SentRows
  <1>6. ClaimsApproved /\ OneOpenClaim /\ CompletionTogether
    BY DEF ClaimsApproved, OneOpenClaim, CompletionTogether, Claimed, Open, Completed
  <1> QED
    BY <1>1, <1>2, <1>3, <1>4, <1>5, <1>6 DEF SafetyInvariant, TypeOK

\* Every step of every process keeps the invariant.
LEMMA StepSound == SafetyInvariant /\ [Next]_vars => SafetyInvariant'
  <1>. SUFFICES ASSUME SafetyInvariant, [Next]_vars PROVE SafetyInvariant'
    OBVIOUS
  <1>. USE DEF SafetyInvariant
  <1>1. TypeOK'
    <2>1. CASE (Tick \/ EditEvidence) /\ UNCHANGED <<cliVars, workerVars, decisionVars>>
      <3>1. LedgerTypeOK'
        BY <2>1 DEF TypeOK, LedgerTypeOK, Tick, EditEvidence, outreachVars
      <3> QED
        BY <2>1, <3>1 DEF TypeOK, CliTypeOK, WorkerTypeOK, DecisionsTypeOK, cliVars,
                          workerVars, decisionVars
    <2>2. CASE UNCHANGED vars
      BY <2>2 DEF TypeOK, LedgerTypeOK, CliTypeOK, WorkerTypeOK, DecisionsTypeOK, vars,
                  ledgerVars, outreachVars, cliVars, workerVars, decisionVars
    <2> QED
      BY <2>1, <2>2, CliTyped, WorkerTyped, PanelTyped DEF Next, Cli, Worker, Panel
  <1>2. ApprovalAnswersQuestion' /\ CarriedSound'
    BY ApprovalStep, CarriedStep
  <1>3. OneResultPerItem' /\ RowsFaithful'
    BY RowsStep
  <1>4. ClaimsSound'
    BY ClaimsStep DEF ClaimsSound
  <1>5. ConfirmedSound'
    BY ConfirmedStep DEF ClaimsSound, ConfirmedSound
  <1> QED
    BY <1>1, <1>2, <1>3, <1>4, <1>5 DEF ClaimsSound, ConfirmedSound

\* The invariant holds of every run, whatever the processes and their number.
THEOREM Safety == Spec => []SafetyInvariant
  BY InitSound, StepSound, PTL DEF Spec

\* Tables, sessions, claims and cards keep their shape.
THEOREM TypeCorrect == Spec => []TypeOK
  <1>1. SafetyInvariant => TypeOK
    BY DEF SafetyInvariant
  <1> QED
    BY <1>1, Safety, PTL

\* outreach_audits: each approved item gets one result at most, and only approved
\* items get one, whoever races to record it.
THEOREM ResultsFinal == Spec => []OneResultPerItem
  <1>1. SafetyInvariant => OneResultPerItem
    BY DEF SafetyInvariant
  <1> QED
    BY <1>1, Safety, PTL

\* worker_one_open_claim_per_platform: one greeting at most is out with the workers of
\* a platform, whatever the lease does.
THEOREM ClaimsExclusive == Spec => []OneOpenClaim
  <1>1. SafetyInvariant => OneOpenClaim
    BY DEF SafetyInvariant
  <1> QED
    BY <1>1, Safety, PTL

\* record_greeting: a claim is complete exactly when its event is, and then its result
\* is in the audits.
THEOREM CompletionAtomic == Spec => []CompletionTogether
  <1>1. SafetyInvariant => CompletionTogether
    BY DEF SafetyInvariant
  <1> QED
    BY <1>1, Safety, PTL

\* record_greeting: what a worker confirms as sent kept the gap, the stop and the cap
\* of its platform, against every row any process had written by then.
THEOREM ConfirmedPace == Spec => []ConfirmedSendsPaced
  <1>1. SafetyInvariant => ConfirmedSendsPaced
    BY DEF SafetyInvariant
  <1> QED
    BY <1>1, Safety, PTL

\* record_greeting: what a worker confirms as sent was the first contact with its job,
\* over every list the job is on.
THEOREM ConfirmedFirst == Spec => []ConfirmedSendsFirst
  <1>1. SafetyInvariant => ConfirmedSendsFirst
    BY DEF SafetyInvariant
  <1> QED
    BY <1>1, Safety, PTL

\* approve: an approval answers a question put before it, and names listed items.
THEOREM ApprovalsAnswer == Spec => []ApprovalAnswersQuestion
  <1>1. SafetyInvariant => ApprovalAnswersQuestion
    BY DEF SafetyInvariant
  <1> QED
    BY <1>1, Safety, PTL

\* A stored list, an approval and the fact that a question was put are never undone.
THEOREM NothingUndone == Spec => [][Frozen]_vars
  <1>1. SafetyInvariant /\ [Next]_vars => Frozen
    BY FrozenStep DEF SafetyInvariant
  <1> QED
    BY <1>1, Safety, PTL DEF Spec

=============================================================================
