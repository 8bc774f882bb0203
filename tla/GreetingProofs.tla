--------------------------- MODULE GreetingProofs ---------------------------
(***************************************************************************)
(* More about OutreachSystem, on top of OutreachProofs: the system         *)
(* implements GreetingPromise; decisions made in the panel and feedback    *)
(* stand; and one disciplined host keeps the pace.                         *)
(***************************************************************************)
EXTENDS OutreachProofs, SequenceTheorems, FiniteSetTheorems

-----------------------------------------------------------------------------
(* What a session is about to write down happened no later than now.       *)

StampsPast == \A s \in Sessions : At(s, "record_save") => cli[s].at <= now

PromiseInvariant == SafetyInvariant /\ StampsPast

\* Only the clock's own step moves time.
LEMMA ClockStep ==
    ASSUME [Next]_vars
    PROVE  now' = now \/ Tick
  <1>1. ASSUME NEW s \in Sessions, CliStep(s) PROVE now' = now
    BY <1>1 DEF CliStep, ledgerVars, DraftRead, DraftBuild, DraftSave, AskRead, AskSave,
                ApproveRead, ApproveAnswer, ApproveSave, WithdrawRead, WithdrawSave, LeaseRead,
                LeaseSave, LeaseRelease, NextRead, NextLease, NextRenew, NextRenewSave,
                NextDecide, RecordRead, RecordSave, Crash
  <1>2. CASE Worker \/ FetchStep \/ AckStep
    BY <1>2 DEF Worker, WorkerStep, ClaimGreeting, AuthorizeGreeting, RecordGreeting,
                FetchStep, Ingest, AckStep, Acknowledge, ledgerVars
  <1>3. CASE Panel \/ FeedbackStep
    BY <1>3 DEF Panel, PanelStep, PanelRead, PanelRegister, PanelPrepare, PanelCommit,
                PanelGiveUp, FeedbackStep, Feedback, ledgerVars
  <1>4. CASE EditEvidence \/ UNCHANGED vars
    BY <1>4 DEF EditEvidence, vars, ledgerVars
  <1> QED
    BY <1>1, <1>2, <1>3, <1>4 DEF Next, Cli

\* A time once stamped stays in the past, and a result is stamped when it is read.
LEMMA StampsStep ==
    ASSUME TypeOK, StampsPast, [Next]_vars
    PROVE  StampsPast'
  <1>1. now \in Nat /\ now' \in {now, now + 1} /\ now <= now'
    BY ClockStep DEF Tick, TypeOK, LedgerTypeOK
  <1>2. cli \in [Sessions -> CliState]
    BY DEF TypeOK, CliTypeOK
  <1>3. \A s \in Sessions : At(s, "record_save") => cli[s].at \in Nat
    BY <1>2, CarriedTypes DEF At
  <1>4. ASSUME UNCHANGED cli PROVE StampsPast'
    BY <1>1, <1>3, <1>4 DEF StampsPast, At
  <1>5. ASSUME NEW s \in Sessions, NEW c, Goto(s, c),
               c.pc = "record_save" => c.at = now
        PROVE  StampsPast'
    <2> SUFFICES ASSUME NEW r \in Sessions, cli'[r].pc = "record_save" PROVE cli'[r].at <= now'
      BY DEF StampsPast, At
    <2>1. CASE r = s
      BY <1>1, <1>2, <1>5, <2>1 DEF Goto
    <2>2. CASE r # s
      BY <1>1, <1>2, <1>3, <1>5, <2>2 DEF Goto, StampsPast, At
    <2> QED
      BY <2>1, <2>2
  <1>6. ASSUME NEW s \in Sessions, Done(s) PROVE StampsPast'
    BY <1>5, <1>6 DEF Done, Idle
  <1>7. ASSUME NEW s \in Sessions, CliStep(s) PROVE StampsPast'
    <2>1. CASE DraftBuild(s)
      BY <1>5, <1>6, <1>7, <2>1 DEF DraftBuild
    <2>2. CASE NextRenew(s)
      <3>1. [cli[s] EXCEPT !.pc = "next_renew_save"].pc = "next_renew_save"
        BY <1>2, <2>2 DEF NextRenew, At, CliState, Idle
      <3> QED
        BY <1>5, <2>2, <3>1 DEF NextRenew, Decide
    <2>3. CASE \E p \in Platforms : LeaseRelease(s, p)
      BY <1>4, <2>3 DEF LeaseRelease, cliVars
    <2> QED
      BY <1>5, <1>6, <1>7, <2>1, <2>2, <2>3
         DEF CliStep, DraftRead, DraftSave, AskRead, AskSave, ApproveRead, ApproveAnswer,
             ApproveSave, WithdrawRead, WithdrawSave, LeaseRead, LeaseSave, NextRead, NextLease,
             NextRenewSave, Decide, NextDecide, RecordRead, RecordSave, Crash
  <1> QED
    BY <1>4, <1>7 DEF Next, Cli, cliVars, vars

-----------------------------------------------------------------------------
(* The state of the promise, behind the state of the system.               *)

\* What is out on a platform is its one open claim, if it has one.
LEMMA OutIs ==
    ASSUME OneOpenClaim, NEW p \in Platforms
    PROVE  /\ \A i \in ItemKey : Open(i) /\ SiteOf(i) = p => OutWith[p] = <<i, ItemOf(i).job>>
           /\ ~PlatformClaimed(p) => OutWith[p] = None
  <1>1. ASSUME NEW i \in ItemKey, Open(i), SiteOf(i) = p
        PROVE  OutWith[p] = <<i, ItemOf(i).job>>
    <2>1. PlatformClaimed(p)
      BY <1>1 DEF PlatformClaimed
    <2>2. (CHOOSE j \in ItemKey : Open(j) /\ SiteOf(j) = p) = i
      BY <1>1 DEF OneOpenClaim
    <2> QED
      BY <2>1, <2>2 DEF OutWith
  <1>2. ~PlatformClaimed(p) => OutWith[p] = None
    BY DEF OutWith
  <1> QED
    BY <1>1, <1>2

LEMMA OutIsThen ==
    ASSUME OneOpenClaim', NEW p \in Platforms
    PROVE  /\ \A i \in ItemKey : Open(i)' /\ SiteOf(i)' = p =>
                  OutWith'[p] = <<i, ItemOf(i)'.job>>
           /\ ~PlatformClaimed(p)' => OutWith'[p] = None
  <1>1. ASSUME NEW i \in ItemKey, Open(i)', SiteOf(i)' = p
        PROVE  OutWith'[p] = <<i, ItemOf(i)'.job>>
    <2>1. PlatformClaimed(p)'
      BY <1>1 DEF PlatformClaimed
    <2>2. (CHOOSE j \in ItemKey : Open(j)' /\ SiteOf(j)' = p) = i
      BY <1>1 DEF OneOpenClaim
    <2> QED
      BY <2>1, <2>2 DEF OutWith
  <1>2. ~PlatformClaimed(p)' => OutWith'[p] = None
    BY DEF OutWith
  <1> QED
    BY <1>1, <1>2

\* While no claim is opened or settled, what is out stays out.
LEMMA OutStays ==
    ASSUME SafetyInvariant, SafetyInvariant', Frozen, \A i \in ItemKey : Open(i)' <=> Open(i)
    PROVE  OutWith' = OutWith
  <1>1. \A i \in ItemKey : Open(i) => ItemOf(i)' = ItemOf(i) /\ SiteOf(i)' = SiteOf(i)
    BY ApprovedStays DEF SafetyInvariant, ClaimsApproved, Open
  <1>2. ASSUME NEW p \in Platforms PROVE OutWith'[p] = OutWith[p]
    <2>1. CASE PlatformClaimed(p)
      BY <1>1, <2>1, OutIs, OutIsThen DEF PlatformClaimed, SafetyInvariant
    <2>2. CASE ~PlatformClaimed(p)
      <3>1. ~PlatformClaimed(p)'
        BY <1>1, <2>2 DEF PlatformClaimed
      <3> QED
        BY <2>2, <3>1, OutIs, OutIsThen DEF SafetyInvariant
    <2> QED
      BY <2>1, <2>2
  <1> QED
    BY <1>2 DEF OutWith

\* What is approved is known by item and job, and only grows.
LEMMA PairsGrow ==
    ASSUME SafetyInvariant, SafetyInvariant', Frozen
    PROVE  /\ ApprovedPairs \subseteq ApprovedPairs'
           /\ ApprovedPairs' \subseteq ItemKey \X Jobs
           /\ \A a, c \in ApprovedPairs' : a[1] = c[1] => a = c
  <1>1. ASSUME NEW i \in ItemKey, ApprovedItem(i) PROVE <<i, ItemOf(i).job>> \in ApprovedPairs'
    <2>1. ApprovedItem(i)' /\ ItemOf(i)' = ItemOf(i)
      BY <1>1, ApprovedStays DEF SafetyInvariant, ApprovedItem, Approved
    <2> QED
      BY <2>1 DEF ApprovedPairs
  <1>2. ASSUME NEW i \in ItemKey, ApprovedItem(i)' PROVE ItemOf(i)'.job \in Jobs
    <2>1. i[1] \in BatchId /\ i[2] \in Numbers
      BY DEF ItemKey
    <2>2. i[2] \in DOMAIN batches'[i[1]] /\ batches'[i[1]] \in ItemLists \cup {<<>>}
      BY <1>2, <2>1 DEF SafetyInvariant, ApprovalAnswersQuestion, ApprovedItem, TypeOK, LedgerTypeOK
    <2>3. batches'[i[1]] \in Seq(Item)
      BY <2>2 DEF ItemLists
    <2>4. batches'[i[1]][i[2]] \in Item
      BY <2>2, <2>3
    <2> QED
      BY <2>4 DEF ItemOf, Item
  <1>3. ApprovedPairs \subseteq ApprovedPairs'
    BY <1>1 DEF ApprovedPairs
  <1>4. ApprovedPairs' \subseteq ItemKey \X Jobs
    BY <1>2 DEF ApprovedPairs
  <1>5. \A a, c \in ApprovedPairs' : a[1] = c[1] => a = c
    BY DEF ApprovedPairs
  <1> QED
    BY <1>3, <1>4, <1>5

\* Without a new approval the pairs are the same.
LEMMA PairsStay ==
    ASSUME SafetyInvariant, Frozen, UNCHANGED approvals
    PROVE  ApprovedPairs' = ApprovedPairs
  <1>1. \A i \in ItemKey : ApprovedItem(i)' <=> ApprovedItem(i)
    BY DEF ApprovedItem, Approved
  <1>2. \A i \in ItemKey : ApprovedItem(i) => ItemOf(i)' = ItemOf(i)
    BY ApprovedStays DEF SafetyInvariant
  <1> QED
    BY <1>1, <1>2 DEF ApprovedPairs

\* The rows stay while none is added and no claim on a recorded item settles.
LEMMA RowsStay ==
    ASSUME SafetyInvariant, UNCHANGED audits,
           \A i \in ItemKey : Recorded(i) => (Completed(i)' <=> Completed(i))
    PROVE  LedgerRows' = LedgerRows
  <1>1. ASSUME NEW k \in DOMAIN audits
        PROVE  /\ RowItem(k)' = RowItem(k) /\ audits'[k] = audits[k]
               /\ Completed(RowItem(k))' = Completed(RowItem(k))
    <2>1. RowItem(k) \in ItemKey /\ Recorded(RowItem(k))
      BY RowTyped DEF SafetyInvariant, TypeOK, Recorded, RowItem
    <2>2. RowItem(k)' = RowItem(k)
      BY DEF RowItem
    <2>3. Completed(RowItem(k))' <=> Completed(RowItem(k))
      BY <2>1, <2>2
    <2>4. Completed(RowItem(k))' \in BOOLEAN /\ Completed(RowItem(k)) \in BOOLEAN
      BY DEF Completed
    <2> QED
      BY <2>2, <2>3, <2>4
  <1>2. DOMAIN audits' = DOMAIN audits
    OBVIOUS
  <1> QED
    BY <1>1, <1>2 DEF LedgerRows

PromiseRow == [item : ItemKey, job : Jobs, result : Results, at : Nat, confirmed : BOOLEAN]

\* The rows of the promise are those of the table, one by one.
RowsMatch ==
    /\ LedgerRows \in Seq(PromiseRow)
    /\ Len(LedgerRows) = Len(audits) /\ DOMAIN LedgerRows = DOMAIN audits
    /\ \A k \in DOMAIN audits :
         /\ LedgerRows[k].item = RowItem(k) /\ LedgerRows[k].job = audits[k].job
         /\ LedgerRows[k].result = audits[k].result /\ LedgerRows[k].at = audits[k].at
         /\ LedgerRows[k].confirmed = Completed(RowItem(k))

LEMMA RowsAre == LedgerTypeOK => RowsMatch
  <1> SUFFICES ASSUME LedgerTypeOK PROVE RowsMatch
    OBVIOUS
  <1>1. audits \in Seq(Audit)
    BY DEF LedgerTypeOK
  <1>2. Len(audits) \in Nat /\ DOMAIN audits = 1 .. Len(audits)
    BY <1>1, LenProperties
  <1>3. \A k \in DOMAIN audits : LedgerRows[k] \in PromiseRow
    BY RowTyped DEF LedgerRows, PromiseRow, Audit, Completed
  <1>4. LedgerRows = [k \in 1 .. Len(audits) |-> LedgerRows[k]]
    BY <1>2 DEF LedgerRows
  <1>5. LedgerRows \in Seq(PromiseRow)
    <2> DEFINE n == Len(audits)
               row(k) == LedgerRows[k]
    <2>1. [k \in 1 .. n |-> row(k)] \in Seq(PromiseRow)
      <3>1. n \in Nat /\ \A k \in 1 .. n : row(k) \in PromiseRow
        BY <1>2, <1>3
      <3> HIDE DEF n, row
      <3> QED
        BY <3>1, IsASeq
    <2> QED
      BY <1>4, <2>1
  <1>6. DOMAIN LedgerRows = DOMAIN audits
    BY DEF LedgerRows
  <1>7. Len(LedgerRows) = Len(audits)
    BY <1>2, <1>5, <1>6, LenProperties
  <1> QED
    BY <1>5, <1>6, <1>7 DEF LedgerRows, RowsMatch

\* A row more in the table is a row more of the promise.
LEMMA RowsGrow ==
    ASSUME SafetyInvariant, SafetyInvariant', NEW i \in ItemKey, NEW result \in Results, NEW t \in Nat,
           AppendAudit(i, result, t), \A j \in ItemKey \ {i} : Completed(j)' <=> Completed(j)
    PROVE  LedgerRows' = Append(LedgerRows, [item |-> i, job |-> ItemOf(i).job, result |-> result,
                                             at |-> t, confirmed |-> Completed(i)'])
  <1>1. RowsMatch /\ RowsMatch'
    <2>1. LedgerTypeOK' => RowsMatch'
      BY RowsAre, PTL
    <2> QED
      BY <2>1, RowsAre DEF SafetyInvariant, TypeOK
  <1>2. PICK new \in Nat \ {0} :
            /\ DOMAIN audits = 1..(new - 1) /\ DOMAIN audits' = 1..new
            /\ \A k \in DOMAIN audits : audits'[k] = audits[k]
            /\ audits'[new] = AuditRow(i, result, t)
    BY Appended DEF SafetyInvariant, TypeOK
  <1> DEFINE row == [item |-> i, job |-> ItemOf(i).job, result |-> result,
                     at |-> t, confirmed |-> Completed(i)']
  <1>3. LedgerRows'[new] = row
    <2>1. RowItem(new)' = i
      BY <1>2 DEF RowItem, AuditRow, ItemKey
    <2>2. new \in DOMAIN audits'
      BY <1>2
    <2> QED
      BY <1>2, <2>1, <2>2 DEF LedgerRows, AuditRow
  <1>4. \A k \in 1 .. new - 1 : LedgerRows'[k] = LedgerRows[k]
    <2> SUFFICES ASSUME NEW k \in 1 .. new - 1 PROVE LedgerRows'[k] = LedgerRows[k]
      OBVIOUS
    <2>1. k \in DOMAIN audits /\ k \in DOMAIN audits' /\ audits'[k] = audits[k]
      BY <1>2
    <2>2. RowItem(k) \in ItemKey \ {i}
      BY <2>1, RowTyped DEF SafetyInvariant, TypeOK, AppendAudit, Recorded, RowItem
    <2>3. RowItem(k)' = RowItem(k)
      BY <2>1 DEF RowItem
    <2>4. Completed(RowItem(k))' = Completed(RowItem(k))
      BY <2>2, <2>3 DEF Completed
    <2> QED
      BY <2>1, <2>3, <2>4 DEF LedgerRows
  <1>5. row \in PromiseRow
    <2>1. LedgerRows'[new] \in PromiseRow
      BY <1>1, <1>2, ElementOfSeq, LenProperties DEF RowsMatch
    <2> QED
      BY <1>3, <2>1
  <1> HIDE DEF row
  <1>6. /\ Len(LedgerRows) = new - 1 /\ Len(LedgerRows') = new
        /\ LedgerRows \in Seq(PromiseRow) /\ LedgerRows' \in Seq(PromiseRow)
    BY <1>1, <1>2, LenProperties DEF RowsMatch
  <1>7. /\ Append(LedgerRows, row) \in Seq(PromiseRow) /\ Len(Append(LedgerRows, row)) = new
        /\ \A k \in 1 .. new : Append(LedgerRows, row)[k] = IF k = new THEN row ELSE LedgerRows[k]
    BY <1>5, <1>6
  <1>8. LedgerRows' = Append(LedgerRows, row)
    BY <1>3, <1>4, <1>6, <1>7, SeqEqual
  <1> QED
    BY <1>8 DEF row

-----------------------------------------------------------------------------
(* The gate of the system is the gate of the promise.                      *)

\* Both modules count with the definition of FiniteSets.
LEMMA CountsAgree == ASSUME NEW S PROVE Promise!Cardinality(S) = Cardinality(S)
BY DEF Promise!Cardinality, Cardinality

LEMMA GatePromised ==
    ASSUME SafetyInvariant, NEW p \in Platforms, NEW held, GateOpen(p, held, now)
    PROVE  Promise!Paced(p)
  <1>1. RowsMatch
    BY RowsAre DEF SafetyInvariant, TypeOK
  <1> DEFINE rows == {k \in DOMAIN LedgerRows : Site[LedgerRows[k].job] = p}
             todays == {k \in rows : Promise!Day(LedgerRows[k].at) = Promise!Day(now)}
  <1>2. rows = OnPlatform(p)
    BY <1>1 DEF RowsMatch, OnPlatform, SafetyInvariant, RowsFaithful, SiteOf
  <1>3. todays = Todays(p, now)
    BY <1>1, <1>2 DEF RowsMatch, Todays, OnPlatform, Day, Promise!Day
  <1>4. \A k \in Todays(p, now) : LedgerRows[k].result = audits[k].result
    BY <1>1 DEF RowsMatch, Todays, OnPlatform
  <1>5. {k \in todays : LedgerRows[k].result = "sent"} = SentToday(p, now)
    BY <1>3, <1>4 DEF SentToday
  <1>6. \A k \in rows : now - LedgerRows[k].at >= MinGap
    BY <1>1, <1>2 DEF GateOpen, Spaced, RowsMatch, OnPlatform
  <1>7. \A k \in todays : LedgerRows[k].result \notin {"failed", "intervention"}
    BY <1>3, <1>4 DEF GateOpen, HaltedToday, Halting
  <1>8. Cardinality({k \in todays : LedgerRows[k].result = "sent"}) < Cap
    BY <1>5 DEF GateOpen
  <1>9. Promise!Cardinality({k \in todays : LedgerRows[k].result = "sent"}) < Cap
    BY <1>8, CountsAgree
  <1> QED
    BY <1>6, <1>7, <1>9 DEF Promise!Paced

LEMMA ContactPromised ==
    ASSUME SafetyInvariant, NEW i \in ItemKey, NEW j, ~Contacted(j)
    PROVE  Promise!FirstContact(<<i, j>>)
  <1>1. RowsMatch
    BY RowsAre DEF SafetyInvariant, TypeOK
  <1> QED
    BY <1>1 DEF RowsMatch, Promise!FirstContact, Promise!Contact, Contacted, CountsAsContact

LEMMA UnsettledPromised ==
    ASSUME SafetyInvariant, NEW i \in ItemKey, ApprovedItem(i), ~Recorded(i)
    PROVE  /\ <<i, ItemOf(i).job>> \in ApprovedPairs
           /\ Promise!Unsettled(<<i, ItemOf(i).job>>)
  <1>1. RowsMatch
    BY RowsAre DEF SafetyInvariant, TypeOK
  <1>2. \A k \in DOMAIN audits : RowItem(k) # i
    BY DEF Recorded, RowItem
  <1>3. <<i, ItemOf(i).job>> \in ApprovedPairs
    BY DEF ApprovedPairs
  <1> QED
    BY <1>1, <1>2, <1>3 DEF RowsMatch, Promise!Unsettled

-----------------------------------------------------------------------------
(* Each step of the system is a step of the promise, or none.              *)

Promised == Promise!Next \/ UNCHANGED <<now, ApprovedPairs, LedgerRows, OutWith>>

\* Most steps touch neither rows nor claims; an approval may be among them.
LEMMA QuietPromised ==
    ASSUME SafetyInvariant, SafetyInvariant', Frozen, [Next]_vars, UNCHANGED <<audits, claims>>
    PROVE  Promised
  <1>1. OutWith' = OutWith
    BY OutStays DEF Open, Claimed
  <1>2. LedgerRows' = LedgerRows
    BY RowsStay DEF Completed, Claimed
  <1>3. CASE now' = now
    <2>1. CASE ApprovedPairs' = ApprovedPairs
      BY <1>1, <1>2, <1>3, <2>1 DEF Promised
    <2>2. CASE ApprovedPairs' # ApprovedPairs
      <3>1. Promise!Approve
        BY <1>1, <1>2, <1>3, <2>2, PairsGrow DEF Promise!Approve
      <3> QED
        BY <3>1 DEF Promised, Promise!Next
    <2> QED
      BY <2>1, <2>2
  <1>4. CASE Tick
    <2>1. ApprovedPairs' = ApprovedPairs
      BY <1>4, PairsStay DEF Tick, outreachVars
    <2>2. Promise!Pass
      BY <1>1, <1>2, <1>4, <2>1 DEF Promise!Pass, Tick
    <2> QED
      BY <2>2 DEF Promised, Promise!Next
  <1> QED
    BY <1>3, <1>4, ClockStep

\* A session that records a result vouches for it.
LEMMA RecordPromised ==
    ASSUME PromiseInvariant, PromiseInvariant', Frozen, [Next]_vars,
           NEW s \in Sessions, NEW i, i = cli[s].item, RecordSave(s), UNCHANGED workerVars
    PROVE  Promised
  <1>1. SafetyInvariant /\ SafetyInvariant' /\ now \in Nat
    BY DEF PromiseInvariant, SafetyInvariant, TypeOK, LedgerTypeOK
  <1>2. UNCHANGED <<claims, approvals, now>>
    BY DEF RecordSave, workerVars
  <1>3. CASE Recorded(cli[s].item)
    BY <1>1, <1>2, <1>3, QuietPromised DEF RecordSave
  <1>4. CASE ~Recorded(cli[s].item)
    <2> DEFINE a == <<i, ItemOf(i).job>>
    <2>1. /\ cli[s] \in CliState /\ i \in ItemKey /\ ApprovedItem(i)
          /\ cli[s].result \in Results /\ cli[s].at \in Nat /\ cli[s].at <= now
      BY <1>1, CarriedTypes DEF RecordSave, At, PromiseInvariant, StampsPast, SafetyInvariant,
                                TypeOK, CliTypeOK, CarriedSound, AnswerSound
    <2>2. AppendAudit(i, cli[s].result, cli[s].at)
      BY <1>4 DEF RecordSave
    <2>3. \A j \in ItemKey : Completed(j)' <=> Completed(j)
      BY <1>2 DEF Completed, Claimed
    <2>4. Completed(i)' = FALSE
      <3>1. ~Completed(i)
        BY <1>1, <1>4, <2>1 DEF SafetyInvariant, CompletionTogether
      <3>2. ~Completed(i)'
        BY <2>1, <2>3, <3>1
      <3>3. Completed(i)' \in BOOLEAN
        BY DEF Completed
      <3> QED
        BY <3>2, <3>3
    <2>5. LedgerRows' = Append(LedgerRows, [item |-> a[1], job |-> a[2], result |-> cli[s].result,
                                            at |-> cli[s].at, confirmed |-> FALSE])
      <3>1. LedgerRows' = Append(LedgerRows, [item |-> i, job |-> ItemOf(i).job,
                                              result |-> cli[s].result, at |-> cli[s].at,
                                              confirmed |-> Completed(i)'])
        BY <1>1, <2>1, <2>2, <2>3, RowsGrow
      <3>2. a[1] = i /\ a[2] = ItemOf(i).job
        OBVIOUS
      <3> QED
        BY <2>4, <3>1, <3>2
    <2>6. a \in ApprovedPairs /\ Promise!Unsettled(a)
      BY <1>1, <1>4, <2>1, UnsettledPromised
    <2>7. OutWith' = OutWith /\ ApprovedPairs' = ApprovedPairs
      BY <1>1, <1>2, OutStays, PairsStay DEF Open, Claimed
    <2>8. Promise!Vouch(a, cli[s].result, cli[s].at)
      BY <1>2, <2>1, <2>5, <2>6, <2>7 DEF Promise!Vouch, Promise!Settle
    <2>9. cli[s].result \in Promise!Results /\ cli[s].at \in 0 .. now
      BY <1>1, <2>1 DEF Results, Promise!Results
    <2> HIDE DEF a
    <2>10. Promise!Next
      BY <2>6, <2>8, <2>9 DEF Promise!Next
    <2> QED
      BY <2>10 DEF Promised
  <1> QED
    BY <1>3, <1>4

\* A claim takes one greeting out on its platform.
LEMMA ClaimPromised ==
    ASSUME SafetyInvariant, SafetyInvariant', Frozen, [Next]_vars,
           NEW w \in Workers, NEW b \in BatchId, NEW p \in Platforms, ClaimGreeting(w, b, p)
    PROVE  Promised
  <1>1. PICK n \in Numbers :
            /\ NextItem(b, p, w, n) /\ ~Claimed(<<b, n>>)
            /\ claims' = [claims EXCEPT ![<<b, n>>] = [worker |-> w, status |-> "claimed"]]
    BY DEF ClaimGreeting
  <1> DEFINE i == <<b, n>>
             a == <<i, ItemOf(i).job>>
  <1>2. i \in ItemKey /\ claims \in [ItemKey -> Claim \cup {None}]
    BY DEF ItemKey, SafetyInvariant, TypeOK, WorkerTypeOK
  <1>3. /\ ApprovedItem(i) /\ ~Recorded(i) /\ SiteOf(i) = p /\ ~Contacted(ItemOf(i).job)
        /\ GateOpen(p, HoldsLease(p, w, now), now)
    BY <1>1 DEF NextItem, Released, Remaining
  <1>4. UNCHANGED <<now, approvals, audits, batches>>
    BY DEF ClaimGreeting, ledgerVars, outreachVars
  <1>5. ~PlatformClaimed(p)
    BY DEF ClaimGreeting
  <1>6. [worker |-> w, status |-> "claimed"] \in Claim
    BY WorkerAssumption DEF Claim
  <1>7. /\ \A j \in ItemKey \ {i} : (Open(j)' <=> Open(j)) /\ (Completed(j)' <=> Completed(j))
        /\ Open(i)' /\ ~Completed(i)' /\ ~Completed(i)
    BY <1>1, <1>2, <1>6, ClaimAssumption DEF Open, Completed, Claimed
  <1>8. SiteOf(i)' = p /\ ItemOf(i)' = ItemOf(i)
    BY <1>3, <1>4 DEF SiteOf, ItemOf
  <1>9. LedgerRows' = LedgerRows /\ ApprovedPairs' = ApprovedPairs
    BY <1>4, <1>7, RowsStay, PairsStay
  <1>10. OutWith' = [OutWith EXCEPT ![p] = a]
    <2>1. OutWith'[p] = a
      BY <1>2, <1>7, <1>8, OutIsThen DEF SafetyInvariant
    <2>2. ASSUME NEW q \in Platforms \ {p} PROVE OutWith'[q] = OutWith[q]
      <3>1. \A j \in ItemKey : (Open(j) /\ SiteOf(j) = q)' <=> (Open(j) /\ SiteOf(j) = q)
        BY <1>4, <1>7, <1>8 DEF SiteOf, ItemOf
      <3>2. CASE PlatformClaimed(q)
        <4>1. PICK j \in ItemKey : Open(j) /\ SiteOf(j) = q
          BY <3>2 DEF PlatformClaimed
        <4>2. ItemOf(j)' = ItemOf(j)
          BY <1>4 DEF ItemOf
        <4> QED
          BY <3>1, <4>1, <4>2, OutIs, OutIsThen DEF SafetyInvariant
      <3>3. CASE ~PlatformClaimed(q)
        <4>1. ~PlatformClaimed(q)'
          BY <3>1, <3>3 DEF PlatformClaimed
        <4> QED
          BY <3>3, <4>1, OutIs, OutIsThen DEF SafetyInvariant
      <3> QED
        BY <3>2, <3>3
    <2>3. OutWith = [q \in Platforms |-> OutWith[q]] /\ OutWith' = [q \in Platforms |-> OutWith'[q]]
      BY DEF OutWith
    <2> HIDE DEF a
    <2> QED
      BY <2>1, <2>2, <2>3
  <1>11. OutWith[p] = None
    BY <1>5, OutIs DEF SafetyInvariant
  <1>12. /\ a \in ApprovedPairs /\ Site[a[2]] = p
         /\ Promise!Unsettled(a) /\ Promise!FirstContact(a) /\ Promise!Paced(p)
    BY <1>2, <1>3, UnsettledPromised, ContactPromised, GatePromised DEF SiteOf
  <1>13. Promise!TakeOut(p)
    BY <1>4, <1>9, <1>10, <1>11, <1>12 DEF Promise!TakeOut
  <1> QED
    BY <1>13 DEF Promised, Promise!Next

\* An authorization is the worker's own affair.
LEMMA AuthorizePromised ==
    ASSUME SafetyInvariant, SafetyInvariant', Frozen, [Next]_vars,
           NEW w \in Workers, NEW i \in ItemKey, AuthorizeGreeting(w, i)
    PROVE  Promised
  <1>1. claims \in [ItemKey -> Claim \cup {None}] /\ claims[i] \in Claim
    BY DEF AuthorizeGreeting, Claimed, SafetyInvariant, TypeOK, WorkerTypeOK
  <1>2. [claims[i] EXCEPT !.status = "authorized"] \in Claim
    BY <1>1 DEF Claim
  <1>3. \A j \in ItemKey : (Open(j)' <=> Open(j)) /\ (Completed(j)' <=> Completed(j))
    BY <1>1, <1>2, ClaimAssumption DEF AuthorizeGreeting, Open, Completed, Claimed, Claim
  <1>4. UNCHANGED <<now, approvals, audits>>
    BY DEF AuthorizeGreeting, ledgerVars, outreachVars
  <1> QED
    BY <1>3, <1>4, OutStays, RowsStay, PairsStay DEF Promised

\* A readback brings the platform's greeting back, and what counts was still released.
LEMMA BringBackPromised ==
    ASSUME SafetyInvariant, SafetyInvariant', Frozen, [Next]_vars,
           NEW w \in Workers, NEW i \in ItemKey, NEW readback \in Readback,
           NEW p, p = SiteOf(i), RecordGreeting(w, i, readback)
    PROVE  Promised
  <1> DEFINE a == <<i, ItemOf(i).job>>
             result == Settled(i, readback)
  <1>1. /\ Open(i) /\ ApprovedItem(i) /\ ~Recorded(i) /\ result \in Results
        /\ AppendAudit(i, result, now) /\ now \in Nat
        /\ claims \in [ItemKey -> Claim \cup {None}] /\ claims[i] \in Claim
    BY SettledTyped DEF RecordGreeting, AppendAudit, Open, Claimed, ClaimsApproved, SafetyInvariant,
                        TypeOK, LedgerTypeOK, WorkerTypeOK
  <1>2. UNCHANGED <<now, approvals, batches>>
    BY DEF RecordGreeting
  <1>3. [claims[i] EXCEPT !.status = "completed"] \in Claim
    BY <1>1 DEF Claim
  <1>4. /\ \A j \in ItemKey \ {i} : (Open(j)' <=> Open(j)) /\ (Completed(j)' <=> Completed(j))
        /\ ~Open(i)' /\ Completed(i)'
    BY <1>1, <1>3, ClaimAssumption DEF RecordGreeting, Open, Completed, Claimed, Claim
  <1>5. ItemOf(i).job \in Jobs /\ p \in Platforms
    <2>1. a \in ApprovedPairs
      BY <1>1 DEF ApprovedPairs
    <2>2. a \in ItemKey \X Jobs
      BY <2>1, PairsGrow
    <2> QED
      BY <2>2, LedgerAssumption DEF SiteOf
  <1>6. OutWith[p] = a /\ a # None
    <2>1. OutWith[p] = a
      BY <1>1, <1>5, OutIs DEF SafetyInvariant
    <2>2. a \in ItemKey \X Jobs
      BY <1>5
    <2> QED
      BY <2>1, <2>2, PairAssumption
  <1>7. a \in ApprovedPairs /\ Promise!Unsettled(a)
    BY <1>1, UnsettledPromised
  <1>8. result \in Promise!Contact => Promise!FirstContact(a) /\ Promise!Paced(p)
    <2> SUFFICES ASSUME result \in Promise!Contact
                 PROVE  Promise!FirstContact(a) /\ Promise!Paced(p)
      OBVIOUS
    <2>1. StillReleased(i)
      BY DEF Settled, Promise!Contact, CountsAsContact, Readback, Observed
    <2>2. GateOpen(p, HoldsLease(p, claims[i].worker, now), now)
      BY <2>1 DEF StillReleased, NextItem, Released
    <2>3. ~Contacted(ItemOf(i).job)
      BY <2>1 DEF StillReleased, NextItem, ItemOf
    <2> QED
      BY <1>5, <2>2, <2>3, GatePromised, ContactPromised
  <1>9. LedgerRows' = Append(LedgerRows, [item |-> a[1], job |-> a[2], result |-> result,
                                          at |-> now, confirmed |-> TRUE])
    <2>1. LedgerRows' = Append(LedgerRows, [item |-> i, job |-> ItemOf(i).job, result |-> result,
                                            at |-> now, confirmed |-> Completed(i)'])
      BY <1>1, <1>4, RowsGrow
    <2>2. Completed(i)' = TRUE
      BY <1>4 DEF Completed
    <2>3. a[1] = i /\ a[2] = ItemOf(i).job
      OBVIOUS
    <2> QED
      BY <2>1, <2>2, <2>3
  <1>10. ApprovedPairs' = ApprovedPairs
    BY <1>2, PairsStay
  <1>11. OutWith' = [OutWith EXCEPT ![p] = None]
    <2>1. \A j \in ItemKey : ItemOf(j)' = ItemOf(j) /\ SiteOf(j)' = SiteOf(j)
      BY <1>2 DEF SiteOf, ItemOf
    <2>2. OutWith'[p] = None
      <3>1. ~PlatformClaimed(p)'
        <4> SUFFICES ASSUME NEW j \in ItemKey, Open(j)', SiteOf(j)' = p PROVE FALSE
          BY DEF PlatformClaimed
        <4>1. j # i /\ Open(j)
          BY <1>4
        <4>2. SiteOf(j) = SiteOf(i)
          BY <2>1
        <4> QED
          BY <1>1, <4>1, <4>2 DEF SafetyInvariant, OneOpenClaim
      <3> QED
        BY <1>5, <3>1, OutIsThen DEF SafetyInvariant
    <2>3. ASSUME NEW q \in Platforms \ {p} PROVE OutWith'[q] = OutWith[q]
      <3>1. \A j \in ItemKey : (Open(j)' /\ SiteOf(j)' = q) <=> (Open(j) /\ SiteOf(j) = q)
        BY <1>4, <2>1
      <3>2. CASE PlatformClaimed(q)
        <4>1. PICK j \in ItemKey : Open(j) /\ SiteOf(j) = q
          BY <3>2 DEF PlatformClaimed
        <4> QED
          BY <2>1, <3>1, <4>1, OutIs, OutIsThen DEF SafetyInvariant
      <3>3. CASE ~PlatformClaimed(q)
        <4>1. ~PlatformClaimed(q)'
          BY <3>1, <3>3 DEF PlatformClaimed
        <4> QED
          BY <3>3, <4>1, OutIs, OutIsThen DEF SafetyInvariant
      <3> QED
        BY <3>2, <3>3
    <2>4. OutWith = [q \in Platforms |-> OutWith[q]] /\ OutWith' = [q \in Platforms |-> OutWith'[q]]
      BY DEF OutWith
    <2> QED
      BY <2>2, <2>3, <2>4
  <1> HIDE DEF a, result
  <1>12. Promise!BringBack(p, result)
    BY <1>2, <1>6, <1>7, <1>8, <1>9, <1>10, <1>11 DEF Promise!BringBack, Promise!Settle
  <1>13. result \in Promise!Results
    BY <1>1 DEF Results, Promise!Results
  <1> QED
    BY <1>5, <1>12, <1>13 DEF Promised, Promise!Next

LEMMA StepPromised ==
    ASSUME PromiseInvariant, PromiseInvariant', [Next]_vars
    PROVE  Promised
  <1>1. SafetyInvariant /\ SafetyInvariant'
    BY DEF PromiseInvariant
  <1>2. Frozen
    BY <1>1, FrozenStep DEF SafetyInvariant
  <1>3. CASE \E s \in Sessions : RecordSave(s) /\ UNCHANGED workerVars
    BY <1>2, <1>3, RecordPromised
  <1>4. CASE \E w \in Workers, b \in BatchId, p \in Platforms : ClaimGreeting(w, b, p)
    BY <1>1, <1>2, <1>4, ClaimPromised
  <1>5. CASE \E w \in Workers, i \in ItemKey : AuthorizeGreeting(w, i)
    BY <1>1, <1>2, <1>5, AuthorizePromised
  <1>6. CASE \E w \in Workers, i \in ItemKey, readback \in Readback :
                 RecordGreeting(w, i, readback)
    BY <1>1, <1>2, <1>6, BringBackPromised
  <1>7. CASE UNCHANGED <<audits, claims>>
    BY <1>1, <1>2, <1>7, QuietPromised
  <1> QED
    BY <1>1, <1>3, <1>4, <1>5, <1>6, <1>7, LedgerSteps DEF SafetyInvariant

LEMMA InitPromised == Init => Promise!Init /\ PromiseInvariant
  <1> SUFFICES ASSUME Init PROVE Promise!Init /\ PromiseInvariant
    OBVIOUS
  <1>1. SafetyInvariant
    BY InitSound
  <1>2. StampsPast
    BY DEF Init, CliInit, StampsPast, At, Idle
  <1>3. ApprovedPairs \subseteq ItemKey \X Jobs
    BY DEF ApprovedPairs, ApprovedItem, Approved, Init, LedgerInit, ItemKey
  <1>4. LedgerRows = <<>>
    BY DEF LedgerRows, Init, LedgerInit
  <1>5. OutWith = [p \in Platforms |-> None]
    BY DEF OutWith, PlatformClaimed, Open, Claimed, Init, WorkerInit
  <1> QED
    BY <1>1, <1>2, <1>3, <1>4, <1>5 DEF Promise!Init, PromiseInvariant, Init, LedgerInit

LEMMA PromiseInvariantStep == PromiseInvariant /\ [Next]_vars => PromiseInvariant'
  <1> SUFFICES ASSUME PromiseInvariant, [Next]_vars PROVE PromiseInvariant'
    OBVIOUS
  <1> QED
    BY StepSound, StampsStep DEF PromiseInvariant, SafetyInvariant

\* Sessions, workers and panels over one database implement the promise: approvals, one
\* result per item, one greeting out per platform, and a worker's sends first and paced.
THEOREM GreetingsPromised == Spec => PromiseKept
  <1>1. PromiseInvariant /\ PromiseInvariant' /\ [Next]_vars
          => [Promise!Next]_<<now, ApprovedPairs, LedgerRows, OutWith>>
    BY StepPromised DEF Promised
  <1> QED
    BY <1>1, InitPromised, PromiseInvariantStep, PTL
       DEF Spec, PromiseKept, Promise!Spec, Promise!promiseVars

-----------------------------------------------------------------------------
(* Decisions on single items stand: what they rest on.                     *)

\* The operations stored for a list.
OpsOn(b) == {k \in OpKeys : saved[k] # None /\ saved[k].batch = b}

\* A card is of a stored list and counts its operations; without a card there are none.
CardsCount == \A b \in BatchId :
    /\ IsFiniteSet(OpsOn(b))
    /\ cards[b] = None => OpsOn(b) = {}
    /\ cards[b] # None => Known(b) /\ cards[b].revision = Cardinality(OpsOn(b))

\* What a request has read: the list was asked, and a card of the current revision is
\* the current card.
ReadsHold == \A h \in Handlers : panel[h] # None =>
    LET b == panel[h].request.batch
    IN /\ asks[b] # None
       /\ panel[h].pc = "commit" =>
              /\ cards[b] # None
              /\ panel[h].card.revision <= cards[b].revision
              /\ panel[h].card.revision = cards[b].revision => panel[h].card = cards[b]

\* A single-item list comes with its approval.
ChildrenApproved == \A c \in Children : Known(c) => Approved(c)

\* An approval signal stands where an approval does.
FeedbackTrue == \A b \in BatchId, n \in Numbers :
    feedback[b][n] = "approved" => ApprovedItem(<<b, n>>)

DecisionInvariant ==
    /\ SafetyInvariant
    /\ CardsCount /\ ReadsHold
    /\ ChildrenApproved /\ PanelApprovalExact /\ DecidedListWithdrawn
    /\ FeedbackTrue

\* Only the panel touches cards, operations and what its requests read.
LEMMA PanelOnly ==
    ASSUME [Next]_vars
    PROVE  \/ UNCHANGED <<cards, saved, panel>>
           \/ \E h \in Handlers : PanelStep(h)
  <1>1. ASSUME NEW s \in Sessions, CliStep(s) PROVE UNCHANGED cards
    BY <1>1 DEF CliStep, ledgerVars, outreachVars, DraftRead, DraftBuild, DraftSave, AskRead, AskSave,
                ApproveRead, ApproveAnswer, ApproveSave, WithdrawRead, WithdrawSave, LeaseRead,
                LeaseSave, LeaseRelease, NextRead, NextLease, NextRenew, NextRenewSave,
                NextDecide, RecordRead, RecordSave, Crash
  <1>2. ASSUME Worker \/ FetchStep \/ AckStep PROVE UNCHANGED cards
    BY <1>2 DEF Worker, WorkerStep, ClaimGreeting, AuthorizeGreeting, RecordGreeting,
                FetchStep, Ingest, AckStep, Acknowledge, ledgerVars, outreachVars
  <1>3. CASE FeedbackStep
    BY <1>3 DEF FeedbackStep, Feedback, ledgerVars, outreachVars
  <1>4. CASE (Tick \/ EditEvidence) /\ UNCHANGED decisionVars
    BY <1>4 DEF Tick, EditEvidence, outreachVars, decisionVars
  <1> QED
    BY <1>1, <1>2, <1>3, <1>4
       DEF Next, Cli, Panel, decisionVars, vars, ledgerVars, outreachVars

\* Lists other than the panel's single items, and withdrawals, change by the CLI alone.
LEMMA ListsAndWithdrawals ==
    ASSUME TypeOK, [Next]_vars, UNCHANGED <<cards, saved, panel>>
    PROVE  /\ withdrawn \subseteq withdrawn'
           /\ \/ UNCHANGED batches
              \/ \E s \in Sessions : DraftSave(s)
           /\ \/ UNCHANGED approvals
              \/ \E s \in Sessions : ApproveSave(s)
  <1>1. ASSUME NEW s \in Sessions, CliStep(s)
        PROVE  /\ withdrawn \subseteq withdrawn'
               /\ UNCHANGED batches \/ DraftSave(s)
               /\ UNCHANGED approvals \/ ApproveSave(s)
    BY <1>1 DEF CliStep, ledgerVars, outreachVars, DraftRead, DraftBuild, DraftSave, AskRead, AskSave,
                ApproveRead, ApproveAnswer, ApproveSave, WithdrawRead, WithdrawSave, LeaseRead,
                LeaseSave, LeaseRelease, NextRead, NextLease, NextRenew, NextRenewSave,
                NextDecide, RecordRead, RecordSave, Crash
  <1>2. ASSUME Worker \/ FetchStep \/ AckStep PROVE UNCHANGED <<batches, approvals, withdrawn>>
    BY <1>2 DEF Worker, WorkerStep, ClaimGreeting, AuthorizeGreeting, RecordGreeting,
                FetchStep, Ingest, AckStep, Acknowledge, ledgerVars, outreachVars
  <1>3. ASSUME NEW h \in Handlers, PanelStep(h) PROVE FALSE
    <2>1. panel \in [Handlers -> PanelState \cup {None}] /\ None \notin PanelState
      BY PanelAssumption DEF TypeOK, DecisionsTypeOK
    <2>2. CASE \E request \in Request : PanelRead(h, request)
      <3>1. PICK request \in Request :
                panel' = [panel EXCEPT ![h] = [pc |-> "card", request |-> request, at |-> now]]
        BY <2>2 DEF PanelRead
      <3>2. [pc |-> "card", request |-> request, at |-> now] \in PanelState
        BY DEF PanelState, TypeOK, LedgerTypeOK
      <3>3. panel[h] = None
        BY <2>2 DEF PanelRead
      <3> QED
        BY <2>1, <3>1, <3>2, <3>3
    <2>3. CASE PanelRegister(h)
      <3>1. panel[h].request.batch \in BatchId
        BY <2>3, PanelTypes DEF PanelRegister, PanelAt, Request, BatchId, TypeOK
      <3>2. NewCard \in Card
        BY DEF NewCard, Card
      <3> QED
        BY <2>3, <3>1, <3>2, NoneAssumption DEF PanelRegister, TypeOK, LedgerTypeOK
    <2>4. CASE PanelPrepare(h)
      <3>1. panel'[h] = None \/ panel'[h].pc = "commit"
        BY <2>1, <2>4 DEF PanelPrepare, PanelDone
      <3> QED
        BY <2>1, <2>4, <3>1 DEF PanelPrepare, PanelAt
    <2>5. CASE PanelCommit(h) \/ PanelGiveUp(h)
      BY <2>1, <2>5 DEF PanelCommit, PanelGiveUp, PanelAt, PanelDone
    <2> QED
      BY <1>3, <2>2, <2>3, <2>4, <2>5 DEF PanelStep
  <1> QED
    BY <1>1, <1>2, <1>3
       DEF Next, Cli, Panel, vars, Tick, EditEvidence, FeedbackStep, Feedback, ledgerVars, outreachVars

\* What a commit does, as one.
LEMMA CommitDoes ==
    ASSUME DecisionInvariant, NEW h \in Handlers, PanelCommit(h), NEW r, r = panel[h].request
    PROVE  /\ r \in Request /\ r.batch \in Batches /\ r.batch \in BatchId /\ r.batch \notin Children
           /\ r.number \in DOMAIN batches[r.batch] /\ r.number \in Numbers
           /\ r.action \in Decisions /\ r.key \in OpKeys
           /\ Child(r) \in Children /\ Child(r) \in BatchId /\ Child(r) \notin Batches
           /\ asks[r.batch] # None /\ cards[r.batch] \in Card
           /\ Revised(cards[r.batch], r) \in Card
           /\ saved[r.key] = None /\ saved' = [saved EXCEPT ![r.key] = r]
           /\ cards' = [cards EXCEPT ![r.batch] = Revised(cards[r.batch], r)]
           /\ withdrawn' = IF Closes(cards[r.batch], r) THEN withdrawn \cup {r.batch} ELSE withdrawn
           /\ panel' = [panel EXCEPT ![h] = None]
  <1> USE DEF DecisionInvariant, SafetyInvariant
  <1>1. /\ r \in Request /\ panel[h].card \in Card
        /\ r.number \in DOMAIN batches[r.batch]
        /\ panel[h] # None /\ panel[h].pc = "commit"
    BY PanelTypes DEF PanelCommit, PanelAt, CarriedSound, PanelSound, TypeOK
  <1>2. r.batch \in Batches /\ r.key \in OpKeys /\ r.action \in Decisions
    BY <1>1 DEF Request
  <1>3. /\ r.batch \in BatchId /\ r.number \in Numbers
        /\ Child(r) \in Children /\ Child(r) \in BatchId
    BY <1>1, RequestItem DEF TypeOK
  <1>4. Child(r) \notin Batches /\ r.batch \notin Children
    BY <1>2, <1>3, LedgerAssumption
  <1>5. panel[h].card = cards[r.batch] /\ asks[r.batch] # None
    BY <1>1 DEF ReadsHold, PanelCommit, CommitAllowed
  <1>6. Revised(cards[r.batch], r) \in Card
    BY <1>1, <1>2, <1>3, <1>5 DEF Revised, Card
  <1> QED
    BY <1>1, <1>2, <1>3, <1>4, <1>5, <1>6 DEF PanelCommit, CommitAllowed, PanelDone

LEMMA CommitApproves ==
    ASSUME DecisionInvariant, NEW h \in Handlers, PanelCommit(h), NEW r, r = panel[h].request
    PROVE  \/ UNCHANGED <<batches, approvals>>
           \/ /\ ~Known(Child(r))
              /\ batches' = [batches EXCEPT ![Child(r)] = <<batches[r.batch][r.number]>>]
              /\ \E t \in Nat : approvals' = [approvals EXCEPT ![Child(r)] = [numbers |-> {1}, at |-> t]]
  <1>1. panel[h].at \in Nat
    BY PanelTypes DEF PanelCommit, PanelAt, DecisionInvariant, SafetyInvariant, TypeOK
  <1> QED
    BY <1>1 DEF PanelCommit, CommitAllowed, Child, ItemOf

\* No card goes away, and nothing decided on one is taken back.
LEMMA DecidedStays ==
    ASSUME DecisionInvariant, [Next]_vars
    PROVE  /\ \A b \in BatchId : cards[b] # None => cards'[b] # None
           /\ \A b \in BatchId : Decided(b) \subseteq Decided(b)'
  <1> USE DEF DecisionInvariant, SafetyInvariant
  <1>1. CASE UNCHANGED <<cards, saved, panel>>
    BY <1>1 DEF Decided
  <1>2. ASSUME NEW h \in Handlers, PanelRegister(h)
        PROVE  \A b \in BatchId : cards[b] # None => cards'[b] = cards[b]
    BY <1>2 DEF PanelRegister, TypeOK, LedgerTypeOK
  <1>3. ASSUME NEW h \in Handlers, PanelCommit(h)
        PROVE  \A b \in BatchId : cards[b] # None =>
                   /\ cards'[b] # None
                   /\ \A n \in Numbers : cards[b].decisions[n] # None => cards'[b].decisions[n] # None
    <2>1. PICK r : r = panel[h].request
      OBVIOUS
    <2>2. /\ r.batch \in BatchId /\ r.number \in Numbers /\ r.action \in Decisions
          /\ cards[r.batch] \in Card /\ Revised(cards[r.batch], r) \in Card
          /\ cards' = [cards EXCEPT ![r.batch] = Revised(cards[r.batch], r)]
      BY <1>3, <2>1, CommitDoes
    <2>3. \A n \in Numbers : cards[r.batch].decisions[n] # None
              => Revised(cards[r.batch], r).decisions[n] # None
      BY <2>2, NoneAssumption DEF Revised, Card
    <2> QED
      BY <2>2, <2>3, NoneAssumption DEF TypeOK, LedgerTypeOK
  <1>4. ASSUME NEW h \in Handlers, PanelStep(h), ~PanelRegister(h), ~PanelCommit(h)
        PROVE  UNCHANGED cards
    BY <1>4 DEF PanelStep, PanelRead, PanelPrepare, PanelGiveUp, ledgerVars, outreachVars
  <1>5. CASE \E h \in Handlers : PanelStep(h)
    BY <1>2, <1>3, <1>4, <1>5 DEF Decided
  <1> QED
    BY <1>1, <1>5, PanelOnly

LEMMA CardsCountStep ==
    ASSUME DecisionInvariant, Frozen, [Next]_vars
    PROVE  CardsCount'
  <1> USE DEF DecisionInvariant, SafetyInvariant
  <1>1. \A b \in BatchId : Known(b) => Known(b)'
    BY DEF Frozen, Known
  <1>2. CASE UNCHANGED <<cards, saved>>
    <2>1. \A b \in BatchId : OpsOn(b)' = OpsOn(b)
      BY <1>2 DEF OpsOn
    <2> QED
      BY <1>1, <1>2, <2>1 DEF CardsCount
  <1>3. ASSUME NEW h \in Handlers, PanelRegister(h) PROVE CardsCount'
    <2>1. PICK c \in BatchId : c = panel[h].request.batch
      BY <1>3, PanelTypes DEF PanelRegister, PanelAt, Request, BatchId, TypeOK
    <2>2. cards[c] = None /\ cards' = [cards EXCEPT ![c] = NewCard] /\ UNCHANGED saved
      BY <1>3, <2>1 DEF PanelRegister, decisionVars
    <2>3. panel[h].request.number \in DOMAIN batches[c]
      BY <1>3, <2>1 DEF PanelRegister, PanelAt, CarriedSound, PanelSound
    <2>4. Known(c)
      BY <2>3 DEF Known
    <2>5. \A b \in BatchId : OpsOn(b)' = OpsOn(b)
      BY <2>2 DEF OpsOn
    <2>6. NewCard # None /\ NewCard.revision = 0
      BY NoneAssumption DEF NewCard, Card
    <2>7. cards'[c] = NewCard /\ \A b \in BatchId \ {c} : cards'[b] = cards[b]
      BY <2>2 DEF TypeOK, LedgerTypeOK
    <2>8. Cardinality(OpsOn(c)) = 0
      BY <2>2, FS_EmptySet DEF CardsCount
    <2> QED
      BY <1>1, <2>4, <2>5, <2>6, <2>7, <2>8 DEF CardsCount
  <1>4. ASSUME NEW h \in Handlers, PanelCommit(h) PROVE CardsCount'
    <2>1. PICK r : r = panel[h].request
      OBVIOUS
    <2>2. /\ r \in Request /\ r.batch \in BatchId /\ r.key \in OpKeys
          /\ cards[r.batch] \in Card /\ Revised(cards[r.batch], r) \in Card
          /\ saved[r.key] = None /\ saved' = [saved EXCEPT ![r.key] = r]
          /\ cards' = [cards EXCEPT ![r.batch] = Revised(cards[r.batch], r)]
      BY <1>4, <2>1, CommitDoes
    <2>3. r # None /\ saved \in [OpKeys -> Request \cup {None}]
      BY <2>2, PanelAssumption DEF TypeOK, DecisionsTypeOK
    <2>4. \A b \in BatchId \ {r.batch} : OpsOn(b)' = OpsOn(b) /\ cards'[b] = cards[b]
      BY <2>2, <2>3 DEF OpsOn, TypeOK, LedgerTypeOK
    <2>5. OpsOn(r.batch)' = OpsOn(r.batch) \cup {r.key} /\ r.key \notin OpsOn(r.batch)
      BY <2>2, <2>3 DEF OpsOn
    <2>6. /\ IsFiniteSet(OpsOn(r.batch)')
          /\ Cardinality(OpsOn(r.batch)') = Cardinality(OpsOn(r.batch)) + 1
      BY <2>2, <2>5, FS_AddElement DEF CardsCount
    <2>7. /\ cards'[r.batch] # None
          /\ cards'[r.batch].revision = cards[r.batch].revision + 1
      BY <2>2, NoneAssumption DEF Revised, TypeOK, LedgerTypeOK
    <2>8. cards[r.batch] # None
      BY <2>2, NoneAssumption
    <2> QED
      BY <1>1, <2>2, <2>4, <2>6, <2>7, <2>8 DEF CardsCount
  <1>5. ASSUME NEW h \in Handlers, PanelStep(h), ~PanelRegister(h), ~PanelCommit(h)
        PROVE  UNCHANGED <<cards, saved>>
    BY <1>5 DEF PanelStep, PanelRead, PanelPrepare, PanelGiveUp, ledgerVars, outreachVars
  <1> QED
    BY <1>2, <1>3, <1>4, <1>5, PanelOnly

LEMMA ReadsHoldStep ==
    ASSUME DecisionInvariant, Frozen, [Next]_vars
    PROVE  ReadsHold'
  <1> USE DEF DecisionInvariant, SafetyInvariant
  <1>1. \A h \in Handlers : panel[h] # None =>
            panel[h].request.batch \in BatchId /\ asks'[panel[h].request.batch] # None
    BY PanelTypes DEF ReadsHold, Frozen, Request, BatchId, TypeOK
  <1>2. panel \in [Handlers -> PanelState \cup {None}]
    BY DEF TypeOK, DecisionsTypeOK
  <1>3. CASE UNCHANGED <<cards, panel>>
    BY <1>1, <1>3 DEF ReadsHold
  <1>4. ASSUME NEW h \in Handlers, PanelDone(h), UNCHANGED cards PROVE ReadsHold'
    BY <1>1, <1>2, <1>4 DEF ReadsHold, PanelDone
  <1>5. ASSUME NEW h \in Handlers, NEW request \in Request, PanelRead(h, request) PROVE ReadsHold'
    <2>1. asks'[request.batch] # None
      BY <1>5 DEF PanelRead, OpenItem, ledgerVars, outreachVars
    <2>2. /\ UNCHANGED cards
          /\ panel' = [panel EXCEPT ![h] = [pc |-> "card", request |-> request, at |-> now]]
      BY <1>5 DEF PanelRead, ledgerVars, outreachVars
    <2> QED
      BY <1>1, <1>2, <2>1, <2>2 DEF ReadsHold
  <1>6. ASSUME NEW h \in Handlers, PanelRegister(h) PROVE ReadsHold'
    <2>1. PICK c \in BatchId : c = panel[h].request.batch
      BY <1>6, PanelTypes DEF PanelRegister, PanelAt, Request, BatchId, TypeOK
    <2>2. cards[c] = None /\ cards' = [cards EXCEPT ![c] = NewCard] /\ UNCHANGED panel
      BY <1>6, <2>1 DEF PanelRegister, decisionVars
    <2>3. \A b \in BatchId \ {c} : cards'[b] = cards[b]
      BY <2>2 DEF TypeOK, LedgerTypeOK
    <2>4. \A g \in Handlers : panel[g] # None /\ panel[g].pc = "commit"
              => panel[g].request.batch \in BatchId \ {c}
      BY <1>1, <2>2 DEF ReadsHold
    <2> QED
      BY <1>1, <2>2, <2>3, <2>4 DEF ReadsHold
  <1>7. ASSUME NEW h \in Handlers, PanelPrepare(h) PROVE ReadsHold'
    <2> DEFINE r == panel[h].request
    <2>1. PICK c \in BatchId : c = r.batch
      BY <1>7, PanelTypes DEF PanelPrepare, PanelAt, Request, BatchId, TypeOK
    <2>2. CASE PanelDone(h)
      BY <1>4, <1>7, <2>2 DEF PanelPrepare, ledgerVars, outreachVars
    <2>3. CASE panel' = [panel EXCEPT ![h] = [pc |-> "commit", request |-> r, at |-> panel[h].at,
                                              card |-> cards[c]]]
      <3>1. cards[c] # None /\ UNCHANGED cards /\ asks'[c] # None
        BY <1>1, <1>7, <2>1 DEF PanelPrepare, PanelAt, ledgerVars, outreachVars
      <3>2. cards[c].revision <= cards[c].revision
        BY <3>1 DEF TypeOK, LedgerTypeOK, Card
      <3>3. /\ panel'[h].request.batch = c /\ panel'[h].card = cards[c]
            /\ \A g \in Handlers \ {h} : panel'[g] = panel[g]
        BY <1>2, <2>1, <2>3
      <3> QED
        BY <1>1, <3>1, <3>2, <3>3 DEF ReadsHold
    <2> QED
      BY <1>7, <2>1, <2>2, <2>3 DEF PanelPrepare
  <1>8. ASSUME NEW h \in Handlers, PanelCommit(h) PROVE ReadsHold'
    <2>1. PICK r : r = panel[h].request
      OBVIOUS
    <2>2. /\ r.batch \in BatchId /\ cards[r.batch] \in Card
          /\ Revised(cards[r.batch], r) \in Card
          /\ cards' = [cards EXCEPT ![r.batch] = Revised(cards[r.batch], r)]
          /\ panel' = [panel EXCEPT ![h] = None]
      BY <1>8, <2>1, CommitDoes
    <2>3. /\ \A b \in BatchId \ {r.batch} : cards'[b] = cards[b]
          /\ cards'[r.batch] # None /\ cards'[r.batch].revision = cards[r.batch].revision + 1
      BY <2>2, NoneAssumption DEF Revised, TypeOK, LedgerTypeOK
    <2>4. ASSUME NEW g \in Handlers, panel'[g] # None
          PROVE  /\ asks'[panel'[g].request.batch] # None
                 /\ panel'[g].pc = "commit" =>
                        /\ cards'[panel'[g].request.batch] # None
                        /\ panel'[g].card.revision <= cards'[panel'[g].request.batch].revision
                        /\ panel'[g].card.revision = cards'[panel'[g].request.batch].revision
                             => panel'[g].card = cards'[panel'[g].request.batch]
      <3>1. g # h /\ panel'[g] = panel[g] /\ panel[g] # None
        BY <1>2, <2>2, <2>4
      <3>2. CASE panel[g].request.batch # r.batch
        BY <1>1, <2>3, <3>1, <3>2 DEF ReadsHold
      <3>3. CASE panel[g].request.batch = r.batch /\ panel[g].pc = "commit"
        <4>1. panel[g].card \in Card
          BY <3>1, <3>3, PanelTypes DEF TypeOK
        <4>2. panel[g].card.revision \in Nat /\ cards[r.batch].revision \in Nat
          BY <2>2, <4>1 DEF Card
        <4>3. panel[g].card.revision <= cards[r.batch].revision
          BY <3>1, <3>3 DEF ReadsHold
        <4>4. panel[g].card.revision < cards'[r.batch].revision
          BY <2>3, <4>2, <4>3
        <4> QED
          BY <1>1, <2>3, <3>1, <3>3, <4>2, <4>4
      <3> QED
        BY <1>1, <3>1, <3>2, <3>3
    <2> QED
      BY <2>4 DEF ReadsHold
  <1>9. ASSUME NEW h \in Handlers, PanelGiveUp(h) PROVE ReadsHold'
    BY <1>4, <1>9 DEF PanelGiveUp, ledgerVars, outreachVars
  <1> QED
    BY <1>3, <1>5, <1>6, <1>7, <1>8, <1>9, PanelOnly DEF PanelStep

LEMMA ApprovalsStandStep ==
    ASSUME DecisionInvariant, Frozen, [Next]_vars
    PROVE  ChildrenApproved' /\ PanelApprovalExact'
  <1> USE DEF DecisionInvariant, SafetyInvariant
  <1> DEFINE Exact(c) == /\ batches[c] = <<batches[c[1]][c[2]]>>
                         /\ asks[c[1]] # None /\ c[2] \in Decided(c[1])
  <1>1. \A c \in Children : c \in BatchId /\ c[1] \in Batches /\ c[1] \in BatchId
                            /\ c[2] \in Numbers /\ c \notin Batches
    BY LedgerAssumption DEF BatchId, Numbers
  <1>2. ASSUME NEW c \in Children, Known(c)
        PROVE  /\ Approved(c) /\ approvals'[c] = approvals[c] /\ batches'[c] = batches[c]
               /\ batches'[c] = <<batches'[c[1]][c[2]]>>
               /\ asks'[c[1]] # None /\ c[2] \in Decided(c[1])'
    <2>1. Approved(c) /\ Exact(c)
      BY <1>2 DEF ChildrenApproved, PanelApprovalExact
    <2>2. Known(c[1])
      BY <1>1, <2>1 DEF Decided, CardsCount
    <2>3. batches'[c[1]] = batches[c[1]] /\ asks'[c[1]] # None
      BY <1>1, <2>1, <2>2 DEF Frozen
    <2>4. c[2] \in Decided(c[1])'
      BY <1>1, <2>1, DecidedStays
    <2> QED
      BY <1>1, <1>2, <2>1, <2>3, <2>4 DEF Frozen
  <1>3. ASSUME \A c \in Children : Known(c)' => Known(c)
        PROVE  ChildrenApproved' /\ PanelApprovalExact'
    <2>1. ChildrenApproved'
      BY <1>2, <1>3 DEF ChildrenApproved, Approved
    <2>2. ASSUME NEW c \in Children, Approved(c)' PROVE Known(c)'
      <3>1. c \in BatchId /\ approvals[c] # None => Known(c)
        BY <1>1 DEF ApprovalAnswersQuestion, Approved, Known
      <3>2. ApprovalAnswersQuestion'
        BY ApprovalStep
      <3> QED
        BY <1>1, <2>2, <3>2 DEF ApprovalAnswersQuestion, Approved, Known
    <2> QED
      BY <1>2, <1>3, <2>1, <2>2 DEF PanelApprovalExact
  <1>4. CASE UNCHANGED <<cards, saved, panel>>
    <2>1. ASSUME NEW s \in Sessions, DraftSave(s), NEW c \in Children PROVE batches'[c] = batches[c]
      <3>1. cli[s].batch \in Batches
        BY <2>1, CarriedTypes DEF DraftSave, At, TypeOK, CliTypeOK
      <3> QED
        BY <1>1, <2>1, <3>1 DEF DraftSave, TypeOK, LedgerTypeOK
    <2> QED
      BY <1>3, <1>4, <2>1, ListsAndWithdrawals DEF Known
  <1>5. ASSUME NEW h \in Handlers, PanelCommit(h) PROVE ChildrenApproved' /\ PanelApprovalExact'
    <2>1. PICK r : r = panel[h].request
      OBVIOUS
    <2>2. PICK d : d = Child(r)
      OBVIOUS
    <2>3. /\ r.batch \in Batches /\ r.batch \in BatchId /\ r.batch \notin Children
          /\ r.number \in DOMAIN batches[r.batch] /\ r.number \in Numbers
          /\ r.action \in Decisions /\ asks[r.batch] # None
          /\ d \in Children /\ cards[r.batch] \in Card /\ Revised(cards[r.batch], r) \in Card
          /\ cards' = [cards EXCEPT ![r.batch] = Revised(cards[r.batch], r)]
      BY <1>5, <2>1, <2>2, CommitDoes
    <2>4. CASE UNCHANGED <<batches, approvals>>
      BY <1>3, <2>4 DEF Known
    <2>5. CASE /\ ~Known(d)
               /\ batches' = [batches EXCEPT ![d] = <<batches[r.batch][r.number]>>]
               /\ \E t \in Nat : approvals' = [approvals EXCEPT ![d] = [numbers |-> {1}, at |-> t]]
      <3>1. PICK t \in Nat : approvals' = [approvals EXCEPT ![d] = [numbers |-> {1}, at |-> t]]
        BY <2>5
      <3>2. approvals'[d] = [numbers |-> {1}, at |-> t]
        BY <1>1, <2>3, <3>1 DEF TypeOK, LedgerTypeOK
      <3>3. [numbers |-> {1}, at |-> t] # None
        BY NoneAssumption, LedgerAssumption DEF Approval, Numbers
      <3>4. \A c \in BatchId \ {d} : batches'[c] = batches[c] /\ approvals'[c] = approvals[c]
        BY <2>3, <2>5, <3>1 DEF TypeOK, LedgerTypeOK
      <3>5. /\ Approved(d)' /\ batches'[d] = <<batches[r.batch][r.number]>>
            /\ batches'[r.batch] = batches[r.batch] /\ asks'[r.batch] # None
        BY <1>1, <2>3, <2>5, <3>2, <3>3, <3>4 DEF Approved, Frozen, TypeOK, LedgerTypeOK
      <3>6. r.number \in Decided(r.batch)'
        <4>1. cards'[r.batch] = Revised(cards[r.batch], r) /\ cards'[r.batch] # None
          BY <2>3, NoneAssumption DEF TypeOK, LedgerTypeOK
        <4>2. Revised(cards[r.batch], r).decisions[r.number] # None
          BY <2>3, NoneAssumption DEF Revised, Card
        <4> QED
          BY <2>3, <4>1, <4>2 DEF Decided
      <3>7. d[1] = r.batch /\ d[2] = r.number
        BY <2>2 DEF Child
      <3>8. ASSUME NEW c \in Children \ {d}
            PROVE  /\ Known(c)' => Known(c)
                   /\ Approved(c)' => Known(c)
        <4>1. c \in BatchId \ {d}
          BY <1>1
        <4> QED
          BY <3>4, <4>1 DEF Known, Approved, ApprovalAnswersQuestion
      <3>9. ChildrenApproved'
        BY <1>2, <3>5, <3>8 DEF ChildrenApproved, Approved
      <3>10. PanelApprovalExact'
        BY <1>2, <3>5, <3>6, <3>7, <3>8 DEF PanelApprovalExact
      <3> QED
        BY <3>9, <3>10
    <2> QED
      BY <1>5, <2>1, <2>2, <2>4, <2>5, CommitApproves
  <1>6. ASSUME NEW h \in Handlers, PanelStep(h), ~PanelCommit(h)
        PROVE  UNCHANGED batches
    BY <1>6 DEF PanelStep, PanelRead, PanelRegister, PanelPrepare, PanelGiveUp, ledgerVars, outreachVars
  <1> QED
    BY <1>3, <1>4, <1>5, <1>6, PanelOnly DEF Known

LEMMA WithdrawalStep ==
    ASSUME DecisionInvariant, Frozen, [Next]_vars
    PROVE  DecidedListWithdrawn'
  <1> USE DEF DecisionInvariant, SafetyInvariant
  <1>1. \A b \in Batches : b \in BatchId
    BY DEF BatchId
  <1>2. ASSUME withdrawn \subseteq withdrawn', NEW b \in Batches, batches'[b] = batches[b],
               Decided(b)' = Decided(b)
        PROVE  Known(b)' /\ DOMAIN batches'[b] \subseteq Decided(b)' => b \in withdrawn'
    BY <1>2 DEF DecidedListWithdrawn, Known
  <1>3. CASE UNCHANGED <<cards, saved, panel>>
    <2>1. withdrawn \subseteq withdrawn' /\ \A b \in BatchId : Decided(b)' = Decided(b)
      BY <1>3, ListsAndWithdrawals DEF Decided
    <2>2. ASSUME NEW s \in Sessions, DraftSave(s) PROVE DecidedListWithdrawn'
      <3>1. PICK c \in Batches : c = cli[s].batch
        BY <2>2, CarriedTypes DEF DraftSave, At, TypeOK, CliTypeOK
      <3>2. ~Known(c) /\ cli[s].items \in ItemLists
        BY <2>2, <3>1, CarriedTypes
           DEF DraftSave, At, CarriedSound, DraftApart, Drafting, TypeOK, CliTypeOK
      <3>3. batches' = [batches EXCEPT ![c] = cli[s].items]
        BY <2>2, <3>1 DEF DraftSave
      <3>4. Decided(c)' = {}
        BY <1>1, <2>1, <3>2 DEF CardsCount, Decided
      <3>5. DOMAIN batches'[c] # {}
        <4>1. batches'[c] = cli[s].items
          BY <1>1, <3>3 DEF TypeOK, LedgerTypeOK
        <4>2. cli[s].items \in Seq(Item) /\ cli[s].items # <<>>
          BY <3>2 DEF ItemLists
        <4>3. Len(cli[s].items) # 0
          BY <4>2, EmptySeq
        <4>4. 1 \in DOMAIN cli[s].items
          BY <4>2, <4>3, LenProperties
        <4> QED
          BY <4>1, <4>4
      <3>6. \A b \in Batches \ {c} : batches'[b] = batches[b]
        BY <1>1, <3>3 DEF TypeOK, LedgerTypeOK
      <3> QED
        BY <1>1, <1>2, <2>1, <3>4, <3>5, <3>6 DEF DecidedListWithdrawn
    <2>3. CASE UNCHANGED batches
      BY <1>1, <1>2, <2>1, <2>3 DEF DecidedListWithdrawn
    <2> QED
      BY <1>3, <2>2, <2>3, ListsAndWithdrawals
  <1>4. ASSUME NEW h \in Handlers, PanelRegister(h) PROVE DecidedListWithdrawn'
    <2>1. PICK c \in BatchId : c = panel[h].request.batch
      BY <1>4, PanelTypes DEF PanelRegister, PanelAt, Request, BatchId, TypeOK
    <2>2. /\ cards[c] = None /\ cards' = [cards EXCEPT ![c] = NewCard]
          /\ UNCHANGED <<batches, withdrawn>>
      BY <1>4, <2>1 DEF PanelRegister
    <2>3. \A b \in BatchId : Decided(b)' = Decided(b)
      <3>1. \A b \in BatchId \ {c} : cards'[b] = cards[b]
        BY <2>2 DEF TypeOK, LedgerTypeOK
      <3>2. cards'[c] = NewCard
        BY <2>2 DEF TypeOK, LedgerTypeOK
      <3>3. Decided(c)' = {} /\ Decided(c) = {}
        BY <2>2, <3>2 DEF Decided, NewCard
      <3> QED
        BY <3>1, <3>3 DEF Decided
    <2> QED
      BY <1>1, <1>2, <2>2, <2>3 DEF DecidedListWithdrawn
  <1>5. ASSUME NEW h \in Handlers, PanelCommit(h) PROVE DecidedListWithdrawn'
    <2>1. PICK r : r = panel[h].request
      OBVIOUS
    <2>2. /\ r.batch \in Batches /\ r.batch \in BatchId /\ r.batch \notin Children
          /\ Child(r) \notin Batches /\ Child(r) \in BatchId /\ r.number \in DOMAIN batches[r.batch]
          /\ cards[r.batch] \in Card /\ Revised(cards[r.batch], r) \in Card
          /\ cards' = [cards EXCEPT ![r.batch] = Revised(cards[r.batch], r)]
          /\ withdrawn' = IF Closes(cards[r.batch], r) THEN withdrawn \cup {r.batch} ELSE withdrawn
      BY <1>5, <2>1, CommitDoes
    <2>3. \A b \in Batches : batches'[b] = batches[b]
      BY <1>1, <1>5, <2>1, <2>2, CommitApproves DEF TypeOK, LedgerTypeOK
    <2>4. \A b \in BatchId \ {r.batch} : Decided(b)' = Decided(b)
      BY <2>2 DEF Decided, TypeOK, LedgerTypeOK
    <2>5. DOMAIN batches'[r.batch] \subseteq Decided(r.batch)' => r.batch \in withdrawn'
      <3>1. cards'[r.batch] = Revised(cards[r.batch], r)
        BY <2>2 DEF TypeOK, LedgerTypeOK
      <3>2. DOMAIN batches[r.batch] \subseteq Decided(r.batch)' => Closes(cards[r.batch], r)
        BY <3>1 DEF Decided, Closes
      <3> QED
        BY <2>2, <2>3, <3>2
    <2> QED
      BY <1>1, <1>2, <2>2, <2>3, <2>4, <2>5 DEF DecidedListWithdrawn
  <1>6. ASSUME NEW h \in Handlers, PanelStep(h), ~PanelRegister(h), ~PanelCommit(h)
        PROVE  UNCHANGED <<batches, cards, withdrawn>>
    BY <1>6 DEF PanelStep, PanelRead, PanelPrepare, PanelGiveUp, ledgerVars, outreachVars
  <1>7. CASE UNCHANGED <<batches, cards, withdrawn>>
    BY <1>1, <1>2, <1>7 DEF DecidedListWithdrawn, Decided
  <1> QED
    BY <1>3, <1>4, <1>5, <1>6, <1>7, PanelOnly

\* Signals are recorded once, and where an approval stands if they say so.
LEMMA SignalsStep ==
    ASSUME DecisionInvariant, Frozen, [Next]_vars
    PROVE  /\ FeedbackTrue'
           /\ \A b \in BatchId, n \in Numbers :
                /\ feedback[b][n] # None => feedback'[b][n] = feedback[b][n]
                /\ feedback'[b][n] = "approved" => ApprovedItem(<<b, n>>)
  <1> USE DEF DecisionInvariant, SafetyInvariant
  <1>1. feedback \in [BatchId -> [Numbers -> Decisions \cup {None}]]
    BY DEF TypeOK, DecisionsTypeOK
  <1>2. \A b \in BatchId, n \in Numbers :
            /\ feedback[b][n] # None => feedback'[b][n] = feedback[b][n]
            /\ feedback'[b][n] = "approved" => ApprovedItem(<<b, n>>)
    <2>1. CASE UNCHANGED feedback
      BY <2>1 DEF FeedbackTrue
    <2>2. CASE FeedbackStep
      <3>1. PICK b \in BatchId, said \in [Numbers -> Signals \cup {None}] : Feedback(b, said)
        BY <2>2 DEF FeedbackStep
      <3> DEFINE numbers == {n \in Numbers : said[n] # None}
      <3>2. /\ \A c \in BatchId \ {b} : feedback'[c] = feedback[c]
            /\ \A n \in Numbers : feedback'[b][n] = IF n \in numbers THEN said[n] ELSE feedback[b][n]
        BY <1>1, <3>1 DEF Feedback
      <3>3. \A n \in numbers : /\ said[n] = "approved" => ApprovedItem(<<b, n>>)
                               /\ feedback[b][n] \in {None, said[n]}
        BY <3>1 DEF Feedback
      <3> QED
        BY <3>2, <3>3 DEF FeedbackTrue
    <2>3. CASE Panel
      <3>1. UNCHANGED feedback
        BY <2>3 DEF Panel, PanelStep, PanelRead, PanelRegister, PanelPrepare, PanelCommit,
                    PanelGiveUp, decisionVars
      <3> QED
        BY <2>1, <3>1
    <2> QED
      BY <2>1, <2>2, <2>3 DEF Next, decisionVars, vars
  <1>3. \A b \in BatchId, n \in Numbers : ApprovedItem(<<b, n>>) => ApprovedItem(<<b, n>>)'
    BY ApprovedStays DEF ItemKey
  <1> QED
    BY <1>2, <1>3 DEF FeedbackTrue

LEMMA DecisionsInitSound == Init => DecisionInvariant
  <1> SUFFICES ASSUME Init PROVE DecisionInvariant
    OBVIOUS
  <1> USE DEF Init, LedgerInit, DecisionsInit
  <1>1. SafetyInvariant
    BY InitSound
  <1>2. \A b \in BatchId : OpsOn(b) = {}
    BY DEF OpsOn
  <1>3. CardsCount
    BY <1>2, FS_EmptySet DEF CardsCount
  <1>4. ReadsHold
    BY DEF ReadsHold
  <1>5. ChildrenApproved /\ PanelApprovalExact /\ DecidedListWithdrawn
    BY DEF ChildrenApproved, PanelApprovalExact, DecidedListWithdrawn, Known, Approved, BatchId
  <1>6. FeedbackTrue
    BY NoneAssumption DEF FeedbackTrue, Decisions
  <1> QED
    BY <1>1, <1>3, <1>4, <1>5, <1>6 DEF DecisionInvariant

LEMMA DecisionsStep == DecisionInvariant /\ [Next]_vars => DecisionInvariant'
  <1> SUFFICES ASSUME DecisionInvariant, [Next]_vars PROVE DecisionInvariant'
    OBVIOUS
  <1>1. Frozen
    BY FrozenStep DEF DecisionInvariant, SafetyInvariant
  <1> QED
    BY <1>1, StepSound, CardsCountStep, ReadsHoldStep, ApprovalsStandStep, WithdrawalStep, SignalsStep
       DEF DecisionInvariant

\* panel_decisions: of any number of panel requests, repeated or racing, none is lost or
\* counted twice; an approval releases the asked item word for word; and a list whose
\* items are all decided is withdrawn.
THEOREM DecisionsLast == Spec => []DecisionsStand
  <1>1. DecisionInvariant => DecisionsStand
    BY DEF DecisionInvariant, DecisionsStand, CardsCount, OpsOn, NoLostDecision
  <1> QED
    BY <1>1, DecisionsInitSound, DecisionsStep, PTL DEF Spec

\* record_outreach_feedback: a recorded signal is never revised, and an approval signal
\* stands only where an approval does, whoever approves meanwhile.
THEOREM SignalsLast == Spec => FeedbackKept
  <1>1. DecisionInvariant /\ [Next]_vars =>
            \A b \in BatchId, n \in Numbers :
              /\ feedback[b][n] # None => feedback'[b][n] = feedback[b][n]
              /\ feedback'[b][n] = "approved" => ApprovedItem(<<b, n>>)
    <2>1. DecisionInvariant /\ [Next]_vars => Frozen
      BY FrozenStep DEF DecisionInvariant, SafetyInvariant
    <2> QED
      BY <2>1, SignalsStep
  <1> QED
    BY <1>1, DecisionsInitSound, DecisionsStep, PTL DEF Spec, FeedbackKept

-----------------------------------------------------------------------------
(* One host that reports what it sent keeps the pace through `next` alone. *)

\* One session runs the commands, its host reports only what it was released, and no
\* worker sends.
OneHost == (\A r, s \in Sessions : r = s) /\ Workers = {} /\ Disciplined

\* At time t platform p allowed one more greeting, every attempt so far being older.
AllowedAt(p, t) ==
    /\ \A k \in OnPlatform(p) : Attempt(k) => audits[k].at <= t /\ t - audits[k].at >= MinGap
    /\ ~HaltedToday(p, t)
    /\ Cardinality(SentToday(p, t)) < Cap

RowsPast == \A k \in DOMAIN audits : audits[k].at <= now

\* `next` decides at a time no row is later than.
Deciding(s) == At(s, "next_renew") \/ At(s, "next_renew_save") \/ At(s, "next_decide")
DecidesAfterRows == \A s \in Sessions : Deciding(s) =>
    /\ cli[s].at \in 0..now
    /\ \A k \in DOMAIN audits : audits[k].at <= cli[s].at

\* A greeting in a host's hand was allowed once, and nothing was attempted since; a result
\* about to be written for it is no older than that.
HandAllowed == \A s \in Sessions : hand[s] # None =>
    /\ ApprovedItem(hand[s])
    /\ \E t \in 0..now : AllowedAt(SiteOf(hand[s]), t)
ReportAllowed == \A s \in Sessions : At(s, "record_save") /\ cli[s].result # "withdrawn" =>
    /\ hand[s] = cli[s].item
    /\ \E t \in 0..cli[s].at : AllowedAt(SiteOf(cli[s].item), t)

HostInvariant ==
    /\ SafetyInvariant /\ StampsPast
    /\ RowsPast /\ DecidesAfterRows /\ HandAllowed /\ ReportAllowed
    /\ SendsPaced

\* Days follow the clock.
LEMMA DayGrows == \A t, u \in Nat : t <= u => Day(t) <= Day(u)
  <1> SUFFICES ASSUME NEW t \in Nat, NEW u \in Nat, t <= u PROVE Day(t) <= Day(u)
    OBVIOUS
  <1> DEFINE d == DayTicks
  <1>1. d \in Nat \ {0}
    BY LedgerAssumption
  <1> HIDE DEF d
  <1>2. t \div d \in Int /\ u \div d \in Int
    BY <1>1
  <1>3. d * (t \div d) <= t /\ u < d * ((u \div d) + 1)
    BY <1>1
  <1>4. ASSUME NEW x \in Int, NEW y \in Int, x > y PROVE d * x >= d * (y + 1)
    BY <1>1, <1>4
  <1> QED
    BY <1>1, <1>2, <1>3, <1>4 DEF Day, d

\* What was allowed at t still is at a later time, if nothing was attempted since.
LEMMA AllowedIsPace ==
    ASSUME LedgerTypeOK, NEW i \in ItemKey, NEW t \in Nat, NEW u \in Nat, t <= u,
           AllowedAt(SiteOf(i), t), NEW new \in Nat,
           DOMAIN audits = 1..(new - 1), DOMAIN audits' = 1..new,
           \A j \in DOMAIN audits : audits'[j] = audits[j],
           audits'[new] = AuditRow(i, "sent", u)
    PROVE  PacedRow(new)'
  <1> DEFINE p == SiteOf(i)
  <1>1. audits'[new].platform = p /\ audits'[new].at = u
    BY DEF AuditRow
  <1>2. EarlierRows(new)' = OnPlatform(p)
    BY <1>1 DEF EarlierRows, OnPlatform
  <1>3. \A j \in OnPlatform(p) : audits'[j] = audits[j] /\ audits[j].at \in Nat
    BY RowTyped DEF OnPlatform, Audit
  <1>4. EarlierSameDay(new)' = Todays(p, u)
    BY <1>1, <1>2, <1>3 DEF EarlierSameDay, Todays
  <1>5. \A j \in Todays(p, u) : j \in OnPlatform(p) /\ Day(audits[j].at) = Day(u)
    BY DEF Todays
  <1>0. DayTicks \in Nat \ {0} /\ Cap \in Nat \ {0} /\ MinGap \in Nat
    BY LedgerAssumption
  <1>6. ASSUME NEW j \in OnPlatform(p), Attempt(j)
        PROVE  /\ audits[j].at <= t /\ u - audits[j].at >= MinGap
               /\ Day(audits[j].at) <= Day(t)
    <2>1. audits[j].at \in Nat /\ audits[j].at <= t /\ t - audits[j].at >= MinGap
      BY <1>3, <1>6 DEF AllowedAt
    <2>2. Day(audits[j].at) <= Day(t)
      BY <2>1, DayGrows
    <2> QED
      BY <1>0, <2>1, <2>2
  <1>7. Day(t) <= Day(u) /\ \A v \in Nat : Day(v) \in Int
    <2>1. \A v \in Nat : v \div DayTicks \in Int
      BY <1>0
    <2> QED
      BY <2>1, DayGrows DEF Day
  <1>8. \A j \in Todays(p, u) : Attempt(j) => Day(u) = Day(t) /\ j \in Todays(p, t)
    BY <1>3, <1>5, <1>6, <1>7 DEF Todays
  <1>9. \A j \in Todays(p, u) : audits[j].result \notin Halting
    BY <1>8 DEF AllowedAt, HaltedToday, Attempt, Halting
  <1>10. Cardinality({j \in Todays(p, u) : audits[j].result = "sent"}) < Cap
    <2>1. CASE Day(u) = Day(t)
      BY <2>1 DEF AllowedAt, SentToday, Todays
    <2>2. CASE Day(u) # Day(t)
      <3>1. {j \in Todays(p, u) : audits[j].result = "sent"} = {}
        BY <1>8, <2>2 DEF Attempt
      <3>2. Cardinality({}) = 0 /\ 0 < Cap
        BY <1>0, FS_EmptySet
      <3> QED
        BY <3>1, <3>2
    <2> QED
      BY <2>1, <2>2
  <1>11. {j \in EarlierSameDay(new)' : audits'[j].result = "sent"}
             = {j \in Todays(p, u) : audits[j].result = "sent"}
    BY <1>3, <1>4, <1>5
  <1>12. \A j \in EarlierRows(new)' : Attempt(j)' => audits'[new].at - audits'[j].at >= MinGap
    BY <1>1, <1>2, <1>3, <1>6 DEF Attempt
  <1>13. \A j \in EarlierSameDay(new)' : audits'[j].result \notin Halting
    BY <1>3, <1>4, <1>5, <1>9
  <1> QED
    BY <1>10, <1>11, <1>12, <1>13 DEF PacedRow

\* A withdrawal is no attempt.
LEMMA WithdrawnAllows ==
    ASSUME LedgerTypeOK, NEW i \in ItemKey, NEW u \in Nat, NEW p, NEW t, AllowedAt(p, t),
           AppendAudit(i, "withdrawn", u)
    PROVE  AllowedAt(p, t)'
  <1>1. PICK new \in Nat \ {0} :
            /\ DOMAIN audits = 1..(new - 1) /\ DOMAIN audits' = 1..new
            /\ \A k \in DOMAIN audits : audits'[k] = audits[k]
            /\ audits'[new] = AuditRow(i, "withdrawn", u)
    BY Appended
  <1>2. audits'[new].result = "withdrawn"
    BY <1>1 DEF AuditRow
  <1>3. \A k \in OnPlatform(p)' : k = new \/ (k \in OnPlatform(p) /\ audits'[k] = audits[k])
    BY <1>1 DEF OnPlatform
  <1>4. \A k \in Todays(p, t)' : k = new \/ (k \in Todays(p, t) /\ audits'[k] = audits[k])
    BY <1>3 DEF Todays
  <1>5. \A k \in OnPlatform(p) : audits'[k] = audits[k] /\ k \in OnPlatform(p)'
    BY <1>1 DEF OnPlatform
  <1>6. SentToday(p, t)' = SentToday(p, t)
    BY <1>2, <1>4, <1>5 DEF SentToday, Todays
  <1>7. ~HaltedToday(p, t)'
    BY <1>2, <1>4 DEF AllowedAt, HaltedToday, Halting
  <1>8. \A k \in OnPlatform(p)' : Attempt(k)' => audits'[k].at <= t /\ t - audits'[k].at >= MinGap
    BY <1>2, <1>3 DEF AllowedAt, Attempt
  <1> QED
    BY <1>6, <1>7, <1>8 DEF AllowedAt

\* What only the rows say stays with them.
LEMMA SameRows ==
    ASSUME HostInvariant, UNCHANGED audits, now <= now', now' \in Nat
    PROVE  /\ \A p, t : AllowedAt(p, t) => AllowedAt(p, t)'
           /\ SendsPaced' /\ RowsPast'
  <1> USE DEF HostInvariant
  <1>1. \A p, t : AllowedAt(p, t) => AllowedAt(p, t)'
    BY DEF AllowedAt, OnPlatform, Todays, HaltedToday, SentToday, Attempt
  <1>2. SendsPaced'
    BY DEF SendsPaced, SentRows, PacedRow, EarlierRows, EarlierSameDay, Attempt
  <1>3. RowsPast'
    <2>1. now \in Nat /\ \A k \in DOMAIN audits : audits[k].at \in Nat
      BY RowTyped DEF SafetyInvariant, TypeOK, LedgerTypeOK, Audit
    <2> QED
      BY <2>1 DEF RowsPast
  <1> QED
    BY <1>1, <1>2, <1>3

LEMMA HandStays ==
    ASSUME HostInvariant, Frozen, UNCHANGED <<audits, hand>>, now <= now', now' \in Nat
    PROVE  HandAllowed'
  <1> SUFFICES ASSUME NEW s \in Sessions, hand[s] # None
               PROVE  /\ ApprovedItem(hand[s])'
                      /\ \E t \in 0..now' : AllowedAt(SiteOf(hand[s]), t)'
    BY DEF HandAllowed
  <1> USE DEF HostInvariant
  <1>1. PICK i \in ItemKey : i = hand[s]
    BY DEF SafetyInvariant, TypeOK, CliTypeOK
  <1>2. ApprovedItem(i)' /\ SiteOf(i)' = SiteOf(i)
    BY <1>1, ApprovedStays DEF HandAllowed, SafetyInvariant
  <1>3. PICK t \in 0..now : AllowedAt(SiteOf(i), t)
    BY <1>1 DEF HandAllowed
  <1>4. PICK p : p = SiteOf(i)
    OBVIOUS
  <1>5. AllowedAt(p, t)'
    BY <1>3, <1>4, SameRows
  <1>6. t \in 0..now' /\ SiteOf(i)' = p
    BY <1>2, <1>4 DEF SafetyInvariant, TypeOK, LedgerTypeOK
  <1>7. hand' = hand
    OBVIOUS
  <1> QED
    BY <1>1, <1>2, <1>5, <1>6, <1>7

\* Away from the rows, a session's move keeps what it carries.
LEMMA HostMoves ==
    ASSUME OneHost, HostInvariant, Frozen, UNCHANGED <<audits, now>>, HandAllowed',
           NEW s \in Sessions, NEW c, Goto(s, c),
           c.pc \in {"next_renew", "next_renew_save", "next_decide"} =>
               c.at \in 0..now /\ \A k \in DOMAIN audits : audits[k].at <= c.at,
           c.pc = "record_save" =>
               /\ c.at = now /\ c.item \in ItemKey /\ ApprovedItem(c.item)
               /\ c.result # "withdrawn" => hand[s] = c.item /\ UNCHANGED hand
    PROVE  DecidesAfterRows' /\ ReportAllowed'
  <1> USE DEF HostInvariant
  <1>1. \A r \in Sessions : r = s
    BY DEF OneHost
  <1>2. cli'[s] = c
    BY DEF Goto, SafetyInvariant, TypeOK, CliTypeOK
  <1>3. DecidesAfterRows'
    BY <1>1, <1>2 DEF DecidesAfterRows, Deciding, At
  <1>4. ASSUME c.pc = "record_save", c.result # "withdrawn"
        PROVE  /\ hand'[s] = c.item
               /\ \E t \in 0..c.at : AllowedAt(SiteOf(c.item), t)'
    <2>1. hand'[s] = c.item /\ c.item # None
      BY <1>4, NoneAssumption
    <2> QED
      BY <1>4, <2>1 DEF HandAllowed
  <1>5. ReportAllowed'
    BY <1>1, <1>2, <1>4 DEF ReportAllowed, At
  <1> QED
    BY <1>3, <1>5

HostKept == RowsPast /\ DecidesAfterRows /\ HandAllowed /\ ReportAllowed /\ SendsPaced

\* The one writer of rows: what it writes as sent was allowed, and it empties the hand.
LEMMA HostRecords ==
    ASSUME OneHost, HostInvariant, Frozen, now' = now, NEW s \in Sessions, RecordSave(s),
           ~Recorded(cli[s].item)
    PROVE  HostKept'
  <1> USE DEF HostInvariant
  <1>1. /\ LedgerTypeOK /\ cli \in [Sessions -> CliState] /\ hand \in [Sessions -> ItemKey \cup {None}]
        /\ now \in Nat /\ \A r \in Sessions : r = s
    BY DEF SafetyInvariant, TypeOK, CliTypeOK, OneHost, LedgerTypeOK
  <1>2. PICK i \in ItemKey, u \in Nat : i = cli[s].item /\ u = cli[s].at
    BY <1>1, CarriedTypes DEF RecordSave, At
  <1>3. PICK result \in Results : result = cli[s].result
    BY <1>1, CarriedTypes DEF RecordSave, At
  <1>4. u <= now
    BY <1>2 DEF RecordSave, StampsPast
  <1>5. /\ AppendAudit(i, result, u) /\ cli' = [cli EXCEPT ![s] = Idle]
        /\ hand' = [hand EXCEPT ![s] = IF @ = i THEN None ELSE @]
    BY <1>2, <1>3 DEF RecordSave, Done, Goto
  <1>6. PICK new \in Nat \ {0} :
            /\ DOMAIN audits = 1..(new - 1) /\ DOMAIN audits' = 1..new
            /\ \A k \in DOMAIN audits : audits'[k] = audits[k]
            /\ audits'[new] = AuditRow(i, result, u)
    BY <1>1, <1>5, Appended
  <1>7. RowsPast'
    <2>1. audits'[new].at = u
      BY <1>6 DEF AuditRow
    <2> QED
      BY <1>4, <1>6, <2>1 DEF RowsPast
  <1>8. DecidesAfterRows' /\ ReportAllowed'
    BY <1>1, <1>5 DEF DecidesAfterRows, ReportAllowed, Deciding, At, Idle
  <1>9. HandAllowed'
    <2> SUFFICES ASSUME NEW j, j = hand'[s], j # None
                 PROVE  ApprovedItem(j)' /\ \E t \in 0..now' : AllowedAt(SiteOf(j), t)'
      BY <1>1 DEF HandAllowed
    <2>1. j \in ItemKey /\ j = hand[s] /\ j # i
      BY <1>1, <1>5
    <2>2. result = "withdrawn"
      BY <1>2, <1>3, <2>1 DEF ReportAllowed, RecordSave
    <2>3. hand[s] # None
      BY <2>1, NoneAssumption
    <2>4. PICK t \in 0..now : AllowedAt(SiteOf(j), t)
      BY <2>1, <2>3 DEF HandAllowed
    <2>5. ApprovedItem(j)' /\ SiteOf(j)' = SiteOf(j)
      BY <2>1, <2>3, ApprovedStays DEF HandAllowed, SafetyInvariant
    <2>6. PICK p : p = SiteOf(j)
      OBVIOUS
    <2>7. AllowedAt(p, t)'
      BY <1>1, <1>5, <2>2, <2>4, <2>6, WithdrawnAllows
    <2>8. t \in 0..now' /\ SiteOf(j)' = p
      BY <2>5, <2>6
    <2> QED
      BY <2>5, <2>7, <2>8
  <1>10. SendsPaced'
    <2>1. ASSUME NEW k \in DOMAIN audits, k \in SentRows' PROVE PacedRow(k)'
      <3>1. (PacedRow(k) => PacedRow(k)') /\ audits'[k] = audits[k]
        BY <1>6, EarlierRowStays
      <3> QED
        BY <2>1, <3>1 DEF SendsPaced, SentRows
    <2>2. ASSUME new \in SentRows' PROVE PacedRow(new)'
      <3>1. result = "sent"
        BY <1>6, <2>2 DEF SentRows, AuditRow
      <3>2. PICK t \in 0..u : AllowedAt(SiteOf(i), t)
        BY <1>2, <1>3, <3>1 DEF ReportAllowed, RecordSave
      <3>3. t \in Nat /\ t <= u
        BY <1>2
      <3> QED
        BY <1>1, <1>2, <1>6, <3>1, <3>2, <3>3, AllowedIsPace
    <2>3. \A k \in SentRows' : k \in DOMAIN audits \/ k = new
      BY <1>6 DEF SentRows
    <2> QED
      BY <2>1, <2>2, <2>3 DEF SendsPaced
  <1> QED
    BY <1>7, <1>8, <1>9, <1>10 DEF HostKept

\* `next` releases only what is allowed at the time it read.
LEMMA HostReleases ==
    ASSUME OneHost, HostInvariant, Frozen, now' = now, NEW s \in Sessions, NextDecide(s)
    PROVE  HostKept'
  <1> USE DEF HostInvariant
  <1>1. /\ cli \in [Sessions -> CliState] /\ hand \in [Sessions -> ItemKey \cup {None}]
        /\ now \in Nat /\ \A r \in Sessions : r = s
    BY DEF SafetyInvariant, TypeOK, CliTypeOK, OneHost, LedgerTypeOK
  <1>2. UNCHANGED <<audits, approvals, batches>> /\ Goto(s, Idle)
    BY DEF NextDecide, ledgerVars, outreachVars, Done
  <1>3. HandAllowed'
    <2>1. CASE UNCHANGED hand
      BY <1>1, <1>2, <2>1, HandStays
    <2>2. ASSUME NEW n \in Numbers, NEW c, c = cli[s], Released(c.batch, c.platform, c.held, c.at, n),
                 hand' = [hand EXCEPT ![s] = <<c.batch, n>>]
          PROVE  HandAllowed'
      <3>1. c.at \in 0..now /\ \A k \in DOMAIN audits : audits[k].at <= c.at
        BY <2>2 DEF DecidesAfterRows, Deciding, NextDecide
      <3>2. PICK i, p : i = <<c.batch, n>> /\ p = c.platform
        OBVIOUS
      <3>3. ApprovedItem(i) /\ SiteOf(i) = p /\ GateOpen(p, c.held, c.at)
        BY <2>2, <3>2 DEF Released, Remaining
      <3>4. AllowedAt(p, c.at)
        BY <3>1, <3>3 DEF AllowedAt, GateOpen, Spaced, OnPlatform
      <3>5. AllowedAt(p, c.at)'
        BY <1>1, <1>2, <3>4, SameRows
      <3>6. ApprovedItem(i)' /\ SiteOf(i)' = p /\ hand'[s] = i
        BY <1>1, <1>2, <2>2, <3>2, <3>3 DEF ApprovedItem, Approved, SiteOf, ItemOf
      <3>7. c.at \in 0..now'
        BY <3>1
      <3>8. \A r \in Sessions : hand'[r] = i
        BY <1>1, <3>6
      <3> QED
        BY <3>5, <3>6, <3>7, <3>8 DEF HandAllowed
    <2> QED
      BY <2>1, <2>2 DEF NextDecide
  <1>4. Idle.pc = "idle"
    BY DEF Idle
  <1>5. DecidesAfterRows' /\ ReportAllowed'
    BY <1>2, <1>3, <1>4, HostMoves
  <1> QED
    BY <1>1, <1>2, <1>3, <1>5, SameRows DEF HostKept

LEMMA HostCli ==
    ASSUME OneHost, HostInvariant, Frozen, now' = now, NEW s \in Sessions, CliStep(s)
    PROVE  HostKept'
  <1> USE DEF HostInvariant
  <1>1. now \in Nat /\ cli \in [Sessions -> CliState] /\ hand \in [Sessions -> ItemKey \cup {None}]
    BY DEF SafetyInvariant, TypeOK, LedgerTypeOK, CliTypeOK
  <1>2. ASSUME UNCHANGED <<audits, hand>>, NEW c, Goto(s, c),
               c.pc \in {"next_renew", "next_renew_save", "next_decide"} =>
                   c.at \in 0..now /\ \A k \in DOMAIN audits : audits[k].at <= c.at,
               c.pc = "record_save" =>
                   /\ c.at = now /\ c.item \in ItemKey /\ ApprovedItem(c.item)
                   /\ c.result # "withdrawn" => hand[s] = c.item /\ UNCHANGED hand
        PROVE  HostKept'
    <2>1. HandAllowed' /\ SendsPaced' /\ RowsPast'
      BY <1>1, <1>2, HandStays, SameRows
    <2> QED
      BY <1>2, <2>1, HostMoves DEF HostKept
  <1>3. ASSUME UNCHANGED <<audits, hand>>, NEW c, Goto(s, c),
               c.pc \notin {"next_renew", "next_renew_save", "next_decide", "record_save"}
        PROVE  HostKept'
    BY <1>2, <1>3
  <1>4. ASSUME UNCHANGED <<audits, hand>>, Done(s) PROVE HostKept'
    BY <1>3, <1>4 DEF Done, Idle
  <1>5. CASE NextLease(s)
    <2>1. now \in 0..now /\ \A k \in DOMAIN audits : audits[k].at <= now
      BY <1>1 DEF RowsPast
    <2>2. UNCHANGED <<audits, hand>>
      BY <1>5 DEF NextLease, ledgerVars, outreachVars
    <2>3. \/ \E b, p : Goto(s, [pc |-> "next_renew", batch |-> b, platform |-> p, at |-> now])
          \/ \E b, p : Goto(s, [pc |-> "next_decide", batch |-> b, platform |-> p, held |-> FALSE,
                                at |-> now])
      BY <1>5 DEF NextLease
    <2> QED
      BY <1>2, <2>1, <2>2, <2>3
  <1>6. ASSUME NextRenew(s) \/ NextRenewSave(s) PROVE HostKept'
    <2>1. cli[s].at \in 0..now /\ \A k \in DOMAIN audits : audits[k].at <= cli[s].at
      BY <1>6 DEF NextRenew, NextRenewSave, DecidesAfterRows, Deciding
    <2>2. UNCHANGED <<audits, hand>>
      BY <1>6 DEF NextRenew, NextRenewSave, ledgerVars, outreachVars
    <2>3. CASE Decide(s, cli[s])
      BY <1>2, <2>1, <2>2, <2>3 DEF Decide
    <2>4. CASE NextRenew(s) /\ Goto(s, [cli[s] EXCEPT !.pc = "next_renew_save"])
      <3>1. /\ [cli[s] EXCEPT !.pc = "next_renew_save"].pc = "next_renew_save"
            /\ [cli[s] EXCEPT !.pc = "next_renew_save"].at = cli[s].at
        BY <1>1, <2>4 DEF NextRenew, At, CliState, Idle
      <3> QED
        BY <1>2, <2>1, <2>2, <2>4, <3>1
    <2> QED
      BY <1>6, <2>3, <2>4 DEF NextRenew, NextRenewSave
  <1>7. ASSUME NEW i \in ItemKey, NEW result \in Recordable, RecordRead(s, i, result) PROVE HostKept'
    <2>1. UNCHANGED <<audits, hand>> /\ ApprovedItem(i)
      BY <1>7 DEF RecordRead, ledgerVars, outreachVars
    <2>2. result # "withdrawn" => hand[s] = i
      BY <1>7 DEF RecordRead, Reports, OneHost
    <2>3. Goto(s, [pc |-> "record_save", item |-> i, result |-> result, at |-> now])
      BY <1>7 DEF RecordRead
    <2> QED
      BY <1>2, <2>1, <2>2, <2>3
  <1>8. CASE RecordSave(s) /\ Recorded(cli[s].item)
    BY <1>4, <1>8 DEF RecordSave
  <1>9. CASE Crash(s)
    <2>1. UNCHANGED audits /\ Goto(s, Idle) /\ Idle.pc = "idle"
      BY <1>9 DEF Crash, ledgerVars, outreachVars, Done, Idle
    <2>2. \A r \in Sessions : hand'[r] = None
      BY <1>1, <1>9 DEF Crash, OneHost
    <2>3. HandAllowed' /\ SendsPaced' /\ RowsPast'
      BY <1>1, <2>1, <2>2, SameRows DEF HandAllowed
    <2> QED
      BY <2>1, <2>3, HostMoves DEF HostKept
  <1>10. CASE DraftBuild(s)
    BY <1>3, <1>4, <1>10 DEF DraftBuild, ledgerVars, outreachVars
  <1>11. CASE \E p \in Platforms : LeaseRelease(s, p)
    <2>1. UNCHANGED <<audits, hand, cli>>
      BY <1>11 DEF LeaseRelease, cliVars
    <2>2. HandAllowed' /\ SendsPaced' /\ RowsPast'
      BY <1>1, <2>1, HandStays, SameRows
    <2>3. cli' = [cli EXCEPT ![s] = cli[s]]
      BY <1>1, <2>1
    <2> QED
      BY <1>3, <1>11, <2>1, <2>3 DEF LeaseRelease, Ready, At, Goto
  <1>12. CASE \/ \E b \in Batches, drafts \in DraftLists : DraftRead(s, b, drafts)
              \/ DraftSave(s)
              \/ \E b \in BatchId : AskRead(s, b)
              \/ AskSave(s)
              \/ \E b \in BatchId, numbers \in SUBSET Numbers : ApproveRead(s, b, numbers)
              \/ ApproveAnswer(s) \/ ApproveSave(s)
    BY <1>3, <1>4, <1>12
       DEF DraftRead, DraftSave, AskRead, AskSave, ApproveRead, ApproveAnswer, ApproveSave,
           ledgerVars, outreachVars
  <1>13. CASE \/ \E b \in BatchId : WithdrawRead(s, b)
              \/ WithdrawSave(s)
              \/ \E p \in Platforms : LeaseRead(s, p)
              \/ LeaseSave(s)
              \/ \E b \in BatchId, p \in Platforms : NextRead(s, b, p)
    BY <1>3, <1>4, <1>13
       DEF WithdrawRead, WithdrawSave, LeaseRead, LeaseSave, NextRead, ledgerVars, outreachVars
  <1> QED
    BY <1>5, <1>6, <1>7, <1>8, <1>9, <1>10, <1>11, <1>12, <1>13, HostRecords, HostReleases DEF CliStep

\* Everything else leaves rows, hands and commands alone.
LEMMA HostStep == OneHost /\ HostInvariant /\ [Next]_vars => HostInvariant'
  <1> SUFFICES ASSUME OneHost, HostInvariant, [Next]_vars PROVE HostInvariant'
    OBVIOUS
  <1>1. SafetyInvariant /\ SafetyInvariant' /\ StampsPast' /\ Frozen
    BY StepSound, StampsStep, FrozenStep DEF HostInvariant, SafetyInvariant
  <1>2. now \in Nat /\ now' \in Nat /\ now <= now'
    BY <1>1, ClockStep DEF SafetyInvariant, TypeOK, LedgerTypeOK, Tick
  <1>3. CASE UNCHANGED <<cli, hand, audits>>
    <2>1. HandAllowed' /\ SendsPaced' /\ RowsPast' /\ \A p, t : AllowedAt(p, t) => AllowedAt(p, t)'
      BY <1>1, <1>2, <1>3, HandStays, SameRows
    <2>2. DecidesAfterRows'
      BY <1>2, <1>3 DEF HostInvariant, DecidesAfterRows, Deciding, At
    <2>3. ASSUME NEW s \in Sessions, At(s, "record_save"), cli[s].result # "withdrawn"
          PROVE  /\ hand[s] = cli[s].item
                 /\ \E t \in 0..cli[s].at : AllowedAt(SiteOf(cli[s].item), t)'
      <3>1. PICK i, u : i = cli[s].item /\ u = cli[s].at
        OBVIOUS
      <3>2. ApprovedItem(i) /\ i \in ItemKey
        BY <1>1, <2>3, <3>1, CarriedTypes
           DEF At, SafetyInvariant, CarriedSound, AnswerSound, TypeOK, CliTypeOK
      <3>3. SiteOf(i)' = SiteOf(i)
        BY <1>1, <3>2, ApprovedStays DEF SafetyInvariant
      <3>4. hand[s] = i /\ \E t \in 0..u : AllowedAt(SiteOf(i), t)
        BY <2>3, <3>1 DEF HostInvariant, ReportAllowed
      <3>5. PICK t \in 0..u : AllowedAt(SiteOf(i), t)
        BY <3>4
      <3>6. PICK p : p = SiteOf(i)
        OBVIOUS
      <3>7. AllowedAt(p, t)' /\ SiteOf(i)' = p
        BY <2>1, <3>3, <3>5, <3>6
      <3>8. cli'[s].item = i /\ cli'[s].at = u
        BY <1>3, <3>1
      <3> QED
        BY <3>1, <3>4, <3>5, <3>7, <3>8
    <2>4. ReportAllowed'
      BY <1>3, <2>3 DEF ReportAllowed, At
    <2> QED
      BY <1>1, <2>1, <2>2, <2>4 DEF HostInvariant
  <1>4. ASSUME NEW s \in Sessions, CliStep(s) PROVE HostInvariant'
    <2>1. now' = now
      BY <1>4 DEF CliStep, ledgerVars, DraftRead, DraftBuild, DraftSave, AskRead, AskSave,
                  ApproveRead, ApproveAnswer, ApproveSave, WithdrawRead, WithdrawSave, LeaseRead,
                  LeaseSave, LeaseRelease, NextRead, NextLease, NextRenew, NextRenewSave,
                  NextDecide, RecordRead, RecordSave, Crash
    <2> QED
      BY <1>1, <1>4, <2>1, HostCli DEF HostInvariant, HostKept
  <1>5. CASE (FetchStep \/ AckStep) /\ UNCHANGED cliVars
    BY <1>3, <1>5 DEF FetchStep, Ingest, AckStep, Acknowledge, ledgerVars, outreachVars, cliVars
  <1>6. CASE Panel /\ UNCHANGED cliVars
    BY <1>3, <1>6 DEF Panel, PanelStep, PanelRead, PanelRegister, PanelPrepare, PanelCommit,
                      PanelGiveUp, ledgerVars, outreachVars, cliVars
  <1>7. CASE (FeedbackStep \/ Tick \/ EditEvidence) /\ UNCHANGED cliVars
    BY <1>3, <1>7 DEF FeedbackStep, Feedback, Tick, EditEvidence, ledgerVars, outreachVars, cliVars
  <1>8. CASE UNCHANGED vars
    BY <1>3, <1>8 DEF vars, ledgerVars, outreachVars, cliVars
  <1>9. ~Worker
    BY DEF OneHost, Worker
  <1> QED
    BY <1>4, <1>5, <1>6, <1>7, <1>8, <1>9 DEF Next, Cli

LEMMA HostInit == Init => HostInvariant
  <1> SUFFICES ASSUME Init PROVE HostInvariant
    OBVIOUS
  <1>1. SafetyInvariant
    BY InitSound
  <1> QED
    BY <1>1 DEF HostInvariant, Init, LedgerInit, CliInit, Idle, StampsPast, RowsPast, DecidesAfterRows,
                Deciding, HandAllowed, ReportAllowed, SendsPaced, SentRows, At

\* next_item: where one host alone sends and reports only what it was released, the sends it
\* has recorded keep gap, stop and cap, over every crash; `record` checks none of it.
THEOREM OneHostPaced ==
    ASSUME OneHost
    PROVE  Spec => []SendsPaced
  <1>1. HostInvariant => SendsPaced
    BY DEF HostInvariant
  <1>2. HostInvariant /\ [Next]_vars => HostInvariant'
    BY HostStep
  <1> QED
    BY <1>1, <1>2, HostInit, PTL DEF Spec

=============================================================================
