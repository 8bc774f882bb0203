----------------------------- MODULE OutreachCli -----------------------------
(***************************************************************************)
(* The `jobagent outreach` commands (cli/outreach.py).  Every repository   *)
(* call opens its own connection, so a command is a sequence of separately *)
(* committed statements; here each statement that can interleave with      *)
(* another process is an action, and cli[s] holds what the command read    *)
(* before it.  Session s runs one command at a time.                       *)
(*                                                                         *)
(* hand[s] is the item `next` last released to the host behind s, until    *)
(* that host records a result for it or is gone.                           *)
(***************************************************************************)
EXTENDS OutreachLedger, SequencesExt

CONSTANTS
    Commands,     \* the commands sessions run (a bound on the instance)
    Recordable,   \* the results sessions record (a bound on the instance)
    Disciplined,  \* hosts report outcomes only of the greeting they were released
    DraftLists,   \* lists of jobs a host may submit drafts for
    Tier          \* [Jobs -> 0..3]: TIER_ORDER of the job's match tier

ASSUME CliAssumption ==
    /\ Tier \in [Jobs -> 0..3]
    /\ DraftLists \subseteq Seq(Jobs)
    /\ Recordable \subseteq Results
    /\ Disciplined \in BOOLEAN

VARIABLES
    cli,          \* cli[s]: the command s runs, with what it has read so far
    hand          \* hand[s]: the item released to s, or None

cliVars == <<cli, hand>>

Idle == [pc |-> "idle"]

CliState ==
    {Idle}
    \cup [pc : {"draft_build"}, batch : Batches, drafts : DraftLists,
          found : [Jobs -> Nat], evidence : Nat]
    \cup [pc : {"draft_save"}, batch : Batches, items : ItemLists]
    \cup [pc : {"ask_save"}, batch : BatchId, at : Nat]
    \cup [pc : {"approve_answer"}, batch : BatchId, numbers : SUBSET Numbers]
    \cup [pc : {"approve_save"}, batch : BatchId, numbers : SUBSET Numbers, at : Nat]
    \cup [pc : {"withdraw_save"}, batch : BatchId]
    \cup [pc : {"lease_save"}, platform : Platforms, at : Nat]
    \cup [pc : {"next_lease"}, batch : BatchId, platform : Platforms]
    \cup [pc : {"next_renew", "next_renew_save"},
          batch : BatchId, platform : Platforms, at : Nat]
    \cup [pc : {"next_decide"}, batch : BatchId, platform : Platforms,
          held : BOOLEAN, at : Nat]
    \cup [pc : {"record_save"}, item : ItemKey, result : Results, at : Nat]

CliInit ==
    /\ cli = [s \in Sessions |-> Idle]
    /\ hand = [s \in Sessions |-> None]

CliTypeOK ==
    /\ cli \in [Sessions -> CliState]
    /\ hand \in [Sessions -> ItemKey \cup {None}]

At(s, pc) == cli[s].pc = pc
Ready(s, command) == command \in Commands /\ At(s, "idle")
Goto(s, state) == cli' = [cli EXCEPT ![s] = state]
Done(s) == Goto(s, Idle)
Drafting(s) == At(s, "draft_build") \/ At(s, "draft_save")

-----------------------------------------------------------------------------
(* draft-batch: build_batch over the stored jobs, then the contacted jobs. *)

\* sorted() by TIER_ORDER is stable: one sub-list per tier, in tier order.
OfTier(drafts, t) == SelectSeq(drafts, LAMBDA j : Tier[j] = t)
InTierOrder(drafts) ==
    OfTier(drafts, 0) \o OfTier(drafts, 1) \o OfTier(drafts, 2) \o OfTier(drafts, 3)

\* The host's drafts, and the stored jobs they are checked against.
DraftRead(s, b, drafts) ==
    /\ Ready(s, "draft")
    /\ ~Known(b) /\ \A r \in Sessions : Drafting(r) => cli[r].batch # b
    /\ LET found == [j \in Jobs |-> IF Contains(drafts, j) THEN jobRev[j] ELSE 0]
       IN Goto(s, [pc |-> "draft_build", batch |-> b, drafts |-> drafts,
                   found |-> found, evidence |-> evidenceRev])
    /\ UNCHANGED <<ledgerVars, hand>>

\* _draft_problems, the undrafted tiers and batch_full: the reasons a draft is left out.
Accepted(items, item) ==
    /\ item.rev > 0
    /\ ~Contacted(item.job)
    /\ \A k \in DOMAIN items : items[k].job # item.job
    /\ item.job \notin Undrafted
    /\ Len(items) < MaxItems

\* build_batch: one pass over the drafts, listing what passes every rule so far.
BuildItems(drafts, found, evidence) ==
    LET item(j) == [job |-> j, rev |-> found[j], evidence |-> evidence]
        list(items, j) == IF Accepted(items, item(j)) THEN Append(items, item(j)) ELSE items
    IN FoldLeft(list, <<>>, InTierOrder(drafts))

\* already_contacted is read here; a list OutreachBatch rejects, or an empty one,
\* stores nothing.
DraftBuild(s) ==
    /\ At(s, "draft_build")
    /\ LET items == BuildItems(cli[s].drafts, cli[s].found, cli[s].evidence)
       IN IF items \in ItemLists
          THEN Goto(s, [pc |-> "draft_save", batch |-> cli[s].batch, items |-> items])
          ELSE Done(s)
    /\ UNCHANGED <<ledgerVars, hand>>

\* save_batch.
DraftSave(s) ==
    /\ At(s, "draft_save")
    /\ batches' = [batches EXCEPT ![cli[s].batch] = cli[s].items]
    /\ Done(s)
    /\ UNCHANGED <<now, jobRev, evidenceRev, asks, approvals, withdrawn, leases,
                   audits, cards, hand>>

-----------------------------------------------------------------------------
(* ask, approve and withdraw.                                              *)

\* service.ask stamps asked_at before the sources are verified.
AskRead(s, b) ==
    /\ Ready(s, "ask")
    /\ Known(b) /\ SourcesCurrent(b)
    /\ Goto(s, [pc |-> "ask_save", batch |-> b, at |-> now])
    /\ UNCHANGED <<ledgerVars, hand>>

\* save_ask: INSERT OR REPLACE, one OASK id per batch.
AskSave(s) ==
    /\ At(s, "ask_save")
    /\ asks' = [asks EXCEPT ![cli[s].batch] = cli[s].at]
    /\ Done(s)
    /\ UNCHANGED <<now, jobRev, evidenceRev, batches, approvals, withdrawn,
                   leases, audits, cards, hand>>

\* A missing batch, a withdrawn one and stale sources are refused.
ApproveRead(s, b, numbers) ==
    /\ Ready(s, "approve")
    /\ Known(b) /\ b \notin withdrawn /\ SourcesCurrent(b)
    /\ numbers \subseteq DOMAIN batches[b] /\ numbers # {}
    /\ Goto(s, [pc |-> "approve_answer", batch |-> b, numbers |-> numbers])
    /\ UNCHANGED <<ledgerVars, hand>>

\* Mutant: an approval needs no question on record.
ApproveUnasked(s) ==
    /\ At(s, "approve_answer")
    /\ IF cli[s].numbers \cap Decided(cli[s].batch) = {}
       THEN Goto(s, [pc |-> "approve_save", batch |-> cli[s].batch,
                     numbers |-> cli[s].numbers, at |-> now])
       ELSE Done(s)
    /\ UNCHANGED <<ledgerVars, hand>>

\* decided_numbers and get_ask, then service.approve stamps approved_at.
ApproveAnswer(s) ==
    /\ At(s, "approve_answer")
    /\ IF cli[s].numbers \cap Decided(cli[s].batch) = {} /\ asks[cli[s].batch] # None
       THEN Goto(s, [pc |-> "approve_save", batch |-> cli[s].batch,
                     numbers |-> cli[s].numbers, at |-> now])
       ELSE Done(s)
    /\ UNCHANGED <<ledgerVars, hand>>

\* save_approval: UNIQUE(batch_id) refuses a second answer.
ApproveSave(s) ==
    /\ At(s, "approve_save")
    /\ IF Approved(cli[s].batch)
       THEN UNCHANGED approvals
       ELSE approvals' = [approvals EXCEPT ![cli[s].batch] =
                [numbers |-> cli[s].numbers, at |-> cli[s].at]]
    /\ Done(s)
    /\ UNCHANGED <<now, jobRev, evidenceRev, batches, asks, withdrawn, leases,
                   audits, cards, hand>>

\* An approved batch is closed item by item instead.
WithdrawRead(s, b) ==
    /\ Ready(s, "withdraw")
    /\ Known(b) /\ ~Approved(b)
    /\ Goto(s, [pc |-> "withdraw_save", batch |-> b])
    /\ UNCHANGED <<ledgerVars, hand>>

\* A second withdrawal hits the primary key and changes nothing.
WithdrawSave(s) ==
    /\ At(s, "withdraw_save")
    /\ withdrawn' = withdrawn \cup {cli[s].batch}
    /\ Done(s)
    /\ UNCHANGED <<now, jobRev, evidenceRev, batches, asks, approvals, leases,
                   audits, cards, hand>>

-----------------------------------------------------------------------------
(* lease: acquire_lease is a SELECT, then an INSERT OR REPLACE.            *)

LeaseRead(s, p) ==
    /\ Ready(s, "lease")
    /\ ~HeldByOther(p, s, now)
    /\ Goto(s, [pc |-> "lease_save", platform |-> p, at |-> now])
    /\ UNCHANGED <<ledgerVars, hand>>

LeaseSave(s) ==
    /\ At(s, "lease_save")
    /\ WriteLease(cli[s].platform, s, cli[s].at)
    /\ Done(s)
    /\ UNCHANGED <<now, jobRev, evidenceRev, batches, asks, approvals,
                   withdrawn, audits, cards, hand>>

LeaseRelease(s, p) ==
    /\ Ready(s, "release")
    /\ leases[p] # None /\ leases[p].session = s
    /\ leases' = [leases EXCEPT ![p] = None]
    /\ UNCHANGED <<now, jobRev, evidenceRev, batches, asks, approvals,
                   withdrawn, audits, cards, cliVars>>

-----------------------------------------------------------------------------
(* next: sources, then the lease, its renewal, and the gate over the audits.*)

\* An approval row is never removed, so reading it here or earlier is the same.
NextRead(s, b, p) ==
    /\ Ready(s, "next")
    /\ Approved(b) /\ SourcesCurrent(b)
    /\ Goto(s, [pc |-> "next_lease", batch |-> b, platform |-> p])
    /\ UNCHANGED <<ledgerVars, hand>>

\* One `now` serves the lease check, the renewal and the gate.
NextLease(s) ==
    /\ At(s, "next_lease")
    /\ LET b == cli[s].batch
           p == cli[s].platform
       IN IF HoldsLease(p, s, now)
          THEN Goto(s, [pc |-> "next_renew", batch |-> b, platform |-> p, at |-> now])
          ELSE Goto(s, [pc |-> "next_decide", batch |-> b, platform |-> p,
                        held |-> FALSE, at |-> now])
    /\ UNCHANGED <<ledgerVars, hand>>

Decide(s, c) == Goto(s, [pc |-> "next_decide", batch |-> c.batch,
                         platform |-> c.platform, held |-> TRUE, at |-> c.at])

\* The renewal's own SELECT; the command ignores a refusal.
NextRenew(s) ==
    /\ At(s, "next_renew")
    /\ IF HeldByOther(cli[s].platform, s, cli[s].at)
       THEN Decide(s, cli[s])
       ELSE Goto(s, [cli[s] EXCEPT !.pc = "next_renew_save"])
    /\ UNCHANGED <<ledgerVars, hand>>

NextRenewSave(s) ==
    /\ At(s, "next_renew_save")
    /\ WriteLease(cli[s].platform, s, cli[s].at)
    /\ Decide(s, cli[s])
    /\ UNCHANGED <<now, jobRev, evidenceRev, batches, asks, approvals,
                   withdrawn, audits, cards, hand>>

\* The host holds the released item; a refusal releases nothing.
NextDecide(s) ==
    /\ At(s, "next_decide")
    /\ LET c == cli[s]
           release(n) == Released(c.batch, c.platform, c.held, c.at, n)
       IN IF \E n \in Numbers : release(n)
          THEN \E n \in Numbers :
                 release(n) /\ hand' = [hand EXCEPT ![s] = <<c.batch, n>>]
          ELSE UNCHANGED hand
    /\ Done(s)
    /\ UNCHANGED ledgerVars

-----------------------------------------------------------------------------
(* record: once per approved item, by the session holding the lease.       *)

\* The command takes any result for any approved item; what a host reports through
\* it is the host's own discipline.
Reports(s, i, result) == Disciplined => hand[s] = i \/ result = "withdrawn"

RecordRead(s, i, result) ==
    /\ Ready(s, "record") /\ Reports(s, i, result)
    /\ ApprovedItem(i) /\ i[2] \in DOMAIN batches[i[1]]
    /\ HoldsLease(SiteOf(i), s, now)
    /\ Goto(s, [pc |-> "record_save", item |-> i, result |-> result, at |-> now])
    /\ UNCHANGED <<ledgerVars, hand>>

\* list_audits and the insert: a recorded item is refused by the SELECT or, when two
\* recorders race, by UNIQUE (batch_id, number); either way nothing is written.
RecordSave(s) ==
    /\ At(s, "record_save")
    /\ IF Recorded(cli[s].item)
       THEN UNCHANGED <<audits, hand>>
       ELSE /\ AppendAudit(cli[s].item, cli[s].result, cli[s].at)
            /\ hand' = [hand EXCEPT ![s] = IF @ = cli[s].item THEN None ELSE @]
    /\ Done(s)
    /\ UNCHANGED <<now, jobRev, evidenceRev, batches, asks, approvals,
                   withdrawn, leases, cards>>

\* The session's process is killed between two statements; its host is gone.
Crash(s) ==
    /\ ~At(s, "idle") \/ hand[s] # None
    /\ Done(s)
    /\ hand' = [hand EXCEPT ![s] = None]
    /\ UNCHANGED ledgerVars

-----------------------------------------------------------------------------

CliStep(s) ==
    \/ \E b \in Batches, drafts \in DraftLists : DraftRead(s, b, drafts)
    \/ DraftBuild(s) \/ DraftSave(s)
    \/ \E b \in BatchId : AskRead(s, b)
    \/ AskSave(s)
    \/ \E b \in BatchId, numbers \in SUBSET Numbers : ApproveRead(s, b, numbers)
    \/ ApproveAnswer(s)
    \/ ApproveSave(s)
    \/ \E b \in BatchId : WithdrawRead(s, b)
    \/ WithdrawSave(s)
    \/ \E p \in Platforms : LeaseRead(s, p) \/ LeaseRelease(s, p)
    \/ LeaseSave(s)
    \/ \E b \in BatchId, p \in Platforms : NextRead(s, b, p)
    \/ NextLease(s) \/ NextRenew(s) \/ NextRenewSave(s) \/ NextDecide(s)
    \/ \E i \in ItemKey, result \in Recordable : RecordRead(s, i, result)
    \/ RecordSave(s)
    \/ Crash(s)

=============================================================================
