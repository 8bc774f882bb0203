--------------------------- MODULE OutreachLedger ---------------------------
(***************************************************************************)
(* The SQLite tables behind first greetings (storage/outreach_repository,  *)
(* migrations 0004, 0009, 0011) and the pure rules that read them          *)
(* (outreach/service.py, bridge/greeting_freshness.py).  The processes     *)
(* that run commands against these tables are in OutreachCli,              *)
(* WorkerGateway and GreetingDecisions; OutreachSystem composes them.      *)
(*                                                                         *)
(* A greeting's text, a job's content and a digest are abstracted to       *)
(* revision numbers: two contents are equal exactly when their revisions   *)
(* are.  A batch id is a drafted batch or, for a single item a person      *)
(* approved in the panel, the pair <<batch, number>> its digest is made of.*)
(***************************************************************************)
EXTENDS Integers, Sequences, FiniteSets

CONSTANTS
    Sessions,     \* session ids: hosts that run the CLI, and workers
    Platforms,    \* job sites
    Jobs,         \* normalized job ids
    Site,         \* [Jobs -> Platforms], a job's source
    BoundJobs,    \* jobs whose greetings carry an AI source binding
    Undrafted,    \* jobs assessed weak_match or no_match (UNDRAFTED_TIERS)
    Batches,      \* ids of drafted batches
    Children,     \* single-item lists the panel may derive: <<batch, number>>
    MaxItems,     \* OutreachPolicy.max_items_per_batch
    Cap,          \* OutreachPolicy.daily_cap_per_platform
    MinGap,       \* OutreachPolicy.min_seconds_between_sends, in ticks
    LeaseTicks,   \* LEASE_SECONDS, in ticks
    DayTicks,     \* length of a platform day, in ticks
    MaxNow,       \* bound: the clock stops here
    MaxRev,       \* bound: revisions of a job or of the evidence
    None          \* an absent row or value

ASSUME LedgerAssumption ==
    /\ Site \in [Jobs -> Platforms]
    /\ BoundJobs \subseteq Jobs /\ Undrafted \subseteq Jobs
    /\ MaxItems \in Nat \ {0} /\ Cap \in Nat \ {0} /\ MinGap \in Nat
    /\ LeaseTicks \in Nat \ {0} /\ DayTicks \in Nat \ {0}
    /\ MaxNow \in Nat /\ MaxRev \in Nat
    /\ Batches \cap Children = {}
    /\ Children \subseteq Batches \X (1..MaxItems)
    /\ None \notin Nat

Results == {"sent", "duplicate_found", "failed", "intervention", "withdrawn"}
Halting == {"failed", "intervention"}
CountsAsContact == {"sent", "duplicate_found"}

Numbers == 1..MaxItems
BatchId == Batches \cup Children
ItemKey == BatchId \X Numbers

\* One listed greeting: the job, and the revisions its digest and binding cover.
Item == [job : Jobs, rev : Nat, evidence : Nat]
\* What the OutreachBatch contract accepts: a non-empty numbered list.
ItemLists == {items \in Seq(Item) : items # <<>> /\ DOMAIN items \subseteq Numbers}
Approval == [numbers : SUBSET Numbers, at : Nat]
Lease == [session : Sessions, expires : Nat]
Decisions == {"approved", "revised", "declined"}
Card == [revision : Nat, decisions : [Numbers -> Decisions \cup {None}]]
Audit == [batch : BatchId, number : Numbers, job : Jobs, platform : Platforms,
          result : Results, at : Nat]

ASSUME NoneAssumption ==
    /\ None \notin Approval /\ None \notin Lease /\ None \notin Card
    /\ None \notin ItemKey /\ None \notin Decisions

VARIABLES
    now,          \* the wall clock every process reads
    jobRev,       \* jobRev[j]: revision of the stored posting, 0 = not stored
    evidenceRev,  \* revision of the candidate's confirmed evidence
    batches,      \* outreach_batches; <<>> = no such batch
    asks,         \* outreach_asks: asked_at of the question put for a batch
    approvals,    \* outreach_approvals, UNIQUE(batch_id)
    withdrawn,    \* outreach_withdrawals
    leases,       \* outreach_leases, one row per platform
    audits,       \* outreach_audits, in the order the rows were committed
    cards         \* paged_card_states: a list's item-by-item decisions, or None

\* The tables each handler leaves alone are named; these are most often together.
outreachVars == <<batches, asks, approvals, withdrawn, leases, audits, cards>>
ledgerVars == <<now, jobRev, evidenceRev, outreachVars>>

LedgerInit ==
    /\ now = 0
    /\ jobRev = [j \in Jobs |-> 0]
    /\ evidenceRev = 0
    /\ batches = [b \in BatchId |-> <<>>]
    /\ asks = [b \in BatchId |-> None]
    /\ approvals = [b \in BatchId |-> None]
    /\ withdrawn = {}
    /\ leases = [p \in Platforms |-> None]
    /\ audits = <<>>
    /\ cards = [b \in BatchId |-> None]

LedgerTypeOK ==
    /\ now \in Nat
    /\ jobRev \in [Jobs -> Nat]
    /\ evidenceRev \in Nat
    /\ batches \in [BatchId -> ItemLists \cup {<<>>}]
    /\ asks \in [BatchId -> Nat \cup {None}]
    /\ approvals \in [BatchId -> Approval \cup {None}]
    /\ withdrawn \subseteq BatchId
    /\ leases \in [Platforms -> Lease \cup {None}]
    /\ audits \in Seq(Audit)
    /\ cards \in [BatchId -> Card \cup {None}]

-----------------------------------------------------------------------------
(* Reading the ledger.                                                     *)

Day(t) == t \div DayTicks

Known(b) == batches[b] # <<>>
ItemOf(i) == batches[i[1]][i[2]]
SiteOf(i) == Site[ItemOf(i).job]

Approved(b) == approvals[b] # None
ApprovedItem(i) == Approved(i[1]) /\ i[2] \in approvals[i[1]].numbers

Recorded(i) == \E k \in DOMAIN audits : audits[k].batch = i[1] /\ audits[k].number = i[2]

\* decided_numbers: items of the list a front end decided one by one.
Decided(b) == IF cards[b] = None THEN {}
              ELSE {n \in Numbers : cards[b].decisions[n] # None}

\* contacted_job_ids: a greeting reached the job, or was found to have reached it.
Contacted(j) ==
    \E k \in DOMAIN audits : audits[k].job = j /\ audits[k].result \in CountsAsContact

HeldByOther(p, s, t) ==
    leases[p] # None /\ leases[p].session # s /\ leases[p].expires > t
HoldsLease(p, s, t) ==
    leases[p] # None /\ leases[p].session = s /\ leases[p].expires > t

\* verify_current_batch: every job still reads as it did when the list was drafted.
ContentCurrent(b) == \A n \in DOMAIN batches[b] :
    batches[b][n].rev = jobRev[batches[b][n].job]

\* verify_greeting_sources: bound items only; unbound drafts keep the older path.
ItemSourcesCurrent(item) ==
    item.job \in BoundJobs => item.rev = jobRev[item.job] /\ item.evidence = evidenceRev
SourcesCurrent(b) == \A n \in DOMAIN batches[b] : ItemSourcesCurrent(batches[b][n])

-----------------------------------------------------------------------------
(* OutreachService.next_item: may one more greeting go out on p at time t? *)

OnPlatform(p) == {k \in DOMAIN audits : audits[k].platform = p}
Todays(p, t) == {k \in OnPlatform(p) : Day(audits[k].at) = Day(t)}

HaltedToday(p, t) == \E k \in Todays(p, t) : audits[k].result \in Halting
SentToday(p, t) == {k \in Todays(p, t) : audits[k].result = "sent"}
Spaced(p, t) == \A k \in OnPlatform(p) : t - audits[k].at >= MinGap

Remaining(b, p) == {n \in DOMAIN batches[b] :
    ApprovedItem(<<b, n>>) /\ SiteOf(<<b, n>>) = p /\ ~Recorded(<<b, n>>)}

\* Mutant: the minimum interval is not checked.
GateOpenUnspaced(p, held, t) ==
    held /\ ~HaltedToday(p, t) /\ Cardinality(SentToday(p, t)) < Cap

GateOpen(p, held, t) ==
    /\ held
    /\ ~HaltedToday(p, t)
    /\ Cardinality(SentToday(p, t)) < Cap
    /\ Spaced(p, t)

\* The number the gate releases: the first approved item without a result.
Released(b, p, held, t, n) ==
    /\ GateOpen(p, held, t)
    /\ n \in Remaining(b, p)
    /\ \A m \in Remaining(b, p) : n <= m

-----------------------------------------------------------------------------
(* Statements several commands share.                                      *)

\* Mutant: the row is written without its time.
AuditRowUndated(i, result, t) ==
    [batch |-> i[1], number |-> i[2], job |-> ItemOf(i).job,
     platform |-> SiteOf(i), result |-> result, at |-> None]

AuditRow(i, result, t) ==
    [batch |-> i[1], number |-> i[2], job |-> ItemOf(i).job,
     platform |-> SiteOf(i), result |-> result, at |-> t]

\* Mutant: the table has no UNIQUE (batch_id, number).
AppendAuditAgain(i, result, t) == audits' = Append(audits, AuditRow(i, result, t))

\* INSERT INTO outreach_audits; UNIQUE (batch_id, number) refuses a second result.
AppendAudit(i, result, t) ==
    /\ ~Recorded(i)
    /\ audits' = Append(audits, AuditRow(i, result, t))

\* INSERT OR REPLACE INTO outreach_leases.
WriteLease(p, s, t) ==
    leases' = [leases EXCEPT ![p] = [session |-> s, expires |-> t + LeaseTicks]]

-----------------------------------------------------------------------------
(* The world outside the commands.                                         *)

\* Time passes.
Tick ==
    /\ now < MaxNow
    /\ now' = now + 1
    /\ UNCHANGED <<jobRev, evidenceRev, outreachVars>>

\* The candidate's evidence is edited after greetings were written from it.
EditEvidence ==
    /\ evidenceRev < MaxRev
    /\ evidenceRev' = evidenceRev + 1
    /\ UNCHANGED <<now, jobRev, outreachVars>>

=============================================================================
