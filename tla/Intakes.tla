---- MODULE Intakes ----
(***************************************************************************)
(* Jobs a person hands in: requests are kept in a row per target, the row  *)
(* is resolved to an actual job, bound to the newest full posting, and     *)
(* then carries what is derived from it: features and the person's         *)
(* interest for learning, a draft with its independent review and outreach *)
(* batch for the greeting.  A command reads its row and compares versions  *)
(* in the transaction that writes, so it is one step here; resolving also  *)
(* looks for other rows of the job, and is two.  A version is stood for by *)
(* the content of the row.  Event ids already used answer again and change *)
(* nothing, except that of an attached interest, which is kept.  The       *)
(* sourcing attempt that proves a read is left out.                        *)
(***************************************************************************)
EXTENDS Naturals, Sequences, FiniteSetsExt

CONSTANTS
    Nothing,      \* no value
    Targets,      \* target keys: a url, an item of a list, a card
    UrlTargets,   \* the targets that name their job, by its url alone
    Jobs,         \* actual jobs on the platform
    Occasions,    \* what may happen, in records of
                  \*   says: what the person asks, in [id, target, at, choice, draft]
                  \*   adds: what the person says of a row later, in [id, at, choice]
                  \*   shots: a bound on the snapshots of a job
                  \*   contact: whether outreach contacts the job
                  \*   learn: whether the host keeps a search strategy
    Policies,     \* lexicons features can be taken with
    Openings,     \* texts of a draft that pass the outreach rules
    People,       \* who drafts and reviews
    Resolvers     \* processes that resolve targets

ASSUME IntakeSorts ==
    /\ UrlTargets \subseteq Targets /\ Nothing \notin Targets \cup Jobs
    /\ \A o \in Occasions :
           /\ o.shots \in Nat /\ \A r \in o.says : r.target \in Targets
           /\ \A r \in o.says, i \in o.adds : r.id # i.id

VARIABLES
    occasion,    \* what happens in this behaviour
    rows,        \* job_intakes, by target key
    filed,       \* intake_requests: the target of the row each request is in
    selected,    \* intake_selections: the job an item or a card stands for
    shots,       \* jd_snapshots of each job: whether each text is full
    stored,      \* the text of the cached job, by the snapshot it agrees with, 0 before it is cached
    contacted,   \* jobs with a contacting outreach audit
    batches,     \* items of outreach batches not withdrawn, with the posting their digest binds
    resolving,   \* what resolve has read
    crossed,     \* of the properties only: the targets resolved to the job of a resolver since it read
    overlapped   \* of the properties only: pairs of targets resolved to one job side by side

worldVars == <<occasion, selected, shots, stored, contacted, batches>>
overlapVars == <<crossed, overlapped>>
resolveVars == <<resolving, overlapVars>>
intakeVars == <<rows, filed, worldVars, resolveVars>>

New(r) ==
    [requests |-> {r}, listing |-> Nothing, job |-> Nothing, snapshot |-> 0, features |-> Nothing,
     signal |-> Nothing, attached |-> {}, draft |-> Nothing, review |-> Nothing, batch |-> Nothing,
     plan |-> Nothing, contacted |-> FALSE, paused |-> FALSE, closed |-> FALSE, merged |-> Nothing]

IntakeInit ==
    /\ occasion \in Occasions
    /\ rows = <<>> /\ filed = [r \in occasion.says |-> Nothing]
    /\ selected \in {f \in [Targets -> Jobs \cup {Nothing}] : \A t \in Targets : f[t] # Nothing <=> t \in UrlTargets}
    /\ shots = [j \in Jobs |-> <<>>] /\ stored \in [Jobs -> {0}] /\ contacted = {} /\ batches = {}
    /\ resolving = [p \in Resolvers |-> Nothing]
    /\ crossed = [p \in Resolvers |-> {}] /\ overlapped = {}

----
\* The targets there is a row of.
Queued == DOMAIN rows

Live(row) == ~row.closed /\ row.merged = Nothing

\* prepare: what every command but control asks of its row.
Ready(t) == t \in Queued /\ Live(rows[t]) /\ ~rows[t].paused

\* The person's newest choice by when it was made; times differ.
Choice(requests) ==
    LET choices == {r \in requests : r.choice # Nothing}
    IN  IF choices = {} THEN Nothing ELSE CHOOSE r \in choices : \A s \in choices : s.at <= r.at

\* signal: the choice, with the features it is about; its id is a digest of both.
Signal(row) ==
    IF row.features = Nothing \/ Choice(row.requests) = Nothing THEN Nothing
    ELSE [of |-> Choice(row.requests), snapshot |-> row.snapshot, features |-> row.features]

\* refresh_interest: a choice not yet attached is attached under an event id made of the signal, which
\* is refused when the id was used at another version.
Unattached(row) == row.features # Nothing /\ row.signal = Nothing /\ Signal(row) # Nothing
Refused(row) == Unattached(row) /\ Signal(row) \in row.attached
Refreshed(row) ==
    IF Unattached(row) /\ ~Refused(row)
    THEN [row EXCEPT !.signal = Signal(row), !.plan = Nothing, !.attached = @ \cup {Signal(row)}]
    ELSE row

\* What is derived from a posting goes when it changes.
Underived(row) ==
    [row EXCEPT !.features = Nothing, !.signal = Nothing, !.draft = Nothing, !.review = Nothing,
                !.batch = Nothing, !.plan = Nothing]

\* bound: the row's snapshot is the newest, and the cached job has its text.
Bound(row) ==
    row.job # Nothing /\ row.snapshot # 0 /\ row.snapshot = Len(shots[row.job]) /\ stored[row.job] = row.snapshot

\* synchronize: a contact or a changed posting is written, otherwise a missing interest is attached.
Stale(row) == row.snapshot # 0 /\ ~Bound(row)
Synchronized(row) ==
    LET known == row.job \in contacted
    IN  IF ~Live(row) \/ row.job = Nothing THEN row
        ELSE IF Stale(row) THEN [Underived(row) EXCEPT !.snapshot = 0, !.contacted = known]
        ELSE IF known # row.contacted THEN [row EXCEPT !.contacted = known]
        ELSE IF row.paused THEN row ELSE Refreshed(row)

Write(t, row) == rows' = [rows EXCEPT ![t] = row] /\ UNCHANGED <<filed, worldVars, resolveVars>>

----
(* Requests *)

\* A new choice takes the interest and the plan with it.
Enqueued(row, r) ==
    LET more == [row EXCEPT !.requests = @ \cup {r}]
    IN  IF r.choice = Nothing THEN more ELSE [more EXCEPT !.signal = Nothing, !.plan = Nothing]

\* The request is committed, then the row synchronized, unless the process dies between.
Enqueue(r, finished) ==
    LET t == r.target
        row == IF t \in Queued THEN Enqueued(rows[t], r) ELSE New(r)
    IN  /\ filed[r] = Nothing
        /\ t \in Queued => Live(rows[t])
        /\ rows' = [u \in Queued \cup {t} |-> IF u # t THEN rows[u]
                                            ELSE IF finished THEN Synchronized(row) ELSE row]
        /\ filed' = [filed EXCEPT ![r] = t]
        /\ UNCHANGED <<worldVars, resolveVars>>

\* next and status, and the first part of strategy.
Synchronize(t) == t \in Queued /\ Synchronized(rows[t]) # rows[t] /\ Write(t, Synchronized(rows[t]))

\* save_selection: a list version keeps its targets.
SaveSelection(t, j) ==
    /\ t \notin UrlTargets /\ selected[t] = Nothing
    /\ selected' = [selected EXCEPT ![t] = j]
    /\ UNCHANGED <<occasion, rows, filed, shots, stored, contacted, batches, resolveVars>>

----
(* Resolving *)

\* Open rows that name the job, or were resolved to its listing.
Twins(t, j) == {u \in Queued \ {t} : Live(rows[u]) /\ (rows[u].job = j \/ rows[u].listing = j)}

\* The reference stands for this job, and a job once resolved stays.
ResolveRead(p, t, j) ==
    /\ resolving[p] = Nothing /\ Ready(t)
    /\ selected[t] = j /\ rows[t].listing \in {Nothing, j} /\ rows[t].job \in {Nothing, j}
    /\ \E twin \in Twins(t, j) \cup {Nothing} :
           /\ twin = Nothing => Twins(t, j) = {}
           /\ resolving' = [resolving EXCEPT ![p] =
                  [target |-> t, row |-> rows[t], job |-> j, twin |-> twin, cached |-> stored[j] # 0,
                   twinRow |-> IF twin = Nothing THEN Nothing ELSE rows[twin], contacted |-> j \in contacted]]
    /\ crossed' = [crossed EXCEPT ![p] = {}]
    /\ UNCHANGED <<rows, filed, worldVars, overlapped>>

\* The resolvers of the job under way have missed this target, as its own has missed what it crossed.
Crossing(p, t, j) ==
    /\ crossed' = [q \in Resolvers |->
           IF q # p /\ resolving[q] # Nothing /\ resolving[q].job = j THEN crossed[q] \cup {t} ELSE crossed[q]]
    /\ overlapped' = overlapped \cup {{t, u} : u \in crossed[p]}

ResolveCommit(p) ==
    LET found == resolving[p]
        t == found.target
    IN  /\ found # Nothing /\ found.twin = Nothing
        /\ rows[t] = found.row
        /\ rows' = [rows EXCEPT ![t] =
               [found.row EXCEPT !.listing = found.job,
                                 !.job = IF found.cached THEN found.job ELSE found.row.job,
                                 !.contacted = found.cached /\ found.contacted]]
        /\ resolving' = [resolving EXCEPT ![p] = Nothing]
        /\ Crossing(p, t, found.job)
        /\ UNCHANGED <<filed, worldVars>>

\* Mutant: the requests of the alias stay with it.
UnitedAlone(target, source) == target

\* The requests of both; the target's interest and plan go when the newest choice is another.
United(target, source) ==
    LET all == [target EXCEPT !.requests = @ \cup source.requests]
    IN  IF Choice(all.requests) = Choice(target.requests) THEN all
        ELSE [all EXCEPT !.signal = Nothing, !.plan = Nothing]

\* merge: alias and target in one transaction; then the interest is refreshed and the row synchronized,
\* unless the process dies between.
Merge(p, finished) ==
    LET found == resolving[p]
        t == found.target
        u == found.twin
        row == United(rows[u], rows[t])
    IN  /\ found # Nothing /\ u # Nothing
        /\ rows[t] = found.row /\ rows[u] = found.twinRow
        /\ rows' = [rows EXCEPT ![t] = [@ EXCEPT !.merged = u],
                                ![u] = IF finished /\ ~Refused(row) THEN Synchronized(Refreshed(row)) ELSE row]
        /\ filed' = [r \in occasion.says |-> IF filed[r] = t THEN u ELSE filed[r]]
        /\ resolving' = [resolving EXCEPT ![p] = Nothing]
        /\ UNCHANGED <<worldVars, overlapVars>>

\* Refused, or the process dies.
ResolveEnds(p) ==
    /\ resolving[p] # Nothing
    /\ resolving' = [resolving EXCEPT ![p] = Nothing]
    /\ UNCHANGED <<rows, filed, worldVars, overlapVars>>

----
(* What is derived from the posting *)

\* The newest snapshot is full, and the cached job has its text.
AttachSnapshot(t, j) ==
    LET n == Len(shots[j])
    IN  /\ Ready(t) /\ rows[t].listing = j /\ rows[t].job \in {Nothing, j}
        /\ n > 0 /\ shots[j][n] /\ stored[j] = n
        /\ Write(t, [Underived(rows[t]) EXCEPT !.job = j, !.snapshot = n])

Factorize(t, policy) ==
    LET row == [rows[t] EXCEPT !.features = policy, !.plan = Nothing]
    IN  /\ Ready(t) /\ Bound(rows[t])
        /\ Write(t, [row EXCEPT !.signal = Signal(row)])

\* The choice is made now, after all that was said of the row.
SetInterest(t, i) ==
    /\ Ready(t)
    /\ \A r \in rows[t].requests : r.at < i.at
    /\ LET wanted == \E r \in rows[t].requests : r.draft
           said == [id |-> i.id, target |-> t, at |-> i.at, choice |-> i.choice, draft |-> wanted]
           row == [rows[t] EXCEPT !.requests = @ \cup {said}, !.plan = Nothing]
       IN  Write(t, [row EXCEPT !.signal = Signal(row)])

Drafted(row, text, by) ==
    [row EXCEPT !.draft = [text |-> text, snapshot |-> row.snapshot, by |-> by], !.review = Nothing, !.batch = Nothing]

\* validate_draft: not contacted; the hard filter and the outreach rules pass.
Draftable(row) == Bound(row) /\ ~row.contacted /\ row.job \notin contacted

SubmitDraft(t, text, by) ==
    /\ Ready(t) /\ \E r \in rows[t].requests : r.draft
    /\ Draftable(rows[t])
    /\ Write(t, Drafted(rows[t], text, by))

\* The review names the draft by its digest, which binds the snapshot.
ReviewDraft(t, by, accepted) ==
    /\ Ready(t) /\ Bound(rows[t])
    /\ rows[t].draft # Nothing /\ rows[t].draft.by # by
    /\ Write(t, [rows[t] EXCEPT !.batch = Nothing,
                     !.review = [text |-> rows[t].draft.text, snapshot |-> rows[t].snapshot, by |-> by,
                                 accepted |-> accepted]])

\* The item is the reviewed draft with the posting of now.
AttachBatch(t, item) ==
    /\ Ready(t) /\ rows[t].review # Nothing /\ rows[t].draft # Nothing
    /\ rows[t].review.accepted /\ Draftable(rows[t])
    /\ item = [job |-> rows[t].job, text |-> rows[t].draft.text, posting |-> stored[rows[t].job]]
    /\ Write(t, [rows[t] EXCEPT !.batch = item])

Control(t, action) ==
    /\ t \in Queued /\ Live(rows[t])
    /\ Write(t, [rows[t] EXCEPT !.paused = action = "pause", !.closed = action = "close"])

----
(* What others write: captures, imports, outreach *)

Capture(j, full) ==
    /\ Len(shots[j]) < occasion.shots
    /\ shots' = [shots EXCEPT ![j] = Append(@, full)]
    /\ UNCHANGED <<occasion, rows, filed, selected, stored, contacted, batches, resolveVars>>

Import(j) ==
    /\ stored[j] # Len(shots[j])
    /\ stored' = [stored EXCEPT ![j] = Len(shots[j])]
    /\ UNCHANGED <<occasion, rows, filed, selected, shots, contacted, batches, resolveVars>>

\* Batches are drafted from what the rows hold.
DraftBatch(j, text) ==
    /\ stored[j] # 0 /\ \E t \in Queued : rows[t].draft # Nothing /\ rows[t].draft.text = text
    /\ batches' = batches \cup {[job |-> j, text |-> text, posting |-> stored[j]]}
    /\ UNCHANGED <<occasion, rows, filed, selected, shots, stored, contacted, resolveVars>>

WithdrawBatch(item) ==
    /\ batches' = batches \ {item}
    /\ UNCHANGED <<occasion, rows, filed, selected, shots, stored, contacted, resolveVars>>

Contact(j) ==
    /\ occasion.contact /\ stored[j] # 0
    /\ contacted' = contacted \cup {j}
    /\ UNCHANGED <<occasion, rows, filed, selected, shots, stored, batches, resolveVars>>

IntakeNext ==
    \/ \E r \in occasion.says, finished \in BOOLEAN : Enqueue(r, finished)
    \/ \E p \in Resolvers : ResolveCommit(p) \/ ResolveEnds(p) \/ \E finished \in BOOLEAN : Merge(p, finished)
    \/ \E p \in Resolvers, t \in Targets, j \in Jobs : ResolveRead(p, t, j)
    \/ \E t \in Targets :
           \/ Synchronize(t)
           \/ \E j \in Jobs : SaveSelection(t, j) \/ AttachSnapshot(t, j)
           \/ \E policy \in Policies : Factorize(t, policy)
           \/ \E i \in occasion.adds : SetInterest(t, i)
           \/ \E by \in People : \/ \E text \in Openings : SubmitDraft(t, text, by)
                                 \/ \E accepted \in BOOLEAN : ReviewDraft(t, by, accepted)
           \/ \E item \in batches : AttachBatch(t, item)
           \/ \E action \in {"pause", "resume", "close"} : Control(t, action)
    \/ \E j \in Jobs : \/ \E full \in BOOLEAN : Capture(j, full)
                       \/ Import(j) \/ Contact(j)
                       \/ \E text \in Openings : DraftBatch(j, text)
    \/ \E item \in batches : WithdrawBatch(item)

IntakeSpec == IntakeInit /\ [][IntakeNext]_intakeVars

----
\* A batch is of the draft the row has, which someone else than its author reviewed and accepted on the
\* posting it was written for, and binds that posting: a new draft, a new review and a changed posting
\* take the batch with them, in every order.
BatchReviewed ==
    \A t \in Queued : rows[t].batch # Nothing =>
        LET row == rows[t]
        IN  /\ row.draft # Nothing /\ row.review # Nothing
            /\ row.review.accepted /\ row.review.by # row.draft.by
            /\ row.review.text = row.draft.text /\ row.batch.text = row.draft.text
            /\ {row.review.snapshot, row.draft.snapshot, row.batch.posting} = {row.snapshot}

\* Every request that was taken is in the row its index names, which is not an alias, and in no other
\* row that is not one: merging two entries of a job neither loses what was asked nor counts it twice.
RequestsKept ==
    \A r \in occasion.says : filed[r] # Nothing =>
        {t \in Queued : rows[t].merged = Nothing /\ r \in rows[t].requests} = {filed[r]}

\* The interest a row has attached is the person's newest choice, on the features the row has now,
\* however late an older message arrives and whichever row it arrives in.
InterestNewest ==
    \A t \in Queued : rows[t].signal # Nothing => rows[t].signal = Signal(rows[t])

\* What a row says of a posting is of one posting: without a snapshot nothing derived is left, and the
\* features, the draft and the review are of the row's.
DerivedTogether ==
    \A t \in Queued :
        LET row == rows[t]
        IN  /\ row.snapshot = 0 => row.features = Nothing /\ row.draft = Nothing /\ row.plan = Nothing
            /\ row.draft # Nothing => row.draft.snapshot = row.snapshot
            /\ row.review # Nothing => row.review.snapshot = row.snapshot

\* A row of a closed or merged target never changes again.
ClosedRowsStay ==
    [][\A t \in Queued : ~Live(rows[t]) => rows'[t] = rows[t]]_intakeVars

\* The next synchronize attaches an interest that is missing
\* (docs/muse-manual-intake-2026-10-28.md:33).
InterestRecovers == \A t \in Queued : Live(rows[t]) => ~Refused(rows[t])

\* Two open rows are never resolved to one job, whoever resolves, unless each was looked up before the
\* other was written: whichever entry is resolved second is merged into the first, whether the job was
\* cached by then or only listed.
OneRowPerJob ==
    \A t, u \in Queued :
        t # u /\ Live(rows[t]) /\ Live(rows[u]) /\ rows[t].listing # Nothing /\ rows[t].listing = rows[u].listing
            => {t, u} \in overlapped

\* The rows of an intake agree with the person's requests, with one posting each, and with the draft
\* that was reviewed, in whatever order they are resolved, read, drafted and merged
\* (job_intake_service.py).
IntakesSound ==
    /\ BatchReviewed
    /\ RequestsKept
    /\ InterestNewest
    /\ DerivedTogether
    /\ OneRowPerJob
====
