---- MODULE IntakeProofs ----
(***************************************************************************)
(* Proofs about Intakes and Strategies, for every value of their           *)
(* constants: a row is of one posting, one draft and the newest choice,    *)
(* requests are kept through merges, closed rows stand, what a row or a    *)
(* round is given as the plan is of the rows as they are, and two open     *)
(* rows come to one job only when their resolutions overlapped.            *)
(***************************************************************************)
EXTENDS Strategies, TLAPS

----
(* One row, and what the commands make of it. *)

Fields == {"requests", "listing", "job", "snapshot", "features", "signal", "attached", "draft", "review",
           "batch", "plan", "contacted", "paused", "closed", "merged"}

\* What a row holds is of one posting and one draft, and its interest is the newest choice.
RowAgrees(row) ==
    /\ DOMAIN row = Fields
    /\ row.signal # Nothing => row.signal = Signal(row)
    /\ row.snapshot = 0 => row.features = Nothing /\ row.draft = Nothing /\ row.plan = Nothing
    /\ row.draft # Nothing => row.draft.snapshot = row.snapshot
    /\ row.review # Nothing =>
           /\ row.draft # Nothing /\ row.review.by # row.draft.by
           /\ row.review.text = row.draft.text /\ row.review.snapshot = row.snapshot
    /\ row.batch # Nothing =>
           /\ row.review # Nothing /\ row.review.accepted
           /\ row.batch.text = row.draft.text /\ row.batch.posting = row.snapshot

Part(row) == [snapshot |-> row.snapshot, features |-> row.features, signal |-> row.signal]

\* A plan a row names has the row as it is.
PlanOf(t, row) ==
    row.plan # Nothing /\ Live(row) => t \in DOMAIN row.plan.samples /\ row.plan.samples[t] = Part(row)

\* A row stays the row of its requests.
SameRow(row, new) ==
    /\ new.requests = row.requests /\ new.listing = row.listing /\ new.merged = row.merged
    /\ Live(new) => Live(row)

Becomes(t, row, new) == RowAgrees(new) /\ PlanOf(t, new) /\ SameRow(row, new)

LEMMA SignalIs ==
    ASSUME NEW row, NEW new, new.requests = row.requests, new.features = row.features,
           new.snapshot = row.snapshot
    PROVE  Signal(new) = Signal(row)
BY DEF Signal

\* A request without a choice does not change which is the newest.
LEMMA ChoiceStays ==
    ASSUME NEW requests, NEW r, r.choice = Nothing
    PROVE  Choice(requests \cup {r}) = Choice(requests)
<1> DEFINE C(S) == {x \in S : x.choice # Nothing}
           F(c) == IF c = {} THEN Nothing ELSE CHOOSE x \in c : \A s \in c : s.at <= x.at
<1>1. C(requests \cup {r}) = C(requests)
  OBVIOUS
<1>2. \A S : Choice(S) = F(C(S))
  BY Zenon DEF Choice
<1> HIDE DEF F, C
<1> QED BY <1>1, <1>2

LEMMA NewIs ==
    ASSUME NEW r, NEW t
    PROVE  /\ RowAgrees(New(r)) /\ PlanOf(t, New(r)) /\ New(r).requests = {r} /\ New(r).listing = Nothing
           /\ New(r).merged = Nothing
<1>1. PICK no : no = FALSE
  OBVIOUS
<1>2. New(r) = [requests |-> {r}, listing |-> Nothing, job |-> Nothing, snapshot |-> 0, features |-> Nothing,
                signal |-> Nothing, attached |-> {}, draft |-> Nothing, review |-> Nothing, batch |-> Nothing,
                plan |-> Nothing, contacted |-> no, paused |-> no, closed |-> no, merged |-> Nothing]
  BY <1>1, Zenon DEF New
<1>3. PICK row : row = New(r)
  OBVIOUS
<1>4. /\ DOMAIN row = Fields /\ row.requests = {r} /\ row.listing = Nothing /\ row.snapshot = 0
      /\ row.features = Nothing /\ row.signal = Nothing /\ row.draft = Nothing /\ row.review = Nothing
      /\ row.batch = Nothing /\ row.plan = Nothing /\ row.merged = Nothing
  BY <1>2, <1>3 DEF Fields
<1> QED BY <1>3, <1>4 DEF RowAgrees, PlanOf

LEMMA EnqueuedIs ==
    ASSUME NEW row, NEW r, NEW t, RowAgrees(row), PlanOf(t, row)
    PROVE  LET new == Enqueued(row, r) IN
           /\ RowAgrees(new) /\ PlanOf(t, new) /\ new.requests = row.requests \cup {r}
           /\ new.listing = row.listing /\ new.merged = row.merged /\ (Live(new) <=> Live(row))
<1>1. PICK more : more = [row EXCEPT !.requests = @ \cup {r}]
  OBVIOUS
<1>2. PICK bare : bare = [more EXCEPT !.signal = Nothing, !.plan = Nothing]
  OBVIOUS
<1>3. /\ DOMAIN more = Fields /\ more.requests = row.requests \cup {r} /\ more.listing = row.listing
      /\ more.snapshot = row.snapshot /\ more.features = row.features /\ more.signal = row.signal
      /\ more.draft = row.draft /\ more.review = row.review /\ more.batch = row.batch /\ more.plan = row.plan
      /\ more.closed = row.closed /\ more.merged = row.merged
  BY <1>1 DEF RowAgrees, Fields
<1>4. /\ DOMAIN bare = Fields /\ bare.requests = row.requests \cup {r} /\ bare.listing = row.listing
      /\ bare.snapshot = row.snapshot /\ bare.features = row.features /\ bare.signal = Nothing
      /\ bare.draft = row.draft /\ bare.review = row.review /\ bare.batch = row.batch /\ bare.plan = Nothing
      /\ bare.closed = row.closed /\ bare.merged = row.merged
  BY <1>2, <1>3 DEF Fields
<1>5. CASE r.choice = Nothing
  <2>1. Enqueued(row, r) = more
    BY <1>1, <1>5 DEF Enqueued
  <2>2. Signal(more) = Signal(row)
    BY <1>3, <1>5, ChoiceStays DEF Signal
  <2>3. RowAgrees(more)
    BY <1>3, <2>2 DEF RowAgrees
  <2>4. PlanOf(t, more) /\ (Live(more) <=> Live(row))
    BY <1>3 DEF PlanOf, Live, Part
  <2> QED BY <1>3, <2>1, <2>3, <2>4
<1>6. CASE r.choice # Nothing
  <2>1. Enqueued(row, r) = bare
    BY <1>1, <1>2, <1>6 DEF Enqueued
  <2>2. RowAgrees(bare)
    BY <1>4 DEF RowAgrees
  <2>3. PlanOf(t, bare) /\ (Live(bare) <=> Live(row))
    BY <1>4 DEF PlanOf, Live
  <2> QED BY <1>4, <2>1, <2>2, <2>3
<1> QED BY <1>5, <1>6

LEMMA RefreshedIs ==
    ASSUME NEW row, NEW t, RowAgrees(row), PlanOf(t, row)
    PROVE  Becomes(t, row, Refreshed(row))
<1>1. CASE Refreshed(row) = row
  BY <1>1 DEF Becomes, SameRow
<1>2. PICK new : new = [row EXCEPT !.signal = Signal(row), !.plan = Nothing, !.attached = @ \cup {Signal(row)}]
  OBVIOUS
<1>3. CASE Refreshed(row) = new
  <2>1. /\ DOMAIN new = Fields /\ new.requests = row.requests /\ new.listing = row.listing
        /\ new.snapshot = row.snapshot /\ new.features = row.features /\ new.signal = Signal(row)
        /\ new.draft = row.draft /\ new.review = row.review /\ new.batch = row.batch /\ new.plan = Nothing
        /\ new.closed = row.closed /\ new.merged = row.merged
    BY <1>2 DEF RowAgrees, Fields
  <2>2. Signal(new) = Signal(row)
    BY <2>1, SignalIs
  <2>3. RowAgrees(new)
    BY <2>1, <2>2 DEF RowAgrees
  <2>4. PlanOf(t, new) /\ SameRow(row, new)
    BY <2>1 DEF PlanOf, SameRow, Live
  <2> QED BY <1>3, <2>3, <2>4 DEF Becomes
<1> QED BY <1>1, <1>2, <1>3 DEF Refreshed

LEMMA UnderivedIs ==
    ASSUME NEW row, RowAgrees(row)
    PROVE  LET new == Underived(row) IN
           /\ DOMAIN new = Fields /\ new.requests = row.requests /\ new.listing = row.listing
           /\ new.snapshot = row.snapshot /\ new.features = Nothing /\ new.signal = Nothing
           /\ new.draft = Nothing /\ new.review = Nothing /\ new.batch = Nothing /\ new.plan = Nothing
           /\ new.closed = row.closed /\ new.merged = row.merged
BY DEF RowAgrees, Fields, Underived

LEMMA SynchronizedIs ==
    ASSUME NEW row, NEW t, RowAgrees(row), PlanOf(t, row)
    PROVE  Becomes(t, row, Synchronized(row)) /\ (~Live(row) => Synchronized(row) = row)
<1>1. PICK known : known = (row.job \in contacted)
  OBVIOUS
<1>2. PICK bare, told : /\ bare = [Underived(row) EXCEPT !.snapshot = 0, !.contacted = known]
                        /\ told = [row EXCEPT !.contacted = known]
  OBVIOUS
<1>3. /\ ~Live(row) => Synchronized(row) = row
      /\ Synchronized(row) \in {row, bare, told, Refreshed(row)}
  <2>1. ~Live(row) => Synchronized(row) = row
    BY Zenon DEF Synchronized
  <2>2. Synchronized(row) = IF ~Live(row) \/ row.job = Nothing THEN row
                            ELSE IF Stale(row) THEN bare
                            ELSE IF known # row.contacted THEN told
                            ELSE IF row.paused THEN row ELSE Refreshed(row)
    BY <1>1, <1>2, Zenon DEF Synchronized
  <2> QED BY <2>1, <2>2
<1>4. Becomes(t, row, row) /\ Becomes(t, row, Refreshed(row))
  BY RefreshedIs DEF Becomes, SameRow
<1>5. Becomes(t, row, bare)
  <2>1. /\ DOMAIN bare = Fields /\ bare.requests = row.requests /\ bare.listing = row.listing
        /\ bare.features = Nothing /\ bare.signal = Nothing
        /\ bare.draft = Nothing /\ bare.review = Nothing /\ bare.batch = Nothing /\ bare.plan = Nothing
        /\ bare.closed = row.closed /\ bare.merged = row.merged
    BY <1>2, UnderivedIs DEF Fields
  <2> QED BY <2>1 DEF Becomes, RowAgrees, PlanOf, SameRow, Live
<1>6. Becomes(t, row, told)
  <2>1. /\ DOMAIN told = Fields /\ told.requests = row.requests /\ told.listing = row.listing
        /\ told.snapshot = row.snapshot /\ told.features = row.features /\ told.signal = row.signal
        /\ told.draft = row.draft /\ told.review = row.review /\ told.batch = row.batch
        /\ told.plan = row.plan /\ told.closed = row.closed /\ told.merged = row.merged
    BY <1>2 DEF RowAgrees, Fields
  <2>2. Signal(told) = Signal(row)
    BY <2>1, SignalIs
  <2>3. RowAgrees(told)
    BY <2>1, <2>2 DEF RowAgrees
  <2>4. PlanOf(t, told) /\ SameRow(row, told)
    BY <2>1 DEF PlanOf, SameRow, Live, Part
  <2> QED BY <2>3, <2>4 DEF Becomes
<1> QED BY <1>3, <1>4, <1>5, <1>6

\* What two entries of a job asked stays together.
LEMMA UnitedIs ==
    ASSUME NEW target, NEW source, NEW t, RowAgrees(target), PlanOf(t, target)
    PROVE  LET new == United(target, source) IN
           /\ RowAgrees(new) /\ PlanOf(t, new) /\ new.requests = target.requests \cup source.requests
           /\ new.listing = target.listing /\ new.merged = target.merged /\ (Live(new) <=> Live(target))
<1>1. PICK all : all = [target EXCEPT !.requests = @ \cup source.requests]
  OBVIOUS
<1>2. PICK bare : bare = [all EXCEPT !.signal = Nothing, !.plan = Nothing]
  OBVIOUS
<1>3. /\ DOMAIN all = Fields /\ all.requests = target.requests \cup source.requests
      /\ all.listing = target.listing /\ all.snapshot = target.snapshot /\ all.features = target.features
      /\ all.signal = target.signal /\ all.draft = target.draft /\ all.review = target.review
      /\ all.batch = target.batch /\ all.plan = target.plan /\ all.closed = target.closed
      /\ all.merged = target.merged
  BY <1>1 DEF RowAgrees, Fields
<1>4. /\ DOMAIN bare = Fields /\ bare.requests = target.requests \cup source.requests
      /\ bare.listing = target.listing /\ bare.snapshot = target.snapshot /\ bare.features = target.features
      /\ bare.signal = Nothing /\ bare.draft = target.draft /\ bare.review = target.review
      /\ bare.batch = target.batch /\ bare.plan = Nothing /\ bare.closed = target.closed
      /\ bare.merged = target.merged
  BY <1>2, <1>3 DEF Fields
<1>5. CASE Choice(all.requests) = Choice(target.requests)
  <2>1. United(target, source) = all
    BY <1>1, <1>5 DEF United
  <2>2. Signal(all) = Signal(target)
    BY <1>3, <1>5 DEF Signal
  <2>3. RowAgrees(all)
    BY <1>3, <2>2 DEF RowAgrees
  <2>4. PlanOf(t, all) /\ (Live(all) <=> Live(target))
    BY <1>3 DEF PlanOf, Live, Part
  <2> QED BY <1>3, <2>1, <2>3, <2>4
<1>6. CASE Choice(all.requests) # Choice(target.requests)
  <2>1. United(target, source) = bare
    BY <1>1, <1>2, <1>6 DEF United
  <2>2. RowAgrees(bare)
    BY <1>4 DEF RowAgrees
  <2>3. PlanOf(t, bare) /\ (Live(bare) <=> Live(target))
    BY <1>4 DEF PlanOf, Live
  <2> QED BY <1>4, <2>1, <2>2, <2>3
<1> QED BY <1>5, <1>6

\* A row that keeps what a plan is made of, or loses the plan, and is no more open than it was.
LEMMA StaysPlanned ==
    ASSUME NEW row, NEW t, PlanOf(t, row), NEW new, Live(new) => Live(row),
           \/ new.plan = Nothing
           \/ /\ new.plan = row.plan /\ new.snapshot = row.snapshot
              /\ new.features = row.features /\ new.signal = row.signal
    PROVE  PlanOf(t, new)
BY DEF PlanOf, Part

LEMMA SnapshotAttached ==
    ASSUME NEW row, NEW t, RowAgrees(row), PlanOf(t, row), Live(row), NEW j, NEW n
    PROVE  Becomes(t, row, [Underived(row) EXCEPT !.job = j, !.snapshot = n])
<1>1. PICK new : new = [Underived(row) EXCEPT !.job = j, !.snapshot = n]
  OBVIOUS
<1>2. /\ DOMAIN new = Fields /\ new.requests = row.requests /\ new.listing = row.listing
      /\ new.features = Nothing /\ new.signal = Nothing
      /\ new.draft = Nothing /\ new.review = Nothing /\ new.batch = Nothing /\ new.plan = Nothing
      /\ new.closed = row.closed /\ new.merged = row.merged
  BY <1>1, UnderivedIs DEF Fields
<1> QED BY <1>1, <1>2 DEF Becomes, RowAgrees, PlanOf, SameRow, Live

LEMMA Factorized ==
    ASSUME NEW row, NEW t, RowAgrees(row), PlanOf(t, row), Live(row), NEW policy, row.snapshot # 0
    PROVE  LET new == [row EXCEPT !.features = policy, !.plan = Nothing] IN
           Becomes(t, row, [new EXCEPT !.signal = Signal(new)])
<1>1. PICK more : more = [row EXCEPT !.features = policy, !.plan = Nothing]
  OBVIOUS
<1>2. PICK new : new = [more EXCEPT !.signal = Signal(more)]
  OBVIOUS
<1>3. /\ DOMAIN more = Fields /\ more.requests = row.requests /\ more.listing = row.listing
      /\ more.snapshot = row.snapshot /\ more.features = policy
      /\ more.draft = row.draft /\ more.review = row.review /\ more.batch = row.batch
      /\ more.plan = Nothing /\ more.closed = row.closed /\ more.merged = row.merged
  BY <1>1 DEF RowAgrees, Fields
<1>4. /\ DOMAIN new = Fields /\ new.requests = row.requests /\ new.listing = row.listing
      /\ new.snapshot = row.snapshot /\ new.features = policy /\ new.signal = Signal(more)
      /\ new.draft = row.draft /\ new.review = row.review /\ new.batch = row.batch
      /\ new.plan = Nothing /\ new.closed = row.closed /\ new.merged = row.merged
  BY <1>2, <1>3 DEF Fields
<1>5. Signal(new) = Signal(more)
  BY <1>3, <1>4, SignalIs
<1>6. RowAgrees(new)
  BY <1>4, <1>5 DEF RowAgrees
<1>7. PlanOf(t, new) /\ SameRow(row, new)
  BY <1>4 DEF PlanOf, SameRow, Live
<1> QED BY <1>1, <1>2, <1>6, <1>7 DEF Becomes

Interested(row, said, more, new) ==
    /\ more = [row EXCEPT !.requests = @ \cup {said}, !.plan = Nothing]
    /\ new = [more EXCEPT !.signal = Signal(more)]

LEMMA InterestSet ==
    ASSUME NEW row, NEW t, RowAgrees(row), PlanOf(t, row), Live(row), NEW said, NEW more, NEW new,
           Interested(row, said, more, new)
    PROVE  /\ RowAgrees(new) /\ PlanOf(t, new) /\ new.requests = row.requests \cup {said}
           /\ new.listing = row.listing /\ new.merged = row.merged
<1>1. /\ DOMAIN more = Fields /\ more.requests = row.requests \cup {said} /\ more.listing = row.listing
      /\ more.snapshot = row.snapshot /\ more.features = row.features
      /\ more.draft = row.draft /\ more.review = row.review /\ more.batch = row.batch
      /\ more.plan = Nothing /\ more.closed = row.closed /\ more.merged = row.merged
  BY DEF RowAgrees, Fields, Interested
<1>2. /\ DOMAIN new = Fields /\ new.requests = row.requests \cup {said} /\ new.listing = row.listing
      /\ new.snapshot = row.snapshot /\ new.features = row.features /\ new.signal = Signal(more)
      /\ new.draft = row.draft /\ new.review = row.review /\ new.batch = row.batch
      /\ new.plan = Nothing /\ new.closed = row.closed /\ new.merged = row.merged
  BY <1>1 DEF Fields, Interested
<1>3. Signal(new) = Signal(more)
  BY <1>1, <1>2, SignalIs
<1>4. RowAgrees(new)
  BY <1>2, <1>3 DEF RowAgrees
<1>5. PlanOf(t, new)
  BY <1>2 DEF PlanOf
<1> QED BY <1>2, <1>4, <1>5

LEMMA DraftSubmitted ==
    ASSUME NEW row, NEW t, RowAgrees(row), PlanOf(t, row), Live(row), NEW text, NEW by, row.snapshot # 0
    PROVE  Becomes(t, row, Drafted(row, text, by))
<1>1. PICK draft : draft = [text |-> text, snapshot |-> row.snapshot, by |-> by]
  OBVIOUS
<1>2. PICK new : new = [row EXCEPT !.draft = draft, !.review = Nothing, !.batch = Nothing]
  OBVIOUS
<1>3. /\ DOMAIN new = Fields /\ new.requests = row.requests /\ new.listing = row.listing
      /\ new.snapshot = row.snapshot /\ new.features = row.features /\ new.signal = row.signal
      /\ new.draft = draft /\ new.review = Nothing /\ new.batch = Nothing
      /\ new.plan = row.plan /\ new.closed = row.closed /\ new.merged = row.merged
  BY <1>2 DEF RowAgrees, Fields
<1>4. Signal(new) = Signal(row) /\ draft.snapshot = row.snapshot
  BY <1>1, <1>3, SignalIs
<1>5. RowAgrees(new)
  BY <1>3, <1>4 DEF RowAgrees
<1>6. PlanOf(t, new) /\ SameRow(row, new)
  BY <1>3, StaysPlanned DEF SameRow, Live
<1>7. Drafted(row, text, by) = new
  BY <1>1, <1>2 DEF Drafted
<1> QED BY <1>5, <1>6, <1>7 DEF Becomes

LEMMA DraftReviewed ==
    ASSUME NEW row, NEW t, RowAgrees(row), PlanOf(t, row), Live(row), NEW by, NEW accepted,
           row.draft # Nothing, row.draft.by # by
    PROVE  Becomes(t, row, [row EXCEPT !.batch = Nothing,
                               !.review = [text |-> row.draft.text, snapshot |-> row.snapshot, by |-> by,
                                           accepted |-> accepted]])
<1>1. PICK review : review = [text |-> row.draft.text, snapshot |-> row.snapshot, by |-> by,
                              accepted |-> accepted]
  OBVIOUS
<1>2. PICK new : new = [row EXCEPT !.batch = Nothing, !.review = review]
  OBVIOUS
<1>3. /\ DOMAIN new = Fields /\ new.requests = row.requests /\ new.listing = row.listing
      /\ new.snapshot = row.snapshot /\ new.features = row.features /\ new.signal = row.signal
      /\ new.draft = row.draft /\ new.review = review /\ new.batch = Nothing
      /\ new.plan = row.plan /\ new.closed = row.closed /\ new.merged = row.merged
  BY <1>2 DEF RowAgrees, Fields
<1>4. /\ Signal(new) = Signal(row)
      /\ review.text = row.draft.text /\ review.snapshot = row.snapshot /\ review.by = by
  BY <1>1, <1>3, SignalIs
<1>5. RowAgrees(new)
  BY <1>3, <1>4 DEF RowAgrees
<1>6. PlanOf(t, new) /\ SameRow(row, new)
  BY <1>3, StaysPlanned DEF SameRow, Live
<1> QED BY <1>1, <1>2, <1>5, <1>6 DEF Becomes

LEMMA BatchAttached ==
    ASSUME NEW row, NEW t, RowAgrees(row), PlanOf(t, row), Live(row), NEW item,
           row.review # Nothing, row.review.accepted,
           item.text = row.draft.text, item.posting = row.snapshot
    PROVE  Becomes(t, row, [row EXCEPT !.batch = item])
<1>1. PICK new : new = [row EXCEPT !.batch = item]
  OBVIOUS
<1>2. /\ DOMAIN new = Fields /\ new.requests = row.requests /\ new.listing = row.listing
      /\ new.snapshot = row.snapshot /\ new.features = row.features /\ new.signal = row.signal
      /\ new.draft = row.draft /\ new.review = row.review /\ new.batch = item
      /\ new.plan = row.plan /\ new.closed = row.closed /\ new.merged = row.merged
  BY <1>1 DEF RowAgrees, Fields
<1>3. Signal(new) = Signal(row)
  BY <1>2, SignalIs
<1>4. RowAgrees(new)
  BY <1>2, <1>3 DEF RowAgrees
<1>5. PlanOf(t, new) /\ SameRow(row, new)
  BY <1>2, StaysPlanned DEF SameRow, Live
<1> QED BY <1>1, <1>4, <1>5 DEF Becomes

\* Of a live row: paused or closed, resolved, merged away, or named by a plan made of it.
LEMMA Controlled ==
    ASSUME NEW row, NEW t, RowAgrees(row), PlanOf(t, row), Live(row), NEW paused, NEW closed
    PROVE  Becomes(t, row, [row EXCEPT !.paused = paused, !.closed = closed])
<1>1. PICK new : new = [row EXCEPT !.paused = paused, !.closed = closed]
  OBVIOUS
<1>2. /\ DOMAIN new = Fields /\ new.requests = row.requests /\ new.listing = row.listing
      /\ new.snapshot = row.snapshot /\ new.features = row.features /\ new.signal = row.signal
      /\ new.draft = row.draft /\ new.review = row.review /\ new.batch = row.batch
      /\ new.plan = row.plan /\ new.merged = row.merged
  BY <1>1 DEF RowAgrees, Fields
<1>3. Signal(new) = Signal(row)
  BY <1>2, SignalIs
<1>4. RowAgrees(new)
  BY <1>2, <1>3 DEF RowAgrees
<1>5. PlanOf(t, new) /\ SameRow(row, new)
  BY <1>2, StaysPlanned DEF SameRow
<1> QED BY <1>1, <1>4, <1>5 DEF Becomes

Resolved(row, listing, job, known, new) ==
    new = [row EXCEPT !.listing = listing, !.job = job, !.contacted = known]

LEMMA ResolvedIs ==
    ASSUME NEW row, NEW t, RowAgrees(row), PlanOf(t, row), Live(row), NEW listing, NEW job, NEW known, NEW new,
           Resolved(row, listing, job, known, new)
    PROVE  /\ RowAgrees(new) /\ PlanOf(t, new) /\ new.requests = row.requests /\ new.listing = listing
           /\ new.merged = row.merged
<1>2. /\ DOMAIN new = Fields /\ new.requests = row.requests /\ new.listing = listing
      /\ new.snapshot = row.snapshot /\ new.features = row.features /\ new.signal = row.signal
      /\ new.draft = row.draft /\ new.review = row.review /\ new.batch = row.batch
      /\ new.plan = row.plan /\ new.closed = row.closed /\ new.merged = row.merged
  BY DEF Resolved, RowAgrees, Fields
<1>3. Signal(new) = Signal(row)
  BY <1>2, SignalIs
<1>4. RowAgrees(new)
  BY <1>2, <1>3 DEF RowAgrees
<1>5. PlanOf(t, new)
  BY <1>2, StaysPlanned
<1> QED BY <1>2, <1>4, <1>5

LEMMA MergedIs ==
    ASSUME NEW row, NEW t, RowAgrees(row), NEW u, u # Nothing
    PROVE  LET new == [row EXCEPT !.merged = u] IN
           RowAgrees(new) /\ PlanOf(t, new) /\ new.merged = u /\ ~Live(new)
<1>1. PICK new : new = [row EXCEPT !.merged = u]
  OBVIOUS
<1>2. /\ DOMAIN new = Fields /\ new.requests = row.requests
      /\ new.snapshot = row.snapshot /\ new.features = row.features /\ new.signal = row.signal
      /\ new.draft = row.draft /\ new.review = row.review /\ new.batch = row.batch
      /\ new.plan = row.plan /\ new.merged = u
  BY <1>1 DEF RowAgrees, Fields
<1>3. Signal(new) = Signal(row)
  BY <1>2, SignalIs
<1>4. RowAgrees(new)
  BY <1>2, <1>3 DEF RowAgrees
<1>5. ~Live(new)
  BY <1>2 DEF Live
<1> QED BY <1>1, <1>2, <1>4, <1>5 DEF PlanOf

LEMMA Planned ==
    ASSUME NEW row, NEW t, RowAgrees(row), row.features # Nothing, Live(row), NEW plan,
           t \in DOMAIN plan.samples, plan.samples[t] = Part(row)
    PROVE  Becomes(t, row, [row EXCEPT !.plan = plan])
<1>1. PICK new : new = [row EXCEPT !.plan = plan]
  OBVIOUS
<1>2. /\ DOMAIN new = Fields /\ new.requests = row.requests /\ new.listing = row.listing
      /\ new.snapshot = row.snapshot /\ new.features = row.features /\ new.signal = row.signal
      /\ new.draft = row.draft /\ new.review = row.review /\ new.batch = row.batch
      /\ new.plan = plan /\ new.closed = row.closed /\ new.merged = row.merged
  BY <1>1 DEF RowAgrees, Fields
<1>3. Signal(new) = Signal(row)
  BY <1>2, SignalIs
<1>4. RowAgrees(new)
  BY <1>2, <1>3 DEF RowAgrees
<1>5. PlanOf(t, new) /\ SameRow(row, new)
  BY <1>2 DEF PlanOf, SameRow, Live, Part
<1> QED BY <1>1, <1>4, <1>5 DEF Becomes

----
(* The rows together. *)

RowTypes ==
    /\ Queued \subseteq Targets /\ rows = [t \in Queued |-> rows[t]]
    /\ occasion \in Occasions /\ filed = [r \in occasion.says |-> filed[r]]
    /\ resolving = [p \in Resolvers |-> resolving[p]]

RowsAgree == \A t \in Queued : RowAgrees(rows[t]) /\ PlanOf(t, rows[t])

\* A request is where its index says, and an entry that is no alias has no others.
RequestsSound ==
    /\ \A r \in occasion.says : filed[r] # Nothing =>
           filed[r] \in Queued /\ rows[filed[r]].merged = Nothing /\ r \in rows[filed[r]].requests
    /\ \A t \in Queued, r \in occasion.says :
           rows[t].merged = Nothing /\ r \in rows[t].requests => filed[r] = t

\* What resolve has read was open, and the entries are two.
ResolvingSound ==
    \A p \in Resolvers : resolving[p] # Nothing =>
        LET found == resolving[p] IN
        /\ found.target \in Queued /\ Live(found.row)
        /\ found.twin # Nothing =>
               found.twin \in Queued /\ found.twin # found.target /\ Live(found.twinRow)

RowInvariant == RowTypes /\ RowsAgree /\ RequestsSound /\ ResolvingSound

ClosedStay == \A t \in Queued : ~Live(rows[t]) => rows'[t] = rows[t]

\* No row comes to a listing but by being resolved.
ListingsStay ==
    \A t \in DOMAIN rows' : Live(rows'[t]) =>
        \/ rows'[t].listing = Nothing
        \/ t \in Queued /\ Live(rows[t]) /\ rows'[t].listing = rows[t].listing

LEMMA RowIs ==
    ASSUME RowInvariant, NEW t \in Queued
    PROVE  RowAgrees(rows[t]) /\ PlanOf(t, rows[t]) /\ t \in Targets /\ t # Nothing
BY IntakeSorts DEF RowInvariant, RowTypes, RowsAgree

LEMMA ResolvingKept ==
    ASSUME RowInvariant, Queued \subseteq DOMAIN rows', UNCHANGED resolving
    PROVE  ResolvingSound' /\ resolving' = [p \in Resolvers |-> resolving'[p]]
BY DEF RowInvariant, RowTypes, ResolvingSound, Queued

\* Rows that stay rows of their requests.
LEMMA RowsBecome ==
    ASSUME RowInvariant, rows' = [t \in Queued |-> rows'[t]],
           \A t \in Queued : /\ RowAgrees(rows'[t]) /\ PlanOf(t, rows'[t])
                             /\ rows'[t].merged = rows[t].merged
                             /\ \A r \in occasion.says : r \in rows'[t].requests <=> r \in rows[t].requests,
           UNCHANGED <<filed, occasion>>,
           ResolvingSound', resolving' = [p \in Resolvers |-> resolving'[p]]
    PROVE  RowInvariant'
<1>1. DOMAIN rows' = Queued
  BY DEF Queued
<1>2. RowTypes'
  BY <1>1 DEF RowInvariant, RowTypes, Queued
<1>3. RowsAgree'
  BY <1>1 DEF RowsAgree, Queued
<1>4. RequestsSound'
  BY <1>1 DEF RowInvariant, RequestsSound, Queued
<1> QED BY <1>2, <1>3, <1>4 DEF RowInvariant

LEMMA WriteKeeps ==
    ASSUME RowInvariant, NEW t \in Queued, Live(rows[t]), NEW new, Write(t, new),
           RowAgrees(new), PlanOf(t, new), new.merged = rows[t].merged, new.listing = rows[t].listing,
           \A r \in occasion.says : r \in new.requests <=> r \in rows[t].requests
    PROVE  RowInvariant' /\ ClosedStay /\ ListingsStay
<1>1. /\ rows' = [rows EXCEPT ![t] = new]
      /\ UNCHANGED <<filed, occasion, resolving>>
  BY DEF Write, worldVars, resolveVars
<1>2. rows = [u \in Queued |-> rows[u]]
  BY DEF RowInvariant, RowTypes
<1>3. /\ rows' = [u \in Queued |-> rows'[u]] /\ DOMAIN rows' = Queued
      /\ rows'[t] = new /\ \A u \in Queued \ {t} : rows'[u] = rows[u]
  BY <1>1, <1>2
<1>4. ResolvingSound' /\ resolving' = [p \in Resolvers |-> resolving'[p]]
  BY <1>1, <1>3, ResolvingKept
<1>5. RowInvariant'
  <2>1. ASSUME NEW u \in Queued
        PROVE  /\ RowAgrees(rows'[u]) /\ PlanOf(u, rows'[u])
               /\ rows'[u].merged = rows[u].merged
               /\ \A r \in occasion.says : r \in rows'[u].requests <=> r \in rows[u].requests
    BY <1>3, RowIs
  <2> QED BY <1>1, <1>3, <1>4, <2>1, RowsBecome
<1>6. ClosedStay
  BY <1>3 DEF ClosedStay
<1>7. ListingsStay
  BY <1>3 DEF ListingsStay
<1> QED BY <1>5, <1>6, <1>7

LEMMA WriteBecomes ==
    ASSUME RowInvariant, NEW t \in Queued, Live(rows[t]), NEW new, Write(t, new), Becomes(t, rows[t], new)
    PROVE  RowInvariant' /\ ClosedStay /\ ListingsStay
BY WriteKeeps DEF Becomes, SameRow

LEMMA OutsideKeeps ==
    ASSUME RowInvariant, UNCHANGED <<rows, filed, occasion, resolving>>
    PROVE  RowInvariant' /\ ClosedStay /\ ListingsStay
<1>1. RowInvariant'
  <2>1. rows' = [t \in Queued |-> rows'[t]] /\ DOMAIN rows' = Queued
    BY DEF RowInvariant, RowTypes, Queued
  <2>2. ResolvingSound' /\ resolving' = [p \in Resolvers |-> resolving'[p]]
    BY <2>1, ResolvingKept
  <2> QED BY <2>1, <2>2, RowIs, RowsBecome
<1>2. ClosedStay /\ ListingsStay
  BY DEF ClosedStay, ListingsStay, Queued
<1> QED BY <1>1, <1>2

LEMMA EnqueueKeeps ==
    ASSUME RowInvariant, NEW r \in occasion.says, NEW finished \in BOOLEAN, Enqueue(r, finished)
    PROVE  RowInvariant' /\ ClosedStay /\ ListingsStay
<1>1. PICK t : t = r.target
  OBVIOUS
<1>2. PICK row : row = IF t \in Queued THEN Enqueued(rows[t], r) ELSE New(r)
  OBVIOUS
<1>3. PICK new : new = IF finished THEN Synchronized(row) ELSE row
  OBVIOUS
<1>4. /\ filed[r] = Nothing /\ (t \in Queued => Live(rows[t]))
      /\ rows' = [u \in Queued \cup {t} |-> IF u # t THEN rows[u] ELSE new]
      /\ filed' = [filed EXCEPT ![r] = t] /\ UNCHANGED <<occasion, resolving>>
  BY <1>1, <1>2, <1>3, Zenon DEF Enqueue, worldVars, resolveVars
<1>5. t \in Targets /\ t # Nothing
  BY <1>1, IntakeSorts DEF RowInvariant, RowTypes
<1>6. /\ RowAgrees(row) /\ PlanOf(t, row) /\ row.merged = Nothing
      /\ row.requests = (IF t \in Queued THEN rows[t].requests ELSE {}) \cup {r}
      /\ row.listing = IF t \in Queued THEN rows[t].listing ELSE Nothing
  <2>1. CASE t \in Queued
    <3>1. RowAgrees(rows[t]) /\ PlanOf(t, rows[t]) /\ rows[t].merged = Nothing
      BY <1>4, <2>1, RowIs DEF Live
    <3> QED BY <1>2, <2>1, <3>1, EnqueuedIs
  <2>2. CASE t \notin Queued
    BY <1>2, <2>2, NewIs
  <2> QED BY <2>1, <2>2
<1>7. /\ RowAgrees(new) /\ PlanOf(t, new) /\ new.merged = Nothing /\ new.requests = row.requests
      /\ new.listing = row.listing
  BY <1>3, <1>6, SynchronizedIs DEF Becomes, SameRow
<1>8. /\ DOMAIN rows' = Queued \cup {t} /\ rows'[t] = new /\ \A u \in Queued \ {t} : rows'[u] = rows[u]
      /\ rows' = [u \in Queued \cup {t} |-> rows'[u]]
  BY <1>4
<1>9. filed' = [s \in occasion.says |-> filed'[s]] /\ filed'[r] = t
      /\ \A s \in occasion.says \ {r} : filed'[s] = filed[s]
  BY <1>4 DEF RowInvariant, RowTypes
<1>10. RowTypes'
  BY <1>4, <1>5, <1>8, <1>9 DEF RowInvariant, RowTypes, Queued
<1>11. RowsAgree'
  BY <1>7, <1>8, RowIs DEF RowsAgree, Queued
<1>12. RequestsSound'
  <2>1. ASSUME NEW s \in occasion.says, filed'[s] # Nothing
        PROVE  /\ filed'[s] \in DOMAIN rows' /\ rows'[filed'[s]].merged = Nothing
               /\ s \in rows'[filed'[s]].requests
    <3>1. CASE s = r
      BY <1>6, <1>7, <1>8, <1>9, <3>1
    <3>2. CASE s # r
      <4>1. PICK u : u = filed[s]
        OBVIOUS
      <4>2. /\ filed'[s] = u /\ u \in Queued /\ rows[u].merged = Nothing /\ s \in rows[u].requests
        BY <1>9, <2>1, <3>2, <4>1 DEF RowInvariant, RequestsSound
      <4>3. CASE u = t
        BY <1>6, <1>7, <1>8, <4>2, <4>3
      <4>4. CASE u # t
        BY <1>8, <4>2, <4>4
      <4> QED BY <4>3, <4>4
    <3> QED BY <3>1, <3>2
  <2>2. ASSUME NEW u \in DOMAIN rows', NEW s \in occasion.says, rows'[u].merged = Nothing,
               s \in rows'[u].requests
        PROVE  filed'[s] = u
    <3>1. CASE u # t
      <4>1. u \in Queued /\ rows'[u] = rows[u]
        BY <1>8, <3>1
      <4>2. filed[s] = u
        BY <2>2, <4>1 DEF RowInvariant, RequestsSound
      <4>3. s # r
        BY <1>4, <4>1, <4>2, RowIs
      <4> QED BY <1>9, <4>2, <4>3
    <3>2. CASE u = t /\ s = r
      BY <1>9, <3>2
    <3>3. CASE u = t /\ s # r
      <4>1. t \in Queued /\ s \in rows[t].requests
        BY <1>6, <1>7, <1>8, <2>2, <3>3
      <4>2. rows[t].merged = Nothing
        BY <1>4, <4>1 DEF Live
      <4>3. filed[s] = t
        BY <4>1, <4>2 DEF RowInvariant, RequestsSound
      <4> QED BY <1>9, <3>3, <4>3
    <3> QED BY <3>1, <3>2, <3>3
  <2> QED BY <1>4, <2>1, <2>2 DEF RequestsSound, Queued
<1>13. ResolvingSound'
  BY <1>4, <1>8, ResolvingKept
<1>14. RowInvariant'
  BY <1>10, <1>11, <1>12, <1>13 DEF RowInvariant
<1>15. ClosedStay
  BY <1>4, <1>8 DEF ClosedStay
<1>16. ListingsStay
  BY <1>4, <1>6, <1>7, <1>8 DEF ListingsStay
<1> QED BY <1>14, <1>15, <1>16

LEMMA SynchronizeKeeps ==
    ASSUME RowInvariant, NEW t \in Targets, Synchronize(t)
    PROVE  RowInvariant' /\ ClosedStay /\ ListingsStay
<1>1. t \in Queued /\ Synchronized(rows[t]) # rows[t] /\ Write(t, Synchronized(rows[t]))
  BY DEF Synchronize
<1>2. Becomes(t, rows[t], Synchronized(rows[t])) /\ Live(rows[t])
  BY <1>1, RowIs, SynchronizedIs
<1> QED BY <1>1, <1>2, WriteBecomes

LEMMA AttachSnapshotKeeps ==
    ASSUME RowInvariant, NEW t \in Targets, NEW j \in Jobs, AttachSnapshot(t, j)
    PROVE  RowInvariant' /\ ClosedStay /\ ListingsStay
<1>1. /\ t \in Queued /\ Live(rows[t])
      /\ Write(t, [Underived(rows[t]) EXCEPT !.job = j, !.snapshot = Len(shots[j])])
  BY DEF AttachSnapshot, Ready
<1> QED BY <1>1, RowIs, SnapshotAttached, WriteBecomes

LEMMA FactorizeKeeps ==
    ASSUME RowInvariant, NEW t \in Targets, NEW policy \in Policies, Factorize(t, policy)
    PROVE  RowInvariant' /\ ClosedStay /\ ListingsStay
<1>1. PICK more : more = [rows[t] EXCEPT !.features = policy, !.plan = Nothing]
  OBVIOUS
<1>2. /\ t \in Queued /\ Live(rows[t]) /\ rows[t].snapshot # 0
      /\ Write(t, [more EXCEPT !.signal = Signal(more)])
  BY <1>1, Zenon DEF Factorize, Ready, Bound
<1>3. Becomes(t, rows[t], [more EXCEPT !.signal = Signal(more)])
  BY <1>1, <1>2, RowIs, Factorized
<1> QED BY <1>2, <1>3, WriteBecomes

LEMMA SetInterestKeeps ==
    ASSUME RowInvariant, NEW t \in Targets, NEW i \in occasion.adds, SetInterest(t, i)
    PROVE  RowInvariant' /\ ClosedStay /\ ListingsStay
<1>1. PICK wanted : wanted = (\E r \in rows[t].requests : r.draft)
  OBVIOUS
<1>2. PICK said : said = [id |-> i.id, target |-> t, at |-> i.at, choice |-> i.choice, draft |-> wanted]
  OBVIOUS
<1>3. PICK more : more = [rows[t] EXCEPT !.requests = @ \cup {said}, !.plan = Nothing]
  OBVIOUS
<1>4. PICK new : new = [more EXCEPT !.signal = Signal(more)]
  OBVIOUS
<1>5. /\ t \in Queued /\ Live(rows[t]) /\ Write(t, new)
  BY <1>1, <1>2, <1>3, <1>4, Zenon DEF SetInterest, Ready
<1>6. /\ RowAgrees(new) /\ PlanOf(t, new) /\ new.requests = rows[t].requests \cup {said}
      /\ new.listing = rows[t].listing /\ new.merged = rows[t].merged
  <2>1. RowAgrees(rows[t]) /\ PlanOf(t, rows[t])
    BY <1>5, RowIs
  <2>2. Interested(rows[t], said, more, new)
    BY <1>3, <1>4 DEF Interested
  <2>3. Live(rows[t])
    BY <1>5
  <2> QED BY <2>1, <2>2, <2>3, InterestSet
<1>7. said \notin occasion.says
  <2>1. said.id = i.id
    BY <1>2
  <2>2. \A r \in occasion.says : r.id # i.id
    BY IntakeSorts DEF RowInvariant, RowTypes
  <2> QED BY <2>1, <2>2
<1> QED BY <1>5, <1>6, <1>7, WriteKeeps

LEMMA SubmitDraftKeeps ==
    ASSUME RowInvariant, NEW t \in Targets, NEW text \in Openings, NEW by \in People, SubmitDraft(t, text, by)
    PROVE  RowInvariant' /\ ClosedStay /\ ListingsStay
<1>1. t \in Queued /\ Live(rows[t]) /\ rows[t].snapshot # 0 /\ Write(t, Drafted(rows[t], text, by))
  BY DEF SubmitDraft, Ready, Draftable, Bound
<1> QED BY <1>1, RowIs, DraftSubmitted, WriteBecomes

LEMMA ReviewDraftKeeps ==
    ASSUME RowInvariant, NEW t \in Targets, NEW by \in People, NEW accepted \in BOOLEAN,
           ReviewDraft(t, by, accepted)
    PROVE  RowInvariant' /\ ClosedStay /\ ListingsStay
<1>1. PICK new : new = [rows[t] EXCEPT !.batch = Nothing,
                           !.review = [text |-> rows[t].draft.text, snapshot |-> rows[t].snapshot,
                                       by |-> by, accepted |-> accepted]]
  OBVIOUS
<1>2. /\ t \in Queued /\ Live(rows[t]) /\ rows[t].draft # Nothing /\ rows[t].draft.by # by /\ Write(t, new)
  BY <1>1, Zenon DEF ReviewDraft, Ready
<1>3. Becomes(t, rows[t], new)
  BY <1>1, <1>2, RowIs, DraftReviewed
<1> QED BY <1>2, <1>3, WriteBecomes

LEMMA AttachBatchKeeps ==
    ASSUME RowInvariant, NEW t \in Targets, NEW item, AttachBatch(t, item)
    PROVE  RowInvariant' /\ ClosedStay /\ ListingsStay
<1>1. /\ t \in Queued /\ Live(rows[t]) /\ rows[t].review # Nothing /\ rows[t].review.accepted
      /\ Draftable(rows[t]) /\ Write(t, [rows[t] EXCEPT !.batch = item])
      /\ item = [job |-> rows[t].job, text |-> rows[t].draft.text, posting |-> stored[rows[t].job]]
  BY Zenon DEF AttachBatch, Ready
<1>2. item.text = rows[t].draft.text /\ item.posting = rows[t].snapshot
  BY <1>1 DEF Draftable, Bound
<1>3. Becomes(t, rows[t], [rows[t] EXCEPT !.batch = item])
  BY <1>1, <1>2, RowIs, BatchAttached
<1> QED BY <1>1, <1>3, WriteBecomes

LEMMA ControlKeeps ==
    ASSUME RowInvariant, NEW t \in Targets, NEW action, Control(t, action)
    PROVE  RowInvariant' /\ ClosedStay /\ ListingsStay
<1>1. PICK paused, closed : paused = (action = "pause") /\ closed = (action = "close")
  OBVIOUS
<1>2. t \in Queued /\ Live(rows[t]) /\ Write(t, [rows[t] EXCEPT !.paused = paused, !.closed = closed])
  BY <1>1, Zenon DEF Control
<1>3. Becomes(t, rows[t], [rows[t] EXCEPT !.paused = paused, !.closed = closed])
  BY <1>2, RowIs, Controlled
<1> QED BY <1>2, <1>3, WriteBecomes

\* Readings are of before.
ResolvingStays == \A p \in Resolvers : resolving'[p] # Nothing => resolving'[p] = resolving[p]

LEMMA ResolveReadKeeps ==
    ASSUME RowInvariant, NEW p \in Resolvers, NEW t \in Targets, NEW j \in Jobs, ResolveRead(p, t, j)
    PROVE  RowInvariant' /\ ClosedStay
<1>1. PICK cached, known : cached = (stored[j] # 0) /\ known = (j \in contacted)
  OBVIOUS
<1>2. PICK twin \in Twins(t, j) \cup {Nothing} :
          resolving' = [resolving EXCEPT ![p] =
              [target |-> t, row |-> rows[t], job |-> j, twin |-> twin, cached |-> cached,
               twinRow |-> IF twin = Nothing THEN Nothing ELSE rows[twin], contacted |-> known]]
  BY <1>1, Zenon DEF ResolveRead
<1>3. PICK twinRow : twinRow = IF twin = Nothing THEN Nothing ELSE rows[twin]
  OBVIOUS
<1>4. PICK found : found = [target |-> t, row |-> rows[t], job |-> j, twin |-> twin, cached |-> cached,
                            twinRow |-> twinRow, contacted |-> known]
  OBVIOUS
<1>5. found.target = t /\ found.row = rows[t] /\ found.twin = twin /\ found.twinRow = twinRow
  BY <1>4
<1>6. resolving' = [resolving EXCEPT ![p] = found]
  BY <1>2, <1>3, <1>4, Zenon
<1>7. /\ resolving' = [q \in Resolvers |-> resolving'[q]]
      /\ resolving'[p] = found /\ \A q \in Resolvers \ {p} : resolving'[q] = resolving[q]
  <2>1. resolving = [q \in Resolvers |-> resolving[q]]
    BY DEF RowInvariant, RowTypes
  <2> QED BY <1>6, <2>1
<1>8. UNCHANGED <<rows, filed, occasion>> /\ t \in Queued /\ Live(rows[t])
  BY DEF ResolveRead, worldVars, resolveVars, Ready
<1>9. twin # Nothing => twin \in Queued /\ twin # t /\ Live(rows[twin]) /\ twinRow = rows[twin]
  BY <1>2, <1>3 DEF Twins
<1>10. ResolvingSound'
  BY <1>5, <1>7, <1>8, <1>9 DEF RowInvariant, ResolvingSound, Queued
<1>11. rows' = [u \in Queued |-> rows'[u]]
  BY <1>8 DEF RowInvariant, RowTypes
<1>12. RowInvariant'
  BY <1>7, <1>8, <1>10, <1>11, RowIs, RowsBecome
<1>13. ClosedStay
  BY <1>8 DEF ClosedStay
<1> QED BY <1>12, <1>13

\* A process lays down what it has read.
LEMMA ResolvingLaid ==
    ASSUME RowInvariant, NEW p \in Resolvers, resolving' = [resolving EXCEPT ![p] = Nothing],
           Queued \subseteq DOMAIN rows'
    PROVE  /\ ResolvingSound' /\ resolving' = [q \in Resolvers |-> resolving'[q]]
           /\ ResolvingStays
<1>1. /\ resolving' = [q \in Resolvers |-> resolving'[q]]
      /\ resolving'[p] = Nothing /\ \A q \in Resolvers \ {p} : resolving'[q] = resolving[q]
  BY DEF RowInvariant, RowTypes
<1>2. ResolvingStays
  BY <1>1 DEF ResolvingStays
<1> QED BY <1>1, <1>2 DEF RowInvariant, ResolvingSound, Queued

LEMMA ResolveEndsKeeps ==
    ASSUME RowInvariant, NEW p \in Resolvers, ResolveEnds(p)
    PROVE  RowInvariant' /\ ClosedStay /\ ListingsStay /\ ResolvingStays
<1>1. resolving' = [resolving EXCEPT ![p] = Nothing] /\ UNCHANGED <<rows, filed, occasion>>
  BY DEF ResolveEnds, worldVars, resolveVars
<1>2. rows' = [u \in Queued |-> rows'[u]] /\ DOMAIN rows' = Queued
  BY <1>1 DEF RowInvariant, RowTypes, Queued
<1>3. /\ ResolvingSound' /\ resolving' = [q \in Resolvers |-> resolving'[q]] /\ ResolvingStays
  BY <1>1, <1>2, ResolvingLaid
<1>4. RowInvariant'
  BY <1>1, <1>2, <1>3, RowIs, RowsBecome
<1>5. ClosedStay /\ ListingsStay
  BY <1>1 DEF ClosedStay, ListingsStay, Queued
<1> QED BY <1>3, <1>4, <1>5

LEMMA ResolveCommitKeeps ==
    ASSUME RowInvariant, NEW p \in Resolvers, ResolveCommit(p)
    PROVE  /\ RowInvariant' /\ ClosedStay /\ ResolvingStays
           /\ resolving[p] # Nothing /\ resolving[p].twin = Nothing
           /\ resolving[p].target \in Queued /\ DOMAIN rows' = Queued
           /\ rows'[resolving[p].target].listing = resolving[p].job
           /\ \A u \in Queued \ {resolving[p].target} : rows'[u] = rows[u]
<1>1. PICK found, t : found = resolving[p] /\ t = found.target
  OBVIOUS
<1>2. PICK job, known : /\ job = (IF found.cached THEN found.job ELSE found.row.job)
                        /\ known = (found.cached /\ found.contacted)
  OBVIOUS
<1>3. PICK new : new = [found.row EXCEPT !.listing = found.job, !.job = job, !.contacted = known]
  OBVIOUS
<1>4. /\ found # Nothing /\ found.twin = Nothing /\ rows[t] = found.row
      /\ rows' = [rows EXCEPT ![t] = new]
      /\ resolving' = [resolving EXCEPT ![p] = Nothing] /\ UNCHANGED <<filed, occasion>>
  BY <1>1, <1>2, <1>3, Zenon DEF ResolveCommit, worldVars, resolveVars
<1>5. t \in Queued /\ Live(rows[t])
  BY <1>1, <1>4 DEF RowInvariant, ResolvingSound
<1>6. /\ RowAgrees(new) /\ PlanOf(t, new) /\ new.requests = rows[t].requests /\ new.listing = found.job
      /\ new.merged = rows[t].merged
  <2>1. RowAgrees(rows[t]) /\ PlanOf(t, rows[t])
    BY <1>5, RowIs
  <2>2. Live(rows[t])
    BY <1>5
  <2>3. Resolved(rows[t], found.job, job, known, new)
    BY <1>3, <1>4 DEF Resolved
  <2> QED BY <2>1, <2>2, <2>3, ResolvedIs
<1>7. /\ rows' = [u \in Queued |-> rows'[u]] /\ DOMAIN rows' = Queued
      /\ rows'[t] = new /\ \A u \in Queued \ {t} : rows'[u] = rows[u]
  <2>1. rows = [u \in Queued |-> rows[u]]
    BY DEF RowInvariant, RowTypes
  <2> QED BY <1>4, <1>5, <2>1
<1>8. /\ ResolvingSound' /\ resolving' = [q \in Resolvers |-> resolving'[q]] /\ ResolvingStays
  BY <1>4, <1>7, ResolvingLaid
<1>9. ASSUME NEW u \in Queued
      PROVE  /\ RowAgrees(rows'[u]) /\ PlanOf(u, rows'[u])
             /\ rows'[u].merged = rows[u].merged
             /\ \A r \in occasion.says : r \in rows'[u].requests <=> r \in rows[u].requests
  BY <1>6, <1>7, RowIs
<1>10. RowInvariant'
  BY <1>4, <1>7, <1>8, <1>9, RowsBecome
<1>11. ClosedStay
  BY <1>5, <1>7 DEF ClosedStay
<1> QED BY <1>1, <1>4, <1>5, <1>6, <1>7, <1>8, <1>10, <1>11

LEMMA MergeKeeps ==
    ASSUME RowInvariant, NEW p \in Resolvers, NEW finished \in BOOLEAN, Merge(p, finished)
    PROVE  RowInvariant' /\ ClosedStay /\ ListingsStay /\ ResolvingStays
<1>1. PICK t, u : t = resolving[p].target /\ u = resolving[p].twin
  OBVIOUS
<1>2. PICK row : row = United(rows[u], rows[t])
  OBVIOUS
<1>3. PICK new : new = IF finished /\ ~Refused(row) THEN Synchronized(Refreshed(row)) ELSE row
  OBVIOUS
<1>4. PICK alias : alias = [rows[t] EXCEPT !.merged = u]
  OBVIOUS
<1>5. /\ resolving[p] # Nothing /\ u # Nothing
      /\ rows[t] = resolving[p].row /\ rows[u] = resolving[p].twinRow
      /\ rows' = [rows EXCEPT ![t] = [@ EXCEPT !.merged = u], ![u] = new]
      /\ filed' = [r \in occasion.says |-> IF filed[r] = t THEN u ELSE filed[r]]
      /\ resolving' = [resolving EXCEPT ![p] = Nothing] /\ UNCHANGED occasion
  BY <1>1, <1>2, <1>3, Zenon DEF Merge, worldVars, resolveVars
<1>6. t \in Queued /\ u \in Queued /\ t # u /\ Live(rows[t]) /\ Live(rows[u])
  BY <1>1, <1>5 DEF RowInvariant, ResolvingSound
<1>7. /\ rows' = [v \in Queued |-> rows'[v]] /\ DOMAIN rows' = Queued
      /\ rows'[t] = alias /\ rows'[u] = new /\ \A v \in Queued \ {t, u} : rows'[v] = rows[v]
  <2>1. rows = [v \in Queued |-> rows[v]]
    BY DEF RowInvariant, RowTypes
  <2> QED BY <1>4, <1>5, <1>6, <2>1
<1>8. RowAgrees(alias) /\ PlanOf(t, alias) /\ alias.merged = u /\ ~Live(alias)
  BY <1>4, <1>5, <1>6, RowIs, MergedIs
<1>9. /\ RowAgrees(row) /\ PlanOf(u, row) /\ row.requests = rows[u].requests \cup rows[t].requests
      /\ row.listing = rows[u].listing /\ row.merged = rows[u].merged
  BY <1>2, <1>6, RowIs, UnitedIs
<1>10. /\ RowAgrees(new) /\ PlanOf(u, new) /\ new.requests = rows[u].requests \cup rows[t].requests
       /\ new.listing = rows[u].listing /\ new.merged = rows[u].merged
  <2>1. Becomes(u, row, Refreshed(row))
    BY <1>9, RefreshedIs
  <2>2. Becomes(u, Refreshed(row), Synchronized(Refreshed(row)))
    BY <2>1, SynchronizedIs DEF Becomes
  <2>3. new \in {row, Synchronized(Refreshed(row))}
    BY <1>3
  <2> QED BY <1>9, <2>1, <2>2, <2>3 DEF Becomes, SameRow
<1>11. rows[t].merged = Nothing /\ rows[u].merged = Nothing
  BY <1>6 DEF Live
<1>12. RowTypes'
  <2>1. resolving' = [q \in Resolvers |-> resolving'[q]]
    BY <1>5 DEF RowInvariant, RowTypes
  <2> QED BY <1>5, <1>7, <2>1 DEF RowInvariant, RowTypes, Queued
<1>13. RowsAgree'
  BY <1>7, <1>8, <1>10, RowIs DEF RowsAgree, Queued
<1>14. RequestsSound'
  <2>1. \A r \in occasion.says : filed'[r] = IF filed[r] = t THEN u ELSE filed[r]
    BY <1>5
  <2>2. ASSUME NEW r \in occasion.says, filed'[r] # Nothing
        PROVE  filed'[r] \in Queued /\ rows'[filed'[r]].merged = Nothing /\ r \in rows'[filed'[r]].requests
    <3>1. filed[r] # Nothing
      BY <1>6, <2>1, <2>2, RowIs
    <3>2. PICK v : v = filed[r]
      OBVIOUS
    <3>3. v \in Queued /\ rows[v].merged = Nothing /\ r \in rows[v].requests
      BY <3>1, <3>2 DEF RowInvariant, RequestsSound
    <3>4. CASE v \in {t, u}
      <4>1. filed'[r] = u
        BY <2>1, <3>2, <3>4
      <4> QED BY <1>6, <1>7, <1>10, <1>11, <3>3, <3>4, <4>1
    <3>5. CASE v \notin {t, u}
      <4>1. filed'[r] = v
        BY <2>1, <3>2, <3>5
      <4> QED BY <1>7, <3>3, <3>5, <4>1
    <3> QED BY <3>4, <3>5
  <2>3. ASSUME NEW v \in Queued, NEW r \in occasion.says, rows'[v].merged = Nothing, r \in rows'[v].requests
        PROVE  filed'[r] = v
    <3>1. v # t
      BY <1>5, <1>7, <1>8, <2>3
    <3>2. CASE v = u
      <4>1. r \in rows[u].requests \/ r \in rows[t].requests
        BY <1>7, <1>10, <2>3, <3>2
      <4>2. filed[r] = u \/ filed[r] = t
        BY <1>6, <1>11, <4>1 DEF RowInvariant, RequestsSound
      <4> QED BY <2>1, <3>2, <4>2
    <3>3. CASE v # u
      <4>1. rows'[v] = rows[v]
        BY <1>7, <3>1, <3>3
      <4>2. filed[r] = v
        BY <2>3, <4>1 DEF RowInvariant, RequestsSound
      <4> QED BY <2>1, <3>1, <4>2
    <3> QED BY <3>2, <3>3
  <2>4. Queued' = Queued /\ occasion' = occasion
    BY <1>5, <1>7 DEF Queued
  <2> QED BY <2>2, <2>3, <2>4 DEF RequestsSound
<1>15. ResolvingSound' /\ ResolvingStays
  BY <1>5, <1>7, ResolvingLaid
<1>16. RowInvariant'
  BY <1>12, <1>13, <1>14, <1>15 DEF RowInvariant
<1>17. ClosedStay
  BY <1>6, <1>7 DEF ClosedStay
<1>18. ListingsStay
  BY <1>6, <1>7, <1>8, <1>10 DEF ListingsStay
<1> QED BY <1>15, <1>16, <1>17, <1>18

Resolves ==
    \/ \E p \in Resolvers : ResolveCommit(p)
    \/ \E p \in Resolvers, t \in Targets, j \in Jobs : ResolveRead(p, t, j)

\* The rows keep agreeing whatever an intake does, and but for the two steps of resolving no row comes to
\* a listing and no process to a reading.
LEMMA IntakeStep ==
    ASSUME RowInvariant, IntakeNext
    PROVE  /\ RowInvariant' /\ ClosedStay
           /\ Resolves \/ (ListingsStay /\ ResolvingStays)
<1>1. ASSUME NEW r \in occasion.says, NEW finished \in BOOLEAN, Enqueue(r, finished)
      PROVE  RowInvariant' /\ ClosedStay /\ ListingsStay /\ UNCHANGED resolving
  BY <1>1, EnqueueKeeps DEF Enqueue, resolveVars
<1>2. ASSUME NEW p \in Resolvers, ResolveCommit(p)
      PROVE  RowInvariant' /\ ClosedStay
  BY <1>2, ResolveCommitKeeps
<1>3. ASSUME NEW p \in Resolvers, ResolveEnds(p)
      PROVE  RowInvariant' /\ ClosedStay /\ ListingsStay /\ ResolvingStays
  BY <1>3, ResolveEndsKeeps
<1>4. ASSUME NEW p \in Resolvers, NEW finished \in BOOLEAN, Merge(p, finished)
      PROVE  RowInvariant' /\ ClosedStay /\ ListingsStay /\ ResolvingStays
  BY <1>4, MergeKeeps
<1>5. ASSUME NEW p \in Resolvers, NEW t \in Targets, NEW j \in Jobs, ResolveRead(p, t, j)
      PROVE  RowInvariant' /\ ClosedStay
  BY <1>5, ResolveReadKeeps
<1>6. ASSUME NEW t \in Targets, Synchronize(t)
      PROVE  RowInvariant' /\ ClosedStay /\ ListingsStay /\ UNCHANGED resolving
  BY <1>6, SynchronizeKeeps DEF Synchronize, Write, resolveVars
<1>7. ASSUME NEW t \in Targets, NEW j \in Jobs, SaveSelection(t, j)
      PROVE  RowInvariant' /\ ClosedStay /\ ListingsStay /\ UNCHANGED resolving
  <2>1. UNCHANGED <<rows, filed, occasion, resolving>>
    BY <1>7 DEF SaveSelection, resolveVars
  <2> QED BY <2>1, OutsideKeeps
<1>8. ASSUME NEW t \in Targets, NEW j \in Jobs, AttachSnapshot(t, j)
      PROVE  RowInvariant' /\ ClosedStay /\ ListingsStay /\ UNCHANGED resolving
  BY <1>8, AttachSnapshotKeeps DEF AttachSnapshot, Write, resolveVars
<1>9. ASSUME NEW t \in Targets, NEW policy \in Policies, Factorize(t, policy)
      PROVE  RowInvariant' /\ ClosedStay /\ ListingsStay /\ UNCHANGED resolving
  BY <1>9, FactorizeKeeps DEF Factorize, Write, resolveVars
<1>10. ASSUME NEW t \in Targets, NEW i \in occasion.adds, SetInterest(t, i)
       PROVE  RowInvariant' /\ ClosedStay /\ ListingsStay /\ UNCHANGED resolving
  <2>1. UNCHANGED resolving
    BY <1>10, Zenon DEF SetInterest, Write, resolveVars
  <2> QED BY <1>10, <2>1, SetInterestKeeps
<1>11. ASSUME NEW t \in Targets, NEW text \in Openings, NEW by \in People, SubmitDraft(t, text, by)
       PROVE  RowInvariant' /\ ClosedStay /\ ListingsStay /\ UNCHANGED resolving
  BY <1>11, SubmitDraftKeeps DEF SubmitDraft, Write, resolveVars
<1>12. ASSUME NEW t \in Targets, NEW by \in People, NEW accepted \in BOOLEAN, ReviewDraft(t, by, accepted)
       PROVE  RowInvariant' /\ ClosedStay /\ ListingsStay /\ UNCHANGED resolving
  <2>1. UNCHANGED resolving
    BY <1>12, Zenon DEF ReviewDraft, Write, resolveVars
  <2> QED BY <1>12, <2>1, ReviewDraftKeeps
<1>13. ASSUME NEW t \in Targets, NEW item, AttachBatch(t, item)
       PROVE  RowInvariant' /\ ClosedStay /\ ListingsStay /\ UNCHANGED resolving
  <2>1. UNCHANGED resolving
    BY <1>13, Zenon DEF AttachBatch, Write, resolveVars
  <2> QED BY <1>13, <2>1, AttachBatchKeeps
<1>14. ASSUME NEW t \in Targets, NEW action, Control(t, action)
       PROVE  RowInvariant' /\ ClosedStay /\ ListingsStay /\ UNCHANGED resolving
  <2>1. UNCHANGED resolving
    BY <1>14, Zenon DEF Control, Write, resolveVars
  <2> QED BY <1>14, <2>1, ControlKeeps
<1>15. ASSUME UNCHANGED <<rows, filed, occasion, resolving>>
       PROVE  RowInvariant' /\ ClosedStay /\ ListingsStay /\ UNCHANGED resolving
  BY <1>15, OutsideKeeps
<1>16. ASSUME NEW j \in Jobs,
              \/ \E full \in BOOLEAN : Capture(j, full)
              \/ Import(j) \/ Contact(j)
              \/ \E text \in Openings : DraftBatch(j, text)
       PROVE  UNCHANGED <<rows, filed, occasion, resolving>>
  BY <1>16 DEF Capture, Import, Contact, DraftBatch, resolveVars
<1>17. ASSUME NEW item, WithdrawBatch(item)
       PROVE  UNCHANGED <<rows, filed, occasion, resolving>>
  BY <1>17 DEF WithdrawBatch, resolveVars
<1>18. UNCHANGED resolving => ResolvingStays
  BY DEF ResolvingStays
<1> QED
  BY <1>1, <1>2, <1>3, <1>4, <1>5, <1>6, <1>7, <1>8, <1>9, <1>10, <1>11, <1>12, <1>13, <1>14, <1>15, <1>16,
     <1>17, <1>18, Zenon DEF IntakeNext, Resolves

\* All rows move at once, each staying the row of its requests.
LEMMA AllBecome ==
    ASSUME RowInvariant, rows' = [t \in Queued |-> rows'[t]],
           \A t \in Queued : Becomes(t, rows[t], rows'[t]) /\ (~Live(rows[t]) => rows'[t] = rows[t]),
           UNCHANGED <<filed, occasion, resolving>>
    PROVE  RowInvariant' /\ ClosedStay /\ ListingsStay /\ ResolvingStays
<1>1. DOMAIN rows' = Queued
  OBVIOUS
<1>2. ResolvingSound' /\ resolving' = [p \in Resolvers |-> resolving'[p]]
  BY <1>1, ResolvingKept
<1>3. \A t \in Queued : /\ RowAgrees(rows'[t]) /\ PlanOf(t, rows'[t]) /\ SameRow(rows[t], rows'[t])
  BY DEF Becomes
<1>4. RowInvariant'
  BY <1>2, <1>3, RowsBecome DEF SameRow
<1>5. ClosedStay /\ ResolvingStays
  BY DEF ClosedStay, ResolvingStays
<1>6. ListingsStay
  BY <1>1, <1>3 DEF ListingsStay, SameRow
<1> QED BY <1>4, <1>5, <1>6

----
(* What is learnt of the rows. *)

\* The plan a reading of the rows makes.
SampledBy(sources) ==
    [t \in {t \in DOMAIN sources : sources[t].live /\ sources[t].features # Nothing} |->
        [snapshot |-> sources[t].snapshot, features |-> sources[t].features, signal |-> sources[t].signal]]

PlansSound ==
    /\ learning = [l \in Learners |-> learning[l]] /\ claims = [k \in Rounds |-> claims[k]]
    /\ \A l \in Learners : learning[l] # Nothing /\ learning[l].read =>
           learning[l].plan.samples = SampledBy(learning[l].sources)
    /\ active # Nothing => active.plan.samples = SampledBy(active.sources)

LEMMA SampledNow == SampledBy(Sources) = [t \in Samples |-> Sample(t)]
<1>1. /\ DOMAIN Sources = Queued
      /\ \A t \in Queued :
             /\ Sources[t].live = Live(rows[t])
             /\ Sources[t].features = rows[t].features /\ Sources[t].snapshot = rows[t].snapshot
             /\ Sources[t].signal = rows[t].signal
  <2>1. DOMAIN Sources = Queued
    BY DEF Sources
  <2>2. ASSUME NEW t \in Queued
        PROVE  /\ Sources[t].live = Live(rows[t])
               /\ Sources[t].features = rows[t].features /\ Sources[t].snapshot = rows[t].snapshot
               /\ Sources[t].signal = rows[t].signal
    <3>1. PICK live : live = Live(rows[t])
      OBVIOUS
    <3>2. Sources[t] = [job |-> rows[t].job, snapshot |-> rows[t].snapshot, features |-> rows[t].features,
                        signal |-> rows[t].signal, live |-> live]
      BY <3>1, Zenon DEF Sources
    <3> QED BY <3>1, <3>2
  <2> QED BY <2>1, <2>2
<1>2. {t \in DOMAIN Sources : Sources[t].live /\ Sources[t].features # Nothing} = Samples
  BY <1>1, Zenon DEF Samples
<1>3. ASSUME NEW t \in Samples
      PROVE  [snapshot |-> Sources[t].snapshot, features |-> Sources[t].features, signal |-> Sources[t].signal]
                 = Sample(t)
  BY <1>1, Zenon DEF Sample, Samples
<1> QED BY <1>2, <1>3, Zenon DEF SampledBy

LEMMA LearnSynchronizedKeeps ==
    ASSUME RowInvariant, PlansSound, NEW l \in Learners, LearnSynchronized(l)
    PROVE  RowInvariant' /\ PlansSound' /\ ClosedStay /\ ListingsStay /\ ResolvingStays /\ UNCHANGED claims
<1>1. /\ rows' = [t \in Queued |-> Synchronized(rows[t])]
      /\ UNCHANGED <<filed, occasion, resolving, active, claims>>
  BY Zenon DEF LearnSynchronized, worldVars, resolveVars
<1>2. PICK no : no = FALSE
  OBVIOUS
<1>3. learning' = [learning EXCEPT ![l] = [read |-> no]]
  BY <1>2, Zenon DEF LearnSynchronized
<1>4. rows' = [t \in Queued |-> rows'[t]] /\ \A t \in Queued : rows'[t] = Synchronized(rows[t])
  BY <1>1
<1>5. \A t \in Queued : Becomes(t, rows[t], rows'[t]) /\ (~Live(rows[t]) => rows'[t] = rows[t])
  BY <1>4, RowIs, SynchronizedIs
<1>6. PlansSound'
  <2>1. PICK new : new = [read |-> no]
    OBVIOUS
  <2>2. new.read = no
    BY <2>1
  <2>3. /\ learning' = [m \in Learners |-> learning'[m]]
        /\ learning'[l] = new /\ \A m \in Learners \ {l} : learning'[m] = learning[m]
    BY <1>3, <2>1 DEF PlansSound
  <2>4. ~learning'[l].read
    BY <1>2, <2>2, <2>3
  <2>5. \A m \in Learners : learning'[m] # Nothing /\ learning'[m].read =>
            learning'[m].plan.samples = SampledBy(learning'[m].sources)
    BY <2>3, <2>4 DEF PlansSound
  <2> QED BY <1>1, <2>3, <2>5 DEF PlansSound
<1>7. RowInvariant' /\ ClosedStay /\ ListingsStay /\ ResolvingStays
  BY <1>1, <1>4, <1>5, AllBecome
<1> QED BY <1>1, <1>6, <1>7

LEMMA LearnReadKeeps ==
    ASSUME PlansSound, NEW l \in Learners, LearnRead(l)
    PROVE  PlansSound' /\ UNCHANGED <<intakeVars, claims>>
<1>1. PICK yes, samples : yes = TRUE /\ samples = [t \in Samples |-> Sample(t)]
  OBVIOUS
<1>2. PICK sources : sources = Sources
  OBVIOUS
<1>3. PICK plan : plan = [samples |-> samples, after |-> searches]
  OBVIOUS
<1>4. PICK new : new = [read |-> yes, plan |-> plan, sources |-> sources, active |-> active]
  OBVIOUS
<1>5. learning' = [learning EXCEPT ![l] = new] /\ UNCHANGED <<intakeVars, active, claims>>
  BY <1>1, <1>2, <1>3, <1>4, Zenon DEF LearnRead
<1>6. new.plan.samples = SampledBy(new.sources)
  <2>1. new.plan = plan /\ new.sources = sources /\ plan.samples = samples
    BY <1>3, <1>4
  <2> QED BY <1>1, <1>2, <2>1, SampledNow
<1>7. /\ learning' = [m \in Learners |-> learning'[m]]
      /\ learning'[l] = new /\ \A m \in Learners \ {l} : learning'[m] = learning[m]
  BY <1>5 DEF PlansSound
<1> QED BY <1>5, <1>6, <1>7 DEF PlansSound

LEMMA LearnLaid ==
    ASSUME PlansSound, NEW l \in Learners, learning' = [learning EXCEPT ![l] = Nothing]
    PROVE  /\ learning' = [m \in Learners |-> learning'[m]]
           /\ \A m \in Learners : learning'[m] # Nothing /\ learning'[m].read =>
                  learning'[m].plan.samples = SampledBy(learning'[m].sources)
<1>1. /\ learning' = [m \in Learners |-> learning'[m]]
      /\ learning'[l] = Nothing /\ \A m \in Learners \ {l} : learning'[m] = learning[m]
  BY DEF PlansSound
<1> QED BY <1>1 DEF PlansSound

LEMMA LearnEndsKeeps ==
    ASSUME PlansSound, NEW l \in Learners, LearnEnds(l)
    PROVE  PlansSound' /\ UNCHANGED <<intakeVars, claims>>
<1>1. learning' = [learning EXCEPT ![l] = Nothing] /\ UNCHANGED <<intakeVars, active, claims>>
  BY DEF LearnEnds
<1> QED BY <1>1, LearnLaid DEF PlansSound

LEMMA ActivateKeeps ==
    ASSUME RowInvariant, PlansSound, NEW l \in Learners, Activate(l)
    PROVE  RowInvariant' /\ PlansSound' /\ ClosedStay /\ ListingsStay /\ ResolvingStays /\ UNCHANGED claims
<1>1. PICK new : new = learning[l]
  OBVIOUS
<1>2. PICK plan, sources : plan = new.plan /\ sources = new.sources
  OBVIOUS
<1>3. /\ new # Nothing /\ new.read /\ sources = Sources
      /\ active' = [plan |-> plan, sources |-> sources]
      /\ rows' = [t \in Queued |-> IF t \in Samples THEN [rows[t] EXCEPT !.plan = plan] ELSE rows[t]]
      /\ learning' = [learning EXCEPT ![l] = Nothing]
      /\ UNCHANGED <<filed, occasion, resolving, claims>>
  BY <1>1, <1>2, Zenon DEF Activate, Unmoved, worldVars, resolveVars
<1>4. plan.samples = SampledBy(sources) /\ plan.samples = [t \in Samples |-> Sample(t)]
  BY <1>1, <1>2, <1>3, SampledNow DEF PlansSound
<1>5. active'.plan = plan /\ active'.sources = sources
  BY <1>3
<1>6. PlansSound'
  <2>1. /\ learning' = [m \in Learners |-> learning'[m]]
        /\ \A m \in Learners : learning'[m] # Nothing /\ learning'[m].read =>
               learning'[m].plan.samples = SampledBy(learning'[m].sources)
    BY <1>3, LearnLaid
  <2> QED BY <1>3, <1>4, <1>5, <2>1 DEF PlansSound
<1>7. rows' = [t \in Queued |-> rows'[t]]
  BY <1>3
<1>8. ASSUME NEW t \in Queued
      PROVE  Becomes(t, rows[t], rows'[t]) /\ (~Live(rows[t]) => rows'[t] = rows[t])
  <2>1. rows'[t] = IF t \in Samples THEN [rows[t] EXCEPT !.plan = plan] ELSE rows[t]
    BY <1>3
  <2>2. RowAgrees(rows[t]) /\ PlanOf(t, rows[t])
    BY RowIs
  <2>3. CASE t \in Samples
    <3>1. Live(rows[t]) /\ rows[t].features # Nothing
      BY <2>3 DEF Samples
    <3>2. t \in DOMAIN plan.samples /\ plan.samples[t] = Part(rows[t])
      BY <1>4, <2>3 DEF Sample, Part
    <3>3. rows'[t] = [rows[t] EXCEPT !.plan = plan]
      BY <2>1, <2>3
    <3> QED BY <2>2, <3>1, <3>2, <3>3, Planned
  <2>4. CASE t \notin Samples
    BY <2>1, <2>2, <2>4 DEF Becomes, SameRow
  <2> QED BY <2>3, <2>4
<1>9. RowInvariant' /\ ClosedStay /\ ListingsStay /\ ResolvingStays
  BY <1>3, <1>7, <1>8, AllBecome
<1> QED BY <1>3, <1>6, <1>9

LEMMA ClaimKeeps ==
    ASSUME PlansSound, NEW k \in Rounds, Claim(k)
    PROVE  /\ PlansSound' /\ UNCHANGED intakeVars
           /\ \A j \in Rounds : claims'[j] # claims[j] =>
                  /\ claims[j] = Nothing /\ claims'[j].samples = [t \in Samples |-> Sample(t)]
                  /\ SamplesNewest /\ claims'[j].after = searches
<1>1. /\ claims[k] = Nothing /\ active # Nothing /\ active.sources = Sources
      /\ active.plan.after = searches /\ SamplesNewest
      /\ claims' = [claims EXCEPT ![k] = active.plan] /\ UNCHANGED <<intakeVars, active, learning>>
  BY DEF Claim, Claimable
<1>2. active.plan.samples = [t \in Samples |-> Sample(t)]
  BY <1>1, SampledNow DEF PlansSound
<1>3. /\ claims' = [j \in Rounds |-> claims'[j]]
      /\ claims'[k] = active.plan /\ \A j \in Rounds \ {k} : claims'[j] = claims[j]
  BY <1>1 DEF PlansSound
<1> QED BY <1>1, <1>2, <1>3 DEF PlansSound

PlanInvariant == RowInvariant /\ PlansSound

\* No claim changes but by a round claiming the plan of now.
ClaimsNow ==
    \A k \in Rounds : claims'[k] # claims[k] =>
        /\ claims[k] = Nothing /\ claims'[k].samples = [t \in Samples |-> Sample(t)]
        /\ SamplesNewest /\ claims'[k].after = searches

LEMMA PlanInitial == ASSUME StrategyInit PROVE PlanInvariant
<1>1. /\ occasion \in Occasions /\ filed = [r \in occasion.says |-> Nothing]
      /\ resolving = [p \in Resolvers |-> Nothing] /\ active = Nothing
      /\ learning = [l \in Learners |-> Nothing] /\ claims = [k \in Rounds |-> Nothing]
  BY DEF StrategyInit, IntakeInit
<1>2. Queued = {} /\ rows = [t \in {} |-> rows[t]]
  BY DEF StrategyInit, IntakeInit, Queued
<1>3. RowTypes
  BY <1>1, <1>2 DEF RowTypes
<1>4. RowsAgree /\ RequestsSound /\ ResolvingSound
  BY <1>1, <1>2 DEF RowsAgree, RequestsSound, ResolvingSound
<1>5. PlansSound
  BY <1>1 DEF PlansSound
<1> QED BY <1>3, <1>4, <1>5 DEF PlanInvariant, RowInvariant

\* What a step of intakes and strategies keeps.
LEMMA StrategyStep ==
    ASSUME PlanInvariant, [StrategyNext]_strategyVars
    PROVE  /\ PlanInvariant' /\ ClosedStay /\ ClaimsNow
           /\ (Resolves /\ UNCHANGED planVars) \/ (ListingsStay /\ ResolvingStays)
<1>1. UNCHANGED claims => ClaimsNow
  BY DEF ClaimsNow
<1>2. UNCHANGED intakeVars => RowInvariant' /\ ClosedStay /\ ListingsStay /\ ResolvingStays
  BY OutsideKeeps DEF PlanInvariant, ResolvingStays, intakeVars, worldVars, resolveVars
<1>3. UNCHANGED planVars => PlansSound' /\ UNCHANGED claims
  BY DEF PlanInvariant, PlansSound, planVars
<1>4. CASE IntakeNext /\ UNCHANGED planVars
  BY <1>1, <1>3, <1>4, IntakeStep DEF PlanInvariant
<1>5. ASSUME NEW l \in Learners, LearnSynchronized(l)
      PROVE  PlanInvariant' /\ ClosedStay /\ ListingsStay /\ ResolvingStays /\ ClaimsNow
  BY <1>1, <1>5, LearnSynchronizedKeeps DEF PlanInvariant
<1>6. ASSUME NEW l \in Learners, LearnRead(l) \/ LearnEnds(l)
      PROVE  PlanInvariant' /\ ClosedStay /\ ListingsStay /\ ResolvingStays /\ ClaimsNow
  BY <1>1, <1>2, <1>6, LearnReadKeeps, LearnEndsKeeps DEF PlanInvariant
<1>7. ASSUME NEW l \in Learners, Activate(l)
      PROVE  PlanInvariant' /\ ClosedStay /\ ListingsStay /\ ResolvingStays /\ ClaimsNow
  BY <1>1, <1>7, ActivateKeeps DEF PlanInvariant
<1>8. ASSUME NEW k \in Rounds, Claim(k)
      PROVE  PlanInvariant' /\ ClosedStay /\ ListingsStay /\ ResolvingStays /\ ClaimsNow
  BY <1>2, <1>8, ClaimKeeps DEF PlanInvariant, ClaimsNow
<1>9. ASSUME NEW k \in Rounds, RecordSearch(k)
      PROVE  PlanInvariant' /\ ClosedStay /\ ListingsStay /\ ResolvingStays /\ ClaimsNow
  <2>1. UNCHANGED <<intakeVars, active, learning, claims>>
    BY <1>9 DEF RecordSearch
  <2>2. PlansSound'
    BY <2>1 DEF PlanInvariant, PlansSound
  <2> QED BY <1>1, <1>2, <2>1, <2>2 DEF PlanInvariant
<1>10. CASE UNCHANGED strategyVars
  BY <1>1, <1>2, <1>3, <1>10 DEF PlanInvariant, strategyVars, planVars
<1> QED BY <1>4, <1>5, <1>6, <1>7, <1>8, <1>9, <1>10, Zenon DEF StrategyNext

LEMMA PlanInvariantHolds == StrategySpec => []PlanInvariant
<1>1. StrategyInit => PlanInvariant
  BY PlanInitial
<1>2. PlanInvariant /\ [StrategyNext]_strategyVars => PlanInvariant'
  BY StrategyStep
<1> QED BY <1>1, <1>2, PTL DEF StrategySpec

----
(* Two entries of one job. *)

\* A step that resolves nothing meets nobody.
LEMMA Unmet ==
    ASSUME [StrategyNext]_strategyVars
    PROVE  Resolves \/ UNCHANGED <<crossed, overlapped>>
<1> DEFINE Kept == UNCHANGED <<crossed, overlapped>>
<1>1. ASSUME NEW r \in occasion.says, NEW finished \in BOOLEAN, Enqueue(r, finished) PROVE Kept
  BY <1>1, Zenon DEF Enqueue, resolveVars, overlapVars
<1>2. ASSUME NEW p \in Resolvers, ResolveEnds(p) PROVE Kept
  BY <1>2, Zenon DEF ResolveEnds, overlapVars
<1>3. ASSUME NEW p \in Resolvers, NEW finished \in BOOLEAN, Merge(p, finished) PROVE Kept
  BY <1>3, Zenon DEF Merge, overlapVars
<1>4. ASSUME NEW t, NEW row, Write(t, row) PROVE Kept
  BY <1>4, Zenon DEF Write, resolveVars, overlapVars
<1>5. ASSUME NEW t \in Targets, Synchronize(t) PROVE Kept
  BY <1>4, <1>5, Zenon DEF Synchronize
<1>6. ASSUME NEW t \in Targets, NEW j \in Jobs, SaveSelection(t, j) PROVE Kept
  BY <1>6, Zenon DEF SaveSelection, resolveVars, overlapVars
<1>7. ASSUME NEW t \in Targets, NEW j \in Jobs, AttachSnapshot(t, j) PROVE Kept
  BY <1>4, <1>7, Zenon DEF AttachSnapshot
<1>8. ASSUME NEW t \in Targets, NEW policy \in Policies, Factorize(t, policy) PROVE Kept
  BY <1>4, <1>8, Zenon DEF Factorize
<1>9. ASSUME NEW t \in Targets, NEW i \in occasion.adds, SetInterest(t, i) PROVE Kept
  BY <1>4, <1>9, Zenon DEF SetInterest
<1>10. ASSUME NEW t \in Targets, NEW text \in Openings, NEW by \in People, SubmitDraft(t, text, by) PROVE Kept
  BY <1>4, <1>10, Zenon DEF SubmitDraft
<1>11. ASSUME NEW t \in Targets, NEW by \in People, NEW accepted \in BOOLEAN, ReviewDraft(t, by, accepted)
       PROVE  Kept
  BY <1>4, <1>11, Zenon DEF ReviewDraft
<1>12. ASSUME NEW t \in Targets, NEW item, AttachBatch(t, item) PROVE Kept
  BY <1>4, <1>12, Zenon DEF AttachBatch
<1>13. ASSUME NEW t \in Targets, NEW action, Control(t, action) PROVE Kept
  BY <1>4, <1>13, Zenon DEF Control
<1>14. ASSUME NEW j \in Jobs,
              \/ \E full \in BOOLEAN : Capture(j, full)
              \/ Import(j) \/ Contact(j)
              \/ \E text \in Openings : DraftBatch(j, text)
       PROVE  Kept
  BY <1>14 DEF Capture, Import, Contact, DraftBatch, resolveVars, overlapVars
<1>15. ASSUME NEW item, WithdrawBatch(item) PROVE Kept
  BY <1>15, Zenon DEF WithdrawBatch, resolveVars, overlapVars
<1>16. ASSUME UNCHANGED intakeVars PROVE Kept
  BY <1>16, Zenon DEF intakeVars, resolveVars, overlapVars
<1>17. ASSUME NEW l \in Learners, LearnSynchronized(l) \/ LearnRead(l) \/ LearnEnds(l) \/ Activate(l)
       PROVE  Kept
  BY <1>16, <1>17, Zenon DEF LearnSynchronized, LearnRead, LearnEnds, Activate, resolveVars, overlapVars
<1>18. ASSUME NEW k \in Rounds, Claim(k) \/ RecordSearch(k) PROVE Kept
  BY <1>16, <1>18, Zenon DEF Claim, RecordSearch
<1>19. UNCHANGED strategyVars => Kept
  BY <1>16, Zenon DEF strategyVars
<1> HIDE DEF Kept
<1>20. IntakeNext => Resolves \/ Kept
  BY <1>1, <1>2, <1>3, <1>5, <1>6, <1>7, <1>8, <1>9, <1>10, <1>11, <1>12, <1>13, <1>14, <1>15, Zenon
     DEF IntakeNext, Resolves
<1>21. Resolves \/ Kept
  BY <1>17, <1>18, <1>19, <1>20, Zenon DEF StrategyNext
<1> QED BY <1>21 DEF Kept

MeetTypes == crossed = [p \in Resolvers |-> crossed[p]]

\* Whoever found no other entry of the job knows by now of each one that is.
NoTwin ==
    \A p \in Resolvers : resolving[p] # Nothing /\ resolving[p].twin = Nothing =>
        /\ resolving[p].job # Nothing
        /\ \A u \in Queued : u # resolving[p].target /\ Live(rows[u]) /\ rows[u].listing = resolving[p].job =>
               u \in crossed[p]

MeetInvariant == PlanInvariant /\ MeetTypes /\ OneRowPerJob /\ NoTwin

LEMMA SettledMeets ==
    ASSUME MeetInvariant, ListingsStay, ResolvingStays, UNCHANGED <<crossed, overlapped>>, PlanInvariant'
    PROVE  OneRowPerJob' /\ NoTwin'
<1>1. OneRowPerJob'
  BY DEF MeetInvariant, OneRowPerJob, ListingsStay, Queued
<1>2. NoTwin'
  <2> SUFFICES ASSUME NEW p \in Resolvers, resolving'[p] # Nothing, resolving'[p].twin = Nothing
               PROVE  /\ resolving'[p].job # Nothing
                      /\ \A u \in DOMAIN rows' : u # resolving'[p].target /\ Live(rows'[u])
                             /\ rows'[u].listing = resolving'[p].job => u \in crossed'[p]
    BY DEF NoTwin, Queued
  <2>1. resolving'[p] = resolving[p]
    BY DEF ResolvingStays
  <2>2. PICK found : found = resolving[p]
    OBVIOUS
  <2>3. found # Nothing /\ found.twin = Nothing
    BY <2>1, <2>2
  <2>4. /\ found.job # Nothing
        /\ \A u \in Queued : u # found.target /\ Live(rows[u]) /\ rows[u].listing = found.job => u \in crossed[p]
    BY <2>2, <2>3 DEF MeetInvariant, NoTwin
  <2> QED BY <2>1, <2>2, <2>4 DEF ListingsStay
<1> QED BY <1>1, <1>2

LEMMA CommitMeets ==
    ASSUME MeetInvariant, NEW p \in Resolvers, ResolveCommit(p)
    PROVE  MeetTypes' /\ OneRowPerJob' /\ NoTwin'
<1>1. PICK found, t, job : found = resolving[p] /\ t = found.target /\ job = found.job
  OBVIOUS
<1>2. /\ ResolvingStays /\ found # Nothing /\ found.twin = Nothing /\ t \in Queued /\ DOMAIN rows' = Queued
      /\ rows'[t].listing = job /\ \A u \in Queued \ {t} : rows'[u] = rows[u]
  BY <1>1, ResolveCommitKeeps DEF MeetInvariant, PlanInvariant
<1>3. job # Nothing /\ \A u \in Queued : u # t /\ Live(rows[u]) /\ rows[u].listing = job => u \in crossed[p]
  BY <1>1, <1>2 DEF MeetInvariant, NoTwin
<1>4. Crossing(p, t, job)
  BY <1>1, Zenon DEF ResolveCommit
<1>5. /\ overlapped \subseteq overlapped'
      /\ \A u \in crossed[p] : {t, u} \in overlapped'
      /\ \A q \in Resolvers : /\ crossed[q] \subseteq crossed'[q]
                              /\ q # p /\ resolving[q] # Nothing /\ resolving[q].job = job => t \in crossed'[q]
  BY <1>4 DEF Crossing
<1>6. ASSUME NEW u \in Queued, NEW v \in Queued, u # v, Live(rows'[u]), Live(rows'[v]),
             rows'[u].listing # Nothing, rows'[u].listing = rows'[v].listing
      PROVE  {u, v} \in overlapped'
  <2>1. CASE u # t /\ v # t
    BY <1>2, <1>5, <1>6, <2>1 DEF MeetInvariant, OneRowPerJob
  <2>2. CASE u = t
    BY <1>2, <1>3, <1>5, <1>6, <2>2
  <2>3. CASE v = t
    <3>1. {v, u} \in overlapped'
      BY <1>2, <1>3, <1>5, <1>6, <2>3
    <3>2. {u, v} = {v, u}
      OBVIOUS
    <3> QED BY <3>1, <3>2
  <2> QED BY <2>1, <2>2, <2>3
<1>7. OneRowPerJob'
  BY <1>2, <1>6 DEF OneRowPerJob, Queued
<1>8. resolving'[p] = Nothing
  <2>1. resolving' = [resolving EXCEPT ![p] = Nothing]
    BY Zenon DEF ResolveCommit
  <2> QED BY <2>1 DEF MeetInvariant, PlanInvariant, RowInvariant, RowTypes
<1>9. ASSUME NEW q \in Resolvers, resolving'[q] # Nothing, resolving'[q].twin = Nothing
      PROVE  /\ resolving'[q].job # Nothing
             /\ \A u \in Queued : u # resolving'[q].target /\ Live(rows'[u])
                    /\ rows'[u].listing = resolving'[q].job => u \in crossed'[q]
  <2>1. resolving'[q] = resolving[q] /\ q # p
    BY <1>2, <1>8, <1>9 DEF ResolvingStays
  <2>2. PICK other : other = resolving[q] /\ other = resolving'[q]
    BY <2>1
  <2>3. other # Nothing /\ other.twin = Nothing
    BY <1>9, <2>2
  <2>4. /\ other.job # Nothing
        /\ \A u \in Queued : u # other.target /\ Live(rows[u]) /\ rows[u].listing = other.job => u \in crossed[q]
    BY <2>2, <2>3 DEF MeetInvariant, NoTwin
  <2>5. ASSUME NEW u \in Queued, u # other.target, Live(rows'[u]), rows'[u].listing = other.job
        PROVE  u \in crossed'[q]
    <3>1. CASE u = t
      BY <1>2, <1>5, <2>1, <2>2, <2>3, <2>5, <3>1
    <3>2. CASE u # t
      BY <1>2, <1>5, <2>4, <2>5, <3>2
    <3> QED BY <3>1, <3>2
  <2> QED BY <2>2, <2>4, <2>5
<1>10. NoTwin'
  BY <1>2, <1>9 DEF NoTwin, Queued
<1>11. MeetTypes'
  BY <1>4 DEF Crossing, MeetTypes
<1> QED BY <1>7, <1>10, <1>11

LEMMA ReadMeets ==
    ASSUME MeetInvariant, NEW p \in Resolvers, NEW t \in Targets, NEW j \in Jobs, ResolveRead(p, t, j)
    PROVE  MeetTypes' /\ OneRowPerJob' /\ NoTwin'
<1>1. PICK cached, known : cached = (stored[j] # 0) /\ known = (j \in contacted)
  OBVIOUS
<1>2. PICK twin : /\ twin = Nothing => Twins(t, j) = {}
                  /\ resolving' = [resolving EXCEPT ![p] =
                         [target |-> t, row |-> rows[t], job |-> j, twin |-> twin, cached |-> cached,
                          twinRow |-> IF twin = Nothing THEN Nothing ELSE rows[twin], contacted |-> known]]
  BY <1>1, Zenon DEF ResolveRead
<1>3. PICK twinRow : twinRow = IF twin = Nothing THEN Nothing ELSE rows[twin]
  OBVIOUS
<1>4. PICK found : found = [target |-> t, row |-> rows[t], job |-> j, twin |-> twin, cached |-> cached,
                            twinRow |-> twinRow, contacted |-> known]
  OBVIOUS
<1>5. found.target = t /\ found.job = j /\ found.twin = twin
  BY <1>4
<1>6. resolving' = [resolving EXCEPT ![p] = found]
  BY <1>2, <1>3, <1>4, Zenon
<1>7. resolving'[p] = found /\ \A q \in Resolvers \ {p} : resolving'[q] = resolving[q]
  BY <1>6 DEF MeetInvariant, PlanInvariant, RowInvariant, RowTypes
<1>8. UNCHANGED <<rows, overlapped>> /\ crossed' = [crossed EXCEPT ![p] = {}]
  BY Zenon DEF ResolveRead
<1>9. MeetTypes' /\ \A q \in Resolvers \ {p} : crossed'[q] = crossed[q]
  BY <1>8 DEF MeetInvariant, MeetTypes
<1>10. OneRowPerJob'
  BY <1>8 DEF MeetInvariant, OneRowPerJob, Queued
<1>11. j # Nothing
  BY IntakeSorts
<1>12. twin = Nothing => \A u \in Queued : ~(u # t /\ Live(rows[u]) /\ rows[u].listing = j)
  BY <1>2 DEF Twins
<1>13. ASSUME NEW q \in Resolvers, resolving'[q] # Nothing, resolving'[q].twin = Nothing
       PROVE  /\ resolving'[q].job # Nothing
              /\ \A u \in Queued : u # resolving'[q].target /\ Live(rows[u])
                     /\ rows[u].listing = resolving'[q].job => u \in crossed'[q]
  <2>1. CASE q = p
    BY <1>5, <1>7, <1>11, <1>12, <1>13, <2>1
  <2>2. CASE q # p
    <3>1. PICK other : other = resolving[q] /\ other = resolving'[q]
      BY <1>7, <2>2
    <3>2. other # Nothing /\ other.twin = Nothing
      BY <1>13, <3>1
    <3> QED BY <1>9, <2>2, <3>1, <3>2 DEF MeetInvariant, NoTwin
  <2> QED BY <2>1, <2>2
<1>14. NoTwin'
  BY <1>8, <1>13 DEF NoTwin, Queued
<1> QED BY <1>9, <1>10, <1>14

LEMMA MeetingsHold == StrategySpec => []MeetInvariant
<1>1. StrategyInit => MeetInvariant
  <2> SUFFICES ASSUME StrategyInit PROVE MeetInvariant
    OBVIOUS
  <2>1. Queued = {} /\ resolving = [p \in Resolvers |-> Nothing] /\ crossed = [p \in Resolvers |-> {}]
    BY DEF StrategyInit, IntakeInit, Queued
  <2> QED BY <2>1, PlanInitial DEF MeetInvariant, MeetTypes, OneRowPerJob, NoTwin
<1>2. MeetInvariant /\ [StrategyNext]_strategyVars => MeetInvariant'
  <2> SUFFICES ASSUME MeetInvariant, [StrategyNext]_strategyVars
               PROVE  MeetInvariant'
    OBVIOUS
  <2>1. PlanInvariant' /\ (Resolves \/ (ListingsStay /\ ResolvingStays))
    BY StrategyStep DEF MeetInvariant
  <2>2. Resolves => MeetTypes' /\ OneRowPerJob' /\ NoTwin'
    BY CommitMeets, ReadMeets, Zenon DEF Resolves
  <2>3. CASE UNCHANGED <<crossed, overlapped>> /\ ListingsStay /\ ResolvingStays
    BY <2>1, <2>3, SettledMeets DEF MeetInvariant, MeetTypes
  <2> QED BY <2>1, <2>2, <2>3, Unmet DEF MeetInvariant
<1> QED BY <1>1, <1>2, PTL DEF StrategySpec

----
\* In whatever order a job's rows are resolved, read, drafted, reviewed and merged, and by however many
\* processes: a batch is of the reviewed draft and its posting, no request is lost or counted twice, an
\* attached interest is the newest choice, what is derived is of one posting, and two open rows come to
\* one job only when their resolutions overlapped (job_intake_service.py, resolve and merge).
THEOREM IntakesStand == StrategySpec => []IntakesSound
<1>1. PlanInvariant => BatchReviewed
  <2> SUFFICES ASSUME PlanInvariant, NEW t \in Queued, rows[t].batch # Nothing
               PROVE  /\ rows[t].draft # Nothing /\ rows[t].review # Nothing
                      /\ rows[t].review.accepted /\ rows[t].review.by # rows[t].draft.by
                      /\ rows[t].review.text = rows[t].draft.text /\ rows[t].batch.text = rows[t].draft.text
                      /\ {rows[t].review.snapshot, rows[t].draft.snapshot, rows[t].batch.posting}
                             = {rows[t].snapshot}
    BY Zenon DEF BatchReviewed
  <2>1. PICK row : row = rows[t]
    OBVIOUS
  <2>2. RowAgrees(row)
    BY <2>1, RowIs DEF PlanInvariant
  <2> QED BY <2>1, <2>2 DEF RowAgrees
<1>2. PlanInvariant => RequestsKept
  BY DEF PlanInvariant, RowInvariant, RequestsSound, RequestsKept
<1>3. PlanInvariant => InterestNewest /\ DerivedTogether
  BY DEF PlanInvariant, RowInvariant, RowsAgree, RowAgrees, InterestNewest, DerivedTogether
<1>4. MeetInvariant => OneRowPerJob
  BY DEF MeetInvariant
<1> QED BY <1>1, <1>2, <1>3, <1>4, PlanInvariantHolds, MeetingsHold, PTL DEF IntakesSound

\* A row that names a plan is in it as it stands: whatever moves its posting, its features or the person's
\* interest takes the reference away, also between the reading of a rebuild and its activation.
THEOREM PlansNamedAreTrue == StrategySpec => []PlanTrue
<1>1. PlanInvariant => PlanTrue
  <2> SUFFICES ASSUME PlanInvariant, NEW t \in Queued, rows[t].plan # Nothing, Live(rows[t])
               PROVE  t \in DOMAIN rows[t].plan.samples /\ rows[t].plan.samples[t] = Sample(t)
    BY DEF PlanTrue
  <2> QED BY RowIs DEF PlanInvariant, PlanOf, Part, Sample
<1> QED BY <1>1, PlanInvariantHolds, PTL

\* A row closed by the person or merged into another is never written again, by no command and no rebuild.
THEOREM ClosedRowsStand == StrategySpec => ClosedRowsStay
<1>1. PlanInvariant /\ [StrategyNext]_strategyVars => [ClosedStay]_intakeVars
  BY StrategyStep
<1>2. StrategySpec => [][ClosedStay]_intakeVars
  BY <1>1, PlanInvariantHolds, PTL DEF StrategySpec
<1> QED BY <1>2, Zenon DEF ClosedRowsStay, ClosedStay

\* A sourcing round claims once, and the plan it claims is of the open rows as they stand on their newest
\* postings and after every search recorded, however many rebuilds run and however they interleave.
THEOREM ClaimsAreOfNow == StrategySpec => ClaimsOfNow
<1>1. PlanInvariant /\ [StrategyNext]_strategyVars => [ClaimsNow]_strategyVars
  BY StrategyStep
<1>2. ClaimsNow => \A k \in Rounds : claims'[k] # claims[k] =>
          /\ claims[k] = Nothing
          /\ claims'[k].samples = [t \in Samples |-> Sample(t)]
          /\ \A t \in Samples : Sample(t).snapshot = Len(shots[rows[t].job])
          /\ claims'[k].after = searches
  <2>1. \A t \in Samples : Sample(t).snapshot = rows[t].snapshot
    BY DEF Sample
  <2> QED BY <2>1 DEF ClaimsNow, SamplesNewest
<1>3. PlanInvariant /\ [StrategyNext]_strategyVars =>
          [\A k \in Rounds : claims'[k] # claims[k] =>
               /\ claims[k] = Nothing
               /\ claims'[k].samples = [t \in Samples |-> Sample(t)]
               /\ \A t \in Samples : Sample(t).snapshot = Len(shots[rows[t].job])
               /\ claims'[k].after = searches]_strategyVars
  BY <1>1, <1>2
<1> QED BY <1>3, PlanInvariantHolds, PTL DEF StrategySpec, ClaimsOfNow
====
