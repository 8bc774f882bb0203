---- MODULE DeskProofs ----
(***************************************************************************)
(* Proofs about five parts of the desk, each for every value of its        *)
(* constants: no script of Schema is passed over; a link of Backfills      *)
(* records what its own request attached and bound; in Deliveries what     *)
(* arrives is what a person approved, with audits numbered and no more     *)
(* than true; the file of Preferences is one line of versions, all kept,   *)
(* of which whatever is written names one; and what Adoption puts in place *)
(* loses nothing that was committed before its last comparison.            *)
(***************************************************************************)
EXTENDS Schema, Backfills, Deliveries, Preferences, Adoption, Integers, SequenceTheorems, FiniteSetTheorems, TLAPS

\* Where a process goes on, every script before it has been run.
TargetsReached ==
    /\ target \in [Procs -> 0 .. LatestVersion]
    /\ \A p \in Procs : \A n \in 1 .. target[p] - 1 : n \in applied

ScriptsKnown == version \in 0 .. LatestVersion /\ applied \subseteq 1 .. LatestVersion

SchemaInvariant == ScriptsKnown /\ TargetsReached /\ ScriptsInOrder

LEMMA SchemaStarts == SchemaInit => SchemaInvariant
BY SchemaSorts DEF SchemaInit, SchemaInvariant, ScriptsKnown, TargetsReached, ScriptsInOrder

\* A script that was reached in turn leaves no gap.
LEMMA ScriptKeeps ==
    ASSUME SchemaInvariant, NEW p \in Procs, MigrateScript(p)
    PROVE  SchemaInvariant'
<1> DEFINE n == target[p]
<1>1. n \in 1 .. LatestVersion
  BY DEF MigrateScript, SchemaInvariant, TargetsReached
<1>2. applied' = applied \cup {n} /\ version' = n
  BY DEF MigrateScript
<1>3. ScriptsKnown'
  <2>1. version' \in 0 .. LatestVersion
    BY <1>1, <1>2, SchemaSorts
  <2> QED
    BY <1>1, <1>2, <2>1 DEF SchemaInvariant, ScriptsKnown
<1>4. TargetsReached'
  BY <1>1, <1>2, SchemaSorts DEF MigrateScript, SchemaInvariant, TargetsReached
<1>5. 1 .. n \subseteq applied'
  BY <1>1, <1>2, SchemaSorts DEF SchemaInvariant, TargetsReached
<1>6. ScriptsInOrder'
  BY <1>2, <1>5 DEF SchemaInvariant, ScriptsInOrder
<1> QED
  BY <1>3, <1>4, <1>6 DEF SchemaInvariant

LEMMA SchemaStep == SchemaInvariant /\ [SchemaNext]_schemaVars => SchemaInvariant'
<1> SUFFICES ASSUME SchemaInvariant, [SchemaNext]_schemaVars PROVE SchemaInvariant'
  OBVIOUS
<1>1. CASE UNCHANGED schemaVars
  BY <1>1 DEF schemaVars, SchemaInvariant, ScriptsKnown, TargetsReached, ScriptsInOrder
<1>2. ASSUME NEW p \in Procs, MigrateRead(p) PROVE SchemaInvariant'
  <2>1. \A n \in 1 .. version : n \in applied
    BY DEF SchemaInvariant, ScriptsInOrder, ScriptsKnown
  <2>2. TargetsReached'
    BY <1>2, <2>1, SchemaSorts DEF MigrateRead, SchemaInvariant, ScriptsKnown, TargetsReached
  <2> QED
    BY <1>2, <2>2 DEF MigrateRead, SchemaInvariant, ScriptsKnown, ScriptsInOrder
<1>3. ASSUME NEW p \in Procs, MigrateScript(p) PROVE SchemaInvariant'
  BY <1>3, ScriptKeeps
<1>4. ASSUME NEW p \in Procs, MigrateFail(p) \/ MigrateDies(p) PROVE SchemaInvariant'
  <2>1. UNCHANGED <<version, applied>> /\ target' = [target EXCEPT ![p] = 0]
    BY <1>4 DEF MigrateFail, MigrateDies
  <2>2. TargetsReached'
    BY <2>1, SchemaSorts DEF SchemaInvariant, TargetsReached
  <2> QED
    BY <2>1, <2>2 DEF SchemaInvariant, ScriptsKnown, ScriptsInOrder
<1> QED
  BY <1>1, <1>2, <1>3, <1>4 DEF SchemaNext

\* However many commands migrate at once or die, the tables there are those of the scripts up to
\* some version, and the version is one of them (migrate in storage/database.py).
THEOREM ScriptsNeverSkipped == SchemaSpec => []ScriptsInOrder
<1>1. SchemaInvariant => ScriptsInOrder
  BY DEF SchemaInvariant
<1> QED
  BY <1>1, SchemaStarts, SchemaStep, PTL DEF SchemaSpec

-----------------------------------------------------------------------------
Shots == [snapshot : Nat, version : Nat]
FillStages == {"begun", "stored", "attached", "read", "synced"}
Fillings == [event : Requests, stage : FillStages, expected : Int, bound : Nat]

IntakeRows == [snapshot : Nat, version : Nat, closed : BOOLEAN]
FollowerRows == [snapshot : Nat, version : Nat, source : Nat, live : BOOLEAN]

BackfillTypes ==
    /\ taken \in Nat
    /\ intake \in IntakeRows
    /\ follower \in FollowerRows
    /\ attached \in [Requests -> Nat] /\ links \in [Requests -> Nat]
    /\ synced \in [Requests -> {Idle} \cup Shots]
    /\ filling \in [Backfillers -> {Idle} \cup Fillings]

\* A process past the synchronization carries what its request bound there, which stays.
CarriesBound ==
    \A p \in Backfillers : AtFilling(p, "synced") =>
        /\ synced[EventOf(p)] # Idle
        /\ filling[p].bound = synced[EventOf(p)].snapshot

BackfillInvariant == BackfillTypes /\ CarriesBound /\ LinkProven

LEMMA BackfillStarts == BackfillInit => BackfillInvariant
<1> SUFFICES ASSUME BackfillInit PROVE BackfillInvariant
  OBVIOUS
<1>1. BackfillTypes
  BY DEF BackfillInit, BackfillTypes, IntakeRows, FollowerRows
<1>2. CarriesBound /\ LinkProven
  BY DEF BackfillInit, CarriesBound, AtFilling, LinkProven
<1> QED
  BY <1>1, <1>2 DEF BackfillInvariant

\* Each change of a row gives a row.
LEMMA IntakeRowsTyped ==
    ASSUME NEW i \in IntakeRows, NEW n \in Nat, NEW c \in BOOLEAN
    PROVE  /\ [i EXCEPT !.snapshot = n, !.version = @ + 1] \in IntakeRows
           /\ [i EXCEPT !.version = @ + 1, !.closed = c] \in IntakeRows
<1>1. i.version + 1 \in Nat
  BY DEF IntakeRows
<1> DEFINE v == i.version + 1
<1> HIDE DEF v
<1>2. [i EXCEPT !.snapshot = n, !.version = v] \in IntakeRows
  BY <1>1 DEF v, IntakeRows
<1>3. [i EXCEPT !.version = v, !.closed = c] \in IntakeRows
  BY <1>1 DEF v, IntakeRows
<1> QED
  BY <1>2, <1>3 DEF v

LEMMA FollowerRowsTyped ==
    ASSUME NEW f \in FollowerRows, NEW n \in Nat, NEW m \in Nat
    PROVE  /\ [f EXCEPT !.snapshot = n, !.version = @ + 1, !.source = m] \in FollowerRows
           /\ [f EXCEPT !.live = FALSE, !.version = @ + 1] \in FollowerRows
<1> DEFINE v == f.version + 1
<1>1. v \in Nat
  BY DEF FollowerRows
<1> HIDE DEF v
<1>2. [f EXCEPT !.snapshot = n, !.version = v, !.source = m] \in FollowerRows
  BY <1>1 DEF FollowerRows
<1>3. [f EXCEPT !.live = FALSE, !.version = v] \in FollowerRows
  BY <1>1 DEF FollowerRows
<1> QED
  BY <1>2, <1>3 DEF v

\* A synchronization gives a pipeline of the right type.
LEMMA FollowsTyped ==
    ASSUME BackfillTypes
    PROVE  Bound \in Nat /\ Follows \in FollowerRows
<1>1. Bound \in Nat
  BY DEF BackfillTypes, Bound, IntakeRows
<1>2. intake.version \in Nat
  BY DEF BackfillTypes, IntakeRows
<1> QED
  BY <1>1, <1>2, FollowerRowsTyped DEF BackfillTypes, Follows

----
\* The steps of others touch neither requests nor processes.
LEMMA OthersKeep ==
    ASSUME BackfillInvariant,
           \/ CaptureShot \/ MoveIntake \/ EndFollower
           \/ \E e \in Requests : PlanBackfill(e)
           \/ UNCHANGED backfillVars
    PROVE  BackfillInvariant'
<1> USE DEF BackfillInvariant, BackfillTypes
<1>1. UNCHANGED <<kind, attached, synced, links, filling>>
  BY DEF CaptureShot, MoveIntake, EndFollower, PlanBackfill, backfillVars
<1>2. taken' \in Nat /\ intake' \in IntakeRows /\ follower' \in FollowerRows
  <2>1. CASE CaptureShot
    BY <2>1 DEF CaptureShot
  <2>2. CASE MoveIntake
    <3>1. PICK c \in BOOLEAN : intake' = [intake EXCEPT !.version = @ + 1, !.closed = c]
      BY <2>2 DEF MoveIntake
    <3>2. intake' \in IntakeRows
      BY <3>1, IntakeRowsTyped
    <3> QED
      BY <2>2, <3>2 DEF MoveIntake
  <2>3. CASE EndFollower
    <3>1. follower' \in FollowerRows
      BY <2>3, FollowerRowsTyped DEF EndFollower
    <3> QED
      BY <2>3, <3>1 DEF EndFollower
  <2>4. CASE (\E e \in Requests : PlanBackfill(e)) \/ UNCHANGED backfillVars
    BY <2>4 DEF PlanBackfill, backfillVars
  <2> QED
    BY <2>1, <2>2, <2>3, <2>4
<1>3. CarriesBound' /\ LinkProven'
  BY <1>1 DEF CarriesBound, AtFilling, EventOf, LinkProven
<1> QED
  BY <1>1, <1>2, <1>3

\* So does a step that only moves one process on, not past the synchronization.
LEMMA MovesKeep ==
    ASSUME BackfillInvariant, NEW p \in Backfillers, NEW w \in {Idle} \cup Fillings,
           w # Idle => w.stage # "synced", Fills(p, w),
           UNCHANGED <<kind, taken, intake, attached, follower, synced, links>>
    PROVE  BackfillInvariant'
<1>1. BackfillTypes'
  BY DEF BackfillInvariant, BackfillTypes, Fills
<1>2. CarriesBound'
  <2> SUFFICES ASSUME NEW q \in Backfillers, AtFilling(q, "synced")'
               PROVE  /\ synced'[EventOf(q)'] # Idle
                      /\ filling'[q].bound = synced'[EventOf(q)'].snapshot
    BY DEF CarriesBound
  <2>1. q # p
    BY DEF AtFilling, Fills, BackfillInvariant, BackfillTypes
  <2>2. filling'[q] = filling[q]
    BY <2>1 DEF Fills, BackfillInvariant, BackfillTypes
  <2> QED
    BY <2>2 DEF AtFilling, EventOf, BackfillInvariant, CarriesBound
<1>3. LinkProven'
  BY DEF BackfillInvariant, LinkProven
<1> QED
  BY <1>1, <1>2, <1>3 DEF BackfillInvariant

LEMMA BeginsKeep ==
    ASSUME BackfillInvariant, NEW p \in Backfillers, NEW e \in Requests, AttachBegins(p, e)
    PROVE  BackfillInvariant'
<1>1. [event |-> e, stage |-> "begun", expected |-> 0, bound |-> 0] \in Fillings
  BY DEF Fillings, FillStages
<1> QED
  BY <1>1, MovesKeep DEF AttachBegins

LEMMA EndsKeep ==
    ASSUME BackfillInvariant, NEW p \in Backfillers, AttachEnds(p)
    PROVE  BackfillInvariant'
BY MovesKeep DEF AttachEnds

LEMMA FillReadKeeps ==
    ASSUME BackfillInvariant, NEW p \in Backfillers, ReadFollower(p)
    PROVE  BackfillInvariant'
<1> DEFINE expected == IF synced[EventOf(p)] = Idle THEN follower.version
                       ELSE synced[EventOf(p)].version - 1
           w == [filling[p] EXCEPT !.stage = "read", !.expected = expected]
<1>1. filling[p] \in Fillings
  BY DEF ReadFollower, AtFilling, BackfillInvariant, BackfillTypes
<1>2. expected \in Int
  BY <1>1 DEF BackfillInvariant, BackfillTypes, Shots, FollowerRows, Fillings, EventOf
<1>3. w \in Fillings /\ w.stage = "read"
  <2> HIDE DEF expected
  <2> QED
    BY <1>1, <1>2 DEF Fillings, FillStages
<1>4. Fills(p, w)
  BY DEF ReadFollower
<1> HIDE DEF w
<1> QED
  BY <1>3, <1>4, MovesKeep DEF ReadFollower

----
\* What a request attached is never attached again, so a link that was made still names it.
LEMMA SnapshotKeeps ==
    ASSUME BackfillInvariant, NEW p \in Backfillers, AttachSnapshot(p)
    PROVE  BackfillInvariant'
<1> DEFINE e == EventOf(p)
<1>1. filling[p] \in Fillings /\ e \in Requests
  BY DEF AttachSnapshot, AtFilling, BackfillInvariant, BackfillTypes, EventOf, Fillings
<1>2. PICK w \in Fillings : Fills(p, w) /\ w.stage # "synced"
  BY <1>1 DEF AttachSnapshot, Fillings, FillStages
<1>3. CASE attached[e] # 0
  <2>1. UNCHANGED <<kind, taken, intake, attached, follower, synced, links>>
    BY <1>3 DEF AttachSnapshot
  <2> QED
    BY <1>2, <2>1, MovesKeep
<1>4. CASE attached[e] = 0
  <2>1. /\ intake' = [intake EXCEPT !.snapshot = taken, !.version = @ + 1]
        /\ attached' = [attached EXCEPT ![e] = taken]
        /\ UNCHANGED <<kind, taken, follower, synced, links>>
    BY <1>4 DEF AttachSnapshot
  <2>2. intake' \in IntakeRows
    BY <2>1, IntakeRowsTyped DEF BackfillInvariant, BackfillTypes
  <2>3. attached' \in [Requests -> Nat]
    BY <2>1 DEF BackfillInvariant, BackfillTypes
  <2>4. filling' \in [Backfillers -> {Idle} \cup Fillings]
    BY <1>2 DEF Fills, BackfillInvariant, BackfillTypes
  <2>5. BackfillTypes'
    BY <2>1, <2>2, <2>3, <2>4 DEF BackfillInvariant, BackfillTypes
  <2>6. CarriesBound'
    <3> SUFFICES ASSUME NEW q \in Backfillers, AtFilling(q, "synced")'
                 PROVE  /\ synced'[EventOf(q)'] # Idle
                        /\ filling'[q].bound = synced'[EventOf(q)'].snapshot
      BY DEF CarriesBound
    <3>1. q # p
      BY <1>2 DEF AtFilling, Fills, BackfillInvariant, BackfillTypes
    <3>2. filling'[q] = filling[q]
      BY <1>2, <3>1 DEF Fills, BackfillInvariant, BackfillTypes
    <3> QED
      BY <2>1, <3>2 DEF AtFilling, EventOf, BackfillInvariant, CarriesBound
  <2>7. links[e] = 0
    BY <1>1, <1>4 DEF BackfillInvariant, LinkProven
  <2>8. LinkProven'
    BY <1>1, <2>1, <2>7 DEF BackfillInvariant, BackfillTypes, LinkProven
  <2> QED
    BY <2>5, <2>6, <2>8 DEF BackfillInvariant
<1> QED
  BY <1>3, <1>4

LEMMA HookKeeps ==
    ASSUME BackfillInvariant, NEW p \in Backfillers, HookSyncs(p)
    PROVE  BackfillInvariant'
<1> DEFINE w == [filling[p] EXCEPT !.stage = "attached"]
<1>1. filling[p] \in Fillings
  BY DEF HookSyncs, AtFilling, BackfillInvariant, BackfillTypes
<1>2. w \in Fillings /\ w.stage # "synced" /\ Fills(p, w)
  BY <1>1 DEF HookSyncs, Fillings, FillStages
<1>3. follower' \in FollowerRows
  BY FollowsTyped DEF HookSyncs, BackfillInvariant, BackfillTypes
<1>4. UNCHANGED <<kind, taken, intake, attached, synced, links>>
  BY DEF HookSyncs
<1> HIDE DEF w
<1>5. filling' \in [Backfillers -> {Idle} \cup Fillings]
  BY <1>2 DEF Fills, BackfillInvariant, BackfillTypes
<1>6. BackfillTypes'
  BY <1>3, <1>4, <1>5 DEF BackfillInvariant, BackfillTypes
<1>7. CarriesBound'
  <2> SUFFICES ASSUME NEW q \in Backfillers, AtFilling(q, "synced")'
               PROVE  /\ synced'[EventOf(q)'] # Idle
                      /\ filling'[q].bound = synced'[EventOf(q)'].snapshot
    BY DEF CarriesBound
  <2>1. q # p
    BY <1>2 DEF AtFilling, Fills, BackfillInvariant, BackfillTypes
  <2>2. filling'[q] = filling[q]
    BY <1>2, <2>1 DEF Fills, BackfillInvariant, BackfillTypes
  <2> QED
    BY <1>4, <2>2 DEF AtFilling, EventOf, BackfillInvariant, CarriesBound
<1>8. LinkProven'
  BY <1>4 DEF BackfillInvariant, LinkProven
<1> QED
  BY <1>6, <1>7, <1>8 DEF BackfillInvariant

\* A request is synchronized once: afterwards it is answered from its row.
LEMMA SyncKeeps ==
    ASSUME BackfillInvariant, NEW p \in Backfillers, SyncFollower(p)
    PROVE  BackfillInvariant'
<1> DEFINE e == EventOf(p)
<1>1. filling[p] \in Fillings /\ e \in Requests
  BY DEF SyncFollower, AtFilling, BackfillInvariant, BackfillTypes, EventOf, Fillings
<1>2. UNCHANGED <<kind, taken, intake, attached, links>>
  BY DEF SyncFollower
<1>3. follower' \in FollowerRows
  BY FollowsTyped DEF SyncFollower, BackfillInvariant, BackfillTypes
<1>4. /\ synced' \in [Requests -> {Idle} \cup Shots]
      /\ synced'[e] \in Shots
      /\ \A f \in Requests : synced[f] # Idle => synced'[f] = synced[f]
      /\ Fills(p, [filling[p] EXCEPT !.stage = "synced", !.bound = synced'[e].snapshot])
  <2>1. CASE synced[e] # Idle
    BY <1>1, <2>1 DEF SyncFollower, BackfillInvariant, BackfillTypes
  <2>2. CASE synced[e] = Idle
    <3> DEFINE row == [snapshot |-> Bound, version |-> follower'.version]
    <3>1. row \in Shots
      BY <1>3, FollowsTyped DEF Shots, FollowerRows, BackfillInvariant
    <3>2. /\ synced' = [synced EXCEPT ![e] = row]
          /\ Fills(p, [filling[p] EXCEPT !.stage = "synced", !.bound = Bound])
      BY <2>2 DEF SyncFollower
    <3>3. row.snapshot = Bound
      OBVIOUS
    <3> HIDE DEF row
    <3>4. synced'[e] = row
      BY <1>1, <3>2 DEF BackfillInvariant, BackfillTypes
    <3> QED
      BY <1>1, <2>2, <3>1, <3>2, <3>3, <3>4 DEF BackfillInvariant, BackfillTypes
  <2> QED
    BY <2>1, <2>2
<1> DEFINE w == [filling[p] EXCEPT !.stage = "synced", !.bound = synced'[e].snapshot]
<1>5. w \in Fillings /\ w.event = e /\ w.bound = synced'[e].snapshot /\ Fills(p, w)
  BY <1>1, <1>4 DEF Fillings, FillStages, Shots, EventOf
<1> HIDE DEF w
<1>6. filling' \in [Backfillers -> {Idle} \cup Fillings] /\ filling'[p] = w
  BY <1>5 DEF Fills, BackfillInvariant, BackfillTypes
<1>7. BackfillTypes'
  BY <1>2, <1>3, <1>4, <1>6 DEF BackfillInvariant, BackfillTypes
<1>8. CarriesBound'
  <2> SUFFICES ASSUME NEW q \in Backfillers, AtFilling(q, "synced")'
               PROVE  /\ synced'[EventOf(q)'] # Idle
                      /\ filling'[q].bound = synced'[EventOf(q)'].snapshot
    BY DEF CarriesBound
  <2>1. CASE q = p
    BY <1>4, <1>5, <1>6, <2>1, BackfillSorts DEF EventOf, Shots
  <2>2. CASE q # p
    <3>1. filling'[q] = filling[q]
      BY <1>5, <2>2 DEF Fills, BackfillInvariant, BackfillTypes
    <3>2. AtFilling(q, "synced") /\ EventOf(q) \in Requests
      BY <3>1 DEF AtFilling, EventOf, BackfillInvariant, BackfillTypes, Fillings
    <3> QED
      BY <1>4, <3>1, <3>2 DEF EventOf, BackfillInvariant, CarriesBound
  <2> QED
    BY <2>1, <2>2
<1>9. LinkProven'
  BY <1>2, <1>4 DEF BackfillInvariant, LinkProven
<1> QED
  BY <1>7, <1>8, <1>9 DEF BackfillInvariant

\* The link is made by a process that carries what was bound, and only if that was attached.
LEMMA LinkKeeps ==
    ASSUME BackfillInvariant, NEW p \in Backfillers, SaveLink(p)
    PROVE  BackfillInvariant'
<1> DEFINE e == EventOf(p)
<1>1. filling[p] \in Fillings /\ e \in Requests
  BY DEF SaveLink, AtFilling, BackfillInvariant, BackfillTypes, EventOf, Fillings
<1>2. /\ UNCHANGED <<kind, taken, intake, attached, follower, synced>>
      /\ links' = [links EXCEPT ![e] = attached[e]]
      /\ Fills(p, Idle)
  BY DEF SaveLink
<1>3. BackfillTypes'
  BY <1>1, <1>2 DEF Fills, BackfillInvariant, BackfillTypes
<1>4. CarriesBound'
  <2> SUFFICES ASSUME NEW q \in Backfillers, AtFilling(q, "synced")'
               PROVE  /\ synced'[EventOf(q)'] # Idle
                      /\ filling'[q].bound = synced'[EventOf(q)'].snapshot
    BY DEF CarriesBound
  <2>1. q # p
    BY <1>2 DEF AtFilling, Fills, BackfillInvariant, BackfillTypes
  <2>2. filling'[q] = filling[q]
    BY <1>2, <2>1 DEF Fills, BackfillInvariant, BackfillTypes
  <2> QED
    BY <1>2, <2>2 DEF AtFilling, EventOf, BackfillInvariant, CarriesBound
<1>5. kind = "pipeline" => synced[e] # Idle /\ synced[e].snapshot = attached[e]
  BY DEF SaveLink, LinksBound, BackfillInvariant, CarriesBound
<1>6. LinkProven'
  BY <1>1, <1>2, <1>5 DEF BackfillInvariant, BackfillTypes, LinkProven
<1> QED
  BY <1>3, <1>4, <1>6 DEF BackfillInvariant

----
LEMMA BackfillStep == BackfillInvariant /\ [BackfillNext]_backfillVars => BackfillInvariant'
BY OthersKeep, BeginsKeep, EndsKeep, FillReadKeeps, SnapshotKeeps, HookKeeps, SyncKeeps, LinkKeeps
   DEF BackfillNext

\* Whatever is replanned, captured, closed or tried again, a link names the snapshot its own request
\* attached and, for a row of the pipeline, bound there (attach in storage/pipeline_backfill.py).
THEOREM LinksNeverGuessed == BackfillSpec => []LinkProven
<1>1. BackfillInvariant => LinkProven
  BY DEF BackfillInvariant
<1> QED
  BY <1>1, BackfillStarts, BackfillStep, PTL DEF BackfillSpec

-----------------------------------------------------------------------------
Packages == [job : Postings, message : Letters, file : Resumes, verified : BOOLEAN]
Approvals == [digests : Contents, answers : {NoWork} \cup Contents]
Submitting == [step : {"submit"}, pack : Packages, approval : Approvals]
Auditing == [step : {"audit"}, digests : Contents, result : Outcomes, attempt : Nat]
Arrivals == [sent : Contents, file : Resumes, approval : Approvals, n : Nat]
AuditRows == [attempt : Nat, result : Outcomes, digests : Contents]

DeliveryTypes ==
    /\ pack \in {NoWork} \cup Packages /\ disk \in Resumes
    /\ question \in {NoWork} \cup Contents /\ approval \in {NoWork} \cup Approvals
    /\ sending \in [Sends -> {NoWork} \cup Submitting \cup Auditing]
    /\ arrived \subseteq Arrivals /\ IsFiniteSet(arrived)
    /\ attempts \subseteq AuditRows /\ IsFiniteSet(attempts)

SendAt(s, step) == sending[s] # NoWork /\ sending[s].step = step

\* An approval is of the content its question was about.
Answering(a) == a.answers \in {NoWork, a.digests}
Approved(w) == Answering(w.approval) /\ w.approval.digests = Digests(w.pack)

CarriesApproved ==
    /\ approval # NoWork => Answering(approval)
    /\ \A s \in Sends : SendAt(s, "submit") => Approved(sending[s])

\* Audits are numbered from 1, each number once, and a send has read no number beyond the next.
Numbered ==
    /\ {a.attempt : a \in attempts} = 1 .. Cardinality(attempts)
    /\ \A s \in Sends : SendAt(s, "audit") => sending[s].attempt <= Cardinality(attempts) + 1

\* Arrivals are numbered, so each is one of its own.
ArrivalsNumbered == \A x \in arrived : x.n <= Cardinality(arrived)

SentRows(c) == {a \in attempts : a.result = "sent" /\ a.digests = c}
SentPending(c) == {s \in Sends : SendAt(s, "audit") /\ sending[s].result = "sent" /\ sending[s].digests = c}
Arrived(c) == {x \in arrived : x.sent = c}

\* What is audited as sent, or about to be, has arrived.
Counted == \A c \in Contents : Cardinality(SentRows(c)) + Cardinality(SentPending(c)) <= Cardinality(Arrived(c))

DeliveryInvariant ==
    /\ DeliveryTypes /\ CarriesApproved /\ SubmittedApproved
    /\ Numbered /\ ArrivalsNumbered /\ Counted

LEMMA DigestsTyped == ASSUME NEW p \in Packages PROVE Digests(p) \in Contents
BY DEF Packages, Digests, Contents

\* The counted sets are finite.
LEMMA CountedFinite ==
    ASSUME DeliveryTypes, NEW c \in Contents
    PROVE  /\ IsFiniteSet(SentRows(c)) /\ Cardinality(SentRows(c)) \in Nat
           /\ IsFiniteSet(SentPending(c)) /\ Cardinality(SentPending(c)) \in Nat
           /\ IsFiniteSet(Arrived(c)) /\ Cardinality(Arrived(c)) \in Nat
           /\ Cardinality(arrived) \in Nat /\ Cardinality(attempts) \in Nat
<1>1. IsFiniteSet(Sends)
  BY DeliverySorts, FS_Interval DEF Sends
<1>2. SentRows(c) \subseteq attempts /\ SentPending(c) \subseteq Sends /\ Arrived(c) \subseteq arrived
  BY DEF SentRows, SentPending, Arrived
<1>3. IsFiniteSet(arrived) /\ IsFiniteSet(attempts)
  BY DEF DeliveryTypes
<1>4. IsFiniteSet(SentRows(c)) /\ IsFiniteSet(SentPending(c)) /\ IsFiniteSet(Arrived(c))
  BY <1>1, <1>2, <1>3, FS_Subset
<1> QED
  BY <1>3, <1>4, FS_CardinalityType

\* A subset counts no more.
LEMMA CountsLess ==
    ASSUME NEW S, IsFiniteSet(S), NEW T, T \subseteq S
    PROVE  Cardinality(T) \in Nat /\ Cardinality(S) \in Nat /\ Cardinality(T) <= Cardinality(S)
BY FS_Subset, FS_CardinalityType

LEMMA DeliveryStarts == DeliveryInit => DeliveryInvariant
<1> SUFFICES ASSUME DeliveryInit PROVE DeliveryInvariant
  OBVIOUS
<1>1. DeliveryTypes
  BY FS_EmptySet DEF DeliveryInit, DeliveryTypes
<1>2. \A s \in Sends, step \in {"submit", "audit"} : ~SendAt(s, step)
  BY DEF DeliveryInit, SendAt
<1>3. CarriesApproved /\ SubmittedApproved
  BY <1>2 DEF DeliveryInit, CarriesApproved, SubmittedApproved
<1>4. Cardinality(attempts) = 0 /\ Cardinality(arrived) = 0
  BY FS_EmptySet DEF DeliveryInit
<1>5. Numbered /\ ArrivalsNumbered
  BY <1>2, <1>4 DEF DeliveryInit, Numbered, ArrivalsNumbered
<1>6. Counted
  <2>1. \A c \in Contents : SentRows(c) = {} /\ SentPending(c) = {} /\ Arrived(c) = {}
    BY <1>2 DEF DeliveryInit, SentRows, SentPending, Arrived
  <2> QED
    BY <2>1, FS_EmptySet DEF Counted
<1> QED
  BY <1>1, <1>3, <1>5, <1>6 DEF DeliveryInvariant

----
\* What a step leaves alone: the audits and what sends are about to audit.
LEMMA DeskKeeps ==
    ASSUME DeliveryInvariant, UNCHANGED <<sending, arrived, attempts>>,
           pack' \in {NoWork} \cup Packages, disk' \in Resumes, question' \in {NoWork} \cup Contents,
           approval' \in {NoWork} \cup Approvals, approval' # NoWork => Answering(approval')
    PROVE  DeliveryInvariant'
<1>1. DeliveryTypes'
  BY DEF DeliveryInvariant, DeliveryTypes
<1>2. CarriesApproved'
  BY DEF DeliveryInvariant, CarriesApproved, SendAt
<1>3. SubmittedApproved' /\ Numbered' /\ ArrivalsNumbered' /\ Counted'
  BY DEF DeliveryInvariant, SubmittedApproved, Numbered, ArrivalsNumbered, Counted, SentRows,
         SentPending, Arrived, SendAt
<1> QED
  BY <1>1, <1>2, <1>3 DEF DeliveryInvariant

LEMMA PackKeeps ==
    ASSUME DeliveryInvariant,
           \/ \E j \in Postings, l \in Letters : Preview(j, l)
           \/ \E c \in Contents, v \in BOOLEAN : EditPackage(c, v)
           \/ \E f \in Resumes : EditFile(f)
           \/ AskApplication
           \/ UNCHANGED deliveryVars
    PROVE  DeliveryInvariant'
<1>1. UNCHANGED <<approval, sending, arrived, attempts>>
  BY DEF Preview, EditPackage, EditFile, AskApplication, deliveryVars
<1>2. DeliveryTypes
  BY DEF DeliveryInvariant
<1>3. pack' \in {NoWork} \cup Packages /\ disk' \in Resumes
  <2>1. CASE \E j \in Postings, l \in Letters : Preview(j, l)
    BY <1>2, <2>1 DEF Preview, Packages, DeliveryTypes
  <2>2. CASE \E c \in Contents, v \in BOOLEAN : EditPackage(c, v)
    BY <1>2, <2>2 DEF EditPackage, Packages, Contents, DeliveryTypes
  <2>3. CASE (\E f \in Resumes : EditFile(f)) \/ AskApplication \/ UNCHANGED deliveryVars
    BY <1>2, <2>3 DEF EditFile, AskApplication, deliveryVars, DeliveryTypes
  <2> QED
    BY <2>1, <2>2, <2>3
<1>4. question' \in {NoWork} \cup Contents
  BY <1>2, DigestsTyped DEF Preview, EditPackage, EditFile, AskApplication, deliveryVars, DeliveryTypes
<1> QED
  BY <1>1, <1>2, <1>3, <1>4, DeskKeeps DEF DeliveryTypes, DeliveryInvariant, CarriesApproved

LEMMA ApproveKeeps ==
    ASSUME DeliveryInvariant, NEW channel \in Channels, ApproveApplication(channel)
    PROVE  DeliveryInvariant'
<1>1. DeliveryTypes /\ pack \in Packages
  BY DEF DeliveryInvariant, DeliveryTypes, ApproveApplication
<1>2. UNCHANGED <<pack, disk, question, sending, arrived, attempts>>
  BY DEF ApproveApplication
<1> DEFINE answers == IF channel = "relay" THEN question ELSE NoWork
<1>3. answers \in {NoWork, Digests(pack)} /\ Digests(pack) \in Contents
  BY <1>1, DigestsTyped DEF ApproveApplication, RelayedAnswer
<1>4. approval' = [digests |-> Digests(pack), answers |-> answers]
  BY DEF ApproveApplication
<1> HIDE DEF answers
<1>5. approval' \in Approvals /\ Answering(approval')
  BY <1>3, <1>4 DEF Approvals, Answering
<1> QED
  BY <1>1, <1>2, <1>5, DeskKeeps DEF DeliveryTypes

----
\* A send moves on, and what it is about to audit as sent, if anything, it was about to before.
LEMMA SendKeeps ==
    ASSUME DeliveryInvariant, UNCHANGED <<pack, disk, question, approval, arrived, attempts>>,
           NEW s \in Sends, NEW w \in {NoWork} \cup Submitting \cup Auditing,
           sending' = [sending EXCEPT ![s] = w],
           w # NoWork /\ w.step = "submit" => Approved(w),
           w # NoWork /\ w.step = "audit" => w.attempt <= Cardinality(attempts) + 1,
           w # NoWork /\ w.step = "audit" /\ w.result = "sent" =>
              SendAt(s, "audit") /\ sending[s].result = "sent" /\ sending[s].digests = w.digests
    PROVE  DeliveryInvariant'
<1>1. DeliveryTypes'
  BY DEF DeliveryInvariant, DeliveryTypes
<1>2. sending'[s] = w /\ \A q \in Sends \ {s} : sending'[q] = sending[q]
  BY DEF DeliveryInvariant, DeliveryTypes
<1>3. CarriesApproved'
  BY <1>2 DEF DeliveryInvariant, CarriesApproved, SendAt
<1>4. SubmittedApproved' /\ ArrivalsNumbered'
  BY DEF DeliveryInvariant, SubmittedApproved, ArrivalsNumbered
<1>5. Numbered'
  BY <1>2 DEF DeliveryInvariant, Numbered, SendAt
<1>6. Counted'
  <2> SUFFICES ASSUME NEW c \in Contents
               PROVE  Cardinality(SentRows(c)') + Cardinality(SentPending(c)') <= Cardinality(Arrived(c)')
    BY DEF Counted
  <2>1. SentRows(c)' = SentRows(c) /\ Arrived(c)' = Arrived(c)
    BY DEF SentRows, Arrived
  <2>2. SentPending(c)' \subseteq SentPending(c)
    BY <1>2 DEF SentPending, SendAt
  <2>3. DeliveryTypes
    BY DEF DeliveryInvariant
  <2>4. /\ Cardinality(SentPending(c)') \in Nat /\ Cardinality(SentPending(c)) \in Nat
        /\ Cardinality(SentPending(c)') <= Cardinality(SentPending(c))
        /\ Cardinality(SentRows(c)) \in Nat /\ Cardinality(Arrived(c)) \in Nat
    BY <2>2, <2>3, CountedFinite, CountsLess
  <2>5. Cardinality(SentRows(c)) + Cardinality(SentPending(c)) <= Cardinality(Arrived(c))
    BY DEF DeliveryInvariant, Counted
  <2> QED
    BY <2>1, <2>4, <2>5
<1> QED
  BY <1>1, <1>3, <1>4, <1>5, <1>6 DEF DeliveryInvariant

LEMMA ReadKeeps ==
    ASSUME DeliveryInvariant, NEW s \in Sends, SendRead(s)
    PROVE  DeliveryInvariant'
<1> DEFINE w == IF Authorized(pack, approval)
                THEN [step |-> "submit", pack |-> pack, approval |-> approval]
                ELSE Unaudited(pack, "failed")
<1>1. DeliveryTypes /\ pack \in Packages /\ approval \in Approvals /\ approval # NoWork
  BY DEF DeliveryInvariant, DeliveryTypes, SendRead
<1>2. Cardinality(attempts) \in Nat
  BY <1>1, FS_CardinalityType DEF DeliveryTypes
<1>3. sending' = [sending EXCEPT ![s] = w] /\ UNCHANGED <<pack, disk, question, approval, arrived, attempts>>
  BY DEF SendRead
<1>4. CASE Authorized(pack, approval)
  <2>1. w \in Submitting /\ w.step = "submit" /\ w.pack = pack /\ w.approval = approval
    BY <1>1, <1>4 DEF Submitting
  <2>2. Approved(w)
    BY <1>1, <1>4, <2>1 DEF Approved, Authorized, DeliveryInvariant, CarriesApproved
  <2> HIDE DEF w
  <2> QED
    BY <1>3, <2>1, <2>2, SendKeeps
<1>5. CASE ~Authorized(pack, approval)
  <2>1. w = [step |-> "audit", digests |-> Digests(pack), result |-> "failed", attempt |-> 0]
    BY <1>5 DEF Unaudited
  <2>2. w \in Auditing /\ w.step = "audit" /\ w.result = "failed" /\ w.attempt = 0
    <3> HIDE DEF w
    <3> QED
      BY <1>1, <2>1, DigestsTyped DEF Auditing, Outcomes
  <2>3. w.attempt <= Cardinality(attempts) + 1 /\ w.result # "sent" /\ w.step # "submit"
    BY <1>2, <2>2
  <2> HIDE DEF w
  <2> QED
    BY <1>3, <2>2, <2>3, SendKeeps
<1> QED
  BY <1>4, <1>5

\* The next number is one more than the audits there are.
LEMMA NextNumber ==
    ASSUME DeliveryTypes, {a.attempt : a \in attempts} = 1 .. Cardinality(attempts)
    PROVE  NextAttempt = Cardinality(attempts) + 1
<1> DEFINE n == Cardinality(attempts)
<1>1. n \in Nat
  BY FS_CardinalityType DEF DeliveryTypes
<1>2. NextAttempt = Max({0} \cup 1 .. n) + 1
  BY DEF NextAttempt
<1> HIDE DEF n
<1>3. n \in {0} \cup 1 .. n /\ \A y \in {0} \cup 1 .. n : n >= y
  BY <1>1
<1>4. Max({0} \cup 1 .. n) \in {0} \cup 1 .. n
      /\ \A y \in {0} \cup 1 .. n : Max({0} \cup 1 .. n) >= y
  BY <1>3 DEF Max
<1>5. Max({0} \cup 1 .. n) = n
  BY <1>1, <1>3, <1>4
<1> QED
  BY <1>2, <1>5 DEF n

LEMMA NumberKeeps ==
    ASSUME DeliveryInvariant, NEW s \in Sends, AuditRead(s)
    PROVE  DeliveryInvariant'
<1> DEFINE w == [sending[s] EXCEPT !.attempt = NextAttempt]
<1>1. DeliveryTypes /\ SendAt(s, "audit") /\ sending[s] \in Auditing
  BY DEF DeliveryInvariant, DeliveryTypes, AuditRead, SendAt, Submitting
<1>2. NextAttempt = Cardinality(attempts) + 1 /\ NextAttempt \in Nat
  BY <1>1, NextNumber, FS_CardinalityType DEF DeliveryInvariant, Numbered, DeliveryTypes
<1>3. sending' = [sending EXCEPT ![s] = w] /\ UNCHANGED <<pack, disk, question, approval, arrived, attempts>>
  BY DEF AuditRead
<1>4. /\ w \in Auditing /\ w.step = "audit" /\ w.attempt = NextAttempt
      /\ w.result = sending[s].result /\ w.digests = sending[s].digests
  BY <1>1, <1>2 DEF Auditing
<1> HIDE DEF w
<1> QED
  <2>1. Cardinality(attempts) \in Nat
    BY <1>1, FS_CardinalityType DEF DeliveryTypes
  <2>2. w.attempt <= Cardinality(attempts) + 1 /\ w.step # "submit"
    BY <1>2, <1>4, <2>1
  <2> QED
    BY <1>1, <1>3, <1>4, <2>2, SendKeeps

LEMMA DiesKeeps ==
    ASSUME DeliveryInvariant, NEW s \in Sends, SendDies(s)
    PROVE  DeliveryInvariant'
BY SendKeeps DEF SendDies

----
\* What is submitted is approved content; if it is to be audited as sent, it has arrived now.
LEMMA SubmitKeeps ==
    ASSUME DeliveryInvariant, NEW s \in Sends, NEW o \in Outcomes, NEW reached \in BOOLEAN,
           Submit(s, o, reached)
    PROVE  DeliveryInvariant'
<1> DEFINE digests == Digests(sending[s].pack)
           x == [sent |-> digests, file |-> disk, approval |-> sending[s].approval,
                 n |-> Cardinality(arrived) + 1]
           w == IF o = "other" THEN NoWork ELSE Unaudited(sending[s].pack, o)
<1>1. DeliveryTypes /\ SendAt(s, "submit") /\ sending[s] \in Submitting
  BY DEF DeliveryInvariant, DeliveryTypes, Submit, SendAt, Auditing
<1>2. UNCHANGED <<pack, disk, question, approval, attempts>> /\ sending' = [sending EXCEPT ![s] = w]
  BY DEF Submit
<1>3. Cardinality(arrived) \in Nat /\ Cardinality(attempts) \in Nat
  BY <1>1, FS_CardinalityType DEF DeliveryTypes
<1>4. digests \in Contents /\ sending[s].approval \in Approvals
  BY <1>1, DigestsTyped DEF Submitting
<1>5. /\ w \in {NoWork} \cup Auditing
      /\ w # NoWork => w.step = "audit" /\ w.result = o /\ w.digests = digests /\ w.attempt = 0
  <2>1. CASE o = "other"
    BY <2>1
  <2>2. CASE o # "other"
    <3>1. w = [step |-> "audit", digests |-> digests, result |-> o, attempt |-> 0]
      BY <2>2 DEF Unaudited
    <3> HIDE DEF w, digests
    <3> QED
      BY <1>4, <3>1 DEF Auditing
  <2> QED
    BY <2>1, <2>2
<1>6. Answering(sending[s].approval) /\ sending[s].approval.digests = digests
  BY <1>1 DEF DeliveryInvariant, CarriesApproved, Approved
<1>7. /\ x \in Arrivals /\ x.sent = digests /\ x.approval = sending[s].approval
      /\ x.n = Cardinality(arrived) + 1
  <2> HIDE DEF digests
  <2> QED
    BY <1>1, <1>3, <1>4 DEF Arrivals, DeliveryTypes
<1>8. arrived' = IF reached THEN arrived \cup {x} ELSE arrived
  BY DEF Submit
<1> HIDE DEF x, w, digests
<1>9. x \notin arrived
  BY <1>3, <1>7 DEF DeliveryInvariant, ArrivalsNumbered
<1>10. /\ IsFiniteSet(arrived')
       /\ Cardinality(arrived') = IF reached THEN Cardinality(arrived) + 1 ELSE Cardinality(arrived)
  BY <1>1, <1>8, <1>9, FS_AddElement DEF DeliveryTypes
<1>11. DeliveryTypes'
  BY <1>1, <1>2, <1>5, <1>7, <1>8, <1>10 DEF DeliveryTypes
<1>12. sending'[s] = w /\ \A q \in Sends \ {s} : sending'[q] = sending[q]
  BY <1>1, <1>2 DEF DeliveryTypes
<1>13. CarriesApproved'
  BY <1>2, <1>5, <1>12 DEF DeliveryInvariant, CarriesApproved, SendAt
<1>14. SubmittedApproved'
  BY <1>6, <1>7, <1>8 DEF DeliveryInvariant, SubmittedApproved, Answering
<1>15. Numbered'
  BY <1>2, <1>3, <1>5, <1>12 DEF DeliveryInvariant, Numbered, SendAt
<1>16. ArrivalsNumbered'
  <2>1. \A y \in arrived : y.n \in Nat /\ y.n <= Cardinality(arrived)
    BY <1>1 DEF DeliveryTypes, Arrivals, DeliveryInvariant, ArrivalsNumbered
  <2> QED
    BY <1>3, <1>7, <1>8, <1>10, <2>1 DEF ArrivalsNumbered
<1>17. Counted'
  <2> SUFFICES ASSUME NEW c \in Contents
               PROVE  Cardinality(SentRows(c)') + Cardinality(SentPending(c)') <= Cardinality(Arrived(c)')
    BY DEF Counted
  <2>1. SentRows(c)' = SentRows(c)
    BY <1>2 DEF SentRows
  <2>2. Cardinality(SentRows(c)) + Cardinality(SentPending(c)) <= Cardinality(Arrived(c))
    BY DEF DeliveryInvariant, Counted
  <2>3. /\ Cardinality(SentRows(c)) \in Nat /\ Cardinality(SentPending(c)) \in Nat
        /\ Cardinality(Arrived(c)) \in Nat /\ IsFiniteSet(SentPending(c)) /\ IsFiniteSet(Arrived(c))
    BY <1>1, CountedFinite
  <2>4. IsFiniteSet(Arrived(c)') /\ Arrived(c) \subseteq Arrived(c)'
    BY <1>8, <1>11, CountedFinite, FS_Subset DEF Arrived, DeliveryTypes
  <2>5. /\ Cardinality(Arrived(c)') \in Nat
        /\ Cardinality(Arrived(c)) <= Cardinality(Arrived(c)')
    BY <2>4, CountsLess
  <2>6. CASE o = "sent" /\ c = digests
    <3>1. reached
      BY <2>6 DEF Submit
    <3>2. Arrived(c)' = Arrived(c) \cup {x} /\ x \notin Arrived(c)
      BY <1>7, <1>8, <1>9, <2>6, <3>1 DEF Arrived
    <3>3. Cardinality(Arrived(c)') = Cardinality(Arrived(c)) + 1
      BY <2>3, <3>2, FS_AddElement
    <3>4. SentPending(c)' \subseteq SentPending(c) \cup {s}
      BY <1>12 DEF SentPending, SendAt
    <3>5. /\ IsFiniteSet(SentPending(c) \cup {s})
          /\ Cardinality(SentPending(c) \cup {s}) <= Cardinality(SentPending(c)) + 1
      BY <2>3, FS_AddElement
    <3>6. /\ Cardinality(SentPending(c)') \in Nat /\ Cardinality(SentPending(c) \cup {s}) \in Nat
          /\ Cardinality(SentPending(c)') <= Cardinality(SentPending(c) \cup {s})
      BY <3>4, <3>5, CountsLess
    <3> QED
      BY <2>1, <2>2, <2>3, <3>3, <3>5, <3>6
  <2>7. CASE ~(o = "sent" /\ c = digests)
    <3>1. SentPending(c)' \subseteq SentPending(c)
      BY <1>5, <1>12, <2>7 DEF SentPending, SendAt
    <3>2. /\ Cardinality(SentPending(c)') \in Nat
          /\ Cardinality(SentPending(c)') <= Cardinality(SentPending(c))
      BY <2>3, <3>1, CountsLess
    <3> QED
      BY <2>1, <2>2, <2>3, <2>5, <3>2
  <2> QED
    BY <2>6, <2>7
<1> QED
  BY <1>11, <1>13, <1>14, <1>15, <1>16, <1>17 DEF DeliveryInvariant

\* A row that is written is the next one; what it says was about to be audited, and no longer is.
LEMMA RowKeeps ==
    ASSUME DeliveryInvariant, NEW s \in Sends, AuditWrite(s)
    PROVE  DeliveryInvariant'
<1> DEFINE row == [attempt |-> sending[s].attempt, result |-> sending[s].result,
                   digests |-> sending[s].digests]
           n == Cardinality(attempts)
<1>1. DeliveryTypes /\ SendAt(s, "audit") /\ sending[s] \in Auditing /\ sending[s].attempt # 0
  BY DEF DeliveryInvariant, DeliveryTypes, AuditWrite, SendAt, Submitting
<1>2. /\ UNCHANGED <<pack, disk, question, approval, begun, arrived>>
      /\ sending' = [sending EXCEPT ![s] = NoWork] /\ attempts' = AppendAttempt(row)
  BY DEF AuditWrite
<1>3. /\ row \in AuditRows /\ row.attempt = sending[s].attempt
      /\ row.result = sending[s].result /\ row.digests = sending[s].digests
  BY <1>1 DEF AuditRows, Auditing
<1> HIDE DEF row
<1>4. n \in Nat
  BY <1>1, FS_CardinalityType DEF DeliveryTypes
<1>5. CASE \E a \in attempts : a.attempt = row.attempt
  BY <1>2, <1>5, SendKeeps DEF AppendAttempt
<1>6. CASE ~\E a \in attempts : a.attempt = row.attempt
  <2>1. attempts' = attempts \cup {row} /\ row \notin attempts
    BY <1>2, <1>6 DEF AppendAttempt
  <2>2. IsFiniteSet(attempts') /\ Cardinality(attempts') = n + 1
    BY <1>1, <2>1, FS_AddElement DEF DeliveryTypes
  <2>3. row.attempt = n + 1
    <3>1. row.attempt \in Nat /\ row.attempt # 0 /\ row.attempt <= n + 1
      BY <1>1, <1>3 DEF Auditing, DeliveryInvariant, Numbered
    <3>2. {a.attempt : a \in attempts} = 1 .. n
      BY DEF DeliveryInvariant, Numbered
    <3>3. row.attempt \notin 1 .. n
      BY <1>6, <3>2
    <3> QED
      BY <1>4, <3>1, <3>3
  <2>4. DeliveryTypes'
    BY <1>1, <1>2, <1>3, <2>1, <2>2 DEF DeliveryTypes
  <2>5. sending'[s] = NoWork /\ \A q \in Sends \ {s} : sending'[q] = sending[q]
    BY <1>1, <1>2 DEF DeliveryTypes
  <2>6. CarriesApproved' /\ SubmittedApproved' /\ ArrivalsNumbered'
    BY <1>2, <2>5 DEF DeliveryInvariant, CarriesApproved, SubmittedApproved, ArrivalsNumbered, SendAt
  <2>7. Numbered'
    <3>1. {a.attempt : a \in attempts'} = {a.attempt : a \in attempts} \cup {row.attempt}
      BY <2>1
    <3>2. {a.attempt : a \in attempts} = 1 .. n
      BY DEF DeliveryInvariant, Numbered
    <3>3. 1 .. n + 1 = (1 .. n) \cup {n + 1}
      BY <1>4
    <3>4. \A q \in Sends : SendAt(q, "audit")' => sending'[q].attempt <= n + 2
      <4> SUFFICES ASSUME NEW q \in Sends, SendAt(q, "audit")' PROVE sending'[q].attempt <= n + 2
        OBVIOUS
      <4>1. sending'[q] = sending[q] /\ SendAt(q, "audit")
        BY <2>5 DEF SendAt
      <4>2. sending[q].attempt \in Nat
        BY <1>1, <4>1 DEF DeliveryTypes, SendAt, Submitting, Auditing
      <4>3. sending[q].attempt <= n + 1
        BY <4>1 DEF DeliveryInvariant, Numbered
      <4> QED
        BY <1>4, <4>1, <4>2, <4>3
    <3> HIDE DEF n
    <3>5. n + 1 + 1 = n + 2
      BY <1>4
    <3> QED
      BY <2>2, <2>3, <3>1, <3>2, <3>3, <3>4, <3>5 DEF Numbered
  <2>8. Counted'
    <3> SUFFICES ASSUME NEW c \in Contents
                 PROVE  Cardinality(SentRows(c)') + Cardinality(SentPending(c)') <= Cardinality(Arrived(c)')
      BY DEF Counted
    <3>1. Arrived(c)' = Arrived(c)
      BY <1>2 DEF Arrived
    <3>2. Cardinality(SentRows(c)) + Cardinality(SentPending(c)) <= Cardinality(Arrived(c))
      BY DEF DeliveryInvariant, Counted
    <3>3. /\ Cardinality(SentRows(c)) \in Nat /\ Cardinality(SentPending(c)) \in Nat
          /\ Cardinality(Arrived(c)) \in Nat /\ IsFiniteSet(SentPending(c)) /\ IsFiniteSet(SentRows(c))
      BY <1>1, CountedFinite
    <3>4. CASE row.result = "sent" /\ row.digests = c
      <4>1. SentRows(c)' = SentRows(c) \cup {row} /\ row \notin SentRows(c)
        BY <2>1, <3>4 DEF SentRows
      <4>2. Cardinality(SentRows(c)') = Cardinality(SentRows(c)) + 1
        BY <3>3, <4>1, FS_AddElement
      <4>3. s \in SentPending(c) /\ SentPending(c)' \subseteq SentPending(c) \ {s}
        BY <1>1, <1>3, <2>5, <3>4 DEF SentPending, SendAt
      <4>4. /\ IsFiniteSet(SentPending(c) \ {s})
            /\ Cardinality(SentPending(c) \ {s}) = Cardinality(SentPending(c)) - 1
        BY <3>3, <4>3, FS_RemoveElement
      <4>5. /\ Cardinality(SentPending(c)') \in Nat
            /\ Cardinality(SentPending(c)') <= Cardinality(SentPending(c) \ {s})
        BY <4>3, <4>4, CountsLess
      <4> QED
        BY <3>1, <3>2, <3>3, <4>2, <4>4, <4>5
    <3>5. CASE ~(row.result = "sent" /\ row.digests = c)
      <4>1. SentRows(c)' = SentRows(c)
        BY <2>1, <3>5 DEF SentRows
      <4>2. SentPending(c)' \subseteq SentPending(c)
        BY <2>5 DEF SentPending, SendAt
      <4>3. /\ Cardinality(SentPending(c)') \in Nat
            /\ Cardinality(SentPending(c)') <= Cardinality(SentPending(c))
        BY <3>3, <4>2, CountsLess
      <4> QED
        BY <3>1, <3>2, <3>3, <4>1, <4>3
    <3> QED
      BY <3>4, <3>5
  <2> QED
    BY <2>4, <2>6, <2>7, <2>8 DEF DeliveryInvariant
<1> QED
  BY <1>5, <1>6

----
LEMMA DeliveryStep == DeliveryInvariant /\ [DeliveryNext]_deliveryVars => DeliveryInvariant'
BY PackKeeps, ApproveKeeps, ReadKeeps, SubmitKeeps, NumberKeeps, RowKeeps, DiesKeeps DEF DeliveryNext

LEMMA DeliverySafety == DeliverySpec => []DeliveryInvariant
BY DeliveryStarts, DeliveryStep, PTL DEF DeliverySpec

\* A number is given once: its audit stays as it is.
LEMMA AuditsStay == [DeliveryNext]_deliveryVars => attempts \subseteq attempts'
BY DEF DeliveryNext, Preview, EditPackage, EditFile, AskApplication, ApproveApplication, SendRead,
       Submit, AuditRead, AuditWrite, AppendAttempt, SendDies, deliveryVars

\* Whatever is edited between question, approval and submission, what arrives is what was approved,
\* and however sends overlap and die, audits are numbered from 1 without a gap and say sent no more
\* often than content arrived (delivery.py, audit.py).
THEOREM ApprovedArrives == DeliverySpec => []DeliveriesApproved
<1>1. DeliveryInvariant => DeliveriesApproved
  <2> SUFFICES ASSUME DeliveryInvariant PROVE DeliveriesApproved
    OBVIOUS
  <2>1. ASSUME NEW c \in Contents
        PROVE  Cardinality({a \in attempts : a.result = "sent" /\ a.digests = c})
                  <= Cardinality({x \in arrived : x.sent = c})
    <3>1. Cardinality(SentRows(c)) + Cardinality(SentPending(c)) <= Cardinality(Arrived(c))
      BY DEF DeliveryInvariant, Counted
    <3>2. /\ Cardinality(SentRows(c)) \in Nat /\ Cardinality(SentPending(c)) \in Nat
          /\ Cardinality(Arrived(c)) \in Nat
      BY CountedFinite DEF DeliveryInvariant
    <3>3. Cardinality(SentRows(c)) <= Cardinality(Arrived(c))
      BY <3>1, <3>2
    <3> QED
      BY <3>3 DEF SentRows, Arrived
  <2>2. AuditTruthful
    BY <2>1 DEF DeliveryInvariant, Numbered, AuditTruthful
  <2> QED
    BY <2>2 DEF DeliveryInvariant, DeliveriesApproved
<1> QED
  BY <1>1, DeliverySafety, PTL

\* No audit is changed or replaced by that of an overlapping send (append_audit).
THEOREM AuditsNeverReplaced == DeliverySpec => AuditsStand
BY AuditsStay, PTL DEF DeliverySpec, AuditsStand

----
(* The memory of preferences: versions, and the lines they make. *)

Versions == [fresh : SUBSET Decisions, digested : BOOLEAN, rules : SUBSET Proposals]
Lines == Seq(Versions)
Files == [there : BOOLEAN, line : Lines]
Stages == {"loaded", "read", "summed", "locked", "backed", "replaced", "fresh", "writing"}
LearningRows == [stage : Stages, line : Lines, events : SUBSET Decisions, next : Lines, tries : Seq(Wordings)]
WatchRows == [stage : {"compiling", "compiled", "checking"}, memory : Files, statutes : SUBSET Statutes]

LearnTypes ==
    /\ answered \subseteq Decisions /\ owned \subseteq Decisions
    /\ memory \in Files /\ history \subseteq Lines /\ locked \in BOOLEAN
    /\ learning \in [Learners -> {NoLearning} \cup LearningRows]

WatchTypes ==
    /\ statutes \subseteq Statutes
    /\ snapshots \subseteq [memory : Files, statutes : SUBSET Statutes]
    /\ watching \in [Watchers -> {NoLearning} \cup WatchRows]

\* One line goes on where the other ends.
Before(a, b) == Len(a) <= Len(b) /\ \A i \in 1 .. Len(a) : a[i] = b[i]

\* What the rules of a version need, of any version.
WarrantedLine(line) ==
    \A r \in RulesOf(line) :
        /\ r.sources \subseteq Consumed(line)
        /\ r.category = "greetings" => \E e \in r.sources : ~Declined(e)
        /\ r.scope = "general" /\ Cardinality(r.sources) = 1
              => \A e \in r.sources : ~Unexplained(e)
        /\ r.scope = "job" => \E e \in r.sources : Feedback[e].job = r.job

\* The file is there once it has a version, and what it was before is kept.
FileSound ==
    /\ memory.line # <<>> => memory.there
    /\ \A h \in history : Before(h, memory.line)
    /\ \A i \in 1 .. Len(memory.line) - 1 : \E h \in history : Len(h) = i
    /\ WarrantedLine(memory.line)

Found(line) == line \in Kept \cup {<<>>}

GoesOn(line, next) == next = line \/ \E v \in Versions : next = Append(line, v)

\* What a learner knows at its stage.
LearningSound(w) ==
    /\ Found(w.line) /\ WarrantedLine(w.line) /\ WarrantedLine(w.next) /\ GoesOn(w.line, w.next)
    /\ w.stage = "backed" => memory.line = w.line /\ (memory.there => memory.line \in history)
    /\ w.stage \in {"replaced", "fresh", "writing"} => Found(w.next)
    /\ Len(w.tries) <= 1

LearnersSound == \A l \in Learners : learning[l] # NoLearning => LearningSound(learning[l])

\* One saves at a time.
LockHeld == \A l \in Learners : Saving(l) => locked /\ \A m \in Learners : Saving(m) => m = l

LearnInvariant ==
    LearnTypes /\ FileSound /\ LearnersSound /\ LockHeld /\ ProvenanceFound /\ RefusalsHold

\* What was read of two sources was so together, or the file has grown since.
TogetherOrPast(line, rules) == Len(line) < Len(memory.line) \/ <<line, rules>> \in met

\* What a watcher has read of the file, and of the rules by its stage.
WatchSound(v) ==
    /\ v.stage = "compiling" => Before(v.memory.line, memory.line)
    /\ v.stage = "compiled" => TogetherOrPast(v.memory.line, v.statutes)
    /\ v.stage = "checking" => <<v.memory.line, v.statutes>> \in met

WatchersSound == \A w \in Watchers : watching[w] # NoLearning => WatchSound(watching[w])
SnapshotsSound == \A s \in snapshots : TogetherOrPast(s.memory.line, s.statutes)

WatchInvariant ==
    /\ WatchTypes /\ <<memory.line, statutes>> \in met
    /\ WatchersSound /\ SnapshotsSound /\ ContextCoherent

----
(* Lines of versions. *)

LEMMA BeforeSame ==
    ASSUME NEW a \in Lines, NEW b \in Lines, Before(a, b), Len(a) = Len(b)
    PROVE  a = b
BY SeqEqual DEF Before, Lines

LEMMA BeforeGrows ==
    ASSUME NEW a \in Lines, NEW b \in Lines, Before(a, b), NEW v
    PROVE  Before(a, Append(b, v))
<1>1. Len(a) \in Nat /\ Len(b) \in Nat
  BY DEF Lines
<1>2. Len(Append(b, v)) = Len(b) + 1 /\ \A i \in 1 .. Len(b) : Append(b, v)[i] = b[i]
  BY AppendProperties DEF Lines
<1> QED BY <1>1, <1>2 DEF Before

LEMMA BeforeIsPart ==
    ASSUME NEW a \in Lines, NEW b \in Lines, NEW c \in Lines, Before(a, c), Before(b, c), Len(a) <= Len(b)
    PROVE  a = SubSeq(b, 1, Len(a))
<1>1. Len(a) \in Nat /\ Len(b) \in Nat
  BY DEF Lines
<1>2. \A i \in 1 .. Len(a) : a[i] = b[i]
  BY <1>1 DEF Before
<1>3. PICK p : p = SubSeq(b, 1, Len(a))
  OBVIOUS
<1>4. p \in Lines /\ Len(p) = Len(a) /\ \A i \in 1 .. Len(a) : p[i] = b[i]
  BY <1>1, <1>3 DEF Lines
<1>5. a = p
  BY <1>1, <1>2, <1>4, SeqEqual DEF Lines
<1> QED BY <1>3, <1>5

\* A version more: what was consumed stays so, and the rules are its own.
LEMMA AppendedLine ==
    ASSUME NEW line \in Lines, NEW v
    PROVE  /\ RulesOf(Append(line, v)) = v.rules
           /\ Consumed(Append(line, v)) = Consumed(line) \cup v.fresh
<1>1. PICK new : new = Append(line, v)
  OBVIOUS
<1>2. PICK n : n = Len(line)
  OBVIOUS
<1>3. n \in Nat /\ Len(new) = n + 1 /\ DOMAIN new = 1 .. n + 1 /\ DOMAIN line = 1 .. n /\ new[n + 1] = v
      /\ \A i \in 1 .. n : new[i] = line[i]
  BY <1>1, <1>2, AppendProperties DEF Lines
<1>4. new # <<>>
  BY <1>3
<1>5. RulesOf(new) = v.rules
  BY <1>3, <1>4 DEF RulesOf
<1>6. Consumed(new) = Consumed(line) \cup v.fresh
  <2>1. ASSUME NEW x, x \in Consumed(new)
        PROVE  x \in Consumed(line) \cup v.fresh
    <3>1. PICK i \in 1 .. n + 1 : x \in new[i].fresh
      BY <1>3, <2>1 DEF Consumed
    <3>2. CASE i = n + 1
      BY <1>3, <3>1, <3>2
    <3>3. CASE i \in 1 .. n
      <4>1. x \in line[i].fresh /\ i \in DOMAIN line
        BY <1>3, <3>1, <3>3
      <4> QED BY <4>1 DEF Consumed
    <3>4. i = n + 1 \/ i \in 1 .. n
      BY <1>3
    <3> QED BY <3>2, <3>3, <3>4
  <2>2. ASSUME NEW x, x \in Consumed(line)
        PROVE  x \in Consumed(new)
    <3>1. PICK i \in 1 .. n : x \in line[i].fresh
      BY <1>3, <2>2 DEF Consumed
    <3>2. x \in new[i].fresh /\ i \in DOMAIN new
      BY <1>3, <3>1
    <3> QED BY <3>2 DEF Consumed
  <2>3. ASSUME NEW x, x \in v.fresh
        PROVE  x \in Consumed(new)
    <3>1. x \in new[n + 1].fresh /\ n + 1 \in DOMAIN new
      BY <1>3, <2>3
    <3> QED BY <3>1 DEF Consumed
  <2> QED BY <2>1, <2>2, <2>3
<1> QED BY <1>1, <1>5, <1>6

\* A rule that is accepted is warranted, whether its decisions can be read now or not.
LEMMA SummaryWarranted ==
    ASSUME NEW line \in Lines, WarrantedLine(line), NEW events, NEW rules \in SUBSET Proposals,
           \A r \in rules : Warranted(r, events, line),
           NEW v, v.fresh = events \ Consumed(line), v.rules = rules
    PROVE  WarrantedLine(Append(line, v))
<1>1. RulesOf(Append(line, v)) = rules /\ Consumed(Append(line, v)) = Consumed(line) \cup events
  BY AppendedLine
<1>2. ASSUME NEW r \in rules
      PROVE  /\ r.sources \subseteq Consumed(line) \cup events
             /\ r.category = "greetings" => \E e \in r.sources : ~Declined(e)
             /\ r.scope = "general" /\ Cardinality(r.sources) = 1
                   => \A e \in r.sources : ~Unexplained(e)
             /\ r.scope = "job" => \E e \in r.sources : Feedback[e].job = r.job
  <2>1. PICK heard : heard = r.sources \cap events
    OBVIOUS
  <2>2. /\ r.sources \subseteq Consumed(line) \cup events
        /\ r.sources \cap (events \ Consumed(line)) = {} => r \in RulesOf(line)
        /\ heard # {} =>
              /\ r.scope = "job" => \E e \in heard : Feedback[e].job = r.job
              /\ r.scope = "general" /\ Cardinality(r.sources) < 2
                    => \E e \in heard : ~Unexplained(e)
              /\ r.category = "greetings" => \E e \in heard : ~Declined(e)
    BY <1>2, <2>1, Zenon DEF Warranted
  <2>3. CASE heard = {}
    <3>1. r \in RulesOf(line)
      BY <2>1, <2>2, <2>3
    <3> QED BY <2>2, <3>1, Zenon DEF WarrantedLine
  <2>4. CASE heard # {}
    <3>1. heard \subseteq r.sources
      BY <2>1
    <3>2. ASSUME r.scope = "general", Cardinality(r.sources) = 1
          PROVE  \A e \in r.sources : ~Unexplained(e)
      <4>1. IsFiniteSet(r.sources)
        BY PreferenceSorts
      <4>2. PICK s : r.sources = {s}
        BY <3>2, <4>1, FS_Singleton
      <4>3. Cardinality(r.sources) < 2
        BY <3>2
      <4>4. PICK e \in heard : ~Unexplained(e)
        BY <2>2, <2>4, <3>2, <4>3, Zenon
      <4>5. e = s
        BY <3>1, <4>2
      <4> QED BY <4>2, <4>4, <4>5, Zenon
    <3> QED BY <2>2, <2>4, <3>1, <3>2, Zenon
  <2> QED BY <2>3, <2>4
<1> QED BY <1>1, <1>2, Zenon DEF WarrantedLine

----
(* The steps of a refresh. *)

LEMMA AtIs ==
    ASSUME LearnInvariant, NEW l \in Learners, NEW stage, AtLearning(l, stage)
    PROVE  /\ learning[l] \in LearningRows /\ LearningSound(learning[l]) /\ learning[l].stage = stage
           /\ learning[l] # NoLearning
BY DEF LearnInvariant, LearnTypes, LearnersSound, AtLearning

LEMMA StageIs ==
    ASSUME NEW old \in LearningRows, NEW stage \in Stages, NEW w, w = [old EXCEPT !.stage = stage]
    PROVE  /\ w \in LearningRows /\ w.stage = stage /\ w.line = old.line /\ w.next = old.next
           /\ w.tries = old.tries
BY DEF LearningRows

LEMMA MovedLearner ==
    ASSUME LearnTypes, NEW l \in Learners, NEW w \in {NoLearning} \cup LearningRows,
           learning' = [learning EXCEPT ![l] = w]
    PROVE  /\ learning' \in [Learners -> {NoLearning} \cup LearningRows]
           /\ learning'[l] = w /\ \A m \in Learners : m # l => learning'[m] = learning[m]
BY DEF LearnTypes

Holds(w) == w # NoLearning /\ w.stage \in {"locked", "backed", "replaced"}

LEMMA SavingIs ==
    /\ \A l \in Learners : Saving(l) <=> Holds(learning[l])
    /\ \A l \in Learners : Saving(l)' <=> Holds(learning'[l])
BY DEF Saving, AtLearning, Holds

\* Nobody comes to hold the lock who did not.
LEMMA LockStays ==
    ASSUME LearnInvariant, NEW l \in Learners, NEW w \in {NoLearning} \cup LearningRows,
           learning' = [learning EXCEPT ![l] = w], UNCHANGED locked, Holds(w) => Saving(l)
    PROVE  LockHeld' /\ locked' \in BOOLEAN
<1>1. learning'[l] = w /\ \A m \in Learners : m # l => learning'[m] = learning[m]
  BY MovedLearner DEF LearnInvariant
<1>2. \A m \in Learners : Saving(m)' => Saving(m)
  BY <1>1, SavingIs, Zenon
<1>3. LockHeld'
  BY <1>2, Zenon DEF LearnInvariant, LockHeld
<1>4. locked' \in BOOLEAN
  BY Zenon DEF LearnInvariant, LearnTypes
<1> QED BY <1>3, <1>4

\* A learner goes on and leaves the file as it is.
LEMMA LearnerGoesOn ==
    ASSUME LearnInvariant, NEW l \in Learners, NEW w, w = NoLearning \/ (w \in LearningRows /\ LearningSound(w)),
           learning' = [learning EXCEPT ![l] = w], UNCHANGED <<memory, history>>
    PROVE  FileSound' /\ LearnersSound' /\ Kept' = Kept
<1>1. w \in {NoLearning} \cup LearningRows
  OBVIOUS
<1>2. learning'[l] = w /\ \A m \in Learners : m # l => learning'[m] = learning[m]
  BY <1>1, MovedLearner DEF LearnInvariant
<1>3. \A v : LearningSound(v) => (memory' = memory /\ history' = history)
  OBVIOUS
<1>4. Kept' = Kept
  BY DEF Kept
<1>5. ASSUME NEW m \in Learners, learning'[m] # NoLearning PROVE LearningSound(learning[m])' 
  <2>1. PICK v : v = learning'[m]
    OBVIOUS
  <2>2. LearningSound(v)
    BY <1>2, <1>5, <2>1 DEF LearnInvariant, LearnersSound
  <2> QED BY <1>4, <2>1, <2>2 DEF LearningSound, Found
<1>6. LearnersSound'
  BY <1>5 DEF LearnersSound
<1>7. FileSound'
  BY DEF LearnInvariant, FileSound
<1> QED BY <1>4, <1>6, <1>7

\* What holds of the file, of what it gave and of every learner when one learner moves.
LEMMA LearnerMoves ==
    ASSUME LearnInvariant, NEW l \in Learners, NEW w, w = NoLearning \/ (w \in LearningRows /\ LearningSound(w)),
           learning' = [learning EXCEPT ![l] = w],
           UNCHANGED <<answered, owned, memory, history, requested, drafted>>, LockHeld', locked' \in BOOLEAN
    PROVE  LearnInvariant'
<1>1. w \in {NoLearning} \cup LearningRows
  OBVIOUS
<1>2. LearnTypes'
  BY <1>1, MovedLearner DEF LearnInvariant, LearnTypes
<1>3. FileSound' /\ LearnersSound' /\ Kept' = Kept
  BY LearnerGoesOn
<1>4. ProvenanceFound'
  BY <1>3 DEF LearnInvariant, ProvenanceFound
<1>5. RefusalsHold'
  BY DEF LearnInvariant, RefusalsHold
<1> QED BY <1>2, <1>3, <1>4, <1>5 DEF LearnInvariant

LEMMA LoadKeeps ==
    ASSUME LearnInvariant, NEW l \in Learners, LoadMemory(l)
    PROVE  LearnInvariant'
<1>1. PICK w : /\ w = [stage |-> "loaded", line |-> memory.line, events |-> {}, next |-> memory.line,
                       tries |-> <<>>]
               /\ learning' = [learning EXCEPT ![l] = w]
  BY DEF LoadMemory, Learns
<1>2. memory.line \in Lines
  BY DEF LearnInvariant, LearnTypes, Files
<1>3. w \in LearningRows
  BY <1>1, <1>2 DEF LearningRows, Stages
<1>4. LearningSound(w)
  <2>1. Found(memory.line) /\ WarrantedLine(memory.line)
    BY DEF Found, Kept, LearnInvariant, FileSound
  <2>2. w.line = memory.line /\ w.next = memory.line /\ w.stage = "loaded" /\ Len(w.tries) = 0
    BY <1>1
  <2> QED BY <2>1, <2>2 DEF LearningSound, GoesOn
<1>5. ~Holds(w)
  BY <1>1 DEF Holds
<1>6. UNCHANGED <<answered, owned, memory, history, locked, requested, drafted>>
  BY DEF LoadMemory
<1>7. LockHeld' /\ locked' \in BOOLEAN
  BY <1>1, <1>3, <1>5, <1>6, LockStays
<1> QED BY <1>1, <1>3, <1>4, <1>6, <1>7, LearnerMoves

LEMMA ReadDecisionsKeeps ==
    ASSUME LearnInvariant, NEW l \in Learners, ReadDecisions(l)
    PROVE  LearnInvariant'
<1>1. PICK old : old = learning[l]
  OBVIOUS
<1>2. PICK w : w = [old EXCEPT !.stage = "read", !.events = StillOwned] /\ learning' = [learning EXCEPT ![l] = w]
  BY <1>1 DEF ReadDecisions, Learns
<1>3. old \in LearningRows /\ LearningSound(old)
  BY <1>1, AtIs DEF ReadDecisions
<1>4. StillOwned \in SUBSET Decisions
  BY DEF StillOwned, LearnInvariant, LearnTypes
<1>5. /\ w \in LearningRows /\ w.stage = "read" /\ w.line = old.line /\ w.next = old.next
      /\ w.tries = old.tries
  BY <1>2, <1>3, <1>4 DEF LearningRows, Stages
<1>6. LearningSound(w)
  BY <1>3, <1>5 DEF LearningSound
<1>7. ~Holds(w)
  BY <1>5 DEF Holds
<1>8. UNCHANGED <<answered, owned, memory, history, locked, requested, drafted>>
  BY DEF ReadDecisions
<1>9. LockHeld' /\ locked' \in BOOLEAN
  BY <1>2, <1>5, <1>7, <1>8, LockStays
<1> QED BY <1>2, <1>5, <1>6, <1>8, <1>9, LearnerMoves

LEMMA SummarizeKeeps ==
    ASSUME LearnInvariant, NEW l \in Learners, Summarize(l)
    PROVE  LearnInvariant'
<1>1. PICK old : old = learning[l]
  OBVIOUS
<1>2. old \in LearningRows /\ LearningSound(old)
  BY <1>1, AtIs DEF Summarize
<1>3. UNCHANGED <<answered, owned, memory, history, locked, requested, drafted>>
  BY DEF Summarize
<1>4. ASSUME NEW w \in LearningRows, w.stage = "summed", LearningSound(w), learning' = [learning EXCEPT ![l] = w]
      PROVE  LearnInvariant'
  <2>1. ~Holds(w)
    BY <1>4 DEF Holds
  <2>2. LockHeld' /\ locked' \in BOOLEAN
    BY <1>3, <1>4, <2>1, LockStays
  <2> QED BY <1>3, <1>4, <2>2, LearnerMoves
<1>5. CASE Reaches(l, "summed")
  <2>1. PICK w : w = [old EXCEPT !.stage = "summed"] /\ learning' = [learning EXCEPT ![l] = w]
    BY <1>1, <1>5 DEF Reaches, Learns
  <2>2. /\ w \in LearningRows /\ w.stage = "summed" /\ w.line = old.line /\ w.next = old.next
        /\ w.tries = old.tries
    BY <1>2, <2>1, StageIs DEF Stages
  <2>3. LearningSound(w)
    BY <1>2, <2>2 DEF LearningSound
  <2> QED BY <1>4, <2>1, <2>2, <2>3
<1>6. CASE \E rules \in {{}} \cup {{r} : r \in Proposals} :
              /\ \A r \in rules : Warranted(r, old.events, old.line)
              /\ Learns(l, [old EXCEPT !.stage = "summed",
                    !.next = Append(old.line, [fresh |-> old.events \ Consumed(old.line), digested |-> TRUE,
                                               rules |-> rules])])
  <2>1. PICK rules \in {{}} \cup {{r} : r \in Proposals} :
              /\ \A r \in rules : Warranted(r, old.events, old.line)
              /\ Learns(l, [old EXCEPT !.stage = "summed",
                    !.next = Append(old.line, [fresh |-> old.events \ Consumed(old.line), digested |-> TRUE,
                                               rules |-> rules])])
    BY <1>6, Zenon
  <2>2. PICK v : v = [fresh |-> old.events \ Consumed(old.line), digested |-> TRUE, rules |-> rules]
    OBVIOUS
  <2>3. PICK w : w = [old EXCEPT !.stage = "summed", !.next = Append(old.line, v)]
                 /\ learning' = [learning EXCEPT ![l] = w]
    BY <2>1, <2>2, Zenon DEF Learns
  <2>4. rules \in SUBSET Proposals
    OBVIOUS
  <2>5. v.fresh = old.events \ Consumed(old.line) /\ v.rules = rules
    BY <2>2
  <2>6. v \in Versions
    <3>1. old.events \ Consumed(old.line) \in SUBSET Decisions
      BY <1>2 DEF LearningRows
    <3> QED BY <2>2, <2>4, <3>1 DEF Versions
  <2>7. old.line \in Lines /\ WarrantedLine(old.line)
    BY <1>2 DEF LearningRows, LearningSound
  <2>8. WarrantedLine(Append(old.line, v))
    <3>1. PICK events : events = old.events
      OBVIOUS
    <3>2. \A r \in rules : Warranted(r, events, old.line)
      BY <2>1, <3>1, Zenon
    <3>3. v.fresh = events \ Consumed(old.line)
      BY <2>5, <3>1
    <3> QED BY <2>4, <2>5, <2>7, <3>2, <3>3, SummaryWarranted
  <2>9. Append(old.line, v) \in Lines
    BY <2>6, <2>7 DEF Lines
  <2>10. /\ w \in LearningRows /\ w.stage = "summed" /\ w.line = old.line /\ w.next = Append(old.line, v)
         /\ w.tries = old.tries
    BY <1>2, <2>3, <2>9 DEF LearningRows, Stages
  <2>11. LearningSound(w)
    BY <1>2, <2>6, <2>8, <2>10 DEF LearningSound, GoesOn
  <2> QED BY <1>4, <2>3, <2>10, <2>11
<1> QED BY <1>1, <1>5, <1>6, Zenon DEF Summarize

LEMMA KeepAsIsKeeps ==
    ASSUME LearnInvariant, NEW l \in Learners, KeepAsIs(l)
    PROVE  LearnInvariant'
<1>1. PICK old : old = learning[l]
  OBVIOUS
<1>2. old \in LearningRows /\ LearningSound(old)
  BY <1>1, AtIs DEF KeepAsIs
<1>3. PICK w : w = [old EXCEPT !.stage = "fresh"] /\ learning' = [learning EXCEPT ![l] = w]
  BY <1>1 DEF KeepAsIs, Reaches, Learns
<1>4. /\ w \in LearningRows /\ w.stage = "fresh" /\ w.line = old.line /\ w.next = old.next
      /\ w.tries = old.tries
  BY <1>2, <1>3, StageIs DEF Stages
<1>5. LearningSound(w)
  <2>1. old.next = old.line
    BY <1>1 DEF KeepAsIs
  <2> QED BY <1>2, <1>4, <2>1 DEF LearningSound
<1>6. ~Holds(w)
  BY <1>4 DEF Holds
<1>7. UNCHANGED <<answered, owned, memory, history, locked, requested, drafted>>
  BY DEF KeepAsIs
<1>8. LockHeld' /\ locked' \in BOOLEAN
  BY <1>3, <1>4, <1>6, <1>7, LockStays
<1> QED BY <1>3, <1>4, <1>5, <1>7, <1>8, LearnerMoves

\* Whoever makes the lock file finds nobody at work under it.
LEMMA TakeKeeps ==
    ASSUME LearnInvariant, NEW l \in Learners, TakeLock(l)
    PROVE  LearnInvariant'
<1>1. PICK old : old = learning[l]
  OBVIOUS
<1>2. old \in LearningRows /\ LearningSound(old)
  BY <1>1, AtIs DEF TakeLock
<1>3. PICK w : w = [old EXCEPT !.stage = "locked"] /\ learning' = [learning EXCEPT ![l] = w]
  BY <1>1 DEF TakeLock, Reaches, Learns
<1>4. /\ w \in LearningRows /\ w.stage = "locked" /\ w.line = old.line /\ w.next = old.next
      /\ w.tries = old.tries
  BY <1>2, <1>3, StageIs DEF Stages
<1>5. LearningSound(w)
  BY <1>2, <1>4 DEF LearningSound
<1>6. UNCHANGED <<answered, owned, memory, history, requested, drafted>> /\ ~locked /\ locked' = TRUE
  BY DEF TakeLock
<1>7. \A m \in Learners : m # l => learning'[m] = learning[m]
  BY <1>3, <1>4, MovedLearner DEF LearnInvariant
<1>8. \A m \in Learners : ~Saving(m)
  BY <1>6, Zenon DEF LearnInvariant, LockHeld
<1>9. \A m \in Learners : Saving(m)' => m = l
  BY <1>7, <1>8, SavingIs, Zenon
<1>10. LockHeld' /\ locked' \in BOOLEAN
  <2>1. locked'
    BY <1>6
  <2>2. LockHeld'
    BY <1>9, <2>1, Zenon DEF LockHeld
  <2>3. locked' \in BOOLEAN
    BY <1>6
  <2> QED BY <2>2, <2>3
<1> QED BY <1>3, <1>4, <1>5, <1>6, <1>10, LearnerMoves

\* A backup adds no version that was not there.
LEMMA BackUpKeeps ==
    ASSUME LearnInvariant, NEW l \in Learners, BackUp(l)
    PROVE  LearnInvariant'
<1>1. PICK old : old = learning[l]
  OBVIOUS
<1>2. old \in LearningRows /\ LearningSound(old) /\ old.stage = "locked" /\ old # NoLearning
  BY <1>1, AtIs DEF BackUp
<1>3. PICK w : w = [old EXCEPT !.stage = "backed"] /\ learning' = [learning EXCEPT ![l] = w]
  BY <1>1 DEF BackUp, Reaches, Learns
<1>4. /\ w \in LearningRows /\ w.stage = "backed" /\ w.line = old.line /\ w.next = old.next
      /\ w.tries = old.tries
  BY <1>2, <1>3, StageIs DEF Stages
<1>5. /\ UNCHANGED <<answered, owned, memory, locked, requested, drafted>>
      /\ history' = IF memory.there THEN history \cup {memory.line} ELSE history
      /\ memory.line = old.line
  BY <1>1 DEF BackUp, AsLoaded
<1>6. memory \in Files
  BY DEF LearnInvariant, LearnTypes
<1>7. memory.line \in Lines
  BY <1>6 DEF Files
<1>8. Kept' = Kept /\ history \subseteq history' /\ history' \subseteq history \cup {memory.line}
  BY <1>5 DEF Kept
<1>9. memory.there => memory.line \in history'
  BY <1>5
<1>10. learning'[l] = w /\ \A m \in Learners : m # l => learning'[m] = learning[m]
  BY <1>3, <1>4, MovedLearner DEF LearnInvariant
<1>11. LearnTypes'
  <2>1. learning' \in [Learners -> {NoLearning} \cup LearningRows]
    BY <1>3, <1>4, MovedLearner DEF LearnInvariant
  <2>2. history' \subseteq Lines
    BY <1>7, <1>8 DEF LearnInvariant, LearnTypes
  <2> QED BY <1>5, <2>1, <2>2, Zenon DEF LearnInvariant, LearnTypes
<1>12. FileSound'
  <2>1. Before(memory.line, memory.line)
    BY <1>7 DEF Before, Lines
  <2>2. \A h \in history' : Before(h, memory.line)
    BY <1>8, <2>1 DEF LearnInvariant, FileSound
  <2>3. \A i \in 1 .. Len(memory.line) - 1 : \E h \in history' : Len(h) = i
    BY <1>8 DEF LearnInvariant, FileSound
  <2>4. (memory.line # <<>> => memory.there) /\ WarrantedLine(memory.line)
    BY DEF LearnInvariant, FileSound
  <2>5. memory' = memory
    BY <1>5
  <2> QED BY <2>2, <2>3, <2>4, <2>5, Zenon DEF FileSound
<1>13. LearnersSound'
  <2>1. ASSUME NEW m \in Learners, learning'[m] # NoLearning PROVE LearningSound(learning[m])'
    <3>1. PICK v : v = learning'[m]
      OBVIOUS
    <3>2. Found(v.line) /\ WarrantedLine(v.line) /\ WarrantedLine(v.next) /\ GoesOn(v.line, v.next)
          /\ (v.stage = "backed" => memory.line = v.line)
          /\ (v.stage \in {"replaced", "fresh", "writing"} => Found(v.next))
          /\ Len(v.tries) <= 1
      <4>1. CASE m = l
        BY <1>2, <1>4, <1>5, <1>10, <3>1, <4>1 DEF LearningSound
      <4>2. CASE m # l
        BY <1>10, <2>1, <3>1, <4>2 DEF LearnInvariant, LearnersSound, LearningSound
      <4> QED BY <4>1, <4>2
    <3>3. memory' = memory
      BY <1>5
    <3> QED BY <1>8, <1>9, <3>1, <3>2, <3>3 DEF LearningSound, Found
  <2> QED BY <2>1 DEF LearnersSound
<1>14. LockHeld'
  <2>1. Saving(l)
    BY <1>1, <1>2, SavingIs DEF Holds
  <2> QED BY <1>3, <1>4, <1>5, <2>1, LockStays
<1>15. ProvenanceFound'
  BY <1>5, <1>8 DEF LearnInvariant, ProvenanceFound
<1>16. RefusalsHold'
  BY <1>5 DEF LearnInvariant, RefusalsHold
<1> QED BY <1>11, <1>12, <1>13, <1>14, <1>15, <1>16 DEF LearnInvariant

\* What is replaced is the version the new one was made of, and is kept.
LEMMA ReplaceKeeps ==
    ASSUME LearnInvariant, NEW l \in Learners, ReplaceMemory(l)
    PROVE  LearnInvariant'
<1>1. PICK old : old = learning[l]
  OBVIOUS
<1>2. old \in LearningRows /\ LearningSound(old) /\ old.stage = "backed" /\ old # NoLearning
  BY <1>1, AtIs DEF ReplaceMemory, Replaceable
<1>3. PICK w : w = [old EXCEPT !.stage = "replaced"] /\ learning' = [learning EXCEPT ![l] = w]
  BY <1>1 DEF ReplaceMemory, Reaches, Learns
<1>4. /\ w \in LearningRows /\ w.stage = "replaced" /\ w.line = old.line /\ w.next = old.next
      /\ w.tries = old.tries
  BY <1>2, <1>3, StageIs DEF Stages
<1>5. UNCHANGED <<answered, owned, history, locked, requested, drafted>>
  BY DEF ReplaceMemory
<1>6. memory' = [there |-> TRUE, line |-> old.next]
  BY <1>1 DEF ReplaceMemory
<1>7. memory'.line = old.next
  BY <1>6
<1>8. old.next \in Lines /\ memory.line \in Lines
  BY <1>2 DEF LearningRows, LearnInvariant, LearnTypes, Files
<1>9. memory' \in Files
  BY <1>6, <1>8 DEF Files
<1>10. /\ memory.line = old.line /\ (memory.there => memory.line \in history)
       /\ WarrantedLine(old.next) /\ GoesOn(memory.line, old.next)
  BY <1>2 DEF LearningSound
<1>11. memory.line # <<>> => memory.line \in history
  BY <1>10 DEF LearnInvariant, FileSound
<1>12. Kept \subseteq Kept' \cup {<<>>}
  BY <1>5, <1>11 DEF Kept
<1>13. \A line : Found(line) => Found(line)'
  BY <1>12 DEF Found
<1>14. learning'[l] = w /\ \A m \in Learners : m # l => learning'[m] = learning[m]
  BY <1>3, <1>4, MovedLearner DEF LearnInvariant
<1>15. Saving(l)
  BY <1>1, <1>2, SavingIs DEF Holds
<1>16. LearnTypes'
  <2>1. learning' \in [Learners -> {NoLearning} \cup LearningRows]
    BY <1>3, <1>4, MovedLearner DEF LearnInvariant
  <2> QED BY <1>5, <1>9, <2>1, Zenon DEF LearnInvariant, LearnTypes
<1>17. FileSound'
  <2>1. \A h \in history : Before(h, old.next)
    <3>1. ASSUME NEW h \in history PROVE Before(h, old.next)
      <4>1. h \in Lines /\ Before(h, memory.line)
        BY DEF LearnInvariant, LearnTypes, FileSound
      <4>2. CASE old.next = memory.line
        BY <4>1, <4>2
      <4>3. CASE \E v \in Versions : old.next = Append(memory.line, v)
        BY <1>8, <4>1, <4>3, BeforeGrows
      <4> QED BY <1>10, <4>2, <4>3 DEF GoesOn
    <3> QED BY <3>1
  <2>2. \A i \in 1 .. Len(old.next) - 1 : \E h \in history : Len(h) = i
    <3>1. \A i \in 1 .. Len(memory.line) - 1 : \E h \in history : Len(h) = i
      BY DEF LearnInvariant, FileSound
    <3>2. CASE old.next = memory.line
      BY <3>1, <3>2
    <3>3. CASE \E v \in Versions : old.next = Append(memory.line, v)
      <4>1. PICK n : n = Len(memory.line)
        OBVIOUS
      <4>2. n \in Nat /\ Len(old.next) = n + 1
        BY <1>8, <3>3, <4>1, AppendProperties DEF Lines
      <4>3. n # 0 => memory.line \in history
        BY <1>8, <1>11, <4>1 DEF Lines
      <4>4. ASSUME NEW i \in 1 .. n PROVE \E h \in history : Len(h) = i
        <5>1. CASE i = n
          BY <4>1, <4>2, <4>3, <5>1
        <5>2. CASE i # n
          BY <3>1, <4>1, <4>2, <5>2
        <5> QED BY <5>1, <5>2
      <4> QED BY <4>2, <4>4
    <3> QED BY <1>10, <3>2, <3>3 DEF GoesOn
  <2>3. memory'.there
    BY <1>6
  <2> QED BY <1>5, <1>7, <1>10, <2>1, <2>2, <2>3, Zenon DEF FileSound
<1>18. LearnersSound'
  <2>1. ASSUME NEW m \in Learners, learning'[m] # NoLearning PROVE LearningSound(learning[m])'
    <3>1. PICK v : v = learning'[m]
      OBVIOUS
    <3>2. CASE m = l
      <4>1. v = w
        BY <1>14, <3>1, <3>2
      <4>2. Found(old.next)'
        BY <1>7 DEF Found, Kept
      <4>3. Found(v.line)'
        BY <1>2, <1>4, <1>13, <4>1 DEF LearningSound
      <4> QED BY <1>2, <1>4, <3>1, <4>1, <4>2, <4>3 DEF LearningSound
    <3>3. CASE m # l
      <4>1. v = learning[m] /\ v # NoLearning
        BY <1>14, <2>1, <3>1, <3>3
      <4>2. LearningSound(v)
        BY <4>1 DEF LearnInvariant, LearnersSound
      <4>3. v.stage # "backed"
        <5>1. ~Saving(m)
          BY <1>15, <3>3, Zenon DEF LearnInvariant, LockHeld
        <5> QED BY <4>1, <5>1, SavingIs DEF Holds
      <4>4. Found(v.line)' /\ (v.stage \in {"replaced", "fresh", "writing"} => Found(v.next)')
        BY <1>13, <4>2 DEF LearningSound
      <4> QED BY <3>1, <4>2, <4>3, <4>4 DEF LearningSound
    <3> QED BY <3>2, <3>3
  <2> QED BY <2>1 DEF LearnersSound
<1>19. LockHeld'
  BY <1>3, <1>4, <1>5, <1>15, LockStays
<1>20. ProvenanceFound'
  BY <1>5, <1>12 DEF LearnInvariant, ProvenanceFound
<1>21. RefusalsHold'
  BY <1>5 DEF LearnInvariant, RefusalsHold
<1> QED BY <1>16, <1>17, <1>18, <1>19, <1>20, <1>21 DEF LearnInvariant

\* Once the one who held the lock is gone, nobody saves.
LEMMA LockLeft ==
    ASSUME LearnInvariant, NEW l \in Learners, Saving(l), NEW w \in {NoLearning} \cup LearningRows, ~Holds(w),
           learning' = [learning EXCEPT ![l] = w]
    PROVE  LockHeld'
<1>1. learning'[l] = w /\ \A m \in Learners : m # l => learning'[m] = learning[m]
  BY MovedLearner DEF LearnInvariant
<1>2. \A m \in Learners : Saving(m) => m = l
  BY Zenon DEF LearnInvariant, LockHeld
<1>3. \A m \in Learners : ~Saving(m)'
  BY <1>1, <1>2, SavingIs, Zenon
<1> QED BY <1>3, Zenon DEF LockHeld

LEMMA ReleaseKeeps ==
    ASSUME LearnInvariant, NEW l \in Learners, ReleaseLock(l)
    PROVE  LearnInvariant'
<1>1. PICK old : old = learning[l]
  OBVIOUS
<1>2. old \in LearningRows /\ LearningSound(old) /\ old.stage = "replaced" /\ old # NoLearning
  BY <1>1, AtIs DEF ReleaseLock
<1>3. PICK w : w = [old EXCEPT !.stage = "fresh"] /\ learning' = [learning EXCEPT ![l] = w]
  BY <1>1 DEF ReleaseLock, Reaches, Learns
<1>4. /\ w \in LearningRows /\ w.stage = "fresh" /\ w.line = old.line /\ w.next = old.next
      /\ w.tries = old.tries
  BY <1>2, <1>3, StageIs DEF Stages
<1>5. LearningSound(w)
  BY <1>2, <1>4 DEF LearningSound
<1>6. ~Holds(w)
  BY <1>4 DEF Holds
<1>7. Saving(l)
  BY <1>1, <1>2, SavingIs DEF Holds
<1>8. UNCHANGED <<answered, owned, memory, history, requested, drafted>> /\ locked' = FALSE
  BY DEF ReleaseLock
<1>9. LockHeld'
  BY <1>3, <1>4, <1>6, <1>7, LockLeft
<1>10. locked' \in BOOLEAN
  BY <1>8
<1> QED BY <1>3, <1>4, <1>5, <1>8, <1>9, <1>10, LearnerMoves

LEMMA FailureKeeps ==
    ASSUME LearnInvariant, NEW l \in Learners, LearningFails(l)
    PROVE  LearnInvariant'
<1>1. UNCHANGED <<answered, owned, memory, history, requested, drafted>>
  BY Zenon DEF LearningFails
<1>2. learning' = [learning EXCEPT ![l] = NoLearning]
  BY Zenon DEF LearningFails, Learns, AfterRefusal
<1>3. locked' = (locked /\ ~Saving(l))
  BY Zenon DEF LearningFails
<1>4. ~Holds(NoLearning)
  BY DEF Holds
<1>5. LockHeld' /\ locked' \in BOOLEAN
  <2>1. CASE Saving(l)
    <3>1. LockHeld'
      BY <1>2, <1>4, <2>1, LockLeft
    <3>2. locked' = FALSE
      BY <1>3, <2>1
    <3> QED BY <3>1, <3>2
  <2>2. CASE ~Saving(l)
    <3>1. locked \in BOOLEAN
      BY Zenon DEF LearnInvariant, LearnTypes
    <3>2. UNCHANGED locked
      BY <1>3, <2>2, <3>1
    <3> QED BY <1>2, <1>4, <3>2, LockStays
  <2> QED BY <2>1, <2>2
<1> QED BY <1>1, <1>2, <1>5, LearnerMoves

LEMMA DeathKeeps ==
    ASSUME LearnInvariant, NEW l \in Learners, LearnerDies(l)
    PROVE  LearnInvariant'
<1>1. UNCHANGED <<answered, owned, memory, history, locked, requested, drafted>>
      /\ learning' = [learning EXCEPT ![l] = NoLearning]
  BY DEF LearnerDies, Learns
<1>2. ~Holds(NoLearning)
  BY DEF Holds
<1>3. LockHeld' /\ locked' \in BOOLEAN
  BY <1>1, <1>2, LockStays
<1> QED BY <1>1, <1>3, LearnerMoves

\* A request with rules of a version that can be looked up; its learner goes on without the lock.
LEMMA RequestKeeps ==
    ASSUME LearnInvariant, NEW l \in Learners, AtLearning(l, "fresh"), NEW rules,
           rules \subseteq RulesOf(learning[l].next), RequestWith(learning[l].next, rules),
           NEW w, w = NoLearning \/ w = [learning[l] EXCEPT !.stage = "writing"],
           learning' = [learning EXCEPT ![l] = w],
           UNCHANGED <<answered, owned, memory, history, locked, drafted>>
    PROVE  LearnInvariant'
<1>1. PICK old : old = learning[l]
  OBVIOUS
<1>2. old \in LearningRows /\ LearningSound(old) /\ old.stage = "fresh" /\ old # NoLearning
  BY <1>1, AtIs
<1>3. (w = NoLearning \/ (w \in LearningRows /\ LearningSound(w))) /\ ~Holds(w)
  <2>1. CASE w = NoLearning
    BY <2>1 DEF Holds
  <2>2. CASE w = [old EXCEPT !.stage = "writing"]
    <3>1. /\ w \in LearningRows /\ w.stage = "writing" /\ w.line = old.line /\ w.next = old.next
          /\ w.tries = old.tries
      BY <1>2, <2>2, StageIs DEF Stages
    <3>2. LearningSound(w)
      BY <1>2, <3>1 DEF LearningSound
    <3>3. ~Holds(w)
      BY <3>1 DEF Holds
    <3> QED BY <3>1, <3>2, <3>3
  <2> QED BY <1>1, <2>1, <2>2
<1>4. LockHeld' /\ locked' \in BOOLEAN
  BY <1>3, LockStays
<1>5. LearnTypes'
  <2>1. learning' \in [Learners -> {NoLearning} \cup LearningRows]
    BY <1>3, MovedLearner DEF LearnInvariant
  <2> QED BY <2>1, Zenon DEF LearnInvariant, LearnTypes
<1>6. FileSound' /\ LearnersSound' /\ Kept' = Kept
  BY <1>3, LearnerGoesOn
<1>7. ProvenanceFound'
  <2>1. Found(old.next)
    BY <1>2 DEF LearningSound
  <2>2. PICK new : new = [line |-> old.next, rules |-> rules]
    OBVIOUS
  <2>3. new.line = old.next /\ new.rules = rules
    BY <2>2
  <2>4. requested' = requested \cup {new}
    BY <1>1, <2>2 DEF RequestWith
  <2>5. \A q \in requested' : q.line \in Kept \cup {<<>>} /\ q.rules \subseteq RulesOf(q.line)
    BY <1>1, <2>1, <2>3, <2>4 DEF LearnInvariant, ProvenanceFound, Found
  <2>6. \A g \in drafted' : g.line \in Kept \cup {<<>>}
    BY DEF LearnInvariant, ProvenanceFound
  <2> QED BY <1>6, <2>5, <2>6 DEF ProvenanceFound
<1>8. RefusalsHold'
  BY DEF LearnInvariant, RefusalsHold
<1> QED BY <1>4, <1>5, <1>6, <1>7, <1>8 DEF LearnInvariant

LEMMA PlanKeeps ==
    ASSUME LearnInvariant, NEW l \in Learners, PlanSearch(l)
    PROVE  LearnInvariant'
<1>1. PICK rules \in SUBSET Eligible(learning[l].next, "search", NoLearning) :
          RequestWith(learning[l].next, rules)
  BY Zenon DEF PlanSearch
<1>2. rules \subseteq RulesOf(learning[l].next)
  BY DEF Eligible
<1>3. AtLearning(l, "fresh") /\ learning' = [learning EXCEPT ![l] = NoLearning]
      /\ UNCHANGED <<answered, owned, memory, history, locked, drafted>>
  BY DEF PlanSearch, Learns
<1> QED BY <1>1, <1>2, <1>3, RequestKeeps

LEMMA GreetingRequestKeeps ==
    ASSUME LearnInvariant, NEW l \in Learners, RequestGreeting(l)
    PROVE  LearnInvariant'
<1>1. PICK job : /\ \E rules \in SUBSET Eligible(learning[l].next, "greeting", job) :
                       RequestWith(learning[l].next, rules)
                /\ IF job = NoLearning THEN Learns(l, NoLearning) ELSE Reaches(l, "writing")
  BY Zenon DEF RequestGreeting
<1>2. PICK rules \in SUBSET Eligible(learning[l].next, "greeting", job) :
          RequestWith(learning[l].next, rules)
  BY <1>1, Zenon
<1>3. rules \subseteq RulesOf(learning[l].next)
  BY DEF Eligible
<1>4. AtLearning(l, "fresh") /\ UNCHANGED <<answered, owned, memory, history, locked, drafted>>
  BY DEF RequestGreeting
<1>5. PICK w : /\ w = NoLearning \/ w = [learning[l] EXCEPT !.stage = "writing"]
               /\ learning' = [learning EXCEPT ![l] = w]
  BY <1>1 DEF Reaches, Learns
<1> QED BY <1>2, <1>3, <1>4, <1>5, RequestKeeps

\* Whatever is kept differs from the one text that may have been refused before it.
LEMMA AttemptKeeps ==
    ASSUME LearnInvariant, NEW l \in Learners, Attempt(l)
    PROVE  LearnInvariant'
<1>1. PICK old : old = learning[l]
  OBVIOUS
<1>2. old \in LearningRows /\ LearningSound(old) /\ old.stage = "writing" /\ old # NoLearning
  BY <1>1, AtIs DEF Attempt
<1>3. UNCHANGED <<answered, owned, memory, history, locked, requested>>
  BY Zenon DEF Attempt
<1>4. PICK text \in Wordings, clean \in BOOLEAN :
          /\ clean => Revised(old.tries, text)
          /\ IF clean
             THEN /\ drafted' = drafted \cup {[line |-> old.next, text |-> text,
                         refused |-> {old.tries[i] : i \in DOMAIN old.tries}]}
                  /\ Learns(l, NoLearning)
             ELSE /\ Learns(l, IF old.tries # <<>> THEN NoLearning
                               ELSE [old EXCEPT !.tries = <<text>>])
                  /\ UNCHANGED drafted
  BY <1>1, Zenon DEF Attempt
<1>5. CASE clean
  <2>1. PICK new : new = [line |-> old.next, text |-> text, refused |-> {old.tries[i] : i \in DOMAIN old.tries}]
    OBVIOUS
  <2>2. drafted' = drafted \cup {new} /\ learning' = [learning EXCEPT ![l] = NoLearning]
    BY <1>4, <1>5, <2>1, Zenon DEF Learns
  <2>3. Revised(old.tries, text)
    BY <1>4, <1>5, Zenon
  <2>4. new.line = old.next /\ new.text = text /\ new.refused = {old.tries[i] : i \in DOMAIN old.tries}
    BY <2>1
  <2>5. text \notin {old.tries[i] : i \in DOMAIN old.tries}
    <3>1. PICK s \in Seq(Wordings) : s = old.tries
      BY <1>2 DEF LearningRows
    <3>2. Len(s) <= 1 /\ DOMAIN s = 1 .. Len(s) /\ Len(s) \in Nat
      BY <1>2, <3>1 DEF LearningSound
    <3>3. ASSUME NEW i \in DOMAIN s PROVE s[i] # text
      <4>1. i = 1 /\ Len(s) = 1
        BY <3>2
      <4>2. s # <<>>
        BY <4>1
      <4> QED BY <2>3, <3>1, <4>1, <4>2 DEF Revised
    <3> QED BY <3>1, <3>3
  <2>6. ~Holds(NoLearning)
    BY DEF Holds
  <2>7. LockHeld' /\ locked' \in BOOLEAN
    BY <1>3, <2>2, <2>6, LockStays
  <2>8. FileSound' /\ LearnersSound' /\ Kept' = Kept
    BY <1>3, <2>2, LearnerGoesOn
  <2>9. LearnTypes'
    <3>1. learning' \in [Learners -> {NoLearning} \cup LearningRows]
      BY <2>2, MovedLearner DEF LearnInvariant
    <3> QED BY <1>3, <3>1, Zenon DEF LearnInvariant, LearnTypes
  <2>10. ProvenanceFound'
    <3>1. Found(old.next)
      BY <1>2 DEF LearningSound
    <3>2. \A g \in drafted' : g.line \in Kept \cup {<<>>}
      BY <2>2, <2>4, <3>1 DEF LearnInvariant, ProvenanceFound, Found
    <3> QED BY <1>3, <2>8, <3>2 DEF LearnInvariant, ProvenanceFound
  <2>11. RefusalsHold'
    BY <2>2, <2>4, <2>5 DEF LearnInvariant, RefusalsHold
  <2> QED BY <2>7, <2>8, <2>9, <2>10, <2>11 DEF LearnInvariant
<1>6. CASE ~clean
  <2>1. PICK w : w = IF old.tries # <<>> THEN NoLearning ELSE [old EXCEPT !.tries = <<text>>]
    OBVIOUS
  <2>2. learning' = [learning EXCEPT ![l] = w] /\ UNCHANGED drafted
    BY <1>4, <1>6, <2>1, Zenon DEF Learns
  <2>3. w = NoLearning \/ w = [old EXCEPT !.tries = <<text>>]
    BY <2>1
  <2>4. (w = NoLearning \/ (w \in LearningRows /\ LearningSound(w))) /\ ~Holds(w)
    <3>1. CASE w = NoLearning
      BY <3>1 DEF Holds
    <3>2. CASE w = [old EXCEPT !.tries = <<text>>]
      <4>1. PICK s : s = <<text>>
        OBVIOUS
      <4>2. s \in Seq(Wordings) /\ Len(s) = 1
        BY <4>1
      <4>3. /\ w \in LearningRows /\ w.stage = old.stage /\ w.line = old.line /\ w.next = old.next
            /\ w.tries = s
        BY <1>2, <3>2, <4>1, <4>2 DEF LearningRows
      <4>4. LearningSound(w)
        <5>1. Found(old.line) /\ WarrantedLine(old.line) /\ WarrantedLine(old.next)
              /\ GoesOn(old.line, old.next) /\ Found(old.next)
          BY <1>2 DEF LearningSound
        <5>2. w.stage = "writing"
          BY <1>2, <4>3, Zenon
        <5>3. Len(s) <= 1
          BY <4>2
        <5>4. Len(w.tries) <= 1
          BY <4>3, <5>3, Zenon
        <5>5. w.stage # "backed"
          BY <5>2
        <5> QED BY <4>3, <5>1, <5>4, <5>5, Zenon DEF LearningSound
      <4>5. ~Holds(w)
        BY <1>2, <4>3 DEF Holds
      <4> QED BY <4>3, <4>4, <4>5
    <3> QED BY <2>3, <3>1, <3>2
  <2>5. LockHeld' /\ locked' \in BOOLEAN
    BY <1>3, <2>2, <2>4, LockStays
  <2> QED BY <1>3, <2>2, <2>4, <2>5, LearnerMoves
<1> QED BY <1>5, <1>6

\* A decision, or evidence, that changes is only read.
LEMMA OwnerKeeps ==
    ASSUME LearnInvariant, NEW d \in Decisions, TellDecision(d) \/ EditEvidence(d) \/ ConfirmEvidence(d)
    PROVE  LearnInvariant'
<1>1. UNCHANGED <<memory, history, locked, learning, requested, drafted>>
  BY DEF TellDecision, EditEvidence, ConfirmEvidence
<1>2. answered' \subseteq Decisions /\ owned' \subseteq Decisions
  BY DEF TellDecision, EditEvidence, ConfirmEvidence, LearnInvariant, LearnTypes
<1>3. LearnTypes'
  BY <1>1, <1>2, Zenon DEF LearnInvariant, LearnTypes
<1>4. Kept' = Kept
  BY <1>1 DEF Kept
<1>5. FileSound'
  BY <1>1 DEF LearnInvariant, FileSound
<1>6. LearnersSound'
  BY <1>1, <1>4 DEF LearnInvariant, LearnersSound, LearningSound, Found
<1>7. LockHeld'
  <2>1. \A l \in Learners : Saving(l)' <=> Saving(l)
    BY <1>1, SavingIs, Zenon
  <2> QED BY <1>1, <2>1, Zenon DEF LearnInvariant, LockHeld
<1>8. ProvenanceFound' /\ RefusalsHold'
  BY <1>1, <1>4 DEF LearnInvariant, ProvenanceFound, RefusalsHold
<1> QED BY <1>3, <1>5, <1>6, <1>7, <1>8 DEF LearnInvariant

LEMMA LearnStep ==
    ASSUME LearnInvariant, PreferenceNext
    PROVE  LearnInvariant' /\ GoesOn(memory.line, memory'.line)
<1>1. CASE LearnNext
  <2>1. CASE \E d \in Decisions : TellDecision(d) \/ EditEvidence(d) \/ ConfirmEvidence(d)
    <3>1. LearnInvariant'
      BY <2>1, OwnerKeeps
    <3>2. memory' = memory
      BY <2>1 DEF TellDecision, EditEvidence, ConfirmEvidence
    <3> QED BY <3>1, <3>2 DEF GoesOn
  <2>2. ASSUME NEW l \in Learners, ReplaceMemory(l)
        PROVE  LearnInvariant' /\ GoesOn(memory.line, memory'.line)
    <3>1. LearnInvariant'
      BY <2>2, ReplaceKeeps
    <3>2. LearningSound(learning[l]) /\ learning[l].stage = "backed"
      BY <2>2, AtIs DEF ReplaceMemory, Replaceable
    <3>3. memory'.line = learning[l].next
      BY <2>2 DEF ReplaceMemory
    <3> QED BY <3>1, <3>2, <3>3 DEF LearningSound
  <2>3. ASSUME NEW l \in Learners,
               \/ LoadMemory(l) \/ ReadDecisions(l) \/ Summarize(l) \/ KeepAsIs(l) \/ TakeLock(l)
               \/ BackUp(l) \/ ReleaseLock(l) \/ LearningFails(l) \/ LearnerDies(l)
               \/ PlanSearch(l) \/ RequestGreeting(l) \/ Attempt(l)
        PROVE  LearnInvariant' /\ GoesOn(memory.line, memory'.line)
    <3>1. LearnInvariant'
      BY <2>3, LoadKeeps, ReadDecisionsKeeps, SummarizeKeeps, KeepAsIsKeeps, TakeKeeps, BackUpKeeps, ReleaseKeeps,
         FailureKeeps, DeathKeeps, PlanKeeps, GreetingRequestKeeps, AttemptKeeps, Zenon
    <3>2. memory' = memory
      BY <2>3, Zenon DEF LoadMemory, ReadDecisions, Summarize, KeepAsIs, TakeLock, BackUp, ReleaseLock,
         LearningFails, LearnerDies, PlanSearch, RequestGreeting, Attempt
    <3> QED BY <3>1, <3>2 DEF GoesOn
  <2> QED BY <1>1, <2>1, <2>2, <2>3, Zenon DEF LearnNext
<1>2. CASE UNCHANGED learnVars
  <2>1. UNCHANGED <<answered, owned, memory, history, locked, learning, requested, drafted>>
    BY <1>2 DEF learnVars
  <2>2. LearnTypes'
    BY <2>1, Zenon DEF LearnInvariant, LearnTypes
  <2>3. Kept' = Kept
    BY <2>1 DEF Kept
  <2>4. FileSound'
    BY <2>1 DEF LearnInvariant, FileSound
  <2>5. LearnersSound'
    BY <2>1, <2>3 DEF LearnInvariant, LearnersSound, LearningSound, Found
  <2>6. LockHeld'
    <3>1. \A l \in Learners : Saving(l)' <=> Saving(l)
      BY <2>1, SavingIs, Zenon
    <3> QED BY <2>1, <3>1, Zenon DEF LearnInvariant, LockHeld
  <2>7. ProvenanceFound' /\ RefusalsHold'
    BY <2>1, <2>3 DEF LearnInvariant, ProvenanceFound, RefusalsHold
  <2>8. GoesOn(memory.line, memory'.line)
    BY <2>1 DEF GoesOn
  <2> QED BY <2>2, <2>4, <2>5, <2>6, <2>7, <2>8 DEF LearnInvariant
<1> QED BY <1>1, <1>2, Zenon DEF PreferenceNext

----
(* The steps of a context. *)

\* The file grows, and what was together has been so for good.
LEMMA PastStays ==
    ASSUME memory.line \in Lines, GoesOn(memory.line, memory'.line), met \subseteq met',
           NEW line \in Lines, NEW rules, TogetherOrPast(line, rules)
    PROVE  TogetherOrPast(line, rules)'
<1>1. PICK old, new : old = memory.line /\ new = memory'.line
  OBVIOUS
<1>2. Len(new) \in Nat /\ Len(old) \in Nat /\ Len(old) <= Len(new)
  <2>1. CASE new = old
    BY <1>1, <2>1 DEF Lines
  <2>2. CASE \E v \in Versions : new = Append(old, v)
    BY <1>1, <2>2, AppendProperties DEF Lines
  <2> QED BY <1>1, <2>1, <2>2 DEF GoesOn
<1>3. CASE Len(line) < Len(old)
  <2>1. Len(line) < Len(new)
    BY <1>2, <1>3 DEF Lines
  <2> QED BY <1>1, <2>1 DEF TogetherOrPast
<1>4. CASE <<line, rules>> \in met
  BY <1>4 DEF TogetherOrPast
<1> QED BY <1>1, <1>3, <1>4 DEF TogetherOrPast

LEMMA WatchStays ==
    ASSUME memory.line \in Lines, GoesOn(memory.line, memory'.line), met \subseteq met',
           NEW v \in WatchRows, WatchSound(v)
    PROVE  WatchSound(v)'
<1>1. v.memory.line \in Lines
  BY DEF WatchRows, Files
<1>2. ASSUME v.stage = "compiling" PROVE Before(v.memory.line, memory'.line)
  <2>1. Before(v.memory.line, memory.line)
    BY <1>2 DEF WatchSound
  <2> QED BY <1>1, <2>1, BeforeGrows DEF GoesOn
<1>3. ASSUME v.stage = "compiled" PROVE TogetherOrPast(v.memory.line, v.statutes)'
  <2>1. TogetherOrPast(v.memory.line, v.statutes)
    BY <1>3 DEF WatchSound
  <2> QED BY <1>1, <2>1, PastStays
<1>4. ASSUME v.stage = "checking" PROVE <<v.memory.line, v.statutes>> \in met'
  BY <1>4 DEF WatchSound
<1> QED BY <1>2, <1>3, <1>4 DEF WatchSound

\* Nothing that was kept of what held together is lost, whoever acts.
LEMMA TogetherStays ==
    ASSUME LearnInvariant, WatchInvariant, PreferenceNext
    PROVE  /\ <<memory'.line, statutes'>> \in met' /\ met \subseteq met'
           /\ \A v \in WatchRows : WatchSound(v) => WatchSound(v)'
           /\ \A s \in snapshots : TogetherOrPast(s.memory.line, s.statutes)'
           /\ \A b \in bundles : <<b.line, b.statutes>> \in met'
<1>1. met' = met \cup {<<memory'.line, statutes'>>}
  BY DEF PreferenceNext
<1>2. <<memory'.line, statutes'>> \in met' /\ met \subseteq met'
  BY <1>1
<1>3. memory.line \in Lines /\ GoesOn(memory.line, memory'.line)
  BY LearnStep DEF LearnInvariant, LearnTypes, Files
<1>4. \A v \in WatchRows : WatchSound(v) => WatchSound(v)'
  BY <1>2, <1>3, WatchStays
<1>5. ASSUME NEW s \in snapshots PROVE TogetherOrPast(s.memory.line, s.statutes)'
  <2>1. s.memory.line \in Lines /\ TogetherOrPast(s.memory.line, s.statutes)
    BY DEF WatchInvariant, WatchTypes, SnapshotsSound, Files
  <2> QED BY <1>2, <1>3, <2>1, PastStays
<1>6. \A b \in bundles : <<b.line, b.statutes>> \in met'
  BY <1>2 DEF WatchInvariant, ContextCoherent
<1> QED BY <1>2, <1>4, <1>5, <1>6

LEMMA WatcherMoves ==
    ASSUME LearnInvariant, WatchInvariant, PreferenceNext, NEW w \in Watchers, NEW v,
           v = NoLearning \/ (v \in WatchRows /\ WatchSound(v)), watching' = [watching EXCEPT ![w] = v]
    PROVE  watching' \in [Watchers -> {NoLearning} \cup WatchRows] /\ WatchersSound'
<1>1. watching \in [Watchers -> {NoLearning} \cup WatchRows]
  BY DEF WatchInvariant, WatchTypes
<1>2. v \in {NoLearning} \cup WatchRows
  OBVIOUS
<1>3. /\ watching' \in [Watchers -> {NoLearning} \cup WatchRows]
      /\ watching'[w] = v /\ \A x \in Watchers : x # w => watching'[x] = watching[x]
  BY <1>1, <1>2
<1>4. ASSUME NEW x \in Watchers, watching'[x] # NoLearning PROVE WatchSound(watching[x])'
  <2>1. PICK u : u = watching'[x]
    OBVIOUS
  <2>2. u \in WatchRows
    BY <1>3, <1>4, <2>1
  <2>3. WatchSound(u)
    BY <1>3, <1>4, <2>1 DEF WatchInvariant, WatchersSound
  <2>4. WatchSound(u)'
    BY <2>2, <2>3, TogetherStays
  <2> QED BY <2>1, <2>4 DEF WatchSound
<1>5. WatchersSound'
  BY <1>4 DEF WatchersSound
<1> QED BY <1>3, <1>5

\* What holds of the rest, for a step that gives neither a snapshot nor a context.
LEMMA WatcherKeeps ==
    ASSUME LearnInvariant, WatchInvariant, PreferenceNext, statutes' \subseteq Statutes,
           watching' \in [Watchers -> {NoLearning} \cup WatchRows], WatchersSound',
           UNCHANGED <<snapshots, bundles>>
    PROVE  WatchInvariant'
<1>1. WatchTypes'
  BY Zenon DEF WatchInvariant, WatchTypes
<1>2. SnapshotsSound'
  BY TogetherStays DEF SnapshotsSound
<1>3. ContextCoherent'
  BY TogetherStays DEF ContextCoherent
<1>4. (<<memory.line, statutes>> \in met)'
  BY TogetherStays
<1> QED BY <1>1, <1>2, <1>3, <1>4 DEF WatchInvariant

LEMMA WatchingIs ==
    ASSUME WatchInvariant, NEW w \in Watchers, NEW stage, AtWatching(w, stage)
    PROVE  watching[w] \in WatchRows /\ WatchSound(watching[w]) /\ watching[w].stage = stage
BY DEF WatchInvariant, WatchTypes, WatchersSound, AtWatching

LEMMA StatuteKeeps ==
    ASSUME LearnInvariant, WatchInvariant, PreferenceNext, statutes' \subseteq Statutes,
           UNCHANGED <<snapshots, watching, bundles>>
    PROVE  WatchInvariant'
<1>1. watching' \in [Watchers -> {NoLearning} \cup WatchRows]
  BY DEF WatchInvariant, WatchTypes
<1>2. ASSUME NEW x \in Watchers, watching'[x] # NoLearning PROVE WatchSound(watching[x])'
  <2>1. PICK u : u = watching'[x]
    OBVIOUS
  <2>2. u \in WatchRows /\ WatchSound(u)
    BY <1>2, <2>1 DEF WatchInvariant, WatchTypes, WatchersSound
  <2>3. WatchSound(u)'
    BY <2>2, TogetherStays
  <2> QED BY <2>1, <2>3 DEF WatchSound
<1>3. WatchersSound'
  BY <1>2 DEF WatchersSound
<1> QED BY <1>1, <1>3, WatcherKeeps

LEMMA CompileMemoryKeeps ==
    ASSUME LearnInvariant, WatchInvariant, PreferenceNext, NEW w \in Watchers, CompileMemory(w)
    PROVE  WatchInvariant'
<1>1. PICK v : v = [stage |-> "compiling", memory |-> memory, statutes |-> {}]
               /\ watching' = [watching EXCEPT ![w] = v]
  BY DEF CompileMemory, Watches
<1>2. memory \in Files
  BY DEF LearnInvariant, LearnTypes
<1>3. v \in WatchRows /\ v.stage = "compiling" /\ v.memory = memory
  BY <1>1, <1>2 DEF WatchRows
<1>4. Before(memory.line, memory.line)
  BY <1>2 DEF Before, Files, Lines
<1>5. WatchSound(v)
  BY <1>3, <1>4 DEF WatchSound
<1>6. statutes' \subseteq Statutes /\ UNCHANGED <<snapshots, bundles>>
  BY DEF CompileMemory, WatchInvariant, WatchTypes
<1> QED BY <1>1, <1>3, <1>5, <1>6, WatcherMoves, WatcherKeeps

\* The rules are read while the file is what was read of it, or after it has grown.
LEMMA CompileStatutesKeeps ==
    ASSUME LearnInvariant, WatchInvariant, PreferenceNext, NEW w \in Watchers, CompileStatutes(w)
    PROVE  WatchInvariant'
<1>1. PICK old : old = watching[w]
  OBVIOUS
<1>2. old \in WatchRows /\ WatchSound(old) /\ old.stage = "compiling"
  BY <1>1, WatchingIs DEF CompileStatutes
<1>3. PICK v : v = [old EXCEPT !.stage = "compiled", !.statutes = statutes]
               /\ watching' = [watching EXCEPT ![w] = v]
  BY <1>1 DEF CompileStatutes, Watches
<1>4. statutes \in SUBSET Statutes
  BY DEF WatchInvariant, WatchTypes
<1>5. v \in WatchRows /\ v.stage = "compiled" /\ v.memory = old.memory /\ v.statutes = statutes
  BY <1>2, <1>3, <1>4 DEF WatchRows
<1>6. TogetherOrPast(old.memory.line, statutes)
  <2>1. PICK a, b : a = old.memory.line /\ b = memory.line
    OBVIOUS
  <2>2. a \in Lines /\ b \in Lines
    BY <1>2, <2>1 DEF WatchRows, Files, LearnInvariant, LearnTypes
  <2>3. Before(a, b)
    BY <1>2, <2>1 DEF WatchSound
  <2>4. CASE Len(a) = Len(b)
    <3>1. a = b
      BY <2>2, <2>3, <2>4, BeforeSame
    <3> QED BY <2>1, <3>1 DEF WatchInvariant, TogetherOrPast
  <2>5. CASE Len(a) # Len(b)
    <3>1. Len(a) < Len(b)
      BY <2>2, <2>3, <2>5 DEF Before, Lines
    <3> QED BY <2>1, <3>1 DEF TogetherOrPast
  <2> QED BY <2>4, <2>5
<1>7. WatchSound(v)
  BY <1>5, <1>6 DEF WatchSound
<1>8. statutes' \subseteq Statutes /\ UNCHANGED <<snapshots, bundles>>
  BY <1>4 DEF CompileStatutes
<1> QED BY <1>3, <1>5, <1>7, <1>8, WatcherMoves, WatcherKeeps

LEMMA SaveKeeps ==
    ASSUME LearnInvariant, WatchInvariant, PreferenceNext, NEW w \in Watchers, SaveSnapshot(w)
    PROVE  WatchInvariant'
<1>1. PICK old : old = watching[w]
  OBVIOUS
<1>2. old \in WatchRows /\ WatchSound(old) /\ old.stage = "compiled"
  BY <1>1, WatchingIs DEF SaveSnapshot
<1>3. PICK s : s = [memory |-> old.memory, statutes |-> old.statutes] /\ snapshots' = snapshots \cup {s}
  BY <1>1 DEF SaveSnapshot
<1>4. s \in [memory : Files, statutes : SUBSET Statutes] /\ s.memory = old.memory /\ s.statutes = old.statutes
  BY <1>2, <1>3 DEF WatchRows
<1>5. TogetherOrPast(old.memory.line, old.statutes)
  BY <1>2 DEF WatchSound
<1>6. TogetherOrPast(old.memory.line, old.statutes)'
  <2>1. memory.line \in Lines /\ GoesOn(memory.line, memory'.line)
    BY LearnStep DEF LearnInvariant, LearnTypes, Files
  <2>2. old.memory.line \in Lines
    BY <1>2 DEF WatchRows, Files
  <2>3. met \subseteq met'
    BY TogetherStays
  <2> QED BY <1>5, <2>1, <2>2, <2>3, PastStays
<1>7. SnapshotsSound'
  <2>1. ASSUME NEW x \in snapshots' PROVE TogetherOrPast(x.memory.line, x.statutes)'
    <3>1. CASE x = s
      BY <1>4, <1>6, <3>1 DEF TogetherOrPast
    <3>2. CASE x \in snapshots
      BY <3>2, TogetherStays
    <3> QED BY <1>3, <3>1, <3>2
  <2> QED BY <2>1 DEF SnapshotsSound
<1>8. watching' = [watching EXCEPT ![w] = NoLearning] /\ UNCHANGED <<statutes, bundles>>
  BY DEF SaveSnapshot, Watches
<1>9. watching' \in [Watchers -> {NoLearning} \cup WatchRows] /\ WatchersSound'
  BY <1>8, WatcherMoves
<1>10. WatchTypes'
  BY <1>3, <1>4, <1>8, <1>9 DEF WatchInvariant, WatchTypes
<1>11. ContextCoherent'
  BY <1>8, TogetherStays DEF ContextCoherent
<1>12. (<<memory.line, statutes>> \in met)'
  BY TogetherStays
<1> QED BY <1>7, <1>9, <1>10, <1>11, <1>12 DEF WatchInvariant

\* A file that is what the snapshot says has not grown since.
LEMMA CheckMemoryKeeps ==
    ASSUME LearnInvariant, WatchInvariant, PreferenceNext, NEW w \in Watchers, CheckMemory(w)
    PROVE  WatchInvariant'
<1>1. PICK s \in snapshots :
          /\ memory = s.memory
          /\ watching' = [watching EXCEPT ![w] = [stage |-> "checking", memory |-> memory, statutes |-> s.statutes]]
  BY Zenon DEF CheckMemory, Unchanged, Watches
<1>2. PICK v : v = [stage |-> "checking", memory |-> memory, statutes |-> s.statutes]
  OBVIOUS
<1>3. s \in [memory : Files, statutes : SUBSET Statutes] /\ memory \in Files
  BY DEF WatchInvariant, WatchTypes, LearnInvariant, LearnTypes
<1>4. v \in WatchRows /\ v.stage = "checking" /\ v.memory = memory /\ v.statutes = s.statutes
  BY <1>2, <1>3 DEF WatchRows
<1>5. <<memory.line, s.statutes>> \in met
  <2>1. PICK line : line = memory.line
    OBVIOUS
  <2>2. TogetherOrPast(line, s.statutes)
    BY <1>1, <2>1 DEF WatchInvariant, SnapshotsSound
  <2>3. ~(Len(line) < Len(line))
    BY <1>3, <2>1 DEF Files, Lines
  <2> QED BY <2>1, <2>2, <2>3 DEF TogetherOrPast
<1>6. WatchSound(v)
  BY <1>4, <1>5 DEF WatchSound
<1>7. statutes' \subseteq Statutes /\ UNCHANGED <<snapshots, bundles>>
  BY DEF CheckMemory, WatchInvariant, WatchTypes
<1>8. watching' = [watching EXCEPT ![w] = v]
  BY <1>1, <1>2, Zenon
<1> QED BY <1>4, <1>6, <1>7, <1>8, WatcherMoves, WatcherKeeps

LEMMA CheckStatutesKeeps ==
    ASSUME LearnInvariant, WatchInvariant, PreferenceNext, NEW w \in Watchers, CheckStatutes(w)
    PROVE  WatchInvariant'
<1>1. PICK old : old = watching[w]
  OBVIOUS
<1>2. old \in WatchRows /\ WatchSound(old) /\ old.stage = "checking"
  BY <1>1, WatchingIs DEF CheckStatutes
<1>3. PICK b : b = [line |-> old.memory.line, statutes |-> statutes] /\ bundles' = bundles \cup {b}
  BY <1>1 DEF CheckStatutes
<1>4. b.line = old.memory.line /\ b.statutes = statutes
  BY <1>3
<1>5. statutes = old.statutes
  BY <1>1 DEF CheckStatutes, Unchanged
<1>6. <<b.line, b.statutes>> \in met'
  BY <1>2, <1>4, <1>5, TogetherStays DEF WatchSound
<1>7. watching' = [watching EXCEPT ![w] = NoLearning] /\ UNCHANGED <<statutes, snapshots>>
  BY DEF CheckStatutes, Watches
<1>8. watching' \in [Watchers -> {NoLearning} \cup WatchRows] /\ WatchersSound'
  BY <1>7, WatcherMoves
<1>9. WatchTypes'
  BY <1>7, <1>8, Zenon DEF WatchInvariant, WatchTypes
<1>10. SnapshotsSound'
  BY <1>7, TogetherStays DEF SnapshotsSound
<1>11. ContextCoherent'
  BY <1>3, <1>6, TogetherStays DEF ContextCoherent
<1>12. (<<memory.line, statutes>> \in met)'
  BY TogetherStays
<1> QED BY <1>8, <1>9, <1>10, <1>11, <1>12 DEF WatchInvariant

LEMMA WatchStep ==
    ASSUME LearnInvariant, WatchInvariant, PreferenceNext
    PROVE  WatchInvariant'
<1>1. statutes \subseteq Statutes
  BY DEF WatchInvariant, WatchTypes
<1>2. CASE UNCHANGED watchVars
  BY <1>1, <1>2, StatuteKeeps DEF watchVars
<1>3. CASE SettleStatute
  BY <1>3, StatuteKeeps DEF SettleStatute
<1>4. ASSUME NEW w \in Watchers, WatchEnds(w) PROVE WatchInvariant'
  <2>1. watching' = [watching EXCEPT ![w] = NoLearning] /\ UNCHANGED <<statutes, snapshots, bundles>>
    BY <1>4 DEF WatchEnds, Watches
  <2> QED BY <1>1, <2>1, WatcherMoves, WatcherKeeps
<1>5. ASSUME NEW w \in Watchers,
             CompileMemory(w) \/ CompileStatutes(w) \/ SaveSnapshot(w) \/ CheckMemory(w) \/ CheckStatutes(w)
      PROVE  WatchInvariant'
  BY <1>5, CompileMemoryKeeps, CompileStatutesKeeps, SaveKeeps, CheckMemoryKeeps, CheckStatutesKeeps, Zenon
<1> QED BY <1>2, <1>3, <1>4, <1>5, Zenon DEF PreferenceNext, WatchNext

LEMMA PreferencesStart == PreferenceInit => LearnInvariant /\ WatchInvariant
<1> SUFFICES ASSUME PreferenceInit PROVE LearnInvariant /\ WatchInvariant
  OBVIOUS
<1>1. /\ owned = Decisions /\ history = {} /\ locked = FALSE /\ requested = {} /\ drafted = {}
      /\ statutes = {} /\ snapshots = {} /\ bundles = {} /\ met = {<<memory.line, statutes>>}
  BY Zenon DEF PreferenceInit
<1>2. learning = [l \in Learners |-> NoLearning] /\ watching = [w \in Watchers |-> NoLearning]
  BY Zenon DEF PreferenceInit
<1>3. PICK old : /\ old \in {{}} \cup {{d} : d \in Decisions} /\ answered = old
                 /\ memory = IF old = {} THEN [there |-> FALSE, line |-> <<>>]
                             ELSE [there |-> TRUE, line |-> <<[fresh |-> old, digested |-> FALSE, rules |-> {}]>>]
  BY Zenon DEF PreferenceInit
<1>4. memory \in Files /\ (memory.line # <<>> => memory.there) /\ Len(memory.line) <= 1
      /\ RulesOf(memory.line) = {}
  <2>1. CASE old = {}
    <3>1. memory = [there |-> FALSE, line |-> <<>>]
      BY <1>3, <2>1
    <3>2. memory.line = <<>> /\ memory \in Files
      BY <3>1 DEF Files, Lines
    <3> QED BY <3>2 DEF RulesOf
  <2>2. CASE old # {}
    <3>1. PICK v : v = [fresh |-> old, digested |-> FALSE, rules |-> {}]
      OBVIOUS
    <3>2. v \in Versions /\ v.rules = {}
      BY <1>3, <3>1 DEF Versions
    <3>3. memory = [there |-> TRUE, line |-> <<v>>]
      BY <1>3, <2>2, <3>1
    <3>4. PICK line : line = <<v>>
      OBVIOUS
    <3>5. line \in Lines /\ Len(line) = 1 /\ line[1] = v /\ line # <<>>
      BY <3>2, <3>4 DEF Lines
    <3>6. memory.there = TRUE /\ memory.line = line /\ memory \in Files
      BY <3>3, <3>4, <3>5 DEF Files
    <3>7. RulesOf(line) = {}
      BY <3>2, <3>5 DEF RulesOf
    <3>8. Len(line) <= 1
      BY <3>5
    <3> QED BY <3>6, <3>7, <3>8, Zenon
  <2> QED BY <2>1, <2>2
<1>5. LearnTypes
  BY <1>1, <1>2, <1>3, <1>4 DEF LearnTypes
<1>6. FileSound
  <2>1. WarrantedLine(memory.line)
    BY <1>4 DEF WarrantedLine
  <2>2. Len(memory.line) \in Nat
    BY <1>4 DEF Files, Lines
  <2> QED BY <1>1, <1>4, <2>1, <2>2 DEF FileSound
<1>7. LearnersSound /\ LockHeld
  BY <1>2 DEF LearnersSound, LockHeld, Saving, AtLearning
<1>8. ProvenanceFound /\ RefusalsHold
  BY <1>1 DEF ProvenanceFound, RefusalsHold
<1>9. WatchInvariant
  BY <1>1, <1>2 DEF WatchInvariant, WatchTypes, WatchersSound, SnapshotsSound, ContextCoherent
<1> QED BY <1>5, <1>6, <1>7, <1>8, <1>9 DEF LearnInvariant

LEMMA PreferenceStep ==
    LearnInvariant /\ WatchInvariant /\ [PreferenceNext]_preferenceVars => (LearnInvariant /\ WatchInvariant)'
<1> SUFFICES ASSUME LearnInvariant, WatchInvariant, [PreferenceNext]_preferenceVars
             PROVE  (LearnInvariant /\ WatchInvariant)'
  OBVIOUS
<1>1. CASE PreferenceNext
  BY <1>1, LearnStep, WatchStep
<1>2. CASE UNCHANGED preferenceVars
  <2>1. UNCHANGED <<answered, owned, memory, history, locked, learning, requested, drafted, statutes, snapshots,
                    watching, bundles, met>>
    BY <1>2 DEF preferenceVars, learnVars, watchVars
  <2>2. LearnTypes' /\ WatchTypes'
    BY <2>1, Zenon DEF LearnInvariant, LearnTypes, WatchInvariant, WatchTypes
  <2>3. Kept' = Kept
    BY <2>1 DEF Kept
  <2>4. FileSound'
    BY <2>1 DEF LearnInvariant, FileSound
  <2>5. LearnersSound'
    BY <2>1, <2>3 DEF LearnInvariant, LearnersSound, LearningSound, Found
  <2>6. LockHeld'
    <3>1. \A l \in Learners : Saving(l)' <=> Saving(l)
      BY <2>1, SavingIs, Zenon
    <3> QED BY <2>1, <3>1, Zenon DEF LearnInvariant, LockHeld
  <2>7. ProvenanceFound' /\ RefusalsHold'
    BY <2>1, <2>3 DEF LearnInvariant, ProvenanceFound, RefusalsHold
  <2>8. (<<memory.line, statutes>> \in met)' /\ WatchersSound' /\ SnapshotsSound' /\ ContextCoherent'
    BY <2>1 DEF WatchInvariant, WatchersSound, WatchSound, TogetherOrPast, SnapshotsSound, ContextCoherent
  <2> QED BY <2>2, <2>4, <2>5, <2>6, <2>7, <2>8 DEF LearnInvariant, WatchInvariant
<1> QED BY <1>1, <1>2

LEMMA PreferenceSafety == PreferenceSpec => [](LearnInvariant /\ WatchInvariant)
<1>1. PreferenceInit => LearnInvariant /\ WatchInvariant
  BY PreferencesStart
<1>2. LearnInvariant /\ WatchInvariant /\ [PreferenceNext]_preferenceVars => (LearnInvariant /\ WatchInvariant)'
  BY PreferenceStep
<1> QED BY <1>1, <1>2, PTL DEF PreferenceSpec

\* The file of preferences is one line of versions, all kept, each rule warranted by decisions,
\* whoever refreshes it and wherever one dies (MarkdownPreferenceStore.save, update).
THEOREM PreferencesKept == PreferenceSpec => []PreferencesLearned
<1>1. LearnInvariant => PreferencesLearned
  <2> SUFFICES ASSUME LearnInvariant PROVE PreferencesLearned
    OBVIOUS
  <2>1. memory.line \in Lines /\ history \subseteq Lines
    BY DEF LearnInvariant, LearnTypes, Files
  <2>2. Len(memory.line) \in Nat
    BY <2>1 DEF Lines
  <2>3. Before(memory.line, memory.line)
    BY <2>2 DEF Before
  <2>4. \A a \in Kept : a \in Lines /\ Before(a, memory.line)
    BY <2>1, <2>3 DEF Kept, LearnInvariant, FileSound
  <2>5. OneLine
    BY <2>1, <2>4, BeforeIsPart DEF OneLine
  <2>6. ASSUME NEW i \in 1 .. (Len(memory.line) - 1) PROVE SubSeq(memory.line, 1, i) \in history
    <3>1. PICK h \in history : Len(h) = i
      BY DEF LearnInvariant, FileSound
    <3>2. h \in Lines /\ Before(h, memory.line) /\ Len(h) <= Len(memory.line)
      BY <2>2, <2>4, <3>1 DEF Kept
    <3>3. h = SubSeq(memory.line, 1, Len(h))
      BY <2>1, <2>3, <3>2, BeforeIsPart
    <3> QED BY <3>1, <3>3
  <2>7. HistoryKept
    BY <2>6 DEF HistoryKept
  <2>8. RulesWarranted
    BY Zenon DEF LearnInvariant, FileSound, WarrantedLine, RulesWarranted
  <2> QED BY <2>5, <2>7, <2>8 DEF PreferencesLearned
<1> QED BY <1>1, PreferenceSafety, PTL

\* What is written names a version that can be looked up and rules it had, no refused text is kept,
\* and a context is given of preferences and rules that once held together (select, generate, context).
THEOREM PreferencesNamed == PreferenceSpec => []PreferencesUsed
<1>1. LearnInvariant /\ WatchInvariant => PreferencesUsed
  BY DEF LearnInvariant, WatchInvariant, PreferencesUsed
<1> QED BY <1>1, PreferenceSafety, PTL

----
(* Adoption: the bytes kept of the queue. *)

MoveStages == {"mapped", "read", "copied", "backed", "preserved", "verified", "compared", "restored"}
Moves == [stage : MoveStages, id : Adoptions, text : Nat, source : Nat,
          baseline : {NoMove} \cup DatabaseDigests, copy : {NoMove} \cup Databases]

AdoptTypes ==
    /\ db \in Databases /\ queue \in Nat \ {0}
    /\ backups \in [Adoptions -> {NoMove} \cup Databases] /\ originals \in [Adoptions -> Nat]
    /\ moving \in [Movers -> {NoMove} \cup Moves]

RowIds(d) == {s.id : s \in d.rows}
RunIds(d) == {r.id : r \in d.runs}

\* Rows belong to runs, whose source is among the kept bytes.
Sourced(d) ==
    /\ RowIds(d) \subseteq RunIds(d)
    /\ \A r \in d.runs :
          /\ originals[r.id] = r.source /\ r.source # 0
          /\ KindOf[r.id] = "pipeline" => \A s \in d.rows : s.id = r.id => s.text = r.source

Adopting(w) == w.stage \in {"read", "copied", "backed", "preserved"}
Copied(w) == w.stage \in {"copied", "backed", "preserved", "verified", "compared", "restored"}
BackedUp(w) == w.stage \in {"backed", "preserved"}

\* What is kept of the queue under the id is of a time since the rows were read.
MoveSourced(w) ==
    /\ Adopting(w) => w.source \in 1 .. queue /\ w.baseline \in DatabaseDigests
    /\ Copied(w) => w.copy \in Databases /\ Sourced(w.copy)
    /\ BackedUp(w) => backups[w.id] # NoMove
    /\ w.stage = "preserved" => originals[w.id] \in w.source .. queue
    /\ w.stage = "compared" => w.baseline \in DatabaseDigests

BackupsSourced == \A m \in Adoptions : backups[m] # NoMove => Sourced(backups[m])
MovesSourced == \A p \in Movers : moving[p] # NoMove => MoveSourced(moving[p])

BytesInvariant == AdoptTypes /\ Sourced(db) /\ BackupsSourced /\ MovesSourced

\* One process adopts or rolls back at a time.
OneMover == \A p, q \in Movers : p = q

\* The facts and the proofs a database holds, and whether another one holds more.
Held(d) == d.facts \cup {<<s.id, s.entry>> : s \in {x \in d.rows : x.proof = "verified"}}
Within(a, b) == Held(a) \subseteq Held(b) /\ RowIds(a) \subseteq RowIds(b)

\* What a run names as the database after it is its backup and the run's own rows.
RunSound(r) ==
    /\ backups[r.id] # NoMove /\ Held(r.after) \subseteq Held(backups[r.id])
    /\ RowIds(r.after) \subseteq RowIds(backups[r.id]) \cup {r.id}

\* Each run has all its rows.
Whole(d) == \A r \in d.runs, e \in Entries : \E s \in d.rows : s.id = r.id /\ s.entry = e
Sound(d) == Whole(d) /\ \A r \in d.runs : RunSound(r)

AllKept(d) == \A k \in Commits : fate[k] = "kept" => k \in Held(d)

\* What the copy of a process can lack, at its stage, of the database.
MoveSound(w) ==
    /\ Copied(w) => Sound(w.copy) /\ w.copy.there
    /\ w.stage = "read" => Within(w.baseline, db)
    /\ w.stage \in {"copied", "backed", "preserved"} => Within(w.baseline, w.copy) /\ Within(w.copy, db)
    /\ BackedUp(w) => Within(w.copy, backups[w.id]) \/ Within(w.baseline, backups[w.id])
    /\ w.stage = "verified" => AllKept(w.copy) /\ standing \cup {w.id} \subseteq RunIds(w.copy)
    /\ w.stage = "compared" => /\ Held(w.baseline) \subseteq Held(w.copy)
                               /\ RowIds(w.baseline) \subseteq RowIds(w.copy) \cup {w.id}
    /\ w.stage = "restored" => AllKept(w.copy) /\ standing \ {w.id} \subseteq RunIds(w.copy)

DatabaseSound ==
    /\ Sound(db) /\ AllKept(db) /\ standing \subseteq RunIds(db)
    /\ ~db.there => Held(db) = {} /\ RowIds(db) = {}
BackupsSound == \A m \in Adoptions : backups[m] # NoMove => Sound(backups[m]) /\ backups[m].there
MovesSound == \A w \in {moving[p] : p \in Movers} : w # NoMove => MoveSound(w)

StandInvariant ==
    /\ BytesInvariant /\ fate \in [Commits -> {"none", "kept", "late"}]
    /\ DatabaseSound /\ BackupsSound /\ MovesSound

----
(* Databases and their digests. *)

LEMMA KeysTyped ==
    ASSUME NEW runs \in SUBSET AdoptionRuns
    PROVE  RunKeys(runs) \in SUBSET (Adoptions \X Nat)
BY DEF RunKeys, AdoptionRuns

LEMMA DigestIs ==
    ASSUME NEW sort, NEW d \in Databases
    PROVE  /\ Digest(sort, d) \in DatabaseDigests
           /\ Digest(sort, d).facts = d.facts /\ Digest(sort, d).rows = d.rows
<1>1. ASSUME NEW keys \in SUBSET (Adoptions \X Nat), NEW x, x = [d EXCEPT !.runs = keys]
      PROVE  x \in DatabaseDigests /\ x.facts = d.facts /\ x.rows = d.rows
  BY <1>1 DEF Databases, DatabaseDigests
<1>2. PICK pipelines : pipelines = {r \in d.runs : KindOf[r.id] = "pipeline"}
  OBVIOUS
<1>3. d.runs \in SUBSET AdoptionRuns /\ pipelines \in SUBSET AdoptionRuns
  BY <1>2 DEF Databases
<1>4. HostDigest(d) = [d EXCEPT !.runs = RunKeys(pipelines)]
  BY <1>2 DEF HostDigest, Databases
<1>5. PipelineDigest(d) = [d EXCEPT !.runs = RunKeys(d.runs)]
  BY DEF PipelineDigest, Databases
<1>6. RunKeys(pipelines) \in SUBSET (Adoptions \X Nat) /\ RunKeys(d.runs) \in SUBSET (Adoptions \X Nat)
  BY <1>3, KeysTyped
<1>7. Digest(sort, d) = HostDigest(d) \/ Digest(sort, d) = PipelineDigest(d)
  BY DEF Digest
<1> QED BY <1>1, <1>4, <1>5, <1>6, <1>7

LEMMA MigratedIs ==
    Migrated \in Databases /\ Migrated.there = TRUE /\ Migrated.facts = {} /\ Migrated.rows = {} /\ Migrated.runs = {}
BY DEF Migrated, NoDatabase, Databases

\* The rows an adoption adds: each of its own id, each entry once at least, none verified.
NewRows(w) == IF KindOf[w.id] = "host" THEN HostRows(w) ELSE PipelineRows(w)

LEMMA NewRowsAre ==
    ASSUME NEW w, w.id \in Adoptions, w.text \in Nat
    PROVE  /\ NewRows(w) \subseteq AdoptedRows
           /\ \A s \in NewRows(w) : s.id = w.id /\ s.text = w.text /\ s.proof # "verified"
           /\ \A e \in Entries : \E s \in NewRows(w) : s.entry = e
<1>1. ASSUME NEW e \in Entries, NEW at \in {"intake", "pipeline"}, NEW proof \in {"pending", "undeclared"}
      PROVE  LET s == Row(w, e, at, proof) IN
             s \in AdoptedRows /\ s.id = w.id /\ s.entry = e /\ s.text = w.text /\ s.proof # "verified"
  BY DEF Row, AdoptedRows
<1>2. CASE KindOf[w.id] = "host"
  <2>1. NewRows(w) = {Row(w, e, "intake", IF e \in Declared THEN "pending" ELSE "undeclared") : e \in Entries}
    BY <1>2 DEF NewRows, HostRows
  <2>2. \A s \in NewRows(w) : /\ s \in AdoptedRows
                              /\ s.id = w.id /\ s.text = w.text /\ s.proof # "verified"
    BY <1>1, <2>1
  <2>3. ASSUME NEW e \in Entries PROVE \E s \in NewRows(w) : s.entry = e
    <3>1. PICK s : s = Row(w, e, "intake", IF e \in Declared THEN "pending" ELSE "undeclared")
      OBVIOUS
    <3>2. s \in NewRows(w) /\ s.entry = e
      BY <1>1, <2>1, <3>1
    <3> QED BY <3>2
  <2> QED BY <2>2, <2>3
<1>3. CASE KindOf[w.id] # "host"
  <2>1. NewRows(w) = {Row(w, e, IF e \in Linked THEN "pipeline" ELSE "intake",
                          IF e \in Linked \cap Declared THEN "pending" ELSE "undeclared") : e \in Entries}
    BY <1>3 DEF NewRows, PipelineRows
  <2>2. \A s \in NewRows(w) : /\ s \in AdoptedRows
                              /\ s.id = w.id /\ s.text = w.text /\ s.proof # "verified"
    BY <1>1, <2>1
  <2>3. ASSUME NEW e \in Entries PROVE \E s \in NewRows(w) : s.entry = e
    <3>1. PICK s : s = Row(w, e, IF e \in Linked THEN "pipeline" ELSE "intake",
                          IF e \in Linked \cap Declared THEN "pending" ELSE "undeclared")
      OBVIOUS
    <3>2. s \in NewRows(w) /\ s.entry = e
      BY <1>1, <2>1, <3>1
    <3> QED BY <3>2
  <2> QED BY <2>2, <2>3
<1> QED BY <1>2, <1>3

\* The copy with the adoption in it: one run more, which names what the whole then digests to.
LEMMA StagedIs ==
    ASSUME NEW w \in Moves, w.copy \in Databases, backups[w.id] \in Databases
    PROVE  LET d == Staged(w) IN
           /\ d \in Databases /\ d.there = w.copy.there /\ d.facts = w.copy.facts
           /\ d.rows = w.copy.rows \cup NewRows(w)
           /\ \E run \in AdoptionRuns :
                 /\ d.runs = w.copy.runs \cup {run} /\ run.id = w.id /\ run.source = w.source
                 /\ run.after.facts = d.facts /\ run.after.rows = d.rows
<1> DEFINE sort == KindOf[w.id]
           rows == w.copy.rows \cup NewRows(w)
           run == [id |-> w.id, source |-> w.source, before |-> Digest(sort, backups[w.id]), after |-> NoMove]
           mid == [w.copy EXCEPT !.rows = rows, !.runs = w.copy.runs \cup {run}]
           after == Digest(sort, mid)
           last == [run EXCEPT !.after = after]
<1>1. w.id \in Adoptions /\ w.text \in Nat /\ w.source \in Nat
  BY DEF Moves
<1>2. w.copy.rows \subseteq AdoptedRows /\ w.copy.runs \subseteq AdoptionRuns /\ w.copy.facts \subseteq Facts
  BY DEF Databases
<1>3. rows \subseteq AdoptedRows
  BY <1>1, <1>2, NewRowsAre
<1>4. Digest(sort, backups[w.id]) \in DatabaseDigests
  BY DigestIs
<1>5. run.id = w.id /\ run.source = w.source
  OBVIOUS
<1>6. mid.facts = w.copy.facts /\ mid.rows = rows /\ mid.runs = w.copy.runs \cup {run}
  BY DEF Databases
<1>7. RunKeys({r \in mid.runs : KindOf[r.id] = "pipeline"}) \in SUBSET (Adoptions \X Nat)
      /\ RunKeys(mid.runs) \in SUBSET (Adoptions \X Nat)
  <2>1. \A r \in mid.runs : r.id \in Adoptions /\ r.source \in Nat
    BY <1>1, <1>2, <1>5, <1>6 DEF AdoptionRuns
  <2> HIDE DEF mid
  <2> QED BY <2>1 DEF RunKeys
<1>8. after \in DatabaseDigests /\ after.facts = mid.facts /\ after.rows = mid.rows
  <2>1. ASSUME NEW keys \in SUBSET (Adoptions \X Nat), NEW x, x = [mid EXCEPT !.runs = keys]
        PROVE  x \in DatabaseDigests /\ x.facts = mid.facts /\ x.rows = mid.rows
    <3>1. x = [w.copy EXCEPT !.rows = rows, !.runs = keys]
      BY <2>1 DEF Databases
    <3> HIDE DEF rows, mid
    <3> QED BY <1>2, <1>3, <1>6, <2>1, <3>1 DEF Databases, DatabaseDigests
  <2>2. after = [mid EXCEPT !.runs = RunKeys({r \in mid.runs : KindOf[r.id] = "pipeline"})]
        \/ after = [mid EXCEPT !.runs = RunKeys(mid.runs)]
    BY DEF Digest, HostDigest, PipelineDigest, Databases
  <2> HIDE DEF mid, after
  <2> QED BY <1>7, <2>1, <2>2
<1>9. last \in AdoptionRuns /\ last.id = w.id /\ last.source = w.source /\ last.after = after
  <2>1. PICK then : then = Digest(sort, backups[w.id])
    OBVIOUS
  <2>2. last = [id |-> w.id, source |-> w.source, before |-> then, after |-> after]
    BY <2>1
  <2> HIDE DEF last, after
  <2> QED BY <1>1, <1>4, <1>8, <2>1, <2>2 DEF AdoptionRuns
<1>10. Staged(w) = [w.copy EXCEPT !.rows = rows, !.runs = w.copy.runs \cup {last}]
  BY DEF Staged, Databases, NewRows
<1> HIDE DEF rows, run, mid, after, last
<1>11. /\ Staged(w) \in Databases /\ Staged(w).there = w.copy.there /\ Staged(w).facts = w.copy.facts
       /\ Staged(w).rows = rows /\ Staged(w).runs = w.copy.runs \cup {last}
  BY <1>2, <1>3, <1>9, <1>10 DEF Databases
<1>12. rows = w.copy.rows \cup NewRows(w)
  BY DEF rows
<1> QED BY <1>6, <1>8, <1>9, <1>11, <1>12

----
(* What is kept is not replaced. *)

Preserving ==
    /\ \A m \in Adoptions : backups[m] # NoMove => backups'[m] = backups[m]
    /\ \A m \in Adoptions : originals[m] # 0 => originals'[m] = originals[m]
    /\ queue <= queue'

LEMMA SourcedStays ==
    ASSUME Preserving, NEW d \in Databases, Sourced(d)
    PROVE  Sourced(d)'
<1>1. RowIds(d)' = RowIds(d) /\ RunIds(d)' = RunIds(d)
  BY DEF RowIds, RunIds
<1>2. \A r \in d.runs : r.id \in Adoptions
  BY DEF Databases, AdoptionRuns
<1> QED BY <1>1, <1>2 DEF Preserving, Sourced

LEMMA MoveStays ==
    ASSUME AdoptTypes, Preserving, queue' \in Nat, NEW w \in Moves, MoveSourced(w)
    PROVE  MoveSourced(w)'
<1>1. w.id \in Adoptions /\ queue \in Nat /\ w.source \in Nat
  BY DEF AdoptTypes, Moves
<1>2. ASSUME Adopting(w) PROVE w.source \in 1 .. queue' /\ w.baseline \in DatabaseDigests
  BY <1>1, <1>2 DEF MoveSourced, Preserving
<1>3. ASSUME Copied(w) PROVE w.copy \in Databases /\ Sourced(w.copy)'
  BY <1>3, SourcedStays DEF MoveSourced
<1>4. ASSUME BackedUp(w) PROVE backups'[w.id] # NoMove
  BY <1>1, <1>4 DEF MoveSourced, Preserving
<1>5. ASSUME w.stage = "preserved" PROVE originals'[w.id] \in w.source .. queue'
  <2>1. w.source \in 1 .. queue /\ originals[w.id] \in w.source .. queue
    BY <1>5 DEF MoveSourced, Adopting
  <2>2. originals[w.id] # 0
    BY <1>1, <2>1
  <2>3. originals'[w.id] = originals[w.id]
    BY <1>1, <2>2 DEF Preserving
  <2>4. queue <= queue'
    BY DEF Preserving
  <2> QED BY <1>1, <2>1, <2>3, <2>4
<1>6. Adopting(w)' = Adopting(w) /\ Copied(w)' = Copied(w) /\ BackedUp(w)' = BackedUp(w)
  BY DEF Adopting, Copied, BackedUp
<1>7. w.stage = "compared" => w.baseline \in DatabaseDigests
  BY DEF MoveSourced
<1> QED BY <1>2, <1>3, <1>4, <1>5, <1>6, <1>7 DEF MoveSourced

LEMMA BackupsStay ==
    ASSUME BytesInvariant, Preserving, backups' = backups
    PROVE  BackupsSourced'
<1>1. ASSUME NEW m \in Adoptions, backups[m] # NoMove PROVE Sourced(backups[m])'
  <2>1. PICK d : d = backups[m]
    OBVIOUS
  <2>2. d \in Databases /\ Sourced(d)
    BY <1>1, <2>1 DEF BytesInvariant, AdoptTypes, BackupsSourced
  <2>3. Sourced(d)'
    BY <2>2, SourcedStays
  <2>4. d = backups'[m]
    BY <2>1
  <2> QED BY <2>3, <2>4 DEF Sourced, RowIds, RunIds
<1> QED BY <1>1 DEF BackupsSourced

LEMMA Moved ==
    ASSUME AdoptTypes, NEW p \in Movers, NEW w \in {NoMove} \cup Moves, moving' = [moving EXCEPT ![p] = w]
    PROVE  /\ moving' \in [Movers -> {NoMove} \cup Moves]
           /\ moving'[p] = w /\ \A q \in Movers : q # p => moving'[q] = moving[q]
BY DEF AdoptTypes

\* One process goes on, whatever the others have read.
LEMMA MoverGoes ==
    ASSUME BytesInvariant, Preserving, queue' \in Nat, NEW p \in Movers, NEW w,
           w = NoMove \/ (w \in Moves /\ MoveSourced(w)'), moving' = [moving EXCEPT ![p] = w]
    PROVE  moving' \in [Movers -> {NoMove} \cup Moves] /\ MovesSourced'
<1>1. w \in {NoMove} \cup Moves
  OBVIOUS
<1>2. /\ moving' \in [Movers -> {NoMove} \cup Moves]
      /\ moving'[p] = w /\ \A q \in Movers : q # p => moving'[q] = moving[q]
  BY <1>1, Moved DEF BytesInvariant
<1>3. ASSUME NEW q \in Movers, moving'[q] # NoMove PROVE MoveSourced(moving[q])'
  <2>1. PICK v : v = moving'[q]
    OBVIOUS
  <2>2. v \in Moves
    BY <1>2, <1>3, <2>1
  <2>3. MoveSourced(v)'
    <3>1. CASE q = p
      BY <1>2, <1>3, <2>1, <3>1
    <3>2. CASE q # p
      <4>1. v = moving[q]
        BY <1>2, <2>1, <3>2
      <4>2. MoveSourced(v)
        BY <1>3, <2>1, <4>1 DEF BytesInvariant, MovesSourced
      <4> QED BY <2>2, <4>2, MoveStays DEF BytesInvariant
    <3> QED BY <3>1, <3>2
  <2> QED BY <2>1, <2>3 DEF MoveSourced, Adopting, Copied, BackedUp, Sourced, RowIds, RunIds
<1>4. MovesSourced'
  BY <1>3 DEF MovesSourced
<1> QED BY <1>2, <1>4

\* A step that leaves database, backups and bytes alone.
LEMMA MoverReads ==
    ASSUME BytesInvariant, UNCHANGED <<db, queue, backups, originals>>, NEW p \in Movers, NEW w,
           w = NoMove \/ (w \in Moves /\ MoveSourced(w)), moving' = [moving EXCEPT ![p] = w]
    PROVE  BytesInvariant'
<1>1. Preserving /\ queue' \in Nat
  BY DEF Preserving, BytesInvariant, AdoptTypes
<1>2. w \in Moves /\ MoveSourced(w) => MoveSourced(w)'
  BY <1>1, MoveStays DEF BytesInvariant
<1>3. moving' \in [Movers -> {NoMove} \cup Moves] /\ MovesSourced'
  BY <1>1, <1>2, MoverGoes
<1>4. AdoptTypes'
  BY <1>3 DEF BytesInvariant, AdoptTypes
<1>5. Sourced(db)'
  BY DEF BytesInvariant, Sourced, RowIds, RunIds
<1>6. BackupsSourced'
  BY <1>1, BackupsStay
<1> QED BY <1>3, <1>4, <1>5, <1>6 DEF BytesInvariant

LEMMA MoveAt ==
    ASSUME BytesInvariant, NEW p \in Movers, NEW stage, At(p, stage)
    PROVE  /\ moving[p] \in Moves /\ MoveSourced(moving[p]) /\ moving[p].stage = stage
           /\ moving[p] # NoMove
BY DEF BytesInvariant, AdoptTypes, MovesSourced, At

----
(* The bytes kept, step by step. *)

LEMMA BytesMap ==
    ASSUME BytesInvariant, NEW p \in Movers, NEW m \in Adoptions, MigrateMap(p, m)
    PROVE  BytesInvariant'
<1>1. PICK w : /\ w = [stage |-> "mapped", id |-> m, text |-> queue, source |-> 0, baseline |-> NoMove, copy |-> NoMove]
               /\ moving' = [moving EXCEPT ![p] = w]
  BY DEF MigrateMap, Goes
<1>2. queue \in Nat
  BY DEF BytesInvariant, AdoptTypes
<1>3. w \in Moves /\ w.stage = "mapped"
  BY <1>1, <1>2 DEF Moves, MoveStages
<1>4. MoveSourced(w)
  BY <1>3 DEF MoveSourced, Adopting, Copied, BackedUp
<1> QED BY <1>1, <1>3, <1>4, MoverReads DEF MigrateMap

LEMMA BytesHash ==
    ASSUME BytesInvariant, NEW p \in Movers, MigrateHash(p)
    PROVE  BytesInvariant'
<1>1. PICK old : old = moving[p]
  OBVIOUS
<1>2. old \in Moves
  BY <1>1, MoveAt DEF MigrateHash
<1>3. PICK x : x = Digest(Kind(p), db)
  OBVIOUS
<1>4. x \in DatabaseDigests
  BY <1>3, DigestIs DEF BytesInvariant, AdoptTypes
<1>5. PICK w : /\ w = NoMove \/ w = [old EXCEPT !.stage = "read", !.source = queue, !.baseline = x]
               /\ moving' = [moving EXCEPT ![p] = w]
  BY <1>1, <1>3 DEF MigrateHash, Goes
<1>6. queue \in Nat \ {0}
  BY DEF BytesInvariant, AdoptTypes
<1>7. CASE w = [old EXCEPT !.stage = "read", !.source = queue, !.baseline = x]
  <2>1. w \in Moves /\ w.stage = "read" /\ w.source = queue /\ w.baseline = x
    BY <1>2, <1>4, <1>6, <1>7 DEF Moves, MoveStages
  <2>2. MoveSourced(w)
    BY <1>4, <1>6, <2>1 DEF MoveSourced, Adopting, Copied, BackedUp
  <2> QED BY <1>5, <2>1, <2>2, MoverReads DEF MigrateHash
<1>8. CASE w = NoMove
  BY <1>5, <1>8, MoverReads DEF MigrateHash
<1> QED BY <1>5, <1>7, <1>8

LEMMA BytesCopy ==
    ASSUME BytesInvariant, NEW p \in Movers, MigrateCopy(p)
    PROVE  BytesInvariant'
<1>1. PICK old : old = moving[p]
  OBVIOUS
<1>2. old \in Moves /\ MoveSourced(old) /\ old.stage = "read"
  BY <1>1, MoveAt DEF MigrateCopy
<1>3. PICK d : d = IF db.there THEN db ELSE Migrated
  OBVIOUS
<1>4. d \in Databases /\ Sourced(d)
  <2>1. db \in Databases /\ Sourced(db)
    BY DEF BytesInvariant, AdoptTypes
  <2>2. Migrated \in Databases /\ Sourced(Migrated)
    BY MigratedIs DEF Sourced, RowIds
  <2>3. d = db \/ d = Migrated
    BY <1>3
  <2> QED BY <2>1, <2>2, <2>3
<1>5. PICK w : w = [old EXCEPT !.stage = "copied", !.copy = d] /\ moving' = [moving EXCEPT ![p] = w]
  BY <1>1, <1>3 DEF MigrateCopy, Goes
<1>6. w \in Moves /\ w.stage = "copied" /\ w.source = old.source /\ w.baseline = old.baseline /\ w.copy = d
  BY <1>2, <1>4, <1>5 DEF Moves, MoveStages
<1>7. MoveSourced(w)
  BY <1>2, <1>4, <1>6 DEF MoveSourced, Adopting, Copied, BackedUp
<1> QED BY <1>5, <1>6, <1>7, MoverReads DEF MigrateCopy

LEMMA StageGoes ==
    ASSUME NEW old \in Moves, NEW stage \in MoveStages, NEW w, w = [old EXCEPT !.stage = stage]
    PROVE  /\ w \in Moves /\ w.stage = stage /\ w.id = old.id /\ w.text = old.text /\ w.source = old.source
           /\ w.baseline = old.baseline /\ w.copy = old.copy
BY DEF Moves

\* A backup is taken once, of the database or of the copy.
LEMMA BackupTaken ==
    ASSUME BytesInvariant, NEW p \in Movers, MigrateBackup(p)
    PROVE  LET m == moving[p].id IN
           /\ m \in Adoptions /\ BackupSource(p) \in Databases /\ Sourced(BackupSource(p))
           /\ backups' \in [Adoptions -> {NoMove} \cup Databases] /\ backups'[m] # NoMove
           /\ backups[m] = NoMove => backups'[m] = BackupSource(p)
           /\ backups[m] # NoMove => backups'[m] = backups[m] /\ BackupAgrees(p)
           /\ \A n \in Adoptions : n # m => backups'[n] = backups[n]
           /\ Preserving
<1>1. PICK m : m = moving[p].id
  OBVIOUS
<1>2. moving[p] \in Moves /\ MoveSourced(moving[p]) /\ moving[p].stage = "copied"
  BY MoveAt DEF MigrateBackup
<1>3. m \in Adoptions
  BY <1>1, <1>2 DEF Moves
<1>4. BackupSource(p) \in Databases /\ Sourced(BackupSource(p))
  <2>1. BackupSource(p) = db \/ BackupSource(p) = moving[p].copy
    BY DEF BackupSource
  <2> QED BY <1>2, <2>1 DEF MoveSourced, Copied, BytesInvariant, AdoptTypes
<1>5. PICK d : d = BackupSource(p)
  OBVIOUS
<1>6. backups' = [backups EXCEPT ![m] = IF backups[m] = NoMove THEN d ELSE backups[m]]
  BY <1>1, <1>5 DEF MigrateBackup
<1>7. d # NoMove
  BY <1>4, <1>5, AdoptionSorts
<1>8. backups \in [Adoptions -> {NoMove} \cup Databases]
  BY DEF BytesInvariant, AdoptTypes
<1>9. /\ backups' \in [Adoptions -> {NoMove} \cup Databases]
      /\ backups'[m] = IF backups[m] = NoMove THEN d ELSE backups[m]
      /\ \A n \in Adoptions : n # m => backups'[n] = backups[n]
  BY <1>3, <1>4, <1>5, <1>6, <1>8
<1>10. backups[m] # NoMove => BackupAgrees(p)
  BY <1>1 DEF MigrateBackup
<1>11. Preserving
  BY <1>9 DEF Preserving, MigrateBackup, BytesInvariant, AdoptTypes
<1> QED BY <1>1, <1>3, <1>4, <1>5, <1>7, <1>9, <1>10, <1>11

LEMMA BytesBackup ==
    ASSUME BytesInvariant, NEW p \in Movers, MigrateBackup(p)
    PROVE  BytesInvariant'
<1>1. PICK old : old = moving[p]
  OBVIOUS
<1>2. old \in Moves /\ MoveSourced(old) /\ old.stage = "copied"
  BY <1>1, MoveAt DEF MigrateBackup
<1>3. PICK w : w = [old EXCEPT !.stage = "backed"] /\ moving' = [moving EXCEPT ![p] = w]
  BY <1>1 DEF MigrateBackup, Goes
<1>4. /\ w \in Moves /\ w.stage = "backed" /\ w.id = old.id /\ w.source = old.source
      /\ w.baseline = old.baseline /\ w.copy = old.copy
  BY <1>2, <1>3, StageGoes DEF MoveStages
<1>5. UNCHANGED <<db, queue, originals>>
  BY DEF MigrateBackup
<1>6. PICK m, d : m = old.id /\ d = BackupSource(p)
  OBVIOUS
<1>7. /\ m \in Adoptions /\ d \in Databases /\ Sourced(d)
      /\ backups' \in [Adoptions -> {NoMove} \cup Databases] /\ backups'[m] # NoMove
      /\ backups[m] = NoMove => backups'[m] = d
      /\ backups[m] # NoMove => backups'[m] = backups[m]
      /\ \A n \in Adoptions : n # m => backups'[n] = backups[n]
      /\ Preserving
  BY <1>1, <1>6, BackupTaken
<1>8. queue' \in Nat
  BY <1>5 DEF BytesInvariant, AdoptTypes
<1>9. MoveSourced(w)'
  <2>1. Adopting(w) => w.source \in 1 .. queue /\ w.baseline \in DatabaseDigests
    BY <1>2, <1>4 DEF MoveSourced, Adopting
  <2>2. w.copy \in Databases /\ Sourced(w.copy)
    BY <1>2, <1>4 DEF MoveSourced, Copied
  <2>3. Sourced(w.copy)'
    BY <1>7, <2>2, SourcedStays
  <2>4. backups'[w.id] # NoMove
    BY <1>4, <1>6, <1>7
  <2> QED BY <1>4, <1>5, <2>1, <2>2, <2>3, <2>4 DEF MoveSourced, Adopting, Copied, BackedUp
<1>10. moving' \in [Movers -> {NoMove} \cup Moves] /\ MovesSourced'
  BY <1>3, <1>4, <1>7, <1>8, <1>9, MoverGoes
<1>11. AdoptTypes'
  BY <1>5, <1>7, <1>10 DEF BytesInvariant, AdoptTypes
<1>12. BackupsSourced'
  <2>1. ASSUME NEW n \in Adoptions, backups'[n] # NoMove PROVE Sourced(backups[n])'
    <3>1. PICK x : x = backups'[n]
      OBVIOUS
    <3>2. x \in Databases /\ Sourced(x)
      BY <1>7, <2>1, <3>1 DEF BytesInvariant, AdoptTypes, BackupsSourced
    <3>3. Sourced(x)'
      BY <1>7, <3>2, SourcedStays
    <3> QED BY <3>1, <3>3 DEF Sourced, RowIds, RunIds
  <2> QED BY <2>1 DEF BackupsSourced
<1>13. Sourced(db)'
  BY <1>5 DEF BytesInvariant, Sourced, RowIds, RunIds
<1> QED BY <1>10, <1>11, <1>12, <1>13 DEF BytesInvariant

LEMMA BytesOriginal ==
    ASSUME BytesInvariant, NEW p \in Movers, MigrateOriginal(p)
    PROVE  BytesInvariant' /\ Preserving
<1>1. PICK old : old = moving[p]
  OBVIOUS
<1>2. old \in Moves /\ MoveSourced(old) /\ old.stage = "backed"
  BY <1>1, MoveAt DEF MigrateOriginal
<1>3. PICK w : w = [old EXCEPT !.stage = "preserved"] /\ moving' = [moving EXCEPT ![p] = w]
  BY <1>1 DEF MigrateOriginal, Goes
<1>4. /\ w \in Moves /\ w.stage = "preserved" /\ w.id = old.id /\ w.source = old.source
      /\ w.baseline = old.baseline /\ w.copy = old.copy
  BY <1>2, <1>3, StageGoes DEF MoveStages
<1>5. UNCHANGED <<db, queue, backups>>
  BY DEF MigrateOriginal
<1>6. PICK m : m = old.id
  OBVIOUS
<1>7. m \in Adoptions /\ queue \in Nat \ {0} /\ originals \in [Adoptions -> Nat]
  BY <1>2, <1>6 DEF Moves, BytesInvariant, AdoptTypes
<1>8. /\ originals' \in [Adoptions -> Nat]
      /\ originals'[m] = IF originals[m] = 0 THEN queue ELSE originals[m]
      /\ \A n \in Adoptions : n # m => originals'[n] = originals[n]
  BY <1>1, <1>6, <1>7 DEF MigrateOriginal
<1>9. Preserving
  BY <1>5, <1>7, <1>8 DEF Preserving
<1>10. queue' \in Nat
  BY <1>5, <1>7
<1>11. MoveSourced(w)'
  <2>1. w.source \in 1 .. queue /\ w.baseline \in DatabaseDigests
    BY <1>2, <1>4 DEF MoveSourced, Adopting
  <2>2. w.copy \in Databases /\ Sourced(w.copy)
    BY <1>2, <1>4 DEF MoveSourced, Copied
  <2>3. Sourced(w.copy)'
    BY <1>9, <2>2, SourcedStays
  <2>4. backups'[w.id] # NoMove
    BY <1>2, <1>4, <1>5 DEF MoveSourced, BackedUp
  <2>5. originals[m] \in {0, w.source}
    BY <1>1, <1>4, <1>6 DEF MigrateOriginal
  <2>6. originals'[w.id] \in w.source .. queue'
    BY <1>4, <1>5, <1>6, <1>7, <1>8, <2>1, <2>5
  <2> QED BY <1>4, <1>5, <2>1, <2>2, <2>3, <2>4, <2>6 DEF MoveSourced, Adopting, Copied, BackedUp
<1>12. moving' \in [Movers -> {NoMove} \cup Moves] /\ MovesSourced'
  BY <1>3, <1>4, <1>9, <1>10, <1>11, MoverGoes
<1>13. AdoptTypes'
  BY <1>5, <1>8, <1>12 DEF BytesInvariant, AdoptTypes
<1>14. BackupsSourced'
  BY <1>5, <1>9, BackupsStay
<1>15. Sourced(db)'
  <2>1. PICK d : d = db
    OBVIOUS
  <2>2. Sourced(d)'
    BY <1>9, <2>1, SourcedStays DEF BytesInvariant, AdoptTypes
  <2> QED BY <1>5, <2>1, <2>2 DEF Sourced, RowIds, RunIds
<1> QED BY <1>9, <1>12, <1>13, <1>14, <1>15 DEF BytesInvariant

\* When the queue is still what was hashed, what was kept of it in between is that too.
LEMMA BytesAgree ==
    ASSUME BytesInvariant, NEW p \in Movers, MigrateVerify(p)
    PROVE  LET old == moving[p]  d == Staged(moving[p]) IN
           /\ old \in Moves /\ old.copy \in Databases /\ backups[old.id] \in Databases
           /\ originals[old.id] = old.source /\ old.source # 0
           /\ d \in Databases /\ Sourced(d)
<1>1. PICK old : old = moving[p]
  OBVIOUS
<1>2. old \in Moves /\ MoveSourced(old) /\ old.stage = "preserved"
  BY <1>1, MoveAt DEF MigrateVerify
<1>3. PICK m : m = old.id
  OBVIOUS
<1>4. m \in Adoptions /\ old.text \in Nat
  BY <1>2, <1>3 DEF Moves
<1>5. old.copy \in Databases /\ Sourced(old.copy)
  BY <1>2 DEF MoveSourced, Copied
<1>6. backups[m] \in Databases
  BY <1>2, <1>3, <1>4 DEF MoveSourced, BackedUp, BytesInvariant, AdoptTypes
<1>7. originals[m] = old.source /\ old.source # 0
  <2>1. old.source \in 1 .. queue /\ originals[m] \in old.source .. queue /\ queue \in Nat
    BY <1>2, <1>3 DEF MoveSourced, Adopting, BytesInvariant, AdoptTypes
  <2>2. queue = old.source
    BY <1>1 DEF MigrateVerify, StillTheSame
  <2> QED BY <2>1, <2>2
<1>8. KindOf[m] = "pipeline" => old.text = old.source
  BY <1>1, <1>3, <1>7 DEF MigrateVerify, Verified
<1>9. PICK d, new : d = Staged(old) /\ new = NewRows(old)
  OBVIOUS
<1>10. PICK run \in AdoptionRuns :
          /\ d \in Databases /\ d.rows = old.copy.rows \cup new /\ d.runs = old.copy.runs \cup {run}
          /\ run.id = m /\ run.source = old.source
  BY <1>2, <1>3, <1>5, <1>6, <1>9, StagedIs
<1>11. \A s \in new : s.id = m /\ s.text = old.text
  BY <1>2, <1>3, <1>4, <1>9, NewRowsAre
<1>12. RowIds(d) \subseteq RunIds(d)
  BY <1>5, <1>10, <1>11 DEF Sourced, RowIds, RunIds
<1>13. ASSUME NEW r \in d.runs PROVE originals[r.id] = r.source /\ r.source # 0
  BY <1>5, <1>7, <1>10, <1>13 DEF Sourced
<1>14. ASSUME NEW r \in d.runs, KindOf[r.id] = "pipeline", NEW s \in d.rows, s.id = r.id PROVE s.text = r.source
  <2>1. CASE s \in new
    BY <1>7, <1>8, <1>11, <1>13, <1>14, <2>1
  <2>2. CASE s \in old.copy.rows
    <3>1. PICK r2 \in old.copy.runs : r2.id = s.id
      BY <1>5, <2>2 DEF Sourced, RowIds, RunIds
    <3>2. s.text = r2.source /\ originals[r2.id] = r2.source
      BY <1>5, <1>14, <2>2, <3>1 DEF Sourced
    <3> QED BY <1>13, <1>14, <3>1, <3>2
  <2> QED BY <1>10, <2>1, <2>2
<1>15. Sourced(d)
  BY <1>12, <1>13, <1>14 DEF Sourced
<1> QED BY <1>1, <1>2, <1>3, <1>5, <1>6, <1>7, <1>9, <1>10, <1>15

LEMMA BytesVerify ==
    ASSUME BytesInvariant, NEW p \in Movers, MigrateVerify(p)
    PROVE  BytesInvariant'
<1>1. PICK old, d : old = moving[p] /\ d = Staged(old)
  OBVIOUS
<1>2. old \in Moves /\ d \in Databases /\ Sourced(d)
  BY <1>1, BytesAgree
<1>3. PICK w : w = [old EXCEPT !.stage = "verified", !.copy = d] /\ moving' = [moving EXCEPT ![p] = w]
  BY <1>1 DEF MigrateVerify, Goes
<1>4. w \in Moves /\ w.stage = "verified" /\ w.copy = d
  BY <1>2, <1>3 DEF Moves, MoveStages
<1>5. MoveSourced(w)
  BY <1>2, <1>4 DEF MoveSourced, Adopting, Copied, BackedUp
<1> QED BY <1>3, <1>4, <1>5, MoverReads DEF MigrateVerify

\* Another database comes in place, its rows from the bytes it names.
LEMMA DatabaseComes ==
    ASSUME BytesInvariant, UNCHANGED <<backups, originals>>, queue' \in Nat \ {0}, queue <= queue',
           db' \in Databases, Sourced(db'),
           moving' \in [Movers -> {NoMove} \cup Moves],
           \A q \in Movers : moving'[q] = moving[q] \/ moving'[q] = NoMove
    PROVE  BytesInvariant' /\ Preserving
<1>1. Preserving
  BY DEF Preserving
<1>2. AdoptTypes'
  BY DEF BytesInvariant, AdoptTypes
<1>3. Sourced(db)'
  <2>1. PICK d : d = db'
    OBVIOUS
  <2>2. Sourced(d)'
    BY <1>1, <2>1, SourcedStays
  <2> QED BY <2>1, <2>2 DEF Sourced, RowIds, RunIds
<1>4. BackupsSourced'
  BY <1>1, BackupsStay
<1>5. ASSUME NEW q \in Movers, moving'[q] # NoMove PROVE MoveSourced(moving[q])'
  <2>1. PICK v : v = moving'[q]
    OBVIOUS
  <2>2. v = moving[q]
    BY <1>5, <2>1
  <2>3. v \in Moves /\ MoveSourced(v)
    BY <1>5, <2>1, <2>2 DEF BytesInvariant, MovesSourced
  <2>4. MoveSourced(v)'
    BY <1>1, <2>3, MoveStays DEF BytesInvariant
  <2> QED BY <2>1, <2>4 DEF MoveSourced, Adopting, Copied, BackedUp, Sourced, RowIds, RunIds
<1>6. MovesSourced'
  BY <1>5 DEF MovesSourced
<1> QED BY <1>1, <1>2, <1>3, <1>4, <1>6 DEF BytesInvariant

LEMMA BytesReplace ==
    ASSUME BytesInvariant, NEW p \in Movers, MigrateReplace(p) \/ RollbackReplace(p)
    PROVE  BytesInvariant'
<1>1. PICK stage : At(p, stage) /\ stage \in {"verified", "restored"}
  BY DEF MigrateReplace, RollbackReplace
<1>2. moving[p] \in Moves /\ MoveSourced(moving[p]) /\ moving[p].stage = stage
  BY <1>1, MoveAt
<1>3. moving[p].copy \in Databases /\ Sourced(moving[p].copy)
  BY <1>1, <1>2 DEF MoveSourced, Copied
<1>4. db' = moving[p].copy /\ moving' = [moving EXCEPT ![p] = NoMove] /\ UNCHANGED <<queue, backups, originals>>
  BY DEF MigrateReplace, RollbackReplace, Goes
<1>5. /\ moving' \in [Movers -> {NoMove} \cup Moves]
      /\ \A q \in Movers : moving'[q] = moving[q] \/ moving'[q] = NoMove
  BY <1>4, Moved DEF BytesInvariant
<1>6. queue' \in Nat \ {0} /\ queue <= queue'
  BY <1>4 DEF BytesInvariant, AdoptTypes
<1>7. db' \in Databases /\ Sourced(db')
  BY <1>3, <1>4
<1> QED BY <1>4, <1>5, <1>6, <1>7, DatabaseComes

LEMMA RunsTyped == \A d \in Databases : \A r \in d.runs : r \in AdoptionRuns /\ r.after \in DatabaseDigests
BY DEF Databases, AdoptionRuns

LEMMA BytesRollback ==
    ASSUME BytesInvariant, NEW p \in Movers, NEW m \in Adoptions, RollbackRead(p, m)
    PROVE  BytesInvariant'
<1>1. PICK d : d = backups[m]
  OBVIOUS
<1>2. PICK r \in db.runs :
          moving' = [moving EXCEPT ![p] = [stage |-> "compared", id |-> m, text |-> 0, source |-> 0,
                                           baseline |-> r.after, copy |-> d]]
  BY <1>1, Zenon DEF RollbackRead, Goes
<1>3. PICK w : w = [stage |-> "compared", id |-> m, text |-> 0, source |-> 0, baseline |-> r.after, copy |-> d]
  OBVIOUS
<1>4. d \in Databases /\ Sourced(d)
  BY <1>1 DEF RollbackRead, BytesInvariant, AdoptTypes, BackupsSourced
<1>5. r.after \in DatabaseDigests
  BY RunsTyped DEF BytesInvariant, AdoptTypes
<1>6. w \in Moves /\ w.stage = "compared" /\ w.copy = d /\ w.baseline = r.after
  BY <1>3, <1>4, <1>5 DEF Moves, MoveStages
<1>7. MoveSourced(w)
  BY <1>4, <1>5, <1>6 DEF MoveSourced, Adopting, Copied, BackedUp
<1>8. UNCHANGED <<db, queue, backups, originals>>
  BY DEF RollbackRead
<1> QED BY <1>2, <1>3, <1>6, <1>7, <1>8, MoverReads

LEMMA BytesCompare ==
    ASSUME BytesInvariant, NEW p \in Movers, RollbackCompare(p)
    PROVE  BytesInvariant'
<1>1. PICK old : old = moving[p]
  OBVIOUS
<1>2. old \in Moves /\ MoveSourced(old) /\ old.stage = "compared"
  BY <1>1, MoveAt DEF RollbackCompare
<1>3. PICK w : w = [old EXCEPT !.stage = "restored"] /\ moving' = [moving EXCEPT ![p] = w]
  BY <1>1 DEF RollbackCompare, Goes
<1>4. w \in Moves /\ w.stage = "restored" /\ w.copy = old.copy
  BY <1>2, <1>3, StageGoes DEF MoveStages
<1>5. MoveSourced(w)
  BY <1>2, <1>4 DEF MoveSourced, Adopting, Copied, BackedUp
<1> QED BY <1>3, <1>4, <1>5, MoverReads DEF RollbackCompare

\* What other commands commit takes no row away and changes no text.
LEMMA CommitIs ==
    ASSUME db \in Databases, NEW f \in Facts, Commit(f)
    PROVE  /\ db' \in Databases /\ db'.there = TRUE /\ db'.rows = db.rows /\ db'.runs = db.runs
           /\ db'.facts = db.facts \cup {f}
BY DEF Commit, Databases

LEMMA BindIs ==
    ASSUME db \in Databases, NEW r \in db.rows, BindTracking(r)
    PROVE  LET s == [r EXCEPT !.proof = "verified"] IN
           /\ db' \in Databases /\ db'.there = db.there /\ db'.rows = (db.rows \ {r}) \cup {s}
           /\ db'.runs = db.runs /\ db'.facts = db.facts
           /\ s.id = r.id /\ s.entry = r.entry /\ s.text = r.text /\ s.proof = "verified"
<1>1. r \in AdoptedRows
  BY DEF Databases
<1>2. PICK s : s = [r EXCEPT !.proof = "verified"]
  OBVIOUS
<1>3. s \in AdoptedRows /\ s.id = r.id /\ s.entry = r.entry /\ s.text = r.text /\ s.proof = "verified"
  BY <1>1, <1>2 DEF AdoptedRows
<1>4. PICK rows : rows = (db.rows \ {r}) \cup {s}
  OBVIOUS
<1>5. rows \subseteq AdoptedRows
  BY <1>3, <1>4 DEF Databases
<1>6. db' = [db EXCEPT !.rows = rows]
  BY <1>2, <1>4 DEF BindTracking, Databases
<1>7. db' \in Databases /\ db'.there = db.there /\ db'.rows = rows /\ db'.runs = db.runs /\ db'.facts = db.facts
  BY <1>5, <1>6 DEF Databases
<1> QED BY <1>2, <1>3, <1>4, <1>7

LEMMA BytesOthers ==
    ASSUME BytesInvariant, (\E f \in Facts : Commit(f)) \/ (\E r \in db.rows : BindTracking(r)) \/ EditQueue
    PROVE  BytesInvariant' /\ Preserving
<1>1. db \in Databases /\ Sourced(db) /\ queue \in Nat \ {0}
  BY DEF BytesInvariant, AdoptTypes
<1>2. UNCHANGED <<backups, originals, moving>>
  BY Zenon DEF Commit, BindTracking, EditQueue
<1>3. queue' \in Nat \ {0} /\ queue <= queue'
  <2>1. queue' = queue \/ queue' = queue + 1
    BY Zenon DEF Commit, BindTracking, EditQueue
  <2> QED BY <1>1, <2>1
<1>4. /\ moving' \in [Movers -> {NoMove} \cup Moves]
      /\ \A q \in Movers : moving'[q] = moving[q] \/ moving'[q] = NoMove
  BY <1>2 DEF BytesInvariant, AdoptTypes
<1>5. db' \in Databases /\ Sourced(db')
  <2>1. CASE \E f \in Facts : Commit(f)
    <3>1. db' \in Databases /\ db'.rows = db.rows /\ db'.runs = db.runs
      BY <1>1, <2>1, CommitIs
    <3> QED BY <1>1, <3>1 DEF Sourced, RowIds, RunIds
  <2>2. ASSUME NEW r \in db.rows, BindTracking(r) PROVE db' \in Databases /\ Sourced(db')
    <3>1. PICK s : /\ db' \in Databases /\ db'.rows = (db.rows \ {r}) \cup {s} /\ db'.runs = db.runs
                   /\ s.id = r.id /\ s.text = r.text
      BY <1>1, <2>2, BindIs
    <3>2. RowIds(db') \subseteq RowIds(db) /\ RunIds(db') = RunIds(db)
      BY <3>1 DEF RowIds, RunIds
    <3>3. \A x \in db'.rows : \E y \in db.rows : y.id = x.id /\ y.text = x.text
      BY <3>1
    <3>4. ASSUME NEW run \in db.runs, KindOf[run.id] = "pipeline", NEW x \in db'.rows, x.id = run.id
          PROVE  x.text = run.source
      <4>1. PICK y \in db.rows : y.id = x.id /\ y.text = x.text
        BY <3>3
      <4>2. y.text = run.source
        BY <1>1, <3>4, <4>1 DEF Sourced
      <4> QED BY <4>1, <4>2
    <3>5. \A run \in db.runs : originals[run.id] = run.source /\ run.source # 0
      BY <1>1 DEF Sourced
    <3>6. RowIds(db') \subseteq RunIds(db')
      BY <1>1, <3>2 DEF Sourced
    <3> QED BY <3>1, <3>4, <3>5, <3>6 DEF Sourced
  <2>3. CASE EditQueue
    BY <1>1, <2>3 DEF EditQueue
  <2> QED BY <2>1, <2>2, <2>3
<1> QED BY <1>2, <1>3, <1>4, <1>5, DatabaseComes

LEMMA BytesStep == BytesInvariant /\ [AdoptionNext]_adoptionVars => BytesInvariant'
<1> SUFFICES ASSUME BytesInvariant, [AdoptionNext]_adoptionVars PROVE BytesInvariant'
  OBVIOUS
<1>1. CASE UNCHANGED adoptionVars
  <2>1. UNCHANGED <<db, queue, backups, originals, moving>>
    BY <1>1 DEF adoptionVars
  <2> QED BY <2>1 DEF BytesInvariant, AdoptTypes, Sourced, BackupsSourced, MovesSourced, MoveSourced, RowIds, RunIds
<1>2. ASSUME NEW p \in Movers, MoveEnds(p) PROVE BytesInvariant'
  BY <1>2, MoverReads DEF MoveEnds, Goes
<1>3. ASSUME NEW p \in Movers, NEW m \in Adoptions, MigrateMap(p, m) \/ RollbackRead(p, m) PROVE BytesInvariant'
  BY <1>3, BytesMap, BytesRollback
<1>4. ASSUME NEW p \in Movers,
             \/ MigrateHash(p) \/ MigrateCopy(p) \/ MigrateBackup(p) \/ MigrateOriginal(p)
             \/ MigrateVerify(p) \/ MigrateReplace(p) \/ RollbackCompare(p) \/ RollbackReplace(p)
      PROVE  BytesInvariant'
  BY <1>4, BytesHash, BytesCopy, BytesBackup, BytesOriginal, BytesVerify, BytesReplace, BytesCompare, Zenon
<1>5. ASSUME (\E f \in Facts : Commit(f)) \/ (\E r \in db.rows : BindTracking(r)) \/ EditQueue PROVE BytesInvariant'
  BY <1>5, BytesOthers
<1> QED BY <1>1, <1>2, <1>3, <1>4, <1>5, Zenon DEF AdoptionNext

LEMMA BytesStart == AdoptionInit => BytesInvariant
<1> SUFFICES ASSUME AdoptionInit PROVE BytesInvariant
  OBVIOUS
<1>1. db \in Databases /\ db.rows = {} /\ db.runs = {}
  <2>1. db = NoDatabase \/ db = Migrated
    BY DEF AdoptionInit
  <2>2. NoDatabase \in Databases /\ NoDatabase.rows = {} /\ NoDatabase.runs = {}
    BY DEF NoDatabase, Databases
  <2> QED BY <2>1, <2>2, MigratedIs
<1>2. Sourced(db)
  BY <1>1 DEF Sourced, RowIds
<1>3. AdoptTypes
  BY <1>1 DEF AdoptTypes, AdoptionInit
<1>4. BackupsSourced /\ MovesSourced
  BY DEF BackupsSourced, MovesSourced, AdoptionInit
<1> QED BY <1>2, <1>3, <1>4 DEF BytesInvariant

LEMMA BytesSafety == AdoptionSpec => []BytesInvariant
BY BytesStart, BytesStep, PTL DEF AdoptionSpec

\* However many processes adopt at once, the bytes kept under an id are those its adoption names, and
\* the rows of pipelines were read from them (migrate, verify).
THEOREM BytesKept == AdoptionSpec => []SourceKept
<1>1. BytesInvariant => SourceKept
  BY DEF BytesInvariant, Sourced, SourceKept
<1> QED BY <1>1, BytesSafety, PTL

----
(* Adoptions that stand, one process at a time. *)

LEMMA WithinIs ==
    /\ \A a : Within(a, a)
    /\ \A a, b, c : Within(a, b) /\ Within(b, c) => Within(a, c)
BY DEF Within

\* Equal digests are of databases with the same facts, rows and proofs.
LEMMA SameDigest ==
    ASSUME NEW d \in Databases, NEW sort, NEW x, Digest(sort, d) = x
    PROVE  Held(x) = Held(d) /\ RowIds(x) = RowIds(d) /\ Within(d, x) /\ Within(x, d)
BY DigestIs DEF Held, RowIds, Within

LEMMA SoundStays ==
    ASSUME Preserving, NEW d \in Databases, Sound(d)
    PROVE  Sound(d)'
<1>1. Whole(d)'
  BY DEF Sound, Whole
<1>2. ASSUME NEW r \in d.runs PROVE RunSound(r)'
  <2>1. r.id \in Adoptions
    BY DEF Databases, AdoptionRuns
  <2>2. RunSound(r)
    BY DEF Sound
  <2>3. backups'[r.id] = backups[r.id]
    BY <2>1, <2>2 DEF RunSound, Preserving
  <2> QED BY <2>2, <2>3 DEF RunSound, Held, RowIds
<1> QED BY <1>1, <1>2 DEF Sound

LEMMA WholeRows ==
    ASSUME NEW d \in Databases, Whole(d), Sourced(d)
    PROVE  RowIds(d) = RunIds(d)
<1>1. RowIds(d) \subseteq RunIds(d)
  BY DEF Sourced
<1>2. ASSUME NEW r \in d.runs PROVE r.id \in RowIds(d)
  <2>1. PICK e : e \in Entries
    BY AdoptionSorts
  <2>2. PICK s \in d.rows : s.id = r.id
    BY <2>1 DEF Whole
  <2> QED BY <2>2 DEF RowIds
<1> QED BY <1>1, <1>2 DEF RunIds

\* The only process goes on.
LEMMA MoveAlone ==
    ASSUME OneMover, AdoptTypes, NEW p \in Movers, NEW w, w = NoMove \/ (w \in Moves /\ MoveSound(w)'),
           moving' = [moving EXCEPT ![p] = w]
    PROVE  MovesSound'
<1>1. moving'[p] = w
  BY Moved
<1>2. \A q \in Movers : q = p
  BY DEF OneMover
<1>3. {moving'[q] : q \in Movers} = {w}
  BY <1>1, <1>2
<1> QED BY <1>3 DEF MovesSound

\* A step that only reads.
LEMMA StandReads ==
    ASSUME OneMover, StandInvariant, BytesInvariant', UNCHANGED <<db, backups, fate, standing>>,
           NEW p \in Movers, NEW w, w = NoMove \/ (w \in Moves /\ MoveSound(w)), moving' = [moving EXCEPT ![p] = w]
    PROVE  StandInvariant'
<1>1. MoveSound(w) => MoveSound(w)'
  BY DEF MoveSound, Copied, BackedUp, Sound, Whole, RunSound, Held, RowIds, RunIds, Within, AllKept
<1>2. MovesSound'
  BY <1>1, MoveAlone DEF StandInvariant, BytesInvariant
<1>3. DatabaseSound'
  BY DEF StandInvariant, DatabaseSound, Sound, Whole, RunSound, Held, RowIds, RunIds, AllKept
<1>4. BackupsSound'
  BY DEF StandInvariant, BackupsSound, Sound, Whole, RunSound, Held, RowIds
<1>5. (fate \in [Commits -> {"none", "kept", "late"}])'
  BY DEF StandInvariant
<1> QED BY <1>2, <1>3, <1>4, <1>5 DEF StandInvariant

LEMMA StandAt ==
    ASSUME StandInvariant, NEW p \in Movers, NEW stage, At(p, stage)
    PROVE  /\ moving[p] \in Moves /\ MoveSourced(moving[p]) /\ MoveSound(moving[p])
           /\ moving[p].stage = stage /\ moving[p] # NoMove
BY MoveAt DEF StandInvariant, MovesSound, At

LEMMA StandMap ==
    ASSUME OneMover, StandInvariant, BytesInvariant', NEW p \in Movers, NEW m \in Adoptions, MigrateMap(p, m)
    PROVE  StandInvariant'
<1>1. PICK w : /\ w = [stage |-> "mapped", id |-> m, text |-> queue, source |-> 0, baseline |-> NoMove, copy |-> NoMove]
               /\ moving' = [moving EXCEPT ![p] = w]
  BY DEF MigrateMap, Goes
<1>2. queue \in Nat
  BY DEF StandInvariant, BytesInvariant, AdoptTypes
<1>3. w \in Moves /\ w.stage = "mapped"
  BY <1>1, <1>2 DEF Moves, MoveStages
<1>4. MoveSound(w)
  BY <1>3 DEF MoveSound, Copied, BackedUp
<1>5. UNCHANGED <<db, backups, fate, standing>>
  BY DEF MigrateMap
<1> QED BY <1>1, <1>3, <1>4, <1>5, StandReads

LEMMA StandHash ==
    ASSUME OneMover, StandInvariant, BytesInvariant', NEW p \in Movers, MigrateHash(p)
    PROVE  StandInvariant'
<1>1. PICK old, x : old = moving[p] /\ x = Digest(Kind(p), db)
  OBVIOUS
<1>2. old \in Moves
  BY <1>1, StandAt DEF MigrateHash
<1>3. db \in Databases /\ queue \in Nat
  BY DEF StandInvariant, BytesInvariant, AdoptTypes
<1>4. x \in DatabaseDigests /\ Within(x, db)
  BY <1>1, <1>3, DigestIs, SameDigest
<1>5. PICK w : /\ w = NoMove \/ w = [old EXCEPT !.stage = "read", !.source = queue, !.baseline = x]
               /\ moving' = [moving EXCEPT ![p] = w]
  BY <1>1 DEF MigrateHash, Goes
<1>6. UNCHANGED <<db, backups, fate, standing>>
  BY DEF MigrateHash
<1>7. CASE w = [old EXCEPT !.stage = "read", !.source = queue, !.baseline = x]
  <2>1. w \in Moves /\ w.stage = "read" /\ w.baseline = x
    BY <1>2, <1>3, <1>4, <1>7 DEF Moves, MoveStages
  <2>2. MoveSound(w)
    BY <1>4, <2>1 DEF MoveSound, Copied, BackedUp
  <2> QED BY <1>5, <1>6, <2>1, <2>2, StandReads
<1>8. CASE w = NoMove
  BY <1>5, <1>6, <1>8, StandReads
<1> QED BY <1>5, <1>7, <1>8

LEMMA StandCopy ==
    ASSUME OneMover, StandInvariant, BytesInvariant', NEW p \in Movers, MigrateCopy(p)
    PROVE  StandInvariant'
<1>1. PICK old, d : old = moving[p] /\ d = IF db.there THEN db ELSE Migrated
  OBVIOUS
<1>2. old \in Moves /\ MoveSound(old) /\ old.stage = "read"
  BY <1>1, StandAt DEF MigrateCopy
<1>3. db \in Databases /\ DatabaseSound
  BY DEF StandInvariant, BytesInvariant, AdoptTypes
<1>4. Within(old.baseline, db)
  BY <1>2 DEF MoveSound
<1>5. d \in Databases /\ Sound(d) /\ d.there /\ Within(old.baseline, d) /\ Within(d, db)
  <2>1. CASE db.there
    <3>1. d = db
      BY <1>1, <2>1
    <3> QED BY <1>3, <1>4, <2>1, <3>1, WithinIs, Zenon DEF DatabaseSound
  <2>2. CASE ~db.there
    <3>1. d = Migrated
      BY <1>1, <2>2
    <3>2. d \in Databases /\ d.there = TRUE /\ d.rows = {} /\ d.runs = {} /\ d.facts = {}
      BY <3>1, MigratedIs, Zenon
    <3>3. Held(d) = {} /\ RowIds(d) = {}
      BY <3>2 DEF Held, RowIds
    <3>4. Sound(d)
      BY <3>2 DEF Sound, Whole
    <3>5. Held(db) = {} /\ RowIds(db) = {}
      BY <1>3, <2>2, Zenon DEF DatabaseSound
    <3>6. Within(old.baseline, d) /\ Within(d, db)
      BY <1>4, <3>3, <3>5 DEF Within
    <3>7. d.there
      BY <3>2
    <3> QED BY <3>2, <3>4, <3>6, <3>7
  <2> QED BY <2>1, <2>2
<1>6. PICK w : w = [old EXCEPT !.stage = "copied", !.copy = d] /\ moving' = [moving EXCEPT ![p] = w]
  BY <1>1 DEF MigrateCopy, Goes
<1>7. w \in Moves /\ w.stage = "copied" /\ w.baseline = old.baseline /\ w.copy = d
  BY <1>2, <1>5, <1>6 DEF Moves, MoveStages
<1>8. MoveSound(w)
  BY <1>5, <1>7 DEF MoveSound, BackedUp
<1>9. UNCHANGED <<db, backups, fate, standing>>
  BY DEF MigrateCopy
<1> QED BY <1>6, <1>7, <1>8, <1>9, StandReads

\* A backup has what the copy has, unless the database has changed since, which the host finds out
\* when it compares.
LEMMA StandBackup ==
    ASSUME OneMover, StandInvariant, BytesInvariant', NEW p \in Movers, MigrateBackup(p)
    PROVE  StandInvariant'
<1>1. PICK old, m, d : old = moving[p] /\ m = old.id /\ d = BackupSource(p)
  OBVIOUS
<1>2. old \in Moves /\ MoveSourced(old) /\ MoveSound(old) /\ old.stage = "copied"
  BY <1>1, StandAt DEF MigrateBackup
<1>3. BytesInvariant /\ AdoptTypes /\ db \in Databases /\ DatabaseSound /\ BackupsSound
  BY DEF StandInvariant, BytesInvariant, AdoptTypes
<1>4. /\ m \in Adoptions /\ d \in Databases
      /\ backups' \in [Adoptions -> {NoMove} \cup Databases] /\ backups'[m] # NoMove
      /\ backups[m] = NoMove => backups'[m] = d
      /\ backups[m] # NoMove => backups'[m] = backups[m] /\ BackupAgrees(p)
      /\ \A n \in Adoptions : n # m => backups'[n] = backups[n]
      /\ Preserving
  BY <1>1, <1>3, BackupTaken
<1>5. old.copy \in Databases
  BY <1>2 DEF MoveSourced, Copied
<1>6. Sound(old.copy) /\ old.copy.there /\ Within(old.baseline, old.copy) /\ Within(old.copy, db)
  BY <1>2, Zenon DEF MoveSound, Copied
<1>7. Sound(d) /\ d.there /\ Within(old.copy, d)
  <2>1. CASE db.there
    <3>1. d = db
      BY <1>1, <2>1 DEF BackupSource
    <3> QED BY <1>3, <1>6, <2>1, <3>1, Zenon DEF DatabaseSound
  <2>2. CASE ~db.there
    <3>1. d = old.copy
      BY <1>1, <2>2 DEF BackupSource
    <3> QED BY <1>6, <3>1, WithinIs, Zenon
  <2> QED BY <2>1, <2>2
<1>8. PICK b : b = backups'[m]
  OBVIOUS
<1>9. Within(old.copy, b) \/ Within(old.baseline, b)
  <2>1. CASE backups[m] = NoMove
    BY <1>4, <1>7, <1>8, <2>1
  <2>2. CASE backups[m] # NoMove
    <3>1. b = backups[m] /\ b \in Databases /\ BackupAgrees(p)
      BY <1>3, <1>4, <1>8, <2>2 DEF AdoptTypes
    <3>2. CASE Kind(p) = "host" /\ old.copy = Migrated
      <4>1. Held(old.copy) = {} /\ RowIds(old.copy) = {}
        BY <3>2, MigratedIs DEF Held, RowIds
      <4> QED BY <4>1 DEF Within
    <3>3. CASE Digest(Kind(p), b) = old.baseline
      BY <3>1, <3>3, SameDigest
    <3>4. CASE Digest(Kind(p), b) = PipelineDigest(d)
      <4>1. PICK x : x = PipelineDigest(d)
        OBVIOUS
      <4>2. Digest("pipeline", d) = x
        BY <4>1 DEF Digest
      <4>3. Within(d, x) /\ Within(x, b)
        BY <1>4, <3>1, <3>4, <4>1, <4>2, SameDigest
      <4> QED BY <1>7, <4>3, WithinIs
    <3> QED BY <1>1, <3>1, <3>2, <3>3, <3>4 DEF BackupAgrees
  <2> QED BY <2>1, <2>2
<1>10. PICK w : w = [old EXCEPT !.stage = "backed"] /\ moving' = [moving EXCEPT ![p] = w]
  BY <1>1 DEF MigrateBackup, Goes
<1>11. /\ w \in Moves /\ w.stage = "backed" /\ w.id = m /\ w.baseline = old.baseline /\ w.copy = old.copy
  BY <1>1, <1>2, <1>10, StageGoes DEF MoveStages
<1>12. UNCHANGED <<db, originals, fate, standing>>
  BY DEF MigrateBackup
<1>13. MoveSound(w)'
  <2>1. Sound(w.copy)'
    BY <1>4, <1>5, <1>6, <1>11, SoundStays
  <2>2. w.copy.there
    BY <1>6, <1>11, Zenon
  <2>3. Within(w.baseline, w.copy) /\ Within(w.copy, db')
    BY <1>6, <1>11, <1>12
  <2>4. Within(w.copy, backups'[w.id]) \/ Within(w.baseline, backups'[w.id])
    BY <1>8, <1>9, <1>11
  <2> QED BY <1>11, <2>1, <2>2, <2>3, <2>4 DEF MoveSound, Copied, Within, Held, RowIds
<1>14. MovesSound'
  BY <1>3, <1>10, <1>11, <1>13, MoveAlone
<1>15. DatabaseSound'
  <2>1. PICK x : x = db
    OBVIOUS
  <2>2. Sound(x)'
    BY <1>3, <1>4, <2>1, SoundStays DEF DatabaseSound
  <2>3. Sound(db)'
    BY <1>12, <2>1, <2>2 DEF Sound, Whole, RunSound, Held, RowIds
  <2> QED BY <1>3, <1>12, <2>3 DEF DatabaseSound, AllKept, Held, RowIds, RunIds
<1>16. BackupsSound'
  <2>1. ASSUME NEW n \in Adoptions, backups'[n] # NoMove PROVE (Sound(backups[n]) /\ backups[n].there)'
    <3>1. PICK x : x = backups'[n]
      OBVIOUS
    <3>2. x \in Databases
      BY <1>4, <2>1, <3>1
    <3>3. Sound(x) /\ x.there
      <4>1. CASE n = m /\ backups[m] = NoMove
        <5>1. x = d
          BY <1>4, <3>1, <4>1
        <5> QED BY <1>7, <5>1
      <4>2. CASE n # m \/ backups[m] # NoMove
        <5>1. x = backups[n] /\ backups[n] # NoMove
          BY <1>4, <2>1, <3>1, <4>2
        <5> QED BY <1>3, <5>1, Zenon DEF BackupsSound
      <4> QED BY <4>1, <4>2
    <3>4. Sound(x)'
      BY <1>4, <3>2, <3>3, SoundStays
    <3>5. Sound(backups[n])'
      BY <3>1, <3>4 DEF Sound, Whole, RunSound, Held, RowIds
    <3> QED BY <3>1, <3>3, <3>5, Zenon
  <2> QED BY <2>1, Zenon DEF BackupsSound
<1>17. (fate \in [Commits -> {"none", "kept", "late"}])'
  BY <1>12 DEF StandInvariant
<1> QED BY <1>14, <1>15, <1>16, <1>17 DEF StandInvariant

LEMMA StandOriginal ==
    ASSUME OneMover, StandInvariant, BytesInvariant', NEW p \in Movers, MigrateOriginal(p)
    PROVE  StandInvariant'
<1>1. PICK old : old = moving[p]
  OBVIOUS
<1>2. old \in Moves /\ MoveSound(old) /\ old.stage = "backed"
  BY <1>1, StandAt DEF MigrateOriginal
<1>3. PICK w : w = [old EXCEPT !.stage = "preserved"] /\ moving' = [moving EXCEPT ![p] = w]
  BY <1>1 DEF MigrateOriginal, Goes
<1>4. /\ w \in Moves /\ w.stage = "preserved" /\ w.id = old.id /\ w.baseline = old.baseline /\ w.copy = old.copy
  BY <1>2, <1>3, StageGoes DEF MoveStages
<1>5. MoveSound(w)
  <2>1. Sound(w.copy) /\ w.copy.there
    BY <1>2, <1>4, Zenon DEF MoveSound, Copied
  <2>2. Within(w.baseline, w.copy) /\ Within(w.copy, db)
    BY <1>2, <1>4 DEF MoveSound
  <2>3. Within(w.copy, backups[w.id]) \/ Within(w.baseline, backups[w.id])
    BY <1>2, <1>4 DEF MoveSound, BackedUp
  <2> QED BY <1>4, <2>1, <2>2, <2>3 DEF MoveSound
<1>6. UNCHANGED <<db, backups, fate, standing>>
  BY DEF MigrateOriginal
<1> QED BY <1>3, <1>4, <1>5, <1>6, StandReads

\* A database that still is the baseline is held by the copy, and holds no more than its backup.
LEMMA StandVerify ==
    ASSUME OneMover, StandInvariant, BytesInvariant', NEW p \in Movers, MigrateVerify(p)
    PROVE  StandInvariant'
<1>1. PICK old, m, d : old = moving[p] /\ m = old.id /\ d = Staged(old)
  OBVIOUS
<1>2. old \in Moves /\ MoveSourced(old) /\ MoveSound(old) /\ old.stage = "preserved"
  BY <1>1, StandAt DEF MigrateVerify
<1>3. BytesInvariant /\ AdoptTypes /\ db \in Databases /\ Sourced(db) /\ DatabaseSound
  BY DEF StandInvariant, BytesInvariant, AdoptTypes
<1>4. /\ m \in Adoptions /\ old.text \in Nat /\ old.copy \in Databases /\ Sourced(old.copy)
      /\ backups[m] \in Databases /\ backups[m] # NoMove
  BY <1>1, <1>2, <1>3, BytesAgree DEF Moves, MoveSourced, Copied, BackedUp
<1>5. /\ Sound(old.copy) /\ old.copy.there /\ Within(old.baseline, old.copy) /\ Within(old.copy, db)
      /\ Within(old.copy, backups[m]) \/ Within(old.baseline, backups[m])
  BY <1>1, <1>2, Zenon DEF MoveSound, Copied, BackedUp
<1>6. Within(db, old.baseline)
  <2>1. CASE db.there
    <3>1. Digest(KindOf[m], db) = old.baseline
      BY <1>1, <2>1 DEF MigrateVerify, StillTheSame
    <3> QED BY <1>3, <3>1, SameDigest
  <2>2. CASE ~db.there
    <3>1. Held(db) = {} /\ RowIds(db) = {}
      BY <1>3, <2>2, Zenon DEF DatabaseSound
    <3> QED BY <3>1 DEF Within
  <2> QED BY <2>1, <2>2
<1>7. Within(db, old.copy) /\ Within(old.copy, backups[m])
  BY <1>5, <1>6, WithinIs, Zenon
<1>8. PICK run \in AdoptionRuns :
         /\ d \in Databases /\ d.there = old.copy.there /\ d.facts = old.copy.facts
         /\ d.rows = old.copy.rows \cup NewRows(old) /\ d.runs = old.copy.runs \cup {run}
         /\ run.id = m /\ run.after.facts = d.facts /\ run.after.rows = d.rows
  BY <1>1, <1>2, <1>4, StagedIs
<1>9. PICK new : new = NewRows(old)
  OBVIOUS
<1>10. /\ \A s \in new : s.id = m /\ s.proof # "verified"
       /\ \A e \in Entries : \E s \in new : s.entry = e
  BY <1>1, <1>4, <1>9, NewRowsAre
<1>11. Held(d) = Held(old.copy) /\ RowIds(d) \subseteq RowIds(old.copy) \cup {m}
  BY <1>8, <1>9, <1>10 DEF Held, RowIds
<1>12. Whole(d)
  <2>1. ASSUME NEW r \in d.runs, NEW e \in Entries PROVE \E s \in d.rows : s.id = r.id /\ s.entry = e
    <3>1. CASE r \in old.copy.runs
      <4>1. PICK s \in old.copy.rows : s.id = r.id /\ s.entry = e
        BY <1>5, <3>1 DEF Sound, Whole
      <4> QED BY <1>8, <4>1
    <3>2. CASE r = run
      <4>1. PICK s \in new : s.entry = e
        BY <1>10
      <4> QED BY <1>8, <1>9, <1>10, <3>2, <4>1
    <3> QED BY <1>8, <3>1, <3>2
  <2> QED BY <2>1 DEF Whole
<1>13. Sound(d)
  <2>1. RunSound(run)
    <3>1. Held(run.after) = Held(d) /\ RowIds(run.after) = RowIds(d)
      BY <1>8 DEF Held, RowIds
    <3>2. Held(run.after) \subseteq Held(backups[m]) /\ RowIds(run.after) \subseteq RowIds(backups[m]) \cup {m}
      BY <1>7, <1>11, <3>1 DEF Within
    <3> QED BY <1>4, <1>8, <3>2 DEF RunSound
  <2>2. \A r \in old.copy.runs : RunSound(r)
    BY <1>5 DEF Sound
  <2> QED BY <1>8, <1>12, <2>1, <2>2 DEF Sound
<1>14. AllKept(d)
  BY <1>3, <1>7, <1>11 DEF AllKept, DatabaseSound, Within
<1>15. standing \cup {m} \subseteq RunIds(d)
  <2>1. RunIds(db) = RowIds(db)
    BY <1>3, WholeRows DEF DatabaseSound, Sound
  <2>2. standing \subseteq RunIds(old.copy)
    BY <1>3, <1>4, <1>7, <2>1 DEF DatabaseSound, Within, Sourced
  <2> QED BY <1>8, <2>2 DEF RunIds
<1>16. PICK w : w = [old EXCEPT !.stage = "verified", !.copy = d] /\ moving' = [moving EXCEPT ![p] = w]
  BY <1>1 DEF MigrateVerify, Goes
<1>17. w \in Moves /\ w.stage = "verified" /\ w.copy = d /\ w.id = m
  BY <1>1, <1>2, <1>8, <1>16 DEF Moves, MoveStages
<1>18. w.copy.there
  BY <1>5, <1>8, <1>17, Zenon
<1>19. MoveSound(w)
  BY <1>13, <1>14, <1>15, <1>17, <1>18 DEF MoveSound, BackedUp
<1>20. UNCHANGED <<db, backups, fate, standing>>
  BY DEF MigrateVerify
<1> QED BY <1>16, <1>17, <1>19, <1>20, StandReads

LEMMA StandReplace ==
    ASSUME OneMover, StandInvariant, BytesInvariant', NEW p \in Movers, MigrateReplace(p) \/ RollbackReplace(p)
    PROVE  StandInvariant'
<1>1. PICK old, d : old = moving[p] /\ d = old.copy
  OBVIOUS
<1>2. db' = d /\ moving' = [moving EXCEPT ![p] = NoMove] /\ UNCHANGED <<backups, fate>>
  BY <1>1, Zenon DEF MigrateReplace, RollbackReplace, Goes
<1>3. Sound(d) /\ d.there /\ AllKept(d) /\ standing' \subseteq RunIds(d)
  <2>1. CASE MigrateReplace(p)
    <3>1. MoveSound(old) /\ old.stage = "verified"
      BY <1>1, <2>1, StandAt DEF MigrateReplace
    <3>2. ~ \E q \in Movers \ {p} : At(q, "verified") \/ At(q, "restored")
      BY Zenon DEF OneMover
    <3>3. standing' = standing \cup {old.id}
      BY <1>1, <2>1, <3>2, Zenon DEF MigrateReplace
    <3> QED BY <1>1, <3>1, <3>3, Zenon DEF MoveSound, Copied
  <2>2. CASE RollbackReplace(p)
    <3>1. MoveSound(old) /\ old.stage = "restored"
      BY <1>1, <2>2, StandAt DEF RollbackReplace
    <3>2. standing' = standing \ {old.id}
      BY <1>1, <2>2, Zenon DEF RollbackReplace
    <3> QED BY <1>1, <3>1, <3>2, Zenon DEF MoveSound, Copied
  <2> QED BY <2>1, <2>2
<1>4. DatabaseSound'
  <2>1. (Sound(db) /\ AllKept(db) /\ standing \subseteq RunIds(db))'
    BY <1>2, <1>3 DEF Sound, Whole, RunSound, Held, RowIds, RunIds, AllKept
  <2>2. db'.there
    BY <1>2, <1>3, Zenon
  <2> QED BY <2>1, <2>2, Zenon DEF DatabaseSound
<1>5. MovesSound'
  BY <1>2, MoveAlone DEF StandInvariant, BytesInvariant
<1>6. BackupsSound'
  BY <1>2 DEF StandInvariant, BackupsSound, Sound, Whole, RunSound, Held, RowIds
<1>7. (fate \in [Commits -> {"none", "kept", "late"}])'
  BY <1>2 DEF StandInvariant
<1> QED BY <1>4, <1>5, <1>6, <1>7 DEF StandInvariant

\* A backup lacks of what the run ended with only the run's own rows.
LEMMA StandRollback ==
    ASSUME OneMover, StandInvariant, BytesInvariant', NEW p \in Movers, NEW m \in Adoptions, RollbackRead(p, m)
    PROVE  StandInvariant'
<1>1. PICK d : d = backups[m]
  OBVIOUS
<1>2. PICK r \in db.runs :
          /\ r.id = m
          /\ moving' = [moving EXCEPT ![p] = [stage |-> "compared", id |-> m, text |-> 0, source |-> 0,
                                              baseline |-> r.after, copy |-> d]]
  BY <1>1, Zenon DEF RollbackRead, Goes
<1>3. PICK w : w = [stage |-> "compared", id |-> m, text |-> 0, source |-> 0, baseline |-> r.after, copy |-> d]
  OBVIOUS
<1>4. d \in Databases /\ d # NoMove
  BY <1>1 DEF RollbackRead, StandInvariant, BytesInvariant, AdoptTypes
<1>5. r.after \in DatabaseDigests
  BY RunsTyped DEF StandInvariant, BytesInvariant, AdoptTypes
<1>6. w \in Moves /\ w.stage = "compared" /\ w.copy = d /\ w.baseline = r.after /\ w.id = m
  BY <1>3, <1>4, <1>5 DEF Moves, MoveStages
<1>7. Sound(d) /\ d.there
  BY <1>1, <1>4, Zenon DEF StandInvariant, BackupsSound
<1>8. Held(r.after) \subseteq Held(d) /\ RowIds(r.after) \subseteq RowIds(d) \cup {m}
  BY <1>1, <1>2 DEF StandInvariant, DatabaseSound, Sound, RunSound
<1>9. MoveSound(w)
  BY <1>6, <1>7, <1>8 DEF MoveSound, BackedUp
<1>10. UNCHANGED <<db, backups, fate, standing>>
  BY DEF RollbackRead
<1> QED BY <1>2, <1>3, <1>6, <1>9, <1>10, StandReads

LEMMA StandCompare ==
    ASSUME OneMover, StandInvariant, BytesInvariant', NEW p \in Movers, RollbackCompare(p)
    PROVE  StandInvariant'
<1>1. PICK old, m : old = moving[p] /\ m = old.id
  OBVIOUS
<1>2. old \in Moves /\ MoveSourced(old) /\ MoveSound(old) /\ old.stage = "compared"
  BY <1>1, StandAt DEF RollbackCompare
<1>3. db \in Databases /\ Sourced(db) /\ DatabaseSound
  BY DEF StandInvariant, BytesInvariant, AdoptTypes
<1>4. Sound(old.copy) /\ old.copy.there
  BY <1>2, Zenon DEF MoveSound, Copied
<1>5. old.copy \in Databases /\ Sourced(old.copy)
  BY <1>2 DEF MoveSourced, Copied
<1>6. Held(old.baseline) \subseteq Held(old.copy) /\ RowIds(old.baseline) \subseteq RowIds(old.copy) \cup {m}
  BY <1>1, <1>2 DEF MoveSound
<1>7. Digest(KindOf[m], db) = old.baseline
  BY <1>1 DEF RollbackCompare, Unmodified
<1>8. Held(db) = Held(old.baseline) /\ RowIds(db) = RowIds(old.baseline)
  BY <1>3, <1>7, SameDigest
<1>9. AllKept(old.copy)
  BY <1>3, <1>6, <1>8 DEF AllKept, DatabaseSound
<1>10. standing \ {m} \subseteq RunIds(old.copy)
  <2>1. RunIds(db) = RowIds(db)
    BY <1>3, WholeRows DEF DatabaseSound, Sound
  <2> QED BY <1>3, <1>5, <1>6, <1>8, <2>1 DEF DatabaseSound, Sourced
<1>11. PICK w : w = [old EXCEPT !.stage = "restored"] /\ moving' = [moving EXCEPT ![p] = w]
  BY <1>1 DEF RollbackCompare, Goes
<1>12. w \in Moves /\ w.stage = "restored" /\ w.id = m /\ w.copy = old.copy
  BY <1>1, <1>2, <1>11, StageGoes DEF MoveStages
<1>13. MoveSound(w)
  BY <1>4, <1>9, <1>10, <1>12 DEF MoveSound, BackedUp
<1>14. UNCHANGED <<db, backups, fate, standing>>
  BY DEF RollbackCompare
<1> QED BY <1>11, <1>12, <1>13, <1>14, StandReads

LEMMA BackupsSame ==
    ASSUME BackupsSound, UNCHANGED backups
    PROVE  BackupsSound'
<1>1. ASSUME NEW m \in Adoptions, backups'[m] # NoMove PROVE (Sound(backups[m]) /\ backups[m].there)'
  <2>1. PICK x : x = backups[m]
    OBVIOUS
  <2>2. Sound(x) /\ x.there
    BY <1>1, <2>1, Zenon DEF BackupsSound
  <2>3. Sound(x)'
    BY <2>2 DEF Sound, Whole, RunSound, Held, RowIds
  <2>4. Sound(backups[m])'
    BY <2>1, <2>3 DEF Sound, Whole, RunSound, Held, RowIds
  <2> QED BY <2>1, <2>2, <2>4, Zenon
<1> QED BY <1>1, Zenon DEF BackupsSound

\* Others add to the database, and to what is to be kept only while nothing is past its comparison.
LEMMA OthersAdd ==
    ASSUME StandInvariant, BytesInvariant', UNCHANGED <<backups, moving, standing>>,
           Sound(db'), Within(db, db'), RunIds(db) \subseteq RunIds(db'),
           db'.there \/ (Held(db') = {} /\ RowIds(db') = {}),
           fate' \in [Commits -> {"none", "kept", "late"}],
           \A k \in Commits : fate'[k] = "kept" => fate[k] = "kept" \/ (k \in Held(db') /\ ~Replacing)
    PROVE  StandInvariant'
<1>1. DatabaseSound'
  <2>1. Sound(db)'
    BY DEF Sound, Whole, RunSound, Held, RowIds
  <2>2. AllKept(db)'
    BY DEF StandInvariant, DatabaseSound, AllKept, Within, Held
  <2>3. (standing \subseteq RunIds(db))'
    BY DEF StandInvariant, DatabaseSound, RunIds
  <2>4. (~db.there => Held(db) = {} /\ RowIds(db) = {})'
    BY Zenon DEF Held, RowIds
  <2> QED BY <2>1, <2>2, <2>3, <2>4, Zenon DEF DatabaseSound
<1>2. BackupsSound'
  BY BackupsSame DEF StandInvariant
<1>3. ASSUME NEW w \in {moving[q] : q \in Movers}, w # NoMove PROVE MoveSound(w)'
  <2>1. MoveSound(w)
    BY <1>3 DEF StandInvariant, MovesSound
  <2>2. Copied(w) => Sound(w.copy)' /\ w.copy.there
    BY <2>1 DEF MoveSound, Sound, Whole, RunSound, Held, RowIds
  <2>3. w.stage = "read" => Within(w.baseline, db')
    BY <2>1, WithinIs DEF MoveSound
  <2>4. w.stage \in {"copied", "backed", "preserved"} => Within(w.baseline, w.copy) /\ Within(w.copy, db')
    BY <2>1, WithinIs DEF MoveSound
  <2>5. BackedUp(w) => Within(w.copy, backups'[w.id]) \/ Within(w.baseline, backups'[w.id])
    BY <2>1 DEF MoveSound
  <2>6. ASSUME w.stage \in {"verified", "restored"} PROVE AllKept(w.copy)'
    <3>1. Replacing
      BY <1>3, <2>6 DEF Replacing
    <3>2. AllKept(w.copy)
      BY <2>1, <2>6 DEF MoveSound
    <3> QED BY <3>1, <3>2 DEF AllKept, Held
  <2>7. w.stage = "verified" => standing' \cup {w.id} \subseteq RunIds(w.copy)
    BY <2>1 DEF MoveSound
  <2>8. w.stage = "restored" => standing' \ {w.id} \subseteq RunIds(w.copy)
    BY <2>1 DEF MoveSound
  <2>9. w.stage = "compared" => /\ Held(w.baseline) \subseteq Held(w.copy)
                                /\ RowIds(w.baseline) \subseteq RowIds(w.copy) \cup {w.id}
    BY <2>1 DEF MoveSound
  <2> QED BY <2>2, <2>3, <2>4, <2>5, <2>6, <2>7, <2>8, <2>9 DEF MoveSound, Copied, BackedUp, Within, Held, RowIds, RunIds
<1>4. MovesSound'
  BY <1>3 DEF MovesSound
<1> QED BY <1>1, <1>2, <1>4 DEF StandInvariant

LEMMA FateGoes ==
    ASSUME StandInvariant, NEW k \in Commits, Committed(k)
    PROVE  /\ fate' \in [Commits -> {"none", "kept", "late"}]
           /\ \A j \in Commits : fate'[j] = "kept" => fate[j] = "kept" \/ (j = k /\ ~Replacing)
<1>1. PICK now : now = IF Replacing THEN "late" ELSE "kept"
  OBVIOUS
<1>2. fate' = [fate EXCEPT ![k] = now]
  BY <1>1 DEF Committed
<1>3. now \in {"late", "kept"} /\ (now = "kept" => ~Replacing)
  BY <1>1
<1>4. fate \in [Commits -> {"none", "kept", "late"}]
  BY DEF StandInvariant
<1> QED BY <1>2, <1>3, <1>4

LEMMA StandCommit ==
    ASSUME StandInvariant, BytesInvariant', NEW f \in Facts, Commit(f)
    PROVE  StandInvariant'
<1>1. db \in Databases /\ DatabaseSound
  BY DEF StandInvariant, BytesInvariant, AdoptTypes
<1>2. db'.there = TRUE /\ db'.rows = db.rows /\ db'.runs = db.runs /\ db'.facts = db.facts \cup {f}
  BY <1>1, CommitIs, Zenon
<1>3. Sound(db')
  BY <1>1, <1>2 DEF DatabaseSound, Sound, Whole
<1>4. Within(db, db') /\ RunIds(db) = RunIds(db') /\ f \in Held(db')
  BY <1>2 DEF Within, Held, RowIds, RunIds
<1>5. f \in Commits /\ Committed(f)
  BY DEF Commit, Commits
<1>6. /\ fate' \in [Commits -> {"none", "kept", "late"}]
      /\ \A k \in Commits : fate'[k] = "kept" => fate[k] = "kept" \/ (k = f /\ ~Replacing)
  BY <1>5, FateGoes
<1>7. db'.there
  BY <1>2, Zenon
<1>8. UNCHANGED <<backups, moving, standing>>
  BY DEF Commit
<1> QED BY <1>3, <1>4, <1>6, <1>7, <1>8, OthersAdd

LEMMA StandBind ==
    ASSUME StandInvariant, BytesInvariant', NEW r \in db.rows, BindTracking(r)
    PROVE  StandInvariant'
<1>1. db \in Databases /\ DatabaseSound
  BY DEF StandInvariant, BytesInvariant, AdoptTypes
<1>2. PICK s : /\ db'.there = db.there /\ db'.rows = (db.rows \ {r}) \cup {s}
               /\ db'.runs = db.runs /\ db'.facts = db.facts
               /\ s.id = r.id /\ s.entry = r.entry /\ s.proof = "verified"
  BY <1>1, BindIs, Zenon
<1>3. PICK k : k = <<r.id, r.entry>>
  OBVIOUS
<1>4. RowIds(db') = RowIds(db) /\ RunIds(db') = RunIds(db)
  BY <1>2 DEF RowIds, RunIds
<1>5. Held(db) \cup {k} \subseteq Held(db')
  BY <1>2, <1>3 DEF Held
<1>6. Sound(db')
  <2>1. ASSUME NEW run \in db'.runs, NEW e \in Entries PROVE \E x \in db'.rows : x.id = run.id /\ x.entry = e
    <3>1. PICK x \in db.rows : x.id = run.id /\ x.entry = e
      BY <1>1, <1>2 DEF DatabaseSound, Sound, Whole
    <3> QED BY <1>2, <3>1
  <2>2. \A run \in db'.runs : RunSound(run)
    BY <1>1, <1>2 DEF DatabaseSound, Sound
  <2> QED BY <2>1, <2>2 DEF Sound, Whole
<1>7. k \in Commits /\ Committed(k)
  <2>1. r.id \in Adoptions
    BY <1>1 DEF Databases, AdoptedRows
  <2> QED BY <1>3, <2>1 DEF BindTracking, Commits
<1>8. /\ fate' \in [Commits -> {"none", "kept", "late"}]
      /\ \A j \in Commits : fate'[j] = "kept" => fate[j] = "kept" \/ (j = k /\ ~Replacing)
  BY <1>7, FateGoes
<1>9. db'.there
  <2>1. r.id \in RowIds(db)
    BY DEF RowIds
  <2>2. db.there
    BY <1>1, <2>1 DEF DatabaseSound
  <2> QED BY <1>2, <2>2, Zenon
<1>10. UNCHANGED <<backups, moving, standing>>
  BY DEF BindTracking
<1>11. Within(db, db')
  BY <1>4, <1>5 DEF Within
<1> QED BY <1>4, <1>5, <1>6, <1>8, <1>9, <1>10, <1>11, OthersAdd

LEMMA StandSame ==
    ASSUME StandInvariant, BytesInvariant', UNCHANGED <<db, backups, moving, fate, standing>>
    PROVE  StandInvariant'
<1>1. DatabaseSound'
  BY DEF StandInvariant, DatabaseSound, Sound, Whole, RunSound, Held, RowIds, RunIds, AllKept
<1>2. BackupsSound'
  BY BackupsSame DEF StandInvariant
<1>3. MovesSound'
  <2>1. ASSUME NEW w PROVE MoveSound(w) => MoveSound(w)'
    BY DEF MoveSound, Copied, BackedUp, Sound, Whole, RunSound, Held, RowIds, RunIds, Within, AllKept
  <2> QED BY <2>1 DEF StandInvariant, MovesSound
<1> QED BY <1>1, <1>2, <1>3 DEF StandInvariant

LEMMA StandStep == ASSUME OneMover PROVE StandInvariant /\ [AdoptionNext]_adoptionVars => StandInvariant'
<1> SUFFICES ASSUME StandInvariant, [AdoptionNext]_adoptionVars PROVE StandInvariant'
  OBVIOUS
<1>0. BytesInvariant'
  BY BytesStep DEF StandInvariant
<1>1. CASE UNCHANGED adoptionVars \/ EditQueue
  BY <1>0, <1>1, StandSame DEF adoptionVars, EditQueue
<1>2. ASSUME NEW p \in Movers, MoveEnds(p) PROVE StandInvariant'
  BY <1>0, <1>2, StandReads DEF MoveEnds, Goes
<1>3. ASSUME NEW p \in Movers, NEW m \in Adoptions, MigrateMap(p, m) \/ RollbackRead(p, m) PROVE StandInvariant'
  BY <1>0, <1>3, StandMap, StandRollback
<1>4. ASSUME NEW p \in Movers,
             \/ MigrateHash(p) \/ MigrateCopy(p) \/ MigrateBackup(p) \/ MigrateOriginal(p)
             \/ MigrateVerify(p) \/ MigrateReplace(p) \/ RollbackCompare(p) \/ RollbackReplace(p)
      PROVE  StandInvariant'
  BY <1>0, <1>4, StandHash, StandCopy, StandBackup, StandOriginal, StandVerify, StandReplace, StandCompare, Zenon
<1>5. ASSUME NEW f \in Facts, Commit(f) PROVE StandInvariant'
  BY <1>0, <1>5, StandCommit
<1>6. ASSUME NEW r \in db.rows, BindTracking(r) PROVE StandInvariant'
  BY <1>0, <1>6, StandBind
<1> QED BY <1>1, <1>2, <1>3, <1>4, <1>5, <1>6, Zenon DEF AdoptionNext

LEMMA StandStart == AdoptionInit => StandInvariant
<1> SUFFICES ASSUME AdoptionInit PROVE StandInvariant
  OBVIOUS
<1>1. db.facts = {} /\ db.rows = {} /\ db.runs = {}
  <2>1. db = NoDatabase \/ db = Migrated
    BY DEF AdoptionInit
  <2>2. NoDatabase.facts = {} /\ NoDatabase.rows = {} /\ NoDatabase.runs = {}
    BY DEF NoDatabase
  <2> QED BY <2>1, <2>2, MigratedIs
<1>2. Held(db) = {} /\ RowIds(db) = {} /\ Sound(db)
  BY <1>1 DEF Held, RowIds, Sound, Whole
<1>3. fate \in [Commits -> {"none", "kept", "late"}] /\ AllKept(db) /\ standing = {}
  BY DEF AdoptionInit, AllKept
<1>4. DatabaseSound
  BY <1>2, <1>3 DEF DatabaseSound
<1>5. BackupsSound /\ MovesSound
  BY DEF AdoptionInit, BackupsSound, MovesSound
<1> QED BY <1>3, <1>4, <1>5, BytesStart DEF StandInvariant

\* While one process adopts or rolls back at a time, whatever the other commands commit and wherever
\* it is interrupted, no fact is lost but in the gap, and adoptions stand (migrate, rollback).
THEOREM AdoptionsSafe == ASSUME OneMover PROVE AdoptionSpec => []AdoptionSound
<1>1. StandInvariant => AdoptionSound
  <2> SUFFICES ASSUME StandInvariant PROVE AdoptionSound
    OBVIOUS
  <2>1. db \in Databases /\ DatabaseSound /\ Sourced(db)
    BY DEF StandInvariant, BytesInvariant, AdoptTypes
  <2>2. FactsKept
    <3>1. ASSUME NEW k \in Commits, fate[k] = "kept"
          PROVE  k \in db.facts \/ \E r \in db.rows : <<r.id, r.entry>> = k /\ r.proof = "verified"
      BY <2>1, <3>1 DEF DatabaseSound, AllKept, Held
    <3> QED BY <3>1 DEF FactsKept
  <2>3. AdoptionsStand
    <3>1. ASSUME NEW m \in standing
          PROVE  /\ \E r \in db.runs : r.id = m
                 /\ {r.entry : r \in {r \in db.rows : r.id = m}} = Entries
      <4>1. PICK run \in db.runs : run.id = m
        BY <2>1 DEF DatabaseSound, RunIds
      <4>2. \A e \in Entries : \E s \in db.rows : s.id = m /\ s.entry = e
        BY <2>1, <4>1 DEF DatabaseSound, Sound, Whole
      <4>3. \A s \in db.rows : s.entry \in Entries
        BY <2>1 DEF Databases, AdoptedRows
      <4> QED BY <4>1, <4>2, <4>3
    <3> QED BY <3>1 DEF AdoptionsStand
  <2>4. SourceKept
    BY <2>1 DEF Sourced, SourceKept
  <2> QED BY <2>2, <2>3, <2>4 DEF AdoptionSound
<1>2. AdoptionSpec => []StandInvariant
  BY StandStart, StandStep, PTL DEF AdoptionSpec
<1> QED BY <1>1, <1>2, PTL
====
