----------------------------- MODULE MCOutreach -----------------------------
(***************************************************************************)
(* Small instances of OutreachSystem for TLC.  Spec starts from an empty   *)
(* database.  ListedSpec and ApprovedSpec start later, in states Spec      *)
(* reaches: the lists of ListOf are drafted and asked at time 0, and in    *)
(* ApprovedSpec a person approved all of them.                             *)
(***************************************************************************)
EXTENDS OutreachSystem

CONSTANTS j1, j2, j3, p1, b1, b2,
    ListOf        \* [Batches -> list of jobs], for the two later starts

OneSite == [j \in Jobs |-> p1]
MixedTiers == [j \in Jobs |-> IF j = j1 THEN 3 ELSE 1]
EqualTiers == [j \in Jobs |-> 0]
MixedDrafts == {<<j1, j2, j1, j3, j2>>}
FetchAll == {Jobs}
EveryItem == Batches \X Numbers

SessionSymmetry == Permutations(Sessions)

ListsOfOne == [b \in Batches |-> IF b = b1 THEN <<j1>> ELSE <<j2>>]
ListsOfSameJob == [b \in Batches |-> <<j1>>]
OneListOfTwo == [b \in Batches |-> <<j1, j2>>]
TwoListsShareAJob == [b \in Batches |-> IF b = b1 THEN <<j1>> ELSE <<j1, j2>>]

Drafted(jobs) == [n \in DOMAIN jobs |-> [job |-> jobs[n], rev |-> 1, evidence |-> 0]]

Started ==
    /\ now = 0 /\ evidenceRev = 0
    /\ jobRev = [j \in Jobs |-> 1]
    /\ batches = [b \in BatchId |-> IF b \in Batches THEN Drafted(ListOf[b]) ELSE <<>>]
    /\ asks = [b \in BatchId |-> IF b \in Batches THEN 0 ELSE None]
    /\ withdrawn = {}
    /\ leases = [p \in Platforms |-> None]
    /\ audits = <<>>
    /\ cards = [b \in BatchId |-> None]
    /\ CliInit /\ WorkerInit /\ DecisionsInit

ListedInit == Started /\ approvals = [b \in BatchId |-> None]
ListedSpec == ListedInit /\ [][Next]_vars

ApprovedInit ==
    /\ Started
    /\ approvals = [b \in BatchId |->
           IF b \in Batches THEN [numbers |-> DOMAIN ListOf[b], at |-> 0] ELSE None]
ApprovedSpec == ApprovedInit /\ [][Next]_vars

=============================================================================
