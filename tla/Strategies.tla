---- MODULE Strategies ----
(***************************************************************************)
(* What intakes teach the next search: a strategy is rebuilt from the      *)
(* features and interests of a candidate's rows and from the searches run  *)
(* before, activated only if none of them moved meanwhile, claimed once by *)
(* a sourcing round, and followed by the searches the round records.  A    *)
(* plan is what it was built from; the lexicon and the derivation of       *)
(* queries, the other domains and sources and the retained snapshots of    *)
(* jobs outside the queue are left out.                                    *)
(***************************************************************************)
EXTENDS Intakes

CONSTANTS
    Learners,     \* processes that rebuild the strategy
    Rounds,       \* sourcing rounds of the candidate
    MaxSearches   \* bound on the searches recorded

ASSUME StrategySorts == MaxSearches \in Nat

VARIABLES
    active,     \* intake_active_strategies: [plan, sources]
    learning,   \* what a rebuild has read
    claims,     \* intake_strategy_claims, by round: the frozen plan
    searches    \* job_searches, whose number stands for their digest

planVars == <<active, learning, claims, searches>>
strategyVars == <<intakeVars, planVars>>

StrategyInit ==
    /\ IntakeInit
    /\ active = Nothing /\ learning = [l \in Learners |-> Nothing]
    /\ claims = [k \in Rounds |-> Nothing] /\ searches = 0

----
\* source_digest: requests and drafts are not in it.
Sources ==
    [t \in Queued |->
        [job |-> rows[t].job, snapshot |-> rows[t].snapshot, features |-> rows[t].features,
         signal |-> rows[t].signal, live |-> Live(rows[t])]]

\* The rows a plan is made from.
Samples == {t \in Queued : Live(rows[t]) /\ rows[t].features # Nothing}

\* A row's part in a plan.
Sample(t) == [snapshot |-> rows[t].snapshot, features |-> rows[t].features, signal |-> rows[t].signal]

SamplesNewest == \A t \in Samples : rows[t].snapshot = Len(shots[rows[t].job])

\* rebuild first synchronizes every row; one that cannot be stops it.
LearnSynchronized(l) ==
    /\ occasion.learn /\ learning[l] = Nothing
    /\ \A t \in Queued : Live(rows[t]) /\ ~rows[t].paused => ~Refused(rows[t])
    /\ rows' = [t \in Queued |-> Synchronized(rows[t])]
    /\ learning' = [learning EXCEPT ![l] = [read |-> FALSE]]
    /\ UNCHANGED <<filed, worldVars, resolveVars, active, claims, searches>>

\* Then it reads them, what is active and the searches before.
LearnRead(l) ==
    /\ learning[l] # Nothing /\ ~learning[l].read
    /\ \A t \in Samples : Bound(rows[t])
    /\ learning' = [learning EXCEPT ![l] =
           [read |-> TRUE, plan |-> [samples |-> [t \in Samples |-> Sample(t)], after |-> searches],
            sources |-> Sources, active |-> active]]
    /\ UNCHANGED <<intakeVars, active, claims, searches>>

LearnEnds(l) ==
    /\ learning[l] # Nothing
    /\ learning' = [learning EXCEPT ![l] = Nothing]
    /\ UNCHANGED <<intakeVars, active, claims, searches>>

\* Mutant: only that nobody else activated is checked.
UnmovedActive(new) == new.active = active

\* What was read is what is there.
Unmoved(new) ==
    /\ new.active = active
    /\ new.sources = Sources /\ new.plan.after = searches /\ SamplesNewest

\* activate: the pointer and the rows' references in one transaction.
Activate(l) ==
    LET new == learning[l]
    IN  /\ new # Nothing /\ new.read /\ Unmoved(new)
        /\ active' = [plan |-> new.plan, sources |-> new.sources]
        /\ rows' = [t \in Queued |-> IF t \in Samples THEN [rows[t] EXCEPT !.plan = new.plan] ELSE rows[t]]
        /\ learning' = [learning EXCEPT ![l] = Nothing]
        /\ UNCHANGED <<filed, worldVars, resolveVars, claims, searches>>

\* The active strategy is of the rows and searches of now.
Claimable ==
    /\ active # Nothing
    /\ active.sources = Sources /\ active.plan.after = searches /\ SamplesNewest

\* A round's claim answers again with the frozen plan.
Claim(k) ==
    /\ claims[k] = Nothing /\ Claimable
    /\ claims' = [claims EXCEPT ![k] = active.plan]
    /\ UNCHANGED <<intakeVars, active, learning, searches>>

\* A completed query of a claimed plan.
RecordSearch(k) ==
    /\ claims[k] # Nothing /\ searches < MaxSearches
    /\ searches' = searches + 1
    /\ UNCHANGED <<intakeVars, active, learning, claims>>

StrategyNext ==
    \/ IntakeNext /\ UNCHANGED planVars
    \/ \E l \in Learners : LearnSynchronized(l) \/ LearnRead(l) \/ LearnEnds(l) \/ Activate(l)
    \/ \E k \in Rounds : Claim(k) \/ RecordSearch(k)

StrategySpec == StrategyInit /\ [][StrategyNext]_strategyVars

----
\* A row that names a plan is in it as it is now: whatever changes its snapshot, its features or the
\* person's interest takes the reference away, also while a rebuild is under way.
PlanTrue ==
    \A t \in Queued : rows[t].plan # Nothing /\ Live(rows[t]) =>
        /\ t \in DOMAIN rows[t].plan.samples
        /\ rows[t].plan.samples[t] = Sample(t)

\* A round claims a plan made from every open row with features as it stands, on its newest posting, and
\* after every search recorded.
ClaimsOfNow ==
    [][\A k \in Rounds : claims'[k] # claims[k] =>
           /\ claims[k] = Nothing
           /\ claims'[k].samples = [t \in Samples |-> Sample(t)]
           /\ \A t \in Samples : Sample(t).snapshot = Len(shots[rows[t].job])
           /\ claims'[k].after = searches]_strategyVars
====
