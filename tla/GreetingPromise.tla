--------------------------- MODULE GreetingPromise ---------------------------
(***************************************************************************)
(* What first greetings promise (docs/outreach-design.md), without         *)
(* sessions, leases, statements or panels: a person approves items; an     *)
(* approved item gets one result, for ever; on each platform one greeting  *)
(* at most is out with a worker; and what a worker brings back as sent or  *)
(* found counts only as the first contact with its job and within the      *)
(* platform's pace.  A session that records a result vouches for it.       *)
(***************************************************************************)
EXTENDS Integers, Sequences, FiniteSets

CONSTANTS Items, Jobs, Platforms, Site, Cap, MinGap, DayTicks, None

VARIABLES
    clock,
    approved,     \* <<item, job>> pairs a person approved
    ledger,       \* the results, in the order they became final
    out           \* out[p]: the pair a worker holds on platform p, or None

promiseVars == <<clock, approved, ledger, out>>

Results == {"sent", "duplicate_found", "failed", "intervention", "withdrawn"}
Contact == {"sent", "duplicate_found"}
Day(t) == t \div DayTicks

Init ==
    /\ clock = 0
    /\ approved \subseteq Items \X Jobs
    /\ ledger = <<>>
    /\ out = [p \in Platforms |-> None]

Unsettled(a) == a \in approved /\ \A k \in DOMAIN ledger : ledger[k].item # a[1]

FirstContact(a) == \A k \in DOMAIN ledger :
    ledger[k].job = a[2] => ledger[k].result \notin Contact

Paced(p) ==
    LET rows == {k \in DOMAIN ledger : Site[ledger[k].job] = p}
        todays == {k \in rows : Day(ledger[k].at) = Day(clock)}
    IN /\ \A k \in rows : clock - ledger[k].at >= MinGap
       /\ \A k \in todays : ledger[k].result \notin {"failed", "intervention"}
       /\ Cardinality({k \in todays : ledger[k].result = "sent"}) < Cap

Settle(a, result, at, confirmed) ==
    /\ Unsettled(a)
    /\ ledger' = Append(ledger, [item |-> a[1], job |-> a[2], result |-> result,
                                 at |-> at, confirmed |-> confirmed])

\* Items of a list are approved together; no item is approved a second time.
Approve ==
    /\ approved' # approved /\ approved \subseteq approved'
    /\ approved' \subseteq Items \X Jobs
    /\ \A a, c \in approved' : a[1] = c[1] => a = c
    /\ UNCHANGED <<clock, ledger, out>>

TakeOut(p) ==
    /\ out[p] = None
    /\ \E a \in approved : /\ Site[a[2]] = p /\ Unsettled(a) /\ FirstContact(a) /\ Paced(p)
                           /\ out' = [out EXCEPT ![p] = a]
    /\ UNCHANGED <<clock, approved, ledger>>

BringBack(p, result) ==
    /\ out[p] # None
    /\ result \in Contact => FirstContact(out[p]) /\ Paced(p)
    /\ Settle(out[p], result, clock, TRUE)
    /\ out' = [out EXCEPT ![p] = None]
    /\ UNCHANGED <<clock, approved>>

\* A session may write its result down some time after it read the clock.
Vouch(a, result, at) ==
    /\ at <= clock
    /\ Settle(a, result, at, FALSE)
    /\ UNCHANGED <<clock, approved, out>>

Pass == clock' = clock + 1 /\ UNCHANGED <<approved, ledger, out>>

Next ==
    \/ Pass
    \/ Approve
    \/ \E p \in Platforms : TakeOut(p)
    \/ \E p \in Platforms, result \in Results : BringBack(p, result)
    \/ \E a \in approved, result \in Results, at \in 0..clock : Vouch(a, result, at)

Spec == Init /\ [][Next]_promiseVars

=============================================================================
