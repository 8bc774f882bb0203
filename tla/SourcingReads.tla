---- MODULE SourcingReads ----
(***************************************************************************)
(* The ledger of search and detail reads of one source.  A host opens a    *)
(* round (sourcing_runs) with limits frozen from the confirmed rules, and  *)
(* reserves every read before it is made; nothing is refunded.  Three      *)
(* tables of attempts share the daily limit and the stops of the day:      *)
(* queries and details of a round, and captures (sourcing_read_attempts).  *)
(*                                                                         *)
(* Every operation is one BEGIN IMMEDIATE transaction and so one action.   *)
(* A configured workspace is modelled: every round has confirmed rules.    *)
(* Bounds: MaxNow on the clock, MaxRevision on changes of rules or code.   *)
(***************************************************************************)
EXTENDS Naturals, FiniteSets

CONSTANTS
    Runs,         \* ids of sourcing rounds
    Attempts,     \* ids of attempts
    QueryLimit,   \* query_limit of a round
    DetailLimit,  \* detail_limit of a round
    DailyLimit,   \* daily_detail_limit of the source
    DayLength,    \* ticks of a platform day
    MaxNow,       \* bound: last tick of the clock
    MaxRevision,  \* bound: changes of the confirmed rules or of the code
    None

ASSUME SourcingSorts ==
    /\ QueryLimit \in Nat /\ DetailLimit \in Nat /\ DailyLimit \in Nat
    /\ DayLength \in Nat \ {0} /\ MaxNow \in Nat /\ MaxRevision \in Nat

VARIABLES
    now,       \* the clock
    revision,  \* the rules version and code revision in force
    runs,      \* sourcing_runs
    attempts,  \* sourcing_attempts and sourcing_read_attempts
    claims,    \* sourcing_query_claims
    outcomes,  \* sourcing_results and the results of captures
    captured,  \* sourcing_query_selections
    halts,     \* sourcing_read_halts: stopped days
    asked      \* how often the source was really asked for an attempt

readVars == <<runs, attempts, claims, outcomes, captured, halts, asked>>
sourcingVars == <<now, revision, readVars>>

----
Day(t) == t \div DayLength
Today == Day(now)
Days == 0 .. Day(MaxNow)

Details == {"detail", "capture"}
Kinds == Details \cup {"query"}

\* What is told apart of an outcome: "gate" stands for every stop, "failed" for partial and
\* cancelled too; of a detail only whether it stops the source.
Outcomes == {"complete", "failed", "gate"}
OutcomesOf(kind) == IF kind = "query" THEN Outcomes ELSE Outcomes \ {"failed"}

RunRow == [day : Days, revision : 0 .. MaxRevision]
AttemptRow == [run : Runs, kind : Kinds, day : Days]
OutcomeRow == [status : Outcomes, day : Days]

ASSUME SourcingNone == None \notin RunRow \cup AttemptRow \cup OutcomeRow

SourcingInit ==
    /\ now = 0 /\ revision = 0
    /\ runs = [r \in Runs |-> None]
    /\ attempts = [a \in Attempts |-> None]
    /\ claims = {}
    /\ outcomes = [a \in Attempts |-> None]
    /\ captured = {}
    /\ halts = {}
    /\ asked = [a \in Attempts |-> 0]

----
(* The limits. *)

\* _configured_request: the round is of the rules and the code in force.
Current(r) == runs[r] # None /\ runs[r].revision = revision

Made(r, kinds) ==
    {a \in Attempts : attempts[a] # None /\ attempts[a].run = r /\ attempts[a].kind \in kinds}

ReadOn(day) ==
    {a \in Attempts : attempts[a] # None /\ attempts[a].day = day /\ attempts[a].kind \in Details}

\* Mutant: the captures of the other table are not counted.
DetailsLeftOwn(r) ==
    /\ Cardinality({a \in ReadOn(Today) : attempts[a].kind = "detail"}) < DailyLimit
    /\ Cardinality(Made(r, {"detail"})) < DetailLimit

DetailsLeft(r) ==
    /\ Cardinality(ReadOn(Today)) < DailyLimit
    /\ Cardinality(Made(r, Details)) < DetailLimit

\* Mutant: a stop ends with the round it was met in.
PermittedStopped(r, kind) ==
    /\ runs[r].day = Today
    /\ DetailsLeft(r)
    /\ kind = "query" => Cardinality(Made(r, {"query"})) < QueryLimit

\* refusal_reason, and the same conditions in the capture's reserve.
Permitted(r, kind) ==
    /\ runs[r].day = Today
    /\ Today \notin halts
    /\ DetailsLeft(r)
    /\ kind = "query" => Cardinality(Made(r, {"query"})) < QueryLimit

\* The rows that reserving and stopping write.
Attempted(a, r, kind) ==
    attempts' = [attempts EXCEPT ![a] = [run |-> r, kind |-> kind, day |-> Today]]

Decided(a, status) ==
    outcomes' = [outcomes EXCEPT ![a] = [status |-> status, day |-> Today]]

Asked(a) == asked' = [asked EXCEPT ![a] = @ + 1]

----
(* Rounds and reads. *)

StartRun(r) ==
    /\ runs[r] = None
    /\ runs' = [runs EXCEPT ![r] = [day |-> Today, revision |-> revision]]
    /\ UNCHANGED <<now, revision, attempts, claims, outcomes, captured, halts, asked>>

\* reserve: a host may now submit the query, or open the posting (which it does outside).
Reserve(a, r) ==
    /\ attempts[a] = None
    /\ Current(r)
    /\ \E kind \in {"query", "detail"} : Permitted(r, kind) /\ Attempted(a, r, kind)
    /\ UNCHANGED <<now, revision, runs, claims, outcomes, captured, halts, asked>>

\* reserve-read, the other entry point.
ReserveRead(a, r) ==
    /\ attempts[a] = None
    /\ Current(r)
    /\ Permitted(r, "capture")
    /\ Attempted(a, r, "capture")
    /\ UNCHANGED <<now, revision, runs, claims, outcomes, captured, halts, asked>>

\* sourcing-result: a complete query needs its capture.
Complete(a) ==
    /\ attempts[a] # None /\ attempts[a].kind # "capture"
    /\ outcomes[a] = None
    /\ \E status \in OutcomesOf(attempts[a].kind) :
        /\ attempts[a].kind = "query" /\ status = "complete" => a \in captured
        /\ Decided(a, status)
        /\ halts' = IF status = "gate" THEN halts \cup {attempts[a].day, Today} ELSE halts
    /\ UNCHANGED <<now, revision, runs, attempts, claims, captured, asked>>

\* record-read.
RecordRead(a) ==
    /\ attempts[a] # None /\ attempts[a].kind = "capture"
    /\ outcomes[a] = None
    /\ \E status \in OutcomesOf(attempts[a].kind) :
        /\ Decided(a, status)
        /\ halts' = IF status = "gate" THEN halts \cup {attempts[a].day, Today} ELSE halts
    /\ UNCHANGED <<now, revision, runs, attempts, claims, captured, asked>>

\* jobs search of a configured round: claim the attempt, then ask the source once.
Claim(a) ==
    /\ attempts[a] # None /\ attempts[a].kind = "query"
    /\ Current(attempts[a].run)
    /\ a \notin claims
    /\ outcomes[a] = None
    /\ DetailsLeft(attempts[a].run)
    /\ Today \notin halts /\ Today = attempts[a].day
    /\ claims' = claims \cup {a}
    /\ Asked(a)
    /\ UNCHANGED <<now, revision, runs, attempts, outcomes, captured, halts>>

\* take_in: the selection and the query's result in the caller's transaction.
TakeIn(a) ==
    /\ a \notin captured
    /\ outcomes[a] # None => outcomes[a].status = "complete"
    /\ captured' = captured \cup {a}
    /\ IF outcomes[a] = None THEN Decided(a, "complete") ELSE UNCHANGED outcomes

\* sourcing-take, and the end of jobs search.
Take(a) ==
    /\ attempts[a] # None /\ attempts[a].kind = "query"
    /\ TakeIn(a)
    /\ UNCHANGED <<now, revision, runs, attempts, claims, halts, asked>>

----
(* The world. *)

\* New rules are confirmed, or another release is installed.
ChangeRules ==
    /\ revision < MaxRevision
    /\ revision' = revision + 1
    /\ UNCHANGED <<now, readVars>>

Tick ==
    /\ now < MaxNow
    /\ now' = now + 1
    /\ UNCHANGED <<revision, readVars>>

----
(* Properties. *)

SourcingTypeOK ==
    /\ now \in 0 .. MaxNow /\ revision \in 0 .. MaxRevision
    /\ runs \in [Runs -> RunRow \cup {None}]
    /\ attempts \in [Attempts -> AttemptRow \cup {None}]
    /\ claims \subseteq Attempts /\ captured \subseteq Attempts
    /\ outcomes \in [Attempts -> OutcomeRow \cup {None}]
    /\ halts \subseteq Days
    /\ asked \in [Attempts -> Nat]

\* However queries, details, captures and MCP calls interleave, a round stays within its
\* own limits and all rounds of a day within the source's (refusal_reason, read_repository).
ReadLimitsKept ==
    /\ \A r \in Runs : /\ Cardinality(Made(r, {"query"})) <= QueryLimit
                       /\ Cardinality(Made(r, Details)) <= DetailLimit
    /\ \A day \in Days : Cardinality(ReadOn(day)) <= DailyLimit

\* A query counts as complete exactly when its listings were captured, whichever of the
\* result commands and captures came first (complete, take_in, finish).
CaptureAgrees ==
    \A a \in Attempts : attempts[a] # None /\ attempts[a].kind = "query" =>
        (a \in captured <=> outcomes[a] # None /\ outcomes[a].status = "complete")

\* Every entry point keeps the limits and the two tables of a search agree.
ReadsSound ==
    /\ ReadLimitsKept
    /\ CaptureAgrees
====
