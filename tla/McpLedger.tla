---- MODULE McpLedger ----
(***************************************************************************)
(* Metered MCP calls and observed deliveries of one source.  A round is    *)
(* bound to a sourcing round; a gateway process admits a batch of calls    *)
(* and runs them on a thread pool; each call is marked dispatched right    *)
(* before it is written to the upstream server.  Deliveries are made by    *)
(* the host, outside; the ledger hands them out one at a time.             *)
(*                                                                         *)
(* Every operation of the repository is one transaction and so one action. *)
(* The content of a round, a call or an action is fixed by its id, since   *)
(* another content under the same id is refused.  The source is the one    *)
(* with deliveries (liepin); the others have none and no call limit.       *)
(***************************************************************************)
EXTENDS SourcingReads, Sequences

CONSTANTS
    Rounds,       \* ids of MCP rounds
    Calls,        \* ids of calls, the attempts they make being of the same name
    Batches,      \* ids of batches
    Actions,      \* ids of delivery actions
    References,   \* external identities of deliveries
    SourcingOf,   \* the sourcing round a round names
    PreviousOf,   \* the predecessor a round names, or None
    CandidateOf,  \* the candidate of a round
    RoundOf,      \* the round of a call
    BatchOf,      \* the batch of a call
    OpOf,         \* search is a "query", view a "detail"
    ActionRound,  \* the round of an action
    McpTotal,     \* MCP_TOTAL
    CallLimit,    \* LIEPIN_CALLS_PER_ROUND
    MaxParallel,  \* MCP_MAX_PARALLEL
    BatchSize,    \* MCP_BATCHSIZE
    Spacing       \* LIEPIN_DELIVERY_SPACING_SEC

ASSUME McpSorts ==
    /\ Calls \subseteq Attempts
    /\ SourcingOf \in [Rounds -> Runs]
    /\ PreviousOf \in [Rounds -> Rounds \cup {None}]
    /\ RoundOf \in [Calls -> Rounds] /\ BatchOf \in [Calls -> Batches]
    /\ OpOf \in [Calls -> {"query", "detail"}]
    /\ ActionRound \in [Actions -> Rounds]
    /\ \A c, d \in Calls : BatchOf[c] = BatchOf[d] => RoundOf[c] = RoundOf[d]
    /\ {McpTotal, CallLimit, MaxParallel, BatchSize, Spacing} \subseteq Nat \ {0}

VARIABLES
    rounds,        \* mcp_rounds
    chain,         \* mcp_round_activations, in order
    closures,      \* mcp_round_closures: deliveries counted at the close
    batches,       \* mcp_batches, with their mcp_calls
    dispatches,    \* mcp_dispatches
    results,       \* mcp_results
    recons,        \* mcp_reconciliations
    thread,        \* the gateway thread of a call
    handoffs,      \* mcp_delivery_actions, in order
    observations,  \* mcp_delivery_observations
    corrections    \* mcp_delivery_reconciliations

callVars == <<batches, dispatches, results, recons, thread>>
deliveryVars == <<handoffs, observations, corrections>>
vars == <<sourcingVars, rounds, chain, closures, callVars, deliveryVars>>

----
\* "gate" stands for gate, already_applied and blocked.
Stops == {"gate", "unknown"}

\* What is told apart of a reading, as of an outcome.
Readings == {"success", "failed", "gate", "unknown"}
ReadingsOf(c) == IF OpOf[c] = "query" THEN Readings ELSE Readings \ {"failed"}
ResultRow == [status : Readings \cup {"not_called"}, day : Days]

Observation == [status : {"sent", "failed", "gate", "unknown"}, at : 0 .. MaxNow,
                seen : 0 .. MaxNow, positive : BOOLEAN, ref : References \cup {None}]

ASSUME McpNone ==
    /\ None \notin ResultRow \cup Observation \cup References \cup Rounds \cup Nat

\* schemas/mcp_calls.py: a sent fact has its identity and its readback.
WellObserved(o) == o.at <= o.seen /\ (o.status = "sent" => o.positive /\ o.ref # None)

Init ==
    /\ SourcingInit
    /\ rounds = [r \in Rounds |-> None]
    /\ chain = << >>
    /\ closures = [r \in Rounds |-> None]
    /\ batches = {}
    /\ dispatches = {}
    /\ results = [c \in Calls |-> None]
    /\ recons = [c \in Calls |-> None]
    /\ thread = [c \in Calls |-> "none"]
    /\ handoffs = << >>
    /\ observations = [d \in Actions |-> None]
    /\ corrections = [d \in Actions |-> None]

----
(* What the ledger says of a round and a call. *)

Closed(r) == closures[r] # None

\* Mutant: a stop of the day is not looked at.
OpenStopped(r) ==
    /\ rounds[r] # None /\ ~Closed(r)
    /\ rounds[r].revision = revision /\ Current(SourcingOf[r])
    /\ rounds[r].day = Today

\* _open: not closed, of the rules and code in force, on its own day, source not stopped.
Open(r) ==
    /\ rounds[r] # None /\ ~Closed(r)
    /\ rounds[r].revision = revision /\ Current(SourcingOf[r])
    /\ rounds[r].day = Today
    /\ Today \notin halts

Admitted(c) == BatchOf[c] \in batches

\* _receipt: the reconciliation, if there is one, or the result.
Receipt(c) == IF recons[c] # None THEN recons[c] ELSE results[c]

Resolved(c) == Receipt(c) # None /\ Receipt(c).status # "unknown"

Unresolved(r) == \E c \in Calls : RoundOf[c] = r /\ Admitted(c) /\ ~Resolved(c)

\* The latest of some positions in a list, or 0.
Latest(positions) ==
    IF positions = {} THEN 0 ELSE CHOOSE i \in positions : \A j \in positions : j <= i

Activated(r) == \E i \in DOMAIN chain : chain[i].run = r

\* The activations of the candidate's rounds.
AtWork(r) == {i \in DOMAIN chain : CandidateOf[chain[i].run] = CandidateOf[r]}

\* _activate: the predecessor is the candidate's last round at work, and it is closed.
Predecessor(r) ==
    LET i == Latest(AtWork(r)) IN
    IF i = 0 THEN None ELSE chain[i].run

MayActivate(r) ==
    Activated(r) \/ /\ PreviousOf[r] # None => PreviousOf[r] = Predecessor(r)
                    /\ Predecessor(r) # None => Closed(Predecessor(r))

Debit(r) == IF Predecessor(r) = None THEN 0 ELSE closures[Predecessor(r)]

Activation(r) ==
    IF Activated(r) THEN chain
    ELSE Append(chain, [run |-> r, previous |-> Predecessor(r), debit |-> Debit(r)])

\* _budget, before a further call.
Dispatched(r) == {c \in dispatches : RoundOf[c] = r}
DebitOf(r, list) == list[CHOOSE i \in DOMAIN list : list[i].run = r].debit

CallsLeft(r) ==
    /\ Cardinality(Dispatched(r)) < McpTotal
    /\ Cardinality(Dispatched(r)) + DebitOf(r, Activation(r)) < CallLimit

----
(* Rounds. *)

\* start_round: one MCP round for a sourcing round.
StartRound(r) ==
    /\ rounds[r] = None
    /\ Current(SourcingOf[r])
    /\ \A q \in Rounds : rounds[q] # None => SourcingOf[q] # SourcingOf[r]
    /\ rounds' = [rounds EXCEPT ![r] = [day |-> Today, revision |-> revision]]
    /\ UNCHANGED <<sourcingVars, chain, closures, callVars, deliveryVars>>

Fact(d) == IF corrections[d] # None THEN corrections[d] ELSE observations[d]

HandedOut(r) == {d \in Actions : ActionRound[d] = r /\ \E i \in DOMAIN handoffs : handoffs[i].id = d}

Sent(r) == {d \in HandedOut(r) : Fact(d) # None /\ Fact(d).status = "sent"}

\* Mutant: the close counts first observations, not what they were corrected to.
CloseRoundFirst(r) ==
    /\ rounds[r] # None /\ ~Closed(r)
    /\ ~Unresolved(r)
    /\ \A d \in HandedOut(r) : Fact(d) # None /\ Fact(d).status # "unknown"
    /\ closures' = [closures EXCEPT
         ![r] = Cardinality({d \in HandedOut(r) : observations[d].status = "sent"})]
    /\ UNCHANGED <<sourcingVars, rounds, chain, callVars, deliveryVars>>

\* close_round.
CloseRound(r) ==
    /\ rounds[r] # None /\ ~Closed(r)
    /\ ~Unresolved(r)
    /\ \A d \in HandedOut(r) : Fact(d) # None /\ Fact(d).status # "unknown"
    /\ closures' = [closures EXCEPT ![r] = Cardinality(Sent(r))]
    /\ UNCHANGED <<sourcingVars, rounds, chain, callVars, deliveryVars>>

----
(* A batch of calls and its gateway threads. *)

\* open_batch.
OpenBatch(b) ==
    LET calls == {c \in Calls : BatchOf[c] = b} IN
    /\ b \notin batches
    /\ \E r \in Rounds :
        /\ calls # {} /\ \A c \in calls : RoundOf[c] = r
        /\ Open(r)
        /\ ~Unresolved(r)
    /\ Cardinality(calls) <= BatchSize
    /\ batches' = batches \cup {b}
    /\ thread' = [c \in Calls |-> IF c \in calls THEN "queued" ELSE thread[c]]
    /\ UNCHANGED <<sourcingVars, rounds, chain, closures, dispatches, results, recons, deliveryVars>>

Working == {"starting", "marked", "sent"}

\* A worker of the pool takes the call and starts the upstream server.
Begin(c) ==
    /\ thread[c] = "queued"
    /\ Cardinality({d \in Calls : BatchOf[d] = BatchOf[c] /\ thread[d] \in Working}) < MaxParallel
    /\ thread' = [thread EXCEPT ![c] = "starting"]
    /\ UNCHANGED <<sourcingVars, rounds, chain, closures, batches, dispatches, results, recons,
                   deliveryVars>>

\* mark_dispatched's conditions, the attempt's own key among them.
MayDispatch(c) ==
    LET r == RoundOf[c] IN
    /\ Open(r) /\ c \notin dispatches /\ results[c] = None
    /\ MayActivate(r) /\ CallsLeft(r)
    /\ Cardinality({d \in Dispatched(r) : results[d] = None}) < MaxParallel
    /\ attempts[c] = None /\ Permitted(SourcingOf[r], OpOf[c])

Claimed(c) == claims' = IF OpOf[c] = "query" THEN claims \cup {c} ELSE claims

\* mark_dispatched: the round activated, the call charged, the read attempted and claimed.
Dispatch(c) ==
    LET r == RoundOf[c] IN
    /\ thread[c] = "starting"
    /\ MayDispatch(c)
    /\ chain' = Activation(r)
    /\ Attempted(c, SourcingOf[r], OpOf[c])
    /\ dispatches' = dispatches \cup {c}
    /\ Claimed(c)
    /\ thread' = [thread EXCEPT ![c] = "marked"]
    /\ UNCHANGED <<now, revision, runs, outcomes, captured, halts, asked, rounds, closures,
                   batches, results, recons, deliveryVars>>

\* The request is written to the upstream server.
Send(c) ==
    /\ thread[c] = "marked"
    /\ Asked(c)
    /\ thread' = [thread EXCEPT ![c] = "sent"]
    /\ UNCHANGED <<now, revision, runs, attempts, claims, outcomes, captured, halts, rounds,
                   chain, closures, batches, dispatches, results, recons, deliveryVars>>

\* A reading that stops the source, on the day of the call and today.
Stopped(c, status) ==
    halts' = IF status \in Stops THEN halts \cup {attempts[c].day, Today} ELSE halts

\* A successful search records its listings; a repeated capture changes nothing.
Taken(c, status) ==
    IF OpOf[c] = "query" /\ status = "success" /\ c \notin captured
    THEN TakeIn(c) ELSE UNCHANGED <<captured, outcomes>>

Result(c, status) == results' = [results EXCEPT ![c] = [status |-> status, day |-> Today]]
Recon(c, status) == recons' = [recons EXCEPT ![c] = [status |-> status, day |-> Today]]

\* Mutant: a late answer replaces what a reconciliation has put in its place.
FinishLate(c) ==
    /\ thread[c] \in {"marked", "sent"}
    /\ \E status \in (IF thread[c] = "sent" THEN ReadingsOf(c) ELSE {"unknown"}) :
        /\ Result(c, status) /\ Stopped(c, status) /\ Taken(c, status)
    /\ thread' = [thread EXCEPT ![c] = "over"]
    /\ UNCHANGED <<now, revision, runs, attempts, claims, asked, rounds, chain, closures,
                   batches, dispatches, recons, deliveryVars>>

\* finish of a dispatched call: what came back, or unknown.
Finish(c) ==
    /\ thread[c] \in {"marked", "sent"}
    /\ results[c] = None
    /\ \E status \in (IF thread[c] = "sent" THEN ReadingsOf(c) ELSE {"unknown"}) :
        /\ Result(c, status) /\ Stopped(c, status) /\ Taken(c, status)
    /\ thread' = [thread EXCEPT ![c] = "over"]
    /\ UNCHANGED <<now, revision, runs, attempts, claims, asked, rounds, chain, closures,
                   batches, dispatches, recons, deliveryVars>>

\* finish of a call that was refused, or failed, before its dispatch.
FinishUncalled(c) ==
    /\ thread[c] = "starting"
    /\ results[c] = None
    /\ Result(c, "not_called")
    /\ thread' = [thread EXCEPT ![c] = "over"]
    /\ UNCHANGED <<sourcingVars, rounds, chain, closures, batches, dispatches, recons, deliveryVars>>

\* The process is killed, the database fails, or another result is on record already.
Die(c) ==
    /\ thread[c] \in Working \cup {"queued"}
    /\ thread' = [thread EXCEPT ![c] = "over"]
    /\ UNCHANGED <<sourcingVars, rounds, chain, closures, batches, dispatches, results, recons,
                   deliveryVars>>

----
(* A person reconciles a call, perhaps one whose thread is still at work. *)

Resolutions(c) == ReadingsOf(c) \ {"unknown"}

\* reconcile of a result that is on record as unknown.
ReconcileUnknown(c) ==
    /\ recons[c] = None
    /\ results[c] # None /\ results[c].status = "unknown"
    /\ \E status \in Resolutions(c) :
        /\ Recon(c, status) /\ Stopped(c, status) /\ Taken(c, status)
    /\ UNCHANGED <<now, revision, runs, attempts, claims, asked, rounds, chain, closures,
                   batches, dispatches, results, thread, deliveryVars>>

\* Mutant: the reading made now is recorded as the call's own result.
RecoverAtOnce(c) ==
    /\ c \in dispatches /\ results[c] = None
    /\ ~Closed(RoundOf[c])
    /\ \E status \in Resolutions(c) :
        Result(c, status) /\ Stopped(c, status) /\ Taken(c, status)
    /\ UNCHANGED <<now, revision, runs, attempts, claims, asked, rounds, chain, closures,
                   batches, dispatches, recons, thread, deliveryVars>>

\* reconcile after a crash: the call went out and no result was saved; that is recorded as
\* unknown and the day is stopped, then the reading that was made now.
Recover(c) ==
    /\ c \in dispatches /\ results[c] = None
    /\ ~Closed(RoundOf[c])
    /\ Result(c, "unknown") /\ Stopped(c, "unknown")
    /\ \E status \in Resolutions(c) : Recon(c, status) /\ Taken(c, status)
    /\ UNCHANGED <<now, revision, runs, attempts, claims, asked, rounds, chain, closures,
                   batches, dispatches, thread, deliveryVars>>

\* reconcile of a call that was admitted and never dispatched.
CloseUncalled(c) ==
    /\ Admitted(c) /\ c \notin dispatches /\ results[c] = None
    /\ ~Closed(RoundOf[c])
    /\ Result(c, "not_called") /\ Recon(c, "not_called")
    /\ UNCHANGED <<sourcingVars, rounds, chain, closures, batches, dispatches, thread, deliveryVars>>

----
(* Deliveries, made by the host and observed. *)

\* The last action handed out for the candidate of a round, or 0.
LastAction(r) ==
    Latest({i \in DOMAIN handoffs : CandidateOf[ActionRound[handoffs[i].id]] = CandidateOf[r]})

\* Mutant: only what is still open holds the next action back.
ReadBackResolved(o) == o # None /\ o.status # "unknown"

\* An observation after which the next action may follow.
ReadBack(o) == o # None /\ o.positive /\ o.status \notin Stops

\* prepare_delivery.
PrepareDelivery(d) ==
    LET r == ActionRound[d]
        i == LastAction(r) IN
    /\ Open(r) /\ Activated(r)
    /\ \A j \in DOMAIN handoffs : handoffs[j].id # d
    /\ i # 0 => /\ ReadBack(Fact(handoffs[i].id))
                /\ now >= Fact(handoffs[i].id).at + Spacing
    /\ handoffs' = Append(handoffs, [id |-> d, at |-> now])
    /\ UNCHANGED <<sourcingVars, rounds, chain, closures, callVars, observations, corrections>>

\* _unique_delivery.
FreshReference(d, ref) ==
    ref # None => \A e \in Actions \ {d} :
        /\ observations[e] # None => observations[e].ref # ref
        /\ corrections[e] # None => corrections[e].ref # ref

\* record_delivery: the host says what it saw, when it happened and when it looked.
RecordDelivery(d) ==
    /\ observations[d] = None
    /\ ~Closed(ActionRound[d])
    /\ \E i \in DOMAIN handoffs, o \in Observation :
        /\ handoffs[i].id = d /\ handoffs[i].at <= o.at
        /\ WellObserved(o) /\ o.seen <= now
        /\ FreshReference(d, o.ref)
        /\ observations' = [observations EXCEPT ![d] = o]
        /\ halts' = IF o.status \in Stops THEN halts \cup {Day(o.at), Day(o.seen)} ELSE halts
    /\ UNCHANGED <<now, revision, runs, attempts, claims, outcomes, captured, asked, rounds,
                   chain, closures, callVars, handoffs, corrections>>

\* reconcile_delivery: an unknown observation is resolved once, before the round is closed.
ReconcileDelivery(d) ==
    /\ observations[d] # None /\ observations[d].status = "unknown"
    /\ corrections[d] = None
    /\ ~Closed(ActionRound[d])
    /\ \E o \in Observation :
        /\ WellObserved(o) /\ o.status # "unknown"
        /\ o.at = observations[d].at
        /\ observations[d].seen <= o.seen /\ o.seen <= now
        /\ FreshReference(d, o.ref)
        /\ corrections' = [corrections EXCEPT ![d] = o]
        /\ halts' = IF o.status = "gate" THEN halts \cup {Day(o.seen), Today} ELSE halts
    /\ UNCHANGED <<now, revision, runs, attempts, claims, outcomes, captured, asked, rounds,
                   chain, closures, callVars, handoffs, observations>>

----
SourcingStep ==
    \/ \E r \in Runs : StartRun(r)
    \/ \E a \in Attempts \ Calls, r \in Runs : Reserve(a, r) \/ ReserveRead(a, r)
    \/ \E a \in Attempts : Complete(a) \/ RecordRead(a) \/ Claim(a) \/ Take(a)
    \/ ChangeRules \/ Tick

Step(c) ==
    \/ Begin(c) \/ Dispatch(c) \/ Send(c) \/ Finish(c) \/ FinishUncalled(c) \/ Die(c)
    \/ ReconcileUnknown(c) \/ Recover(c) \/ CloseUncalled(c)

Next ==
    \/ SourcingStep /\ UNCHANGED <<rounds, chain, closures, callVars, deliveryVars>>
    \/ \E r \in Rounds : StartRound(r) \/ CloseRound(r)
    \/ \E b \in Batches : OpenBatch(b)
    \/ \E c \in Calls : Step(c)
    \/ \E d \in Actions : PrepareDelivery(d) \/ RecordDelivery(d) \/ ReconcileDelivery(d)

Spec == Init /\ [][Next]_vars

----
(* Properties. *)

Activations == [run : Rounds, previous : Rounds \cup {None}, debit : Nat]

\* Every table and every thread keeps its type, and only what was admitted has a thread.
TypeOK ==
    /\ SourcingTypeOK
    /\ rounds \in [Rounds -> RunRow \cup {None}]
    /\ chain \in Seq(Activations)
    /\ closures \in [Rounds -> Nat \cup {None}]
    /\ batches \subseteq Batches /\ dispatches \subseteq Calls
    /\ results \in [Calls -> ResultRow \cup {None}]
    /\ recons \in [Calls -> ResultRow \cup {None}]
    /\ thread \in [Calls -> {"none", "queued", "over"} \cup Working]
    /\ handoffs \in Seq([id : Actions, at : 0 .. MaxNow])
    /\ observations \in [Actions -> Observation \cup {None}]
    /\ corrections \in [Actions -> Observation \cup {None}]
    /\ \A c \in Calls : thread[c] # "none" => Admitted(c)

\* The source is asked once at most for an attempt, whichever entry point runs it: a call
\* goes out once, and a search that is out cannot be run by jobs search as well
\* (mark_dispatched, claim).
AskedOnce == \A a \in Attempts : asked[a] <= 1

\* What is on record as not called was never dispatched and never will be, although its
\* thread may be at work when it is closed (reconcile, mark_dispatched).
NotCalledNeverSent ==
    \A c \in Calls : results[c] # None /\ results[c].status = "not_called" =>
        c \notin dispatches /\ thread[c] \notin {"marked", "sent"}

\* The calls of a round that are really out are of one batch and no more than the parallel
\* limit, even when a person resolves a call whose thread is alive (_recover_receipt).
UpstreamBounded ==
    \A r \in Rounds :
        LET out == {c \in Calls : RoundOf[c] = r /\ thread[c] \in {"marked", "sent"}} IN
        /\ Cardinality(out) <= MaxParallel
        /\ \A c, d \in out : BatchOf[c] = BatchOf[d]

\* A round's calls stay within the total, and within the call limit less the deliveries
\* that its predecessor really made (_budget, _activate).
AllowanceKept ==
    \A i \in DOMAIN chain :
        LET calls == Cardinality(Dispatched(chain[i].run))
            before == chain[i].previous IN
        /\ calls <= McpTotal
        /\ calls + (IF before = None THEN 0 ELSE Cardinality(Sent(before))) <= CallLimit

\* An outcome is final: no late answer, recovery or second reading changes a result on
\* record or the receipt of a resolved call (finish, reconcile).
OutcomeKept ==
    [][\A c \in Calls :
        /\ results[c] # None => results[c]' = results[c]
        /\ Resolved(c) => Receipt(c)' = Receipt(c)]_vars

\* A reading or a delivery that stops the source, and the days it stops.
StoppedOn(day) ==
    \/ \E a \in Attempts : /\ outcomes[a] # None /\ outcomes[a].status = "gate"
                           /\ day \in {attempts[a].day, outcomes[a].day}
    \/ \E c \in Calls : /\ results[c] # None /\ results[c].status \in Stops
                        /\ day \in {attempts[c].day, results[c].day}
    \/ \E c \in Calls : /\ recons[c] # None /\ recons[c].status \in Stops
                        /\ day \in {attempts[c].day, recons[c].day}
    \/ \E d \in Actions : /\ observations[d] # None /\ observations[d].status \in Stops
                          /\ day \in {Day(observations[d].at), Day(observations[d].seen)}
    \/ \E d \in Actions : /\ corrections[d] # None /\ corrections[d].status \in Stops
                          /\ day = Day(corrections[d].seen)

\* Once anything has stopped the source for a day, by either entry point, nothing is read,
\* called or handed out on that day any more, and no reconciliation lifts the stop (_halt).
StopRespected ==
    [][attempts' # attempts \/ claims' # claims \/ dispatches' # dispatches
            \/ handoffs' # handoffs \/ batches' # batches => ~StoppedOn(Today)]_vars

\* A candidate has one round at work at most: all activated before the last are closed.
OneRoundAtWork ==
    \A i, j \in DOMAIN chain :
        i < j /\ CandidateOf[chain[i].run] = CandidateOf[chain[j].run] => Closed(chain[i].run)

\* What a round was debited is what its predecessor delivered, and stays so: facts of a
\* closed round are frozen (close_round, record_delivery, reconcile_delivery).
DebitTrue ==
    /\ \A r \in Rounds : Closed(r) => closures[r] = Cardinality(Sent(r))
    /\ \A i \in DOMAIN chain :
        chain[i].debit = IF chain[i].previous = None THEN 0
                         ELSE Cardinality(Sent(chain[i].previous))

\* An action is handed out only after every earlier one of the candidate was read back
\* positively, and at the confirmed distance from it (prepare_delivery).
DeliveriesInTurn ==
    \A i, j \in DOMAIN handoffs :
        LET before == Fact(handoffs[i].id) IN
        i < j /\ CandidateOf[ActionRound[handoffs[i].id]] = CandidateOf[ActionRound[handoffs[j].id]] =>
            /\ before # None /\ before.positive /\ before.status \notin Stops
            /\ before.at >= handoffs[i].at
            /\ handoffs[j].at >= before.at + Spacing

\* One external delivery is never counted for two actions, not even by a reconciliation.
ReferenceOnce ==
    \A d, e \in Actions : d # e =>
        LET Refs(x) == {o.ref : o \in {observations[x], corrections[x]} \ {None}} \ {None} IN
        Refs(d) \cap Refs(e) = {}

\* A call is made once at most, as its record says, and within the limits of its round, when threads,
\* processes and a person work at once (mcp_repository.py).
CallsSound ==
    /\ TypeOK
    /\ AskedOnce
    /\ NotCalledNeverSent
    /\ UpstreamBounded

\* Deliveries go out in turn and are counted once (prepare_delivery, reconcile_delivery).
DeliveriesSound ==
    /\ DeliveriesInTurn
    /\ ReferenceOnce

\* Rounds of a candidate follow one another, each within what the one before left it
\* (_activate, close_round).
RoundsSound ==
    /\ DebitTrue
    /\ OneRoundAtWork
    /\ AllowanceKept

\* What is on record stands: no outcome changes and no stop is lifted.
CallsStand == OutcomeKept /\ StopRespected
====
