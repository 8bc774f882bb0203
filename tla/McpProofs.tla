---- MODULE McpProofs ----
(***************************************************************************)
(* Proofs about McpLedger and the reads it shares with SourcingReads: for  *)
(* every number of rounds, batches, calls and deliveries, and all limits.  *)
(***************************************************************************)
EXTENDS McpLedger, Integers, FiniteSetTheorems, TLAPS

----
(* The inductive invariant. *)

\* What was never attempted has no outcome, no listings, and the source was not asked.
ReadsTold ==
    /\ IsFiniteSet({a \in Attempts : attempts[a] # None})
    /\ \A a \in Attempts : attempts[a] = None =>
         outcomes[a] = None /\ a \notin captured

Out(c) == thread[c] \in {"marked", "sent"}

\* A dispatch is the attempt of an admitted call, on the day of its round; only what was
\* dispatched is out or has an outcome that stops; and a call that is out although its
\* result is on record was taken for dead, which stopped its round's day.
CallTold(c) ==
    /\ attempts[c] # None <=> c \in dispatches
    /\ c \in dispatches =>
         /\ Admitted(c) /\ rounds[RoundOf[c]] # None
         /\ attempts[c].day = rounds[RoundOf[c]].day
         /\ attempts[c].kind = OpOf[c] /\ (OpOf[c] = "query" => c \in claims)
    /\ thread[c] \in {"none", "queued", "starting"} => c \notin dispatches
    /\ Out(c) => c \in dispatches
    /\ Out(c) /\ results[c] # None => rounds[RoundOf[c]].day \in halts
    /\ results[c] # None /\ results[c].status \in Stops => c \in dispatches
    /\ recons[c] # None => results[c] # None /\ recons[c].status # "unknown"

CallsTold ==
    /\ IsFiniteSet(dispatches)
    /\ \A c \in Calls : CallTold(c)

\* Who asked the source for an attempt: its claim, or the thread of its call.
AskedBy ==
    /\ \A a \in Attempts \ Calls : a \notin claims => asked[a] = 0
    /\ \A c \in Calls : thread[c] \notin {"sent", "over"} => asked[c] = 0

\* Of two batches of a round, the calls of one are all resolved.
BatchesInTurn ==
    \A c, d \in Calls :
        Admitted(c) /\ Admitted(d) /\ RoundOf[c] = RoundOf[d] /\ BatchOf[c] # BatchOf[d] =>
            Resolved(c) \/ Resolved(d)

\* Whatever stopped a day is among the halts.
HaltsTold == \A day \in Days : StoppedOn(day) => day \in halts

\* Each action is handed out once; it happened after that, corrected or not.
HandoffsTold ==
    /\ IsFiniteSet({d \in Actions : \E i \in DOMAIN handoffs : handoffs[i].id = d})
    /\ \A i, j \in DOMAIN handoffs : handoffs[i].id = handoffs[j].id => i = j
    /\ \A d \in Actions :
        /\ corrections[d] # None =>
             /\ observations[d] # None /\ corrections[d].at = observations[d].at
             /\ corrections[d].status # "unknown"
        /\ observations[d] # None =>
             \E i \in DOMAIN handoffs : handoffs[i].id = d /\ handoffs[i].at <= observations[d].at

\* A list of positions has a last one.
HasLast(positions) == positions # {} => \E i \in positions : \A j \in positions : j <= i

HandedTo(r) == {i \in DOMAIN handoffs : CandidateOf[ActionRound[handoffs[i].id]] = CandidateOf[r]}
LastTold == \A r \in Rounds : HasLast(AtWork(r)) /\ HasLast(HandedTo(r))

\* A round is activated once, after a predecessor that is closed.
ChainTold ==
    /\ \A i, j \in DOMAIN chain : chain[i].run = chain[j].run => i = j
    /\ \A i \in DOMAIN chain : chain[i].previous # None => Closed(chain[i].previous)

McpInvariant ==
    /\ TypeOK
    /\ ReadsTold /\ CallsTold /\ AskedBy /\ BatchesInTurn /\ HaltsTold
    /\ HandoffsTold /\ LastTold /\ ChainTold
    /\ ReadsSound /\ CallsSound /\ DeliveriesSound /\ RoundsSound

----
(* Which operations write what. *)

\* Each table has its writers.
LEMMA Writers ==
    ASSUME [Next]_vars
    PROVE  /\ UNCHANGED rounds \/ \E r \in Rounds : StartRound(r)
           /\ UNCHANGED closures \/ \E r \in Rounds : CloseRound(r)
           /\ UNCHANGED batches \/ \E b \in Batches : OpenBatch(b)
           /\ UNCHANGED <<chain, dispatches>> \/ \E c \in Calls : Dispatch(c)
           /\ UNCHANGED handoffs \/ \E d \in Actions : PrepareDelivery(d)
           /\ UNCHANGED observations \/ \E d \in Actions : RecordDelivery(d)
           /\ UNCHANGED corrections \/ \E d \in Actions : ReconcileDelivery(d)
           /\ UNCHANGED runs \/ \E r \in Runs : StartRun(r)
           /\ UNCHANGED claims \/ (\E a \in Attempts : Claim(a)) \/ \E c \in Calls : Dispatch(c)
           /\ UNCHANGED revision \/ ChangeRules
           /\ UNCHANGED now \/ Tick
  <1> USE DEF readVars, sourcingVars, callVars, deliveryVars
  <1>1. CASE SourcingStep /\ UNCHANGED <<rounds, chain, closures, callVars, deliveryVars>>
    BY <1>1 DEF SourcingStep, StartRun, Reserve, ReserveRead, Complete, RecordRead, Claim, Take,
                ChangeRules, Tick
  <1>2. CASE \E r \in Rounds : StartRound(r) \/ CloseRound(r)
    BY <1>2 DEF StartRound, CloseRound
  <1>3. CASE \E b \in Batches : OpenBatch(b)
    BY <1>3 DEF OpenBatch
  <1>4. CASE \E c \in Calls : Step(c)
    BY <1>4 DEF Step, Begin, Dispatch, Send, Finish, FinishUncalled, Die, ReconcileUnknown, Recover,
                CloseUncalled
  <1>5. CASE \E d \in Actions : PrepareDelivery(d) \/ RecordDelivery(d) \/ ReconcileDelivery(d)
    BY <1>5 DEF PrepareDelivery, RecordDelivery, ReconcileDelivery
  <1>6. CASE UNCHANGED vars
    BY <1>6 DEF vars
  <1> QED
    BY <1>1, <1>2, <1>3, <1>4, <1>5, <1>6 DEF Next

\* An outcome of a call is of one that was dispatched.
LEMMA CallOutcome ==
    ASSUME TypeOK, CallsTold, NEW c \in Calls, Finish(c) \/ ReconcileUnknown(c) \/ Recover(c)
    PROVE  /\ c \in dispatches /\ attempts[c] \in AttemptRow /\ attempts[c].kind = OpOf[c]
           /\ \E status \in Readings : Taken(c, status)
           /\ UNCHANGED <<attempts, dispatches>>
  <1>1. c \in dispatches
    BY DEF CallsTold, CallTold, Finish, ReconcileUnknown, Recover, Out, Stops
  <1>2. attempts[c] \in AttemptRow /\ attempts[c].kind = OpOf[c]
    BY <1>1, McpSorts DEF CallsTold, CallTold, TypeOK, SourcingTypeOK
  <1> QED
    BY <1>1, <1>2 DEF Finish, ReconcileUnknown, Recover, ReadingsOf, Resolutions, Readings

\* What a step may do to the reads of the source.
NewRead(a, r, kind) ==
    /\ attempts[a] = None /\ Permitted(r, kind) /\ Attempted(a, r, kind)
    /\ UNCHANGED <<outcomes, captured>>
NewOutcome(a, status) ==
    /\ attempts[a] # None /\ outcomes[a] = None
    /\ attempts[a].kind = "query" /\ status = "complete" => a \in captured
    /\ Decided(a, status)
    /\ status = "gate" => {attempts[a].day, Today} \subseteq halts'
    /\ UNCHANGED <<attempts, captured>>
NewCapture(a) ==
    /\ attempts[a] # None /\ attempts[a].kind = "query" /\ TakeIn(a)
    /\ UNCHANGED attempts

LEMMA ReadSteps ==
    ASSUME TypeOK, CallsTold, [Next]_vars
    PROVE  \/ UNCHANGED <<attempts, outcomes, captured>>
           \/ \E a \in Attempts, r \in Runs, kind \in Kinds : NewRead(a, r, kind)
           \/ \E a \in Attempts, status \in Outcomes : NewOutcome(a, status)
           \/ \E a \in Attempts : NewCapture(a)
  <1> USE DEF readVars, sourcingVars
  <1>1. ASSUME NEW a \in Attempts \ Calls, NEW r \in Runs, Reserve(a, r) \/ ReserveRead(a, r)
        PROVE  \E kind \in Kinds : NewRead(a, r, kind)
    BY <1>1 DEF Reserve, ReserveRead, NewRead, Kinds, Details
  <1>2. ASSUME NEW a \in Attempts, Complete(a) \/ RecordRead(a)
        PROVE  \E status \in Outcomes : NewOutcome(a, status)
    BY <1>2 DEF Complete, RecordRead, NewOutcome, OutcomesOf, Outcomes
  <1>3. ASSUME NEW a \in Attempts, Take(a) PROVE NewCapture(a)
    BY <1>3 DEF Take, NewCapture
  <1>4. CASE SourcingStep
    BY <1>1, <1>2, <1>3, <1>4 DEF SourcingStep, StartRun, Claim, ChangeRules, Tick
  <1>5. ASSUME NEW c \in Calls, Dispatch(c) PROVE \E r \in Runs, kind \in Kinds : NewRead(c, r, kind)
    <2>1. SourcingOf[RoundOf[c]] \in Runs /\ OpOf[c] \in Kinds
      BY McpSorts DEF Kinds, Details
    <2> QED
      BY <1>5, <2>1 DEF Dispatch, MayDispatch, NewRead
  <1>6. ASSUME NEW c \in Calls, Finish(c) \/ ReconcileUnknown(c) \/ Recover(c)
        PROVE  UNCHANGED <<attempts, outcomes, captured>> \/ NewCapture(c)
    <2>1. attempts[c] # None /\ attempts[c].kind = OpOf[c]
      BY <1>6, CallOutcome, SourcingNone
    <2> QED
      BY <1>6, <2>1, CallOutcome DEF Taken, NewCapture
  <1>7. CASE \E c \in Calls : Step(c)
    <2>1. \A c \in Calls : c \in Attempts
      BY McpSorts
    <2> QED
      BY <1>5, <1>6, <1>7, <2>1
         DEF Step, Begin, Send, FinishUncalled, Die, CloseUncalled
  <1>8. CASE \/ \E r \in Rounds : StartRound(r) \/ CloseRound(r)
             \/ \E b \in Batches : OpenBatch(b)
             \/ \E d \in Actions : PrepareDelivery(d) \/ RecordDelivery(d) \/ ReconcileDelivery(d)
             \/ UNCHANGED vars
    BY <1>8 DEF StartRound, CloseRound, OpenBatch, PrepareDelivery, RecordDelivery,
                ReconcileDelivery, vars
  <1> QED
    BY <1>4, <1>7, <1>8 DEF Next

----
(* Types. *)

LEMMA DayGrows == \A t, u \in Nat : Day(t) \in Nat /\ (t <= u => Day(t) <= Day(u))
  <1> SUFFICES ASSUME NEW t \in Nat, NEW u \in Nat
               PROVE  Day(t) \in Nat /\ (t <= u => Day(t) <= Day(u))
    OBVIOUS
  <1> DEFINE d == DayLength
  <1>1. d \in Nat \ {0}
    BY SourcingSorts
  <1> HIDE DEF d
  <1>2. t \div d \in Nat /\ u \div d \in Nat
    BY <1>1
  <1>3. d * (t \div d) <= t /\ u < d * ((u \div d) + 1)
    BY <1>1
  <1>4. ASSUME NEW x \in Int, NEW y \in Int, x > y PROVE d * x >= d * (y + 1)
    BY <1>1, <1>4
  <1> QED
    BY <1>1, <1>2, <1>3, <1>4 DEF Day, d

LEMMA DaysTyped == \A t \in 0..MaxNow : Day(t) \in Days
BY DayGrows, SourcingSorts DEF Days

\* Halts are days, and none is ever lifted.
LEMMA HaltsStep ==
    ASSUME TypeOK, CallsTold, [Next]_vars
    PROVE  halts \subseteq halts' /\ halts' \subseteq Days
  <1>1. /\ Today \in Days /\ halts \subseteq Days
        /\ \A a \in Attempts : attempts[a] # None => attempts[a].day \in Days
    BY DaysTyped DEF TypeOK, SourcingTypeOK, Today, AttemptRow
  <1>2. ASSUME NEW a \in Attempts, Complete(a) \/ RecordRead(a)
        PROVE  halts \subseteq halts' /\ halts' \subseteq Days
    BY <1>1, <1>2 DEF Complete, RecordRead
  <1>3. ASSUME NEW c \in Calls, Finish(c) \/ ReconcileUnknown(c) \/ Recover(c)
        PROVE  halts \subseteq halts' /\ halts' \subseteq Days
    <2>1. attempts[c].day \in Days
      BY <1>3, CallOutcome DEF AttemptRow
    <2> QED
      BY <1>1, <1>3, <2>1 DEF Finish, ReconcileUnknown, Recover, Stopped
  <1>4. ASSUME NEW d \in Actions, RecordDelivery(d)
        PROVE  halts \subseteq halts' /\ halts' \subseteq Days
    <2>1. PICK o \in Observation :
              halts' = IF o.status \in Stops THEN halts \cup {Day(o.at), Day(o.seen)} ELSE halts
      BY <1>4 DEF RecordDelivery
    <2>2. Day(o.at) \in Days /\ Day(o.seen) \in Days
      BY DaysTyped DEF Observation
    <2> QED
      BY <1>1, <2>1, <2>2
  <1>5. ASSUME NEW d \in Actions, ReconcileDelivery(d)
        PROVE  halts \subseteq halts' /\ halts' \subseteq Days
    <2>1. PICK o \in Observation :
              halts' = IF o.status = "gate" THEN halts \cup {Day(o.seen), Today} ELSE halts
      BY <1>5 DEF ReconcileDelivery
    <2>2. Day(o.seen) \in Days
      BY DaysTyped DEF Observation
    <2> QED
      BY <1>1, <2>1, <2>2
  <1>6. ASSUME UNCHANGED halts PROVE halts \subseteq halts' /\ halts' \subseteq Days
    BY <1>1, <1>6
  <1>7. CASE SourcingStep
    BY <1>2, <1>6, <1>7 DEF SourcingStep, StartRun, Reserve, ReserveRead, Claim, Take, ChangeRules, Tick,
                            readVars
  <1>8. CASE \E c \in Calls : Step(c)
    BY <1>3, <1>6, <1>8 DEF Step, Begin, Dispatch, Send, FinishUncalled, Die, CloseUncalled, readVars,
                            sourcingVars
  <1>9. CASE \/ \E r \in Rounds : StartRound(r) \/ CloseRound(r)
             \/ \E b \in Batches : OpenBatch(b)
             \/ \E d \in Actions : PrepareDelivery(d)
             \/ UNCHANGED vars
    BY <1>6, <1>9 DEF StartRound, CloseRound, OpenBatch, PrepareDelivery, vars, readVars, sourcingVars
  <1> QED
    BY <1>4, <1>5, <1>7, <1>8, <1>9 DEF Next

\* The tables of the reads.
LEMMA SourcingTyped ==
    ASSUME TypeOK, CallsTold, [Next]_vars
    PROVE  SourcingTypeOK'
  <1> USE DEF TypeOK, SourcingTypeOK
  <1>1. Today \in Days /\ None \notin AttemptRow /\ None \notin OutcomeRow
    BY DaysTyped, SourcingNone DEF Today
  <1>2. now' \in 0..MaxNow /\ revision' \in 0..MaxRevision
    <2>1. now' = now \/ (now < MaxNow /\ now' = now + 1)
      BY Writers DEF Tick
    <2>2. revision' = revision \/ (revision < MaxRevision /\ revision' = revision + 1)
      BY Writers DEF ChangeRules
    <2> QED
      BY <2>1, <2>2, SourcingSorts
  <1>3. runs' \in [Runs -> RunRow \cup {None}]
    <2>1. [day |-> Today, revision |-> revision] \in RunRow
      BY <1>1 DEF RunRow
    <2>2. UNCHANGED runs
              \/ \E r \in Runs : runs' = [runs EXCEPT ![r] = [day |-> Today, revision |-> revision]]
      BY Writers DEF StartRun
    <2> QED
      BY <2>1, <2>2
  <1>4. /\ attempts' \in [Attempts -> AttemptRow \cup {None}]
        /\ outcomes' \in [Attempts -> OutcomeRow \cup {None}]
        /\ captured' \subseteq Attempts
    <2>1. ASSUME NEW a \in Attempts, NEW r \in Runs, NEW kind \in Kinds, NewRead(a, r, kind)
          PROVE  /\ attempts' \in [Attempts -> AttemptRow \cup {None}]
                 /\ UNCHANGED <<outcomes, captured>>
      <3>1. [run |-> r, kind |-> kind, day |-> Today] \in AttemptRow
        BY <1>1 DEF AttemptRow
      <3> QED
        BY <2>1, <3>1 DEF NewRead, Attempted
    <2>2. ASSUME NEW a \in Attempts, NEW status \in Outcomes, Decided(a, status)
          PROVE  outcomes' \in [Attempts -> OutcomeRow \cup {None}]
      <3>1. [status |-> status, day |-> Today] \in OutcomeRow
        BY <1>1 DEF OutcomeRow
      <3> QED
        BY <2>2, <3>1 DEF Decided
    <2>3. ASSUME NEW a \in Attempts, NEW status \in Outcomes, NewOutcome(a, status)
          PROVE  outcomes' \in [Attempts -> OutcomeRow \cup {None}] /\ UNCHANGED <<attempts, captured>>
      BY <2>2, <2>3 DEF NewOutcome
    <2>4. ASSUME NEW a \in Attempts, NewCapture(a)
          PROVE  /\ outcomes' \in [Attempts -> OutcomeRow \cup {None}] /\ UNCHANGED attempts
                 /\ captured' \subseteq Attempts
      <3>1. "complete" \in Outcomes
        BY DEF Outcomes
      <3>2. UNCHANGED outcomes \/ Decided(a, "complete")
        BY <2>4 DEF NewCapture, TakeIn
      <3>3. captured' = captured \cup {a} /\ UNCHANGED attempts
        BY <2>4 DEF NewCapture, TakeIn
      <3> QED
        BY <2>2, <3>1, <3>2, <3>3
    <2> QED
      BY <2>1, <2>3, <2>4, ReadSteps
  <1>5. claims' \subseteq Attempts
    BY Writers, McpSorts DEF Claim, Dispatch, Claimed
  <1>6. halts' \subseteq Days
    BY HaltsStep
  <1>7. asked' \in [Attempts -> Nat]
    <2>1. ASSUME NEW a \in Attempts, Asked(a) PROVE asked' \in [Attempts -> Nat]
      BY <2>1 DEF Asked
    <2>2. UNCHANGED asked \/ \E a \in Attempts : Asked(a)
      <3>1. CASE SourcingStep
        BY <3>1 DEF SourcingStep, StartRun, Reserve, ReserveRead, Complete, RecordRead, Claim, Take,
                    ChangeRules, Tick, readVars
      <3>2. CASE \E c \in Calls : Step(c)
        BY <3>2, McpSorts DEF Step, Begin, Dispatch, Send, Finish, FinishUncalled, Die, ReconcileUnknown,
                    Recover, CloseUncalled, sourcingVars, readVars
      <3>3. CASE ~SourcingStep /\ ~\E c \in Calls : Step(c)
        BY <3>3 DEF Next, StartRound, CloseRound, OpenBatch, PrepareDelivery, RecordDelivery,
                    ReconcileDelivery, vars, sourcingVars, readVars
      <3> QED
        BY <3>1, <3>2, <3>3
    <2> QED
      BY <2>1, <2>2
  <1> QED
    BY <1>2, <1>3, <1>4, <1>5, <1>6, <1>7

----
(* Lists that only grow. *)

LEMMA Appended ==
    ASSUME NEW S, NEW s \in Seq(S), NEW e
    PROVE  \E new \in Nat \ {0} :
             /\ DOMAIN s = 1..(new - 1) /\ DOMAIN Append(s, e) = 1..new
             /\ \A k \in DOMAIN s : Append(s, e)[k] = s[k]
             /\ Append(s, e)[new] = e
  <1>1. /\ Len(s) \in Nat /\ DOMAIN s = 1..Len(s)
        /\ DOMAIN Append(s, e) = 1..(Len(s) + 1)
        /\ \A k \in DOMAIN s : Append(s, e)[k] = s[k]
        /\ Append(s, e)[Len(s) + 1] = e
    OBVIOUS
  <1>2. /\ Len(s) + 1 \in Nat \ {0} /\ (Len(s) + 1) - 1 = Len(s)
    BY <1>1
  <1> QED
    BY <1>1, <1>2

LEMMA LatestIs ==
    ASSUME NEW positions \in SUBSET (Nat \ {0}), HasLast(positions)
    PROVE  /\ positions = {} <=> Latest(positions) = 0
           /\ positions # {} => /\ Latest(positions) \in positions
                                /\ \A j \in positions : j <= Latest(positions)
  <1>1. CASE positions # {}
    <2>1. \E i \in positions : \A j \in positions : j <= i
      BY <1>1 DEF HasLast
    <2>2. Latest(positions) = CHOOSE i \in positions : \A j \in positions : j <= i
      BY <1>1 DEF Latest
    <2>3. Latest(positions) \in positions /\ \A j \in positions : j <= Latest(positions)
      BY <2>1, <2>2
    <2> QED
      BY <1>1, <2>3
  <1>2. CASE positions = {}
    BY <1>2 DEF Latest
  <1> QED
    BY <1>1, <1>2

\* The rows of the two lists.
LEMMA ChainRows ==
    ASSUME TypeOK
    PROVE  /\ DOMAIN chain \in SUBSET (Nat \ {0})
           /\ \A i \in DOMAIN chain : chain[i] \in Activations /\ chain[i].run \in Rounds
  <1> DEFINE S == Activations
  <1>1. chain \in Seq(S)
    BY DEF TypeOK
  <1>2. \A x \in S : x.run \in Rounds
    BY DEF Activations
  <1> HIDE DEF S
  <1>3. Len(chain) \in Nat /\ DOMAIN chain = 1..Len(chain)
    BY <1>1
  <1>4. \A i \in 1..Len(chain) : chain[i] \in S
    BY <1>1
  <1> QED
    BY <1>2, <1>3, <1>4 DEF S

LEMMA HandoffRows ==
    ASSUME TypeOK
    PROVE  /\ DOMAIN handoffs \in SUBSET (Nat \ {0})
           /\ \A i \in DOMAIN handoffs : handoffs[i].id \in Actions /\ handoffs[i].at \in 0..MaxNow
  <1> DEFINE S == [id : Actions, at : 0 .. MaxNow]
  <1>1. handoffs \in Seq(S)
    BY DEF TypeOK
  <1>2. \A x \in S : x.id \in Actions /\ x.at \in 0..MaxNow
    OBVIOUS
  <1> HIDE DEF S
  <1>3. Len(handoffs) \in Nat /\ DOMAIN handoffs = 1..Len(handoffs)
    BY <1>1
  <1>4. \A i \in 1..Len(handoffs) : handoffs[i] \in S
    BY <1>1
  <1> QED
    BY <1>2, <1>3, <1>4

\* A new row of the two lists, at the position after all others.
LEMMA ActivationAdded ==
    ASSUME TypeOK, NEW row, chain' = Append(chain, row)
    PROVE  \E new \in Nat \ {0} :
             /\ DOMAIN chain = 1..(new - 1) /\ DOMAIN chain' = 1..new
             /\ \A k \in DOMAIN chain : chain'[k] = chain[k]
             /\ chain'[new] = row
  <1>1. chain \in Seq(Activations)
    BY DEF TypeOK
  <1> QED
    BY <1>1, Appended

LEMMA HandoffAdded ==
    ASSUME TypeOK, NEW row, handoffs' = Append(handoffs, row)
    PROVE  \E new \in Nat \ {0} :
             /\ DOMAIN handoffs = 1..(new - 1) /\ DOMAIN handoffs' = 1..new
             /\ \A k \in DOMAIN handoffs : handoffs'[k] = handoffs[k]
             /\ handoffs'[new] = row
  <1>1. handoffs \in Seq([id : Actions, at : 0 .. MaxNow])
    BY DEF TypeOK
  <1> QED
    BY <1>1, Appended

\* The predecessor is the last activation of the candidate.
LEMMA PredecessorIs ==
    ASSUME TypeOK, LastTold, NEW r \in Rounds
    PROVE  /\ Predecessor(r) \in Rounds \cup {None}
           /\ \A i \in AtWork(r) : \E k \in AtWork(r) :
                i <= k /\ Predecessor(r) = chain[k].run /\ Predecessor(r) \in Rounds
  <1>1. AtWork(r) \in SUBSET (Nat \ {0}) /\ \A i \in AtWork(r) : chain[i].run \in Rounds
    BY ChainRows DEF AtWork
  <1>2. /\ AtWork(r) = {} <=> Latest(AtWork(r)) = 0
        /\ AtWork(r) # {} => /\ Latest(AtWork(r)) \in AtWork(r)
                             /\ \A j \in AtWork(r) : j <= Latest(AtWork(r))
    BY <1>1, LatestIs DEF LastTold
  <1>3. CASE AtWork(r) = {}
    BY <1>2, <1>3 DEF Predecessor
  <1>4. CASE AtWork(r) # {}
    <2>1. Latest(AtWork(r)) # 0
      BY <1>1, <1>2, <1>4
    <2>2. Predecessor(r) = chain[Latest(AtWork(r))].run
      BY <2>1 DEF Predecessor
    <2> QED
      BY <1>1, <1>2, <1>4, <2>2
  <1> QED
    BY <1>3, <1>4

\* A dispatch appends at most one activation, of a round whose predecessor is closed.
NewActivation(r, row) ==
    /\ r \in Rounds /\ ~Activated(r)
    /\ row = [run |-> r, previous |-> Predecessor(r), debit |-> Debit(r)]
    /\ row \in Activations
    /\ row.previous # None => row.previous \in Rounds /\ Closed(row.previous)
    /\ chain' = Append(chain, row)

LEMMA ChainSteps ==
    ASSUME TypeOK, LastTold, NEW c \in Calls, Dispatch(c)
    PROVE  UNCHANGED chain \/ \E row : NewActivation(RoundOf[c], row)
  <1> DEFINE r == RoundOf[c]
             row == [run |-> r, previous |-> Predecessor(r), debit |-> Debit(r)]
  <1>1. CASE Activated(r)
    BY <1>1 DEF Dispatch, Activation
  <1>2. CASE ~Activated(r)
    <2>1. chain' = Append(chain, row) /\ r \in Rounds
      BY <1>2, McpSorts DEF Dispatch, Activation
    <2>2. Predecessor(r) \in Rounds \cup {None} /\ (Predecessor(r) # None => Closed(Predecessor(r)))
      BY <1>2, <2>1, PredecessorIs DEF Dispatch, MayDispatch, MayActivate
    <2>3. Debit(r) \in Nat
      BY <2>2 DEF Debit, Closed, TypeOK
    <2>4. row \in Activations
      BY <2>1, <2>2, <2>3 DEF Activations
    <2> HIDE DEF r
    <2>5. NewActivation(r, row)
      BY <1>2, <2>1, <2>2, <2>4 DEF NewActivation
    <2> QED
      BY <2>5 DEF r
  <1> QED
    BY <1>1, <1>2

\* The last position stays the last, or the new one is.
LEMMA HasLastGrows ==
    ASSUME NEW new \in Nat \ {0}, NEW old \in SUBSET (1..(new - 1)), HasLast(old)
    PROVE  HasLast(old \cup {new})
  <1>1. \A j \in old \cup {new} : j <= new
    OBVIOUS
  <1> QED
    BY <1>1 DEF HasLast

LEMMA LastStep ==
    ASSUME McpInvariant, [Next]_vars
    PROVE  LastTold'
  <1> USE DEF McpInvariant
  <1>1. ASSUME NEW r \in Rounds PROVE HasLast(AtWork(r))'
    <2>1. CASE UNCHANGED chain
      BY <2>1 DEF LastTold, AtWork, HasLast
    <2>2. ASSUME NEW q, NEW row, NewActivation(q, row) PROVE HasLast(AtWork(r))'
      <3>1. PICK new \in Nat \ {0} :
               /\ DOMAIN chain = 1..(new - 1) /\ DOMAIN chain' = 1..new
               /\ \A k \in DOMAIN chain : chain'[k] = chain[k]
               /\ chain'[new] = row
        BY <2>2, ActivationAdded DEF NewActivation
      <3>2. AtWork(r)' = AtWork(r) \/ AtWork(r)' = AtWork(r) \cup {new}
        BY <3>1 DEF AtWork
      <3>3. AtWork(r) \in SUBSET (1..(new - 1)) /\ HasLast(AtWork(r))
        BY <3>1 DEF AtWork, LastTold
      <3>4. HasLast(AtWork(r) \cup {new})
        BY <3>3, HasLastGrows
      <3> QED
        BY <3>2, <3>3, <3>4 DEF HasLast
    <2> QED
      BY <2>1, <2>2, Writers, ChainSteps
  <1>2. ASSUME NEW r \in Rounds PROVE HasLast(HandedTo(r))'
    <2>1. CASE UNCHANGED handoffs
      BY <2>1 DEF LastTold, HandedTo, HasLast
    <2>2. ASSUME NEW d \in Actions, PrepareDelivery(d) PROVE HasLast(HandedTo(r))'
      <3>1. handoffs' = Append(handoffs, [id |-> d, at |-> now])
        BY <2>2 DEF PrepareDelivery
      <3>2. PICK new \in Nat \ {0} :
               /\ DOMAIN handoffs = 1..(new - 1) /\ DOMAIN handoffs' = 1..new
               /\ \A k \in DOMAIN handoffs : handoffs'[k] = handoffs[k]
        BY <3>1, HandoffAdded
      <3>3. HandedTo(r)' = HandedTo(r) \/ HandedTo(r)' = HandedTo(r) \cup {new}
        BY <3>2 DEF HandedTo
      <3>4. HandedTo(r) \in SUBSET (1..(new - 1)) /\ HasLast(HandedTo(r))
        BY <3>2 DEF HandedTo, LastTold
      <3>5. HasLast(HandedTo(r) \cup {new})
        BY <3>4, HasLastGrows
      <3> QED
        BY <3>3, <3>4, <3>5 DEF HasLast
    <2> QED
      BY <2>1, <2>2, Writers
  <1> QED
    BY <1>1, <1>2 DEF LastTold

----
(* The tables of the ledger. *)

LEMMA SentFinite ==
    ASSUME HandoffsTold, NEW r
    PROVE  IsFiniteSet(Sent(r)) /\ Cardinality(Sent(r)) \in Nat
  <1> DEFINE all == {d \in Actions : \E i \in DOMAIN handoffs : handoffs[i].id = d}
  <1>1. Sent(r) \subseteq all
    BY DEF Sent, HandedOut
  <1>2. IsFiniteSet(all)
    BY DEF HandoffsTold
  <1>3. IsFiniteSet(Sent(r))
    BY <1>1, <1>2, FS_Subset
  <1> QED
    BY <1>3, FS_CardinalityType

\* The rows of results and reconciliations, and the threads.
LEMMA CallsTyped ==
    ASSUME TypeOK, CallsTold, [Next]_vars
    PROVE  /\ results' \in [Calls -> ResultRow \cup {None}]
           /\ recons' \in [Calls -> ResultRow \cup {None}]
           /\ thread' \in [Calls -> {"none", "queued", "over"} \cup Working]
  <1> USE DEF TypeOK
  <1>1. Today \in Days
    BY DaysTyped DEF SourcingTypeOK, Today
  <1>2. ASSUME NEW c \in Calls, NEW status \in Readings \cup {"not_called"}, Result(c, status)
        PROVE  results' \in [Calls -> ResultRow \cup {None}]
    <2>1. [status |-> status, day |-> Today] \in ResultRow
      BY <1>1 DEF ResultRow
    <2> QED
      BY <1>2, <2>1 DEF Result
  <1>3. ASSUME NEW c \in Calls, NEW status \in Readings \cup {"not_called"}, Recon(c, status)
        PROVE  recons' \in [Calls -> ResultRow \cup {None}]
    <2>1. [status |-> status, day |-> Today] \in ResultRow
      BY <1>1 DEF ResultRow
    <2> QED
      BY <1>3, <2>1 DEF Recon
  <1>4. CASE UNCHANGED <<results, recons, thread>>
    BY <1>4
  <1>5. CASE \E b \in Batches : OpenBatch(b)
    BY <1>5 DEF OpenBatch
  <1>6. ASSUME NEW c \in Calls, Step(c)
        PROVE  /\ results' \in [Calls -> ResultRow \cup {None}]
               /\ recons' \in [Calls -> ResultRow \cup {None}]
               /\ thread' \in [Calls -> {"none", "queued", "over"} \cup Working]
    <2>1. CASE Begin(c) \/ Dispatch(c) \/ Send(c) \/ Die(c)
      BY <2>1 DEF Begin, Dispatch, Send, Die, Working
    <2>2. CASE Finish(c)
      <3>1. \E status \in Readings : Result(c, status)
        BY <2>2 DEF Finish, ReadingsOf, Readings
      <3> QED
        BY <1>2, <2>2, <3>1 DEF Finish
    <2>3. CASE FinishUncalled(c)
      BY <1>2, <2>3 DEF FinishUncalled
    <2>4. CASE ReconcileUnknown(c)
      <3>1. \E status \in Readings : Recon(c, status)
        BY <2>4 DEF ReconcileUnknown, Resolutions, ReadingsOf, Readings
      <3> QED
        BY <1>3, <2>4, <3>1 DEF ReconcileUnknown
    <2>5. CASE Recover(c)
      <3>1. \E status \in Readings : Recon(c, status)
        BY <2>5 DEF Recover, Resolutions, ReadingsOf, Readings
      <3>2. "unknown" \in Readings
        BY DEF Readings
      <3> QED
        BY <1>2, <1>3, <2>5, <3>1, <3>2 DEF Recover
    <2>6. CASE CloseUncalled(c)
      BY <1>2, <1>3, <2>6 DEF CloseUncalled
    <2> QED
      BY <1>6, <2>1, <2>2, <2>3, <2>4, <2>5, <2>6 DEF Step
  <1>7. CASE \/ SourcingStep /\ UNCHANGED <<rounds, chain, closures, callVars, deliveryVars>>
             \/ \E r \in Rounds : StartRound(r) \/ CloseRound(r)
             \/ \E d \in Actions : PrepareDelivery(d) \/ RecordDelivery(d) \/ ReconcileDelivery(d)
             \/ UNCHANGED vars
    BY <1>4, <1>7 DEF StartRound, CloseRound, PrepareDelivery, RecordDelivery, ReconcileDelivery,
                      vars, callVars
  <1> QED
    BY <1>5, <1>6, <1>7 DEF Next

\* A thread belongs to an admitted call.
LEMMA ThreadsAdmitted ==
    ASSUME TypeOK, [Next]_vars
    PROVE  \A c \in Calls : thread'[c] # "none" => Admitted(c)'
  <1>1. ASSUME NEW c \in Calls PROVE Admitted(c) => Admitted(c)'
    BY Writers DEF OpenBatch, Admitted
  <1>2. CASE \E b \in Batches : OpenBatch(b)
    BY <1>2 DEF OpenBatch, TypeOK, Admitted
  <1>3. ASSUME NEW c \in Calls, Step(c)
        PROVE  /\ \A d \in Calls \ {c} : thread'[d] = thread[d]
               /\ thread'[c] = thread[c] \/ thread[c] # "none"
    BY <1>3 DEF Step, Begin, Dispatch, Send, Finish, FinishUncalled, Die, ReconcileUnknown, Recover,
                CloseUncalled, TypeOK, Working
  <1>4. CASE UNCHANGED thread
    BY <1>1, <1>4 DEF TypeOK
  <1>5. CASE \E c \in Calls : Step(c)
    BY <1>1, <1>3, <1>5 DEF TypeOK
  <1>6. CASE \/ SourcingStep /\ UNCHANGED <<rounds, chain, closures, callVars, deliveryVars>>
             \/ \E r \in Rounds : StartRound(r) \/ CloseRound(r)
             \/ \E d \in Actions : PrepareDelivery(d) \/ RecordDelivery(d) \/ ReconcileDelivery(d)
             \/ UNCHANGED vars
    BY <1>4, <1>6 DEF StartRound, CloseRound, PrepareDelivery, RecordDelivery, ReconcileDelivery,
                      vars, callVars
  <1> QED
    BY <1>2, <1>5, <1>6 DEF Next

LEMMA TypeStep ==
    ASSUME McpInvariant, [Next]_vars
    PROVE  TypeOK'
  <1> USE DEF McpInvariant
  <1>1. SourcingTypeOK'
    BY SourcingTyped
  <1>2. rounds' \in [Rounds -> RunRow \cup {None}]
    <2>1. [day |-> Today, revision |-> revision] \in RunRow
      BY DaysTyped DEF TypeOK, SourcingTypeOK, Today, RunRow
    <2>2. UNCHANGED rounds
              \/ \E r \in Rounds : rounds' = [rounds EXCEPT ![r] = [day |-> Today, revision |-> revision]]
      BY Writers DEF StartRound
    <2> QED
      BY <2>1, <2>2 DEF TypeOK
  <1>3. chain' \in Seq(Activations)
    <2>1. UNCHANGED chain \/ \E row \in Activations : chain' = Append(chain, row)
      BY Writers, ChainSteps DEF NewActivation
    <2>2. chain \in Seq(Activations)
      BY DEF TypeOK
    <2> QED
      BY ONLY <2>1, <2>2
  <1>4. closures' \in [Rounds -> Nat \cup {None}]
    BY Writers, SentFinite DEF CloseRound, TypeOK
  <1>5. batches' \subseteq Batches /\ dispatches' \subseteq Calls
    BY Writers DEF OpenBatch, Dispatch, TypeOK
  <1>6. handoffs' \in Seq([id : Actions, at : 0 .. MaxNow])
    <2>1. ASSUME NEW d \in Actions, PrepareDelivery(d)
          PROVE  handoffs' \in Seq([id : Actions, at : 0 .. MaxNow])
      <3>1. [id |-> d, at |-> now] \in [id : Actions, at : 0 .. MaxNow]
        BY DEF TypeOK, SourcingTypeOK
      <3> QED
        BY <2>1, <3>1 DEF PrepareDelivery, TypeOK
    <2> QED
      BY <2>1, Writers DEF TypeOK
  <1>7. /\ observations' \in [Actions -> Observation \cup {None}]
        /\ corrections' \in [Actions -> Observation \cup {None}]
    BY Writers DEF RecordDelivery, ReconcileDelivery, TypeOK
  <1> QED
    BY <1>1, <1>2, <1>3, <1>4, <1>5, <1>6, <1>7, CallsTyped, ThreadsAdmitted DEF TypeOK

----
(* Reads within their limits. *)

LEMMA OneMore ==
    ASSUME NEW S, NEW T, NEW a, IsFiniteSet(S), T = S \cup {a}, a \notin S, NEW n \in Nat,
           Cardinality(S) < n
    PROVE  IsFiniteSet(T) /\ Cardinality(T) <= n
  <1>1. IsFiniteSet(T) /\ Cardinality(T) = Cardinality(S) + 1
    BY FS_AddElement
  <1>2. Cardinality(S) \in Nat
    BY FS_CardinalityType
  <1> QED
    BY <1>1, <1>2

LEMMA ReadsStep ==
    ASSUME McpInvariant, [Next]_vars
    PROVE  ReadsTold' /\ ReadsSound'
  <1> USE DEF McpInvariant
  <1> DEFINE tried == {b \in Attempts : attempts[b] # None}
  <1>1. \A S \in SUBSET tried : IsFiniteSet(S)
    BY FS_Subset DEF ReadsTold
  <1>2. ASSUME UNCHANGED attempts PROVE ReadLimitsKept'
    <2>1. \A r, kinds : Made(r, kinds)' = Made(r, kinds)
      BY <1>2 DEF Made
    <2>2. \A day : ReadOn(day)' = ReadOn(day)
      BY <1>2 DEF ReadOn
    <2> QED
      BY <2>1, <2>2 DEF ReadsSound, ReadLimitsKept
  <1>3. CASE UNCHANGED <<attempts, outcomes, captured>>
    BY <1>2, <1>3 DEF ReadsSound, ReadsTold, CaptureAgrees
  <1>4. ASSUME NEW a \in Attempts, NEW r \in Runs, NEW kind \in Kinds, NewRead(a, r, kind)
        PROVE  ReadsTold' /\ ReadsSound'
    <2> DEFINE row == [run |-> r, kind |-> kind, day |-> Today]
    <2>1. row \in AttemptRow /\ row # None
      BY DaysTyped, SourcingNone DEF AttemptRow, TypeOK, SourcingTypeOK, Today
    <2>2. attempts' = [attempts EXCEPT ![a] = row] /\ attempts[a] = None /\ UNCHANGED <<outcomes, captured>>
      BY <1>4 DEF NewRead, Attempted
    <2>3. /\ attempts'[a] = row /\ attempts'[a] # None
          /\ \A b \in Attempts \ {a} : attempts'[b] = attempts[b]
      BY <2>1, <2>2 DEF TypeOK, SourcingTypeOK
    <2>4. row.run = r /\ row.kind = kind /\ row.day = Today
      OBVIOUS
    <2> HIDE DEF row
    <2>5. ReadsTold'
      <3>1. {b \in Attempts : attempts'[b] # None} = tried \cup {a}
        BY <2>3
      <3>2. IsFiniteSet(tried \cup {a})
        BY <1>1, FS_AddElement
      <3> QED
        BY <2>2, <2>3, <3>1, <3>2 DEF ReadsTold
    <2>6. CaptureAgrees'
      BY <2>2, <2>3 DEF CaptureAgrees, ReadsSound, ReadsTold
    <2>7. ASSUME NEW q \in Runs, NEW kinds, NEW n \in Nat, Cardinality(Made(q, kinds)) <= n,
                 q = r /\ kind \in kinds => Cardinality(Made(q, kinds)) < n
          PROVE  Cardinality(Made(q, kinds)') <= n
      <3>1. IsFiniteSet(Made(q, kinds))
        BY <1>1 DEF Made
      <3>2. CASE q = r /\ kind \in kinds
        <4>1. Made(q, kinds)' = Made(q, kinds) \cup {a} /\ a \notin Made(q, kinds)
          BY <2>2, <2>3, <2>4, <3>2 DEF Made
        <4> QED
          BY <2>7, <3>1, <3>2, <4>1, OneMore
      <3>3. CASE ~(q = r /\ kind \in kinds)
        <4>1. Made(q, kinds)' = Made(q, kinds)
          BY <2>2, <2>3, <2>4, <3>3 DEF Made
        <4> QED
          BY <2>7, <4>1
      <3> QED
        BY <3>2, <3>3
    <2>8. ASSUME NEW day \in Days PROVE Cardinality(ReadOn(day)') <= DailyLimit
      <3>1. IsFiniteSet(ReadOn(day))
        BY <1>1 DEF ReadOn
      <3>2. CASE day = Today /\ kind \in Details
        <4>1. ReadOn(day)' = ReadOn(day) \cup {a} /\ a \notin ReadOn(day)
          BY <2>2, <2>3, <2>4, <3>2 DEF ReadOn
        <4>2. Cardinality(ReadOn(day)) < DailyLimit
          BY <1>4, <3>2 DEF NewRead, Permitted, DetailsLeft
        <4> QED
          BY <3>1, <4>1, <4>2, OneMore, SourcingSorts
      <3>3. CASE ~(day = Today /\ kind \in Details)
        <4>1. ReadOn(day)' = ReadOn(day)
          BY <2>2, <2>3, <2>4, <3>3 DEF ReadOn
        <4> QED
          BY <4>1 DEF ReadsSound, ReadLimitsKept
      <3> QED
        BY <3>2, <3>3
    <2>9. ASSUME NEW q \in Runs
          PROVE  /\ Cardinality(Made(q, {"query"})') <= QueryLimit
                 /\ Cardinality(Made(q, Details)') <= DetailLimit
      <3>1. kind \in {"query"} => Cardinality(Made(r, {"query"})) < QueryLimit
        BY <1>4 DEF NewRead, Permitted
      <3>2. Cardinality(Made(r, Details)) < DetailLimit
        BY <1>4 DEF NewRead, Permitted, DetailsLeft
      <3>3. Cardinality(Made(q, {"query"})) <= QueryLimit /\ Cardinality(Made(q, Details)) <= DetailLimit
        BY DEF ReadsSound, ReadLimitsKept
      <3> QED
        BY <2>7, <3>1, <3>2, <3>3, SourcingSorts
    <2>10. ReadLimitsKept'
      BY <2>8, <2>9 DEF ReadLimitsKept, Days
    <2> QED
      BY <2>5, <2>6, <2>10 DEF ReadsSound
  <1>5. ASSUME NEW a \in Attempts, NEW status \in Outcomes, NewOutcome(a, status)
        PROVE  ReadsTold' /\ ReadsSound'
    <2>1. /\ outcomes' = [outcomes EXCEPT ![a] = [status |-> status, day |-> Today]]
          /\ UNCHANGED <<attempts, captured>>
      BY <1>5 DEF NewOutcome, Decided
    <2>2. /\ outcomes'[a] # None /\ outcomes'[a].status = status
          /\ \A b \in Attempts \ {a} : outcomes'[b] = outcomes[b]
      <3>1. [status |-> status, day |-> Today] \in OutcomeRow
        BY DaysTyped DEF OutcomeRow, TypeOK, SourcingTypeOK, Today
      <3> QED
        BY <2>1, <3>1, SourcingNone DEF TypeOK, SourcingTypeOK
    <2>3. ReadsTold'
      BY <1>5, <2>1, <2>2 DEF ReadsTold, NewOutcome
    <2>4. CaptureAgrees'
      BY <1>5, <2>1, <2>2 DEF ReadsSound, CaptureAgrees, NewOutcome
    <2> QED
      BY <1>2, <2>1, <2>3, <2>4 DEF ReadsSound
  <1>6. ASSUME NEW a \in Attempts, NewCapture(a)
        PROVE  ReadsTold' /\ ReadsSound'
    <2>1. /\ UNCHANGED attempts /\ captured' = captured \cup {a}
          /\ attempts[a] # None /\ attempts[a].kind = "query"
      BY <1>6 DEF NewCapture, TakeIn
    <2>2. /\ outcomes'[a] # None /\ outcomes'[a].status = "complete"
          /\ \A b \in Attempts \ {a} : outcomes'[b] = outcomes[b]
      <3>1. [status |-> "complete", day |-> Today] \in OutcomeRow
        BY DaysTyped DEF OutcomeRow, Outcomes, TypeOK, SourcingTypeOK, Today
      <3> QED
        BY <1>6, <3>1, SourcingNone DEF NewCapture, TakeIn, Decided, TypeOK, SourcingTypeOK
    <2>3. ReadsTold'
      BY <2>1, <2>2 DEF ReadsTold
    <2>4. CaptureAgrees'
      BY <2>1, <2>2 DEF ReadsSound, CaptureAgrees
    <2> QED
      BY <1>2, <2>1, <2>3, <2>4 DEF ReadsSound
  <1> QED
    BY <1>3, <1>4, <1>5, <1>6, ReadSteps

----
(* What is on record stands. *)

\* The steps that write the receipts of calls.
LEMMA CallSteps ==
    ASSUME [Next]_vars
    PROVE  \/ UNCHANGED callVars
           \/ \E b \in Batches : OpenBatch(b)
           \/ \E c \in Calls : Step(c)
  <1>1. CASE SourcingStep /\ UNCHANGED <<rounds, chain, closures, callVars, deliveryVars>>
    BY <1>1
  <1>2. CASE \E r \in Rounds : StartRound(r) \/ CloseRound(r)
    BY <1>2 DEF StartRound, CloseRound
  <1>3. CASE \E d \in Actions : PrepareDelivery(d) \/ RecordDelivery(d) \/ ReconcileDelivery(d)
    BY <1>3 DEF PrepareDelivery, RecordDelivery, ReconcileDelivery
  <1>4. CASE UNCHANGED vars
    BY <1>4 DEF vars
  <1> QED
    BY <1>1, <1>2, <1>3, <1>4 DEF Next

\* A step of one call writes nothing of another.
LEMMA OwnRows ==
    ASSUME TypeOK, NEW c \in Calls, Step(c), NEW d \in Calls, d # c
    PROVE  /\ thread'[d] = thread[d] /\ results'[d] = results[d] /\ recons'[d] = recons[d]
           /\ attempts'[d] = attempts[d]
           /\ d \in dispatches' <=> d \in dispatches
  <1> USE McpSorts DEF TypeOK, SourcingTypeOK, sourcingVars, readVars
  <1>1. CASE Begin(c) \/ Send(c) \/ Die(c) \/ FinishUncalled(c) \/ CloseUncalled(c)
    BY <1>1 DEF Begin, Send, Die, FinishUncalled, CloseUncalled, Result, Recon
  <1>2. CASE Dispatch(c)
    BY <1>2 DEF Dispatch, Attempted
  <1>3. CASE Finish(c)
    BY <1>3 DEF Finish, Result
  <1>4. CASE ReconcileUnknown(c) \/ Recover(c)
    BY <1>4 DEF ReconcileUnknown, Recover, Result, Recon
  <1> QED
    BY <1>1, <1>2, <1>3, <1>4 DEF Step

\* The attempt of a call is made by its dispatch.
LEMMA CallAttempt ==
    ASSUME TypeOK, NEW c \in Calls, [Next]_vars, ~Dispatch(c)
    PROVE  attempts'[c] = attempts[c]
  <1> USE McpSorts DEF TypeOK, SourcingTypeOK, sourcingVars, readVars
  <1>1. ASSUME NEW a \in Attempts \ Calls, NEW r \in Runs, Reserve(a, r) \/ ReserveRead(a, r)
        PROVE  attempts'[c] = attempts[c]
    BY <1>1 DEF Reserve, ReserveRead, Attempted
  <1>2. CASE SourcingStep
    BY <1>1, <1>2 DEF SourcingStep, StartRun, Complete, RecordRead, Claim, Take, ChangeRules, Tick
  <1>3. CASE Step(c)
    BY <1>3 DEF Step, Begin, Send, Finish, FinishUncalled, Die, ReconcileUnknown, Recover, CloseUncalled
  <1>4. CASE \E d \in Calls : Step(d)
    BY <1>3, <1>4, OwnRows
  <1>5. CASE ~SourcingStep /\ ~\E d \in Calls : Step(d)
    BY <1>5 DEF Next, StartRound, CloseRound, OpenBatch, PrepareDelivery, RecordDelivery,
                ReconcileDelivery, vars
  <1> QED
    BY <1>2, <1>4, <1>5

\* A claim, a round, a closure and a batch are never taken back.
LEMMA RoundsStand ==
    ASSUME TypeOK, [Next]_vars
    PROVE  /\ claims \subseteq claims' /\ batches \subseteq batches' /\ dispatches \subseteq dispatches'
           /\ \A r \in Rounds : rounds[r] # None => rounds'[r] = rounds[r]
           /\ \A r \in Rounds : closures[r] # None => closures'[r] = closures[r]
  <1> USE DEF TypeOK, SourcingTypeOK
  <1>1. claims \subseteq claims'
    BY Writers DEF Claim, Dispatch, Claimed
  <1>2. batches \subseteq batches' /\ dispatches \subseteq dispatches'
    BY Writers DEF OpenBatch, Dispatch
  <1>3. \A r \in Rounds : rounds[r] # None => rounds'[r] = rounds[r]
    BY Writers DEF StartRound
  <1>4. \A r \in Rounds : closures[r] # None => closures'[r] = closures[r]
    BY Writers DEF CloseRound, Closed
  <1> QED
    BY <1>1, <1>2, <1>3, <1>4

\* An observation stands, and so does its correction.
LEMMA ObservationsStand ==
    ASSUME TypeOK, [Next]_vars, NEW d \in Actions
    PROVE  /\ observations'[d] = observations[d] \/ (observations[d] = None /\ RecordDelivery(d))
           /\ corrections'[d] = corrections[d] \/ (corrections[d] = None /\ ReconcileDelivery(d))
  <1>1. ASSUME NEW e \in Actions, RecordDelivery(e), e # d PROVE observations'[d] = observations[d]
    BY <1>1 DEF RecordDelivery, TypeOK
  <1>2. ASSUME NEW e \in Actions, ReconcileDelivery(e), e # d PROVE corrections'[d] = corrections[d]
    BY <1>2 DEF ReconcileDelivery, TypeOK
  <1>3. RecordDelivery(d) => observations[d] = None
    BY DEF RecordDelivery
  <1>4. ReconcileDelivery(d) => corrections[d] = None
    BY DEF ReconcileDelivery
  <1> QED
    BY <1>1, <1>2, <1>3, <1>4, Writers

\* A result stands, and so does the receipt of a call that is resolved.
LEMMA ReceiptsStand ==
    ASSUME TypeOK, CallsTold, [Next]_vars, NEW c \in Calls
    PROVE  /\ results[c] # None => results'[c] = results[c]
           /\ recons[c] # None => recons'[c] = recons[c]
           /\ Resolved(c) => Receipt(c)' = Receipt(c)
  <1>1. recons[c] # None => results[c] # None
    BY DEF CallsTold, CallTold
  <1>2. CASE results'[c] = results[c] /\ recons'[c] = recons[c]
    BY <1>2 DEF Resolved, Receipt
  <1>3. CASE Begin(c) \/ Dispatch(c) \/ Send(c) \/ Die(c)
    BY <1>2, <1>3 DEF Begin, Dispatch, Send, Die
  <1>4. CASE Finish(c) \/ FinishUncalled(c) \/ Recover(c) \/ CloseUncalled(c)
    <2>1. results[c] = None
      BY <1>4 DEF Finish, FinishUncalled, Recover, CloseUncalled
    <2> QED
      BY <1>1, <2>1 DEF Resolved, Receipt
  <1>5. CASE ReconcileUnknown(c)
    BY <1>5 DEF ReconcileUnknown, Resolved, Receipt
  <1>6. CASE \E d \in Calls : Step(d)
    <2>1. CASE Step(c)
      BY <1>3, <1>4, <1>5, <2>1 DEF Step
    <2>2. CASE ~Step(c)
      BY <1>2, <1>6, <2>2, OwnRows
    <2> QED
      BY <2>1, <2>2
  <1>7. CASE UNCHANGED callVars \/ \E b \in Batches : OpenBatch(b)
    BY <1>2, <1>7 DEF callVars, OpenBatch
  <1> QED
    BY <1>6, <1>7, CallSteps

----
(* Calls and their attempts. *)

\* What does not touch a call leaves it as it was told.
LEMMA CallKept ==
    ASSUME TypeOK, [Next]_vars, NEW c \in Calls, CallTold(c), halts \subseteq halts',
           thread'[c] = thread[c], results'[c] = results[c], recons'[c] = recons[c],
           attempts'[c] = attempts[c], c \in dispatches' <=> c \in dispatches
    PROVE  CallTold(c)'
  <1>1. Admitted(c) => Admitted(c)'
    BY RoundsStand DEF Admitted
  <1>2. rounds[RoundOf[c]] # None => rounds'[RoundOf[c]] = rounds[RoundOf[c]]
    BY RoundsStand, McpSorts
  <1>3. c \in claims => c \in claims'
    BY RoundsStand
  <1>4. Out(c)' <=> Out(c)
    BY DEF Out
  <1>5. Out(c) /\ results[c] # None => rounds[RoundOf[c]] # None
    BY DEF CallTold
  <1> QED
    BY <1>1, <1>2, <1>3, <1>4, <1>5 DEF CallTold

\* A dispatch is made in the day of the round.
LEMMA Dispatching ==
    ASSUME TypeOK, NEW c \in Calls, Dispatch(c)
    PROVE  /\ attempts'[c] # None /\ attempts'[c].day = rounds[RoundOf[c]].day
           /\ attempts'[c].kind = OpOf[c] /\ (OpOf[c] = "query" => c \in claims')
           /\ c \in dispatches' /\ c \notin dispatches /\ rounds[RoundOf[c]] # None
           /\ rounds[RoundOf[c]].day = Today /\ Today \notin halts
           /\ thread[c] = "starting" /\ thread'[c] = "marked" /\ Admitted(c)
           /\ UNCHANGED <<rounds, batches, results, recons>>
  <1> DEFINE row == [run |-> SourcingOf[RoundOf[c]], kind |-> OpOf[c], day |-> Today]
  <1>1. attempts' = [attempts EXCEPT ![c] = row] /\ c \in Attempts
    BY McpSorts DEF Dispatch, Attempted
  <1>2. row \in AttemptRow
    BY McpSorts, DaysTyped DEF AttemptRow, Kinds, Details, TypeOK, SourcingTypeOK, Today
  <1>3. attempts'[c] = row /\ row # None
    BY <1>1, <1>2, SourcingNone DEF TypeOK, SourcingTypeOK
  <1>4. /\ rounds[RoundOf[c]] # None /\ rounds[RoundOf[c]].day = Today /\ Today \notin halts
        /\ c \notin dispatches
    BY DEF Dispatch, MayDispatch, Open
  <1> QED
    BY <1>3, <1>4 DEF Dispatch, Claimed, TypeOK

LEMMA CallsStep ==
    ASSUME McpInvariant, [Next]_vars
    PROVE  CallsTold'
  <1> USE DEF McpInvariant
  <1>1. IsFiniteSet(dispatches)'
    <2>1. UNCHANGED dispatches \/ \E c \in Calls : dispatches' = dispatches \cup {c}
      BY Writers DEF Dispatch
    <2> QED
      BY <2>1, FS_AddElement DEF CallsTold
  <1>2. halts \subseteq halts'
    BY HaltsStep
  <1>3. ASSUME NEW c \in Calls PROVE CallTold(c)'
    <2>1. CallTold(c)
      BY DEF CallsTold
    <2>2. CASE UNCHANGED callVars
      <3>1. ~Dispatch(c)
        BY <2>2, Dispatching DEF callVars
      <3> QED
        BY <1>2, <2>1, <2>2, <3>1, CallAttempt, CallKept DEF callVars
    <2>3. ASSUME NEW b \in Batches, OpenBatch(b) PROVE CallTold(c)'
      <3>1. /\ UNCHANGED <<sourcingVars, dispatches, results, recons, attempts, rounds, claims>> /\ b \notin batches
            /\ batches \subseteq batches'
            /\ thread'[c] = IF BatchOf[c] = b THEN "queued" ELSE thread[c]
        BY <2>3 DEF OpenBatch, sourcingVars, readVars
      <3>2. CASE BatchOf[c] # b
        BY <1>2, <2>1, <3>1, <3>2, CallKept
      <3>3. CASE BatchOf[c] = b
        <4>1. c \notin dispatches
          BY <2>1, <3>1, <3>3 DEF CallTold, Admitted
        <4>2. thread'[c] = "queued"
          BY <3>1, <3>3
        <4> QED
          BY <2>1, <3>1, <4>1, <4>2 DEF CallTold, Out
      <3> QED
        BY <3>2, <3>3
    <2>4. ASSUME NEW d \in Calls, Step(d), d # c PROVE CallTold(c)'
      BY <1>2, <2>1, <2>4, OwnRows, CallKept
    <2>5. CASE Begin(c) \/ Send(c) \/ Die(c) \/ FinishUncalled(c)
      <3>1. /\ UNCHANGED <<dispatches, batches, attempts, rounds, claims, recons, halts>>
            /\ \/ thread[c] = "queued" /\ thread'[c] = "starting"
               \/ thread[c] = "marked" /\ thread'[c] = "sent"
               \/ thread'[c] = "over"
            /\ \/ results'[c] = results[c]
               \/ results'[c] # None /\ results'[c].status = "not_called" /\ thread'[c] = "over"
        <4>1. CASE Begin(c) \/ Send(c) \/ Die(c)
          <5>1. /\ UNCHANGED <<dispatches, batches, attempts, rounds, claims, recons, halts, results>>
                /\ thread \in [Calls -> {"none", "queued", "over"} \cup Working]
            BY <4>1 DEF Begin, Send, Die, TypeOK, sourcingVars, readVars
          <5> QED
            BY <4>1, <5>1 DEF Begin, Send, Die
        <4>2. CASE FinishUncalled(c)
          <5>1. [status |-> "not_called", day |-> Today] # None
            BY McpNone, DaysTyped DEF ResultRow, TypeOK, SourcingTypeOK, Today
          <5> QED
            BY <4>2, <5>1 DEF FinishUncalled, Result, TypeOK, sourcingVars, readVars
        <4> QED
          BY <2>5, <4>1, <4>2
      <3>2. "not_called" \notin Stops
        BY DEF Stops
      <3> QED
        BY <2>1, <3>1, <3>2 DEF CallTold, Out, Admitted
    <2>6. CASE Dispatch(c)
      <3>1. results[c] = None
        BY <2>6 DEF Dispatch, MayDispatch
      <3> QED
        BY <2>1, <2>6, <3>1, Dispatching DEF CallTold, Out, Admitted
    <2>7. CASE Finish(c)
      <3>1. c \in dispatches /\ UNCHANGED <<dispatches, batches, attempts, rounds, claims, recons>>
        BY <2>1, <2>7 DEF CallTold, Out, Finish
      <3>2. thread'[c] = "over" /\ recons[c] = None
        BY <2>1, <2>7 DEF Finish, CallTold, TypeOK
      <3> QED
        BY <2>1, <3>1, <3>2 DEF CallTold, Out, Admitted
    <2>8. CASE ReconcileUnknown(c)
      <3>1. /\ UNCHANGED <<dispatches, batches, attempts, rounds, claims, results, thread>>
            /\ results[c] # None
        BY <2>8 DEF ReconcileUnknown
      <3>2. recons'[c].status # "unknown"
        BY <2>8 DEF ReconcileUnknown, Recon, Resolutions, TypeOK
      <3> QED
        BY <1>2, <2>1, <3>1, <3>2 DEF CallTold, Out, Admitted
    <2>9. CASE Recover(c)
      <3>1. c \in dispatches /\ UNCHANGED <<dispatches, batches, attempts, rounds, claims, thread>>
        BY <2>9 DEF Recover
      <3>2. results'[c] # None /\ recons'[c].status # "unknown"
        <4>1. [status |-> "unknown", day |-> Today] \in ResultRow
          BY DaysTyped DEF ResultRow, Readings, TypeOK, SourcingTypeOK, Today
        <4>2. None \notin ResultRow
          BY McpNone
        <4> QED
          BY <2>9, <4>1, <4>2 DEF Recover, Result, Recon, Resolutions, TypeOK
      <3>3. attempts[c].day \in halts'
        BY <2>9 DEF Recover, Stopped, Stops
      <3> QED
        BY <2>1, <3>1, <3>2, <3>3 DEF CallTold, Out, Admitted
    <2>10. CASE CloseUncalled(c)
      <3>1. c \notin dispatches /\ UNCHANGED <<dispatches, batches, attempts, rounds, claims, thread>>
        BY <2>10 DEF CloseUncalled, sourcingVars, readVars
      <3>2. /\ results'[c] # None /\ results'[c].status = "not_called"
            /\ recons'[c].status = "not_called"
        <4>1. [status |-> "not_called", day |-> Today] # None
          BY McpNone, DaysTyped DEF ResultRow, TypeOK, SourcingTypeOK, Today
        <4> QED
          BY <2>10, <4>1 DEF CloseUncalled, Result, Recon, TypeOK
      <3> QED
        BY <2>1, <3>1, <3>2 DEF CallTold, Out, Admitted, Stops
    <2>11. CASE Step(c)
      BY <2>5, <2>6, <2>7, <2>8, <2>9, <2>10, <2>11 DEF Step
    <2> QED
      BY <2>2, <2>3, <2>4, <2>11, CallSteps
  <1> QED
    BY <1>1, <1>3 DEF CallsTold

----
(* Asked at most once. *)

\* The source is asked by a claim that is made, or by the thread of a call.
LEMMA Asking ==
    ASSUME [Next]_vars
    PROVE  \/ UNCHANGED asked
           \/ \E a \in Attempts : Claim(a) /\ UNCHANGED thread
           \/ \E c \in Calls : Send(c)
  <1> USE DEF sourcingVars, readVars
  <1>1. CASE SourcingStep /\ UNCHANGED <<rounds, chain, closures, callVars, deliveryVars>>
    BY <1>1 DEF SourcingStep, StartRun, Reserve, ReserveRead, Complete, RecordRead, Take,
                ChangeRules, Tick, callVars
  <1>2. CASE \E c \in Calls : Step(c)
    BY <1>2 DEF Step, Begin, Dispatch, Finish, FinishUncalled, Die, ReconcileUnknown, Recover, CloseUncalled
  <1>3. CASE \/ \E r \in Rounds : StartRound(r) \/ CloseRound(r)
             \/ \E b \in Batches : OpenBatch(b)
             \/ \E d \in Actions : PrepareDelivery(d) \/ RecordDelivery(d) \/ ReconcileDelivery(d)
             \/ UNCHANGED vars
    BY <1>3 DEF StartRound, CloseRound, OpenBatch, PrepareDelivery, RecordDelivery,
                ReconcileDelivery, vars
  <1> QED
    BY <1>1, <1>2, <1>3 DEF Next

\* A thread that asked stays so, or is over.
LEMMA ThreadsOn ==
    ASSUME TypeOK, [Next]_vars, NEW c \in Calls, thread'[c] \notin {"sent", "over"}
    PROVE  thread[c] \notin {"sent", "over"}
  <1>1. CASE UNCHANGED callVars
    BY <1>1 DEF callVars
  <1>2. CASE \E b \in Batches : OpenBatch(b)
    BY <1>2 DEF OpenBatch, TypeOK, Admitted
  <1>3. CASE Step(c)
    BY <1>3 DEF Step, Begin, Dispatch, Send, Finish, FinishUncalled, Die, ReconcileUnknown, Recover,
                CloseUncalled, TypeOK
  <1>4. ASSUME NEW d \in Calls, Step(d), d # c PROVE thread[c] \notin {"sent", "over"}
    BY <1>4, OwnRows
  <1> QED
    BY <1>1, <1>2, <1>3, <1>4, CallSteps

\* The query of a call is claimed by its dispatch, so nobody else runs it.
LEMMA ClaimedElsewhere ==
    ASSUME TypeOK, CallsTold, NEW a \in Attempts, Claim(a)
    PROVE  a \notin Calls
  <1>1. ASSUME a \in Calls PROVE FALSE
    <2>1. a \in dispatches /\ attempts[a].kind = "query"
      BY <1>1 DEF Claim, CallsTold, CallTold
    <2> QED
      BY <1>1, <2>1 DEF Claim, CallsTold, CallTold
  <1> QED
    BY <1>1

LEMMA AskedStep ==
    ASSUME McpInvariant, [Next]_vars
    PROVE  AskedBy' /\ AskedOnce'
  <1> USE DEF McpInvariant
  <1>1. AskedBy /\ AskedOnce /\ asked \in [Attempts -> Nat] /\ claims \subseteq claims'
    BY RoundsStand DEF CallsSound, TypeOK, SourcingTypeOK
  <1>2. \A c \in Calls : c \in Attempts
    BY McpSorts
  <1>3. CASE UNCHANGED asked
    <2>1. AskedBy'
      BY <1>1, <1>3, ThreadsOn DEF AskedBy
    <2> QED
      BY <1>1, <1>3, <2>1 DEF AskedOnce
  <1>4. ASSUME NEW a \in Attempts, Claim(a), UNCHANGED thread PROVE AskedBy' /\ AskedOnce'
    <2>1. a \notin Calls /\ asked[a] = 0 /\ a \in claims'
      BY <1>1, <1>4, ClaimedElsewhere DEF AskedBy, Claim
    <2>2. asked'[a] = 1 /\ \A b \in Attempts \ {a} : asked'[b] = asked[b]
      BY <1>1, <1>4, <2>1 DEF Claim, Asked
    <2>3. AskedBy'
      BY <1>1, <1>2, <1>4, <2>1, <2>2 DEF AskedBy
    <2> QED
      BY <1>1, <2>2, <2>3 DEF AskedOnce
  <1>5. ASSUME NEW c \in Calls, Send(c) PROVE AskedBy' /\ AskedOnce'
    <2>1. asked[c] = 0 /\ thread'[c] = "sent" /\ UNCHANGED claims
      BY <1>1, <1>5 DEF AskedBy, Send, TypeOK
    <2>2. asked'[c] = 1 /\ \A b \in Attempts \ {c} : asked'[b] = asked[b]
      BY <1>1, <1>2, <1>5, <2>1 DEF Send, Asked
    <2>3. \A a \in Attempts \ Calls : a \notin claims' => asked'[a] = 0
      BY <1>1, <2>1, <2>2 DEF AskedBy
    <2>4. \A d \in Calls : thread'[d] \notin {"sent", "over"} => asked'[d] = 0
      BY <1>1, <1>2, <2>1, <2>2, ThreadsOn DEF AskedBy
    <2>5. AskedBy'
      BY <2>3, <2>4 DEF AskedBy
    <2> QED
      BY <1>1, <2>2, <2>5 DEF AskedOnce
  <1> QED
    BY <1>3, <1>4, <1>5, Asking

----
(* Not called, and out. *)

\* What is out was dispatched at this step, or was out.
LEMMA OutStep ==
    ASSUME TypeOK, [Next]_vars, NEW c \in Calls, Out(c)'
    PROVE  Out(c) \/ Dispatch(c)
  <1> USE DEF Out
  <1>1. CASE UNCHANGED callVars
    BY <1>1 DEF callVars
  <1>2. CASE \E b \in Batches : OpenBatch(b)
    BY <1>2 DEF OpenBatch, TypeOK
  <1>3. CASE Step(c)
    BY <1>3 DEF Step, Begin, Send, Finish, FinishUncalled, Die, ReconcileUnknown, Recover,
                CloseUncalled, TypeOK
  <1>4. ASSUME NEW d \in Calls, Step(d), d # c PROVE Out(c)
    BY <1>4, OwnRows
  <1> QED
    BY <1>1, <1>2, <1>3, <1>4, CallSteps

\* A result "not called" is of a call that was not dispatched.
LEMMA NotCalledStep ==
    ASSUME McpInvariant, [Next]_vars
    PROVE  NotCalledNeverSent'
  <1> USE DEF McpInvariant
  <1> SUFFICES ASSUME NEW c \in Calls, results'[c] # None, results'[c].status = "not_called"
               PROVE  c \notin dispatches' /\ ~Out(c)'
    BY DEF NotCalledNeverSent, Out
  <1>1. /\ CallTold(c) /\ CallTold(c)'
        /\ results[c] # None /\ results[c].status = "not_called" => c \notin dispatches
    BY CallsStep DEF CallsTold, CallsSound, NotCalledNeverSent
  <1>2. CASE results[c] # None
    <2>1. results'[c] = results[c] /\ c \notin dispatches
      BY <1>1, <1>2, ReceiptsStand
    <2>2. ~Dispatch(c)
      BY <1>2 DEF Dispatch, MayDispatch
    <2>3. c \notin dispatches'
      BY <1>1, <2>1, <2>2, CallAttempt DEF CallTold
    <2> QED
      BY <1>1, <2>3 DEF CallTold
  <1>3. CASE results[c] = None
    <2>1. FinishUncalled(c) \/ CloseUncalled(c)
      <3>1. CASE Step(c)
        <4>1. CASE Finish(c)
          <5>1. PICK status \in Readings : Result(c, status)
            BY <4>1 DEF Finish, ReadingsOf, Readings
          <5>2. results'[c].status \in Readings
            BY <5>1 DEF Result, TypeOK
          <5> QED
            BY <5>2 DEF Readings
        <4>2. CASE Recover(c)
          BY <4>2 DEF Recover, Result, TypeOK
        <4>3. CASE Begin(c) \/ Dispatch(c) \/ Send(c) \/ Die(c) \/ ReconcileUnknown(c)
          BY <1>3, <4>3 DEF Begin, Dispatch, Send, Die, ReconcileUnknown
        <4> QED
          BY <3>1, <4>1, <4>2, <4>3 DEF Step
      <3>2. ASSUME NEW d \in Calls, Step(d), d # c PROVE FALSE
        BY <1>3, <3>2, OwnRows
      <3>3. CASE UNCHANGED callVars \/ \E b \in Batches : OpenBatch(b)
        BY <1>3, <3>3 DEF callVars, OpenBatch
      <3> QED
        BY <3>1, <3>2, <3>3, CallSteps
    <2>2. c \notin dispatches
      BY <1>1, <2>1 DEF CallTold, FinishUncalled, CloseUncalled
    <2>3. UNCHANGED dispatches
      BY <2>1 DEF FinishUncalled, CloseUncalled
    <2> QED
      BY <1>1, <2>2, <2>3 DEF CallTold
  <1> QED
    BY <1>2, <1>3

LEMMA BatchesStep ==
    ASSUME McpInvariant, [Next]_vars
    PROVE  BatchesInTurn'
  <1> USE DEF McpInvariant
  <1> SUFFICES ASSUME NEW c \in Calls, NEW d \in Calls, Admitted(c)', Admitted(d)',
                      RoundOf[c] = RoundOf[d], BatchOf[c] # BatchOf[d]
               PROVE  Resolved(c)' \/ Resolved(d)'
    BY DEF BatchesInTurn
  <1>1. \A e \in Calls : Resolved(e) => Resolved(e)'
    BY ReceiptsStand DEF Resolved
  <1>2. CASE UNCHANGED batches
    BY <1>1, <1>2 DEF BatchesInTurn, Admitted
  <1>3. ASSUME NEW b \in Batches, OpenBatch(b) PROVE Resolved(c) \/ Resolved(d)
    <2>1. batches' = batches \cup {b}
      BY <1>3 DEF OpenBatch
    <2>2. \A e, f \in Calls : BatchOf[e] = b /\ RoundOf[f] = RoundOf[e] /\ Admitted(f) => Resolved(f)
      BY <1>3 DEF OpenBatch, Unresolved
    <2> QED
      BY <2>1, <2>2 DEF Admitted, BatchesInTurn
  <1> QED
    BY <1>1, <1>2, <1>3, Writers

\* The calls of a round that are out.
UpstreamOf(r) == {c \in Calls : RoundOf[c] = r /\ thread[c] \in {"marked", "sent"}}

LEMMA UpstreamStep ==
    ASSUME McpInvariant, [Next]_vars
    PROVE  UpstreamBounded'
  <1> USE DEF McpInvariant
  <1> SUFFICES ASSUME NEW r \in Rounds
               PROVE  /\ Cardinality(UpstreamOf(r)') <= MaxParallel
                      /\ \A c, d \in UpstreamOf(r)' : BatchOf[c] = BatchOf[d]
    BY DEF UpstreamBounded, UpstreamOf
  <1>1. /\ Cardinality(UpstreamOf(r)) <= MaxParallel
        /\ \A c, d \in UpstreamOf(r) : BatchOf[c] = BatchOf[d]
    BY DEF UpstreamBounded, UpstreamOf, CallsSound
  <1>2. UpstreamOf(r) \subseteq dispatches /\ IsFiniteSet(UpstreamOf(r))
    <2>1. UpstreamOf(r) \subseteq dispatches
      BY DEF UpstreamOf, CallsTold, CallTold, Out
    <2> QED
      BY <2>1, FS_Subset DEF CallsTold
  <1>3. CASE UpstreamOf(r)' \subseteq UpstreamOf(r)
    <2>1. Cardinality(UpstreamOf(r)') <= Cardinality(UpstreamOf(r))
      BY <1>2, <1>3, FS_Subset
    <2>2. Cardinality(UpstreamOf(r)') \in Nat /\ Cardinality(UpstreamOf(r)) \in Nat
      BY <1>2, <1>3, FS_Subset, FS_CardinalityType
    <2> QED
      BY <1>1, <1>3, <2>1, <2>2, McpSorts
  <1>4. ASSUME NEW c \in Calls, Dispatch(c), RoundOf[c] = r
        PROVE  /\ Cardinality(UpstreamOf(r)') <= MaxParallel
               /\ \A d, e \in UpstreamOf(r)' : BatchOf[d] = BatchOf[e]
    <2>1. UpstreamOf(r)' = UpstreamOf(r) \cup {c} /\ c \notin UpstreamOf(r)
      <3>1. /\ thread[c] = "starting" /\ thread'[c] = "marked"
            /\ \A d \in Calls \ {c} : thread'[d] = thread[d]
        BY <1>4 DEF Dispatch, TypeOK
      <3> QED
        BY <1>4, <3>1 DEF UpstreamOf
    <2>2. ASSUME NEW d \in UpstreamOf(r) PROVE d \in Dispatched(r) /\ results[d] = None /\ recons[d] = None
      <3>1. d \in Calls /\ d \in dispatches /\ CallTold(d) /\ Out(d) /\ RoundOf[d] = r
        BY <1>2 DEF UpstreamOf, CallsTold, Out
      <3>2. rounds[r].day \notin halts
        BY <1>4, Dispatching
      <3> QED
        BY <3>1, <3>2 DEF CallTold, Dispatched
    <2> DEFINE waiting == {d \in Dispatched(r) : results[d] = None}
    <2>3. IsFiniteSet(waiting) /\ Cardinality(waiting) < MaxParallel
      <3>1. waiting \subseteq dispatches
        BY DEF Dispatched
      <3>2. Cardinality(waiting) < MaxParallel
        BY <1>4 DEF Dispatch, MayDispatch
      <3> QED
        BY <3>1, <3>2, FS_Subset DEF CallsTold
    <2>4. Cardinality(UpstreamOf(r)) < MaxParallel
      <3>1. UpstreamOf(r) \subseteq waiting
        BY <2>2
      <3> HIDE DEF waiting
      <3>2. /\ Cardinality(UpstreamOf(r)) <= Cardinality(waiting)
            /\ Cardinality(UpstreamOf(r)) \in Nat /\ Cardinality(waiting) \in Nat
        BY <1>2, <2>3, <3>1, FS_Subset, FS_CardinalityType
      <3> QED
        BY <2>3, <3>2, McpSorts
    <2>5. Cardinality(UpstreamOf(r)') <= MaxParallel
      BY <1>2, <2>1, <2>4, OneMore, McpSorts
    <2>6. ASSUME NEW d \in UpstreamOf(r) PROVE BatchOf[c] = BatchOf[d]
      <3>1. d \in Calls /\ RoundOf[d] = r /\ Admitted(d)
        BY <1>2 DEF UpstreamOf, CallsTold, CallTold
      <3>2. Admitted(c) /\ results[c] = None
        BY <1>4, Dispatching DEF Dispatch, MayDispatch
      <3>3. recons[c] = None /\ results[d] = None /\ recons[d] = None
        BY <2>2, <3>2 DEF CallsTold, CallTold
      <3>4. ~Resolved(c) /\ ~Resolved(d)
        BY <3>2, <3>3 DEF Resolved, Receipt
      <3> QED
        BY <1>4, <3>1, <3>2, <3>4 DEF BatchesInTurn
    <2> QED
      BY <1>1, <2>1, <2>5, <2>6
  <1>5. CASE \A c \in Calls : RoundOf[c] = r => ~Dispatch(c)
    BY <1>3, <1>5, OutStep DEF UpstreamOf, Out
  <1> QED
    BY <1>4, <1>5

LEMMA CallsSoundStep ==
    ASSUME McpInvariant, [Next]_vars
    PROVE  CallsSound'
BY TypeStep, AskedStep, NotCalledStep, UpstreamStep DEF CallsSound

----
(* Stops. *)

\* An attempt and its outcome stand.
LEMMA AttemptsStand ==
    ASSUME TypeOK, CallsTold, [Next]_vars, NEW a \in Attempts
    PROVE  /\ attempts[a] # None => attempts'[a] = attempts[a]
           /\ outcomes[a] # None => outcomes'[a] = outcomes[a]
  <1> USE DEF TypeOK, SourcingTypeOK
  <1>1. ASSUME NEW b \in Attempts, NEW r \in Runs, NEW kind \in Kinds, NewRead(b, r, kind)
        PROVE  (attempts[a] # None => attempts'[a] = attempts[a]) /\ outcomes' = outcomes
    BY <1>1 DEF NewRead, Attempted
  <1>2. ASSUME NEW b \in Attempts, NEW status \in Outcomes, NewOutcome(b, status)
        PROVE  attempts' = attempts /\ (outcomes[a] # None => outcomes'[a] = outcomes[a])
    BY <1>2 DEF NewOutcome, Decided
  <1>3. ASSUME NEW b \in Attempts, NewCapture(b)
        PROVE  attempts' = attempts /\ (outcomes[a] # None => outcomes'[a] = outcomes[a])
    BY <1>3 DEF NewCapture, TakeIn, Decided
  <1> QED
    BY <1>1, <1>2, <1>3, ReadSteps

LEMMA OutcomeStops ==
    ASSUME McpInvariant, [Next]_vars, NEW a \in Attempts, NEW day \in Days,
           outcomes'[a] # None, outcomes'[a].status = "gate",
           day \in {attempts'[a].day, outcomes'[a].day}
    PROVE  day \in halts'
  <1> USE DEF McpInvariant
  <1>1. halts \subseteq halts'
    BY HaltsStep
  <1>2. CASE outcomes[a] # None
    <2>1. attempts[a] # None
      BY <1>2 DEF ReadsTold
    <2>2. StoppedOn(day)
      BY <1>2, <2>1, AttemptsStand DEF StoppedOn
    <2> QED
      BY <1>1, <2>2 DEF HaltsTold
  <1>3. CASE outcomes[a] = None
    <2>1. ASSUME NEW b \in Attempts, NEW status \in Outcomes, NewOutcome(b, status) PROVE day \in halts'
      <3>1. outcomes' = [outcomes EXCEPT ![b] = [status |-> status, day |-> Today]] /\ attempts' = attempts
        BY <2>1 DEF NewOutcome, Decided
      <3>2. CASE a = b
        <4>1. outcomes'[a] = [status |-> status, day |-> Today]
          BY <3>1, <3>2 DEF TypeOK, SourcingTypeOK
        <4>2. status = "gate" /\ outcomes'[a].day = Today
          BY <4>1
        <4> QED
          BY <2>1, <3>1, <3>2, <4>2 DEF NewOutcome
      <3>3. CASE a # b
        BY <1>3, <3>1, <3>3 DEF TypeOK, SourcingTypeOK
      <3> QED
        BY <3>2, <3>3
    <2>2. ASSUME NEW b \in Attempts, NewCapture(b) PROVE FALSE
      <3>1. \/ outcomes' = outcomes
            \/ outcomes' = [outcomes EXCEPT ![b] = [status |-> "complete", day |-> Today]]
        BY <2>2 DEF NewCapture, TakeIn, Decided
      <3>2. outcomes'[a] = outcomes[a] \/ outcomes'[a] = [status |-> "complete", day |-> Today]
        BY <3>1 DEF TypeOK, SourcingTypeOK
      <3> QED
        BY <1>3, <3>2
    <2>3. ASSUME NEW b \in Attempts, NEW r \in Runs, NEW kind \in Kinds, NewRead(b, r, kind) PROVE FALSE
      BY <1>3, <2>3 DEF NewRead
    <2> QED
      BY <1>3, <2>1, <2>2, <2>3, ReadSteps
  <1> QED
    BY <1>2, <1>3

LEMMA ReceiptStops ==
    ASSUME McpInvariant, [Next]_vars, NEW c \in Calls, NEW day \in Days,
           \/ /\ results'[c] # None /\ results'[c].status \in Stops
              /\ day \in {attempts'[c].day, results'[c].day}
           \/ /\ recons'[c] # None /\ recons'[c].status \in Stops
              /\ day \in {attempts'[c].day, recons'[c].day}
    PROVE  day \in halts'
  <1> USE DEF McpInvariant
  <1>1. halts \subseteq halts' /\ (StoppedOn(day) => day \in halts)
    BY HaltsStep DEF HaltsTold
  <1>2. recons[c] # None => results[c] # None
    BY DEF CallsTold, CallTold
  <1>3. CASE Dispatch(c)
    <2>1. results[c] = None /\ UNCHANGED <<results, recons>>
      BY <1>3 DEF Dispatch, MayDispatch
    <2> QED
      BY <1>2, <2>1
  <1>4. CASE ~Dispatch(c)
    <2>1. attempts'[c] = attempts[c]
      BY <1>4, CallAttempt
    <2>2. CASE results'[c] = results[c] /\ recons'[c] = recons[c]
      <3>1. StoppedOn(day)
        BY <2>1, <2>2 DEF StoppedOn
      <3> QED
        BY <1>1, <3>1
    <2>3. ASSUME NEW status \in Readings, Stopped(c, status), recons[c] = None,
                 results[c] = None \/ results' = results,
                 \/ Result(c, status) /\ recons' = recons
                 \/ Recon(c, status) /\ results' = results
                 \/ /\ status = "unknown" /\ Result(c, status)
                    /\ \E reading \in Readings : Recon(c, reading)
          PROVE  day \in halts'
      <3>1. /\ \/ results'[c] = results[c] \/ results'[c] = [status |-> status, day |-> Today]
            /\ \/ recons'[c] = recons[c] \/ recons'[c] = [status |-> status, day |-> Today]
               \/ status = "unknown" /\ \E reading \in Readings : recons'[c] = [status |-> reading, day |-> Today]
        BY <2>3 DEF Result, Recon, TypeOK
      <3>2. CASE status \in Stops
        <4>1. {attempts[c].day, Today} \subseteq halts'
          BY <2>3, <3>2 DEF Stopped
        <4>2. /\ results'[c] = results[c] \/ results'[c].day = Today
              /\ recons'[c] = None \/ recons'[c].day = Today
          <5>1. \A reading : [status |-> reading, day |-> Today].day = Today
            OBVIOUS
          <5> QED
            BY ONLY <2>3, <3>1, <5>1
        <4>3. CASE results'[c] = results[c]
          <5>1. day \in {attempts[c].day, Today} \/ StoppedOn(day)
            BY <2>1, <4>2, <4>3 DEF StoppedOn
          <5> QED
            BY <1>1, <4>1, <5>1
        <4> QED
          BY <2>1, <4>1, <4>2, <4>3
      <3>3. CASE status \notin Stops
        <4>1. /\ results'[c] = results[c] \/ results'[c].status \notin Stops
              /\ recons'[c] = None \/ recons'[c].status \notin Stops
          BY <2>3, <3>1, <3>3 DEF Stops
        <4>2. StoppedOn(day)
          BY <2>1, <4>1 DEF StoppedOn
        <4> QED
          BY <1>1, <4>2
      <3> QED
        BY <3>2, <3>3
    <2>4. CASE Finish(c)
      <3>1. \E status \in Readings : Stopped(c, status) /\ Result(c, status)
        BY <2>4 DEF Finish, ReadingsOf, Readings
      <3>2. results[c] = None /\ recons' = recons
        BY <2>4 DEF Finish
      <3> QED
        BY <1>2, <2>3, <3>1, <3>2
    <2>5. CASE ReconcileUnknown(c)
      <3>1. \E status \in Readings : Stopped(c, status) /\ Recon(c, status)
        BY <2>5 DEF ReconcileUnknown, Resolutions, ReadingsOf, Readings
      <3>2. recons[c] = None /\ results' = results
        BY <2>5 DEF ReconcileUnknown
      <3> QED
        BY <2>3, <3>1, <3>2
    <2>6. CASE Recover(c)
      <3>1. "unknown" \in Readings /\ Stopped(c, "unknown") /\ Result(c, "unknown")
        BY <2>6 DEF Recover, Readings
      <3>2. \E reading \in Readings : Recon(c, reading)
        BY <2>6 DEF Recover, Resolutions, ReadingsOf, Readings
      <3>3. results[c] = None
        BY <2>6 DEF Recover
      <3> QED
        BY <1>2, <2>3, <3>1, <3>2, <3>3
    <2>7. CASE FinishUncalled(c) \/ CloseUncalled(c)
      <3>1. /\ results'[c].status = "not_called"
            /\ recons'[c] = recons[c] \/ recons'[c].status = "not_called"
            /\ recons[c] = None
        BY <1>2, <2>7 DEF FinishUncalled, CloseUncalled, Result, Recon, TypeOK
      <3> QED
        BY <3>1 DEF Stops
    <2>8. CASE Begin(c) \/ Send(c) \/ Die(c)
      BY <2>2, <2>8 DEF Begin, Send, Die
    <2>9. ASSUME NEW d \in Calls, Step(d), d # c PROVE day \in halts'
      BY <2>2, <2>9, OwnRows
    <2>10. CASE UNCHANGED callVars \/ \E b \in Batches : OpenBatch(b)
      BY <2>2, <2>10 DEF callVars, OpenBatch
    <2> QED
      BY <1>4, <2>4, <2>5, <2>6, <2>7, <2>8, <2>9, <2>10, CallSteps DEF Step
  <1> QED
    BY <1>3, <1>4

LEMMA DeliveryStops ==
    ASSUME McpInvariant, [Next]_vars, NEW d \in Actions, NEW day \in Days,
           \/ /\ observations'[d] # None /\ observations'[d].status \in Stops
              /\ day \in {Day(observations'[d].at), Day(observations'[d].seen)}
           \/ /\ corrections'[d] # None /\ corrections'[d].status \in Stops
              /\ day = Day(corrections'[d].seen)
    PROVE  day \in halts'
  <1> USE DEF McpInvariant
  <1>1. halts \subseteq halts' /\ (StoppedOn(day) => day \in halts)
    BY HaltsStep DEF HaltsTold
  <1>2. CASE observations'[d] = observations[d] /\ corrections'[d] = corrections[d]
    <2>1. StoppedOn(day)
      BY <1>2 DEF StoppedOn
    <2> QED
      BY <1>1, <2>1
  <1>3. CASE RecordDelivery(d)
    <2>1. PICK o \in Observation :
             /\ observations' = [observations EXCEPT ![d] = o]
             /\ halts' = IF o.status \in Stops THEN halts \cup {Day(o.at), Day(o.seen)} ELSE halts
      BY <1>3 DEF RecordDelivery
    <2>2. observations'[d] = o /\ corrections'[d] = corrections[d]
      BY <1>3, <2>1 DEF RecordDelivery, TypeOK
    <2>3. (day \in {Day(o.at), Day(o.seen)} /\ o.status \in Stops) \/ StoppedOn(day)
      BY <2>2 DEF StoppedOn
    <2> QED
      BY <1>1, <2>1, <2>3
  <1>4. CASE ReconcileDelivery(d)
    <2>1. PICK o \in Observation :
             /\ corrections' = [corrections EXCEPT ![d] = o] /\ o.status # "unknown"
             /\ halts' = IF o.status = "gate" THEN halts \cup {Day(o.seen), Today} ELSE halts
      BY <1>4 DEF ReconcileDelivery
    <2>2. corrections'[d] = o /\ observations'[d] = observations[d]
      BY <1>4, <2>1 DEF ReconcileDelivery, TypeOK
    <2>3. (day = Day(o.seen) /\ o.status = "gate") \/ StoppedOn(day)
      BY <2>1, <2>2 DEF StoppedOn, Stops
    <2> QED
      BY <1>1, <2>1, <2>3
  <1> QED
    BY <1>2, <1>3, <1>4, ObservationsStand

LEMMA HaltsToldStep ==
    ASSUME McpInvariant, [Next]_vars
    PROVE  HaltsTold'
  <1>1. ASSUME NEW day \in Days, StoppedOn(day)' PROVE day \in halts'
    BY <1>1, OutcomeStops, ReceiptStops, DeliveryStops DEF StoppedOn
  <1> QED
    BY <1>1 DEF HaltsTold, Days

----
(* Deliveries in turn. *)

\* The fact of an action: it happened when it was observed, after it was handed out, and it
\* stands once it is known, or once the round is closed.
LEMMA FactStands ==
    ASSUME McpInvariant, [Next]_vars, NEW d \in Actions
    PROVE  /\ Fact(d) # None => Fact(d) \in Observation /\ Fact(d).at = observations[d].at
                                /\ observations[d] # None
           /\ Fact(d) # None /\ Fact(d).status # "unknown" => Fact(d)' = Fact(d)
           /\ Closed(ActionRound[d]) => Fact(d)' = Fact(d)
  <1> USE DEF McpInvariant
  <1>1. corrections[d] # None => observations[d] # None /\ corrections[d].at = observations[d].at
    BY DEF HandoffsTold
  <1>2. observations[d] \in Observation \cup {None} /\ corrections[d] \in Observation \cup {None}
    BY DEF TypeOK
  <1>3. RecordDelivery(d) => observations[d] = None /\ ~Closed(ActionRound[d])
    BY DEF RecordDelivery
  <1>4. ReconcileDelivery(d) => observations[d].status = "unknown" /\ ~Closed(ActionRound[d])
    BY DEF ReconcileDelivery
  <1> QED
    BY <1>1, <1>2, <1>3, <1>4, ObservationsStand DEF Fact

LEMMA HandoffsStep ==
    ASSUME McpInvariant, [Next]_vars
    PROVE  HandoffsTold'
  <1> USE DEF McpInvariant
  <1> DEFINE all == {d \in Actions : \E i \in DOMAIN handoffs : handoffs[i].id = d}
  <1>1. CASE UNCHANGED <<handoffs, observations, corrections>>
    BY <1>1 DEF HandoffsTold
  <1>2. ASSUME NEW d \in Actions, PrepareDelivery(d) PROVE HandoffsTold'
    <2>1. /\ \A j \in DOMAIN handoffs : handoffs[j].id # d
          /\ UNCHANGED <<observations, corrections>>
          /\ handoffs' = Append(handoffs, [id |-> d, at |-> now])
      BY <1>2 DEF PrepareDelivery
    <2>2. PICK new \in Nat \ {0} :
             /\ DOMAIN handoffs = 1..(new - 1) /\ DOMAIN handoffs' = 1..new
             /\ \A k \in DOMAIN handoffs : handoffs'[k] = handoffs[k]
             /\ handoffs'[new] = [id |-> d, at |-> now]
      BY <2>1, HandoffAdded
    <2>3. /\ DOMAIN handoffs' = DOMAIN handoffs \cup {new} /\ new \notin DOMAIN handoffs
          /\ handoffs'[new].id = d
      BY <2>2
    <2>4. IsFiniteSet({e \in Actions : \E i \in DOMAIN handoffs' : handoffs'[i].id = e})
      <3>1. {e \in Actions : \E i \in DOMAIN handoffs' : handoffs'[i].id = e} = all \cup {d}
        BY <2>2, <2>3
      <3>2. IsFiniteSet(all)
        BY DEF HandoffsTold
      <3>3. IsFiniteSet(all \cup {d})
        BY <3>2, FS_AddElement
      <3> QED
        BY ONLY <3>1, <3>3
    <2>5. \A i, j \in DOMAIN handoffs' : handoffs'[i].id = handoffs'[j].id => i = j
      BY <2>1, <2>2, <2>3 DEF HandoffsTold
    <2>6. \A e \in Actions : observations[e] # None =>
            \E i \in DOMAIN handoffs' : handoffs'[i].id = e /\ handoffs'[i].at <= observations[e].at
      BY <2>2, <2>3 DEF HandoffsTold
    <2> QED
      BY <2>1, <2>4, <2>5, <2>6 DEF HandoffsTold
  <1>3. ASSUME NEW d \in Actions, RecordDelivery(d) PROVE HandoffsTold'
    <2>1. PICK i \in DOMAIN handoffs, o \in Observation :
            /\ handoffs[i].id = d /\ handoffs[i].at <= o.at
            /\ observations' = [observations EXCEPT ![d] = o]
      BY <1>3 DEF RecordDelivery
    <2>2. UNCHANGED <<handoffs, corrections>> /\ observations[d] = None
      BY <1>3 DEF RecordDelivery
    <2>3. observations'[d] = o /\ \A e \in Actions \ {d} : observations'[e] = observations[e]
      BY <2>1 DEF TypeOK
    <2> QED
      BY <2>1, <2>2, <2>3 DEF HandoffsTold
  <1>4. ASSUME NEW d \in Actions, ReconcileDelivery(d) PROVE HandoffsTold'
    <2>1. PICK o \in Observation :
            /\ o.status # "unknown" /\ o.at = observations[d].at
            /\ corrections' = [corrections EXCEPT ![d] = o]
      BY <1>4 DEF ReconcileDelivery
    <2>2. UNCHANGED <<handoffs, observations>> /\ observations[d] # None
      BY <1>4 DEF ReconcileDelivery
    <2>3. corrections'[d] = o /\ \A e \in Actions \ {d} : corrections'[e] = corrections[e]
      BY <2>1 DEF TypeOK
    <2> QED
      BY <2>1, <2>2, <2>3 DEF HandoffsTold
  <1> QED
    BY <1>1, <1>2, <1>3, <1>4, Writers DEF PrepareDelivery, RecordDelivery, ReconcileDelivery

\* What the last action of a candidate tells of all before it.
LEMMA LastActionIs ==
    ASSUME McpInvariant, NEW r \in Rounds, NEW i \in HandedTo(r)
    PROVE  /\ LastAction(r) \in HandedTo(r) /\ LastAction(r) # 0
           /\ i <= LastAction(r)
  <1>1. HandedTo(r) \in SUBSET (Nat \ {0})
    BY HandoffRows DEF HandedTo, McpInvariant
  <1>2. LastAction(r) = Latest(HandedTo(r)) /\ HasLast(HandedTo(r))
    BY DEF LastAction, HandedTo, LastTold, McpInvariant
  <1> QED
    BY <1>1, <1>2, LatestIs

\* One action is read back before another, at the distance.
InTurn(i, j) ==
    /\ Fact(handoffs[i].id) # None /\ Fact(handoffs[i].id).positive
    /\ Fact(handoffs[i].id).status \notin Stops
    /\ Fact(handoffs[i].id).at >= handoffs[i].at
    /\ handoffs[j].at >= Fact(handoffs[i].id).at + Spacing

LEMMA TurnsStep ==
    ASSUME McpInvariant, [Next]_vars
    PROVE  DeliveriesInTurn'
  <1> USE DEF McpInvariant
  <1> SUFFICES ASSUME NEW i \in DOMAIN handoffs', NEW j \in DOMAIN handoffs', i < j,
                      CandidateOf[ActionRound[handoffs'[i].id]] = CandidateOf[ActionRound[handoffs'[j].id]]
               PROVE  InTurn(i, j)'
    BY DEF DeliveriesInTurn, InTurn
  <1>1. \A k, l \in DOMAIN handoffs :
          k < l /\ CandidateOf[ActionRound[handoffs[k].id]] = CandidateOf[ActionRound[handoffs[l].id]]
            => InTurn(k, l)
    BY DEF DeliveriesSound, DeliveriesInTurn, InTurn
  <1>2. \A d \in Actions : Fact(d) # None /\ Fact(d).status \notin Stops => Fact(d)' = Fact(d)
    BY FactStands DEF Stops
  <1>3. CASE UNCHANGED handoffs
    <2>1. InTurn(i, j) /\ handoffs[i].id \in Actions
      BY <1>1, <1>3, HandoffRows
    <2> QED
      BY <1>2, <1>3, <2>1 DEF InTurn
  <1>4. ASSUME NEW d \in Actions, PrepareDelivery(d) PROVE InTurn(i, j)'
    <2> DEFINE r == ActionRound[d]
               l == LastAction(r)
    <2>1. handoffs' = Append(handoffs, [id |-> d, at |-> now])
      BY <1>4 DEF PrepareDelivery
    <2>2. PICK new \in Nat \ {0} :
             /\ DOMAIN handoffs = 1..(new - 1) /\ DOMAIN handoffs' = 1..new
             /\ \A k \in DOMAIN handoffs : handoffs'[k] = handoffs[k]
             /\ handoffs'[new] = [id |-> d, at |-> now]
      BY <2>1, HandoffAdded
    <2>3. \A e : Fact(e)' = Fact(e)
      BY <1>4 DEF PrepareDelivery, Fact
    <2>4. i \in DOMAIN handoffs /\ handoffs'[i] = handoffs[i] /\ handoffs[i].id \in Actions
      BY <2>2, HandoffRows
    <2>5. CASE j \in DOMAIN handoffs
      <3>1. handoffs'[j] = handoffs[j]
        BY <2>2, <2>5
      <3>2. InTurn(i, j)
        BY <1>1, <2>4, <2>5, <3>1
      <3> QED
        BY <2>3, <2>4, <3>1, <3>2 DEF InTurn
    <2>6. CASE j = new
      <3>1. handoffs'[j].id = d /\ handoffs'[j].at = now /\ r \in Rounds
        BY <2>2, <2>6, McpSorts
      <3>2. i \in HandedTo(r)
        BY <2>4, <3>1 DEF HandedTo
      <3>3. l \in HandedTo(r) /\ l # 0 /\ i <= l
        BY <3>1, <3>2, LastActionIs
      <3>4. /\ ReadBack(Fact(handoffs[l].id))
            /\ now >= Fact(handoffs[l].id).at + Spacing
        BY <1>4, <3>3 DEF PrepareDelivery
      <3>5. /\ l \in DOMAIN handoffs /\ handoffs[l].id \in Actions
            /\ handoffs[l].at \in 0..MaxNow /\ handoffs[i].at \in 0..MaxNow /\ now \in 0..MaxNow
            /\ i \in Nat /\ l \in Nat
        BY <2>4, <3>3, HandoffRows DEF HandedTo, TypeOK, SourcingTypeOK
      <3>6. /\ Fact(handoffs[l].id) # None
            /\ Fact(handoffs[l].id).at \in 0..MaxNow
            /\ handoffs[l].at <= Fact(handoffs[l].id).at
        <4>1. Fact(handoffs[l].id) # None
          BY <3>4 DEF ReadBack
        <4>2. /\ Fact(handoffs[l].id) \in Observation
              /\ Fact(handoffs[l].id).at = observations[handoffs[l].id].at
              /\ observations[handoffs[l].id] # None
          BY <3>5, <4>1, FactStands
        <4>3. handoffs[l].at <= observations[handoffs[l].id].at
          BY <3>5, <4>2 DEF HandoffsTold
        <4>4. Fact(handoffs[l].id).at \in 0..MaxNow
          BY <4>2 DEF Observation
        <4> QED
          BY <4>1, <4>2, <4>3, <4>4
      <3>7. CASE i = l
        BY <2>3, <2>4, <3>1, <3>4, <3>5, <3>6, <3>7 DEF InTurn, ReadBack
      <3>8. CASE i # l
        <4>1. i < l
          BY <3>3, <3>5, <3>8
        <4>2. InTurn(i, l)
          BY <1>1, <3>2, <3>3, <3>5, <4>1 DEF HandedTo
        <4>3. Fact(handoffs[i].id) \in Observation /\ Fact(handoffs[i].id).at \in 0..MaxNow
          <5>1. Fact(handoffs[i].id) \in Observation
            BY <2>4, <4>2, FactStands DEF InTurn
          <5> QED
            BY <5>1 DEF Observation
        <4>4. now >= Fact(handoffs[i].id).at + Spacing
          <5>1. handoffs[l].at >= Fact(handoffs[i].id).at + Spacing
            BY <4>2 DEF InTurn
          <5> QED
            BY <3>4, <3>5, <3>6, <4>3, <5>1, McpSorts, SourcingSorts
        <4> QED
          BY <2>3, <2>4, <3>1, <4>2, <4>4 DEF InTurn
      <3> QED
        BY <3>7, <3>8
    <2> QED
      BY <2>2, <2>5, <2>6
  <1> QED
    BY <1>3, <1>4, Writers

\* The identities an action was seen under.
RefsOf(x) == {o.ref : o \in {observations[x], corrections[x]} \ {None}} \ {None}

LEMMA ReferencesStep ==
    ASSUME McpInvariant, [Next]_vars
    PROVE  ReferenceOnce'
  <1> USE DEF McpInvariant
  <1> SUFFICES ASSUME NEW d \in Actions, NEW e \in Actions, d # e
               PROVE  RefsOf(d)' \cap RefsOf(e)' = {}
    BY DEF ReferenceOnce, RefsOf
  <1>1. \A x, y \in Actions : x # y => RefsOf(x) \cap RefsOf(y) = {}
    BY DEF DeliveriesSound, ReferenceOnce, RefsOf
  <1>2. ASSUME NEW x \in Actions, NEW o \in Observation, FreshReference(x, o.ref),
               NEW y \in Actions \ {x}
        PROVE  (RefsOf(x) \cup ({o.ref} \ {None})) \cap RefsOf(y) = {}
    BY <1>1, <1>2 DEF FreshReference, RefsOf
  <1>3. ASSUME NEW x \in Actions, RecordDelivery(x)
        PROVE  \E o \in Observation :
                 /\ FreshReference(x, o.ref)
                 /\ RefsOf(x)' \subseteq RefsOf(x) \cup ({o.ref} \ {None})
                 /\ \A y \in Actions \ {x} : RefsOf(y)' = RefsOf(y)
    <2>1. PICK o \in Observation : FreshReference(x, o.ref) /\ observations' = [observations EXCEPT ![x] = o]
      BY <1>3 DEF RecordDelivery
    <2>2. /\ corrections' = corrections /\ observations'[x] = o
          /\ \A y \in Actions \ {x} : observations'[y] = observations[y]
      BY <1>3, <2>1 DEF RecordDelivery, TypeOK
    <2>3. RefsOf(x)' \subseteq RefsOf(x) \cup ({o.ref} \ {None})
      BY <2>2 DEF RefsOf
    <2>4. \A y \in Actions \ {x} : RefsOf(y)' = RefsOf(y)
      BY <2>2 DEF RefsOf
    <2> QED
      BY <2>1, <2>3, <2>4
  <1>4. ASSUME NEW x \in Actions, ReconcileDelivery(x)
        PROVE  \E o \in Observation :
                 /\ FreshReference(x, o.ref)
                 /\ RefsOf(x)' \subseteq RefsOf(x) \cup ({o.ref} \ {None})
                 /\ \A y \in Actions \ {x} : RefsOf(y)' = RefsOf(y)
    <2>1. PICK o \in Observation : FreshReference(x, o.ref) /\ corrections' = [corrections EXCEPT ![x] = o]
      BY <1>4 DEF ReconcileDelivery
    <2>2. /\ observations' = observations /\ corrections'[x] = o
          /\ \A y \in Actions \ {x} : corrections'[y] = corrections[y]
      BY <1>4, <2>1 DEF ReconcileDelivery, TypeOK
    <2>3. RefsOf(x)' \subseteq RefsOf(x) \cup ({o.ref} \ {None})
      BY <2>2 DEF RefsOf
    <2>4. \A y \in Actions \ {x} : RefsOf(y)' = RefsOf(y)
      BY <2>2 DEF RefsOf
    <2> QED
      BY <2>1, <2>3, <2>4
  <1>5. CASE UNCHANGED <<observations, corrections>>
    <2>1. \A x : RefsOf(x)' = RefsOf(x)
      BY <1>5 DEF RefsOf
    <2> QED
      BY <1>1, <2>1
  <1>6. ASSUME NEW x \in Actions, NEW o \in Observation, FreshReference(x, o.ref),
               RefsOf(x)' \subseteq RefsOf(x) \cup ({o.ref} \ {None}),
               \A y \in Actions \ {x} : RefsOf(y)' = RefsOf(y)
        PROVE  RefsOf(d)' \cap RefsOf(e)' = {}
    <2>1. CASE d = x
      BY <1>2, <1>6, <2>1
    <2>2. CASE e = x
      BY <1>2, <1>6, <2>2
    <2>3. CASE d # x /\ e # x
      BY <1>1, <1>6, <2>3
    <2> QED
      BY <2>1, <2>2, <2>3
  <1>7. CASE \E x \in Actions : RecordDelivery(x) \/ ReconcileDelivery(x)
    BY <1>3, <1>4, <1>6, <1>7
  <1> QED
    BY <1>5, <1>7, Writers

----
(* Rounds after one another. *)

\* The deliveries of a closed round are counted for good.
LEMMA SentFrozen ==
    ASSUME McpInvariant, [Next]_vars, NEW r \in Rounds, Closed(r)
    PROVE  Sent(r)' = Sent(r)
  <1> USE DEF McpInvariant
  <1>1. \A d \in Actions : ActionRound[d] = r => Fact(d)' = Fact(d)
    BY FactStands
  <1>2. HandedOut(r)' = HandedOut(r)
    <2>1. CASE UNCHANGED handoffs
      BY <2>1 DEF HandedOut
    <2>2. ASSUME NEW d \in Actions, PrepareDelivery(d) PROVE HandedOut(r)' = HandedOut(r)
      <3>1. ActionRound[d] # r
        BY <2>2 DEF PrepareDelivery, Open
      <3>2. handoffs' = Append(handoffs, [id |-> d, at |-> now])
        BY <2>2 DEF PrepareDelivery
      <3>3. PICK new \in Nat \ {0} :
               /\ DOMAIN handoffs = 1..(new - 1) /\ DOMAIN handoffs' = 1..new
               /\ \A k \in DOMAIN handoffs : handoffs'[k] = handoffs[k]
               /\ handoffs'[new] = [id |-> d, at |-> now]
        BY <3>2, HandoffAdded
      <3>4. DOMAIN handoffs' = DOMAIN handoffs \cup {new} /\ handoffs'[new].id = d
        BY <3>3
      <3> QED
        BY <3>1, <3>3, <3>4 DEF HandedOut
    <2> QED
      BY <2>1, <2>2, Writers
  <1> QED
    BY <1>1, <1>2 DEF Sent, HandedOut

\* One position is added for the activation of a round that was not yet at work.
ChainGrows(new, r, row) ==
    /\ NewActivation(r, row)
    /\ DOMAIN chain = 1..(new - 1) /\ DOMAIN chain' = 1..new
    /\ DOMAIN chain' = DOMAIN chain \cup {new} /\ new \notin DOMAIN chain
    /\ \A k \in DOMAIN chain : chain'[k] = chain[k]
    /\ chain'[new] = row

LEMMA ChainStep ==
    ASSUME McpInvariant, NEW c \in Calls, Dispatch(c)
    PROVE  UNCHANGED chain \/ \E row, new : new \in Nat /\ ChainGrows(new, RoundOf[c], row)
  <1> USE DEF McpInvariant
  <1>1. ASSUME NEW row, NewActivation(RoundOf[c], row)
        PROVE  \E new : new \in Nat /\ ChainGrows(new, RoundOf[c], row)
    <2>1. PICK new \in Nat \ {0} :
               /\ DOMAIN chain = 1..(new - 1) /\ DOMAIN chain' = 1..new
               /\ \A k \in DOMAIN chain : chain'[k] = chain[k]
               /\ chain'[new] = row
      BY <1>1, ActivationAdded DEF NewActivation
    <2>2. DOMAIN chain' = DOMAIN chain \cup {new} /\ new \notin DOMAIN chain
      BY <2>1
    <2>3. ChainGrows(new, RoundOf[c], row)
      BY <1>1, <2>1, <2>2 DEF ChainGrows
    <2> QED
      BY <2>3
  <1> QED
    BY <1>1, ChainSteps

LEMMA ChainToldStep ==
    ASSUME McpInvariant, [Next]_vars
    PROVE  ChainTold'
  <1> USE DEF McpInvariant
  <1>1. \A i \in DOMAIN chain : chain[i] \in Activations /\ chain[i].run \in Rounds
    BY ChainRows
  <1>2. \A r \in Rounds : Closed(r) => Closed(r)'
    BY RoundsStand DEF Closed
  <1>3. \A i \in DOMAIN chain : chain[i].previous # None =>
          chain[i].previous \in Rounds /\ Closed(chain[i].previous)
    BY <1>1 DEF ChainTold, Activations
  <1>4. CASE UNCHANGED chain
    BY <1>2, <1>3, <1>4 DEF ChainTold
  <1>5. ASSUME NEW r, NEW row, NEW new \in Nat, ChainGrows(new, r, row) PROVE ChainTold'
    <2>1. row.run = r /\ \A i \in DOMAIN chain : chain[i].run # r
      BY <1>5 DEF ChainGrows, NewActivation, Activated
    <2>2. row.previous # None => row.previous \in Rounds /\ Closed(row.previous)
      BY <1>5 DEF ChainGrows, NewActivation
    <2>3. \A i, j \in DOMAIN chain' : chain'[i].run = chain'[j].run => i = j
      BY <1>5, <2>1 DEF ChainGrows, ChainTold
    <2>4. \A i \in DOMAIN chain' : chain'[i].previous # None =>
            chain'[i].previous \in Rounds /\ Closed(chain'[i].previous)
      BY <1>3, <1>5, <2>2 DEF ChainGrows
    <2>5. \A i \in DOMAIN chain' : chain'[i].previous # None => closures'[chain'[i].previous] # None
      BY <2>4, RoundsStand DEF Closed
    <2> QED
      BY <2>3, <2>5 DEF ChainTold, Closed
  <1> QED
    BY <1>4, <1>5, ChainStep, Writers

LEMMA OneRoundStep ==
    ASSUME McpInvariant, [Next]_vars
    PROVE  OneRoundAtWork'
  <1> USE DEF McpInvariant
  <1> SUFFICES ASSUME NEW i \in DOMAIN chain', NEW j \in DOMAIN chain', i < j,
                      CandidateOf[chain'[i].run] = CandidateOf[chain'[j].run]
               PROVE  closures'[chain'[i].run] # None
    BY DEF OneRoundAtWork, Closed
  <1>1. \A k \in DOMAIN chain : chain[k] \in Activations /\ chain[k].run \in Rounds /\ k \in Nat
    BY ChainRows
  <1>2. ASSUME NEW r \in Rounds, Closed(r) PROVE Closed(r)'
    BY <1>2, RoundsStand DEF Closed
  <1>3. CASE UNCHANGED chain
    <2>1. Closed(chain[i].run)
      BY <1>3 DEF RoundsSound, OneRoundAtWork
    <2>2. closures'[chain[i].run] # None
      BY <1>1, <1>2, <1>3, <2>1 DEF Closed
    <2> QED
      BY <1>3, <2>2
  <1>4. ASSUME NEW r, NEW row, NEW new \in Nat, ChainGrows(new, r, row)
        PROVE  closures'[chain'[i].run] # None
    <2>1. i \in DOMAIN chain /\ chain'[i] = chain[i] /\ row.run = r /\ r \in Rounds
      BY <1>4 DEF ChainGrows, NewActivation
    <2>2. CASE j \in DOMAIN chain
      <3>1. Closed(chain[i].run)
        BY <1>4, <2>1, <2>2 DEF RoundsSound, OneRoundAtWork, ChainGrows
      <3> QED
        BY <1>1, <2>1, <3>1, RoundsStand DEF Closed
    <2>3. CASE j = new
      <3>1. i \in AtWork(r)
        BY <1>4, <2>1, <2>3 DEF ChainGrows, AtWork
      <3>2. PICK k \in AtWork(r) : i <= k /\ Predecessor(r) = chain[k].run /\ Predecessor(r) \in Rounds
        BY <2>1, <3>1, PredecessorIs
      <3>3. Closed(chain[k].run)
        <4>1. row.previous = Predecessor(r) /\ (row.previous # None => Closed(row.previous))
          BY <1>4 DEF ChainGrows, NewActivation
        <4>2. None \notin Rounds
          BY McpNone
        <4> QED
          BY <3>2, <4>1, <4>2
      <3>4. Closed(chain[i].run)
        <4>1. CASE i = k
          BY <3>3, <4>1
        <4>2. CASE i # k
          <5>1. i < k /\ k \in DOMAIN chain /\ CandidateOf[chain[i].run] = CandidateOf[chain[k].run]
            BY <1>1, <2>1, <3>1, <3>2, <4>2 DEF AtWork
          <5> QED
            BY <2>1, <5>1 DEF RoundsSound, OneRoundAtWork
        <4> QED
          BY <4>1, <4>2
      <3> QED
        BY <1>1, <2>1, <3>4, RoundsStand DEF Closed
    <2> QED
      BY <1>4, <2>2, <2>3 DEF ChainGrows
  <1> QED
    BY <1>3, <1>4, ChainStep, Writers

LEMMA DebitStep ==
    ASSUME McpInvariant, [Next]_vars
    PROVE  DebitTrue'
  <1> USE DEF McpInvariant
  <1>1. DebitTrue
    BY DEF RoundsSound
  <1>2. ASSUME NEW r \in Rounds, Closed(r)' PROVE closures'[r] = Cardinality(Sent(r)')
    <2>1. CASE Closed(r)
      <3>1. closures'[r] = closures[r] /\ Sent(r)' = Sent(r)
        BY <2>1, RoundsStand, SentFrozen DEF Closed
      <3> QED
        BY <1>1, <2>1, <3>1 DEF DebitTrue
    <2>2. ASSUME NEW q \in Rounds, CloseRound(q), ~Closed(r)
          PROVE  closures'[r] = Cardinality(Sent(r)')
      <3>1. closures' = [closures EXCEPT ![q] = Cardinality(Sent(q))]
        BY <2>2 DEF CloseRound
      <3>2. Sent(r)' = Sent(r)
        BY <2>2 DEF CloseRound, deliveryVars, Sent, HandedOut, Fact
      <3>3. q = r
        BY <1>2, <2>2, <3>1 DEF Closed, TypeOK
      <3> QED
        BY <3>1, <3>2, <3>3 DEF TypeOK
    <2>3. CASE UNCHANGED closures
      BY <1>2, <2>1, <2>3 DEF Closed
    <2> QED
      BY <2>1, <2>2, <2>3, Writers
  <1>3. ASSUME NEW i \in DOMAIN chain, NEW r \in Rounds, chain[i].previous = r
        PROVE  chain[i].debit = Cardinality(Sent(r)')
    <2>1. r # None
      BY McpNone
    <2>2. chain[i].debit = Cardinality(Sent(r)) /\ Closed(r)
      BY <1>1, <1>3, <2>1 DEF DebitTrue, ChainTold
    <2> QED
      BY <2>2, SentFrozen
  <1>4. \A x \in Activations : x.previous = None \/ x.previous \in Rounds
    BY DEF Activations
  <1>5. ASSUME NEW i \in DOMAIN chain, NEW p, p = chain[i].previous
        PROVE  chain[i].debit = IF p = None THEN 0 ELSE Cardinality(Sent(p)')
    <2>1. CASE p = None
      BY <1>1, <1>5, <2>1 DEF DebitTrue
    <2>2. CASE p # None
      <3>1. p \in Rounds
        BY <1>4, <1>5, <2>2, ChainRows
      <3> QED
        BY <1>3, <1>5, <2>2, <3>1
    <2> QED
      BY <2>1, <2>2
  <1>6. ASSUME NEW i \in DOMAIN chain', NEW p, p = chain'[i].previous
        PROVE  chain'[i].debit = IF p = None THEN 0 ELSE Cardinality(Sent(p)')
    <2>1. CASE UNCHANGED chain
      BY <1>5, <1>6, <2>1
    <2>2. ASSUME NEW c \in Calls, Dispatch(c), NEW row, NEW new \in Nat, ChainGrows(new, RoundOf[c], row)
          PROVE  chain'[i].debit = IF p = None THEN 0 ELSE Cardinality(Sent(p)')
      <3>1. CASE i \in DOMAIN chain
        <4>1. chain'[i] = chain[i]
          BY <2>2, <3>1 DEF ChainGrows
        <4> QED
          BY <1>5, <1>6, <3>1, <4>1
      <3>2. CASE i = new
        <4>1. /\ p = Predecessor(RoundOf[c]) /\ chain'[i].debit = Debit(RoundOf[c])
              /\ p # None => p \in Rounds /\ Closed(p)
          BY <1>6, <2>2, <3>2 DEF ChainGrows, NewActivation
        <4>2. CASE p = None
          BY <4>1, <4>2 DEF Debit
        <4>3. CASE p # None
          <5>1. chain'[i].debit = closures[p] /\ p \in Rounds /\ Closed(p)
            BY <4>1, <4>3 DEF Debit
          <5>2. closures[p] = Cardinality(Sent(p))
            BY <1>1, <5>1 DEF DebitTrue
          <5> QED
            BY <4>3, <5>1, <5>2, SentFrozen
        <4> QED
          BY <4>2, <4>3
      <3> QED
        BY <2>2, <3>1, <3>2 DEF ChainGrows
    <2> QED
      BY <2>1, <2>2, ChainStep, Writers
  <1>7. ASSUME NEW i \in DOMAIN chain'
        PROVE  (chain[i].debit = IF chain[i].previous = None THEN 0
                                 ELSE Cardinality(Sent(chain[i].previous)))'
    <2>1. PICK p : p = chain'[i].previous
      OBVIOUS
    <2>2. Sent(chain[i].previous)' = Sent(p)'
      BY <2>1 DEF Sent, HandedOut
    <2> QED
      BY <1>6, <2>1, <2>2
  <1>8. \A r \in Rounds : (Closed(r) => closures[r] = Cardinality(Sent(r)))'
    BY <1>2
  <1> QED
    BY <1>7, <1>8 DEF DebitTrue

DebitsTyped == \A i \in DOMAIN chain : chain[i].debit \in Nat

LEMMA DebitsAre == TypeOK => DebitsTyped
  <1>1. \A x \in Activations : x.debit \in Nat
    BY DEF Activations
  <1> QED
    BY <1>1, ChainRows DEF DebitsTyped

LEMMA AllowanceStep ==
    ASSUME McpInvariant, [Next]_vars
    PROVE  AllowanceKept'
  <1> USE DEF McpInvariant
  <1>1. \A q : IsFiniteSet(Dispatched(q)) /\ Cardinality(Dispatched(q)) \in Nat
    <2> SUFFICES ASSUME NEW q PROVE IsFiniteSet(Dispatched(q)) /\ Cardinality(Dispatched(q)) \in Nat
      OBVIOUS
    <2>1. Dispatched(q) \subseteq dispatches
      BY DEF Dispatched
    <2>2. IsFiniteSet(Dispatched(q))
      BY <2>1, FS_Subset DEF CallsTold
    <2> QED
      BY <2>2, FS_CardinalityType
  <1>2. \A i \in DOMAIN chain' : chain'[i].debit \in Nat
    <2>1. TypeOK'
      BY TypeStep
    <2>2. TypeOK' => DebitsTyped'
      BY DebitsAre, PTL
    <2> QED
      BY <2>1, <2>2 DEF DebitsTyped
  <1>3. ASSUME NEW i \in DOMAIN chain, NEW q, q = chain[i].run
        PROVE  /\ Cardinality(Dispatched(q)) <= McpTotal
               /\ Cardinality(Dispatched(q)) + chain[i].debit <= CallLimit
    BY <1>3 DEF RoundsSound, AllowanceKept, DebitTrue
  <1>4. ASSUME NEW i \in DOMAIN chain', NEW q, q = chain'[i].run
        PROVE  /\ Cardinality(Dispatched(q)') <= McpTotal
               /\ Cardinality(Dispatched(q)') + chain'[i].debit <= CallLimit
    <2>1. CASE UNCHANGED <<chain, dispatches>>
      <3>1. Dispatched(q)' = Dispatched(q)
        BY <2>1 DEF Dispatched
      <3> QED
        BY <1>3, <1>4, <2>1, <3>1
    <2>2. ASSUME NEW c \in Calls, Dispatch(c)
          PROVE  /\ Cardinality(Dispatched(q)') <= McpTotal
                 /\ Cardinality(Dispatched(q)') + chain'[i].debit <= CallLimit
      <3>1. dispatches' = dispatches \cup {c} /\ c \notin dispatches /\ chain' = Activation(RoundOf[c])
        BY <2>2 DEF Dispatch, MayDispatch
      <3>2. CASE q = RoundOf[c]
        <4>1. Dispatched(q)' = Dispatched(q) \cup {c} /\ c \notin Dispatched(q)
          BY <3>1, <3>2 DEF Dispatched
        <4>2. DebitOf(q, chain') = chain'[i].debit
          <5>1. \A j \in DOMAIN chain' : chain'[j].run = q => j = i
            BY <1>4, ChainToldStep DEF ChainTold
          <5>2. (CHOOSE j \in DOMAIN chain' : chain'[j].run = q) = i
            BY <1>4, <5>1
          <5> QED
            BY <5>2 DEF DebitOf
        <4>3. /\ Cardinality(Dispatched(q)) < McpTotal
              /\ Cardinality(Dispatched(q)) + chain'[i].debit < CallLimit
          <5>1. CallsLeft(RoundOf[c])
            BY <2>2 DEF Dispatch, MayDispatch
          <5>2. DebitOf(q, Activation(RoundOf[c])) = chain'[i].debit
            BY <3>1, <4>2
          <5> QED
            BY <3>2, <5>1, <5>2 DEF CallsLeft
        <4>4. Cardinality(Dispatched(q)') = Cardinality(Dispatched(q)) + 1
          BY <1>1, <4>1, FS_AddElement
        <4> QED
          BY <1>1, <1>2, <4>3, <4>4, McpSorts
      <3>3. CASE q # RoundOf[c]
        <4>1. Dispatched(q)' = Dispatched(q)
          BY <3>1, <3>3 DEF Dispatched
        <4>2. i \in DOMAIN chain /\ chain'[i] = chain[i]
          <5>1. CASE UNCHANGED chain
            BY <5>1
          <5>2. ASSUME NEW row, NEW new \in Nat, ChainGrows(new, RoundOf[c], row)
                PROVE  i \in DOMAIN chain /\ chain'[i] = chain[i]
            BY <1>4, <3>3, <5>2 DEF ChainGrows, NewActivation
          <5> QED
            BY <2>2, <5>1, <5>2, ChainStep
        <4> QED
          BY <1>3, <1>4, <4>1, <4>2
      <3> QED
        BY <3>2, <3>3
    <2> QED
      BY <2>1, <2>2, Writers
  <1>5. ASSUME NEW i \in DOMAIN chain'
        PROVE  (LET calls == Cardinality(Dispatched(chain[i].run))
                    before == chain[i].previous IN
                /\ calls <= McpTotal
                /\ calls + (IF before = None THEN 0 ELSE Cardinality(Sent(before))) <= CallLimit)'
    <2>1. PICK q : q = chain'[i].run
      OBVIOUS
    <2>2. Dispatched(chain[i].run)' = Dispatched(q)'
      BY <2>1 DEF Dispatched
    <2>3. (chain[i].debit = IF chain[i].previous = None THEN 0
                            ELSE Cardinality(Sent(chain[i].previous)))'
      BY DebitStep DEF DebitTrue
    <2> QED
      BY <1>4, <2>1, <2>2, <2>3
  <1> QED
    BY <1>5 DEF AllowanceKept

----
(* The invariant, and what it says. *)

LEMMA McpStarts == Init => McpInvariant
  <1> SUFFICES ASSUME Init PROVE McpInvariant
    OBVIOUS
  <1> USE DEF Init, SourcingInit
  <1>0. IsFiniteSet({}) /\ Cardinality({}) = 0
    BY FS_EmptySet
  <1>1. TypeOK
    <2>1. 0 \in 0..MaxNow /\ 0 \in 0..MaxRevision
      BY SourcingSorts
    <2>2. SourcingTypeOK
      BY <2>1 DEF SourcingTypeOK
    <2>3. << >> \in Seq(Activations) /\ << >> \in Seq([id : Actions, at : 0 .. MaxNow])
      OBVIOUS
    <2> QED
      BY <2>2, <2>3 DEF TypeOK
  <1>2. ReadsTold
    <2>1. {a \in Attempts : attempts[a] # None} = {}
      OBVIOUS
    <2> QED
      BY <1>0, <2>1 DEF ReadsTold
  <1>3. CallsTold
    <2>1. \A c \in Calls : c \in Attempts
      BY McpSorts
    <2> QED
      BY <1>0, <2>1 DEF CallsTold, CallTold, Out
  <1>4. AskedBy /\ AskedOnce
    BY McpSorts DEF AskedBy, AskedOnce
  <1>5. BatchesInTurn
    BY DEF BatchesInTurn, Admitted
  <1>6. HaltsTold
    BY DEF HaltsTold, StoppedOn
  <1>7. DOMAIN chain = {} /\ DOMAIN handoffs = {}
    OBVIOUS
  <1>8. HandoffsTold
    <2>1. {d \in Actions : \E i \in DOMAIN handoffs : handoffs[i].id = d} = {}
      BY <1>7
    <2>2. IsFiniteSet({d \in Actions : \E i \in DOMAIN handoffs : handoffs[i].id = d})
      BY <1>0, <2>1
    <2> QED
      BY <1>7, <2>2 DEF HandoffsTold
  <1>9. LastTold /\ ChainTold
    BY <1>7 DEF LastTold, HasLast, AtWork, HandedTo, ChainTold
  <1>10. ReadsSound
    <2>1. \A r, kinds : Made(r, kinds) = {}
      BY DEF Made
    <2>2. \A day : ReadOn(day) = {}
      BY DEF ReadOn
    <2>3. 0 <= QueryLimit /\ 0 <= DetailLimit /\ 0 <= DailyLimit
      BY SourcingSorts
    <2>4. ReadLimitsKept
      BY ONLY <1>0, <2>1, <2>2, <2>3 DEF ReadLimitsKept
    <2>5. CaptureAgrees
      BY DEF CaptureAgrees
    <2> QED
      BY <2>4, <2>5 DEF ReadsSound
  <1>11. CallsSound
    <2>1. \A r : UpstreamOf(r) = {}
      BY DEF UpstreamOf
    <2>2. UpstreamBounded
      <3>1. \A r \in Rounds : /\ Cardinality(UpstreamOf(r)) <= MaxParallel
                             /\ \A c, d \in UpstreamOf(r) : BatchOf[c] = BatchOf[d]
        <4>1. 0 <= MaxParallel
          BY McpSorts
        <4> QED
          BY ONLY <1>0, <2>1, <4>1
      <3> QED
        BY <3>1 DEF UpstreamBounded, UpstreamOf
    <2> QED
      BY <1>1, <1>4, <2>2 DEF CallsSound, NotCalledNeverSent
  <1>12. DeliveriesSound
    BY <1>7 DEF DeliveriesSound, DeliveriesInTurn, ReferenceOnce
  <1>13. RoundsSound
    BY <1>7 DEF RoundsSound, DebitTrue, OneRoundAtWork, AllowanceKept, Closed
  <1> QED
    BY <1>1, <1>2, <1>3, <1>4, <1>5, <1>6, <1>8, <1>9, <1>10, <1>11, <1>12, <1>13 DEF McpInvariant

LEMMA McpSteps == McpInvariant /\ [Next]_vars => McpInvariant'
  <1> SUFFICES ASSUME McpInvariant, [Next]_vars PROVE McpInvariant'
    OBVIOUS
  <1>1. DeliveriesSound'
    BY TurnsStep, ReferencesStep DEF DeliveriesSound
  <1>2. RoundsSound'
    BY DebitStep, OneRoundStep, AllowanceStep DEF RoundsSound
  <1> QED
    BY <1>1, <1>2, TypeStep, ReadsStep, CallsStep, AskedStep, BatchesStep, HaltsToldStep, HandoffsStep,
       LastStep, ChainToldStep, CallsSoundStep
       DEF McpInvariant

\* A stop of the day ends every read, call, batch and hand-out on it.
LEMMA StopStep ==
    ASSUME McpInvariant, [Next]_vars,
           attempts' # attempts \/ claims' # claims \/ dispatches' # dispatches
             \/ handoffs' # handoffs \/ batches' # batches
    PROVE  ~StoppedOn(Today)
  <1> USE DEF McpInvariant
  <1>1. Today \in Days
    BY DaysTyped DEF TypeOK, SourcingTypeOK, Today
  <1>2. \A c \in Calls : Dispatch(c) => Today \notin halts
    BY DEF Dispatch, MayDispatch, Open
  <1>3. CASE attempts' # attempts
    <2>1. PICK a \in Attempts, r \in Runs, kind \in Kinds : NewRead(a, r, kind)
      BY <1>3, ReadSteps DEF NewOutcome, NewCapture
    <2> QED
      BY <1>1, <2>1 DEF NewRead, Permitted, HaltsTold
  <1>4. CASE claims' # claims
    BY <1>1, <1>2, <1>4, Writers DEF Claim, HaltsTold
  <1>5. CASE dispatches' # dispatches
    BY <1>1, <1>2, <1>5, Writers DEF HaltsTold
  <1>6. CASE handoffs' # handoffs
    BY <1>1, <1>6, Writers DEF PrepareDelivery, Open, HaltsTold
  <1>7. CASE batches' # batches
    BY <1>1, <1>7, Writers DEF OpenBatch, Open, HaltsTold
  <1> QED
    BY <1>3, <1>4, <1>5, <1>6, <1>7

\* Everything below rests on the invariant.
LEMMA McpSafe == Spec => []McpInvariant
BY McpStarts, McpSteps, PTL DEF Spec

\* However queries, details, captures and metered calls interleave, every round and every
\* day keeps its limits, and a search is complete exactly when its listings were captured
\* (refusal_reason, take_in, mark_dispatched).
THEOREM ReadsKept == Spec => []ReadsSound
  <1>1. McpInvariant => ReadsSound
    BY DEF McpInvariant
  <1> QED
    BY <1>1, McpSafe, PTL

\* The source is asked once at most for a call, what is on record as not called never goes
\* out, and what is out is of one batch and within the parallel limit (mark_dispatched).
THEOREM CallsKept == Spec => []CallsSound
  <1>1. McpInvariant => CallsSound
    BY DEF McpInvariant
  <1> QED
    BY <1>1, McpSafe, PTL

\* Deliveries of a candidate go out one after another, each after the one before was read
\* back and at the distance, and none is counted for two (prepare_delivery, _unique_delivery).
THEOREM DeliveriesKept == Spec => []DeliveriesSound
  <1>1. McpInvariant => DeliveriesSound
    BY DEF McpInvariant
  <1> QED
    BY <1>1, McpSafe, PTL

\* The rounds of a candidate follow one another, each debited what the one before really
\* delivered and within what that leaves it (_activate, _budget, close_round).
THEOREM RoundsKept == Spec => []RoundsSound
  <1>1. McpInvariant => RoundsSound
    BY DEF McpInvariant
  <1> QED
    BY <1>1, McpSafe, PTL

\* On a day that a reading or a delivery has stopped, nothing is read, called or handed out
\* any more, and nothing lifts the stop (_halt).
THEOREM StopsHold == Spec => StopRespected
  <1>1. McpInvariant /\ [Next]_vars =>
          [attempts' # attempts \/ claims' # claims \/ dispatches' # dispatches
             \/ handoffs' # handoffs \/ batches' # batches => ~StoppedOn(Today)]_vars
    BY StopStep
  <1> QED
    BY <1>1, McpSafe, PTL DEF Spec, StopRespected

\* No late answer or second reading changes an outcome on record, and no stop is lifted
\* (finish, reconcile).
THEOREM RecordsStand == Spec => CallsStand
  <1>1. McpInvariant /\ [Next]_vars =>
          [\A c \in Calls :
             /\ results[c] # None => results[c]' = results[c]
             /\ Resolved(c) => Receipt(c)' = Receipt(c)]_vars
    BY ReceiptsStand DEF McpInvariant
  <1>2. Spec => OutcomeKept
    BY <1>1, McpSafe, PTL DEF Spec, OutcomeKept
  <1> QED
    BY <1>2, StopsHold DEF CallsStand
====
