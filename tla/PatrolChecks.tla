---- MODULE PatrolChecks ----
(***************************************************************************)
(* The pace of patrols: a check starts when one is due and is finished by  *)
(* a row of its own.  Time is counted in ticks; the person's windows are   *)
(* the ticks in ActiveTicks.                                               *)
(***************************************************************************)
EXTENDS Naturals, Sequences, FiniteSetsExt

CONSTANTS
    Wakers,       \* processes the scheduler starts
    NoCheck,      \* no value
    BaseEvery,    \* base_interval_minutes
    EscEvery,     \* escalated_interval_minutes
    EscFor,       \* escalation_minutes
    Slack,        \* slack_minutes
    Stale,        \* stale_minutes
    ActiveTicks,  \* ticks inside the person's windows
    LastTick,     \* bound on time
    MaxChecks     \* bound on checks

ASSUME CheckSorts ==
    /\ {BaseEvery, EscEvery, EscFor, Stale} \subseteq Nat \ {0} /\ Slack \in Nat
    /\ ActiveTicks \subseteq Nat /\ {LastTick, MaxChecks} \subseteq Nat

VARIABLES
    checks,   \* patrol_checks in the order they were stored, with their patrol_finishes
    waking,   \* what record has read
    heardAt,  \* when a recruiter last wrote
    tick

checkVars == <<checks, waking, heardAt, tick>>

CheckInit ==
    /\ checks = <<>> /\ waking = [w \in Wakers |-> NoCheck]
    /\ heardAt = NoCheck /\ tick = 0

----
\* The check that started last among some; a tick is coarser than checked_at.
Latest(S) == CHOOSE i \in S : \A j \in S : \/ checks[j].at < checks[i].at
                                           \/ checks[j].at = checks[i].at /\ j <= i

Finished == {i \in DOMAIN checks : checks[i].finished}

\* The newest finished check, and the newest of all when it is not finished; 0 for none.
LatestFinished == IF Finished = {} THEN 0 ELSE Latest(Finished)
LatestOpen == IF DOMAIN checks = {} \/ Latest(DOMAIN checks) \in Finished THEN 0 ELSE Latest(DOMAIN checks)

Escalated(now) == heardAt # NoCheck /\ now - heardAt < EscFor

\* Mutant: a check cut off is forgotten, and the pace is kept from the last finished one.
DecideFinishedOnly(now, last, open) ==
    LET every == IF Escalated(now) THEN EscEvery ELSE BaseEvery
        again == checks[last].at + every
        due == now \in ActiveTicks /\ (last = 0 \/ now + Slack >= again)
    IN  [due |-> due,
         running |-> FALSE,
         next |-> IF now \notin ActiveTicks THEN Min({t \in ActiveTicks : t > now} \cup {LastTick + 1})
                  ELSE IF due THEN now ELSE again]

\* decide: whether a check is due, when the next one is, and whether one is running, from the last
\* finished check and the open one.
Decide(now, last, open) ==
    LET every == IF Escalated(now) THEN EscEvery ELSE BaseEvery
        running == open # 0 /\ now < checks[open].at + Stale
        again == checks[last].at + every
        due == now \in ActiveTicks /\ ~running
               /\ (open # 0 \/ last = 0 \/ now + Slack >= again)
    IN  [due |-> due,
         running |-> now \in ActiveTicks /\ running,
         next |-> IF now \notin ActiveTicks THEN Min({t \in ActiveTicks : t > now} \cup {LastTick + 1})
                  ELSE IF running THEN checks[open].at + Stale
                  ELSE IF due THEN now ELSE again]

\* record reads the last finished check, the open one and the last message, each on a connection of
\* its own, and then stores the check it starts.  Only the properties ask how many checks were stored
\* when it began and which check was missed: the newest one, when it finished between the two reads.
RecordRead(w) ==
    /\ waking[w] = NoCheck /\ Len(checks) < MaxChecks
    /\ waking' = [waking EXCEPT ![w] =
           [step |-> "open", at |-> tick, last |-> LatestFinished, open |-> 0,
            stored |-> Len(checks), missed |-> 0]]
    /\ UNCHANGED <<checks, heardAt, tick>>

RecordReadOpen(w) ==
    /\ waking[w] # NoCheck /\ waking[w].step = "open"
    /\ waking' = [waking EXCEPT ![w] =
           [step |-> "decide", at |-> @.at, last |-> @.last, open |-> LatestOpen, stored |-> @.stored,
            missed |-> IF LatestOpen # 0 \/ LatestFinished = @.last THEN 0 ELSE LatestFinished]]
    /\ UNCHANGED <<checks, heardAt, tick>>

\* Refused when none is due.
RecordDecide(w) ==
    /\ waking[w] # NoCheck /\ waking[w].step = "decide"
    /\ waking' = [waking EXCEPT ![w] =
           IF Decide(@.at, @.last, @.open).due THEN [@ EXCEPT !.step = "save"] ELSE NoCheck]
    /\ UNCHANGED <<checks, heardAt, tick>>

RecordSave(w) ==
    /\ waking[w] # NoCheck /\ waking[w].step = "save" /\ Len(checks) < MaxChecks
    /\ checks' = Append(checks, [at |-> waking[w].at, finished |-> FALSE,
                                 stored |-> waking[w].stored, missed |-> waking[w].missed])
    /\ waking' = [waking EXCEPT ![w] = NoCheck]
    /\ UNCHANGED <<heardAt, tick>>

RecordDies(w) ==
    /\ waking[w] # NoCheck
    /\ waking' = [waking EXCEPT ![w] = NoCheck]
    /\ UNCHANGED <<checks, heardAt, tick>>

\* A check is finished once, however late.
FinishCheck(i) ==
    /\ ~checks[i].finished
    /\ checks' = [checks EXCEPT ![i].finished = TRUE]
    /\ UNCHANGED <<waking, heardAt, tick>>

RecruiterWrites ==
    /\ heardAt' = tick
    /\ UNCHANGED <<checks, waking, tick>>

PatrolTick ==
    /\ tick < LastTick /\ tick' = tick + 1
    /\ UNCHANGED <<checks, waking, heardAt>>

CheckNext ==
    \/ \E w \in Wakers : \/ RecordRead(w) \/ RecordReadOpen(w) \/ RecordDecide(w)
                         \/ RecordSave(w) \/ RecordDies(w)
    \/ \E i \in DOMAIN checks : FinishCheck(i)
    \/ RecruiterWrites \/ PatrolTick

CheckSpec == CheckInit /\ [][CheckNext]_checkVars

----
Shortest == Min({BaseEvery - Slack, EscEvery - Slack, Stale})

\* No other check was stored while this one was being recorded.
Alone(i) == checks[i].stored = i - 1

\* Checks are paced: one that was recorded alone starts an interval after every finished check
\* and, where one was cut off, not before that counts as stale - unless the newest check finished
\* between the two reads of record, which then saw it in neither (_decide, decide).
ChecksPaced ==
    \A i \in 1 .. Len(checks) : Alone(i) /\ checks[i].missed = 0 =>
        \A k \in 1 .. i - 1 : checks[i].at >= checks[k].at + Shortest

\* Of three checks in a row, recorded one at a time, the third is paced by the first: a finish read
\* too late makes one check early and never two (_decide).
EarlyOnce ==
    \A i \in 1 .. Len(checks) - 2 :
        Alone(i + 1) /\ Alone(i + 2) => checks[i + 2].at >= checks[i].at + Shortest

\* The moment next announces while a check is running is one at which the next is due, should it
\* never finish, whatever finished check each of the two commands reads (_decide, decide).
NextIsDue ==
    \A last, later \in Finished \cup {0} :
        LET d == Decide(tick, last, LatestOpen) IN
        d.running /\ d.next \in ActiveTicks => d.next > tick /\ Decide(d.next, later, LatestOpen).due

\* Checks keep their pace, and the time announced for the next one is when it is due (schedule.py).
PatrolPaced ==
    /\ ChecksPaced
    /\ EarlyOnce
    /\ NextIsDue
====
