---- MODULE TalkProofs ----
(***************************************************************************)
(* Proofs about what is said and when, in four parts that share no         *)
(* variable: PatrolChecks (when a check starts), MessageLists (what two    *)
(* lists of a board tell apart), Mailbox (what the front end and the main  *)
(* session leave each other) and Conversations (whatever commands and      *)
(* messages interleave, stages follow the table, and what is approved, let *)
(* out and logged of a reply is one reply to the latest message).          *)
(***************************************************************************)
EXTENDS PatrolChecks, MessageLists, Mailbox, Conversations, SequenceTheorems,
        FiniteSetTheorems, WellFoundedInduction, TLAPS

----
\* Numbers up to a bound have a greatest one, and any numbers a least one.
Less == {pair \in Nat \X Nat : pair[1] < pair[2]}

LEMMA LessWellFounded == IsWellFoundedOn(Less, Nat)
<1>1. OpToRel(<, Nat) = Less
  BY DEF OpToRel, Less
<1> QED BY <1>1, NatLessThanWellFounded, Zenon

LEMMA MinIs ==
    ASSUME NEW S \in SUBSET Nat, S # {}
    PROVE  Min(S) \in S /\ \A x \in S : Min(S) <= x
<1>1. PICK m \in S : \A x \in S : <<x, m>> \notin Less
  BY LessWellFounded, WFMin, Zenon
<1>2. ASSUME NEW x \in S PROVE m <= x
  <2>1. x \in Nat /\ m \in Nat /\ <<x, m>> \notin Less
    BY <1>1
  <2> QED BY <2>1 DEF Less
<1>3. \E x \in S : \A y \in S : x =< y
  BY <1>2
<1> QED BY <1>3, Zenon DEF Min

LEMMA MaxIs ==
    ASSUME NEW n \in Nat, NEW S \in SUBSET (0 .. n), S # {}
    PROVE  Max(S) \in S /\ \A x \in S : x <= Max(S)
<1> DEFINE T == {n - x : x \in S}
<1>1. T \in SUBSET Nat /\ T # {}
  <2>1. \A x \in S : n - x \in Nat
    OBVIOUS
  <2> QED BY <2>1
<1>2. Min(T) \in T /\ \A t \in T : Min(T) <= t
  <2> HIDE DEF T
  <2> QED BY <1>1, MinIs
<1>3. PICK m \in S : Min(T) = n - m
  BY <1>2
<1>4. ASSUME NEW x \in S PROVE m >= x
  <2>1. n - m <= n - x
    BY <1>2, <1>3
  <2>2. x \in 0 .. n /\ m \in 0 .. n
    OBVIOUS
  <2> QED BY <2>1, <2>2
<1>5. \E x \in S : \A y \in S : x >= y
  BY <1>4
<1>6. Max(S) \in S /\ \A y \in S : Max(S) >= y
  <2> HIDE DEF T
  <2> QED BY <1>5, Zenon DEF Max
<1> QED BY <1>6

----
\* Patrols.
CheckRows == [at : Nat, finished : BOOLEAN, stored : Nat, missed : Nat]
WakingRows == [step : {"open", "decide", "save"}, at : Nat, last : Nat, open : Nat, stored : Nat,
               missed : Nat]

CheckTypes ==
    /\ checks \in Seq(CheckRows) /\ \A i \in 1 .. Len(checks) : checks[i].at <= tick
    /\ waking \in [Wakers -> {NoCheck} \cup WakingRows]
    /\ tick \in Nat

\* Among the first n of some checks none starts after this one.
Topped(rows, n, m) == m \in 1 .. n /\ \A k \in 1 .. n : rows[k].at <= rows[m].at

\* A check that was missed had finished, and was the newest.
MissedFinished ==
    \A i \in 1 .. Len(checks) : Alone(i) /\ checks[i].missed # 0 =>
        checks[i].missed \in Finished /\ Topped(checks, i - 1, checks[i].missed)

\* What was decided keeps the pace.
DecidedPaced(rows, n, r) ==
    /\ r.missed = 0 => \A k \in 1 .. n : r.at >= rows[k].at + Shortest
    /\ n > 1 /\ rows[n].stored = n - 1 => r.at >= rows[n - 1].at + Shortest

\* What record has read fits n checks, some of them done, while no other was stored.
ReadFits(rows, n, done, r) ==
    /\ r.stored <= n /\ r.last \in 0 .. n /\ r.open \in 0 .. n
    /\ r.stored = n =>
        /\ \A k \in 1 .. n : rows[k].at <= r.at
        /\ r.missed # 0 => r.missed \in done /\ Topped(rows, n, r.missed)
        /\ r.open # 0 => Topped(rows, n, r.open)
        /\ r.step = "decide" /\ r.missed = 0 /\ r.open = 0 /\ n > 0 =>
              r.last # 0 /\ Topped(rows, n, r.last)
        /\ n > 1 /\ rows[n].stored = n - 1 =>
              \/ r.last # 0 /\ rows[r.last].at >= rows[n - 1].at
              \/ rows[n].at >= rows[n - 1].at + Shortest
        /\ r.step = "save" => DecidedPaced(rows, n, r)

ReadsFit ==
    \A w \in Wakers : waking[w] # NoCheck =>
        waking[w].at <= tick /\ ReadFits(checks, Len(checks), Finished, waking[w])

CheckInvariant == CheckTypes /\ ChecksPaced /\ EarlyOnce /\ MissedFinished /\ ReadsFit

LEMMA ShortestIs ==
    /\ Shortest \in Int
    /\ Shortest <= BaseEvery - Slack /\ Shortest <= EscEvery - Slack /\ Shortest <= Stale
<1> DEFINE S == {BaseEvery - Slack, EscEvery - Slack, Stale}
<1>1. BaseEvery - Slack \in Int /\ EscEvery - Slack \in Int /\ Stale \in Int
  BY CheckSorts
<1>2. \E x \in S : \A y \in S : x =< y
  BY <1>1
<1>3. Min(S) \in S /\ \A y \in S : Min(S) =< y
  <2> HIDE DEF S
  <2> QED BY <1>2, Zenon DEF Min
<1>4. Shortest = Min(S)
  BY DEF Shortest
<1> QED BY <1>1, <1>3, <1>4

\* The fields of what is stored are numbers.
LEMMA ChecksAre ==
    ASSUME CheckTypes
    PROVE  /\ Len(checks) \in Nat /\ DOMAIN checks = 1 .. Len(checks) /\ tick \in Nat
           /\ \A i \in 1 .. Len(checks) : /\ checks[i] \in CheckRows /\ checks[i].at \in 0 .. tick
                                          /\ checks[i].stored \in Nat /\ checks[i].missed \in Nat
<1>1. Len(checks) \in Nat /\ DOMAIN checks = 1 .. Len(checks)
  BY LenProperties DEF CheckTypes
<1>2. \A i \in 1 .. Len(checks) : checks[i] \in CheckRows
  BY ElementOfSeq DEF CheckTypes
<1> QED BY <1>1, <1>2 DEF CheckTypes, CheckRows

\* Among some checks one started last.
LEMMA LatestIs ==
    ASSUME CheckTypes, NEW S \in SUBSET (1 .. Len(checks)), S # {}
    PROVE  Latest(S) \in S /\ \A j \in S : checks[j].at <= checks[Latest(S)].at
<1> DEFINE T == {checks[j].at : j \in S}
<1>1. T \in SUBSET (0 .. tick) /\ T # {} /\ tick \in Nat /\ Len(checks) \in Nat
  BY ChecksAre
<1>2. Max(T) \in T /\ \A x \in T : x <= Max(T)
  <2> HIDE DEF T
  <2> QED BY <1>1, MaxIs
<1> DEFINE U == {j \in S : checks[j].at = Max(T)}
<1>3. U \in SUBSET (0 .. Len(checks)) /\ U # {}
  <2>1. 1 .. Len(checks) \subseteq 0 .. Len(checks)
    BY <1>1
  <2>2. PICK j \in S : checks[j].at = Max(T)
    BY <1>2
  <2> QED BY <2>1, <2>2
<1>4. Max(U) \in U /\ \A x \in U : x <= Max(U)
  <2> HIDE DEF U
  <2> QED BY <1>1, <1>3, MaxIs
<1>5. PICK i \in S : i = Max(U) /\ checks[i].at = Max(T)
  BY <1>4
<1>6. ASSUME NEW j \in S
      PROVE  checks[j].at < checks[i].at \/ (checks[j].at = checks[i].at /\ j <= i)
  <2>1. checks[j].at \in T /\ checks[j].at <= Max(T)
    BY <1>2
  <2>2. checks[j].at \in Nat /\ checks[i].at \in Nat
    BY <1>1
  <2>3. CASE checks[j].at = Max(T)
    <3>1. j \in U
      BY <2>3
    <3> QED BY <1>4, <1>5, <2>3, <3>1
  <2>4. CASE checks[j].at # Max(T)
    <3>1. PICK a \in Nat, b \in Nat : a = checks[j].at /\ b = checks[i].at
      BY <2>2
    <3>2. a <= b /\ a # b
      BY <1>5, <2>1, <2>4, <3>1
    <3> QED BY <3>1, <3>2
  <2> QED BY <2>3, <2>4
<1> HIDE DEF T, U
<1>7. \E k \in S : \A j \in S :
         checks[j].at < checks[k].at \/ (checks[j].at = checks[k].at /\ j <= k)
  BY <1>6
<1>8. /\ Latest(S) \in S
      /\ \A j \in S : checks[j].at < checks[Latest(S)].at
                      \/ (checks[j].at = checks[Latest(S)].at /\ j <= Latest(S))
  BY <1>7, Zenon DEF Latest
<1>9. \A j \in S : checks[j].at \in Nat
  BY ChecksAre
<1>10. PICK l \in S : l = Latest(S)
  BY <1>8
<1>11. \A j \in S : checks[j].at < checks[l].at \/ (checks[j].at = checks[l].at /\ j <= l)
  BY <1>8, <1>10
<1>12. \A j \in S : checks[j].at <= checks[l].at
  BY <1>9, <1>11
<1> QED BY <1>10, <1>12

\* The newest finished check, and the open one, are the newest of theirs.
LEMMA FinishedIs ==
    ASSUME CheckTypes
    PROVE  /\ LatestFinished \in 0 .. Len(checks)
           /\ Finished = {} <=> LatestFinished = 0
           /\ LatestFinished # 0 => LatestFinished \in Finished
           /\ \A k \in Finished : checks[k].at <= checks[LatestFinished].at
<1>1. Len(checks) \in Nat /\ Finished \in SUBSET (1 .. Len(checks))
  BY ChecksAre DEF Finished
<1>2. CASE Finished = {}
  BY <1>1, <1>2 DEF LatestFinished
<1>3. CASE Finished # {}
  <2>1. /\ Latest(Finished) \in Finished
        /\ \A j \in Finished : checks[j].at <= checks[Latest(Finished)].at
    BY <1>1, <1>3, LatestIs
  <2>2. LatestFinished = Latest(Finished) /\ LatestFinished \in 1 .. Len(checks)
    BY <1>1, <1>3, <2>1 DEF LatestFinished
  <2>3. LatestFinished # 0 /\ LatestFinished \in 0 .. Len(checks)
    BY <1>1, <2>2
  <2> QED BY <1>3, <2>1, <2>2, <2>3
<1> QED BY <1>2, <1>3

LEMMA OpenIs ==
    ASSUME CheckTypes
    PROVE  /\ LatestOpen \in 0 .. Len(checks)
           /\ LatestOpen # 0 => Topped(checks, Len(checks), LatestOpen)
           /\ LatestOpen = 0 /\ Len(checks) > 0 =>
                 LatestFinished \in Finished /\ Topped(checks, Len(checks), LatestFinished)
<1> DEFINE n == Len(checks)
           l == Latest(1 .. n)
<1>1. n \in Nat /\ DOMAIN checks = 1 .. n /\ Finished \in SUBSET (1 .. n)
  BY ChecksAre DEF Finished
<1>2. CASE n = 0
  BY <1>1, <1>2 DEF LatestOpen
<1>3. CASE n # 0
  <2>1. 1 .. n # {} /\ (1 .. n) \in SUBSET (1 .. Len(checks))
    BY <1>1, <1>3
  <2>2. l \in 1 .. n /\ \A j \in 1 .. n : checks[j].at <= checks[l].at
    BY <2>1, LatestIs
  <2>3. LatestOpen = IF l \in Finished THEN 0 ELSE l
    BY <1>1, <2>1 DEF LatestOpen
  <2>4. CASE l \notin Finished
    BY <1>1, <2>2, <2>3, <2>4 DEF Topped
  <2>5. CASE l \in Finished
    <3>1. LatestFinished \in Finished /\ checks[l].at <= checks[LatestFinished].at
      BY <2>5, FinishedIs
    <3>2. \A j \in 1 .. n : checks[j].at \in Nat
      BY ChecksAre
    <3>3. LatestFinished \in 1 .. n
      BY <1>1, <3>1
    <3>4. \A j \in 1 .. n : checks[j].at <= checks[LatestFinished].at
      BY <2>2, <3>1, <3>2, <3>3
    <3> QED BY <1>1, <2>3, <2>5, <3>1, <3>3, <3>4 DEF Topped
  <2> QED BY <2>4, <2>5
<1> QED BY <1>2, <1>3

\* A check that is due starts an interval after the finished check it was paced from, and after one
\* that was cut off once that is stale.
LEMMA DuePaced ==
    ASSUME CheckTypes, NEW now \in Nat, NEW last \in 0 .. Len(checks), NEW open \in 0 .. Len(checks),
           Decide(now, last, open).due
    PROVE  /\ open # 0 => now >= checks[open].at + Shortest
           /\ open = 0 /\ last # 0 => now >= checks[last].at + Shortest
<1> DEFINE every == IF Escalated(now) THEN EscEvery ELSE BaseEvery
<1>1. /\ ~(open # 0 /\ now < checks[open].at + Stale)
      /\ open # 0 \/ last = 0 \/ now + Slack >= checks[last].at + every
  BY DEF Decide
<1>2. Stale \in Nat /\ Slack \in Nat /\ BaseEvery \in Nat /\ EscEvery \in Nat
  BY CheckSorts
<1>3. every \in Nat /\ Shortest <= every - Slack /\ Shortest <= Stale /\ Shortest \in Int
  BY <1>2, ShortestIs
<1>4. Len(checks) \in Nat /\ \A i \in 1 .. Len(checks) : checks[i].at \in Nat
  BY ChecksAre
<1> HIDE DEF every
<1>5. ASSUME open # 0 PROVE now >= checks[open].at + Shortest
  <2>1. open \in 1 .. Len(checks)
    BY <1>4, <1>5
  <2>2. PICK a \in Nat : a = checks[open].at
    BY <1>4, <2>1
  <2>3. now >= a + Stale
    BY <1>1, <1>2, <1>5, <2>2
  <2> QED BY <1>2, <1>3, <2>2, <2>3
<1>6. ASSUME open = 0, last # 0 PROVE now >= checks[last].at + Shortest
  <2>1. last \in 1 .. Len(checks)
    BY <1>4, <1>6
  <2>2. PICK a \in Nat : a = checks[last].at
    BY <1>4, <2>1
  <2>3. now + Slack >= a + every
    BY <1>1, <1>6, <2>2
  <2> QED BY <1>2, <1>3, <2>2, <2>3
<1> QED BY <1>5, <1>6

\* The time announced while a check runs is when the next is due.
LEMMA AnnouncedDue == CheckTypes => NextIsDue
<1> SUFFICES ASSUME CheckTypes, NEW last \in Finished \cup {0}, NEW later \in Finished \cup {0},
                    Decide(tick, last, LatestOpen).running,
                    Decide(tick, last, LatestOpen).next \in ActiveTicks
             PROVE  /\ Decide(tick, last, LatestOpen).next > tick
                    /\ Decide(Decide(tick, last, LatestOpen).next, later, LatestOpen).due
  BY DEF NextIsDue
<1>1. tick \in ActiveTicks /\ LatestOpen # 0 /\ tick < checks[LatestOpen].at + Stale
  BY DEF Decide
<1>2. checks[LatestOpen].at \in Nat /\ Stale \in Nat /\ tick \in Nat
  <2>1. LatestOpen \in 1 .. Len(checks)
    BY <1>1, OpenIs, ChecksAre
  <2> QED BY <2>1, ChecksAre, CheckSorts
<1>3. Decide(tick, last, LatestOpen).next = checks[LatestOpen].at + Stale
  BY <1>1 DEF Decide
<1>4. PICK t : t = checks[LatestOpen].at + Stale
  OBVIOUS
<1>5. t \in ActiveTicks /\ t > tick /\ ~(t < checks[LatestOpen].at + Stale)
  BY <1>1, <1>2, <1>3, <1>4
<1>6. Decide(t, later, LatestOpen).due
  BY <1>1, <1>5 DEF Decide
<1> QED BY <1>3, <1>4, <1>5, <1>6

\* Steps that store no check.
Steady ==
    /\ Len(checks') = Len(checks) /\ tick <= tick' /\ Finished \subseteq Finished'
    /\ \A i \in 1 .. Len(checks) : /\ checks'[i].at = checks[i].at
                                   /\ checks'[i].stored = checks[i].stored
                                   /\ checks'[i].missed = checks[i].missed

LEMMA SteadyReads ==
    ASSUME NEW n \in Nat, NEW rows, NEW news, NEW done, NEW more, done \subseteq more,
           \A i \in 1 .. n : news[i].at = rows[i].at /\ news[i].stored = rows[i].stored,
           NEW r \in WakingRows, ReadFits(rows, n, done, r)
    PROVE  ReadFits(news, n, more, r)
<1>1. \A m : Topped(rows, n, m) <=> Topped(news, n, m)
  BY DEF Topped
<1>2. n > 1 => n \in 1 .. n /\ n - 1 \in 1 .. n
  OBVIOUS
<1>3. r.last # 0 /\ r.last \in 0 .. n => r.last \in 1 .. n
  OBVIOUS
<1>4. DecidedPaced(rows, n, r) <=> DecidedPaced(news, n, r)
  BY <1>2 DEF DecidedPaced
<1> QED BY <1>1, <1>2, <1>3, <1>4 DEF ReadFits

LEMMA SteadyRows ==
    ASSUME CheckTypes, ChecksPaced, EarlyOnce, MissedFinished, Steady
    PROVE  ChecksPaced' /\ EarlyOnce' /\ MissedFinished'
<1> DEFINE n == Len(checks)
<1>1. n \in Nat /\ Len(checks)' = n
  BY ChecksAre DEF Steady
<1>2. /\ \A i \in 1 .. n : /\ checks'[i].at = checks[i].at /\ checks'[i].missed = checks[i].missed
                           /\ Alone(i)' <=> Alone(i)
      /\ Finished \subseteq Finished'
  BY DEF Steady, Alone
<1> HIDE DEF n
<1>3. ChecksPaced'
  <2> SUFFICES ASSUME NEW i \in 1 .. n, Alone(i)', checks'[i].missed = 0, NEW k \in 1 .. i - 1
               PROVE  checks'[i].at >= checks'[k].at + Shortest
    BY <1>1 DEF ChecksPaced, Shortest, Alone
  <2>1. k \in 1 .. n
    BY <1>1
  <2> QED BY <1>2, <2>1 DEF ChecksPaced, n
<1>4. EarlyOnce'
  <2> SUFFICES ASSUME NEW i \in 1 .. n - 2, Alone(i + 1)', Alone(i + 2)'
               PROVE  checks'[i + 2].at >= checks'[i].at + Shortest
    BY <1>1 DEF EarlyOnce, Shortest, Alone
  <2>1. i \in 1 .. n /\ i + 1 \in 1 .. n /\ i + 2 \in 1 .. n
    BY <1>1
  <2> QED BY <1>2, <2>1 DEF EarlyOnce, n
<1>5. MissedFinished'
  <2> SUFFICES ASSUME NEW i \in 1 .. n, Alone(i)', checks'[i].missed # 0
               PROVE  checks'[i].missed \in Finished' /\ Topped(checks', i - 1, checks'[i].missed)
    BY <1>1, <1>2 DEF MissedFinished, Alone, Topped
  <2>1. checks[i].missed \in Finished /\ Topped(checks, i - 1, checks[i].missed)
    BY <1>2 DEF MissedFinished, n
  <2>2. \A k \in 1 .. i - 1 : k \in 1 .. n
    BY <1>1
  <2>3. checks[i].missed \in 1 .. i - 1
    BY <2>1 DEF Topped
  <2> QED BY <1>2, <2>1, <2>2, <2>3 DEF Topped
<1> QED BY <1>3, <1>4, <1>5

LEMMA CheckStart == CheckInit => CheckInvariant
<1> SUFFICES ASSUME CheckInit PROVE CheckInvariant
  OBVIOUS
<1>1. <<>> \in Seq(CheckRows) /\ Len(<<>>) = 0
  BY EmptySeq
<1> QED BY <1>1 DEF CheckInit, CheckInvariant, CheckTypes, ChecksPaced, EarlyOnce, MissedFinished, ReadsFit

\* A step that stores no check keeps what is known of the checks and of who has read them.
LEMMA SteadyStep ==
    ASSUME CheckInvariant, CheckTypes', Steady,
           \A w \in Wakers : waking'[w] # NoCheck =>
               \/ waking'[w] = waking[w]
               \/ waking'[w].at <= tick' /\ ReadFits(checks', Len(checks'), Finished', waking'[w])
    PROVE  CheckInvariant'
<1>1. ChecksPaced' /\ EarlyOnce' /\ MissedFinished'
  BY SteadyRows DEF CheckInvariant
<1>2. ASSUME NEW w \in Wakers, waking'[w] # NoCheck, waking'[w] = waking[w]
      PROVE  waking'[w].at <= tick' /\ ReadFits(checks', Len(checks'), Finished', waking'[w])
  <2>1. PICK r : r = waking[w]
    OBVIOUS
  <2>2. r \in WakingRows /\ r.at <= tick /\ ReadFits(checks, Len(checks), Finished, r)
    BY <1>2, <2>1 DEF CheckInvariant, CheckTypes, ReadsFit
  <2>3. r.at \in Nat /\ tick \in Nat /\ tick' \in Nat /\ tick <= tick'
    BY <2>2 DEF WakingRows, CheckInvariant, CheckTypes, Steady
  <2>4. PICK n \in Nat : n = Len(checks)
    BY ChecksAre DEF CheckInvariant
  <2>5. /\ Len(checks') = n /\ Finished \subseteq Finished'
        /\ \A i \in 1 .. n : checks'[i].at = checks[i].at /\ checks'[i].stored = checks[i].stored
    BY <2>4 DEF Steady
  <2>6. ReadFits(checks, n, Finished, r)
    BY <2>2, <2>4
  <2>7. ReadFits(checks', n, Finished', r)
    BY <2>2, <2>5, <2>6, SteadyReads
  <2> QED BY <1>2, <2>1, <2>2, <2>3, <2>5, <2>7
<1>3. ReadsFit'
  BY <1>2, Zenon DEF ReadsFit
<1> QED BY <1>1, <1>3 DEF CheckInvariant

\* What a waker reads first: every check is older, and the second last is paced by the last finished
\* one or paces the last.
LEMMA ReadKeeps ==
    ASSUME CheckInvariant, NEW w \in Wakers, RecordRead(w)
    PROVE  CheckInvariant'
<1>1. PICK r : r = [step |-> "open", at |-> tick, last |-> LatestFinished, open |-> 0,
                   stored |-> Len(checks), missed |-> 0]
  OBVIOUS
<1>2. /\ checks' = checks /\ tick' = tick /\ waking' = [waking EXCEPT ![w] = r]
  BY <1>1 DEF RecordRead
<1>3. /\ LatestFinished \in 0 .. Len(checks)
      /\ Finished = {} <=> LatestFinished = 0
      /\ \A k \in Finished : checks[k].at <= checks[LatestFinished].at
  BY FinishedIs DEF CheckInvariant
<1>4. PICK n \in Nat : n = Len(checks)
  BY ChecksAre DEF CheckInvariant
<1>5. /\ \A i \in 1 .. n : checks[i].at \in 0 .. tick /\ checks[i].missed \in Nat
      /\ tick \in Nat /\ Finished \subseteq 1 .. n
  BY <1>4, ChecksAre DEF CheckInvariant, Finished
<1>6. /\ r.step = "open" /\ r.at = tick /\ r.last = LatestFinished /\ r.open = 0
      /\ r.stored = n /\ r.missed = 0
  BY <1>1, <1>4
<1>7. r \in WakingRows
  BY <1>1, <1>3, <1>4, <1>5 DEF WakingRows
<1>8. ASSUME n > 1, checks[n].stored = n - 1
      PROVE  \/ r.last # 0 /\ checks[r.last].at >= checks[n - 1].at
             \/ checks[n].at >= checks[n - 1].at + Shortest
  <2>1. n \in 1 .. n /\ n - 1 \in 1 .. n - 1 /\ n - 1 \in 1 .. n /\ Alone(n)
    BY <1>8 DEF Alone
  <2>2. CASE checks[n].missed = 0
    BY <1>4, <2>1, <2>2 DEF CheckInvariant, ChecksPaced
  <2>3. CASE checks[n].missed # 0
    <3>1. PICK m : m = checks[n].missed
      OBVIOUS
    <3>2. m \in Finished /\ Topped(checks, n - 1, m)
      BY <1>4, <2>1, <2>3, <3>1 DEF CheckInvariant, MissedFinished
    <3>3. checks[n - 1].at <= checks[m].at /\ checks[m].at <= checks[LatestFinished].at
      BY <1>3, <2>1, <3>2 DEF Topped
    <3>4. LatestFinished # 0 /\ LatestFinished \in 1 .. n /\ m \in 1 .. n
      BY <1>3, <1>4, <1>5, <3>2
    <3>5. checks[n - 1].at \in Nat /\ checks[m].at \in Nat /\ checks[LatestFinished].at \in Nat
      BY <1>5, <2>1, <3>4
    <3>6. checks[LatestFinished].at >= checks[n - 1].at
      BY <3>3, <3>5
    <3> QED BY <1>6, <3>4, <3>6
  <2> QED BY <2>2, <2>3
<1>9. ReadFits(checks, n, Finished, r)
  BY <1>3, <1>4, <1>5, <1>6, <1>8 DEF ReadFits
<1>10. CheckTypes'
  BY <1>2, <1>7 DEF CheckInvariant, CheckTypes
<1>11. Finished' = Finished /\ Steady
  BY <1>2, <1>5 DEF Finished, Steady
<1>12. \A v \in Wakers : waking'[v] = IF v = w THEN r ELSE waking[v]
  BY <1>2 DEF CheckInvariant, CheckTypes
<1>13. r.at <= tick'
  BY <1>2, <1>5, <1>6
<1> QED BY <1>2, <1>4, <1>9, <1>10, <1>11, <1>12, <1>13, SteadyStep

LEMMA ReadOpenKeeps ==
    ASSUME CheckInvariant, NEW w \in Wakers, RecordReadOpen(w)
    PROVE  CheckInvariant'
<1>1. PICK old : old = waking[w]
  OBVIOUS
<1>2. PICK missed : missed = IF LatestOpen # 0 \/ LatestFinished = old.last THEN 0 ELSE LatestFinished
  OBVIOUS
<1>3. PICK r : r = [step |-> "decide", at |-> old.at, last |-> old.last, open |-> LatestOpen,
                   stored |-> old.stored, missed |-> missed]
  OBVIOUS
<1>4. /\ checks' = checks /\ tick' = tick /\ waking' = [waking EXCEPT ![w] = r]
      /\ old # NoCheck
  BY <1>1, <1>2, <1>3, Zenon DEF RecordReadOpen, CheckInvariant, CheckTypes
<1>5. PICK n \in Nat : n = Len(checks)
  BY ChecksAre DEF CheckInvariant
<1>6. old \in WakingRows /\ old.at <= tick /\ ReadFits(checks, n, Finished, old)
  BY <1>1, <1>4, <1>5 DEF CheckInvariant, CheckTypes, ReadsFit
<1>7. /\ LatestFinished \in 0 .. n
      /\ LatestFinished # 0 => LatestFinished \in Finished
  BY <1>5, FinishedIs DEF CheckInvariant
<1>8. /\ LatestOpen \in 0 .. n
      /\ LatestOpen # 0 => Topped(checks, n, LatestOpen)
      /\ LatestOpen = 0 /\ n > 0 => LatestFinished \in Finished /\ Topped(checks, n, LatestFinished)
  BY <1>5, OpenIs DEF CheckInvariant
<1>9. /\ r.step = "decide" /\ r.at = old.at /\ r.last = old.last /\ r.open = LatestOpen
      /\ r.stored = old.stored /\ r.missed = missed
  BY <1>3
<1>10. r \in WakingRows
  BY <1>2, <1>3, <1>6, <1>7, <1>8 DEF WakingRows
<1>11. missed # 0 => missed \in Finished /\ (n > 0 => Topped(checks, n, missed)) /\ LatestOpen = 0
  BY <1>2, <1>7, <1>8
<1>12. ASSUME missed = 0, LatestOpen = 0, n > 0 PROVE old.last # 0 /\ Topped(checks, n, old.last)
  <2>1. LatestFinished \in Finished /\ Topped(checks, n, LatestFinished)
    BY <1>8, <1>12
  <2>2. LatestFinished # 0
    BY <2>1, <1>5 DEF Topped
  <2> QED BY <1>2, <1>12, <2>1, <2>2
<1>13. missed # 0 => n > 0
  <2>1. Finished \subseteq 1 .. n
    BY <1>5, ChecksAre DEF CheckInvariant, Finished
  <2>2. ASSUME missed # 0 PROVE n > 0
    <3>1. missed \in 1 .. n
      BY <1>11, <2>1, <2>2
    <3> QED BY <3>1
  <2> QED BY <2>2
<1>14. ReadFits(checks, n, Finished, r)
  BY <1>6, <1>8, <1>9, <1>11, <1>12, <1>13 DEF ReadFits
<1>15. CheckTypes'
  BY <1>4, <1>10 DEF CheckInvariant, CheckTypes
<1>16. Finished' = Finished /\ Steady
  BY <1>4, ChecksAre DEF Finished, Steady, CheckInvariant
<1>17. \A v \in Wakers : waking'[v] = IF v = w THEN r ELSE waking[v]
  BY <1>4 DEF CheckInvariant, CheckTypes
<1>18. r.at <= tick'
  BY <1>4, <1>6, <1>9
<1> QED BY <1>4, <1>5, <1>14, <1>15, <1>16, <1>17, <1>18, SteadyStep

\* Who finds a check due has read one it is paced from, or missed the newest.
LEMMA DueFits ==
    ASSUME CheckTypes, NEW r \in WakingRows, NEW s \in WakingRows, NEW n \in Nat, n = Len(checks),
           ReadFits(checks, n, Finished, r), r.step = "decide", Decide(r.at, r.last, r.open).due,
           /\ s.step = "save" /\ s.at = r.at /\ s.last = r.last /\ s.open = r.open
           /\ s.stored = r.stored /\ s.missed = r.missed
    PROVE  ReadFits(checks, n, Finished, s)
<1>1. r.at \in Nat /\ r.last \in 0 .. n /\ r.open \in 0 .. n
  BY DEF WakingRows, ReadFits
<1>2. /\ r.open # 0 => r.at >= checks[r.open].at + Shortest
      /\ r.open = 0 /\ r.last # 0 => r.at >= checks[r.last].at + Shortest
  BY <1>1, DuePaced
<1>3. /\ \A i \in 1 .. n : checks[i].at \in Nat
      /\ Shortest \in Int
  BY ChecksAre, ShortestIs
<1>4. ASSUME r.stored = n, r.missed = 0, NEW k \in 1 .. n
      PROVE  r.at >= checks[k].at + Shortest
  <2>1. CASE r.open # 0
    <3>1. r.open \in 1 .. n /\ checks[k].at <= checks[r.open].at
      BY <1>4, <2>1 DEF ReadFits, Topped
    <3> QED BY <1>1, <1>2, <1>3, <2>1, <3>1
  <2>2. CASE r.open = 0
    <3>1. r.last # 0 /\ r.last \in 1 .. n /\ checks[k].at <= checks[r.last].at
      BY <1>4, <2>2 DEF ReadFits, Topped
    <3> QED BY <1>1, <1>2, <1>3, <2>2, <3>1
  <2> QED BY <2>1, <2>2
<1>5. ASSUME r.stored = n, n > 1, checks[n].stored = n - 1
      PROVE  r.at >= checks[n - 1].at + Shortest
  <2>1. n \in 1 .. n /\ n - 1 \in 1 .. n
    BY <1>5
  <2>2. checks[n].at <= r.at
    BY <1>5, <2>1 DEF ReadFits
  <2>3. CASE checks[n].at >= checks[n - 1].at + Shortest
    BY <1>1, <1>3, <2>1, <2>2, <2>3
  <2>4. CASE ~(checks[n].at >= checks[n - 1].at + Shortest)
    <3>1. r.last # 0 /\ checks[r.last].at >= checks[n - 1].at
      BY <1>5, <2>4 DEF ReadFits
    <3>2. CASE r.open = 0
      <4>1. r.last \in 1 .. n
        BY <1>1, <3>1
      <4> QED BY <1>1, <1>2, <1>3, <2>1, <3>1, <3>2, <4>1
    <3>3. CASE r.open # 0
      <4>1. r.open \in 1 .. n /\ checks[n - 1].at <= checks[r.open].at
        BY <1>5, <2>1, <3>3 DEF ReadFits, Topped
      <4>2. PICK a \in Nat, b \in Nat : a = checks[n - 1].at /\ b = checks[r.open].at
        BY <1>3, <2>1, <4>1
      <4>3. a <= b /\ r.at >= b + Shortest
        BY <1>2, <3>3, <4>1, <4>2
      <4>4. ASSUME NEW x \in Nat, NEW y \in Nat, NEW z \in Nat, NEW d \in Int, x <= y, z >= y + d
            PROVE  z >= x + d
        BY <4>4
      <4>5. r.at >= a + Shortest
        <5>1. PICK z \in Nat, d \in Int : z = r.at /\ d = Shortest
          BY <1>1, <1>3
        <5>2. z >= b + d
          BY <4>3, <5>1
        <5>3. z >= a + d
          BY ONLY <4>2, <4>3, <4>4, <5>1, <5>2
        <5> QED BY <5>1, <5>3
      <4> QED BY <4>2, <4>5
    <3> QED BY <3>2, <3>3
  <2> QED BY <2>3, <2>4
<1>6. s.stored = n => DecidedPaced(checks, n, s)
  BY <1>4, <1>5 DEF DecidedPaced
<1> QED BY <1>6 DEF ReadFits

LEMMA DecideKeeps ==
    ASSUME CheckInvariant, NEW w \in Wakers, RecordDecide(w)
    PROVE  CheckInvariant'
<1>1. PICK old : old = waking[w]
  OBVIOUS
<1>2. PICK r : r = IF Decide(old.at, old.last, old.open).due THEN [old EXCEPT !.step = "save"]
                   ELSE NoCheck
  OBVIOUS
<1>3. /\ checks' = checks /\ tick' = tick /\ waking' = [waking EXCEPT ![w] = r]
      /\ old # NoCheck /\ old.step = "decide"
  BY <1>1, <1>2, Zenon DEF RecordDecide, CheckInvariant, CheckTypes
<1>4. PICK n \in Nat : n = Len(checks)
  BY ChecksAre DEF CheckInvariant
<1>5. old \in WakingRows /\ old.at <= tick /\ ReadFits(checks, n, Finished, old)
  BY <1>1, <1>3, <1>4 DEF CheckInvariant, CheckTypes, ReadsFit
<1>6. ASSUME r # NoCheck
      PROVE  r \in WakingRows /\ r.at <= tick /\ ReadFits(checks, n, Finished, r)
  <2>1. PICK s : s = [old EXCEPT !.step = "save"]
    OBVIOUS
  <2>2. /\ s \in WakingRows /\ s.step = "save" /\ s.at = old.at /\ s.last = old.last
        /\ s.open = old.open /\ s.stored = old.stored /\ s.missed = old.missed
    BY <1>5, <2>1 DEF WakingRows
  <2>3. Decide(old.at, old.last, old.open).due /\ r = s
    BY <1>2, <1>6, <2>1, Zenon
  <2>4. ReadFits(checks, n, Finished, s)
    BY <1>3, <1>4, <1>5, <2>2, <2>3, DueFits DEF CheckInvariant
  <2> QED BY <1>5, <2>2, <2>3, <2>4
<1>7. CheckTypes'
  BY <1>3, <1>6 DEF CheckInvariant, CheckTypes
<1>8. Finished' = Finished /\ Steady
  BY <1>3, ChecksAre DEF Finished, Steady, CheckInvariant
<1>9. \A v \in Wakers : waking'[v] = IF v = w THEN r ELSE waking[v]
  BY <1>3 DEF CheckInvariant, CheckTypes
<1> QED BY <1>3, <1>4, <1>6, <1>7, <1>8, <1>9, SteadyStep

\* The check that is stored was decided on what is known of the others, if it is the only one.
LEMMA SaveKeeps ==
    ASSUME CheckInvariant, NEW w \in Wakers, RecordSave(w)
    PROVE  CheckInvariant'
<1>1. PICK r : r = waking[w]
  OBVIOUS
<1>2. PICK row : row = [at |-> r.at, finished |-> FALSE, stored |-> r.stored, missed |-> r.missed]
  OBVIOUS
<1>3. /\ checks' = Append(checks, row) /\ tick' = tick /\ waking' = [waking EXCEPT ![w] = NoCheck]
      /\ r # NoCheck /\ r.step = "save"
  BY <1>1, <1>2, Zenon DEF RecordSave
<1>4. PICK n \in Nat : n = Len(checks)
  BY ChecksAre DEF CheckInvariant
<1>5. r \in WakingRows /\ r.at <= tick /\ ReadFits(checks, n, Finished, r)
  BY <1>1, <1>3, <1>4 DEF CheckInvariant, CheckTypes, ReadsFit
<1>6. /\ row \in CheckRows /\ row.at = r.at /\ row.stored = r.stored /\ row.missed = r.missed
      /\ r.at \in Nat /\ r.stored \in Nat /\ r.missed \in Nat
  BY <1>2, <1>5 DEF CheckRows, WakingRows
<1>7. /\ checks' \in Seq(CheckRows) /\ Len(checks') = n + 1 /\ DOMAIN checks' = 1 .. n + 1
      /\ \A i \in 1 .. n : checks'[i] = checks[i]
      /\ checks'[n + 1] = row
  <2>1. checks \in Seq(CheckRows)
    BY DEF CheckInvariant, CheckTypes
  <2>2. /\ checks' \in Seq(CheckRows) /\ Len(checks') = n + 1
        /\ \A i \in 1 .. n : checks'[i] = checks[i]
        /\ checks'[n + 1] = row
    BY <1>3, <1>4, <1>6, <2>1, AppendProperties
  <2> QED BY <2>2, LenProperties
<1>8. \A i \in 1 .. n : i \in Finished => i \in Finished'
  BY <1>7 DEF Finished
<1>9. /\ \A i \in 1 .. n : checks[i].at \in 0 .. tick
      /\ \A i \in 1 .. n : Alone(i)' <=> Alone(i)
      /\ Alone(n + 1)' <=> r.stored = n
  <2>1. \A i \in 1 .. n : Alone(i)' <=> Alone(i)
    BY <1>7 DEF Alone
  <2>2. Alone(n + 1)' <=> r.stored = n
    BY <1>6, <1>7 DEF Alone
  <2> QED BY <1>4, <2>1, <2>2, ChecksAre DEF CheckInvariant
<1>10. CheckTypes'
  <2>1. \A i \in 1 .. n + 1 : checks'[i].at <= tick
    BY <1>5, <1>6, <1>7, <1>9
  <2> QED BY <1>3, <1>7, <2>1 DEF CheckInvariant, CheckTypes
<1>11. ASSUME r.stored = n PROVE DecidedPaced(checks, n, r)
  BY <1>3, <1>5, <1>11 DEF ReadFits
<1>12. ChecksPaced'
  <2> SUFFICES ASSUME NEW i \in 1 .. n + 1, Alone(i)', checks'[i].missed = 0, NEW k \in 1 .. i - 1
               PROVE  checks'[i].at >= checks'[k].at + Shortest
    BY <1>7 DEF ChecksPaced, Shortest, Alone
  <2>1. k \in 1 .. n
    OBVIOUS
  <2>2. CASE i \in 1 .. n
    BY <1>4, <1>7, <1>9, <2>1, <2>2 DEF CheckInvariant, ChecksPaced
  <2>3. CASE i = n + 1
    BY <1>6, <1>7, <1>9, <1>11, <2>1, <2>3 DEF DecidedPaced
  <2> QED BY <2>2, <2>3
<1>13. EarlyOnce'
  <2> SUFFICES ASSUME NEW i \in 1 .. Len(checks') - 2, Alone(i + 1)', Alone(i + 2)'
               PROVE  checks'[i + 2].at >= checks'[i].at + Shortest
    BY DEF EarlyOnce, Shortest, Alone
  <2>1. i \in 1 .. n /\ i + 1 \in 1 .. n /\ i + 2 \in 1 .. n + 1
    BY <1>7
  <2>2. CASE i + 2 \in 1 .. n
    <3>1. i \in 1 .. n - 2
      BY <2>2
    <3> QED BY <1>4, <1>7, <1>9, <2>1, <2>2, <3>1 DEF CheckInvariant, EarlyOnce
  <2>3. CASE i + 2 = n + 1
    <3>1. i = n - 1 /\ n > 1 /\ i + 1 = n
      BY <2>1, <2>3
    <3>2. checks[n].stored = n - 1
      BY <1>9, <2>1, <3>1 DEF Alone
    <3>3. r.at >= checks[n - 1].at + Shortest
      BY <1>9, <1>11, <2>3, <3>1, <3>2 DEF DecidedPaced
    <3> QED BY <1>6, <1>7, <2>1, <2>3, <3>1, <3>3
  <2> QED BY <2>1, <2>2, <2>3
<1>14. MissedFinished'
  <2> SUFFICES ASSUME NEW i \in 1 .. n + 1, Alone(i)', checks'[i].missed # 0
               PROVE  checks'[i].missed \in Finished' /\ Topped(checks', i - 1, checks'[i].missed)
    BY <1>7 DEF MissedFinished, Alone
  <2>1. ASSUME NEW m, m \in Finished, Topped(checks, i - 1, m)
        PROVE  m \in Finished' /\ Topped(checks', i - 1, m)
    <3>1. m \in 1 .. i - 1 /\ \A k \in 1 .. i - 1 : k \in 1 .. n
      BY <2>1 DEF Topped
    <3> QED BY <1>7, <1>8, <2>1, <3>1 DEF Topped
  <2>2. CASE i \in 1 .. n
    <3>1. checks[i].missed \in Finished /\ Topped(checks, i - 1, checks[i].missed)
      BY <1>4, <1>7, <1>9, <2>2 DEF CheckInvariant, MissedFinished
    <3> QED BY <1>7, <2>1, <2>2, <3>1
  <2>3. CASE i = n + 1
    <3>1. r.missed \in Finished /\ Topped(checks, n, r.missed)
      BY <1>5, <1>6, <1>7, <1>9, <2>3 DEF ReadFits
    <3> QED BY <1>6, <1>7, <2>1, <2>3, <3>1
  <2> QED BY <2>2, <2>3
<1>15. ReadsFit'
  <2> SUFFICES ASSUME NEW v \in Wakers, waking'[v] # NoCheck
               PROVE  waking'[v].at <= tick' /\ ReadFits(checks', Len(checks'), Finished', waking'[v])
    BY Zenon DEF ReadsFit
  <2>1. waking'[v] = waking[v]
    BY <1>3 DEF CheckInvariant, CheckTypes
  <2>2. PICK s : s = waking[v]
    OBVIOUS
  <2>3. s \in WakingRows /\ s.at <= tick /\ ReadFits(checks, n, Finished, s)
    BY <1>4, <2>1, <2>2 DEF CheckInvariant, CheckTypes, ReadsFit
  <2>4. s.stored \in Nat /\ s.stored <= n /\ s.last \in 0 .. n + 1 /\ s.open \in 0 .. n + 1
    BY <2>3 DEF ReadFits, WakingRows
  <2>5. s.stored <= n + 1 /\ s.stored # n + 1
    BY <2>4
  <2>6. ReadFits(checks', n + 1, Finished', s)
    BY <2>4, <2>5 DEF ReadFits
  <2> QED BY <1>3, <1>7, <2>1, <2>2, <2>3, <2>6
<1> QED BY <1>10, <1>12, <1>13, <1>14, <1>15 DEF CheckInvariant

LEMMA CheckStep == CheckInvariant /\ [CheckNext]_checkVars => CheckInvariant'
<1> SUFFICES ASSUME CheckInvariant, [CheckNext]_checkVars PROVE CheckInvariant'
  OBVIOUS
<1>1. /\ checks \in Seq(CheckRows) /\ \A i \in 1 .. Len(checks) : checks[i].at <= tick
      /\ waking \in [Wakers -> {NoCheck} \cup WakingRows] /\ tick \in Nat
      /\ Len(checks) \in Nat /\ DOMAIN checks = 1 .. Len(checks)
      /\ \A i \in 1 .. Len(checks) : checks[i] \in CheckRows /\ checks[i].at \in Nat
  BY ChecksAre DEF CheckInvariant, CheckTypes
<1>2. ASSUME NEW w \in Wakers, RecordDies(w) PROVE CheckInvariant'
  <2>1. checks' = checks /\ tick' = tick /\ waking' = [waking EXCEPT ![w] = NoCheck]
    BY <1>2 DEF RecordDies
  <2>2. CheckTypes' /\ Steady
    BY <1>1, <2>1 DEF CheckTypes, Steady, Finished
  <2>3. \A v \in Wakers : waking'[v] # NoCheck => waking'[v] = waking[v]
    BY <1>1, <2>1
  <2> QED BY <2>2, <2>3, SteadyStep
<1>3. ASSUME NEW i \in DOMAIN checks, FinishCheck(i) PROVE CheckInvariant'
  <2>1. PICK old : old = checks[i]
    OBVIOUS
  <2>2. PICK row : row = [old EXCEPT !.finished = TRUE]
    OBVIOUS
  <2>3. checks' = [checks EXCEPT ![i] = row] /\ tick' = tick /\ waking' = waking
    BY <1>3, <2>1, <2>2 DEF FinishCheck
  <2>4. /\ row \in CheckRows /\ row.at = old.at /\ row.stored = old.stored /\ row.missed = old.missed
        /\ row.finished /\ i \in 1 .. Len(checks)
    BY <1>1, <1>3, <2>1, <2>2 DEF CheckRows
  <2>5. /\ checks' \in Seq(CheckRows) /\ Len(checks') = Len(checks)
        /\ \A j \in 1 .. Len(checks) : checks'[j] = IF j = i THEN row ELSE checks[j]
    BY <1>1, <2>3, <2>4, ExceptSeq
  <2>6. \A j \in 1 .. Len(checks) : /\ checks'[j].at = checks[j].at
                                    /\ checks'[j].stored = checks[j].stored
                                    /\ checks'[j].missed = checks[j].missed
    BY <2>1, <2>4, <2>5
  <2>7. Finished \subseteq Finished'
    <3>1. DOMAIN checks' = DOMAIN checks
      BY <2>3
    <3> QED BY <1>1, <2>4, <2>5, <3>1 DEF Finished
  <2>8. CheckTypes' /\ Steady
    BY <1>1, <2>3, <2>5, <2>6, <2>7 DEF CheckTypes, Steady
  <2> QED BY <2>3, <2>8, SteadyStep
<1>4. CASE RecruiterWrites
  <2>1. checks' = checks /\ tick' = tick /\ waking' = waking
    BY <1>4 DEF RecruiterWrites
  <2>2. CheckTypes' /\ Steady
    BY <1>1, <2>1 DEF CheckTypes, Steady, Finished
  <2> QED BY <2>1, <2>2, SteadyStep
<1>5. CASE PatrolTick
  <2>1. checks' = checks /\ tick' = tick + 1 /\ waking' = waking
    BY <1>5 DEF PatrolTick
  <2>2. tick' \in Nat /\ tick <= tick' /\ \A i \in 1 .. Len(checks) : checks[i].at <= tick'
    BY <1>1, <2>1
  <2>3. CheckTypes' /\ Steady
    BY <1>1, <2>1, <2>2 DEF CheckTypes, Steady, Finished
  <2> QED BY <2>1, <2>3, SteadyStep
<1>6. CASE UNCHANGED checkVars
  <2>1. checks' = checks /\ tick' = tick /\ waking' = waking
    BY <1>6 DEF checkVars
  <2>2. CheckTypes' /\ Steady
    BY <1>1, <2>1 DEF CheckTypes, Steady, Finished
  <2> QED BY <2>1, <2>2, SteadyStep
<1> QED BY <1>2, <1>3, <1>4, <1>5, <1>6, ReadKeeps, ReadOpenKeeps, DecideKeeps, SaveKeeps DEF CheckNext

\* However many processes record checks and however late one is finished or stored, a check keeps its
\* pace unless the newest finished under its reading, the next one then keeps it again, and the time
\* announced while one runs is when the next is due (_decide, decide).
THEOREM PatrolsPaced == CheckSpec => []PatrolPaced
<1>1. CheckInvariant => PatrolPaced
  BY AnnouncedDue DEF CheckInvariant, PatrolPaced
<1> QED BY <1>1, CheckStart, CheckStep, PTL DEF CheckSpec

----
\* Message lists.
Marks == [from : {"them", "us"}, status : Statuses, preview : Nat]
Boards == UNION {[D -> Marks] : D \in SUBSET Rows}
ListRows == [state : States \cup {"legacy"}, rows : Boards, done : BOOLEAN, known : SUBSET Talks]
Sightings == Talks \X Statuses

ListTypes ==
    /\ board \in Boards
    /\ known \subseteq Talks /\ IsFiniteSet(known)
    /\ snaps \in Seq(ListRows)
    /\ DOMAIN receipts1 \subseteq Sightings
    /\ \A x \in DOMAIN receipts1 : receipts1[x] \in 1 .. Len(snaps)

\* Only a database from before has a list of no declared state, and it is its first.
LegacyFirst == \A i \in 1 .. Len(snaps) : snaps[i].state = "legacy" => i = 1

\* A command that has kept a list compares it with the newest one before it that counts.
Comparing ==
    comparing # NoList =>
        /\ Len(snaps) > 0
        /\ comparing = Max({0} \cup {i \in 1 .. Len(snaps) - 1 : BaselineEligible(snaps[i])})

\* What a list shows of our messages, as its command understood it, is recorded when it is done.
SeenIn(snap, x) ==
    \E r \in DOMAIN snap.rows :
        /\ snap.state # "blocked" /\ FitsOf[r] \cap snap.known = {x[1]}
        /\ snap.rows[r].from = "us" /\ snap.rows[r].status = x[2]
DoneRecorded ==
    \A i \in 1 .. Len(snaps) : snaps[i].done =>
        \A x \in Sightings : SeenIn(snaps[i], x) => x \in DOMAIN receipts1 /\ receipts1[x] <= i

\* What is new on one list against another.
NewOn(before, after, r) ==
    /\ r \in DOMAIN after.rows /\ after.rows[r].from = "them"
    /\ r \in DOMAIN before.rows => before.rows[r].preview # after.rows[r].preview
Follows(i, j) ==
    /\ i < j /\ snaps[i].state = "full" /\ snaps[j].state = "full"
    /\ \A k \in i + 1 .. j - 1 : snaps[k].state # "full"
MissedNone ==
    \A i, j \in 1 .. Len(snaps) : Follows(i, j) /\ snaps[j].done =>
        \A r \in Rows : NewOn(snaps[i], snaps[j], r) => <<r, snaps[j].rows[r].preview>> \in told

ListInvariant ==
    ListTypes /\ LegacyFirst /\ Comparing /\ DoneRecorded /\ MissedNone

LEMMA BoardIs ==
    ASSUME NEW b \in Boards
    PROVE  DOMAIN b \subseteq Rows /\ \A r \in DOMAIN b : b[r] \in Marks
BY DEF Boards

LEMMA SnapsAre ==
    ASSUME ListTypes
    PROVE  /\ Len(snaps) \in Nat /\ DOMAIN snaps = 1 .. Len(snaps)
           /\ \A i \in 1 .. Len(snaps) :
                 /\ snaps[i] \in ListRows /\ DOMAIN snaps[i].rows \subseteq Rows
                 /\ \A r \in DOMAIN snaps[i].rows : snaps[i].rows[r] \in Marks
<1>1. Len(snaps) \in Nat /\ DOMAIN snaps = 1 .. Len(snaps)
  BY LenProperties DEF ListTypes
<1>2. \A i \in 1 .. Len(snaps) : snaps[i] \in ListRows
  BY ElementOfSeq DEF ListTypes
<1>3. ASSUME NEW i \in 1 .. Len(snaps)
      PROVE  DOMAIN snaps[i].rows \subseteq Rows /\ \A r \in DOMAIN snaps[i].rows : snaps[i].rows[r] \in Marks
  <2>1. snaps[i].rows \in Boards
    BY <1>2 DEF ListRows
  <2> QED BY <2>1, BoardIs
<1> QED BY <1>1, <1>2, <1>3

\* A row fits one conversation that is known, or is attributed to none.
LEMMA MatchedIs ==
    ASSUME IsFiniteSet(known), NEW r
    PROVE  /\ \A c : FitsOf[r] \cap known = {c} => Matched(r) = {c}
           /\ \A c \in Matched(r) : FitsOf[r] \cap known = {c}
<1>1. ASSUME NEW c, FitsOf[r] \cap known = {c} PROVE Matched(r) = {c}
  <2>1. Cardinality({c}) = 1
    BY FS_Singleton
  <2> QED BY <1>1, <2>1 DEF Matched
<1>2. ASSUME NEW c \in Matched(r) PROVE FitsOf[r] \cap known = {c}
  <2>1. Cardinality(FitsOf[r] \cap known) = 1 /\ c \in FitsOf[r] \cap known
    BY <1>2 DEF Matched
  <2>2. IsFiniteSet(FitsOf[r] \cap known)
    BY FS_Intersection
  <2>3. \E d : FitsOf[r] \cap known = {d}
    BY <2>1, <2>2, FS_Singleton
  <2> QED BY <2>1, <2>3
<1> QED BY <1>1, <1>2

\* The receipts a list gives.
LEMMA ReceiptsAre ==
    ASSUME ListTypes, NEW snap \in ListRows, NEW x
    PROVE  x \in ReceiptsOf(snap) <=>
              /\ snap.state # "blocked"
              /\ \E r \in DOMAIN snap.rows : /\ snap.rows[r].from = "us"
                                             /\ x \in Matched(r) \X {snap.rows[r].status}
BY DEF ReceiptsOf, RowsObservable

LEMMA ReceiptsTyped ==
    ASSUME ListTypes, NEW snap \in ListRows PROVE ReceiptsOf(snap) \subseteq Sightings
<1> SUFFICES ASSUME NEW x \in ReceiptsOf(snap) PROVE x \in Sightings
  OBVIOUS
<1>1. PICK r \in DOMAIN snap.rows : x \in Matched(r) \X {snap.rows[r].status}
  BY ReceiptsAre
<1>2. snap.rows[r] \in Marks
  <2>1. snap.rows \in Boards
    BY DEF ListRows
  <2> QED BY <2>1, BoardIs
<1>3. Matched(r) \subseteq Talks
  BY DEF Matched, ListTypes
<1> QED BY <1>1, <1>2, <1>3 DEF Marks, Sightings

LEMMA ListStart == ListInit => ListInvariant
<1> SUFFICES ASSUME ListInit PROVE ListInvariant
  OBVIOUS
<1>1. board \in Boards /\ known = {} /\ IsFiniteSet(known) /\ comparing = NoList
      /\ DOMAIN receipts1 = {}
  BY FS_EmptySet DEF ListInit, Boards
<1>2. /\ snaps \in Seq(ListRows) /\ Len(snaps) \in 0 .. 1
      /\ \A i \in 1 .. Len(snaps) : ~snaps[i].done /\ snaps[i].state = "legacy"
  <2>1. CASE snaps = <<>>
    BY <2>1, EmptySeq
  <2>2. ASSUME NEW q \in Rows,
               snaps = <<List("legacy", [r \in {q} |->
                     [from |-> "them", preview |-> 1, status |-> "delivered"]])>>
        PROVE  <1>2
    <3> DEFINE b == [r \in {q} |-> [from |-> "them", preview |-> 1, status |-> "delivered"]]
    <3>1. b \in [{q} -> Marks] /\ {q} \in SUBSET Rows
      BY DEF Marks, Statuses
    <3>2. b \in Boards
      BY <3>1 DEF Boards
    <3> HIDE DEF b
    <3>3. List("legacy", b) \in ListRows /\ ~List("legacy", b).done /\ List("legacy", b).state = "legacy"
      BY <3>2 DEF List, ListRows
    <3>4. snaps = <<List("legacy", b)>>
      BY <2>2 DEF b
    <3>5. PICK one : one = List("legacy", b)
      OBVIOUS
    <3>6. snaps = <<one>> /\ one \in ListRows
      BY <3>3, <3>4, <3>5
    <3>7. snaps \in Seq(ListRows) /\ Len(snaps) = 1 /\ snaps[1] = one
      BY <3>6
    <3> QED BY <3>3, <3>5, <3>7
  <2> QED BY <2>1, <2>2 DEF ListInit
<1>3. ListTypes
  BY <1>1, <1>2 DEF ListTypes
<1>4. LegacyFirst /\ DoneRecorded
  BY <1>2 DEF LegacyFirst, DoneRecorded
<1>5. MissedNone
  BY <1>2 DEF MissedNone
<1> QED BY <1>1, <1>3, <1>4, <1>5 DEF ListInvariant, Comparing

\* A step that keeps the lists, and only adds to what is told and recorded.
LEMMA ListsKept ==
    ASSUME ListInvariant, snaps' = snaps, told \subseteq told', ListTypes',
           \A x \in DOMAIN receipts1 : x \in DOMAIN receipts1' /\ receipts1'[x] = receipts1[x],
           comparing' \in {comparing, NoList}
    PROVE  ListInvariant'
<1>1. LegacyFirst' /\ Comparing'
  BY DEF ListInvariant, LegacyFirst, Comparing
<1>2. DoneRecorded'
  BY DEF ListInvariant, DoneRecorded
<1>3. MissedNone'
  <2> SUFFICES ASSUME NEW i \in 1 .. Len(snaps), NEW j \in 1 .. Len(snaps), Follows(i, j)', snaps'[j].done,
                      NEW r \in Rows, NewOn(snaps'[i], snaps'[j], r)
               PROVE  <<r, snaps'[j].rows[r].preview>> \in told'
    BY DEF MissedNone, NewOn
  <2>1. Follows(i, j)
    BY DEF Follows
  <2> QED BY <2>1 DEF ListInvariant, MissedNone
<1> QED BY <1>1, <1>2, <1>3 DEF ListInvariant

LEMMA KeepKeeps ==
    ASSUME ListInvariant, NEW state \in States, NEW seen \in SUBSET DOMAIN board, SnapshotKeep(state, seen)
    PROVE  ListInvariant'
<1> DEFINE shown == [r \in seen |-> board[r]]
<1>1. PICK row : row = List(state, shown)
  OBVIOUS
<1>2. PICK n : n = Len(snaps)
  OBVIOUS
<1>3. /\ snaps' = Append(snaps, row) /\ comparing' = LatestBaseline
      /\ board' = board /\ known' = known /\ told' = told /\ receipts1' = receipts1
  BY <1>1 DEF SnapshotKeep
<1>4. ListTypes /\ n \in Nat /\ DOMAIN snaps = 1 .. n
  BY <1>2, SnapsAre DEF ListInvariant
<1>5. row \in ListRows /\ ~row.done /\ row.state # "legacy"
  <2>1. seen \in SUBSET Rows /\ \A r \in seen : board[r] \in Marks
    BY <1>4, BoardIs DEF ListTypes
  <2>2. shown \in Boards
    BY <2>1 DEF Boards
  <2> HIDE DEF shown
  <2> QED BY <1>1, <2>2 DEF List, ListRows, States
<1>6. /\ snaps' \in Seq(ListRows) /\ Len(snaps') = n + 1 /\ snaps'[n + 1] = row
      /\ \A i \in 1 .. n : snaps'[i] = snaps[i]
  BY <1>2, <1>3, <1>4, <1>5, AppendProperties DEF ListTypes
<1>7. ListTypes'
  BY <1>2, <1>3, <1>4, <1>6 DEF ListTypes
<1>8. LegacyFirst'
  BY <1>2, <1>4, <1>5, <1>6 DEF ListInvariant, LegacyFirst
<1>9. Comparing'
  <2>1. {i \in 1 .. Len(snaps') - 1 : BaselineEligible(snaps'[i])} = {i \in DOMAIN snaps : BaselineEligible(snaps[i])}
    BY <1>4, <1>6
  <2>2. comparing' = Max({0} \cup {i \in 1 .. Len(snaps') - 1 : BaselineEligible(snaps'[i])})
    BY <1>3, <2>1 DEF LatestBaseline
  <2>3. Len(snaps') > 0
    BY <1>4, <1>6
  <2> QED BY <2>2, <2>3 DEF Comparing, BaselineEligible
<1>10. DoneRecorded'
  <2> SUFFICES ASSUME NEW i \in 1 .. Len(snaps'), snaps'[i].done, NEW x \in Sightings, SeenIn(snaps'[i], x)
               PROVE  x \in DOMAIN receipts1' /\ receipts1'[x] <= i
    BY DEF DoneRecorded, SeenIn
  <2>1. i \in 1 .. n
    BY <1>4, <1>5, <1>6
  <2> QED BY <1>2, <1>3, <1>6, <2>1 DEF ListInvariant, DoneRecorded
<1>11. MissedNone'
  <2> SUFFICES ASSUME NEW i \in 1 .. Len(snaps'), NEW j \in 1 .. Len(snaps'), Follows(i, j)', snaps'[j].done,
                      NEW r \in Rows, NewOn(snaps'[i], snaps'[j], r)
               PROVE  <<r, snaps'[j].rows[r].preview>> \in told'
    BY DEF MissedNone, NewOn
  <2>1. j \in 1 .. n
    BY <1>4, <1>5, <1>6
  <2>2. i < j
    BY DEF Follows
  <2>3. i \in 1 .. n
    BY <1>4, <2>1, <2>2
  <2>4. \A k \in i + 1 .. j - 1 : k \in 1 .. n
    BY <1>4, <2>1, <2>3
  <2>5. Follows(i, j)
    BY <1>6, <2>1, <2>3, <2>4 DEF Follows
  <2> QED BY <1>2, <1>3, <1>6, <2>1, <2>3, <2>5 DEF ListInvariant, MissedNone
<1> QED BY <1>7, <1>8, <1>9, <1>10, <1>11 DEF ListInvariant

\* Between two complete lists with none in between, the first is the one to compare with.
LEMMA FollowedIsBaseline ==
    ASSUME ListInvariant, NEW i \in 1 .. Len(snaps), NEW j \in 1 .. Len(snaps), Follows(i, j)
    PROVE  Max({0} \cup {k \in 1 .. j - 1 : BaselineEligible(snaps[k])}) = i
<1> DEFINE S == {0} \cup {k \in 1 .. j - 1 : BaselineEligible(snaps[k])}
<1>1. Len(snaps) \in Nat /\ i \in Nat /\ j \in Nat /\ i \in 1 .. j - 1 /\ j - 1 \in Nat /\ i < j
  BY SnapsAre DEF ListInvariant, Follows
<1>2. i \in S
  BY <1>1 DEF Follows, BaselineEligible
<1>3. ASSUME NEW k \in S PROVE k <= i
  <2> SUFFICES ASSUME k > i PROVE FALSE
    BY <1>1
  <2>1. k \in 1 .. j - 1 /\ BaselineEligible(snaps[k]) /\ k \in i + 1 .. j - 1 /\ k # 1
    BY <1>1
  <2>2. k \in 1 .. Len(snaps)
    BY <1>1, <2>1
  <2>3. snaps[k].state # "full" /\ snaps[k].state # "legacy"
    BY <2>1, <2>2 DEF Follows, ListInvariant, LegacyFirst
  <2> QED BY <2>1, <2>3 DEF BaselineEligible
<1>4. S \in SUBSET (0 .. j - 1)
  BY <1>1
<1> HIDE DEF S
<1>5. Max(S) \in S /\ i <= Max(S) /\ Max(S) <= i
  BY <1>1, <1>2, <1>3, <1>4, MaxIs
<1>6. Max(S) \in Nat
  <2>1. Max(S) \in 0 .. j - 1
    BY <1>4, <1>5
  <2> QED BY <2>1
<1> QED BY <1>1, <1>5, <1>6 DEF S

LEMMA ReportKeeps == ASSUME ListInvariant, SnapshotReport PROVE ListInvariant'
<1>1. PICK n : n = Len(snaps)
  OBVIOUS
<1>2. PICK old : old = snaps[n]
  OBVIOUS
<1>3. PICK row : row = [old EXCEPT !.done = TRUE, !.known = known]
  OBVIOUS
<1>4. /\ comparing # NoList /\ comparing' = NoList /\ board' = board /\ known' = known
      /\ receipts1' = RecordReceipts(ReceiptsOf(old), n)
      /\ told' = told \cup {<<r, old.rows[r].preview>> : r \in TheirNewMessages(comparing, old)}
      /\ snaps' = [snaps EXCEPT ![n] = row]
  <2>1. snaps' = [snaps EXCEPT ![n].done = TRUE, ![n].known = known]
    BY <1>1 DEF SnapshotReport
  <2>2. [snaps EXCEPT ![n].done = TRUE, ![n].known = known] = [snaps EXCEPT ![n] = row]
    <3>1. snaps \in [1 .. n -> ListRows] /\ n \in Nat
      BY <1>1, LenProperties DEF ListInvariant, ListTypes
    <3>2. n \in 1 .. n
      BY <1>1, <3>1 DEF ListInvariant, Comparing, SnapshotReport
    <3> QED BY <1>2, <1>3, <3>1, <3>2
  <2> QED BY <1>1, <1>2, <2>1, <2>2 DEF SnapshotReport
<1>5. /\ ListTypes /\ n \in Nat /\ DOMAIN snaps = 1 .. n /\ n \in 1 .. n
      /\ comparing = Max({0} \cup {i \in 1 .. n - 1 : BaselineEligible(snaps[i])})
  BY <1>1, <1>4, SnapsAre DEF ListInvariant, Comparing
<1>6. old \in ListRows
  BY <1>1, <1>2, <1>5, SnapsAre
<1>7. row \in ListRows /\ row.state = old.state /\ row.rows = old.rows /\ row.known = known /\ row.done
  BY <1>3, <1>5, <1>6 DEF ListRows, ListTypes
<1>8. /\ snaps' \in Seq(ListRows) /\ Len(snaps') = n
      /\ \A i \in 1 .. n : snaps'[i] = IF i = n THEN row ELSE snaps[i]
  BY <1>1, <1>4, <1>5, <1>7, ExceptSeq DEF ListTypes
<1>9. \A i \in 1 .. n : snaps'[i].state = snaps[i].state /\ snaps'[i].rows = snaps[i].rows
  BY <1>2, <1>7, <1>8
<1>10. /\ DOMAIN receipts1' = DOMAIN receipts1 \cup ReceiptsOf(old)
       /\ \A x \in DOMAIN receipts1' : receipts1'[x] = IF x \in DOMAIN receipts1 THEN receipts1[x] ELSE n
  BY <1>4 DEF RecordReceipts
<1>11. ListTypes'
  <2>1. ReceiptsOf(old) \subseteq Sightings
    BY <1>5, <1>6, ReceiptsTyped
  <2>2. \A x \in DOMAIN receipts1' : receipts1'[x] \in 1 .. n
    BY <1>1, <1>5, <1>10 DEF ListTypes
  <2> QED BY <1>4, <1>5, <1>8, <1>10, <2>1, <2>2 DEF ListTypes
<1>12. LegacyFirst'
  BY <1>1, <1>8, <1>9 DEF ListInvariant, LegacyFirst
<1>13. Comparing'
  BY <1>4 DEF Comparing
<1>14. DoneRecorded'
  <2> SUFFICES ASSUME NEW i \in 1 .. n, snaps'[i].done, NEW x \in Sightings, SeenIn(snaps'[i], x)
               PROVE  x \in DOMAIN receipts1' /\ receipts1'[x] <= i
    BY <1>8 DEF DoneRecorded, SeenIn
  <2>1. CASE i = n
    <3>1. SeenIn(row, x)
      BY <1>8, <2>1
    <3>2. PICK r \in DOMAIN old.rows :
             /\ old.state # "blocked" /\ FitsOf[r] \cap known = {x[1]}
             /\ old.rows[r].from = "us" /\ old.rows[r].status = x[2]
      BY <1>7, <3>1 DEF SeenIn
    <3>3. Matched(r) = {x[1]}
      BY <1>5, <3>2, MatchedIs DEF ListTypes
    <3>4. x = <<x[1], x[2]>>
      BY DEF Sightings
    <3>5. x \in Matched(r) \X {old.rows[r].status}
      BY <3>2, <3>3, <3>4
    <3>6. x \in ReceiptsOf(old)
      BY <1>5, <1>6, <3>2, <3>5, ReceiptsAre
    <3>7. x \in DOMAIN receipts1 => receipts1[x] <= n
      BY <1>1, <1>5 DEF ListTypes
    <3> QED BY <1>5, <1>10, <2>1, <3>6, <3>7
  <2>2. CASE i # n
    <3>1. snaps'[i] = snaps[i]
      BY <1>8, <2>2
    <3>2. x \in DOMAIN receipts1 /\ receipts1[x] <= i
      BY <1>1, <3>1 DEF ListInvariant, DoneRecorded
    <3> QED BY <1>10, <3>2
  <2> QED BY <2>1, <2>2
<1>15. MissedNone'
  <2> SUFFICES ASSUME NEW i \in 1 .. n, NEW j \in 1 .. n, Follows(i, j)', snaps'[j].done,
                      NEW r \in Rows, NewOn(snaps'[i], snaps'[j], r)
               PROVE  <<r, snaps'[j].rows[r].preview>> \in told'
    BY <1>8 DEF MissedNone, NewOn
  <2>1. \A k \in i + 1 .. j - 1 : k \in 1 .. n
    BY <1>5
  <2>2. Follows(i, j)
    BY <1>9, <2>1 DEF Follows
  <2>3. NewOn(snaps[i], snaps[j], r) /\ snaps'[j].rows = snaps[j].rows
    BY <1>9 DEF NewOn
  <2>4. CASE j = n
    <3>1. comparing = i
      BY <1>1, <1>5, <2>2, <2>4, FollowedIsBaseline
    <3>2. BaselineEligible(old) /\ snaps[i].state = "full" /\ i # 0
      BY <1>2, <1>5, <2>2, <2>4 DEF Follows, BaselineEligible
    <3>3. r \in TheirNewMessages(comparing, old)
      BY <1>2, <2>3, <2>4, <3>1, <3>2 DEF TheirNewMessages, NewOn
    <3> QED BY <1>2, <1>4, <2>3, <2>4, <3>3
  <2>5. CASE j # n
    <3>1. snaps[j].done
      BY <1>8, <2>5
    <3>2. <<r, snaps[j].rows[r].preview>> \in told
      BY <1>1, <2>2, <2>3, <3>1 DEF ListInvariant, MissedNone
    <3> QED BY <1>4, <2>3, <3>2
  <2> QED BY <2>4, <2>5
<1> QED BY <1>11, <1>12, <1>13, <1>14, <1>15 DEF ListInvariant

LEMMA ReplayKeeps == ASSUME ListInvariant, ReplayReceipts PROVE ListInvariant'
<1>1. /\ snaps' = snaps /\ board' = board /\ known' = known /\ told' = told /\ comparing' = comparing
      /\ DOMAIN receipts1' = DOMAIN receipts1 \cup UNION {ReceiptsOf(snaps[i]) : i \in DOMAIN snaps}
      /\ \A x \in DOMAIN receipts1' : receipts1'[x] =
            IF x \in DOMAIN receipts1 THEN receipts1[x]
            ELSE Min({i \in DOMAIN snaps : x \in ReceiptsOf(snaps[i])})
  BY DEF ReplayReceipts
<1>2. ListTypes /\ DOMAIN snaps = 1 .. Len(snaps)
  BY SnapsAre DEF ListInvariant
<1>3. UNION {ReceiptsOf(snaps[i]) : i \in DOMAIN snaps} \subseteq Sightings
  BY <1>2, SnapsAre, ReceiptsTyped
<1>4. ASSUME NEW x \in DOMAIN receipts1' PROVE receipts1'[x] \in 1 .. Len(snaps)
  <2>1. CASE x \in DOMAIN receipts1
    BY <1>1, <1>2, <2>1 DEF ListTypes
  <2>2. CASE x \notin DOMAIN receipts1
    <3> DEFINE S == {i \in DOMAIN snaps : x \in ReceiptsOf(snaps[i])}
    <3>1. S \in SUBSET Nat /\ S # {} /\ S \subseteq 1 .. Len(snaps)
      BY <1>1, <1>2, <2>2
    <3>2. receipts1'[x] = Min(S)
      BY <1>1, <2>2
    <3> HIDE DEF S
    <3>3. Min(S) \in S
      BY <3>1, MinIs
    <3> QED BY <3>1, <3>2, <3>3
  <2> QED BY <2>1, <2>2
<1>5. ListTypes'
  BY <1>1, <1>2, <1>3, <1>4 DEF ListTypes
<1> QED BY <1>1, <1>5, ListsKept

LEMMA BoardKeeps ==
    ASSUME ListInvariant, board' \in Boards,
           UNCHANGED <<known, snaps, comparing, told, receipts1>>
    PROVE  ListInvariant'
<1>1. ListTypes'
  BY DEF ListInvariant, ListTypes
<1> QED BY <1>1, ListsKept

LEMMA ListStep == ListInvariant /\ [ListNext]_listVars => ListInvariant'
<1> SUFFICES ASSUME ListInvariant, [ListNext]_listVars PROVE ListInvariant'
  OBVIOUS
<1>1. ListTypes /\ board \in Boards /\ DOMAIN board \subseteq Rows /\ \A r \in DOMAIN board : board[r] \in Marks
  BY BoardIs DEF ListInvariant, ListTypes
<1>2. ASSUME NEW state \in States, NEW seen \in SUBSET DOMAIN board, SnapshotKeep(state, seen)
      PROVE  ListInvariant'
  BY <1>2, KeepKeeps
<1>3. CASE SnapshotReport
  BY <1>3, ReportKeeps
<1>4. CASE SnapshotDies
  <2>1. /\ comparing' = NoList /\ UNCHANGED <<board, known, snaps, told, receipts1>>
    BY <1>4 DEF SnapshotDies
  <2>2. ListTypes'
    BY <1>1, <2>1 DEF ListTypes
  <2> QED BY <2>1, <2>2, ListsKept
<1>5. CASE ReplayReceipts
  BY <1>5, ReplayKeeps
<1>6. ASSUME NEW r \in Rows, BoardRead(r) PROVE ListInvariant'
  <2>1. PICK m : m = [board[r] EXCEPT !.status = "read"]
    OBVIOUS
  <2>2. /\ r \in DOMAIN board /\ board' = [board EXCEPT ![r] = m]
        /\ UNCHANGED <<known, snaps, comparing, told, receipts1>>
    BY <1>6, <2>1 DEF BoardRead
  <2>3. board[r] \in Marks
    BY <1>1, <2>2
  <2>4. m \in Marks
    BY <2>1, <2>3 DEF Marks, Statuses
  <2>5. board' \in [DOMAIN board -> Marks]
    BY <1>1, <2>2, <2>4 DEF Boards
  <2>6. board' \in Boards
    BY <1>1, <2>5 DEF Boards
  <2> QED BY <2>2, <2>6, BoardKeeps
<1>7. ASSUME NEW r \in Rows, NEW from \in {"them", "us"}, BoardMoves(r, from) PROVE ListInvariant'
  <2>1. PICK m : m = [from |-> from, status |-> "delivered",
                     preview |-> IF r \in DOMAIN board THEN board[r].preview + 1 ELSE 1]
    OBVIOUS
  <2>2. /\ board' = [q \in DOMAIN board \cup {r} |-> IF q # r THEN board[q] ELSE m]
        /\ UNCHANGED <<known, snaps, comparing, told, receipts1>>
    BY <1>7, <2>1 DEF BoardMoves
  <2>3. m \in Marks
    <3>1. r \in DOMAIN board => board[r].preview \in Nat
      BY <1>1 DEF Marks
    <3>2. (IF r \in DOMAIN board THEN board[r].preview + 1 ELSE 1) \in Nat
      BY <3>1
    <3> QED BY <2>1, <3>2 DEF Marks, Statuses
  <2>4. board' \in [DOMAIN board \cup {r} -> Marks]
    BY <1>1, <2>2, <2>3
  <2>5. board' \in Boards
    <3>1. DOMAIN board \cup {r} \in SUBSET Rows
      BY <1>1
    <3> QED BY <2>4, <3>1 DEF Boards
  <2> QED BY <2>2, <2>5, BoardKeeps
<1>8. ASSUME NEW c \in Talks, TalkOpens(c) PROVE ListInvariant'
  <2>1. known' = known \cup {c} /\ UNCHANGED <<board, snaps, comparing, told, receipts1>>
    BY <1>8 DEF TalkOpens
  <2>2. IsFiniteSet(known \cup {c})
    BY <1>1, FS_AddElement DEF ListTypes
  <2>3. ListTypes'
    BY <1>1, <2>1, <2>2 DEF ListTypes
  <2> QED BY <2>1, <2>3, ListsKept
<1>9. CASE UNCHANGED listVars
  <2>1. UNCHANGED <<board, known, snaps, comparing, told, receipts1>>
    BY <1>9 DEF listVars
  <2> QED BY <1>1, <2>1, BoardKeeps
<1> QED BY <1>2, <1>3, <1>4, <1>5, <1>6, <1>7, <1>8, <1>9 DEF ListNext

LEMMA ListsSound == ListInvariant => ListsTold
<1> SUFFICES ASSUME ListInvariant PROVE ListsTold
  OBVIOUS
<1>1. /\ Len(snaps) \in Nat /\ DOMAIN snaps = 1 .. Len(snaps)
      /\ \A i \in 1 .. Len(snaps) : snaps[i] \in ListRows /\ DOMAIN snaps[i].rows \subseteq Rows
                                    /\ \A r \in DOMAIN snaps[i].rows : snaps[i].rows[r] \in Marks
  BY SnapsAre DEF ListInvariant
<1>2. NothingMissed
  <2> SUFFICES ASSUME NEW i \in Complete, NEW j \in Complete, i < j, snaps[j].done,
                      \A k \in i + 1 .. j - 1 : k \notin Complete,
                      NEW r \in DOMAIN snaps[j].rows, snaps[j].rows[r].from = "them",
                      r \in DOMAIN snaps[i].rows => snaps[i].rows[r].preview # snaps[j].rows[r].preview
               PROVE  <<r, snaps[j].rows[r].preview>> \in told
    BY DEF NothingMissed
  <2>1. i \in 1 .. Len(snaps) /\ j \in 1 .. Len(snaps) /\ snaps[i].state = "full" /\ snaps[j].state = "full"
    BY <1>1 DEF Complete
  <2>2. \A k \in i + 1 .. j - 1 : k \in 1 .. Len(snaps)
    BY <1>1, <2>1
  <2>3. Follows(i, j)
    BY <1>1, <2>1, <2>2 DEF Follows, Complete
  <2>4. r \in Rows /\ NewOn(snaps[i], snaps[j], r)
    BY <1>1, <2>1 DEF NewOn
  <2> QED BY <2>1, <2>3, <2>4 DEF ListInvariant, MissedNone
<1>3. FirstSightingTrue
  <2> SUFFICES ASSUME NEW x \in DOMAIN receipts1, NEW i \in 1 .. Len(snaps), i < receipts1[x], snaps[i].done,
                      SeenIn(snaps[i], x)
               PROVE  FALSE
    BY <1>1 DEF FirstSightingTrue, SeenIn
  <2>1. x \in Sightings /\ receipts1[x] \in Nat
    BY DEF ListInvariant, ListTypes
  <2>2. receipts1[x] <= i
    BY <2>1 DEF ListInvariant, DoneRecorded
  <2> QED BY <2>1, <2>2
<1> QED BY <1>2, <1>3 DEF ListsTold

\* A recruiter's message that came between two complete lists is reported, whatever was read in
\* between, and a receipt is dated by the first list that could be read and showed it, however
\* commands die between keeping a list and reporting on it (snapshot.py, receipts.py).
THEOREM NewsReported == ListSpec => []ListsTold
BY ListStart, ListStep, ListsSound, PTL DEF ListSpec

\* What a step records of a status, it found in a row only one known conversation fits.
Attributed ==
    \A x \in DOMAIN receipts1' \ DOMAIN receipts1 :
        \E r \in Rows : /\ FitsOf[r] \cap known = {x[1]}
                        /\ \E i \in DOMAIN snaps : /\ r \in DOMAIN snaps[i].rows
                                                   /\ snaps[i].rows[r].status = x[2]

LEMMA ReceiptFound ==
    ASSUME ListInvariant, NEW i \in DOMAIN snaps, NEW x \in ReceiptsOf(snaps[i])
    PROVE  \E r \in Rows : /\ FitsOf[r] \cap known = {x[1]}
                           /\ \E k \in DOMAIN snaps : /\ r \in DOMAIN snaps[k].rows
                                                      /\ snaps[k].rows[r].status = x[2]
<1>1. ListTypes /\ snaps[i] \in ListRows /\ DOMAIN snaps[i].rows \subseteq Rows
  BY SnapsAre DEF ListInvariant
<1>2. PICK r \in DOMAIN snaps[i].rows : x \in Matched(r) \X {snaps[i].rows[r].status}
  BY <1>1, ReceiptsAre
<1>3. FitsOf[r] \cap known = {x[1]}
  BY <1>1, <1>2, MatchedIs DEF ListTypes
<1> QED BY <1>1, <1>2, <1>3

LEMMA StepAttributes == ListInvariant /\ [ListNext]_listVars => Attributed
<1> SUFFICES ASSUME ListInvariant, [ListNext]_listVars PROVE Attributed
  OBVIOUS
<1>1. CASE receipts1' = receipts1
  BY <1>1 DEF Attributed
<1>2. CASE SnapshotReport
  <2>1. Len(snaps) \in DOMAIN snaps
    BY <1>2, SnapsAre DEF ListInvariant, Comparing, SnapshotReport
  <2>2. DOMAIN receipts1' = DOMAIN receipts1 \cup ReceiptsOf(snaps[Len(snaps)])
    BY <1>2 DEF SnapshotReport, RecordReceipts
  <2> QED BY <2>1, <2>2, ReceiptFound DEF Attributed
<1>3. CASE ReplayReceipts
  <2>1. DOMAIN receipts1' = DOMAIN receipts1 \cup UNION {ReceiptsOf(snaps[i]) : i \in DOMAIN snaps}
    BY <1>3 DEF ReplayReceipts
  <2> QED BY <2>1, ReceiptFound DEF Attributed
<1> QED BY <1>1, <1>2, <1>3 DEF ListNext, listVars, SnapshotKeep, SnapshotDies, BoardRead, BoardMoves, TalkOpens

\* A status is recorded of a conversation only by a row no other known one fits, for any number
\* of rows and conversations (match_conversation).
THEOREM StatusesAttributed == ListSpec => NeverGuessed
<1>1. [Attributed]_listVars <=>
        [\A x \in DOMAIN receipts1' \ DOMAIN receipts1 :
          \E r \in Rows : /\ FitsOf[r] \cap known = {x[1]}
                          /\ \E i \in DOMAIN snaps : /\ r \in DOMAIN snaps[i].rows
                                                     /\ snaps[i].rows[r].status = x[2]]_listVars
  BY DEF Attributed
<1> QED BY <1>1, ListStart, ListStep, StepAttributes, PTL DEF ListSpec, NeverGuessed

----
\* The mailbox: one thread of the front end posts.
OnePoster == \A p, q \in Posters : p = q

Lines == [id : Nat \X Nat, torn : BOOLEAN, open : BOOLEAN]
Count(f, m) == Cardinality({i \in Readable(f) : f[i].id[1] = m})

\* Ids tell the readable entries of a file apart, and of each minute are no higher than their number.
Distinct(f) == \A i, j \in Readable(f) : f[i].id = f[j].id => i = j
CountedIds(f) == \A i \in Readable(f) : f[i].id[2] <= Count(f, f[i].id[1])
FileSound(f) ==
    /\ f \in Seq(Lines) /\ \A i \in 1 .. Len(f) : f[i].open => f[i].torn
    /\ Distinct(f) /\ CountedIds(f)

MailTypes ==
    /\ minute \in Nat
    /\ IsFiniteSet(receipts)

\* The id a poster has derived is the next one of its minute still.
DerivedNext ==
    \A p \in Posters : counted[p] # Nobody =>
        /\ counted[p] \in Nat \X Nat
        /\ counted[p][2] = 1 + Count(inbox, counted[p][1])
CountedIs == counted \in [Posters -> {Nobody} \cup (Nat \X Nat)]

MailInvariant ==
    MailTypes /\ CountedIs /\ FileSound(inbox) /\ FileSound(outbox) /\ DerivedNext /\ EveryEntryOnce

LEMMA ReadableIs ==
    ASSUME NEW f \in Seq(Lines)
    PROVE  /\ Len(f) \in Nat /\ DOMAIN f = 1 .. Len(f)
           /\ \A i \in 1 .. Len(f) : f[i] \in Lines
           /\ Readable(f) \subseteq 1 .. Len(f) /\ IsFiniteSet(Readable(f))
           /\ \A m : IsFiniteSet({i \in Readable(f) : f[i].id[1] = m}) /\ Count(f, m) \in Nat
<1>1. Len(f) \in Nat /\ DOMAIN f = 1 .. Len(f) /\ \A i \in 1 .. Len(f) : f[i] \in Lines
  BY LenProperties, ElementOfSeq
<1>2. Readable(f) \subseteq 1 .. Len(f)
  BY <1>1 DEF Readable
<1>3. IsFiniteSet(Readable(f))
  <2>1. IsFiniteSet(1 .. Len(f))
    BY <1>1, FS_Interval
  <2> QED BY <1>2, <2>1, FS_Subset
<1>4. ASSUME NEW m PROVE IsFiniteSet({i \in Readable(f) : f[i].id[1] = m}) /\ Count(f, m) \in Nat
  <2>1. IsFiniteSet({i \in Readable(f) : f[i].id[1] = m})
    BY <1>3, FS_Subset
  <2> QED BY <2>1, FS_CardinalityType DEF Count
<1> QED BY <1>1, <1>2, <1>3, <1>4

\* A line that cannot be read, at the end or in place of one, changes nothing for who reads.
LEMMA Unread ==
    ASSUME NEW f, FileSound(f), NEW g \in Seq(Lines), Readable(g) = Readable(f),
           \A i \in Readable(f) : g[i] = f[i],
           \A i \in 1 .. Len(g) : g[i].open => g[i].torn
    PROVE  /\ FileSound(g) /\ Ids(g) = Ids(f)
           /\ \A m : Count(g, m) = Count(f, m)
<1>1. ASSUME NEW m PROVE Count(g, m) = Count(f, m)
  <2>1. {i \in Readable(g) : g[i].id[1] = m} = {i \in Readable(f) : f[i].id[1] = m}
    OBVIOUS
  <2> QED BY <2>1 DEF Count
<1>2. Distinct(g) /\ CountedIds(g)
  BY <1>1 DEF FileSound, Distinct, CountedIds
<1> QED BY <1>1, <1>2 DEF FileSound, Ids

LEMMA CutUnread ==
    ASSUME NEW f, FileSound(f), NEW id \in Nat \X Nat
    PROVE  /\ FileSound(Cut(f, id)) /\ Ids(Cut(f, id)) = Ids(f) /\ Readable(Cut(f, id)) = Readable(f)
           /\ \A i \in Readable(f) : Cut(f, id)[i] = f[i]
           /\ \A m : Count(Cut(f, id), m) = Count(f, m)
<1>1. PICK row : row = [id |-> id, torn |-> TRUE, open |-> TRUE]
  OBVIOUS
<1>2. PICK g : g = Cut(f, id)
  OBVIOUS
<1>3. row \in Lines /\ row.torn /\ g = Append(f, row) /\ f \in Seq(Lines)
  BY <1>1, <1>2 DEF Lines, Cut, FileSound
<1>4. /\ g \in Seq(Lines) /\ Len(g) = Len(f) + 1 /\ g[Len(f) + 1] = row
      /\ \A i \in 1 .. Len(f) : g[i] = f[i]
  BY <1>3, AppendProperties
<1>5. /\ Len(f) \in Nat /\ DOMAIN f = 1 .. Len(f) /\ DOMAIN g = 1 .. Len(f) + 1
      /\ Readable(f) \subseteq 1 .. Len(f)
  BY <1>3, <1>4, ReadableIs
<1>6. Readable(g) = Readable(f)
  BY <1>3, <1>4, <1>5 DEF Readable
<1>7. \A i \in 1 .. Len(g) : g[i].open => g[i].torn
  BY <1>3, <1>4, <1>5 DEF FileSound
<1>8. \A i \in Readable(f) : g[i] = f[i]
  BY <1>4, <1>5
<1> QED BY <1>2, <1>4, <1>6, <1>7, <1>8, Unread

\* An entry is written whole, or onto a line that was cut off and is lost with it.
LEMMA Written ==
    ASSUME NEW f, FileSound(f), NEW id \in Nat \X Nat, id[2] = 1 + Count(f, id[1])
    PROVE  /\ FileSound(Write(f, id)) /\ \A i \in Readable(f) : Write(f, id)[i] = f[i]
           /\ \/ /\ Readable(Write(f, id)) = Readable(f) /\ Ids(Write(f, id)) = Ids(f)
              \/ /\ Readable(Write(f, id)) = Readable(f) \cup {Len(f) + 1}
                 /\ Len(f) + 1 \notin Readable(f)
                 /\ Write(f, id)[Len(f) + 1].id = id /\ id \notin Ids(f)
<1>1. PICK g : g = Write(f, id)
  OBVIOUS
<1>2. /\ f \in Seq(Lines) /\ Len(f) \in Nat /\ DOMAIN f = 1 .. Len(f)
      /\ Readable(f) \subseteq 1 .. Len(f) /\ \A i \in 1 .. Len(f) : f[i] \in Lines
  BY ReadableIs DEF FileSound
<1>3. CASE CutOff(f)
  <2>1. PICK row : row = [id |-> id, torn |-> TRUE, open |-> FALSE]
    OBVIOUS
  <2>2. PICK n : n = Len(f)
    OBVIOUS
  <2>3. g = [f EXCEPT ![n] = row] /\ row \in Lines /\ row.torn /\ ~row.open
    BY <1>1, <1>3, <2>1, <2>2 DEF Write, Lines
  <2>4. n \in 1 .. n /\ f[n].torn
    <3>1. f # <<>> /\ f[n].open
      BY <1>3, <2>2 DEF CutOff
    <3>2. Len(f) # 0
      BY <1>2, <3>1, EmptySeq
    <3>3. n \in 1 .. Len(f)
      BY <1>2, <2>2, <3>2
    <3> QED BY <2>2, <3>1, <3>3 DEF FileSound
  <2>5. /\ g \in Seq(Lines) /\ Len(g) = n
        /\ \A i \in 1 .. n : g[i] = IF i = n THEN row ELSE f[i]
    BY <1>2, <2>2, <2>3, <2>4, ExceptSeq
  <2>6. DOMAIN g = 1 .. n
    BY <2>5, ReadableIs
  <2>7. Readable(g) = Readable(f) /\ \A i \in Readable(f) : g[i] = f[i]
    BY <1>2, <2>2, <2>3, <2>4, <2>5, <2>6 DEF Readable
  <2>8. \A i \in 1 .. Len(g) : g[i].open => g[i].torn
    BY <2>2, <2>3, <2>5 DEF FileSound
  <2> QED BY <1>1, <2>5, <2>7, <2>8, Unread
<1>4. CASE ~CutOff(f)
  <2>1. PICK row : row = [id |-> id, torn |-> FALSE, open |-> FALSE]
    OBVIOUS
  <2>2. PICK n : n = Len(f) + 1
    OBVIOUS
  <2>3. g = Append(f, row) /\ row \in Lines /\ ~row.torn /\ ~row.open /\ row.id = id
    BY <1>1, <1>4, <2>1 DEF Write, Lines
  <2>4. /\ g \in Seq(Lines) /\ Len(g) = n /\ g[n] = row /\ n \in Nat
        /\ \A i \in 1 .. Len(f) : g[i] = f[i]
    BY <1>2, <2>2, <2>3, AppendProperties
  <2>5. DOMAIN g = 1 .. n
    BY <2>4, ReadableIs
  <2>6. Readable(g) = Readable(f) \cup {n} /\ n \notin Readable(f)
    BY <1>2, <2>2, <2>3, <2>4, <2>5 DEF Readable
  <2>7. \A i \in Readable(f) : g[i] = f[i]
    BY <1>2, <2>4
  <2>8. id \notin Ids(f)
    <3> SUFFICES ASSUME NEW i \in Readable(f), f[i].id = id PROVE FALSE
      BY DEF Ids
    <3>1. f[i].id[2] <= Count(f, f[i].id[1])
      BY DEF FileSound, CountedIds
    <3>2. Count(f, id[1]) \in Nat
      BY <1>2, ReadableIs
    <3> QED BY <3>1, <3>2
  <2>9. ASSUME NEW m PROVE Count(g, m) = IF m = id[1] THEN Count(f, m) + 1 ELSE Count(f, m)
    <3> DEFINE S == {i \in Readable(f) : f[i].id[1] = m}
    <3>1. IsFiniteSet(S) /\ n \notin S /\ Count(f, m) = Cardinality(S)
      BY <1>2, <2>6, ReadableIs DEF Count
    <3>2. {i \in Readable(g) : g[i].id[1] = m} = IF m = id[1] THEN S \cup {n} ELSE S
      BY <2>3, <2>4, <2>6, <2>7
    <3> HIDE DEF S
    <3>3. Cardinality(S \cup {n}) = Cardinality(S) + 1
      BY <3>1, FS_AddElement
    <3> QED BY <3>1, <3>2, <3>3 DEF Count
  <2>10. Distinct(g)
    <3> SUFFICES ASSUME NEW i \in Readable(g), NEW j \in Readable(g), g[i].id = g[j].id PROVE i = j
      BY DEF Distinct
    <3>1. \A k \in Readable(f) : g[k].id # id
      BY <2>7, <2>8 DEF Ids
    <3>2. g[n].id = id
      BY <2>3, <2>4
    <3>3. i \in Readable(f) /\ j \in Readable(f) => i = j
      BY <2>7 DEF FileSound, Distinct
    <3> QED BY <2>6, <3>1, <3>2, <3>3
  <2>11. CountedIds(g)
    <3> SUFFICES ASSUME NEW i \in Readable(g) PROVE g[i].id[2] <= Count(g, g[i].id[1])
      BY DEF CountedIds
    <3>1. \A m : Count(f, m) \in Nat
      BY <1>2, ReadableIs
    <3>2. CASE i = n
      BY <2>3, <2>4, <2>9, <3>1, <3>2
    <3>3. CASE i # n
      <4>1. i \in Readable(f) /\ g[i] = f[i]
        BY <2>6, <2>7, <3>3
      <4>2. PICK x \in Nat \X Nat : x = f[i].id
        BY <1>2, <4>1 DEF Lines
      <4>3. x[2] <= Count(f, x[1]) /\ x[2] \in Nat
        BY <4>1, <4>2 DEF FileSound, CountedIds
      <4>4. Count(f, x[1]) <= Count(g, x[1])
        BY <2>9, <3>1
      <4>5. Count(f, x[1]) \in Nat /\ Count(g, x[1]) \in Nat
        BY <2>9, <3>1
      <4> QED BY <4>1, <4>2, <4>3, <4>4, <4>5
    <3> QED BY <3>2, <3>3
  <2>12. \A i \in 1 .. Len(g) : g[i].open => g[i].torn
    <3>1. \A i \in 1 .. n : i = n \/ i \in 1 .. Len(f)
      BY <1>2, <2>2
    <3> QED BY <2>3, <2>4, <3>1 DEF FileSound
  <2>13. FileSound(g)
    BY <2>4, <2>10, <2>11, <2>12 DEF FileSound
  <2> QED BY <1>1, <2>2, <2>3, <2>4, <2>6, <2>7, <2>8, <2>13
<1> QED BY <1>3, <1>4

\* Nothing that is not in the inbox has a receipt, so what is written there is still to be processed.
LEMMA InboxWritten ==
    ASSUME MailInvariant, NEW id \in Nat \X Nat, id[2] = 1 + Count(inbox, id[1]),
           inbox' = Write(inbox, id), receipts' = receipts
    PROVE  FileSound(inbox)' /\ EveryEntryOnce'
<1>1. PICK g : g = Write(inbox, id)
  OBVIOUS
<1>2. PICK n : n = Len(inbox) + 1
  OBVIOUS
<1>3. /\ inbox \in Seq(Lines) /\ IsFiniteSet(Readable(inbox)) /\ IsFiniteSet(receipts)
      /\ receipts \subseteq Ids(inbox)
      /\ Cardinality(Unprocessed) + Cardinality(receipts) = Cardinality(Readable(inbox))
  BY ReadableIs DEF MailInvariant, MailTypes, EveryEntryOnce, FileSound
<1>4. /\ FileSound(g) /\ \A i \in Readable(inbox) : g[i] = inbox[i]
      /\ \/ Readable(g) = Readable(inbox) /\ Ids(g) = Ids(inbox)
         \/ /\ Readable(g) = Readable(inbox) \cup {n} /\ n \notin Readable(inbox)
            /\ g[n].id = id /\ id \notin Ids(inbox)
  BY <1>1, <1>2, Written DEF MailInvariant
<1> DEFINE U == {i \in Readable(g) : g[i].id \notin receipts}
<1>5. Unprocessed' = U
  BY <1>1 DEF Unprocessed
<1>6. FileSound(inbox)'
  BY <1>1, <1>4 DEF FileSound, Distinct, CountedIds
<1>7. Ids(inbox) \subseteq Ids(g)
  BY <1>4 DEF Ids
<1>8. Cardinality(U) + Cardinality(receipts) = Cardinality(Readable(g))
  <2>1. CASE Readable(g) = Readable(inbox)
    <3>1. U = Unprocessed
      BY <1>4, <2>1 DEF Unprocessed
    <3> QED BY <1>3, <2>1, <3>1
  <2>2. CASE /\ Readable(g) = Readable(inbox) \cup {n} /\ n \notin Readable(inbox)
             /\ g[n].id = id /\ id \notin Ids(inbox)
    <3>1. U = Unprocessed \cup {n} /\ n \notin Unprocessed
      BY <1>3, <1>4, <2>2 DEF Unprocessed
    <3>2. IsFiniteSet(Unprocessed)
      <4>1. Unprocessed \subseteq Readable(inbox)
        BY DEF Unprocessed
      <4> QED BY <1>3, <4>1, FS_Subset
    <3>3. Cardinality(Unprocessed \cup {n}) = Cardinality(Unprocessed) + 1
      BY <3>1, <3>2, FS_AddElement
    <3>4. Cardinality(Readable(inbox) \cup {n}) = Cardinality(Readable(inbox)) + 1
      BY <1>3, <2>2, FS_AddElement
    <3>5. Cardinality(Unprocessed) \in Nat /\ Cardinality(receipts) \in Nat /\ Cardinality(Readable(inbox)) \in Nat
      BY <1>3, <3>2, FS_CardinalityType
    <3> HIDE DEF U
    <3>6. Cardinality(U) = Cardinality(Unprocessed) + 1 /\ Cardinality(Readable(g)) = Cardinality(Readable(inbox)) + 1
      BY <2>2, <3>1, <3>3, <3>4
    <3> QED BY <1>3, <3>5, <3>6
  <2> QED BY <1>4, <2>1, <2>2
<1> HIDE DEF U
<1>9. EveryEntryOnce'
  BY <1>1, <1>3, <1>5, <1>7, <1>8 DEF EveryEntryOnce
<1> QED BY <1>6, <1>9

LEMMA InboxUnread ==
    ASSUME MailInvariant, NEW id \in Nat \X Nat, inbox' = Cut(inbox, id), receipts' = receipts
    PROVE  FileSound(inbox)' /\ EveryEntryOnce'
<1>1. PICK g : g = Cut(inbox, id)
  OBVIOUS
<1>2. /\ FileSound(g) /\ Ids(g) = Ids(inbox) /\ Readable(g) = Readable(inbox)
      /\ \A i \in Readable(inbox) : g[i] = inbox[i]
  BY <1>1, CutUnread DEF MailInvariant
<1>3. FileSound(inbox)'
  BY <1>1, <1>2 DEF FileSound, Distinct, CountedIds
<1>4. Unprocessed' = Unprocessed /\ Readable(inbox)' = Readable(inbox) /\ Ids(inbox)' = Ids(inbox)
  BY <1>1, <1>2 DEF Unprocessed
<1> QED BY <1>3, <1>4 DEF MailInvariant, EveryEntryOnce

LEMMA AcknowledgeKeeps ==
    ASSUME MailInvariant, NEW id, Acknowledge(id)
    PROVE  MailInvariant'
<1>1. /\ id \in Ids(inbox) /\ receipts' = receipts \cup {id}
      /\ inbox' = inbox /\ outbox' = outbox /\ peers' = peers /\ counted' = counted /\ minute' = minute
  BY DEF Acknowledge
<1>2. /\ inbox \in Seq(Lines) /\ IsFiniteSet(Readable(inbox)) /\ IsFiniteSet(receipts)
      /\ receipts \subseteq Ids(inbox)
      /\ Cardinality(Unprocessed) + Cardinality(receipts) = Cardinality(Readable(inbox))
  BY ReadableIs DEF MailInvariant, MailTypes, EveryEntryOnce, FileSound
<1>3. IsFiniteSet(receipts') /\ receipts' \subseteq Ids(inbox)
  BY <1>1, <1>2, FS_AddElement
<1>4. Cardinality(Unprocessed') + Cardinality(receipts') = Cardinality(Readable(inbox))
  <2>1. CASE id \in receipts
    <3>1. receipts' = receipts
      BY <1>1, <2>1
    <3>2. Unprocessed' = Unprocessed
      BY <1>1, <3>1 DEF Unprocessed
    <3> QED BY <1>2, <3>1, <3>2
  <2>2. CASE id \notin receipts
    <3>1. PICK i \in Readable(inbox) : inbox[i].id = id
      BY <1>1 DEF Ids
    <3>2. \A j \in Readable(inbox) : inbox[j].id = id => j = i
      BY <3>1 DEF MailInvariant, FileSound, Distinct
    <3>3. Unprocessed' = Unprocessed \ {i} /\ i \in Unprocessed
      BY <1>1, <2>2, <3>1, <3>2 DEF Unprocessed
    <3>4. IsFiniteSet(Unprocessed)
      <4>1. Unprocessed \subseteq Readable(inbox)
        BY DEF Unprocessed
      <4> QED BY <1>2, <4>1, FS_Subset
    <3>5. Cardinality(Unprocessed \ {i}) = Cardinality(Unprocessed) - 1
      BY <3>3, <3>4, FS_RemoveElement
    <3>6. Cardinality(receipts \cup {id}) = Cardinality(receipts) + 1
      BY <1>2, <2>2, FS_AddElement
    <3>7. Cardinality(Unprocessed) \in Nat /\ Cardinality(receipts) \in Nat
      BY <1>2, <3>4, FS_CardinalityType
    <3>8. /\ Cardinality(Unprocessed') = Cardinality(Unprocessed) - 1
          /\ Cardinality(receipts') = Cardinality(receipts) + 1
      BY <1>1, <3>3, <3>5, <3>6
    <3> QED BY ONLY <1>2, <3>7, <3>8
  <2> QED BY <2>1, <2>2
<1>5. EveryEntryOnce'
  BY <1>1, <1>3, <1>4 DEF EveryEntryOnce
<1>6. MailTypes' /\ CountedIs' /\ FileSound(inbox)' /\ FileSound(outbox)' /\ DerivedNext'
  BY <1>1, <1>3 DEF MailInvariant, MailTypes, CountedIs, DerivedNext
<1> QED BY <1>5, <1>6 DEF MailInvariant

LEMMA MailStart == MailInit => MailInvariant
<1> SUFFICES ASSUME MailInit PROVE MailInvariant
  OBVIOUS
<1>1. inbox = <<>> /\ outbox = <<>> /\ receipts = {} /\ minute = 0
      /\ counted = [p \in Posters |-> Nobody]
  BY DEF MailInit
<1>2. <<>> \in Seq(Lines) /\ Len(<<>>) = 0 /\ Readable(<<>>) = {}
  BY EmptySeq DEF Readable
<1>3. FileSound(<<>>)
  BY <1>2 DEF FileSound, Distinct, CountedIds
<1>4. Unprocessed = {} /\ Cardinality({}) = 0 /\ IsFiniteSet({})
  BY <1>1, <1>2, FS_EmptySet DEF Unprocessed
<1>5. EveryEntryOnce
  BY <1>1, <1>2, <1>4 DEF EveryEntryOnce
<1>6. MailTypes /\ CountedIs /\ DerivedNext
  BY <1>1, <1>4 DEF MailTypes, CountedIs, DerivedNext
<1> QED BY <1>1, <1>3, <1>5, <1>6 DEF MailInvariant

LEMMA MailStep == OnePoster /\ MailInvariant /\ [MailNext]_mailVars => MailInvariant'
<1> SUFFICES ASSUME OnePoster, MailInvariant, [MailNext]_mailVars PROVE MailInvariant'
  OBVIOUS
<1>1. /\ inbox \in Seq(Lines) /\ outbox \in Seq(Lines) /\ minute \in Nat
      /\ counted \in [Posters -> {Nobody} \cup (Nat \X Nat)]
      /\ \A m : Count(inbox, m) \in Nat /\ Count(outbox, m) \in Nat
  BY ReadableIs DEF MailInvariant, MailTypes, CountedIs, FileSound
<1>2. \A f : NextId(f) = <<minute, 1 + Count(f, minute)>>
  BY DEF NextId, Count
<1>3. ASSUME NEW p \in Posters, PostRead(p) PROVE MailInvariant'
  <2>1. PICK id : id = <<minute, 1 + Count(inbox, minute)>>
    OBVIOUS
  <2>2. /\ counted' = [counted EXCEPT ![p] = id]
        /\ inbox' = inbox /\ receipts' = receipts /\ outbox' = outbox /\ minute' = minute
    BY <1>2, <1>3, <2>1 DEF PostRead
  <2>3. id \in Nat \X Nat /\ id[2] = 1 + Count(inbox, id[1])
    BY <1>1, <2>1
  <2>4. CountedIs'
    BY <1>1, <2>2, <2>3 DEF CountedIs
  <2>5. DerivedNext'
    <3> SUFFICES ASSUME NEW q \in Posters, counted'[q] # Nobody
                 PROVE  counted'[q] \in Nat \X Nat /\ counted'[q][2] = 1 + Count(inbox, counted'[q][1])
      BY <2>2 DEF DerivedNext
    <3>1. counted'[q] = IF q = p THEN id ELSE counted[q]
      BY <1>1, <2>2
    <3> QED BY <2>3, <3>1 DEF MailInvariant, DerivedNext
  <2> QED BY <2>2, <2>4, <2>5 DEF MailInvariant, MailTypes, EveryEntryOnce, Unprocessed
<1>4. ASSUME NEW p \in Posters, counted[p] # Nobody, counted' = [counted EXCEPT ![p] = Nobody],
             receipts' = receipts, outbox' = outbox, minute' = minute,
             inbox' = Write(inbox, counted[p]) \/ inbox' = Cut(inbox, counted[p])
      PROVE  MailInvariant'
  <2>1. PICK id : id = counted[p]
    OBVIOUS
  <2>2. id \in Nat \X Nat /\ id[2] = 1 + Count(inbox, id[1])
    BY <1>4, <2>1 DEF MailInvariant, DerivedNext
  <2>3. FileSound(inbox)' /\ EveryEntryOnce'
    BY <1>4, <2>1, <2>2, InboxWritten, InboxUnread
  <2>4. \A q \in Posters : counted'[q] = Nobody
    BY <1>1, <1>4 DEF OnePoster
  <2>5. CountedIs' /\ DerivedNext'
    BY <1>1, <1>4, <2>4 DEF CountedIs, DerivedNext
  <2> QED BY <1>4, <2>3, <2>5 DEF MailInvariant, MailTypes
<1>5. ASSUME NEW p \in Posters, PostWrite(p) PROVE MailInvariant'
  BY <1>4, <1>5 DEF PostWrite
<1>6. ASSUME NEW p \in Posters, PostCut(p) PROVE MailInvariant'
  BY <1>4, <1>6 DEF PostCut
<1>7. ASSUME NEW id, Acknowledge(id) PROVE MailInvariant'
  BY <1>7, AcknowledgeKeeps
<1>8. ASSUME UNCHANGED <<inbox, receipts, counted>>, minute' \in Nat, FileSound(outbox)'
      PROVE  MailInvariant'
  BY <1>8 DEF MailInvariant, MailTypes, CountedIs, DerivedNext, EveryEntryOnce, Unprocessed
<1>9. CASE Notify \/ NotifyCut
  <2>1. PICK id : id = <<minute, 1 + Count(outbox, minute)>>
    OBVIOUS
  <2>2. /\ outbox' = Write(outbox, id) \/ outbox' = Cut(outbox, id)
        /\ UNCHANGED <<inbox, receipts, counted>> /\ minute' = minute
    BY <1>2, <1>9, <2>1 DEF Notify, NotifyCut
  <2>3. id \in Nat \X Nat /\ id[2] = 1 + Count(outbox, id[1])
    BY <1>1, <2>1
  <2>4. PICK g : g = outbox'
    OBVIOUS
  <2>5. FileSound(g)
    BY <2>2, <2>3, <2>4, Written, CutUnread DEF MailInvariant
  <2>6. FileSound(outbox)'
    BY <2>4, <2>5 DEF FileSound, Distinct, CountedIds
  <2> QED BY <1>1, <1>8, <2>2, <2>6
<1>10. ASSUME NEW r \in Roles, RegisterRead(r) \/ RegisterWrite(r) PROVE MailInvariant'
  <2>1. UNCHANGED <<inbox, receipts, outbox, counted, minute>>
    BY <1>10 DEF RegisterRead, RegisterWrite
  <2>2. FileSound(outbox)'
    BY <2>1 DEF MailInvariant
  <2> QED BY <1>1, <1>8, <2>1, <2>2
<1>11. CASE NextMinute
  <2>1. UNCHANGED <<inbox, receipts, outbox, counted>> /\ minute' = minute + 1
    BY <1>11 DEF NextMinute
  <2>2. FileSound(outbox)'
    BY <2>1 DEF MailInvariant
  <2> QED BY <1>1, <1>8, <2>1, <2>2
<1>12. CASE UNCHANGED mailVars
  <2>1. UNCHANGED <<inbox, receipts, outbox, counted, minute>>
    BY <1>12 DEF mailVars
  <2>2. FileSound(outbox)'
    BY <2>1 DEF MailInvariant
  <2> QED BY <1>1, <1>8, <2>1, <2>2
<1> QED BY <1>3, <1>5, <1>6, <1>7, <1>9, <1>10, <1>11, <1>12 DEF MailNext

\* While one thread posts, no entry of either file is lost to its reader or comes twice, through
\* torn lines, entries written onto them, and a minute that ends between counting and writing
\* (mailbox.py).
THEOREM EntriesKept ==
    ASSUME OnePoster PROVE MailSpec => []MailKept
<1>1. MailInvariant => MailKept
  <2> SUFFICES ASSUME MailInvariant PROVE NotesOnce
    BY DEF MailInvariant, MailKept
  <2>1. Distinct(outbox)
    BY DEF MailInvariant, FileSound
  <2> QED BY <2>1 DEF NotesOnce, NotesAfter, Distinct
<1> QED BY <1>1, MailStart, MailStep, PTL DEF MailSpec

-----------------------------------------------------------------------------
\* The rows of a log and what a session holds.
OpenRows == [kind : {"opened"}, to : Stages, body : {NoOne}]
MoveRows == [kind : {"stage_changed"}, to : Stages, body : {"message", "host", "person", "record"}]
InboundRows == [kind : {"inbound"}, to : {NoOne}, body : Messages]
FileRows == [kind : {"resume_attached"}, to : {NoOne}, body : Files]
ApprovalRows == [kind : {"reply_approved"}, to : {NoOne},
                 body : [reply : Replies, original : Replies \cup {NoOne}]]
ResultRows == [kind : {"reply_result"}, to : {NoOne},
               body : [reply : Replies, result : ReplyResults, day : 0 .. LastDay]]
EventRows == OpenRows \cup MoveRows \cup InboundRows \cup FileRows \cup ApprovalRows \cup ResultRows
Logs == Seq(EventRows)

Questions == [intent : BOOLEAN, reply : Replies \cup {NoOne}, original : Replies \cup {NoOne},
              first : Replies \cup {NoOne}]
Opening == [step : {"save", "append"}, conv : Convs, stage : Stages]
Drafting == [step : {"ask"}, conv : Convs, anchor : 0 .. MaxLog, reply : Replies,
             replaced : Replies \cup {NoOne}, original : Replies \cup {NoOne}]

\* Drafts that are held, whatever NoOne is.
Held == Drafting \ {NoOne}

TalkTypes ==
    /\ stored \subseteq Convs
    /\ log \in [Convs -> Logs] /\ \A c \in Convs : Len(log[c]) <= MaxLog
    /\ asks \in [Convs -> Questions]
    /\ working \in [Sessions -> {NoOne} \cup Opening \cup Drafting]
    /\ today \in 0 .. LastDay

----
\* What the first k rows of a log say, and what may follow them.
LastAt(e, k, kind) == Max({0} \cup {i \in 1 .. k : e[i].kind = kind})
MovesIn(e, k) == {i \in 1 .. k : e[i].to # NoOne}
StageAt(e, k) == StageOf(SubSeq(e, 1, k))

AnswersAt(e, k, reply) ==
    /\ reply.answers = LastAt(e, k, "inbound")
    /\ reply.kind = "follow_up" <=> LastAt(e, k, "inbound") = 0
    /\ LastAt(e, k, "inbound") # 0 => e[LastAt(e, k, "inbound")].body.level = "l1"
    /\ reply.kind = "resume" => \E j \in 1 .. k : e[j].kind = "resume_attached"

\* The last approval is of this reply and has no outcome.
ApprovedAt(e, k, reply) ==
    \E j \in 1 .. k :
        /\ e[j].kind = "reply_approved" /\ e[j].body.reply = reply
        /\ \A m \in j + 1 .. k : e[m].kind \notin {"reply_approved", "reply_result"}

Fits(e, k, row) ==
    /\ (row.kind = "opened") <=> (k = 0)
    /\ row.kind = "stage_changed" => row.to \in Allowed[StageAt(e, k)]
    /\ StageAt(e, k) \in TerminalStages => row.kind = "reply_result"
    /\ row.kind = "reply_approved" => AnswersAt(e, k, row.body.reply)
    /\ row.kind = "reply_result" => ApprovedAt(e, k, row.body.reply)

WellLogged(e) == \A i \in 1 .. Len(e) : Fits(e, i - 1, e[i])
Live(e) == StageOf(e) \notin TerminalStages \cup {NoOne}
Answerable(e, reply) == Live(e) /\ AnswersAt(e, Len(e), reply)

Logged == \A c \in Convs : WellLogged(log[c])

\* A question that was put is one about a reply the present log admits.
AskedOfPresent ==
    \A c \in Convs : asks[c].reply # NoOne => Answerable(log[c], asks[c].reply)

\* So is a draft whose point of the log is still its end.
DraftedOfPresent ==
    \A s \in Sessions : working[s] \in Held =>
        /\ working[s].anchor <= Len(log[working[s].conv])
        /\ working[s].anchor = Len(log[working[s].conv]) =>
              Answerable(log[working[s].conv], working[s].reply)

\* A step that starts no draft, and changes a question only along with the log it was put to.
Dropped ==
    /\ \A c \in Convs : \/ log'[c] = log[c] /\ asks'[c] = asks[c]
                        \/ Len(log'[c]) > Len(log[c]) /\ asks'[c] = NoAsk
    /\ \A s \in Sessions : working'[s] \in Held => working'[s] = working[s]

TalkInvariant == TalkTypes /\ Logged /\ AskedOfPresent /\ DraftedOfPresent

----
\* The row of a kind found last.
LEMMA LastAtIs ==
    ASSUME NEW e, NEW k \in Nat, NEW kind
    PROVE  /\ LastAt(e, k, kind) \in 0 .. k
           /\ LastAt(e, k, kind) # 0 => e[LastAt(e, k, kind)].kind = kind
           /\ \A i \in 1 .. k : e[i].kind = kind => i <= LastAt(e, k, kind)
<1> DEFINE S == {0} \cup {i \in 1 .. k : e[i].kind = kind}
<1>1. S \in SUBSET (0 .. k) /\ S # {}
  OBVIOUS
<1>2. Max(S) \in S /\ \A x \in S : x <= Max(S)
  <2> HIDE DEF S
  <2> QED BY <1>1, MaxIs
<1>3. LastAt(e, k, kind) = Max(S)
  BY DEF LastAt
<1> HIDE DEF LastAt
<1> QED BY <1>2, <1>3

LEMMA LastAtUnique ==
    ASSUME NEW e, NEW k \in Nat, NEW kind, NEW m \in 0 .. k,
           m # 0 => e[m].kind = kind,
           \A i \in m + 1 .. k : e[i].kind # kind
    PROVE  LastAt(e, k, kind) = m
BY LastAtIs

LEMMA LastAtSame ==
    ASSUME NEW e, NEW f, NEW k \in Nat, \A i \in 1 .. k : e[i] = f[i], NEW kind
    PROVE  LastAt(e, k, kind) = LastAt(f, k, kind)
<1>1. {i \in 1 .. k : e[i].kind = kind} = {i \in 1 .. k : f[i].kind = kind}
  OBVIOUS
<1> QED BY <1>1 DEF LastAt

----
\* The stage after k rows is the one the last row with a stage set.
LEMMA StageIs ==
    ASSUME NEW e \in Logs, NEW k \in 0 .. Len(e)
    PROVE  /\ MovesIn(e, k) = {} => StageAt(e, k) = NoOne
           /\ MovesIn(e, k) # {} => StageAt(e, k) = e[Max(MovesIn(e, k))].to
                                    /\ Max(MovesIn(e, k)) \in MovesIn(e, k)
                                    /\ \A i \in MovesIn(e, k) : i <= Max(MovesIn(e, k))
<1> DEFINE p == SubSeq(e, 1, k)
<1>1. Len(p) = k /\ p \in Logs /\ \A i \in 1 .. k : p[i] = e[i]
  <2>1. \A i \in 1 .. k : e[i] \in EventRows
    BY ElementOfSeq DEF Logs
  <2>2. /\ SubSeq(e, 1, k) \in Seq(EventRows)
        /\ Len(SubSeq(e, 1, k)) = IF 1 <= k THEN k - 1 + 1 ELSE 0
        /\ \A i \in 1 .. k - 1 + 1 : SubSeq(e, 1, k)[i] = e[1 + i - 1]
    BY <2>1, SubSeqProperties
  <2> QED BY <2>2 DEF Logs
<1>2. DOMAIN p = 1 .. k
  BY <1>1, LenProperties DEF Logs
<1> HIDE DEF p
<1>3. {i \in DOMAIN p : p[i].to # NoOne} = MovesIn(e, k)
  BY <1>1, <1>2 DEF MovesIn
<1>4. StageAt(e, k) = IF MovesIn(e, k) = {} THEN NoOne ELSE p[Max(MovesIn(e, k))].to
  BY <1>3 DEF StageAt, StageOf, p
<1>5. MovesIn(e, k) \in SUBSET (0 .. k)
  BY DEF MovesIn
<1>6. ASSUME MovesIn(e, k) # {}
      PROVE  Max(MovesIn(e, k)) \in MovesIn(e, k)
             /\ \A i \in MovesIn(e, k) : i <= Max(MovesIn(e, k))
  <2>1. k \in Nat
    OBVIOUS
  <2> QED BY <1>5, <1>6, <2>1, MaxIs
<1>7. ASSUME MovesIn(e, k) # {} PROVE p[Max(MovesIn(e, k))] = e[Max(MovesIn(e, k))]
  BY <1>1, <1>6, <1>7 DEF MovesIn
<1> QED BY <1>4, <1>6, <1>7

LEMMA StageAtSame ==
    ASSUME NEW e \in Logs, NEW f \in Logs, NEW k \in Nat, k <= Len(e), k <= Len(f),
           \A i \in 1 .. k : e[i] = f[i]
    PROVE  StageAt(e, k) = StageAt(f, k)
<1>1. MovesIn(e, k) = MovesIn(f, k)
  BY DEF MovesIn
<1>2. k \in 0 .. Len(e) /\ k \in 0 .. Len(f)
  BY LenProperties DEF Logs
<1>3. MovesIn(e, k) # {} => Max(MovesIn(e, k)) \in 1 .. k
  BY <1>2, StageIs DEF MovesIn
<1> QED BY <1>1, <1>2, <1>3, StageIs

LEMMA StageAtNext ==
    ASSUME NEW e \in Logs, NEW k \in Nat, k < Len(e)
    PROVE  StageAt(e, k + 1) = IF e[k + 1].to # NoOne THEN e[k + 1].to ELSE StageAt(e, k)
<1>1. k \in 0 .. Len(e) /\ k + 1 \in 0 .. Len(e)
  BY LenProperties DEF Logs
<1>2. CASE e[k + 1].to # NoOne
  <2>1. k + 1 \in MovesIn(e, k + 1)
    BY <1>2 DEF MovesIn
  <2>2. \A i \in MovesIn(e, k + 1) : i <= k + 1
    BY DEF MovesIn
  <2>3. Max(MovesIn(e, k + 1)) \in MovesIn(e, k + 1) /\ k + 1 <= Max(MovesIn(e, k + 1))
        /\ StageAt(e, k + 1) = e[Max(MovesIn(e, k + 1))].to
    BY <1>1, <2>1, StageIs
  <2>4. Max(MovesIn(e, k + 1)) = k + 1
    <3>1. Max(MovesIn(e, k + 1)) \in Nat
      BY <2>3 DEF MovesIn
    <3> QED BY <2>2, <2>3, <3>1
  <2> QED BY <1>2, <2>3, <2>4
<1>3. CASE e[k + 1].to = NoOne
  <2>1. MovesIn(e, k + 1) = MovesIn(e, k)
    BY <1>3 DEF MovesIn
  <2> QED BY <1>1, <1>3, <2>1, StageIs
<1> QED BY <1>2, <1>3

LEMMA StageOfWhole ==
    ASSUME NEW e \in Logs
    PROVE  StageOf(e) = StageAt(e, Len(e))
BY SubSeqFull DEF StageAt, Logs

\* What may follow depends on those rows only.
LEMMA FitsSame ==
    ASSUME NEW e \in Logs, NEW f \in Logs, NEW k \in Nat, k <= Len(e), k <= Len(f),
           \A i \in 1 .. k : e[i] = f[i], NEW row, Fits(e, k, row)
    PROVE  Fits(f, k, row)
<1>1. StageAt(e, k) = StageAt(f, k)
  BY StageAtSame
<1>2. LastAt(e, k, "inbound") = LastAt(f, k, "inbound")
  BY LastAtSame
<1>3. LastAt(e, k, "inbound") \in 0 .. k
  BY LastAtIs
<1>4. LastAt(e, k, "inbound") # 0 => e[LastAt(e, k, "inbound")] = f[LastAt(e, k, "inbound")]
  BY <1>3
<1>5. ASSUME NEW reply, AnswersAt(e, k, reply) PROVE AnswersAt(f, k, reply)
  BY <1>2, <1>4, <1>5 DEF AnswersAt
<1>6. ASSUME NEW reply, ApprovedAt(e, k, reply) PROVE ApprovedAt(f, k, reply)
  <2>1. PICK j \in 1 .. k : /\ e[j].kind = "reply_approved" /\ e[j].body.reply = reply
                           /\ \A m \in j + 1 .. k : e[m].kind \notin {"reply_approved", "reply_result"}
    BY <1>6 DEF ApprovedAt
  <2>2. f[j].kind = "reply_approved" /\ f[j].body.reply = reply
    BY <2>1
  <2>3. \A m \in j + 1 .. k : f[m].kind \notin {"reply_approved", "reply_result"}
    BY <2>1
  <2> QED BY <2>2, <2>3 DEF ApprovedAt
<1> QED BY <1>1, <1>5, <1>6 DEF Fits

LEMMA Extended ==
    ASSUME NEW e \in Logs, WellLogged(e), NEW row \in EventRows, Fits(e, Len(e), row)
    PROVE  /\ Append(e, row) \in Logs /\ Len(Append(e, row)) = Len(e) + 1
           /\ \A i \in 1 .. Len(e) : Append(e, row)[i] = e[i]
           /\ WellLogged(Append(e, row))
<1> DEFINE f == Append(e, row)
<1>1. /\ f \in Logs /\ Len(f) = Len(e) + 1 /\ f[Len(e) + 1] = row
      /\ \A i \in 1 .. Len(e) : f[i] = e[i]
  BY AppendProperties DEF Logs
<1>2. Len(e) \in Nat
  BY LenProperties DEF Logs
<1> HIDE DEF f
<1>3. ASSUME NEW i \in 1 .. Len(f) PROVE Fits(f, i - 1, f[i])
  <2>1. i \in 1 .. Len(e) + 1
    BY <1>1
  <2>2. i - 1 \in Nat /\ i - 1 <= Len(e) /\ i - 1 <= Len(f)
    BY <1>1, <1>2, <2>1
  <2>3. \A j \in 1 .. i - 1 : e[j] = f[j]
    BY <1>1, <1>2, <2>1
  <2>4. Fits(e, i - 1, f[i])
    <3>1. CASE i = Len(e) + 1
      <4>1. i - 1 = Len(e)
        BY <1>2, <3>1
      <4> QED BY <1>1, <3>1, <4>1
    <3>2. CASE i # Len(e) + 1
      <4>1. i \in 1 .. Len(e)
        BY <1>2, <2>1, <3>2
      <4> QED BY <1>1, <4>1 DEF WellLogged
    <3> QED BY <3>1, <3>2
  <2> QED BY <1>1, <2>2, <2>3, <2>4, FitsSame
<1>4. WellLogged(f)
  BY <1>3 DEF WellLogged
<1> QED BY <1>1, <1>4 DEF f

\* The stage after one more row.
LEMMA StageOfAppend ==
    ASSUME NEW e \in Logs, NEW row \in EventRows
    PROVE  StageOf(Append(e, row)) = IF row.to # NoOne THEN row.to ELSE StageOf(e)
<1> DEFINE f == Append(e, row)
<1>1. /\ f \in Logs /\ Len(f) = Len(e) + 1 /\ f[Len(e) + 1] = row
      /\ \A i \in 1 .. Len(e) : f[i] = e[i]
  BY AppendProperties DEF Logs
<1>2. Len(e) \in Nat
  BY LenProperties DEF Logs
<1> HIDE DEF f
<1>3. StageAt(f, Len(e) + 1) = IF row.to # NoOne THEN row.to ELSE StageAt(f, Len(e))
  BY <1>1, <1>2, StageAtNext
<1>4. StageAt(f, Len(e)) = StageAt(e, Len(e))
  BY <1>1, <1>2, StageAtSame
<1> QED BY <1>1, <1>3, <1>4, StageOfWhole DEF f

\* A log with a row has a stage.
LEMMA Staged ==
    ASSUME NEW e \in Logs, WellLogged(e), NEW k \in 1 .. Len(e)
    PROVE  StageAt(e, k) \in Stages
<1>1. Len(e) \in Nat /\ 1 \in 1 .. Len(e) /\ k \in 0 .. Len(e)
  BY LenProperties DEF Logs
<1>2. \A i \in 1 .. Len(e) : e[i] \in EventRows
  BY ElementOfSeq DEF Logs
<1>3. e[1].kind = "opened"
  <2>1. Fits(e, 1 - 1, e[1])
    BY <1>1 DEF WellLogged
  <2> QED BY <2>1 DEF Fits
<1>4. e[1].to \in Stages /\ NoOne \notin Stages
  BY <1>1, <1>2, <1>3, ConversationSorts
     DEF EventRows, OpenRows, MoveRows, InboundRows, FileRows, ApprovalRows, ResultRows
<1>5. 1 \in MovesIn(e, k)
  BY <1>1, <1>4 DEF MovesIn
<1>6. StageAt(e, k) = e[Max(MovesIn(e, k))].to /\ Max(MovesIn(e, k)) \in MovesIn(e, k)
  BY <1>1, <1>5, StageIs
<1>7. Max(MovesIn(e, k)) \in 1 .. Len(e) /\ e[Max(MovesIn(e, k))].to # NoOne
  BY <1>1, <1>6 DEF MovesIn
<1>8. \A row \in EventRows : row.to \in Stages \cup {NoOne}
  BY DEF EventRows, OpenRows, MoveRows, InboundRows, FileRows, ApprovalRows, ResultRows
<1> QED BY <1>2, <1>6, <1>7, <1>8

----
\* A command that appends: the log it appends to was open or had nothing, and every question and
\* draft of an earlier end is dead.
LEMMA Grown ==
    ASSUME TalkInvariant, NEW c \in Convs, NEW f \in Logs, WellLogged(f),
           Len(f) > Len(log[c]), Len(f) <= MaxLog,
           log' = [log EXCEPT ![c] = f], asks' = [asks EXCEPT ![c] = NoAsk],
           stored' = stored, today' = today,
           working' \in [Sessions -> {NoOne} \cup Opening \cup Drafting],
           \A s \in Sessions : working'[s] \in Held => working'[s] = working[s]
    PROVE  TalkInvariant' /\ Dropped
<1>1. /\ log \in [Convs -> Logs] /\ asks \in [Convs -> Questions]
      /\ log'[c] = f /\ asks'[c] = NoAsk
      /\ \A d \in Convs : d # c => log'[d] = log[d] /\ asks'[d] = asks[d]
  BY DEF TalkInvariant, TalkTypes
<1>2. log' \in [Convs -> Logs] /\ asks' \in [Convs -> Questions]
  <2>1. NoAsk \in Questions
    BY DEF NoAsk, Questions
  <2> QED BY <1>1, <2>1
<1>3. \A d \in Convs : Len(log'[d]) <= MaxLog
  BY <1>1 DEF TalkInvariant, TalkTypes
<1>4. TalkTypes'
  BY <1>2, <1>3 DEF TalkInvariant, TalkTypes
<1>5. Logged'
  <2> SUFFICES ASSUME NEW d \in Convs PROVE WellLogged(log'[d])
    BY DEF Logged, WellLogged, Fits, AnswersAt, ApprovedAt, StageAt, LastAt
  <2> QED BY <1>1 DEF TalkInvariant, Logged
<1>6. AskedOfPresent'
  <2> SUFFICES ASSUME NEW d \in Convs, asks'[d].reply # NoOne PROVE Answerable(log'[d], asks'[d].reply)
    BY DEF AskedOfPresent, Answerable, Live, AnswersAt, LastAt
  <2>1. d # c
    BY <1>1 DEF NoAsk
  <2> QED BY <1>1, <2>1 DEF TalkInvariant, AskedOfPresent
<1>7. DraftedOfPresent'
  <2> SUFFICES ASSUME NEW s \in Sessions, working'[s] \in Held
               PROVE  /\ working'[s].anchor <= Len(log'[working'[s].conv])
                      /\ working'[s].anchor = Len(log'[working'[s].conv]) =>
                           Answerable(log'[working'[s].conv], working'[s].reply)
    BY DEF DraftedOfPresent, Answerable, Live, AnswersAt, LastAt
  <2>1. PICK w \in Drafting : w = working[s] /\ w = working'[s]
    BY DEF Held
  <2>2. w.conv \in Convs /\ w.anchor \in Nat
    BY ConversationSorts DEF Drafting
  <2>3. w.anchor <= Len(log[w.conv]) /\ (w.anchor = Len(log[w.conv]) => Answerable(log[w.conv], w.reply))
    BY <2>1 DEF TalkInvariant, DraftedOfPresent, Held
  <2>4. CASE w.conv # c
    BY <1>1, <2>1, <2>2, <2>3, <2>4
  <2>5. CASE w.conv = c
    <3>1. Len(log[c]) \in Nat /\ Len(f) \in Nat
      BY <1>1, LenProperties DEF Logs
    <3>2. w.anchor < Len(f)
      BY <2>2, <2>3, <2>5, <3>1
    <3> QED BY <1>1, <2>1, <2>2, <2>5, <3>1, <3>2
  <2> QED BY <2>4, <2>5
<1>8. Dropped
  BY <1>1 DEF Dropped
<1> QED BY <1>4, <1>5, <1>6, <1>7, <1>8 DEF TalkInvariant

\* Append1 with one row, or with two.
LEMMA AppendOne ==
    ASSUME TalkInvariant, NEW c \in Convs, NEW row \in EventRows, Fits(log[c], Len(log[c]), row),
           Append1(c, <<row>>), stored' = stored, today' = today,
           working' \in [Sessions -> {NoOne} \cup Opening \cup Drafting],
           \A s \in Sessions : working'[s] \in Held => working'[s] = working[s]
    PROVE  TalkInvariant' /\ Dropped
<1>1. log[c] \in Logs /\ WellLogged(log[c]) /\ Len(log[c]) \in Nat
  BY LenProperties DEF TalkInvariant, TalkTypes, Logged, Logs
<1> DEFINE f == Append(log[c], row)
<1>2. f \in Logs /\ Len(f) = Len(log[c]) + 1 /\ WellLogged(f)
  BY <1>1, Extended
<1>3. log[c] \o <<row>> = f
  BY <1>1, AppendIsConcat DEF Logs
<1>4. Len(<<row>>) = 1
  OBVIOUS
<1>5. /\ Len(log[c]) + 1 <= MaxLog /\ asks' = [asks EXCEPT ![c] = NoAsk]
      /\ log' = [log EXCEPT ![c] = f]
  BY <1>3, <1>4 DEF Append1
<1> HIDE DEF f
<1>6. Len(f) > Len(log[c]) /\ Len(f) <= MaxLog
  BY <1>1, <1>2, <1>5
<1> QED BY <1>2, <1>5, <1>6, Grown

LEMMA AppendTwo ==
    ASSUME TalkInvariant, NEW c \in Convs, NEW row \in EventRows, Fits(log[c], Len(log[c]), row),
           NEW move \in MoveRows, row.kind # "opened",
           StageOf(Append(log[c], row)) \notin TerminalStages,
           move.to \in Allowed[StageOf(Append(log[c], row))],
           Append1(c, <<row, move>>), stored' = stored, today' = today, working' = working
    PROVE  TalkInvariant' /\ Dropped
<1>1. log[c] \in Logs /\ WellLogged(log[c]) /\ Len(log[c]) \in Nat /\ MaxLog \in Nat
      /\ working \in [Sessions -> {NoOne} \cup Opening \cup Drafting]
  BY LenProperties, ConversationSorts DEF TalkInvariant, TalkTypes, Logged, Logs
<1> DEFINE e == Append(log[c], row)
           f == Append(e, move)
<1>2. e \in Logs /\ Len(e) = Len(log[c]) + 1 /\ WellLogged(e)
  BY <1>1, Extended
<1>3. Fits(e, Len(e), move)
  <2>1. move.kind = "stage_changed"
    BY DEF MoveRows
  <2>2. StageAt(e, Len(e)) = StageOf(e)
    BY <1>2, StageOfWhole
  <2> QED BY <1>1, <1>2, <2>1, <2>2 DEF Fits
<1>4. f \in Logs /\ Len(f) = Len(e) + 1 /\ WellLogged(f)
  <2>1. move \in EventRows
    BY DEF EventRows
  <2> HIDE DEF e
  <2> QED BY <1>2, <1>3, <2>1, Extended
<1>5. log[c] \o <<row, move>> = f
  <2>1. move \in EventRows
    BY DEF EventRows
  <2>2. <<row>> \in Seq(EventRows) /\ <<move>> \in Seq(EventRows) /\ <<row, move>> = <<row>> \o <<move>>
    <3> HIDE DEF e, f
    <3> QED BY <2>1
  <2>3. log[c] \o (<<row>> \o <<move>>) = (log[c] \o <<row>>) \o <<move>>
    BY <1>1, <2>2, ConcatAssociative DEF Logs
  <2>4. log[c] \o <<row>> = e
    BY <1>1, AppendIsConcat DEF Logs
  <2>5. e \o <<move>> = f
    <3> HIDE DEF e
    <3> QED BY <1>2, <2>1, AppendIsConcat DEF Logs
  <2> QED BY <2>2, <2>3, <2>4, <2>5
<1>6. Len(<<row, move>>) = 2
  OBVIOUS
<1>7. /\ Len(log[c]) + 2 <= MaxLog /\ asks' = [asks EXCEPT ![c] = NoAsk]
      /\ log' = [log EXCEPT ![c] = f]
  BY <1>5, <1>6 DEF Append1
<1> HIDE DEF e, f
<1>8. Len(f) > Len(log[c]) /\ Len(f) <= MaxLog
  BY <1>1, <1>2, <1>4, <1>7
<1> QED BY <1>1, <1>4, <1>7, <1>8, Grown

----
\* What the table and the operators of a command give.
LEMMA Table ==
    ASSUME NEW stage \in Stages
    PROVE  /\ Allowed[stage] \subseteq Stages
           /\ stage \in TerminalStages => Allowed[stage] = {}
           /\ stage \notin TerminalStages => {"declined", "closed"} \subseteq Allowed[stage]
           /\ stage \in {"greeted", "silent"} => "replied" \in Allowed[stage]
BY DEF Allowed, Stages, TerminalStages

LEMMA MessageMoves ==
    ASSUME NEW stage \in Stages \ TerminalStages, NEW m \in Messages
    PROVE  StageFor(stage, m) \in {NoOne} \cup Allowed[stage]
BY Table DEF StageFor

LEMMA OpenLog ==
    ASSUME TalkInvariant, NEW c \in Convs
    PROVE  /\ log[c] \in Logs /\ WellLogged(log[c]) /\ Len(log[c]) \in Nat /\ Len(log[c]) <= MaxLog
           /\ Stage(c) = StageOf(log[c]) /\ Stage(c) = StageAt(log[c], Len(log[c]))
           /\ Stage(c) # NoOne => Len(log[c]) > 0 /\ Stage(c) \in Stages
           /\ log[c] = <<>> => Len(log[c]) = 0 /\ Stage(c) = NoOne
           /\ \A kind : LastOf(c, kind) = LastAt(log[c], Len(log[c]), kind)
           /\ \A i \in 1 .. Len(log[c]) : log[c][i] \in EventRows
<1>1. log[c] \in Logs /\ WellLogged(log[c]) /\ Len(log[c]) \in Nat /\ Len(log[c]) <= MaxLog
  BY LenProperties DEF TalkInvariant, TalkTypes, Logged, Logs
<1>2. Stage(c) = StageOf(log[c]) /\ Stage(c) = StageAt(log[c], Len(log[c]))
  BY <1>1, StageOfWhole DEF Stage
<1>3. ASSUME Len(log[c]) = 0 PROVE Stage(c) = NoOne
  <2>1. MovesIn(log[c], 0) = {}
    BY DEF MovesIn
  <2> QED BY <1>1, <1>2, <1>3, <2>1, StageIs
<1>4. ASSUME Len(log[c]) # 0 PROVE Stage(c) \in Stages
  <2>1. Len(log[c]) \in 1 .. Len(log[c])
    BY <1>1, <1>4
  <2> QED BY <1>1, <1>2, <2>1, Staged
<1>5. log[c] = <<>> => Len(log[c]) = 0
  OBVIOUS
<1>6. ASSUME NEW kind PROVE LastOf(c, kind) = LastAt(log[c], Len(log[c]), kind)
  <2>1. DOMAIN log[c] = 1 .. Len(log[c])
    BY <1>1, LenProperties DEF Logs
  <2> QED BY <2>1 DEF LastOf, LastAt
<1>7. \A i \in 1 .. Len(log[c]) : log[c][i] \in EventRows
  BY <1>1, ElementOfSeq DEF Logs
<1>8. Stage(c) # NoOne => Len(log[c]) > 0 /\ Stage(c) \in Stages
  BY <1>1, <1>3, <1>4
<1>9. log[c] = <<>> => Len(log[c]) = 0 /\ Stage(c) = NoOne
  BY <1>3, <1>5
<1> QED BY <1>1, <1>2, <1>6, <1>7, <1>8, <1>9

\* A row with neither opening, approval nor outcome may follow any open log.
LEMMA PlainFits ==
    ASSUME TalkInvariant, NEW c \in Convs, IsOpen(c), NEW row,
           row.kind \in {"inbound", "resume_attached", "stage_changed"},
           row.kind = "stage_changed" => row.to \in Allowed[Stage(c)]
    PROVE  Fits(log[c], Len(log[c]), row)
<1>1. Len(log[c]) > 0 /\ Len(log[c]) \in Nat /\ Stage(c) = StageAt(log[c], Len(log[c]))
  BY OpenLog DEF IsOpen
<1> QED BY <1>1 DEF IsOpen, Fits

\* A reply accepted at the end of the log is one the log admits.
LEMMA AcceptedAnswers ==
    ASSUME TalkInvariant, NEW c \in Convs, NEW reply \in Replies, ReplyAccepted(c, reply),
           reply.kind = "follow_up" => reply.answers = 0
    PROVE  Answerable(log[c], reply)
<1> DEFINE e == log[c]
           n == Len(log[c])
           last == LastAt(log[c], Len(log[c]), "inbound")
<1>1. /\ LatestInbound(c) = last /\ Stage(c) = StageOf(e)
      /\ n \in Nat /\ \A i \in 1 .. n : e[i] \in EventRows
  BY OpenLog DEF LatestInbound
<1>2. Live(e)
  BY <1>1 DEF Live, ReplyAccepted, IsOpen
<1>3. last \in 0 .. n /\ (last # 0 => e[last].kind = "inbound")
  BY <1>1, LastAtIs
<1>4. last # 0 => e[last].body.level \in Levels
  <2>1. last # 0 => e[last] \in EventRows
    BY <1>1, <1>3
  <2>2. last # 0 => e[last] \in InboundRows
    BY <1>3, <2>1 DEF EventRows, OpenRows, MoveRows, FileRows, ApprovalRows, ResultRows
  <2>3. last # 0 => e[last].body \in Messages
    BY <2>2 DEF InboundRows
  <2>4. \A m \in Messages : m.level \in Levels
    BY ConversationSorts
  <2> HIDE DEF last, e
  <2> QED BY <2>3, <2>4
<1>5. reply.kind = "resume" => \E j \in 1 .. n : e[j].kind = "resume_attached"
  <2> SUFFICES ASSUME reply.kind = "resume" PROVE \E j \in 1 .. n : e[j].kind = "resume_attached"
    OBVIOUS
  <2>1. LastOf(c, "resume_attached") # 0
    BY DEF ReplyAccepted, AttachedResume
  <2>2. LastAt(e, n, "resume_attached") # 0
    BY <2>1, OpenLog
  <2>3. /\ LastAt(e, n, "resume_attached") \in 0 .. n
        /\ e[LastAt(e, n, "resume_attached")].kind = "resume_attached"
    BY <1>1, <2>2, LastAtIs
  <2> QED BY <1>1, <2>2, <2>3
<1>6. /\ reply.answers = last
      /\ reply.kind = "follow_up" <=> last = 0
      /\ last # 0 => e[last].body.level = "l1"
  <2>1. Levels = {"l1"} \cup HumanOnlyLevels
    BY DEF Levels, HumanOnlyLevels
  <2>2. CASE reply.kind = "follow_up"
    <3>1. last = 0
      BY <1>1, <2>2 DEF ReplyAccepted
    <3> HIDE DEF last
    <3> QED BY <2>2, <3>1
  <2>3. CASE reply.kind # "follow_up"
    <3>1. last # 0 /\ e[last].body.level \notin HumanOnlyLevels /\ reply.answers = last
      BY <1>1, <2>3 DEF ReplyAccepted
    <3> HIDE DEF last, e
    <3> QED BY <1>4, <2>1, <2>3, <3>1
  <2> QED BY <2>2, <2>3
<1> QED BY <1>2, <1>5, <1>6 DEF Answerable, AnswersAt

\* The approval that waits: the last one, with no outcome after it.
LEMMA PendingIs ==
    ASSUME TalkInvariant, NEW c \in Convs, PendingApproval(c) # 0
    PROVE  /\ PendingApproval(c) \in 1 .. Len(log[c])
           /\ log[c][PendingApproval(c)] \in ApprovalRows
           /\ \A i \in 1 .. Len(log[c]) : log[c][i].kind = "reply_approved" => i <= PendingApproval(c)
           /\ \A i \in PendingApproval(c) + 1 .. Len(log[c]) :
                 log[c][i].kind \notin {"reply_approved", "reply_result"}
<1> DEFINE e == log[c]
           n == Len(log[c])
           a == LastAt(log[c], Len(log[c]), "reply_approved")
<1>1. /\ LastOf(c, "reply_approved") = a /\ n \in Nat
      /\ WellLogged(e) /\ \A i \in 1 .. n : e[i] \in EventRows
  BY OpenLog
<1>2. /\ PendingApproval(c) = a /\ a # 0
      /\ ~ \E i \in a + 1 .. n : e[i].kind = "reply_result" /\ e[i].body.reply = e[a].body.reply
  BY <1>1 DEF PendingApproval
<1>3. /\ a \in 0 .. n /\ e[a].kind = "reply_approved"
      /\ \A i \in 1 .. n : e[i].kind = "reply_approved" => i <= a
  BY <1>1, <1>2, LastAtIs
<1>4. a \in 1 .. n
  BY <1>1, <1>2, <1>3
<1>5. e[a] \in ApprovalRows
  BY <1>1, <1>3, <1>4 DEF EventRows, OpenRows, MoveRows, InboundRows, FileRows, ResultRows
<1> HIDE DEF a, e, n
<1>6. ASSUME NEW i \in a + 1 .. n PROVE e[i].kind # "reply_approved"
  BY <1>1, <1>3, <1>4, <1>6
<1>7. ASSUME NEW i \in a + 1 .. n PROVE e[i].kind # "reply_result"
  <2> SUFFICES ASSUME e[i].kind = "reply_result" PROVE FALSE
    OBVIOUS
  <2>1. i \in 1 .. n /\ i - 1 \in Nat /\ a < i
    BY <1>1, <1>4, <1>7
  <2>2. Fits(e, i - 1, e[i])
    BY <1>1, <2>1 DEF WellLogged, n, e
  <2>3. PICK j \in 1 .. i - 1 :
           /\ e[j].kind = "reply_approved" /\ e[j].body.reply = e[i].body.reply
           /\ \A m \in j + 1 .. i - 1 : e[m].kind \notin {"reply_approved", "reply_result"}
    BY <2>2 DEF Fits, ApprovedAt
  <2>4. j <= a
    BY <1>1, <1>3, <2>1, <2>3
  <2>5. ~ (j < a)
    <3> SUFFICES ASSUME j < a PROVE FALSE
      OBVIOUS
    <3>1. a \in j + 1 .. i - 1
      BY <1>1, <1>4, <2>1
    <3> QED BY <1>3, <2>3, <3>1
  <2>6. j = a
    BY <1>1, <1>4, <2>1, <2>4, <2>5
  <2> QED BY <1>2, <2>3, <2>6 DEF a, e, n
<1> QED BY <1>2, <1>3, <1>4, <1>5, <1>6, <1>7 DEF a, e, n

----
LEMMA TalkStart == TalkInit => TalkInvariant
<1> SUFFICES ASSUME TalkInit PROVE TalkInvariant
  OBVIOUS
<1>1. <<>> \in Logs /\ Len(<<>>) = 0 /\ NoAsk \in Questions /\ MaxLog \in Nat /\ LastDay \in Nat
  BY EmptySeq, ConversationSorts DEF Logs, NoAsk, Questions
<1>2. TalkTypes
  BY <1>1 DEF TalkInit, TalkTypes
<1>3. Logged
  BY <1>1 DEF TalkInit, Logged, WellLogged
<1>4. AskedOfPresent
  BY DEF TalkInit, AskedOfPresent, NoAsk
<1>5. DraftedOfPresent
  BY DEF TalkInit, DraftedOfPresent, Held
<1> QED BY <1>2, <1>3, <1>4, <1>5 DEF TalkInvariant

\* A step that touches neither logs nor questions and starts no draft.
LEMMA Still ==
    ASSUME TalkInvariant, log' = log, asks' = asks, TalkTypes',
           \A s \in Sessions : working'[s] \in Held => working'[s] = working[s]
    PROVE  TalkInvariant' /\ Dropped
<1>1. Logged'
  <2> SUFFICES ASSUME NEW d \in Convs PROVE WellLogged(log'[d])
    BY DEF Logged, WellLogged, Fits, AnswersAt, ApprovedAt, StageAt, LastAt
  <2> QED BY DEF TalkInvariant, Logged
<1>2. AskedOfPresent'
  BY DEF TalkInvariant, AskedOfPresent, Answerable, Live, AnswersAt, LastAt
<1>3. DraftedOfPresent'
  <2> SUFFICES ASSUME NEW s \in Sessions, working'[s] \in Held
               PROVE  /\ working'[s].anchor <= Len(log'[working'[s].conv])
                      /\ working'[s].anchor = Len(log'[working'[s].conv]) =>
                           Answerable(log'[working'[s].conv], working'[s].reply)
    BY DEF DraftedOfPresent, Answerable, Live, AnswersAt, LastAt
  <2> QED BY DEF TalkInvariant, DraftedOfPresent
<1> QED BY <1>1, <1>2, <1>3 DEF TalkInvariant, Dropped

LEMMA OpenReadKeeps ==
    ASSUME TalkInvariant, NEW s \in Sessions, NEW c \in Convs, NEW o,
           NEW stage \in {"greeted", "replied", "closed"}, OpenRead(s, c, o, stage)
    PROVE  TalkInvariant' /\ Dropped
<1> DEFINE w == [step |-> "save", conv |-> c, stage |-> stage]
<1>1. /\ working' = [working EXCEPT ![s] = w]
      /\ stored' = stored /\ log' = log /\ asks' = asks /\ today' = today
  BY DEF OpenRead
<1>2. w \in Opening /\ w \notin Held
  BY DEF Opening, Held, Drafting, Stages
<1> HIDE DEF w
<1>3. working \in [Sessions -> {NoOne} \cup Opening \cup Drafting]
  BY DEF TalkInvariant, TalkTypes
<1>4. working' \in [Sessions -> {NoOne} \cup Opening \cup Drafting]
  BY <1>1, <1>2, <1>3
<1>5. TalkTypes'
  BY <1>1, <1>4 DEF TalkInvariant, TalkTypes
<1>6. \A t \in Sessions : working'[t] \in Held => working'[t] = working[t]
  BY <1>1, <1>2, <1>3
<1> QED BY <1>1, <1>5, <1>6, Still

LEMMA OpenSaveKeeps ==
    ASSUME TalkInvariant, NEW s \in Sessions, OpenSave(s)
    PROVE  TalkInvariant' /\ Dropped
<1>1. PICK v : v = working[s]
  OBVIOUS
<1>2. /\ v # NoOne /\ v.step = "save"
      /\ working' = [working EXCEPT ![s] = [v EXCEPT !.step = "append"]]
      /\ stored' = stored \cup {v.conv} /\ log' = log /\ asks' = asks /\ today' = today
  BY <1>1 DEF OpenSave
<1>3. working \in [Sessions -> {NoOne} \cup Opening \cup Drafting]
  BY DEF TalkInvariant, TalkTypes
<1>4. v \in Opening
  BY <1>1, <1>2, <1>3 DEF Drafting
<1> DEFINE w == [v EXCEPT !.step = "append"]
<1>5. w \in Opening /\ w \notin Held /\ v.conv \in Convs
  BY <1>4 DEF Opening, Held, Drafting
<1>6. working' = [working EXCEPT ![s] = w]
  BY <1>2
<1> HIDE DEF w
<1>7. working' \in [Sessions -> {NoOne} \cup Opening \cup Drafting]
  BY <1>3, <1>5, <1>6
<1>8. TalkTypes'
  BY <1>2, <1>5, <1>7 DEF TalkInvariant, TalkTypes
<1>9. \A t \in Sessions : working'[t] \in Held => working'[t] = working[t]
  BY <1>3, <1>5, <1>6
<1> QED BY <1>2, <1>8, <1>9, Still

\* A session that gives up or is done.
LEMMA SessionFreed ==
    ASSUME TalkInvariant, NEW s \in Sessions, working' = [working EXCEPT ![s] = NoOne]
    PROVE  /\ working' \in [Sessions -> {NoOne} \cup Opening \cup Drafting]
           /\ \A t \in Sessions : working'[t] \in Held => working'[t] = working[t]
BY DEF TalkInvariant, TalkTypes, Held

LEMMA CrashKeeps ==
    ASSUME TalkInvariant, NEW s \in Sessions, TalkCrash(s)
    PROVE  TalkInvariant' /\ Dropped
<1>1. /\ working' = [working EXCEPT ![s] = NoOne]
      /\ stored' = stored /\ log' = log /\ asks' = asks /\ today' = today
  BY DEF TalkCrash
<1>2. TalkTypes'
  BY <1>1, SessionFreed DEF TalkInvariant, TalkTypes
<1> QED BY <1>1, <1>2, SessionFreed, Still

LEMMA DayKeeps == ASSUME TalkInvariant, NextDay PROVE TalkInvariant' /\ Dropped
<1>1. /\ working' = working /\ stored' = stored /\ log' = log /\ asks' = asks
      /\ today < LastDay /\ today' = today + 1
  BY DEF NextDay
<1>2. today' \in 0 .. LastDay
  BY <1>1, ConversationSorts DEF TalkInvariant, TalkTypes
<1>3. TalkTypes'
  BY <1>1, <1>2 DEF TalkInvariant, TalkTypes
<1> QED BY <1>1, <1>3, Still

LEMMA OpenAppendKeeps ==
    ASSUME TalkInvariant, NEW s \in Sessions, OpenAppend(s)
    PROVE  TalkInvariant' /\ Dropped
<1>1. PICK v : v = working[s]
  OBVIOUS
<1>2. /\ v # NoOne /\ v.step = "append"
      /\ working' = [working EXCEPT ![s] = NoOne]
      /\ stored' = stored /\ today' = today
      /\ IF log[v.conv] = <<>> THEN Append1(v.conv, <<Event("opened", v.stage, NoOne)>>)
                               ELSE log' = log /\ asks' = asks
  BY <1>1 DEF OpenAppend
<1>3. v \in Opening
  BY <1>1, <1>2 DEF TalkInvariant, TalkTypes, Drafting
<1>4. v.conv \in Convs /\ v.stage \in Stages
  BY <1>3 DEF Opening
<1>5. CASE log[v.conv] = <<>>
  <2> DEFINE row == Event("opened", v.stage, NoOne)
  <2>1. row \in EventRows /\ row.kind = "opened"
    BY <1>4 DEF Event, EventRows, OpenRows
  <2>2. /\ Len(log[v.conv]) = 0 /\ NoOne \notin Stages
        /\ StageAt(log[v.conv], Len(log[v.conv])) = NoOne
    BY <1>4, <1>5, OpenLog, ConversationSorts
  <2>3. Append1(v.conv, <<row>>)
    BY <1>2, <1>5
  <2> HIDE DEF row
  <2>4. Fits(log[v.conv], Len(log[v.conv]), row)
    BY <2>1, <2>2 DEF Fits, TerminalStages, Stages
  <2> QED BY <1>2, <1>4, <2>1, <2>3, <2>4, SessionFreed, AppendOne
<1>6. CASE log[v.conv] # <<>>
  <2>1. log' = log /\ asks' = asks
    BY <1>2, <1>6
  <2>2. TalkTypes'
    BY <1>2, <2>1, SessionFreed DEF TalkInvariant, TalkTypes
  <2> QED BY <1>2, <2>1, <2>2, SessionFreed, Still
<1> QED BY <1>5, <1>6

\* The sessions are left alone.
LEMMA SessionsKept ==
    ASSUME TalkInvariant, working' = working
    PROVE  /\ working' \in [Sessions -> {NoOne} \cup Opening \cup Drafting]
           /\ \A s \in Sessions : working'[s] \in Held => working'[s] = working[s]
BY DEF TalkInvariant, TalkTypes

LEMMA TwoRows == ASSUME NEW row \in EventRows, NEW move \in EventRows PROVE <<row>> \o <<move>> = <<row, move>>
<1>1. <<row>> \in Seq(EventRows) /\ <<move>> \in Seq(EventRows) /\ <<row, move>> \in Seq(EventRows)
  OBVIOUS
<1>2. Len(<<row>>) = 1 /\ Len(<<move>>) = 1 /\ Len(<<row, move>>) = 2
  OBVIOUS
<1>3. /\ <<row>> \o <<move>> \in Seq(EventRows) /\ Len(<<row>> \o <<move>>) = 1 + 1
      /\ \A i \in 1 .. 1 + 1 : (<<row>> \o <<move>>)[i] = IF i <= 1 THEN <<row>>[i] ELSE <<move>>[i - 1]
  BY <1>1, <1>2, ConcatProperties
<1>4. \A i \in 1 .. 2 : (<<row>> \o <<move>>)[i] = <<row, move>>[i]
  <2>1. (<<row>> \o <<move>>)[1] = row /\ (<<row>> \o <<move>>)[2] = move
    BY <1>3
  <2>2. 1 .. 2 = {1, 2}
    OBVIOUS
  <2>3. <<row, move>>[1] = row /\ <<row, move>>[2] = move
    OBVIOUS
  <2> QED BY <2>1, <2>2, <2>3
<1>5. Len(<<row>> \o <<move>>) = Len(<<row, move>>)
  BY <1>2, <1>3
<1>6. \A i \in 1 .. Len(<<row>> \o <<move>>) : (<<row>> \o <<move>>)[i] = <<row, move>>[i]
  BY <1>3, <1>4
<1>7. <<row>> \o <<move>> \in Seq(EventRows)
  BY <1>3
<1> QED BY <1>1, <1>5, <1>6, <1>7, SeqEqual, Zenon

LEMMA ReceiveKeeps ==
    ASSUME TalkInvariant, NEW c \in Convs, NEW m \in Messages, Receive(c, m)
    PROVE  TalkInvariant' /\ Dropped
<1> DEFINE row == Event("inbound", NoOne, m)
           move == Change(StageFor(Stage(c), m), "message")
<1>1. PICK target : target = StageFor(Stage(c), m)
  OBVIOUS
<1>2. /\ IsOpen(c) /\ stored' = stored /\ working' = working /\ today' = today
      /\ Append1(c, <<row>> \o (IF target \in {NoOne, Stage(c)} THEN <<>> ELSE <<move>>))
  BY <1>1 DEF Receive
<1>3. Stage(c) \in Stages \ TerminalStages /\ log[c] \in Logs /\ Stage(c) = StageOf(log[c])
  BY <1>2, OpenLog DEF IsOpen
<1>4. row \in EventRows /\ row.kind = "inbound" /\ row.to = NoOne
  BY DEF Event, EventRows, InboundRows
<1>5. Fits(log[c], Len(log[c]), row)
  BY <1>2, <1>4, PlainFits
<1>6. StageOf(Append(log[c], row)) = Stage(c)
  BY <1>3, <1>4, StageOfAppend
<1>7. CASE target \in {NoOne, Stage(c)}
  <2>1. Append1(c, <<row>>)
    BY <1>2, <1>7
  <2> HIDE DEF row
  <2> QED BY <1>2, <1>4, <1>5, <2>1, SessionsKept, AppendOne
<1>8. CASE target \notin {NoOne, Stage(c)}
  <2>1. Append1(c, <<row>> \o <<move>>)
    BY <1>2, <1>8
  <2>2. target \in Allowed[Stage(c)] /\ target \in Stages
    BY <1>1, <1>3, <1>8, MessageMoves, Table
  <2>3. move \in MoveRows /\ move.to = target
    BY <1>1, <2>2 DEF Change, Event, MoveRows
  <2>4. <<row>> \o <<move>> = <<row, move>>
    <3>1. move \in EventRows
      BY <2>3 DEF EventRows
    <3> HIDE DEF row, move
    <3> QED BY <1>4, <3>1, TwoRows
  <2> HIDE DEF row, move
  <2>5. Append1(c, <<row, move>>)
    BY <2>1, <2>4
  <2> QED BY <1>2, <1>3, <1>4, <1>5, <1>6, <2>2, <2>3, <2>5, AppendTwo
<1> QED BY <1>7, <1>8

\* A stage set by a host or a person.
LEMMA MoveKeeps ==
    ASSUME TalkInvariant, NEW c \in Convs, NEW stage, NEW by \in {"host", "person"},
           IsOpen(c), stage \in Allowed[Stage(c)], Append1(c, <<Change(stage, by)>>),
           stored' = stored, working' = working, today' = today
    PROVE  TalkInvariant' /\ Dropped
<1> DEFINE row == Change(stage, by)
<1>1. Stage(c) \in Stages
  BY OpenLog DEF IsOpen
<1>2. stage \in Stages
  BY <1>1, Table
<1>3. row \in EventRows /\ row.kind = "stage_changed" /\ row.to = stage
  BY <1>2 DEF Change, Event, EventRows, MoveRows
<1>4. Append1(c, <<row>>)
  OBVIOUS
<1> HIDE DEF row
<1>5. Fits(log[c], Len(log[c]), row)
  BY <1>3, PlainFits
<1> QED BY <1>3, <1>4, <1>5, SessionsKept, AppendOne

LEMMA AttachKeeps ==
    ASSUME TalkInvariant, NEW c \in Convs, NEW file \in Files, AttachResume(c, file)
    PROVE  TalkInvariant' /\ Dropped
<1> DEFINE row == Event("resume_attached", NoOne, file)
<1>1. row \in EventRows /\ row.kind = "resume_attached"
  BY DEF Event, EventRows, FileRows
<1>2. /\ IsOpen(c) /\ Append1(c, <<row>>)
      /\ stored' = stored /\ working' = working /\ today' = today
  BY DEF AttachResume
<1> HIDE DEF row
<1>3. Fits(log[c], Len(log[c]), row)
  BY <1>1, <1>2, PlainFits
<1> QED BY <1>1, <1>2, <1>3, SessionsKept, AppendOne

----
\* A step that changes one conversation's question, to one the log admits.
LEMMA AskChanges ==
    ASSUME TalkInvariant, NEW c \in Convs, NEW q \in Questions,
           q.reply # NoOne => Answerable(log[c], q.reply),
           asks' = [asks EXCEPT ![c] = q],
           log' = log, stored' = stored, today' = today,
           working' \in [Sessions -> {NoOne} \cup Opening \cup Drafting],
           \A s \in Sessions : working'[s] \in Held => working'[s] = working[s]
    PROVE  TalkInvariant'
<1>1. asks \in [Convs -> Questions]
  BY DEF TalkInvariant, TalkTypes
<1>2. /\ asks' \in [Convs -> Questions] /\ asks'[c] = q
      /\ \A d \in Convs : d # c => asks'[d] = asks[d]
  BY <1>1
<1>3. TalkTypes'
  BY <1>2 DEF TalkInvariant, TalkTypes
<1>4. Logged'
  <2> SUFFICES ASSUME NEW d \in Convs PROVE WellLogged(log'[d])
    BY DEF Logged, WellLogged, Fits, AnswersAt, ApprovedAt, StageAt, LastAt
  <2> QED BY DEF TalkInvariant, Logged
<1>5. AskedOfPresent'
  <2> SUFFICES ASSUME NEW d \in Convs, asks'[d].reply # NoOne PROVE Answerable(log'[d], asks'[d].reply)
    BY DEF AskedOfPresent, Answerable, Live, AnswersAt, LastAt
  <2> QED BY <1>2 DEF TalkInvariant, AskedOfPresent
<1>6. DraftedOfPresent'
  <2> SUFFICES ASSUME NEW s \in Sessions, working'[s] \in Held
               PROVE  /\ working'[s].anchor <= Len(log'[working'[s].conv])
                      /\ working'[s].anchor = Len(log'[working'[s].conv]) =>
                           Answerable(log'[working'[s].conv], working'[s].reply)
    BY DEF DraftedOfPresent, Answerable, Live, AnswersAt, LastAt
  <2> QED BY DEF TalkInvariant, DraftedOfPresent
<1> QED BY <1>3, <1>4, <1>5, <1>6 DEF TalkInvariant

LEMMA AskIntentKeeps ==
    ASSUME TalkInvariant, NEW c \in Convs, AskIntent(c)
    PROVE  TalkInvariant'
<1>1. PICK old : old = asks[c]
  OBVIOUS
<1> DEFINE q == [old EXCEPT !.intent = TRUE]
<1>2. old \in Questions /\ (old.reply # NoOne => Answerable(log[c], old.reply))
  BY <1>1 DEF TalkInvariant, TalkTypes, AskedOfPresent
<1>3. q \in Questions /\ q.reply = old.reply
  BY <1>2 DEF Questions
<1>4. /\ asks' = [asks EXCEPT ![c] = q]
      /\ log' = log /\ stored' = stored /\ today' = today /\ working' = working
  BY <1>1 DEF AskIntent
<1> HIDE DEF q
<1> QED BY <1>2, <1>3, <1>4, SessionsKept, AskChanges

LEMMA DraftReadKeeps ==
    ASSUME TalkInvariant, NEW s \in Sessions, NEW c \in Convs, NEW knd \in Kinds, NEW text \in Texts,
           DraftRead(s, c, knd, text)
    PROVE  TalkInvariant'
<1> DEFINE reply == [kind |-> knd, text |-> text,
                     answers |-> IF knd = "follow_up" THEN 0 ELSE LatestInbound(c)]
           w == [step |-> "ask", conv |-> c, anchor |-> Len(log[c]), reply |-> reply,
                 replaced |-> asks[c].reply, original |-> FirstDraft(asks[c], reply)]
<1>1. /\ ReplyAccepted(c, reply) /\ working' = [working EXCEPT ![s] = w]
      /\ stored' = stored /\ log' = log /\ asks' = asks /\ today' = today
  BY DEF DraftRead
<1>2. Len(log[c]) \in Nat /\ Len(log[c]) <= MaxLog
  BY OpenLog
<1>3. LatestInbound(c) \in 0 .. Len(log[c])
  <2>1. LatestInbound(c) = LastAt(log[c], Len(log[c]), "inbound")
    BY OpenLog DEF LatestInbound
  <2>2. LastAt(log[c], Len(log[c]), "inbound") \in 0 .. Len(log[c])
    BY <1>2, LastAtIs
  <2> QED BY <2>1, <2>2
<1>4. knd \in ReplyKinds /\ MaxLog \in Nat
  BY ConversationSorts
<1>5. reply \in Replies /\ (reply.kind = "follow_up" => reply.answers = 0)
  <2>1. LatestInbound(c) \in 0 .. MaxLog /\ 0 \in 0 .. MaxLog
    BY <1>2, <1>3, <1>4
  <2> QED BY <1>4, <2>1 DEF Replies
<1> HIDE DEF reply
<1>6. Answerable(log[c], reply)
  BY <1>1, <1>5, AcceptedAnswers
<1>7. /\ working \in [Sessions -> {NoOne} \cup Opening \cup Drafting]
      /\ asks[c].reply \in Replies \cup {NoOne} /\ asks[c].original \in Replies \cup {NoOne}
  BY DEF TalkInvariant, TalkTypes, Questions
<1>8. FirstDraft(asks[c], reply) \in Replies \cup {NoOne}
  BY <1>7 DEF FirstDraft
<1>9. w \in Drafting
  BY <1>2, <1>4, <1>5, <1>7, <1>8 DEF Drafting
<1>10. w.conv = c /\ w.anchor = Len(log[c]) /\ w.reply = reply
  OBVIOUS
<1> HIDE DEF w
<1>11. working' \in [Sessions -> {NoOne} \cup Opening \cup Drafting]
  BY <1>1, <1>7, <1>9
<1>12. TalkTypes'
  BY <1>1, <1>11 DEF TalkInvariant, TalkTypes
<1>13. Logged'
  <2> SUFFICES ASSUME NEW d \in Convs PROVE WellLogged(log'[d])
    BY DEF Logged, WellLogged, Fits, AnswersAt, ApprovedAt, StageAt, LastAt
  <2> QED BY <1>1 DEF TalkInvariant, Logged
<1>14. AskedOfPresent'
  <2> SUFFICES ASSUME NEW d \in Convs, asks'[d].reply # NoOne PROVE Answerable(log'[d], asks'[d].reply)
    BY DEF AskedOfPresent, Answerable, Live, AnswersAt, LastAt
  <2> QED BY <1>1 DEF TalkInvariant, AskedOfPresent
<1>15. DraftedOfPresent'
  <2> SUFFICES ASSUME NEW t \in Sessions, working'[t] \in Held
               PROVE  /\ working'[t].anchor <= Len(log'[working'[t].conv])
                      /\ working'[t].anchor = Len(log'[working'[t].conv]) =>
                           Answerable(log'[working'[t].conv], working'[t].reply)
    BY DEF DraftedOfPresent, Answerable, Live, AnswersAt, LastAt
  <2>1. CASE t = s
    <3>1. working'[t] = w
      BY <1>1, <1>7, <2>1
    <3> QED BY <1>1, <1>2, <1>6, <1>10, <3>1
  <2>2. CASE t # s
    <3>1. working'[t] = working[t]
      BY <1>1, <1>7, <2>2
    <3> QED BY <1>1, <3>1 DEF TalkInvariant, DraftedOfPresent
  <2> QED BY <2>1, <2>2
<1> QED BY <1>12, <1>13, <1>14, <1>15 DEF TalkInvariant

LEMMA DraftSaveKeeps ==
    ASSUME TalkInvariant, NEW s \in Sessions, DraftSave(s)
    PROVE  TalkInvariant'
<1>1. PICK v : v = working[s]
  OBVIOUS
<1>2. /\ v # NoOne /\ v.step = "ask"
      /\ asks' = IF v.anchor = Len(log[v.conv])
                 THEN [asks EXCEPT ![v.conv] = Put(asks[v.conv], v)] ELSE asks
      /\ working' = [working EXCEPT ![s] = NoOne]
      /\ stored' = stored /\ log' = log /\ today' = today
  BY <1>1 DEF DraftSave
<1>3. v \in Held
  BY <1>1, <1>2 DEF TalkInvariant, TalkTypes, Opening, Held
<1>4. v.conv \in Convs /\ v.reply \in Replies /\ v.original \in Replies \cup {NoOne}
  BY <1>3 DEF Held, Drafting
<1>5. CASE v.anchor = Len(log[v.conv])
  <2>1. Answerable(log[v.conv], v.reply)
    BY <1>1, <1>3, <1>5 DEF TalkInvariant, DraftedOfPresent
  <2>2. PICK old : old = asks[v.conv]
    OBVIOUS
  <2> DEFINE q == Put(old, v)
  <2>3. old \in Questions
    BY <1>4, <2>2 DEF TalkInvariant, TalkTypes
  <2>4. q \in Questions /\ q.reply = v.reply
    BY <1>4, <2>3 DEF Put, Questions
  <2>5. asks' = [asks EXCEPT ![v.conv] = q]
    BY <1>2, <1>5, <2>2
  <2> HIDE DEF q
  <2> QED BY <1>2, <1>4, <2>1, <2>4, <2>5, SessionFreed, AskChanges
<1>6. CASE v.anchor # Len(log[v.conv])
  <2>1. asks' = asks
    BY <1>2, <1>6
  <2>2. TalkTypes'
    BY <1>2, <2>1, SessionFreed DEF TalkInvariant, TalkTypes
  <2> QED BY <1>2, <2>1, <2>2, SessionFreed, Still
<1> QED BY <1>5, <1>6

LEMMA ApproveKeeps ==
    ASSUME TalkInvariant, NEW c \in Convs, ApproveReply(c)
    PROVE  TalkInvariant' /\ Dropped
<1>1. PICK q : q = asks[c]
  OBVIOUS
<1> DEFINE row == Event("reply_approved", NoOne, [reply |-> q.reply, original |-> q.original])
<1>2. /\ q.reply # NoOne /\ Append1(c, <<row>>)
      /\ stored' = stored /\ working' = working /\ today' = today
  BY <1>1 DEF ApproveReply
<1>3. q \in Questions /\ Answerable(log[c], q.reply)
  BY <1>1, <1>2 DEF TalkInvariant, TalkTypes, AskedOfPresent
<1>4. row \in EventRows /\ row.kind = "reply_approved" /\ row.body.reply = q.reply
  BY <1>2, <1>3 DEF Event, EventRows, ApprovalRows, Questions
<1> HIDE DEF row
<1>5. /\ Len(log[c]) > 0 /\ Len(log[c]) \in Nat
      /\ StageAt(log[c], Len(log[c])) \notin TerminalStages
  <2>1. Stage(c) \notin TerminalStages \cup {NoOne}
    BY <1>3, OpenLog DEF Answerable, Live
  <2> QED BY <2>1, OpenLog
<1>6. Fits(log[c], Len(log[c]), row)
  BY <1>3, <1>4, <1>5 DEF Fits, Answerable
<1> QED BY <1>2, <1>4, <1>6, SessionsKept, AppendOne

LEMMA RecordKeeps ==
    ASSUME TalkInvariant, NEW c \in Convs, NEW result \in ReplyResults, NEW file,
           RecordReply(c, result, file)
    PROVE  TalkInvariant' /\ Dropped
<1>1. PICK reply : reply = log[c][PendingApproval(c)].body.reply
  OBVIOUS
<1> DEFINE row == Event("reply_result", NoOne, [reply |-> reply, result |-> result, day |-> today])
           move == Change("resume_sent", "record")
           sent == (result = "sent" /\ reply.kind = "resume") /\ "resume_sent" \in Allowed[Stage(c)]
<1>2. /\ PendingApproval(c) # 0
      /\ Append1(c, IF sent THEN <<row, move>> ELSE <<row>>)
      /\ stored' = stored /\ working' = working /\ today' = today
  BY <1>1 DEF RecordReply
<1>3. /\ PendingApproval(c) \in 1 .. Len(log[c]) /\ log[c][PendingApproval(c)] \in ApprovalRows
      /\ \A i \in PendingApproval(c) + 1 .. Len(log[c]) :
            log[c][i].kind \notin {"reply_approved", "reply_result"}
  BY <1>2, PendingIs
<1>4. reply \in Replies /\ log[c][PendingApproval(c)].kind = "reply_approved"
  BY <1>1, <1>3 DEF ApprovalRows
<1>5. row \in EventRows /\ row.kind = "reply_result" /\ row.to = NoOne /\ row.body.reply = reply
  BY <1>4 DEF Event, EventRows, ResultRows, TalkInvariant, TalkTypes
<1>6. move \in MoveRows /\ move.to = "resume_sent"
  BY DEF Change, Event, MoveRows, Stages
<1>7. /\ log[c] \in Logs /\ Len(log[c]) \in Nat /\ Stage(c) = StageOf(log[c])
      /\ Stage(c) # NoOne => Stage(c) \in Stages
      /\ StageAt(log[c], Len(log[c])) = Stage(c)
  BY OpenLog
<1>8. Len(log[c]) > 0 /\ Stage(c) \in Stages
  <2>1. Len(log[c]) \in 1 .. Len(log[c])
    BY <1>3, <1>7
  <2>2. StageAt(log[c], Len(log[c])) \in Stages
    BY <2>1, OpenLog, Staged
  <2> QED BY <1>7, <2>1, <2>2
<1>9. ApprovedAt(log[c], Len(log[c]), reply)
  BY <1>1, <1>3, <1>4 DEF ApprovedAt
<1> HIDE DEF row, move, sent
<1>10. Fits(log[c], Len(log[c]), row)
  BY <1>5, <1>8, <1>9 DEF Fits
<1>11. CASE sent
  <2>1. Append1(c, <<row, move>>)
    BY <1>2, <1>11
  <2>2. "resume_sent" \in Allowed[Stage(c)] /\ Stage(c) \notin TerminalStages
    BY <1>8, <1>11, Table DEF sent
  <2>3. StageOf(Append(log[c], row)) = Stage(c)
    BY <1>5, <1>7, StageOfAppend
  <2> QED BY <1>2, <1>5, <1>6, <1>10, <2>1, <2>2, <2>3, AppendTwo
<1>12. CASE ~sent
  <2>1. Append1(c, <<row>>)
    BY <1>2, <1>12
  <2> QED BY <1>2, <1>5, <1>10, <2>1, SessionsKept, AppendOne
<1> QED BY <1>11, <1>12

----
\* A step reads a draft, saves one, asks about an intent, or drops what its log leaves behind.
LEMMA StepKinds ==
    ASSUME TalkInvariant, [TalkNext]_talkVars
    PROVE  \/ \E s \in Drafters, c \in Convs, knd \in Kinds, t \in Texts : DraftRead(s, c, knd, t)
           \/ \E s \in Sessions : DraftSave(s)
           \/ \E c \in Convs : AskIntent(c)
           \/ TalkInvariant' /\ Dropped
<1> DEFINE Kept == TalkInvariant' /\ Dropped
<1>1. ASSUME NEW s \in Sessions, NEW c \in Convs, NEW o \in Origins,
             NEW st \in {"greeted", "replied", "closed"}, OpenRead(s, c, o, st)
      PROVE  Kept
  BY <1>1, OpenReadKeeps
<1>2. ASSUME NEW s \in Sessions, OpenSave(s) PROVE Kept
  BY <1>2, OpenSaveKeeps
<1>3. ASSUME NEW s \in Sessions, OpenAppend(s) PROVE Kept
  BY <1>3, OpenAppendKeeps
<1>4. ASSUME NEW s \in Sessions, TalkCrash(s) PROVE Kept
  BY <1>4, CrashKeeps
<1>5. ASSUME NEW c \in Convs, NEW m \in Messages, Receive(c, m) PROVE Kept
  BY <1>5, ReceiveKeeps
<1>6. ASSUME NEW c \in Convs, NEW st \in Targets, Transition(c, st) PROVE Kept
  BY <1>6, MoveKeeps DEF Transition
<1>7. ASSUME NEW c \in Convs, ConfirmIntent(c) PROVE Kept
  BY <1>7, MoveKeeps DEF ConfirmIntent
<1>8. ASSUME NEW c \in Convs, NEW f \in Files, AttachResume(c, f) PROVE Kept
  BY <1>8, AttachKeeps
<1>9. ASSUME NEW c \in Convs, ApproveReply(c) PROVE Kept
  BY <1>9, ApproveKeeps
<1>10. ASSUME NEW c \in Convs, NEW r \in ReplyResults, NEW f \in Files \cup {NoOne},
              RecordReply(c, r, f)
       PROVE  Kept
  BY <1>10, RecordKeeps
<1>11. NextDay => Kept
  BY DayKeeps
<1>12. UNCHANGED talkVars => Kept
  <2> SUFFICES ASSUME UNCHANGED talkVars PROVE Kept
    OBVIOUS
  <2>1. log' = log /\ asks' = asks /\ working' = working /\ stored' = stored /\ today' = today
    BY DEF talkVars
  <2>2. TalkTypes'
    BY <2>1 DEF TalkInvariant, TalkTypes
  <2> QED BY <2>1, <2>2, Still
<1> HIDE DEF Kept
<1>13. TalkNext \/ UNCHANGED talkVars
  OBVIOUS
<1>14. Drafters \subseteq Sessions
  BY ConversationSorts
<1>15. \/ \E s \in Drafters, c \in Convs, knd \in Kinds, t \in Texts : DraftRead(s, c, knd, t)
       \/ \E s \in Sessions : DraftSave(s)
       \/ \E c \in Convs : AskIntent(c)
       \/ Kept
  BY <1>1, <1>2, <1>3, <1>4, <1>5, <1>6, <1>7, <1>8, <1>9, <1>10, <1>11, <1>12, <1>13, <1>14
     DEF TalkNext
<1> QED BY <1>15 DEF Kept

LEMMA TalkStep == TalkInvariant /\ [TalkNext]_talkVars => TalkInvariant'
<1>1. Drafters \subseteq Sessions
  BY ConversationSorts
<1> QED BY <1>1, StepKinds, DraftReadKeeps, DraftSaveKeeps, AskIntentKeeps

\* What the invariant says of one row, in the words of the properties.
LEMMA RowTold ==
    ASSUME TalkInvariant, NEW c \in Convs, NEW i \in 1 .. Len(log[c])
    PROVE  /\ Fits(log[c], i - 1, log[c][i]) /\ log[c][i] \in EventRows
           /\ DOMAIN log[c] = 1 .. Len(log[c])
           /\ Before(c, i) = StageAt(log[c], i - 1)
           /\ InboundBefore(c, i) = LastAt(log[c], i - 1, "inbound")
<1>1. log[c] \in Seq(EventRows) /\ WellLogged(log[c])
  BY OpenLog DEF Logs
<1>2. DOMAIN log[c] = 1 .. Len(log[c]) /\ log[c][i] \in EventRows
  BY <1>1, LenProperties, ElementOfSeq
<1> QED BY <1>1, <1>2 DEF WellLogged, Before, StageAt, InboundBefore, LastAt

LEMMA LogsSound ==
    ASSUME TalkInvariant
    PROVE  TalkTypeOK /\ StagesFollow /\ ClosedIsQuiet /\ AnswersLatest /\ EachSendApproved
<1> USE DEF TalkInvariant
<1>1. \A c \in Convs : DOMAIN log[c] = 1 .. Len(log[c])
  BY LenProperties DEF TalkTypes, Logs
<1>2. TalkTypeOK
  <2>1. ASSUME NEW c \in Convs, NEW i \in DOMAIN log[c]
        PROVE  log[c][i].to \in IF log[c][i].kind \in {"opened", "stage_changed"} THEN Stages ELSE {NoOne}
    <3>1. log[c][i] \in EventRows
      BY <1>1, RowTold
    <3> QED BY <3>1 DEF EventRows, OpenRows, MoveRows, InboundRows, FileRows, ApprovalRows, ResultRows
  <2> QED BY <2>1 DEF TalkTypes, TalkTypeOK, Questions
<1>3. StagesFollow
  <2> SUFFICES ASSUME NEW c \in Convs, NEW i \in 1 .. Len(log[c])
               PROVE  /\ (log[c][i].kind = "opened") <=> (i = 1)
                      /\ log[c][i].kind = "stage_changed" => log[c][i].to \in Allowed[Before(c, i)]
    BY <1>1 DEF StagesFollow
  <2> QED BY RowTold DEF Fits
<1>4. ClosedIsQuiet
  <2> SUFFICES ASSUME NEW c \in Convs, NEW i \in 1 .. Len(log[c]), Before(c, i) \in TerminalStages
               PROVE  log[c][i].kind = "reply_result"
    BY <1>1 DEF ClosedIsQuiet
  <2> QED BY RowTold DEF Fits
<1>5. AnswersLatest
  <2> SUFFICES ASSUME NEW c \in Convs, NEW i \in 1 .. Len(log[c]), log[c][i].kind = "reply_approved"
               PROVE  LET reply == log[c][i].body.reply
                          last == InboundBefore(c, i)
                      IN  /\ reply.answers = last
                          /\ reply.kind = "follow_up" <=> last = 0
                          /\ last # 0 => log[c][last].body.level = "l1"
                          /\ reply.kind = "resume" => \E j \in 1 .. i - 1 : log[c][j].kind = "resume_attached"
    BY <1>1 DEF AnswersLatest
  <2> QED BY RowTold DEF Fits, AnswersAt
<1>6. EachSendApproved
  <2> SUFFICES ASSUME NEW c \in Convs, NEW i \in 1 .. Len(log[c]), log[c][i].kind = "reply_result"
               PROVE  \E j \in 1 .. i - 1 :
                         /\ log[c][j].kind = "reply_approved" /\ log[c][j].body.reply = log[c][i].body.reply
                         /\ \A k \in j + 1 .. i - 1 : log[c][k].kind # "reply_result"
    BY <1>1 DEF EachSendApproved
  <2>1. ApprovedAt(log[c], i - 1, log[c][i].body.reply)
    BY RowTold DEF Fits
  <2> QED BY <2>1 DEF ApprovedAt
<1> QED BY <1>2, <1>3, <1>4, <1>5, <1>6

LEMMA ReleasedSound == ASSUME TalkInvariant PROVE ReleaseFresh
<1> SUFFICES ASSUME NEW c \in Convs, GateDecision(c, TRUE, FALSE) # NoOne
             PROVE  LET out == GateDecision(c, TRUE, FALSE)
                        n == Len(log[c])
                        approved == Max({j \in 1 .. n : log[c][j].kind = "reply_approved"})
                    IN  /\ out.reply.answers = InboundBefore(c, n + 1)
                        /\ out.reply.kind = "resume" => out.file \in Files
                        /\ \A d \in Convs : \A i \in DOMAIN log[d] : log[d][i].kind = "reply_result" =>
                              /\ log[d][i].body.result = "sent" \/ log[d][i].body.day # today
                              /\ d = c => i < approved
  BY DEF ReleaseFresh
<1> DEFINE n == Len(log[c])
           S == {j \in 1 .. n : log[c][j].kind = "reply_approved"}
<1>1. PICK a : a = PendingApproval(c)
  OBVIOUS
<1>2. PICK out : out = GateDecision(c, TRUE, FALSE)
  OBVIOUS
<1>3. PICK reply : reply = log[c][a].body.reply
  OBVIOUS
<1>4. /\ a # 0 /\ ~ (LatestInbound(c) > a) /\ ~FailedToday
      /\ out = [reply |-> reply, file |-> IF reply.kind = "resume" THEN AttachedResume(c) ELSE NoOne]
  <2>1. GateDecision(c, TRUE, FALSE) =
          IF a = 0 \/ LatestInbound(c) > a \/ FailedToday THEN NoOne
          ELSE [reply |-> reply, file |-> IF reply.kind = "resume" THEN AttachedResume(c) ELSE NoOne]
    BY <1>1, <1>3, Zenon DEF GateDecision
  <2> QED BY <1>2, <2>1, Zenon
<1>5. /\ a \in 1 .. n /\ log[c][a].kind = "reply_approved"
      /\ \A j \in 1 .. n : log[c][j].kind = "reply_approved" => j <= a
      /\ \A j \in a + 1 .. n : log[c][j].kind \notin {"reply_approved", "reply_result"}
  BY <1>1, <1>4, PendingIs DEF ApprovalRows
<1>6. n \in Nat /\ LatestInbound(c) = LastAt(log[c], n, "inbound")
  BY OpenLog DEF LatestInbound
<1>7. AnswersAt(log[c], a - 1, reply)
  BY <1>3, <1>5, RowTold DEF Fits
<1>8. LastAt(log[c], n, "inbound") = LastAt(log[c], a - 1, "inbound")
  <2> DEFINE l == LastAt(log[c], n, "inbound")
             b == LastAt(log[c], a - 1, "inbound")
  <2>1. /\ l \in 0 .. n /\ (l # 0 => log[c][l].kind = "inbound")
        /\ \A i \in 1 .. n : log[c][i].kind = "inbound" => i <= l
    BY <1>6, LastAtIs
  <2>2. a - 1 \in Nat
    BY <1>5
  <2>3. /\ b \in 0 .. a - 1 /\ (b # 0 => log[c][b].kind = "inbound")
        /\ \A i \in 1 .. a - 1 : log[c][i].kind = "inbound" => i <= b
    BY <2>2, LastAtIs
  <2>4. ~ (l > a)
    BY <1>4, <1>6
  <2> HIDE DEF l, b
  <2>5. l # a
    BY <1>5, <2>1
  <2>6. l \in 0 .. a - 1
    BY <1>5, <1>6, <2>1, <2>4, <2>5
  <2>7. b <= l
    BY <1>5, <1>6, <2>1, <2>3
  <2>8. l <= b
    BY <1>5, <1>6, <2>1, <2>3, <2>6
  <2> QED BY <1>5, <1>6, <2>1, <2>3, <2>7, <2>8 DEF l, b
<1>9. InboundBefore(c, n + 1) = LastAt(log[c], n, "inbound")
  BY <1>6 DEF InboundBefore, LastAt
<1>10. out.reply.answers = InboundBefore(c, n + 1)
  BY <1>4, <1>7, <1>8, <1>9 DEF AnswersAt
<1>11. ASSUME out.reply.kind = "resume" PROVE out.file \in Files
  <2>1. \E j \in 1 .. a - 1 : log[c][j].kind = "resume_attached"
    BY <1>4, <1>7, <1>11 DEF AnswersAt
  <2>2. PICK j \in 1 .. n : log[c][j].kind = "resume_attached"
    BY <1>5, <1>6, <2>1
  <2>3. PICK l : l = LastAt(log[c], n, "resume_attached")
    OBVIOUS
  <2>4. /\ l \in 0 .. n /\ (l # 0 => log[c][l].kind = "resume_attached")
        /\ \A i \in 1 .. n : log[c][i].kind = "resume_attached" => i <= l
    BY <1>6, <2>3, LastAtIs
  <2>5. l \in 1 .. n /\ log[c][l].kind = "resume_attached"
    BY <1>6, <2>2, <2>4
  <2>6. log[c][l] \in FileRows
    BY <2>5, OpenLog DEF EventRows, OpenRows, MoveRows, InboundRows, ApprovalRows, ResultRows
  <2>7. LastOf(c, "resume_attached") = l
    BY <2>3, OpenLog
  <2>8. AttachedResume(c) = log[c][l].body
    BY <2>5, <2>7 DEF AttachedResume
  <2> QED BY <1>4, <1>11, <2>6, <2>8 DEF FileRows
<1>12. Max(S) = a
  <2>1. S \in SUBSET (0 .. n) /\ a \in S
    BY <1>5
  <2>2. \A j \in S : j <= a
    BY <1>5
  <2> HIDE DEF S
  <2>3. Max(S) \in S /\ a <= Max(S)
    BY <1>6, <2>1, MaxIs
  <2>4. Max(S) <= a /\ Max(S) \in 0 .. n
    BY <2>1, <2>2, <2>3
  <2> HIDE DEF n
  <2>5. Max(S) \in Nat /\ a \in Nat
    BY <1>6, <2>1, <2>4
  <2> QED BY ONLY <2>3, <2>4, <2>5
<1>13. ASSUME NEW d \in Convs, NEW i \in DOMAIN log[d], log[d][i].kind = "reply_result"
       PROVE  /\ log[d][i].body.result = "sent" \/ log[d][i].body.day # today
              /\ d = c => i < a
  <2>1. log[d][i].body.result = "sent" \/ log[d][i].body.day # today
    BY <1>4, <1>13 DEF FailedToday
  <2>2. ASSUME d = c PROVE i < a
    <3>1. DOMAIN log[c] = 1 .. n
      BY OpenLog, LenProperties DEF Logs
    <3> QED BY <1>5, <1>6, <1>13, <2>2, <3>1
  <2> QED BY <2>1, <2>2
<1> QED BY <1>2, <1>10, <1>11, <1>12, <1>13

----
\* What a question says of the first draft put, and what a draft held carries of it.
EditTold(q) ==
    /\ q.reply = NoOne => q.original = NoOne /\ q.first = NoOne
    /\ q.first # NoOne => /\ q.original \in {NoOne, q.first}
                          /\ q.reply # q.first => q.original = q.first

EditCarried(q, v) ==
    /\ q.reply = NoOne => v.replaced = NoOne
    /\ v.replaced = NoOne => v.original = NoOne
    /\ q.first # NoOne /\ v.replaced # NoOne =>
          /\ v.original \in {NoOne, q.first}
          /\ v.reply # q.first => v.original = q.first

EditsTold ==
    /\ \A c \in Convs : EditTold(asks[c])
    /\ \A s \in Sessions : working[s] \in Held =>
          (working[s].anchor = Len(log[working[s].conv]) => EditCarried(asks[working[s].conv], working[s]))

\* A draft read, and one put, keep both.
LEMMA ReadCarries ==
    ASSUME NEW q, EditTold(q), NEW reply, NEW v,
           v.reply = reply, v.replaced = q.reply, v.original = FirstDraft(q, reply)
    PROVE  EditCarried(q, v)
BY DEF EditTold, EditCarried, FirstDraft

LEMMA PutFields ==
    ASSUME NEW q \in Questions, NEW v
    PROVE  /\ Put(q, v).reply = v.reply /\ Put(q, v).original = v.original
           /\ Put(q, v).first = IF q.reply = NoOne THEN v.reply
                                ELSE IF v.replaced = NoOne THEN NoOne ELSE q.first
BY DEF Put, Questions

LEMMA PutTold ==
    ASSUME NEW q \in Questions, NEW v, v.reply # NoOne, EditTold(q), EditCarried(q, v)
    PROVE  EditTold(Put(q, v))
BY PutFields DEF EditTold, EditCarried

LEMMA PutCarried ==
    ASSUME NEW q \in Questions, NEW v, v.reply # NoOne, NEW u, EditCarried(q, v), EditCarried(q, u)
    PROVE  EditCarried(Put(q, v), u)
BY PutFields DEF EditCarried

\* A step that drops questions with their logs keeps them.
LEMMA DroppedKeeps ==
    ASSUME TalkInvariant, EditsTold, Dropped
    PROVE  EditsTold'
<1>1. ASSUME NEW c \in Convs PROVE EditTold(asks'[c])
  <2>1. EditTold(asks[c]) /\ EditTold(NoAsk)
    BY DEF EditsTold, EditTold, NoAsk
  <2> QED BY <2>1 DEF Dropped
<1>2. ASSUME NEW s \in Sessions, working'[s] \in Held,
             working'[s].anchor = Len(log'[working'[s].conv])
      PROVE  EditCarried(asks'[working'[s].conv], working'[s])
  <2>1. PICK v \in Held : v = working[s] /\ v = working'[s]
    BY <1>2 DEF Dropped
  <2>2. v.conv \in Convs /\ v.anchor \in Nat
    BY ConversationSorts DEF Held, Drafting
  <2>3. v.anchor <= Len(log[v.conv]) /\ Len(log[v.conv]) \in Nat
    BY <2>1, <2>2, OpenLog DEF TalkInvariant, DraftedOfPresent
  <2>4. ~ (Len(log'[v.conv]) > Len(log[v.conv]))
    BY <1>2, <2>1, <2>2, <2>3
  <2>5. log'[v.conv] = log[v.conv] /\ asks'[v.conv] = asks[v.conv]
    BY <2>2, <2>4 DEF Dropped
  <2>6. EditCarried(asks[v.conv], v)
    BY <1>2, <2>1, <2>5 DEF EditsTold
  <2> QED BY <2>1, <2>5, <2>6
<1> QED BY <1>1, <1>2 DEF EditsTold, EditTold, EditCarried

LEMMA DraftReadTells ==
    ASSUME TalkInvariant, EditsTold, NEW s \in Sessions, NEW c \in Convs, NEW knd \in Kinds,
           NEW text \in Texts, DraftRead(s, c, knd, text)
    PROVE  EditsTold'
<1> DEFINE reply == [kind |-> knd, text |-> text,
                     answers |-> IF knd = "follow_up" THEN 0 ELSE LatestInbound(c)]
           w == [step |-> "ask", conv |-> c, anchor |-> Len(log[c]), reply |-> reply,
                 replaced |-> asks[c].reply, original |-> FirstDraft(asks[c], reply)]
<1>1. working' = [working EXCEPT ![s] = w] /\ log' = log /\ asks' = asks
  BY DEF DraftRead
<1> HIDE DEF reply
<1>2. w.conv = c /\ w.reply = reply /\ w.replaced = asks[c].reply /\ w.original = FirstDraft(asks[c], reply)
  OBVIOUS
<1> HIDE DEF w
<1>3. EditCarried(asks[c], w)
  BY <1>2, ReadCarries DEF EditsTold
<1>4. working \in [Sessions -> {NoOne} \cup Opening \cup Drafting]
  BY DEF TalkInvariant, TalkTypes
<1>5. ASSUME NEW t \in Sessions, working'[t] \in Held,
             working'[t].anchor = Len(log'[working'[t].conv])
      PROVE  EditCarried(asks'[working'[t].conv], working'[t])
  <2>1. CASE t = s
    BY <1>1, <1>2, <1>3, <1>4, <2>1
  <2>2. CASE t # s
    <3>1. working'[t] = working[t]
      BY <1>1, <1>4, <2>2
    <3> QED BY <1>1, <1>5, <3>1 DEF EditsTold
  <2> QED BY <2>1, <2>2
<1>6. \A d \in Convs : EditTold(asks'[d])
  BY <1>1 DEF EditsTold
<1> QED BY <1>5, <1>6 DEF EditsTold, EditTold, EditCarried

LEMMA AskIntentTells ==
    ASSUME TalkInvariant, EditsTold, NEW c \in Convs, AskIntent(c)
    PROVE  EditsTold'
<1>1. /\ asks' = [asks EXCEPT ![c].intent = TRUE] /\ log' = log /\ working' = working
  BY DEF AskIntent
<1>2. asks \in [Convs -> Questions]
  BY DEF TalkInvariant, TalkTypes
<1>3. ASSUME NEW d \in Convs
      PROVE  /\ asks'[d].reply = asks[d].reply /\ asks'[d].original = asks[d].original
             /\ asks'[d].first = asks[d].first
  BY <1>1, <1>2 DEF Questions
<1>4. ASSUME NEW d \in Convs PROVE EditTold(asks'[d])
  BY <1>3 DEF EditsTold, EditTold
<1>5. ASSUME NEW t \in Sessions, working'[t] \in Held,
             working'[t].anchor = Len(log'[working'[t].conv])
      PROVE  EditCarried(asks'[working'[t].conv], working'[t])
  <2>1. PICK v \in Held : v = working[t] /\ v = working'[t]
    BY <1>1, <1>5
  <2>2. v.conv \in Convs
    BY DEF Held, Drafting
  <2>3. EditCarried(asks[v.conv], v)
    BY <1>1, <1>5, <2>1 DEF EditsTold
  <2>4. EditCarried(asks'[v.conv], v)
    BY <1>3, <2>2, <2>3 DEF EditCarried
  <2> QED BY <2>1, <2>4
<1> QED BY <1>4, <1>5 DEF EditsTold, EditTold, EditCarried

LEMMA DraftSaveTells ==
    ASSUME TalkInvariant, EditsTold, NEW s \in Sessions, DraftSave(s)
    PROVE  EditsTold'
<1>1. PICK v : v = working[s]
  OBVIOUS
<1>2. /\ v # NoOne /\ v.step = "ask"
      /\ asks' = IF v.anchor = Len(log[v.conv])
                 THEN [asks EXCEPT ![v.conv] = Put(asks[v.conv], v)] ELSE asks
      /\ working' = [working EXCEPT ![s] = NoOne] /\ log' = log
  BY <1>1 DEF DraftSave
<1>3. v \in Held /\ asks \in [Convs -> Questions]
  BY <1>1, <1>2 DEF TalkInvariant, TalkTypes, Opening, Held
<1>4. v.conv \in Convs /\ v.reply # NoOne
  BY <1>3, ConversationSorts DEF Held, Drafting
<1>5. ASSUME NEW t \in Sessions, working'[t] \in Held PROVE working'[t] = working[t]
  BY <1>2, <1>5, SessionFreed
<1>6. CASE v.anchor = Len(log[v.conv])
  <2>1. EditCarried(asks[v.conv], v) /\ EditTold(asks[v.conv])
    BY <1>1, <1>3, <1>4, <1>6 DEF EditsTold
  <2>2. PICK q \in Questions : q = asks[v.conv]
    BY <1>3, <1>4
  <2>3. /\ asks'[v.conv] = Put(q, v)
        /\ \A d \in Convs : d # v.conv => asks'[d] = asks[d]
    BY <1>2, <1>3, <1>4, <1>6, <2>2
  <2>4. ASSUME NEW d \in Convs PROVE EditTold(asks'[d])
    <3>1. EditTold(Put(q, v))
      BY <1>4, <2>1, <2>2, PutTold
    <3> QED BY <2>3, <3>1 DEF EditsTold
  <2>5. ASSUME NEW t \in Sessions, working'[t] \in Held,
               working'[t].anchor = Len(log'[working'[t].conv])
        PROVE  EditCarried(asks'[working'[t].conv], working'[t])
    <3>1. PICK u \in Held : u = working[t] /\ u = working'[t]
      BY <1>5, <2>5
    <3>2. u.conv \in Convs /\ EditCarried(asks[u.conv], u)
      BY <1>2, <2>5, <3>1 DEF EditsTold, Held, Drafting
    <3>3. CASE u.conv = v.conv
      <4>1. EditCarried(Put(q, v), u)
        BY <1>4, <2>1, <2>2, <3>2, <3>3, PutCarried
      <4> QED BY <2>3, <3>1, <3>3, <4>1
    <3>4. CASE u.conv # v.conv
      BY <2>3, <3>1, <3>2, <3>4
    <3> QED BY <3>3, <3>4
  <2> QED BY <2>4, <2>5 DEF EditsTold, EditTold, EditCarried
<1>7. CASE v.anchor # Len(log[v.conv])
  <2>1. asks' = asks
    BY <1>2, <1>7
  <2>2. ASSUME NEW t \in Sessions, working'[t] \in Held,
               working'[t].anchor = Len(log'[working'[t].conv])
        PROVE  EditCarried(asks'[working'[t].conv], working'[t])
    BY <1>2, <1>5, <2>1, <2>2 DEF EditsTold
  <2>3. \A d \in Convs : EditTold(asks'[d])
    BY <2>1 DEF EditsTold
  <2> QED BY <2>2, <2>3 DEF EditsTold, EditTold, EditCarried
<1> QED BY <1>6, <1>7

LEMMA EditsStep == TalkInvariant /\ EditsTold /\ [TalkNext]_talkVars => EditsTold'
<1>1. Drafters \subseteq Sessions
  BY ConversationSorts
<1> QED BY <1>1, StepKinds, DraftReadTells, DraftSaveTells, AskIntentTells, DroppedKeeps

\* Stages follow their table, a closed conversation is quiet, what is approved, let out and logged
\* of a reply is one reply to the latest message, and an edit of the first draft shows, for any
\* number of sessions that load, draft side by side, append and die (service.py).
THEOREM RepliesSound == TalkSpec => []TalksSound
<1>1. TalkInit => EditsTold
  BY DEF TalkInit, EditsTold, EditTold, NoAsk, Held
<1>2. TalkInvariant /\ EditsTold => TalksSound
  <2>1. EditsTold => EditStaysVisible
    BY DEF EditsTold, EditTold, EditStaysVisible
  <2> QED BY <2>1, LogsSound, ReleasedSound DEF TalksSound
<1> QED BY <1>1, <1>2, TalkStart, TalkStep, EditsStep, PTL DEF TalkSpec
====
