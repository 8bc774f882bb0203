---- MODULE HiringProofs ----
(***************************************************************************)
(* Proofs about five parts of the hiring desk, each for every value of its *)
(* constants: of each line of the owner's rules one is in force at most,   *)
(* and a rule is undone once by one measurement; an answer about a         *)
(* variable of the configuration is used for the question it was given     *)
(* to, and a message once per variable; what the record of a send says of  *)
(* replies and silence is what the conversation holds; the rounds of the   *)
(* pipeline are no more than what was sent, heard and waited for; a login  *)
(* that is lost pauses what it is about, and a report stays true.          *)
(***************************************************************************)
EXTENDS OwnerRules, DynamicRules, SentTracking, Pipeline, HostReports,
        SequenceTheorems, WellFoundedInduction, TLAPS

Evidences == [scope : Scopes, code : {"decline", "ineffective"}, figures : Nat, rule : Nat, under : Nat]
ProposalRows ==
    [kind : {"pipeline", "writing"}, scope : Scopes, evidence : Evidences \cup Nat, previous : Nat,
     operation : {"activate", "withdraw", "restore"}, restore : Nat, state : SUBSET Nat, origin : Nat]
StandingRows == [accepted : BOOLEAN, decided : Nat, taken : Nat]

OwnerTypes ==
    /\ figures \in Nat /\ edits \in Nat
    /\ diagnoses \subseteq Evidences
    /\ proposals \in Seq(ProposalRows)
    /\ standing \in Seq(StandingRows) /\ Len(standing) = Len(proposals)
    /\ deciding \in [Editors -> Nat]

\* What a measurement of a rule is about stays a rule of its scope.
DiagnosisSound(d) ==
    /\ d.code = "decline" <=> d.rule = None
    /\ d.rule # None => /\ d.rule \in Rules
                        /\ proposals[d.rule].kind = "pipeline"
                        /\ proposals[d.rule].operation = "activate"
                        /\ proposals[d.rule].scope = d.scope

\* What a proposal says of the one it replaces or undoes.
RowSound(r) ==
    LET p == proposals[r]
    IN  /\ p.previous # None =>
              /\ p.previous \in 1 .. r - 1
              /\ p.kind = "pipeline" /\ proposals[p.previous].kind = "pipeline"
              /\ proposals[p.previous].operation = "activate"
              /\ proposals[p.previous].origin = p.origin
        /\ p.kind = "writing" => p.operation = "activate"
        /\ p.kind = "pipeline" => p.evidence \in Evidences /\ p.state \subseteq 1 .. r - 1
        /\ p.operation = "activate" => p.restore = None /\ p.previous \in p.state \cup {None}
        /\ p.operation # "activate" => /\ p.previous # None /\ p.evidence.rule = p.previous
                                       /\ p.restore = proposals[p.previous].previous

\* A line starts with its origin, and stays of one kind and scope; a writing rule is one by itself.
LineSound(r) ==
    LET p == proposals[r]
    IN  /\ p.origin \in 1 .. r
        /\ proposals[p.origin].kind = p.kind /\ proposals[p.origin].scope = p.scope
        /\ p.previous = None => p.origin = r
        /\ p.kind = "writing" => p.origin = r

ProposalsSound == \A r \in Rules : RowSound(r) /\ LineSound(r)

ForceSound == \A r \in Rules : standing[r].accepted => proposals[r].operation = "activate"

\* An undoing that was taken has moved the rule it undid past its measurement.
TakenSound ==
    \A r \in Rules : proposals[r].operation # "activate" =>
        /\ standing[r].taken <= 1
        /\ standing[r].taken > 0 =>
              standing[proposals[r].previous].decided > proposals[r].evidence.under

DecidingSound ==
    \A e \in Editors : deciding[e] # None =>
        deciding[e] \in Rules /\ proposals[deciding[e]].kind = "writing"

OwnerInvariant ==
    /\ OwnerTypes
    /\ \A d \in diagnoses : DiagnosisSound(d)
    /\ ProposalsSound /\ ForceSound /\ TakenSound /\ DecidingSound
    /\ OneOfEachLine

\* The rows of the tables, by their numbers.
LEMMA RulesCounted ==
    ASSUME OwnerTypes
    PROVE  /\ Rules = 1 .. Len(proposals) /\ Len(proposals) \in Nat
           /\ \A r \in Rules : proposals[r] \in ProposalRows /\ standing[r] \in StandingRows
           /\ InForce \subseteq Rules
<1>1. Len(proposals) \in Nat /\ DOMAIN proposals = 1 .. Len(proposals)
  BY LenProperties DEF OwnerTypes
<1>2. \A r \in 1 .. Len(proposals) : proposals[r] \in ProposalRows /\ standing[r] \in StandingRows
  BY ElementOfSeq DEF OwnerTypes
<1> QED
  BY <1>1, <1>2 DEF Rules, InForce

\* Only one row differs, by one decision more, which says a.
RowMoved(st, next, r) ==
    /\ next \in Seq(StandingRows) /\ Len(next) = Len(st)
    /\ \A q \in 1 .. Len(st) : q # r => next[q] = st[q]
    /\ r # None => next[r].decided = st[r].decided + 1 /\ next[r].taken = st[r].taken
RowDecided(st, next, r, a) == RowMoved(st, next, r) /\ (r # None => next[r].accepted = a)

\* A decision is the latest of its proposal and touches no other.
LEMMA DecidedRow ==
    ASSUME NEW st \in Seq(StandingRows), NEW r \in 0 .. Len(st), NEW a \in BOOLEAN
    PROVE  RowDecided(st, Decided(st, r, a), r, a)
<1>1. CASE r = None
  BY <1>1 DEF Decided, None, RowMoved, RowDecided
<1>2. CASE r # None
  <2>1. r \in 1 .. Len(st) /\ st[r] \in StandingRows
    BY <1>2, ElementOfSeq, LenProperties DEF None
  <2> DEFINE next == st[r].decided + 1
             row == [st[r] EXCEPT !.accepted = a, !.decided = next]
  <2>2. next \in Nat
    BY <2>1 DEF StandingRows
  <2>3. Decided(st, r, a) = [st EXCEPT ![r] = row]
    BY <1>2, <2>1, LenProperties DEF Decided, StandingRows
  <2>4. row \in StandingRows /\ row.accepted = a /\ row.decided = next /\ row.taken = st[r].taken
    <3> HIDE DEF next
    <3> QED
      BY <2>1, <2>2 DEF StandingRows
  <2> HIDE DEF row
  <2>5. /\ [st EXCEPT ![r] = row] \in Seq(StandingRows)
        /\ Len([st EXCEPT ![r] = row]) = Len(st)
        /\ \A j \in 1 .. Len(st) : [st EXCEPT ![r] = row][j] = IF j = r THEN row ELSE st[j]
    BY <2>1, <2>4, ExceptSeq
  <2> QED
    BY <2>1, <2>3, <2>4, <2>5 DEF next, RowMoved, RowDecided
<1> QED
  BY <1>1, <1>2

\* Rules of one line are of one kind and scope.
LEMMA LineOfOneScope ==
    ASSUME OwnerInvariant, NEW r \in Rules, NEW q \in Rules, proposals[r].origin = proposals[q].origin
    PROVE  proposals[r].kind = proposals[q].kind /\ proposals[r].scope = proposals[q].scope
BY DEF OwnerInvariant, ProposalsSound, LineSound

----
LEMMA OwnerStarts == OwnerInit => OwnerInvariant
<1> SUFFICES ASSUME OwnerInit PROVE OwnerInvariant
  OBVIOUS
<1>1. OwnerTypes /\ Rules = {}
  BY EmptySeq DEF OwnerInit, OwnerTypes, Rules, None
<1> QED
  BY <1>1 DEF OwnerInit, OwnerInvariant, ProposalsSound, ForceSound, TakenSound, DecidingSound,
     OneOfEachLine, InForce, None

\* Evidence moves on its own.
LEMMA EvidenceKeeps ==
    ASSUME OwnerInvariant, UNCHANGED <<diagnoses, proposals, standing>>,
           figures' \in Nat, edits' \in Nat, deciding' \in [Editors -> Nat], DecidingSound'
    PROVE  OwnerInvariant'
BY DEF OwnerInvariant, OwnerTypes, DiagnosisSound, ProposalsSound, RowSound, LineSound, ForceSound,
       TakenSound, OneOfEachLine, InForce, Rules

LEMMA DiagnoseKeeps ==
    ASSUME OwnerInvariant, NEW s \in Scopes, NEW r \in {None} \cup Rules,
           NEW code \in {"decline", "ineffective"}, Diagnose(s, r, code)
    PROVE  OwnerInvariant'
<1> DEFINE d == [scope |-> s, code |-> code, figures |-> figures, rule |-> r,
                 under |-> IF r = None THEN 0 ELSE standing[r].decided]
<1>1. UNCHANGED <<figures, edits, proposals, standing, deciding>> /\ diagnoses' = diagnoses \cup {d}
  BY DEF Diagnose
<1>2. OwnerTypes
  BY DEF OwnerInvariant
<1>3. r \in Nat /\ (r # None => r \in Rules /\ standing[r].decided \in Nat)
  BY <1>2, RulesCounted DEF None, StandingRows
<1>4. d \in Evidences
  <2>1. (IF r = None THEN 0 ELSE standing[r].decided) \in Nat
    BY <1>3
  <2> QED
    BY <1>2, <1>3, <2>1 DEF Evidences, OwnerTypes
<1>5. DiagnosisSound(d)
  <2>1. CASE code = "decline"
    BY <2>1 DEF Diagnose, DiagnosisSound
  <2>2. CASE code = "ineffective"
    <3>1. r \in ScopeState(s)
      BY <2>2 DEF Diagnose
    <3>2. r \in Rules /\ standing[r].accepted /\ proposals[r].kind = "pipeline" /\ proposals[r].scope = s
      BY <3>1 DEF ScopeState, InForce
    <3>3. proposals[r].operation = "activate" /\ r # None
      BY <1>2, <3>2, RulesCounted DEF OwnerInvariant, ForceSound, None
    <3> QED
      BY <2>2, <3>2, <3>3 DEF DiagnosisSound
  <2> QED
    BY <2>1, <2>2
<1> HIDE DEF d
<1>6. \A x \in diagnoses' : DiagnosisSound(x)'
  BY <1>1, <1>5 DEF OwnerInvariant, DiagnosisSound, Rules
<1>7. OwnerTypes'
  BY <1>1, <1>2, <1>4 DEF OwnerTypes
<1>8. ProposalsSound' /\ ForceSound' /\ TakenSound' /\ DecidingSound' /\ OneOfEachLine'
  BY <1>1 DEF OwnerInvariant, ProposalsSound, RowSound, LineSound, ForceSound, TakenSound,
              DecidingSound, OneOfEachLine, InForce, Rules
<1> QED
  BY <1>6, <1>7, <1>8 DEF OwnerInvariant

----
\* A new proposal is in force for nobody and leaves the others as they are.
LEMMA ProposalKeeps ==
    ASSUME OwnerInvariant, NEW row \in ProposalRows, proposals' = Append(proposals, row),
           standing' = Append(standing, [accepted |-> FALSE, decided |-> 0, taken |-> 0]),
           UNCHANGED <<figures, edits, diagnoses, deciding>>,
           NEW r \in Nat, r = Len(proposals) + 1, RowSound(r)', LineSound(r)'
    PROVE  OwnerInvariant'
<1> DEFINE n == Len(proposals)
           new == [accepted |-> FALSE, decided |-> 0, taken |-> 0]
<1>1. OwnerTypes /\ new \in StandingRows
  BY DEF OwnerInvariant, StandingRows
<1>2. n \in Nat /\ Rules = 1 .. n
  BY <1>1, RulesCounted
<1>3. /\ proposals' \in Seq(ProposalRows) /\ Len(proposals') = n + 1
      /\ proposals'[n + 1] = row /\ \A i \in Rules : proposals'[i] = proposals[i]
  BY <1>1, <1>2, AppendProperties DEF OwnerTypes
<1>4. /\ standing' \in Seq(StandingRows) /\ Len(standing') = n + 1
      /\ standing'[n + 1] = new /\ \A i \in Rules : standing'[i] = standing[i]
  <2> HIDE DEF new
  <2>1. standing \in Seq(StandingRows) /\ Len(standing) = n /\ standing' = Append(standing, new)
    BY <1>1 DEF OwnerTypes, new
  <2> QED
    BY <1>1, <1>2, <2>1, AppendProperties
<1>5. OwnerTypes'
  BY <1>1, <1>3, <1>4 DEF OwnerTypes
<1>6. Rules' = 1 .. n + 1 /\ Rules' = Rules \cup {n + 1}
  BY <1>2, <1>3, <1>5, LenProperties DEF Rules
<1>7. \A d \in diagnoses' : DiagnosisSound(d)'
  BY <1>3, <1>6 DEF OwnerInvariant, DiagnosisSound
<1>8. \A q \in Rules : RowSound(q)' /\ LineSound(q)'
  <2> SUFFICES ASSUME NEW q \in Rules PROVE RowSound(q)' /\ LineSound(q)'
    OBVIOUS
  <2>1. RowSound(q) /\ LineSound(q)
    BY DEF OwnerInvariant, ProposalsSound
  <2>2. \A i \in 1 .. q : i \in Rules /\ proposals'[i] = proposals[i]
    BY <1>2, <1>3
  <2>3. q \in 1 .. q /\ \A i \in 1 .. q - 1 : i \in 1 .. q
    BY <1>2
  <2>4. RowSound(q)'
    BY <2>1, <2>2, <2>3 DEF RowSound
  <2>5. LineSound(q)'
    BY <2>1, <2>2, <2>3 DEF LineSound
  <2> QED
    BY <2>4, <2>5
<1>9. ProposalsSound'
  BY <1>6, <1>8 DEF ProposalsSound
<1>10. InForce' = InForce
  BY <1>2, <1>4, <1>6 DEF InForce
<1>11. ForceSound' /\ OneOfEachLine'
  <2>1. \A q \in InForce : q \in Rules /\ standing[q].accepted
    BY DEF InForce
  <2>2. ~standing'[n + 1].accepted
    BY <1>4
  <2>3. ForceSound'
    BY <1>3, <1>4, <1>6, <2>2 DEF OwnerInvariant, ForceSound
  <2>4. OneOfEachLine'
    <3> SUFFICES ASSUME NEW q \in InForce', NEW t \in InForce',
                        proposals'[q].origin = proposals'[t].origin
                 PROVE  q = t
      BY DEF OneOfEachLine
    <3>1. q \in InForce /\ t \in InForce
      BY <1>10
    <3>2. proposals[q].origin = proposals[t].origin
      BY <1>3, <2>1, <3>1
    <3> QED
      BY <3>1, <3>2 DEF OwnerInvariant, OneOfEachLine
  <2> QED
    BY <2>3, <2>4
<1>12. TakenSound'
  <2> SUFFICES ASSUME NEW q \in Rules', proposals'[q].operation # "activate"
               PROVE  /\ standing'[q].taken <= 1
                      /\ standing'[q].taken > 0 =>
                            standing'[proposals'[q].previous].decided > proposals'[q].evidence.under
    BY DEF TakenSound
  <2>1. CASE q = n + 1
    BY <1>4, <2>1
  <2>2. CASE q \in Rules
    <3>1. RowSound(q)
      BY <2>2 DEF OwnerInvariant, ProposalsSound
    <3>2. proposals[q].previous \in Rules
      BY <1>2, <1>3, <2>2, <3>1 DEF RowSound
    <3> QED
      BY <1>3, <1>4, <2>2, <3>2 DEF OwnerInvariant, TakenSound
  <2> QED
    BY <1>6, <2>1, <2>2
<1>13. DecidingSound'
  BY <1>3, <1>6 DEF OwnerInvariant, DecidingSound
<1> QED
  BY <1>5, <1>7, <1>9, <1>11, <1>12, <1>13 DEF OwnerInvariant

\* What a diagnosis proposes is in the line of the rule it replaces or undoes, or starts one.
LEMMA ProposedKeeps ==
    ASSUME OwnerInvariant, NEW d \in diagnoses, NEW previous \in {None} \cup ScopeState(d.scope),
           NEW operation \in {"activate", "withdraw", "restore"}, NEW restore \in Nat,
           Proposed(d, previous, operation, restore),
           operation = "activate" => restore = None,
           operation # "activate" => /\ previous # None /\ d.rule = previous
                                     /\ restore = proposals[previous].previous
    PROVE  OwnerInvariant'
<1> DEFINE n == Len(proposals) + 1
           origin == IF previous = None THEN n ELSE proposals[previous].origin
           row == [kind |-> "pipeline", scope |-> d.scope, evidence |-> d, previous |-> previous,
                   operation |-> operation, restore |-> restore, state |-> ScopeState(d.scope),
                   origin |-> origin]
<1>1. OwnerTypes
  BY DEF OwnerInvariant
<1>2. n \in Nat \ {0} /\ Rules = 1 .. n - 1
  BY <1>1, RulesCounted
<1>3. ScopeState(d.scope) \subseteq Rules
  BY DEF ScopeState, InForce
<1>4. d \in Evidences
  BY <1>1 DEF OwnerTypes
<1>5. previous # None =>
        /\ previous \in Rules /\ RowSound(previous) /\ LineSound(previous)
        /\ proposals[previous].kind = "pipeline" /\ proposals[previous].scope = d.scope
        /\ proposals[previous].operation = "activate"
  BY DEF ScopeState, InForce, OwnerInvariant, ProposalsSound, ForceSound
<1>6. origin \in 1 .. n /\ (previous = None => origin = n)
  <2>1. CASE previous = None
    BY <1>2, <2>1
  <2>2. CASE previous # None
    BY <1>2, <1>5, <2>2 DEF LineSound
  <2> QED
    BY <2>1, <2>2
<1>7. row \in ProposalRows
  <2>1. previous \in Nat /\ origin \in Nat /\ ScopeState(d.scope) \in SUBSET Nat /\ d.scope \in Scopes
    BY <1>2, <1>3, <1>4, <1>5, <1>6 DEF None, Evidences
  <2> HIDE DEF origin
  <2> QED
    BY <1>4, <2>1 DEF ProposalRows
<1>8. /\ row.kind = "pipeline" /\ row.scope = d.scope /\ row.evidence = d
      /\ row.previous = previous /\ row.operation = operation /\ row.restore = restore
      /\ row.state = ScopeState(d.scope) /\ row.origin = origin
  OBVIOUS
<1>9. /\ proposals' = Append(proposals, row)
      /\ standing' = Append(standing, [accepted |-> FALSE, decided |-> 0, taken |-> 0])
      /\ UNCHANGED <<figures, edits, diagnoses, deciding>>
  BY DEF Proposed
<1> HIDE DEF row
<1>10. proposals'[n] = row /\ \A i \in Rules : proposals'[i] = proposals[i]
  BY <1>1, <1>2, <1>7, <1>9, AppendProperties DEF OwnerTypes
<1>11. ASSUME NEW m \in Nat, m = n PROVE RowSound(m)'
  <2> DEFINE p == proposals'[m]
  <2>1. p = row
    BY <1>10, <1>11
  <2>2. p.previous # None =>
          /\ p.previous \in 1 .. m - 1
          /\ p.kind = "pipeline" /\ proposals'[p.previous].kind = "pipeline"
          /\ proposals'[p.previous].operation = "activate"
          /\ proposals'[p.previous].origin = p.origin
    BY <1>2, <1>5, <1>8, <1>10, <1>11, <2>1
  <2>3. /\ p.kind = "pipeline" /\ p.evidence \in Evidences /\ p.state \subseteq 1 .. m - 1
        /\ p.operation = "activate" => p.restore = None /\ p.previous \in p.state \cup {None}
    BY <1>2, <1>3, <1>4, <1>8, <1>11, <2>1
  <2>4. p.operation # "activate" => /\ p.previous # None /\ p.evidence.rule = p.previous
                                    /\ p.restore = proposals'[p.previous].previous
    BY <1>5, <1>8, <1>10, <2>1
  <2> QED
    BY <2>2, <2>3, <2>4 DEF RowSound
<1>12. ASSUME NEW m \in Nat, m = n PROVE LineSound(m)'
  <2> DEFINE p == proposals'[m]
  <2>1. p = row /\ p.origin = origin
    BY <1>8, <1>10, <1>12
  <2>2. CASE previous = None
    BY <1>2, <1>6, <1>8, <1>12, <2>1, <2>2 DEF LineSound
  <2>3. CASE previous # None
    <3>1. origin = proposals[previous].origin /\ origin \in Rules
      BY <1>2, <1>5, <2>3 DEF LineSound
    <3>2. proposals'[origin] = proposals[origin]
      BY <1>10, <3>1
    <3>3. proposals[origin].kind = "pipeline" /\ proposals[origin].scope = d.scope
      BY <1>5, <2>3, <3>1 DEF LineSound
    <3> QED
      BY <1>2, <1>6, <1>8, <1>12, <2>1, <2>3, <3>2, <3>3 DEF LineSound
  <2> QED
    BY <2>2, <2>3
<1>13. n \in Nat
  BY <1>2
<1> HIDE DEF n
<1> QED
  BY <1>7, <1>9, <1>11, <1>12, <1>13, ProposalKeeps DEF n

LEMMA ProposeKeeps ==
    ASSUME OwnerInvariant, NEW d \in diagnoses, NEW previous \in {None} \cup Rules,
           ProposeRule(d, previous)
    PROVE  OwnerInvariant'
BY ProposedKeeps DEF ProposeRule, None

LEMMA ReviewKeeps ==
    ASSUME OwnerInvariant, NEW d \in diagnoses, Review(d)
    PROVE  OwnerInvariant'
<1> DEFINE before == proposals[d.rule].previous
           operation == IF before = None THEN "withdraw" ELSE "restore"
<1>1. OwnerTypes /\ DiagnosisSound(d) /\ d.code = "ineffective" /\ EvidenceFresh(d)
  BY DEF OwnerInvariant, Review
<1>2. d.rule # None /\ d.rule \in Rules /\ d.rule \in ScopeState(d.scope)
  BY <1>1 DEF DiagnosisSound, EvidenceFresh, ScopeState
<1>3. before \in Nat
  BY <1>1, <1>2, RulesCounted DEF ProposalRows
<1>4. Proposed(d, d.rule, operation, before)
  BY DEF Review
<1> QED
  BY <1>2, <1>3, <1>4, ProposedKeeps

LEMMA ProposeWritingKeeps ==
    ASSUME OwnerInvariant, NEW s \in Scopes, ProposeWriting(s)
    PROVE  OwnerInvariant'
<1> DEFINE n == Len(proposals) + 1
           row == [kind |-> "writing", scope |-> s, evidence |-> edits, previous |-> None,
                   operation |-> "activate", restore |-> None, state |-> {}, origin |-> n]
<1>1. OwnerTypes
  BY DEF OwnerInvariant
<1>2. n \in Nat /\ n > 0
  BY <1>1, RulesCounted
<1>3. row \in ProposalRows
  <2> HIDE DEF n
  <2> QED
    BY <1>1, <1>2 DEF ProposalRows, OwnerTypes, None
<1>4. /\ row.kind = "writing" /\ row.scope = s /\ row.previous = None
      /\ row.operation = "activate" /\ row.restore = None /\ row.origin = n
  OBVIOUS
<1>5. /\ proposals' = Append(proposals, row)
      /\ standing' = Append(standing, [accepted |-> FALSE, decided |-> 0, taken |-> 0])
      /\ UNCHANGED <<figures, edits, diagnoses, deciding>>
  BY DEF ProposeWriting
<1> HIDE DEF row
<1>6. proposals'[n] = row
  BY <1>1, <1>3, <1>5, AppendProperties DEF OwnerTypes
<1>7. ASSUME NEW m \in Nat, m = n PROVE RowSound(m)' /\ LineSound(m)'
  BY <1>2, <1>4, <1>6, <1>7 DEF RowSound, LineSound
<1> HIDE DEF n
<1> QED
  BY <1>2, <1>3, <1>5, <1>7, ProposalKeeps DEF n

----
\* A decision on rules keeps everything, if what it puts in force is alone in its line and what it
\* undoes is undone for the first time.
LEMMA DecisionKeeps ==
    ASSUME OwnerInvariant, UNCHANGED <<figures, edits, diagnoses, proposals>>,
           standing' \in Seq(StandingRows), Len(standing') = Len(standing),
           \A q \in Rules : standing'[q].decided >= standing[q].decided,
           deciding' \in [Editors -> Nat], DecidingSound', ForceSound', TakenSound', OneOfEachLine'
    PROVE  OwnerInvariant'
BY DEF OwnerInvariant, OwnerTypes, DiagnosisSound, ProposalsSound, RowSound, LineSound, Rules

\* A refusal and an acceptance of one rule.
LEMMA AnsweredRow ==
    ASSUME OwnerTypes, NEW r \in Rules
    PROVE  /\ standing' = Decided(standing, r, FALSE) =>
                 RowMoved(standing, standing', r) /\ standing'[r].accepted = FALSE
           /\ standing' = Decided(standing, r, TRUE) =>
                 RowMoved(standing, standing', r) /\ standing'[r].accepted = TRUE
<1>1. standing \in Seq(StandingRows) /\ r \in 0 .. Len(standing) /\ r # None
  <2>1. standing \in Seq(StandingRows) /\ Len(standing) = Len(proposals)
    BY DEF OwnerTypes
  <2>2. Rules = 1 .. Len(proposals) /\ Len(proposals) \in Nat
    BY RulesCounted, Zenon
  <2>3. \A q \in Rules : q \in 0 .. Len(standing) /\ q # 0
    BY ONLY <2>1, <2>2
  <2> QED
    BY <2>1, <2>3, Zenon DEF None
<1>2. \A a \in BOOLEAN : RowDecided(standing, Decided(standing, r, a), r, a)
  BY ONLY <1>1, DecidedRow
<1>3. FALSE \in BOOLEAN /\ TRUE \in BOOLEAN
  BY ONLY TRUE
<1>4. ASSUME standing' = Decided(standing, r, FALSE)
      PROVE  RowMoved(standing, standing', r) /\ standing'[r].accepted = FALSE
  <2>1. RowDecided(standing, standing', r, FALSE)
    BY <1>2, <1>3, <1>4, Zenon
  <2> QED
    BY <1>1, <2>1, Zenon DEF RowDecided
<1>5. ASSUME standing' = Decided(standing, r, TRUE)
      PROVE  RowMoved(standing, standing', r) /\ standing'[r].accepted = TRUE
  <2>1. RowDecided(standing, standing', r, TRUE)
    BY <1>2, <1>3, <1>5, Zenon
  <2> QED
    BY <1>1, <2>1, Zenon DEF RowDecided
<1> QED
  BY <1>4, <1>5, Zenon

\* A refusal takes out of force and measures nothing.
LEMMA RefusalKeeps ==
    ASSUME OwnerInvariant, UNCHANGED <<figures, edits, diagnoses, proposals, deciding>>,
           NEW r \in Rules, RowMoved(standing, standing', r), standing'[r].accepted = FALSE
    PROVE  OwnerInvariant'
<1>1. OwnerTypes /\ Rules = 1 .. Len(standing) /\ Len(standing) \in Nat /\ Rules' = Rules
  BY RulesCounted DEF OwnerInvariant, OwnerTypes, Rules
<1>2. /\ standing' \in Seq(StandingRows) /\ Len(standing') = Len(standing)
      /\ \A q \in Rules \ {r} : standing'[q] = standing[q]
      /\ standing'[r].decided = standing[r].decided + 1
      /\ standing'[r].taken = standing[r].taken
  BY <1>1 DEF RowMoved, None
<1>3. \A q \in Rules : standing[q].decided \in Nat /\ standing'[q].decided >= standing[q].decided
  <2>1. \A q \in Rules : standing[q].decided \in Nat
    BY <1>1, RulesCounted DEF StandingRows
  <2>2. ASSUME NEW q \in Rules PROVE standing'[q].decided >= standing[q].decided
    <3>1. CASE q = r
      BY <1>2, <2>1, <3>1
    <3>2. CASE q # r
      BY <1>2, <2>1, <3>2
    <3> QED
      BY <3>1, <3>2
  <2> QED
    BY <2>1, <2>2
<1>4. \A q \in InForce' : q \in InForce
  BY <1>1, <1>2 DEF InForce
<1>5. ForceSound'
  BY <1>1, <1>2 DEF OwnerInvariant, ForceSound
<1>6. OneOfEachLine'
  BY <1>4 DEF OwnerInvariant, OneOfEachLine
<1>7. TakenSound'
  <2> SUFFICES ASSUME NEW q \in Rules, proposals[q].operation # "activate"
               PROVE  /\ standing'[q].taken <= 1
                      /\ standing'[q].taken > 0 =>
                            standing'[proposals[q].previous].decided > proposals[q].evidence.under
    BY <1>1 DEF TakenSound
  <2>1. RowSound(q) /\ q \in Rules
    BY DEF OwnerInvariant, ProposalsSound
  <2>2. proposals[q].previous \in Rules
    BY <1>1, <2>1 DEF RowSound
  <2>3. proposals[q].evidence.under \in Nat
    BY <1>1, <2>1, RulesCounted DEF RowSound, ProposalRows, Evidences
  <2> DEFINE previous == proposals[q].previous
             under == proposals[q].evidence.under
  <2>4. standing'[q].taken = standing[q].taken
    BY <1>2
  <2>5. standing[q].taken <= 1 /\ (standing[q].taken > 0 => standing[previous].decided > under)
    BY DEF OwnerInvariant, TakenSound
  <2>6. previous \in Rules /\ under \in Nat
    BY <2>2, <2>3
  <2> HIDE DEF previous, under
  <2>7. standing[previous].decided > under => standing'[previous].decided > under
    <3>1. CASE previous = r
      BY <1>2, <1>3, <2>6, <3>1
    <3>2. CASE previous # r
      BY <1>2, <2>6, <3>2
    <3> QED
      BY <3>1, <3>2
  <2> QED
    BY <2>4, <2>5, <2>7 DEF previous, under
<1>8. DecidingSound'
  BY <1>1 DEF OwnerInvariant, DecidingSound
<1> QED
  BY <1>2, <1>3, <1>5, <1>6, <1>7, <1>8, <1>1, DecisionKeeps DEF OwnerTypes

LEMMA CheckKeeps ==
    ASSUME OwnerInvariant, NEW e \in Editors, NEW r \in Rules, CheckWriting(e, r)
    PROVE  OwnerInvariant'
<1>1. OwnerTypes /\ r \in Nat
  BY RulesCounted DEF OwnerInvariant
<1>2. /\ UNCHANGED <<figures, edits, diagnoses, proposals, standing>>
      /\ deciding' = [deciding EXCEPT ![e] = r] /\ proposals[r].kind = "writing"
  BY DEF CheckWriting, WritingRule
<1>3. deciding' \in [Editors -> Nat]
  BY <1>1, <1>2 DEF OwnerTypes
<1>4. DecidingSound'
  BY <1>1, <1>2 DEF OwnerInvariant, OwnerTypes, DecidingSound, Rules
<1> QED
  BY <1>1, <1>2, <1>3, <1>4, EvidenceKeeps DEF OwnerTypes

\* A writing rule is a line by itself: no other goes out of force, and none is beside it.
LEMMA DecideWritingKeeps ==
    ASSUME OwnerInvariant, UNCHANGED <<figures, edits, diagnoses, proposals>>,
           NEW e \in Editors, NEW r \in Rules, r = deciding[e], proposals[r].kind = "writing",
           RowMoved(standing, standing', r), standing'[r].accepted = TRUE,
           deciding' = [deciding EXCEPT ![e] = None]
    PROVE  OwnerInvariant'
<1>1. OwnerTypes /\ Rules = 1 .. Len(standing) /\ Len(standing) \in Nat /\ Rules' = Rules
  BY RulesCounted DEF OwnerInvariant, OwnerTypes, Rules
<1>2. /\ standing' \in Seq(StandingRows) /\ Len(standing') = Len(standing)
      /\ \A q \in Rules \ {r} : standing'[q] = standing[q]
      /\ standing'[r].decided = standing[r].decided + 1
  BY <1>1 DEF RowMoved, None
<1>3. RowSound(r) /\ LineSound(r) /\ proposals[r].operation = "activate"
  BY DEF OwnerInvariant, ProposalsSound, RowSound
<1>4. \A q \in Rules : standing[q].decided \in Nat /\ standing'[q].decided >= standing[q].decided
  <2>1. \A q \in Rules : standing[q].decided \in Nat
    BY <1>1, RulesCounted DEF StandingRows
  <2>2. ASSUME NEW q \in Rules PROVE standing'[q].decided >= standing[q].decided
    <3>1. CASE q = r
      BY <1>2, <2>1, <3>1
    <3>2. CASE q # r
      BY <1>2, <2>1, <3>2
    <3> QED
      BY <3>1, <3>2
  <2> QED
    BY <2>1, <2>2
<1>5. ForceSound'
  BY <1>1, <1>2, <1>3 DEF OwnerInvariant, ForceSound
<1>6. \A q \in InForce' : q \in Rules /\ (q = r \/ q \in InForce)
  BY <1>1, <1>2 DEF InForce
<1>7. \A q \in Rules : proposals[q].origin = proposals[r].origin => q = r
  <2> SUFFICES ASSUME NEW q \in Rules, proposals[q].origin = proposals[r].origin PROVE q = r
    OBVIOUS
  <2>1. proposals[q].kind = "writing"
    BY LineOfOneScope
  <2>2. proposals[q].origin = q /\ proposals[r].origin = r
    BY <2>1 DEF OwnerInvariant, ProposalsSound, LineSound
  <2> QED
    BY <2>2
<1>8. OneOfEachLine'
  BY <1>6, <1>7 DEF OwnerInvariant, OneOfEachLine
<1>9. TakenSound'
  <2> SUFFICES ASSUME NEW q \in Rules, proposals[q].operation # "activate"
               PROVE  /\ standing'[q].taken <= 1
                      /\ standing'[q].taken > 0 =>
                            standing'[proposals[q].previous].decided > proposals[q].evidence.under
    BY <1>1 DEF TakenSound
  <2> DEFINE previous == proposals[q].previous
             under == proposals[q].evidence.under
  <2>1. RowSound(q) /\ q # r
    BY <1>3 DEF OwnerInvariant, ProposalsSound
  <2>2. previous \in Rules
    BY <1>1, <2>1 DEF RowSound
  <2>3. under \in Nat
    BY <1>1, <2>1, RulesCounted DEF RowSound, ProposalRows, Evidences
  <2>4. standing'[q] = standing[q]
    BY <1>2, <2>1
  <2>5. standing[q].taken <= 1 /\ (standing[q].taken > 0 => standing[previous].decided > under)
    BY DEF OwnerInvariant, TakenSound
  <2> HIDE DEF previous, under
  <2>6. standing[previous].decided > under => standing'[previous].decided > under
    <3>1. CASE previous = r
      BY <1>2, <1>4, <2>2, <2>3, <3>1
    <3>2. CASE previous # r
      BY <1>2, <2>2, <3>2
    <3> QED
      BY <3>1, <3>2
  <2> QED
    BY <2>4, <2>5, <2>6 DEF previous, under
<1>10. deciding' \in [Editors -> Nat] /\ DecidingSound'
  BY <1>1 DEF OwnerInvariant, OwnerTypes, DecidingSound, Rules, None
<1> QED
  BY <1>1, <1>2, <1>4, <1>5, <1>8, <1>9, <1>10, DecisionKeeps

----
\* The rows of an accepted effect: of what is replaced or undone, of what is put back, and of the
\* rule itself, which is neither of the two.
EffectMoved(st, next, p, b, r) ==
    /\ next \in Seq(StandingRows) /\ Len(next) = Len(st)
    /\ \A q \in 1 .. Len(st) : q \notin {p, b, r} => next[q] = st[q]
    /\ p # None => next[p].decided = st[p].decided + 1 /\ next[p].taken = st[p].taken
    /\ b # None => next[b].decided = st[b].decided + 1 /\ next[b].taken = st[b].taken
    /\ next[r].decided = st[r].decided + 1 /\ next[r].taken = st[r].taken + 1
EffectDecided(next, p, b, r, f, t, o) ==
    /\ p # None => next[p].accepted = f
    /\ b # None => next[b].accepted = t
    /\ next[r].accepted = o

LEMMA EffectRows ==
    ASSUME NEW st \in Seq(StandingRows), NEW p \in 0 .. Len(st), NEW b \in 0 .. Len(st),
           NEW r \in 1 .. Len(st), p # r, b # r, p = b => p = None,
           NEW f \in BOOLEAN, NEW t \in BOOLEAN, NEW o \in BOOLEAN,
           NEW next, next = [Decided(Decided(Decided(st, p, f), b, t), r, o) EXCEPT ![r].taken = @ + 1]
    PROVE  EffectMoved(st, next, p, b, r) /\ EffectDecided(next, p, b, r, f, t, o)
<1> DEFINE s1 == Decided(st, p, f)
           s2 == Decided(s1, b, t)
           s3 == Decided(s2, r, o)
<1>1. RowDecided(st, s1, p, f)
  BY DecidedRow
<1>2. next = [s3 EXCEPT ![r].taken = @ + 1]
  OBVIOUS
<1> HIDE DEF s1
<1>3. s1 \in Seq(StandingRows) /\ Len(s1) = Len(st)
  BY <1>1 DEF RowDecided, RowMoved
<1>4. RowDecided(s1, s2, b, t)
  BY <1>3, DecidedRow
<1> HIDE DEF s2
<1>5. s2 \in Seq(StandingRows) /\ Len(s2) = Len(st)
  BY <1>3, <1>4 DEF RowDecided, RowMoved
<1>6. r \in 0 .. Len(st) /\ r # None
  BY LenProperties DEF None
<1>7. RowDecided(s2, s3, r, o)
  BY <1>5, <1>6, DecidedRow
<1> HIDE DEF s3
<1>8. s3 \in Seq(StandingRows) /\ Len(s3) = Len(st)
  BY <1>5, <1>7 DEF RowDecided, RowMoved
<1> DEFINE more == s3[r].taken + 1
           row == [s3[r] EXCEPT !.taken = more]
<1>9. s3[r] \in StandingRows /\ more \in Nat
  <2>1. r \in 1 .. Len(s3)
    BY <1>8
  <2>2. s3[r] \in StandingRows
    BY ONLY <1>8, <2>1, ElementOfSeq
  <2> QED
    BY ONLY <2>2 DEF StandingRows
<1>10. next = [s3 EXCEPT ![r] = row]
  BY <1>2, <1>8, LenProperties
<1>11. row \in StandingRows /\ row.accepted = s3[r].accepted /\ row.decided = s3[r].decided
       /\ row.taken = more
  <2> HIDE DEF more
  <2> QED
    BY <1>9 DEF StandingRows
<1> HIDE DEF row
<1>12. /\ next \in Seq(StandingRows) /\ Len(next) = Len(st)
       /\ \A j \in 1 .. Len(st) : next[j] = IF j = r THEN row ELSE s3[j]
  <2>1. r \in 1 .. Len(s3) /\ 1 .. Len(s3) = 1 .. Len(st)
    BY <1>8
  <2>2. /\ [s3 EXCEPT ![r] = row] \in Seq(StandingRows)
        /\ Len([s3 EXCEPT ![r] = row]) = Len(s3)
        /\ \A j \in 1 .. Len(s3) : [s3 EXCEPT ![r] = row][j] = IF j = r THEN row ELSE s3[j]
    BY ONLY <1>8, <1>11, <2>1, ExceptSeq
  <2> QED
    BY ONLY <1>8, <1>10, <2>1, <2>2
<1>13. /\ \A q \in 1 .. Len(st) : q # p => s1[q] = st[q]
       /\ \A q \in 1 .. Len(st) : q # b => s2[q] = s1[q]
       /\ \A q \in 1 .. Len(st) : q # r => next[q] = s2[q]
  BY <1>1, <1>3, <1>4, <1>5, <1>7, <1>12 DEF RowDecided, RowMoved
<1>14. p # None => p \in 1 .. Len(st) /\ next[p] = s1[p] /\ s1[p].accepted = f
                   /\ s1[p].decided = st[p].decided + 1 /\ s1[p].taken = st[p].taken
  BY <1>1, <1>13, LenProperties DEF RowDecided, RowMoved, None
<1>15. b # None => b \in 1 .. Len(st) /\ next[b] = s2[b] /\ s1[b] = st[b] /\ s2[b].accepted = t
                   /\ s2[b].decided = s1[b].decided + 1 /\ s2[b].taken = s1[b].taken
  BY <1>4, <1>13, LenProperties DEF RowDecided, RowMoved, None
<1>16. next[r].accepted = o /\ next[r].decided = st[r].decided + 1 /\ next[r].taken = st[r].taken + 1
  <2>1. s2[r] = st[r] /\ s3[r].accepted = o /\ s3[r].decided = s2[r].decided + 1
        /\ s3[r].taken = s2[r].taken
    BY <1>6, <1>7, <1>13 DEF RowDecided, RowMoved
  <2> QED
    BY <1>11, <1>12, <2>1 DEF more
<1>17. EffectMoved(st, next, p, b, r)
  BY <1>12, <1>13, <1>14, <1>15, <1>16 DEF EffectMoved
<1> QED
  BY <1>14, <1>15, <1>16, <1>17 DEF EffectDecided

\* What an effect touches: rules before it in its own line, of which the restored one is earlier.
LEMMA EffectParts ==
    ASSUME OwnerInvariant, NEW r \in Rules
    PROVE  /\ proposals[r].previous # None =>
                 /\ proposals[r].previous \in Rules /\ proposals[r].previous < r
                 /\ proposals[proposals[r].previous].origin = proposals[r].origin
           /\ proposals[r].restore # None =>
                 /\ proposals[r].restore \in Rules /\ proposals[r].restore < r
                 /\ proposals[r].restore # proposals[r].previous
                 /\ proposals[proposals[r].restore].operation = "activate"
                 /\ proposals[proposals[r].restore].origin = proposals[r].origin
                 /\ proposals[r].operation # "activate"
           /\ r \in Nat /\ r # None
<1>1. OwnerTypes /\ Rules = 1 .. Len(proposals) /\ Len(proposals) \in Nat
  BY RulesCounted DEF OwnerInvariant
<1>2. RowSound(r)
  BY DEF OwnerInvariant, ProposalsSound
<1>3. proposals[r].previous # None =>
        /\ proposals[r].previous \in Rules /\ proposals[r].previous < r
        /\ proposals[proposals[r].previous].origin = proposals[r].origin
  BY <1>1, <1>2 DEF RowSound
<1>4. ASSUME proposals[r].restore # None
      PROVE  /\ proposals[r].restore \in Rules /\ proposals[r].restore < r
             /\ proposals[r].restore # proposals[r].previous
             /\ proposals[proposals[r].restore].operation = "activate"
             /\ proposals[proposals[r].restore].origin = proposals[r].origin
             /\ proposals[r].operation # "activate"
  <2> DEFINE p == proposals[r].previous
  <2>1. proposals[r].operation # "activate" /\ p # None /\ proposals[r].restore = proposals[p].previous
    BY <1>2, <1>4 DEF RowSound
  <2>2. p \in Rules /\ p < r /\ proposals[p].origin = proposals[r].origin
    BY <1>3, <2>1
  <2>3. RowSound(p)
    BY <2>2 DEF OwnerInvariant, ProposalsSound
  <2>4. /\ proposals[r].restore \in 1 .. p - 1
        /\ proposals[proposals[r].restore].operation = "activate"
        /\ proposals[proposals[r].restore].origin = proposals[p].origin
    BY <1>4, <2>1, <2>3 DEF RowSound
  <2>5. proposals[r].restore \in Rules /\ proposals[r].restore < r /\ proposals[r].restore # p
    <3> DEFINE b == proposals[r].restore
    <3>1. b \in 1 .. p - 1 /\ p \in 1 .. Len(proposals) /\ r \in 1 .. Len(proposals) /\ p < r
      BY <1>1, <2>2, <2>4
    <3> HIDE DEF b, p
    <3>2. b \in 1 .. Len(proposals) /\ b < r /\ b # p
      BY <1>1, <3>1
    <3> QED
      BY <1>1, <3>2 DEF b, p
  <2> QED
    BY <2>1, <2>2, <2>4, <2>5
<1> QED
  BY <1>1, <1>3, <1>4 DEF None

LEMMA EffectAccepted ==
    ASSUME OwnerInvariant, NEW r \in Rules, standing' = [Effect(r) EXCEPT ![r].taken = @ + 1]
    PROVE  /\ EffectMoved(standing, standing', proposals[r].previous, proposals[r].restore, r)
           /\ proposals[r].previous # None => standing'[proposals[r].previous].accepted = FALSE
           /\ standing'[r].accepted => proposals[r].operation = "activate"
<1> DEFINE p == proposals[r].previous
           b == proposals[r].restore
           o == proposals[r].operation = "activate"
<1>1. OwnerTypes /\ Rules = 1 .. Len(standing) /\ Len(standing) \in Nat /\ standing \in Seq(StandingRows)
  BY RulesCounted DEF OwnerInvariant, OwnerTypes
<1>2. /\ r \in 1 .. Len(standing) /\ p \in 0 .. Len(standing) /\ b \in 0 .. Len(standing)
      /\ p # r /\ b # r /\ (p = b => p = None)
  BY <1>1, EffectParts DEF None
<1>3. standing' = [Decided(Decided(Decided(standing, p, FALSE), b, TRUE), r, o) EXCEPT ![r].taken = @ + 1]
  BY DEF Effect
<1> HIDE DEF p, b, o
<1>4. \A next : \A f \in BOOLEAN, t \in BOOLEAN, y \in BOOLEAN :
        next = [Decided(Decided(Decided(standing, p, f), b, t), r, y) EXCEPT ![r].taken = @ + 1] =>
          EffectMoved(standing, next, p, b, r) /\ EffectDecided(next, p, b, r, f, t, y)
  <2> SUFFICES ASSUME NEW next, NEW f \in BOOLEAN, NEW t \in BOOLEAN, NEW y \in BOOLEAN,
                      next = [Decided(Decided(Decided(standing, p, f), b, t), r, y)
                                 EXCEPT ![r].taken = @ + 1]
               PROVE  EffectMoved(standing, next, p, b, r) /\ EffectDecided(next, p, b, r, f, t, y)
    OBVIOUS
  <2> QED
    BY <1>1, <1>2, EffectRows, Zenon
<1>5. FALSE \in BOOLEAN /\ TRUE \in BOOLEAN /\ o \in BOOLEAN
  BY ONLY TRUE DEF o
<1>6. EffectMoved(standing, standing', p, b, r) /\ EffectDecided(standing', p, b, r, FALSE, TRUE, o)
  BY <1>3, <1>4, <1>5, Zenon
<1>7. (p # None => standing'[p].accepted = FALSE) /\ standing'[r].accepted = o
  BY <1>6, Zenon DEF EffectDecided
<1> QED
  BY <1>6, <1>7, Zenon DEF p, b, o

\* Accepted is only what was measured and decided upon: all of the rule's line that is in force is
\* what it replaces or undoes, and no measurement is accepted a second time.
LEMMA AcceptKeeps ==
    ASSUME OwnerInvariant, UNCHANGED <<figures, edits, diagnoses, proposals, deciding>>,
           NEW r \in Rules, proposals[r].kind = "pipeline", Acceptable(r),
           EffectMoved(standing, standing', proposals[r].previous, proposals[r].restore, r),
           proposals[r].previous # None => standing'[proposals[r].previous].accepted = FALSE,
           standing'[r].accepted => proposals[r].operation = "activate"
    PROVE  OwnerInvariant'
<1> DEFINE p == proposals[r].previous
           b == proposals[r].restore
           under == proposals[r].evidence.under
<1>1. OwnerTypes /\ Rules = 1 .. Len(standing) /\ Len(standing) \in Nat /\ Rules' = Rules
  BY RulesCounted DEF OwnerInvariant, OwnerTypes, Rules
<1>2. /\ standing' \in Seq(StandingRows) /\ Len(standing') = Len(standing)
      /\ \A q \in Rules : q \notin {p, b, r} => standing'[q] = standing[q]
      /\ p # None => standing'[p].decided = standing[p].decided + 1 /\ standing'[p].taken = standing[p].taken
      /\ b # None => standing'[b].decided = standing[b].decided + 1 /\ standing'[b].taken = standing[b].taken
      /\ standing'[r].decided = standing[r].decided + 1 /\ standing'[r].taken = standing[r].taken + 1
  BY <1>1 DEF EffectMoved
<1>3. RowSound(r) /\ LineSound(r)
  BY DEF OwnerInvariant, ProposalsSound
<1>4. /\ p # None => p \in Rules /\ p < r /\ proposals[p].origin = proposals[r].origin
      /\ b # None => /\ b \in Rules /\ proposals[b].operation = "activate"
                     /\ proposals[b].origin = proposals[r].origin /\ proposals[r].operation # "activate"
      /\ r \in Nat
  BY EffectParts
<1>5. \A q \in Rules : standing[q].decided \in Nat /\ standing[q].taken \in Nat
  BY <1>1, RulesCounted DEF StandingRows
<1>6. proposals[r].operation # "activate" => p # None /\ p \in InForce /\ standing[p].decided = under
  BY <1>3 DEF Acceptable, EvidenceFresh, RowSound
<1>7. ASSUME NEW q \in Rules PROVE standing'[q].decided >= standing[q].decided
  <2>1. q \in {p, b, r} => standing'[q].decided = standing[q].decided + 1
    <3>1. None \notin Rules
      BY <1>1 DEF None
    <3> HIDE DEF p, b
    <3> QED
      BY <1>2, <3>1
  <2>2. q \notin {p, b, r} => standing'[q].decided = standing[q].decided
    BY <1>2
  <2>3. standing[q].decided \in Nat
    BY <1>5
  <2> HIDE DEF p, b
  <2> QED
    BY <2>1, <2>2, <2>3
<1>8. ASSUME NEW q \in Rules PROVE q # r => standing'[q].taken = standing[q].taken
  <2>1. None \notin Rules
    BY <1>1 DEF None
  <2> HIDE DEF p, b
  <2> QED
    BY <1>2, <2>1
<1>9. ForceSound'
  <2> SUFFICES ASSUME NEW q \in Rules, standing'[q].accepted PROVE proposals[q].operation = "activate"
    BY <1>1 DEF ForceSound
  <2>1. CASE q \in {b, r}
    <3>1. b = q => b # None
      BY <1>1 DEF None
    <3> QED
      BY <1>4, <2>1, <3>1
  <2>2. CASE q \notin {b, r}
    <3>1. q # p
      BY <1>1 DEF None
    <3>2. standing[q].accepted
      BY <1>2, <2>2, <3>1
    <3> QED
      BY <3>2 DEF OwnerInvariant, ForceSound
  <2> QED
    BY <2>1, <2>2
<1>10. ASSUME NEW q \in InForce, proposals[q].origin = proposals[r].origin PROVE q = p
  <2>1. q \in Rules
    BY DEF InForce
  <2>2. CASE p \in InForce
    <3>1. p # None
      BY <1>1, <2>2, RulesCounted DEF None
    <3> QED
      BY <1>4, <1>10, <2>2, <3>1 DEF OwnerInvariant, OneOfEachLine
  <2>3. CASE p \notin InForce
    <3>1. proposals[r].operation = "activate"
      BY <1>6, <2>3
    <3>2. q \in ScopeState(proposals[r].scope)
      BY <1>10, <2>1, LineOfOneScope DEF ScopeState
    <3>3. proposals[r].state = ScopeState(proposals[r].scope) /\ ScopeState(proposals[r].scope) \subseteq InForce
      BY DEF Acceptable, ScopeState
    <3>4. p = None
      BY <1>3, <2>3, <3>1, <3>3 DEF RowSound
    <3>5. q \in 1 .. r - 1
      BY <1>3, <3>2, <3>3 DEF RowSound
    <3>6. LineSound(q) /\ proposals[r].origin = r
      BY <1>3, <2>1, <3>4 DEF OwnerInvariant, ProposalsSound, LineSound
    <3>7. r \in 1 .. q
      BY <1>10, <3>6 DEF LineSound
    <3> QED
      BY <1>4, <3>5, <3>7
  <2> QED
    BY <2>2, <2>3
<1>11. ASSUME NEW q \in InForce'
       PROVE  /\ q \in Rules
              /\ proposals[q].origin = proposals[r].origin => q = IF b # None THEN b ELSE r
              /\ proposals[q].origin # proposals[r].origin => q \in InForce
  <2>1. q \in Rules /\ standing'[q].accepted
    BY <1>1 DEF InForce
  <2>2. q # p /\ q # None
    BY <1>1, <2>1 DEF None
  <2>3. CASE q \in InForce /\ q \notin {b, r}
    BY <1>10, <2>1, <2>2, <2>3
  <2>4. CASE q \notin InForce /\ q \notin {b, r}
    <3>1. standing[q].accepted
      BY <1>2, <2>1, <2>2, <2>4
    <3> QED
      BY <2>1, <2>4, <3>1 DEF InForce
  <2>5. CASE q = b
    BY <1>4, <2>1, <2>2, <2>5
  <2>6. CASE q = r
    BY <1>4, <2>1, <2>6
  <2> QED
    BY <2>3, <2>4, <2>5, <2>6
<1>12. OneOfEachLine'
  <2> SUFFICES ASSUME NEW q \in InForce', NEW t \in InForce', proposals[q].origin = proposals[t].origin
               PROVE  q = t
    BY DEF OneOfEachLine
  <2> HIDE DEF p, b
  <2> QED
    BY <1>11 DEF OwnerInvariant, OneOfEachLine
<1>13. TakenSound'
  <2> SUFFICES ASSUME NEW q \in Rules, proposals[q].operation # "activate"
               PROVE  /\ standing'[q].taken <= 1
                      /\ standing'[q].taken > 0 =>
                            standing'[proposals[q].previous].decided > proposals[q].evidence.under
    BY <1>1 DEF TakenSound
  <2> DEFINE prev == proposals[q].previous
             then == proposals[q].evidence.under
  <2>1. RowSound(q)
    BY DEF OwnerInvariant, ProposalsSound
  <2>2. prev \in Rules
    BY <1>1, <2>1 DEF RowSound
  <2>3. then \in Nat
    BY <1>1, <2>1, RulesCounted DEF RowSound, ProposalRows, Evidences
  <2>4. standing[q].taken <= 1 /\ (standing[q].taken > 0 => standing[prev].decided > then)
    BY DEF OwnerInvariant, TakenSound
  <2>5. standing'[prev].decided >= standing[prev].decided /\ standing[prev].decided \in Nat
    BY <1>5, <1>7, <2>2
  <2>6. CASE q # r
    <3>1. standing'[q].taken = standing[q].taken /\ standing[q].taken \in Nat
      BY <1>5, <1>8, <2>6
    <3>2. standing'[prev].decided \in Nat
      <4>1. prev = r \/ prev = p \/ prev = b => standing'[prev].decided = standing[prev].decided + 1
        BY <1>1, <1>2, <2>2 DEF None
      <4>2. prev \notin {p, b, r} => standing'[prev].decided = standing[prev].decided
        BY <1>2, <2>2
      <4> HIDE DEF prev, p, b
      <4> QED
        BY <2>5, <4>1, <4>2
    <3> HIDE DEF prev, then
    <3> QED
      BY <2>3, <2>4, <2>5, <3>1, <3>2 DEF prev, then
  <2>7. CASE q = r
    <3>1. standing[prev].decided = then /\ standing'[prev].decided = standing[prev].decided + 1
      BY <1>2, <1>6, <2>7
    <3>2. standing[q].taken \in Nat /\ standing'[q].taken = standing[q].taken + 1
      BY <1>2, <1>5, <2>7
    <3> HIDE DEF prev, then
    <3> QED
      BY <2>3, <2>4, <2>5, <3>1, <3>2 DEF prev, then
  <2> QED
    BY <2>6, <2>7
<1>14. deciding' \in [Editors -> Nat] /\ DecidingSound'
  BY <1>1 DEF OwnerInvariant, OwnerTypes, DecidingSound, Rules
<1> QED
  BY <1>1, <1>2, <1>7, <1>9, <1>12, <1>13, <1>14, DecisionKeeps

LEMMA ConfirmKeeps ==
    ASSUME OwnerInvariant, NEW r \in Rules, NEW accepted \in BOOLEAN, Confirm(r, accepted)
    PROVE  OwnerInvariant'
<1>1. /\ proposals[r].kind = "pipeline"
      /\ UNCHANGED <<figures, edits, diagnoses, proposals, deciding>>
  BY DEF Confirm
<1>2. CASE accepted
  <2>1. Acceptable(r) /\ standing' = [Effect(r) EXCEPT ![r].taken = @ + 1]
    BY <1>2, Zenon DEF Confirm
  <2> QED
    BY <1>1, <2>1, EffectAccepted, AcceptKeeps, Zenon
<1>3. CASE ~accepted
  <2>1. standing' = Decided(standing, r, FALSE)
    BY <1>3, Zenon DEF Confirm
  <2>2. OwnerTypes
    BY Zenon DEF OwnerInvariant
  <2>3. RowMoved(standing, standing', r) /\ standing'[r].accepted = FALSE
    BY <2>1, <2>2, AnsweredRow, Zenon
  <2> QED
    BY <1>1, <2>3, RefusalKeeps, Zenon
<1> QED
  BY <1>2, <1>3

LEMMA RefuseWritingKeeps ==
    ASSUME OwnerInvariant, NEW r \in Rules, RefuseWriting(r)
    PROVE  OwnerInvariant'
<1>1. /\ UNCHANGED <<figures, edits, diagnoses, proposals, deciding>>
      /\ standing' = Decided(standing, r, FALSE)
  BY Zenon DEF RefuseWriting
<1>2. OwnerTypes
  BY Zenon DEF OwnerInvariant
<1> QED
  BY <1>1, <1>2, AnsweredRow, RefusalKeeps, Zenon

LEMMA WritingDecided ==
    ASSUME OwnerInvariant, NEW e \in Editors, DecideWriting(e)
    PROVE  OwnerInvariant'
<1>1. deciding[e] \in Rules /\ proposals[deciding[e]].kind = "writing"
  BY Zenon DEF DecideWriting, OwnerInvariant, DecidingSound
<1>2. /\ UNCHANGED <<figures, edits, diagnoses, proposals>>
      /\ standing' = Decided(standing, deciding[e], TRUE)
      /\ deciding' = [deciding EXCEPT ![e] = None]
  BY Zenon DEF DecideWriting
<1>3. OwnerTypes
  BY Zenon DEF OwnerInvariant
<1>4. RowMoved(standing, standing', deciding[e]) /\ standing'[deciding[e]].accepted = TRUE
  BY <1>1, <1>2, <1>3, AnsweredRow, Zenon
<1> QED
  BY <1>1, <1>2, <1>4, DecideWritingKeeps, Zenon

----
LEMMA OwnerStep == OwnerInvariant /\ [OwnerNext]_ownerVars => OwnerInvariant'
<1> SUFFICES ASSUME OwnerInvariant, [OwnerNext]_ownerVars PROVE OwnerInvariant'
  OBVIOUS
<1>1. OwnerTypes
  BY DEF OwnerInvariant
<1>2. CASE UNCHANGED ownerVars
  BY <1>1, <1>2, EvidenceKeeps DEF ownerVars, OwnerTypes, OwnerInvariant, DecidingSound, Rules
<1>3. CASE ObserveFigures \/ RecordEdit
  BY <1>1, <1>3, EvidenceKeeps
     DEF ObserveFigures, RecordEdit, OwnerTypes, OwnerInvariant, DecidingSound, Rules
<1>4. CASE \E s \in Scopes, r \in {None} \cup Rules, code \in {"decline", "ineffective"} : Diagnose(s, r, code)
  BY <1>4, DiagnoseKeeps
<1>5. CASE \E d \in diagnoses, previous \in {None} \cup Rules : ProposeRule(d, previous)
  BY <1>5, ProposeKeeps
<1>6. CASE \E d \in diagnoses : Review(d)
  BY <1>6, ReviewKeeps
<1>7. CASE \E r \in Rules, accepted \in BOOLEAN : Confirm(r, accepted)
  BY <1>7, ConfirmKeeps, Zenon
<1>8. CASE \E s \in Scopes : ProposeWriting(s)
  BY <1>8, ProposeWritingKeeps
<1>9. CASE \E e \in Editors, r \in Rules : CheckWriting(e, r)
  BY <1>9, CheckKeeps
<1>10. CASE \E e \in Editors : DecideWriting(e)
  BY <1>10, WritingDecided
<1>11. CASE \E r \in Rules : RefuseWriting(r)
  BY <1>11, RefuseWritingKeeps
<1> QED
  BY <1>2, <1>3, <1>4, <1>5, <1>6, <1>7, <1>8, <1>9, <1>10, <1>11 DEF OwnerNext

\* However proposals are made, refused, accepted, replaced and rolled back, one rule of a line is in
\* force at most, and an undoing takes effect once (confirm and review in pipeline_rules.py).
THEOREM OneRuleInForce == OwnerSpec => []OwnerHeard
<1>1. OwnerInvariant => OwnerHeard
  <2> SUFFICES ASSUME OwnerInvariant PROVE OwnerHeard
    OBVIOUS
  <2>1. UndoneOnce
    BY DEF OwnerInvariant, TakenSound, UndoneOnce
  <2> QED
    BY <2>1 DEF OwnerInvariant, OwnerHeard
<1> QED
  BY <1>1, OwnerStarts, OwnerStep, PTL DEF OwnerSpec

-----------------------------------------------------------------------------
QuestionRows == [name : Names, request : Requests \cup {Unset}, decided : Nat, base : Nat,
                 old : Nat \cup {Unset}, at : Nat]
VersionRows == [question : Nat, effective : Nat, values : [Names -> Nat \cup {Unset}]]
HuntRows == [base : Nat, overrides : SUBSET Nat, reads : SUBSET Nat]

RuleTypes ==
    /\ questions \in Seq(QuestionRows) /\ versions \in Seq(VersionRows)
    /\ hunts \in [Hunts -> {Unset} \cup HuntRows] /\ hour \in Nat

Used == Made \cup Overriding
Asking(q) == questions[q].request # Unset

\* What an answer was used for is written down under its message and variable.
SpentRecorded ==
    \A q \in Used : /\ q \in DOMAIN questions
                    /\ Asking(q) => \E s \in spent : /\ s.message = questions[q].request.message
                                                     /\ s.name = questions[q].name
                                                     /\ s.question = q

\* What a version says of the question it answers.
VersionSound(i) ==
    LET q == versions[i].question
        before == IF i = 1 THEN [n \in Names |-> Unset] ELSE versions[i - 1].values
    IN  /\ questions[q].base = i - 1 /\ before[questions[q].name] = questions[q].old
        /\ versions[i].values = [before EXCEPT ![questions[q].name] = q]

\* The owner may answer these now, each about a variable of its own.
Fit(q) ==
    \E S \in SUBSET {s \in spent : s.question = q} :
        RequestHolds(questions[q].request, questions[q].name, S)
Separate(new) == \A q, r \in new : questions[q].name = questions[r].name => q = r
SpendAll(new, event) == UNION {SpendFor(q, event) : q \in new}

RulesInvariant ==
    /\ RuleTypes /\ SpentRecorded
    /\ AnswersItsQuestion /\ MessageSpentOnce /\ ReadsUnderOwnRules

LEMMA RulesStart == RuleInit => RulesInvariant
<1> SUFFICES ASSUME RuleInit PROVE RulesInvariant
  OBVIOUS
<1> USE DEF RuleInit
<1>1. RuleTypes
  BY DEF RuleTypes
<1>2. Made = {} /\ Overriding = {}
  BY DEF Made, Overriding
<1>3. AnswersItsQuestion
  BY DEF AnswersItsQuestion
<1>4. ReadsUnderOwnRules
  BY DEF ReadsUnderOwnRules
<1> QED BY <1>1, <1>2, <1>3, <1>4 DEF RulesInvariant, SpentRecorded, Used, MessageSpentOnce

\* The values in force are those of the last version.
LEMMA HeadTyped ==
    ASSUME RuleTypes
    PROVE  HeadValues \in [Names -> Nat \cup {Unset}]
<1>1. CASE versions = <<>>
  BY <1>1 DEF HeadValues
<1>2. CASE versions # <<>>
  <2>1. Len(versions) \in 1 .. Len(versions)
    BY <1>2, EmptySeq, LenProperties DEF RuleTypes
  <2>2. versions[Len(versions)] \in VersionRows
    BY <2>1, ElementOfSeq DEF RuleTypes
  <2> QED BY <1>2, <2>2 DEF HeadValues, VersionRows
<1> QED BY <1>1, <1>2

\* A message that one answer may be given for is not the message of another that was used.
LEMMA MessageNew ==
    ASSUME SpentRecorded, NEW q \in DOMAIN questions, NEW S \in SUBSET {s \in spent : s.question = q},
           RequestHolds(questions[q].request, questions[q].name, S), Asking(q),
           NEW r \in Used, r # q, Asking(r), questions[r].name = questions[q].name
    PROVE  questions[r].request.message # questions[q].request.message
<1> SUFFICES ASSUME questions[r].request.message = questions[q].request.message PROVE FALSE
  OBVIOUS
<1>1. PICK s \in spent : /\ s.message = questions[r].request.message
                         /\ s.name = questions[r].name /\ s.question = r
  BY DEF SpentRecorded
<1>2. s \in UsesOf(questions[q].request, questions[q].name)
  BY <1>1 DEF UsesOf
<1>3. s \in S
  BY <1>2 DEF RequestHolds, Asking
<1> QED BY <1>1, <1>3

LEMMA VersionsSound ==
    /\ AnswersItsQuestion <=> \A i \in DOMAIN versions : VersionSound(i)
    /\ AnswersItsQuestion' <=> \A i \in DOMAIN versions' : VersionSound(i)'
BY Zenon DEF AnswersItsQuestion, VersionSound

\* Nothing is used, asked or read.
LEMMA OthersKeep ==
    ASSUME RulesInvariant, UNCHANGED <<versions, spent, hunts>>, questions' \in Seq(QuestionRows),
           hour' \in Nat,
           \A q \in DOMAIN questions : q \in DOMAIN questions' /\ questions'[q] = questions[q]
    PROVE  RulesInvariant'
<1>1. Used' = Used
  BY DEF Used, Made, Overriding
<1>2. RuleTypes'
  BY DEF RulesInvariant, RuleTypes
<1>3. SpentRecorded'
  BY <1>1 DEF RulesInvariant, SpentRecorded, Asking
<1>4. \A i \in DOMAIN versions : versions[i].question \in DOMAIN questions
  BY DEF RulesInvariant, SpentRecorded, Used, Made
<1>5. AnswersItsQuestion'
  <2>1. \A i \in DOMAIN versions : VersionSound(i)
    BY VersionsSound DEF RulesInvariant
  <2>2. ASSUME NEW i \in DOMAIN versions PROVE VersionSound(i)'
    <3>1. versions' = versions /\ questions'[versions[i].question] = questions[versions[i].question]
      BY <1>4
    <3>2. VersionSound(i)
      BY <2>1
    <3> QED BY <3>1, <3>2, Zenon DEF VersionSound
  <2>3. DOMAIN versions' = DOMAIN versions
    OBVIOUS
  <2> QED BY <2>2, <2>3, VersionsSound
<1>6. MessageSpentOnce'
  BY <1>1 DEF RulesInvariant, MessageSpentOnce, Used, SpentRecorded
<1>7. ReadsUnderOwnRules'
  BY DEF RulesInvariant, ReadsUnderOwnRules
<1> QED BY <1>2, <1>3, <1>5, <1>6, <1>7 DEF RulesInvariant

\* Some answers are used now, all of them asked about the values in force and spent for one use.
LEMMA UseKeeps ==
    ASSUME RulesInvariant, NEW event, NEW new \in SUBSET DOMAIN questions,
           questions' = questions, Used' \subseteq Used \cup new,
           spent' = spent \cup SpendAll(new, event), Separate(new), \A q \in new : Fit(q)
    PROVE  SpentRecorded' /\ MessageSpentOnce'
<1>1. ASSUME NEW q \in new, Asking(q)
      PROVE  \E s \in spent' : /\ s.message = questions[q].request.message
                               /\ s.name = questions[q].name /\ s.question = q
  <2> DEFINE s == [message |-> questions[q].request.message, name |-> questions[q].name,
                   question |-> q, event |-> event]
  <2>1. s \in SpendFor(q, event)
    BY <1>1 DEF SpendFor, Asking
  <2>2. s \in spent'
    BY <2>1 DEF SpendAll
  <2> QED BY <2>2
<1>2. SpentRecorded'
  <2> SUFFICES ASSUME NEW q \in Used'
               PROVE  /\ q \in DOMAIN questions
                      /\ Asking(q) => \E s \in spent' : /\ s.message = questions[q].request.message
                                                        /\ s.name = questions[q].name
                                                        /\ s.question = q
    BY DEF SpentRecorded, Asking
  <2>1. CASE q \in new
    BY <1>1, <2>1
  <2>2. CASE q \in Used
    BY <2>2 DEF RulesInvariant, SpentRecorded
  <2> QED BY <2>1, <2>2
<1>3. ASSUME NEW q \in new, NEW r \in Used \cup new, r # q, Asking(q), Asking(r),
             questions[q].name = questions[r].name
      PROVE  questions[q].request.message # questions[r].request.message
  <2>1. r \in Used
    BY <1>3 DEF Separate
  <2>2. PICK S \in SUBSET {s \in spent : s.question = q} :
            RequestHolds(questions[q].request, questions[q].name, S)
    BY DEF Fit
  <2> QED BY <1>3, <2>1, <2>2, MessageNew DEF RulesInvariant
<1>4. MessageSpentOnce'
  <2> SUFFICES ASSUME NEW q \in Used \cup new, NEW r \in Used \cup new, q # r, Asking(q), Asking(r),
                      questions[q].name = questions[r].name
               PROVE  questions[q].request.message # questions[r].request.message
    BY DEF MessageSpentOnce, Used, Asking
  <2>1. CASE q \in new
    BY <1>3, <2>1
  <2>2. CASE r \in new
    BY <1>3, <2>2
  <2>3. CASE q \in Used /\ r \in Used
    BY <2>3 DEF RulesInvariant, MessageSpentOnce, Used, Asking
  <2> QED BY <2>1, <2>2, <2>3
<1> QED BY <1>2, <1>4

LEMMA AskingKeeps ==
    ASSUME RulesInvariant, NEW name \in Names, NEW request \in Requests \cup {Unset},
           NEW decided \in 0 .. hour, Propose(name, request, decided)
    PROVE  RulesInvariant'
<1> DEFINE q == [name |-> name, request |-> request, decided |-> decided,
                 base |-> Len(versions), old |-> HeadValues[name], at |-> hour]
<1>1. q \in QuestionRows
  <2>1. RuleTypes
    BY DEF RulesInvariant
  <2>2. Len(versions) \in Nat /\ hour \in Nat /\ decided \in Nat
    BY <2>1, LenProperties DEF RuleTypes
  <2>3. HeadValues[name] \in Nat \cup {Unset}
    BY <2>1, HeadTyped
  <2> QED BY <2>2, <2>3 DEF QuestionRows
<1>2. questions' = Append(questions, q) /\ UNCHANGED <<versions, spent, hunts, hour>>
  BY DEF Propose
<1>3. questions \in Seq(QuestionRows)
  BY DEF RulesInvariant, RuleTypes
<1> HIDE DEF q
<1>4. questions' \in Seq(QuestionRows)
  BY <1>1, <1>2, <1>3, AppendProperties
<1>5. \A i \in DOMAIN questions : i \in DOMAIN questions' /\ questions'[i] = questions[i]
  BY <1>1, <1>2, <1>3, AppendProperties, LenProperties
<1>6. hour' \in Nat
  BY <1>2 DEF RulesInvariant, RuleTypes
<1> QED BY <1>2, <1>4, <1>5, <1>6, OthersKeep

LEMMA ApproveKeeps ==
    ASSUME RulesInvariant, NEW q \in DOMAIN questions, Approve(q)
    PROVE  RulesInvariant'
<1> DEFINE n == Len(versions)
           name == questions[q].name
           row == [question |-> q, effective |-> hour, values |-> [HeadValues EXCEPT ![name] = q]]
<1>1. /\ RuleTypes /\ n \in Nat /\ DOMAIN versions = 1 .. n
      /\ questions[q] \in QuestionRows /\ q \in Nat
  BY LenProperties, ElementOfSeq DEF RulesInvariant, RuleTypes
<1>2. row \in VersionRows
  <2>1. [HeadValues EXCEPT ![name] = q] \in [Names -> Nat \cup {Unset}]
    BY <1>1, HeadTyped
  <2>2. hour \in Nat /\ q \in Nat
    BY <1>1 DEF RuleTypes
  <2> QED BY <2>1, <2>2 DEF VersionRows
<1>3. /\ versions' = Append(versions, row) /\ spent' = spent \cup SpendFor(q, "approved")
      /\ UNCHANGED <<questions, opened, notified, hunts, hour>>
  BY DEF Approve
<1>4. /\ RequestHolds(questions[q].request, name, {}) /\ questions[q].base = n
      /\ questions[q].old = HeadValues[name]
  BY DEF Approve, Approvable, Askable
<1> HIDE DEF row
<1>5. /\ versions' \in Seq(VersionRows) /\ DOMAIN versions' = 1 .. n + 1
      /\ \A i \in 1 .. n : versions'[i] = versions[i]
      /\ versions'[n + 1] = row
  BY <1>1, <1>2, <1>3, AppendProperties, LenProperties DEF RuleTypes
<1>6. RuleTypes'
  BY <1>1, <1>3, <1>5 DEF RuleTypes
<1>7. row.question = q /\ row.values = [HeadValues EXCEPT ![name] = q]
  BY DEF row
<1>8. Used' \subseteq Used \cup {q}
  <2>1. Made' \subseteq Made \cup {q}
    BY <1>1, <1>5, <1>7 DEF Made
  <2>2. Overriding' = Overriding
    BY <1>3 DEF Overriding
  <2> QED BY <2>1, <2>2 DEF Used
<1>9. SpentRecorded' /\ MessageSpentOnce'
  <2>1. SpendAll({q}, "approved") = SpendFor(q, "approved")
    BY DEF SpendAll
  <2>2. \A r \in {q} : Fit(r)
    BY <1>4 DEF Fit
  <2>3. {q} \in SUBSET DOMAIN questions /\ Separate({q})
    BY DEF Separate
  <2>4. spent' = spent \cup SpendAll({q}, "approved")
    BY <1>3, <2>1
  <2> HIDE DEF name
  <2> QED BY <1>3, <1>8, <2>2, <2>3, <2>4, UseKeeps
<1>10. AnswersItsQuestion'
  <2> SUFFICES ASSUME NEW i \in 1 .. n + 1 PROVE VersionSound(i)'
    BY <1>5, VersionsSound
  <2>1. CASE i = n + 1
    <3> DEFINE before == IF i = 1 THEN [m \in Names |-> Unset] ELSE versions'[i - 1].values
    <3>1. before = HeadValues
      <4>1. CASE n = 0
        BY <1>1, <2>1, <4>1, EmptySeq DEF HeadValues, RuleTypes
      <4>2. CASE n # 0
        <5>1. versions # <<>>
          BY <4>2
        <5>2. i # 1 /\ i - 1 = n /\ n \in 1 .. n
          BY <1>1, <2>1, <4>2
        <5> QED BY <1>5, <5>1, <5>2 DEF HeadValues
      <4> QED BY <4>1, <4>2
    <3>2. i - 1 = n
      BY <1>1, <2>1
    <3> QED BY <1>3, <1>4, <1>5, <1>7, <2>1, <3>1, <3>2 DEF VersionSound
  <2>2. CASE i \in 1 .. n
    <3>1. versions'[i] = versions[i] /\ (i # 1 => versions'[i - 1] = versions[i - 1])
      BY <1>1, <1>5, <2>2
    <3>2. VersionSound(i)
      BY <1>1, <2>2, VersionsSound DEF RulesInvariant
    <3> QED BY <1>1, <1>3, <2>2, <3>1, <3>2 DEF VersionSound
  <2> QED BY <1>1, <2>1, <2>2
<1>11. ReadsUnderOwnRules'
  BY <1>3 DEF RulesInvariant, ReadsUnderOwnRules
<1> QED BY <1>6, <1>9, <1>10, <1>11 DEF RulesInvariant

LEMMA HuntStartKeeps ==
    ASSUME RulesInvariant, NEW h \in Hunts, NEW overrides \in SUBSET DOMAIN questions,
           StartHunt(h, overrides)
    PROVE  RulesInvariant'
<1> DEFINE row == [base |-> Len(versions), overrides |-> overrides, reads |-> {}]
<1>1. /\ hunts' = [hunts EXCEPT ![h] = row]
      /\ spent' = spent \cup UNION {SpendFor(q, h) : q \in overrides}
      /\ UNCHANGED <<questions, versions, opened, notified, hour>>
      /\ \A q, r \in overrides : questions[q].name = questions[r].name => q = r
      /\ Configured(h, Len(versions), overrides)
  BY DEF StartHunt
<1>2. RuleTypes /\ hunts \in [Hunts -> {Unset} \cup HuntRows]
  BY DEF RulesInvariant, RuleTypes
<1>3. row \in HuntRows
  <2>1. Len(versions) \in Nat
    BY <1>2, LenProperties DEF RuleTypes
  <2>2. DOMAIN questions \subseteq Nat
    BY <1>2, LenProperties DEF RuleTypes
  <2> QED BY <2>1, <2>2 DEF HuntRows
<1>4. row.overrides = overrides /\ row.reads = {}
  OBVIOUS
<1> HIDE DEF row
<1>5. \A g \in Hunts : hunts'[g] = IF g = h THEN row ELSE hunts[g]
  BY <1>1, <1>2
<1>6. RuleTypes'
  BY <1>1, <1>2, <1>3 DEF RuleTypes
<1>7. Used' \subseteq Used \cup overrides
  BY <1>1, <1>4, <1>5 DEF Used, Made, Overriding
<1>8. \A q \in overrides : Fit(q)
  BY <1>1 DEF Configured, Fit
<1>9. SpentRecorded' /\ MessageSpentOnce'
  <2>1. Separate(overrides) /\ spent' = spent \cup SpendAll(overrides, h)
    BY <1>1 DEF Separate, SpendAll
  <2> QED BY <1>1, <1>7, <1>8, <2>1, UseKeeps
<1>10. AnswersItsQuestion'
  BY <1>1 DEF RulesInvariant, AnswersItsQuestion
<1>11. ReadsUnderOwnRules'
  BY <1>4, <1>5 DEF RulesInvariant, ReadsUnderOwnRules
<1> QED BY <1>6, <1>9, <1>10, <1>11 DEF RulesInvariant

LEMMA HuntReadKeeps ==
    ASSUME RulesInvariant, NEW h \in Hunts, ReserveRead(h)
    PROVE  RulesInvariant'
<1>1. /\ hunts[h] # Unset /\ Configured(h, hunts[h].base, hunts[h].overrides)
      /\ hunts' = [hunts EXCEPT ![h].reads = @ \cup {Len(versions)}]
      /\ UNCHANGED <<questions, versions, spent, opened, notified, hour>>
  BY DEF ReserveRead
<1>2. RuleTypes /\ hunts \in [Hunts -> {Unset} \cup HuntRows] /\ Len(versions) \in Nat
  BY LenProperties DEF RulesInvariant, RuleTypes
<1>3. PICK old \in HuntRows : old = hunts[h]
  BY <1>1, <1>2
<1>4. PICK row : row = [old EXCEPT !.reads = @ \cup {Len(versions)}]
  OBVIOUS
<1>5. /\ row \in HuntRows /\ row.overrides = old.overrides /\ row.base = old.base
      /\ row.reads = old.reads \cup {Len(versions)}
  BY <1>2, <1>3, <1>4 DEF HuntRows
<1>6. hunts' = [hunts EXCEPT ![h] = row]
  BY <1>1, <1>3, <1>4
<1>7. \A g \in Hunts : hunts'[g] = IF g = h THEN row ELSE hunts[g]
  BY <1>2, <1>6
<1>8. old.base = Len(versions)
  <2>1. CASE versions = <<>>
    BY <1>1, <1>3, <2>1, EmptySeq DEF Configured
  <2>2. CASE versions # <<>>
    BY <1>1, <1>3, <2>2 DEF Configured
  <2> QED BY <2>1, <2>2
<1>9. RuleTypes'
  BY <1>1, <1>2, <1>5, <1>6 DEF RuleTypes
<1>10. Used' \subseteq Used
  <2>1. Overriding' \subseteq Overriding
    BY <1>1, <1>3, <1>5, <1>7 DEF Overriding
  <2> QED BY <1>1, <2>1 DEF Used, Made
<1>11. SpentRecorded'
  BY <1>1, <1>10 DEF RulesInvariant, SpentRecorded, Asking
<1>12. MessageSpentOnce'
  BY <1>1, <1>10 DEF RulesInvariant, MessageSpentOnce, Used
<1>13. AnswersItsQuestion'
  BY <1>1 DEF RulesInvariant, AnswersItsQuestion
<1>14. ReadsUnderOwnRules'
  <2>1. old.reads \subseteq {old.base}
    BY <1>1, <1>3 DEF RulesInvariant, ReadsUnderOwnRules
  <2>2. row.reads \subseteq {row.base}
    BY <1>5, <1>8, <2>1
  <2> QED BY <1>7, <2>2 DEF RulesInvariant, ReadsUnderOwnRules
<1> QED BY <1>9, <1>11, <1>12, <1>13, <1>14 DEF RulesInvariant

LEMMA RulesStep == RulesInvariant /\ [RuleNext]_ruleVars => RulesInvariant'
<1> SUFFICES ASSUME RulesInvariant, [RuleNext]_ruleVars PROVE RulesInvariant'
  OBVIOUS
<1>1. RuleTypes
  BY DEF RulesInvariant
<1>2. CASE \E n \in Names, r \in Requests \cup {Unset}, d \in 0 .. hour : Propose(n, r, d)
  BY <1>2, AskingKeeps
<1>3. CASE \E q \in DOMAIN questions : Approve(q)
  BY <1>3, ApproveKeeps
<1>4. CASE \E h \in Hunts, o \in SUBSET DOMAIN questions : StartHunt(h, o)
  BY <1>4, HuntStartKeeps
<1>5. CASE \E h \in Hunts : ReserveRead(h)
  BY <1>5, HuntReadKeeps
<1>6. CASE \/ Initialize \/ RuleTick \/ UNCHANGED ruleVars
           \/ \E v \in DOMAIN versions : Acknowledge(v)
  <2>1. UNCHANGED <<questions, versions, spent, hunts>> /\ hour' \in Nat
    BY <1>1, <1>6 DEF Initialize, RuleTick, Acknowledge, ruleVars, RuleTypes
  <2>2. questions' \in Seq(QuestionRows)
    BY <1>1, <2>1 DEF RuleTypes
  <2> QED BY <2>1, <2>2, OthersKeep
<1> QED BY <1>2, <1>3, <1>4, <1>5, <1>6 DEF RuleNext

\* Versions and overrides come from the owner's answers, each message is used once for a variable,
\* and a round reads under the rules it was frozen at, for any requests, questions and rounds
\* (rules/service.py).
THEOREM AnswersUsedOnce == RuleSpec => []RulesAnswered
<1>1. RulesInvariant => RulesAnswered
  BY DEF RulesInvariant, RulesAnswered
<1> QED BY RulesStart, RulesStep, <1>1, PTL DEF RuleSpec

\* Once the configuration is initialized, a version answers a question whose request the owner made
\* afterwards: a question saved before and answered later is refused (configuration_repository.py).
THEOREM OnlyTheOwnerReopens == RuleSpec => ReopenedByOwner
<1>1. RulesInvariant /\ [RuleNext]_ruleVars =>
          [\A i \in DOMAIN versions' \ DOMAIN versions :
               opened # Unset =>
                   LET r == questions[versions'[i].question].request
                   IN  r # Unset /\ r.at >= opened]_ruleVars
  <2> SUFFICES ASSUME RulesInvariant, RuleNext, NEW i \in DOMAIN versions' \ DOMAIN versions,
                      opened # Unset
               PROVE  LET r == questions[versions'[i].question].request
                      IN  r # Unset /\ r.at >= opened
    BY Zenon
  <2>1. CASE \E q \in DOMAIN questions : Approve(q)
    <3>1. PICK q \in DOMAIN questions : Approve(q)
      BY <2>1
    <3>2. PICK new : new = [question |-> q, effective |-> hour,
                            values |-> [HeadValues EXCEPT ![questions[q].name] = q]]
      OBVIOUS
    <3>3. versions' = Append(versions, new) /\ new.question = q
      BY <3>1, <3>2 DEF Approve
    <3>4. i = Len(versions) + 1 /\ versions'[i] = new
      <4>1. versions \in Seq(VersionRows)
        BY DEF RulesInvariant, RuleTypes
      <4> QED BY <3>3, <4>1
    <3>5. questions[q].request # Unset /\ questions[q].request.at >= opened
      BY <3>1 DEF Approve, Approvable, RequestHolds
    <3> QED BY <3>3, <3>4, <3>5
  <2>2. CASE UNCHANGED versions
    BY <2>2
  <2> QED BY <2>1, <2>2, Zenon
            DEF RuleNext, Propose, Initialize, Acknowledge, StartHunt, ReserveRead, RuleTick
<1> QED BY <1>1, RulesStart, RulesStep, PTL DEF RuleSpec, ReopenedByOwner

-----------------------------------------------------------------------------
ObservationKinds == MessageKinds \cup
    {"anomaly", "resume", "ended", "job_closed", "suspected", "read", "no_reply",
     "employer_rejected", "reply_sent"}
TrackRows ==
    [stage : TalkStages \cup {"closed"}, sent : Nat, read : Nat \cup {NoTime},
     heard : Nat \cup {NoTime}, boot : Nat \cup {NoTime}, next : Nat \cup {NoTime}, checks : Nat,
     checked : Nat \cup {NoTime}, refs : SUBSET Nat, words : SUBSET Nat, paused : BOOLEAN,
     reason : {NoTime, "silence", "ended", "job_closed", "rejected"}, at : Nat,
     noted : SUBSET ObservationKinds, version : Nat]

TrackTypes ==
    /\ tracks \in [Tracks -> {NoTime} \cup TrackRows] /\ moment \in Nat
    /\ sends \in Seq([at : Nat, reply : BOOLEAN])
    /\ messages \in Seq([received : Nat, recorded : Nat, says : STRING])

\* What a record last changed at a time says of its times.
Timed(s, at) ==
    /\ s.sent <= at /\ at <= moment
    /\ s.checked = NoTime <=> s.checks = 0
    /\ s.checked # NoTime => s.checked <= at

\* Its last sign of life from the recruiter is no earlier than any message it was applied.
HeardLast(s) ==
    \A m \in s.words : m \in DOMAIN messages /\ s.heard # NoTime /\ messages[m].received <= s.heard

OpenUnjudged(s) == s.stage # "closed" => s.reason = NoTime

\* The check planned keeps the distance, unless the silence ends before or a poll was agreed.
FirstDue(s) == IF s.boot # NoTime THEN s.boot ELSE s.sent + CheckEvery
NextDue(s) == IF s.checked = NoTime THEN FirstDue(s) ELSE s.checked + CheckEvery
PlannedLate(s) ==
    s.next # NoTime /\ s.next < SilentFrom(s) =>
        s.next >= NextDue(s) \/ (s.checks = 0 /\ s.boot # NoTime)

ReplyOfRound(s) == s.stage = "replied" => \E m \in s.words : messages[m].received >= s.sent

QuietFor(s, at) ==
    s.reason = "silence" =>
        \A life \in Known({s.sent, s.read} \cup {messages[m].received : m \in s.words}) :
            life + SilenceTicks <= at

SoundAt(s, at) ==
    /\ Timed(s, at) /\ HeardLast(s) /\ OpenUnjudged(s)
    /\ PlannedLate(s) /\ ReplyOfRound(s) /\ QuietFor(s, at)

TrackInvariant ==
    /\ TrackTypes /\ SendTrackedOnce
    /\ \A t \in Kept : SoundAt(tracks[t], tracks[t].at)

\* A record that became this one was not checked before its time.
CheckInTime(old, s, at) ==
    s.checks > old.checks => at >= NextDue(old) \/ s.reason = "silence"
Unhurried == \A t \in Kept : CheckInTime(tracks[t], tracks'[t], tracks'[t].at)

LEMMA LettersTyped ==
    ASSUME TrackTypes
    PROVE  /\ \A r \in DOMAIN sends : r \in Nat /\ sends[r] \in [at : Nat, reply : BOOLEAN]
           /\ \A m \in DOMAIN messages :
                  m \in Nat /\ messages[m] \in [received : Nat, recorded : Nat, says : STRING]
<1>1. sends \in Seq([at : Nat, reply : BOOLEAN]) /\ DOMAIN sends = 1 .. Len(sends)
      /\ Len(sends) \in Nat
  BY LenProperties DEF TrackTypes
<1>2. /\ messages \in Seq([received : Nat, recorded : Nat, says : STRING])
      /\ DOMAIN messages = 1 .. Len(messages) /\ Len(messages) \in Nat
  BY LenProperties DEF TrackTypes
<1>3. \A r \in DOMAIN sends : r \in Nat /\ sends[r] \in [at : Nat, reply : BOOLEAN]
  <2>1. \A r \in 1 .. Len(sends) : sends[r] \in [at : Nat, reply : BOOLEAN]
    BY <1>1, ElementOfSeq, Zenon
  <2>2. \A r \in 1 .. Len(sends) : r \in Nat
    BY <1>1
  <2> QED BY <1>1, <2>1, <2>2, Zenon
<1>4. \A m \in DOMAIN messages :
          m \in Nat /\ messages[m] \in [received : Nat, recorded : Nat, says : STRING]
  <2>1. \A m \in 1 .. Len(messages) : messages[m] \in [received : Nat, recorded : Nat, says : STRING]
    BY <1>2, ElementOfSeq, Zenon
  <2>2. \A m \in 1 .. Len(messages) : m \in Nat
    BY <1>2
  <2> QED BY <1>2, <2>1, <2>2, Zenon
<1> QED BY <1>3, <1>4

LEMMA TracksStart == TrackInit => TrackInvariant
BY TrackSorts DEF TrackInit, TrackInvariant, TrackTypes, SendTrackedOnce, Kept

----
(* The clock of a record. *)

LEMMA SilenceIs ==
    ASSUME NEW s \in TrackRows
    PROVE  /\ SilentFrom(s) \in Nat /\ SilentFrom(s) >= s.sent + SilenceTicks
           /\ s.read # NoTime => SilentFrom(s) >= s.read + SilenceTicks
           /\ s.heard # NoTime => SilentFrom(s) >= s.heard + SilenceTicks
<1> DEFINE S == Known({s.sent, s.read, s.heard})
<1>1. s.sent \in Nat /\ s.read \in Nat \cup {NoTime} /\ s.heard \in Nat \cup {NoTime}
  BY DEF TrackRows
<1>2. S \subseteq Nat /\ s.sent \in S
  BY <1>1, TrackSorts DEF Known
<1>3. (s.read # NoTime => s.read \in S) /\ (s.heard # NoTime => s.heard \in S)
  BY DEF Known
<1>4. \E x \in S : \A y \in S : x >= y
  <2>1. ASSUME NEW a \in Nat, NEW b \in Nat, NEW c \in Nat
        PROVE  \E x \in {a, b, c} : \A y \in {a, b, c} : x >= y
    OBVIOUS
  <2>2. \E a, b, c \in Nat : S = {a, b, c}
    <3>1. CASE s.read # NoTime /\ s.heard # NoTime
      <4>1. S = {s.sent, s.read, s.heard}
        BY <1>1, <3>1, TrackSorts DEF Known
      <4> QED BY <1>1, <3>1, <4>1
    <3>2. CASE s.read # NoTime /\ s.heard = NoTime
      <4>1. S = {s.sent, s.read, s.read}
        BY <1>1, <3>2, TrackSorts DEF Known
      <4> QED BY <1>1, <3>2, <4>1
    <3>3. CASE s.read = NoTime /\ s.heard # NoTime
      <4>1. S = {s.sent, s.heard, s.heard}
        BY <1>1, <3>3, TrackSorts DEF Known
      <4> QED BY <1>1, <3>3, <4>1
    <3>4. CASE s.read = NoTime /\ s.heard = NoTime
      <4>1. S = {s.sent, s.sent, s.sent}
        BY <1>1, <3>4, TrackSorts DEF Known
      <4> QED BY <1>1, <4>1
    <3> QED BY <3>1, <3>2, <3>3, <3>4
  <2> HIDE DEF S
  <2> QED BY <2>1, <2>2
<1>5. Max(S) \in S /\ \A y \in S : Max(S) >= y
  <2> HIDE DEF S
  <2> QED BY <1>4, Zenon DEF Max
<1>6. SilentFrom(s) = Max(S) + SilenceTicks
  BY DEF SilentFrom
<1>7. SilenceTicks \in Nat
  BY TrackSorts
<1>8. PICK max \in Nat : max = Max(S)
  BY <1>2, <1>5
<1>9. /\ max >= s.sent
      /\ s.read # NoTime => max >= s.read
      /\ s.heard # NoTime => max >= s.heard
  BY <1>2, <1>3, <1>5, <1>8
<1>10. SilentFrom(s) = max + SilenceTicks
  BY <1>6, <1>8
<1> HIDE DEF S
<1> QED BY ONLY <1>1, <1>7, <1>8, <1>9, <1>10

LEMMA MaxOfTwo ==
    ASSUME NEW a \in Nat, NEW b \in Nat
    PROVE  Max({a, b}) \in Nat /\ Max({a, b}) = IF a >= b THEN a ELSE b
<1>1. \E x \in {a, b} : \A y \in {a, b} : x >= y
  OBVIOUS
<1>2. Max({a, b}) \in {a, b} /\ \A y \in {a, b} : Max({a, b}) >= y
  BY <1>1, Zenon DEF Max
<1> QED BY <1>2

LEMMA MinOfTwo ==
    ASSUME NEW a \in Nat, NEW b \in Nat
    PROVE  Min({a, b}) \in Nat /\ Min({a, b}) = IF a <= b THEN a ELSE b
<1>1. \E x \in {a, b} : \A y \in {a, b} : x =< y
  OBVIOUS
<1>2. Min({a, b}) \in {a, b} /\ \A y \in {a, b} : Min({a, b}) =< y
  BY <1>1, Zenon DEF Min
<1> QED BY <1>2

LEMMA ObservationIs ==
    ASSUME NEW s \in TrackRows, NEW now \in Nat
    PROVE  /\ NextObservation(s, now) \in Nat
           /\ NextObservation(s, now) < SilentFrom(s) => NextObservation(s, now) >= now + CheckEvery
<1>1. SilentFrom(s) \in Nat /\ CheckEvery \in Nat
  BY SilenceIs, TrackSorts
<1>2. PICK due \in Nat : due = Min({now + CheckEvery, SilentFrom(s)})
                         /\ due = IF now + CheckEvery <= SilentFrom(s) THEN now + CheckEvery
                                  ELSE SilentFrom(s)
  BY <1>1, MinOfTwo
<1>3. Max({now, due}) \in Nat /\ Max({now, due}) = IF now >= due THEN now ELSE due
  BY MaxOfTwo
<1>4. NextObservation(s, now) = Max({now, due})
  BY <1>2 DEF NextObservation
<1>5. PICK end \in Nat, next \in Nat, every \in Nat :
        end = SilentFrom(s) /\ next = NextObservation(s, now) /\ every = CheckEvery
  BY <1>1, <1>3, <1>4
<1>6. next = IF now >= due THEN now ELSE due
  BY <1>3, <1>4, <1>5
<1>7. due = IF now + every <= end THEN now + every ELSE end
  BY <1>2, <1>5
<1>8. next < end => next >= now + every
  BY ONLY <1>6, <1>7, now \in Nat, due \in Nat, end \in Nat, next \in Nat, every \in Nat
<1> QED BY <1>5, <1>8

\* With an agreed poll a first check waits for it.
LEMMA DueIs ==
    ASSUME NEW s \in TrackRows, s.next # NoTime, NEW o \in Nat, o >= CheckDueAt(s)
    PROVE  /\ o >= SilentFrom(s) \/ o >= s.next
           /\ s.checks = 0 /\ s.boot # NoTime => o >= s.boot
<1>1. SilentFrom(s) \in Nat /\ s.next \in Nat /\ s.boot \in Nat \cup {NoTime}
  BY SilenceIs DEF TrackRows
<1>2. PICK due \in Nat : due = Min({s.next, SilentFrom(s)})
                         /\ due = IF s.next <= SilentFrom(s) THEN s.next ELSE SilentFrom(s)
  BY <1>1, MinOfTwo
<1>3. CheckDueAt(s) = IF s.checks = 0 THEN Max(Known({due, s.boot})) ELSE due
  BY <1>2 DEF CheckDueAt
<1>4. CASE s.checks = 0 /\ s.boot # NoTime
  <2>1. Known({due, s.boot}) = {due, s.boot}
    BY <1>1, <1>2, <1>4, TrackSorts DEF Known
  <2>2. Max({due, s.boot}) \in Nat /\ Max({due, s.boot}) = IF due >= s.boot THEN due ELSE s.boot
    BY <1>1, <1>4, MaxOfTwo
  <2> QED BY <1>1, <1>2, <1>3, <1>4, <2>1, <2>2
<1>5. CASE s.checks = 0 /\ s.boot = NoTime
  <2>1. Known({due, s.boot}) = {due, due}
    BY <1>1, <1>2, <1>5, TrackSorts DEF Known
  <2>2. Max({due, due}) = due
    BY MaxOfTwo
  <2> QED BY <1>1, <1>2, <1>3, <1>5, <2>1, <2>2
<1>6. CASE s.checks # 0
  BY <1>1, <1>2, <1>3, <1>6
<1> QED BY <1>4, <1>5, <1>6

----
(* What an event leaves. *)

SameClock(row, s) ==
    /\ row.sent = s.sent /\ row.read = s.read /\ row.heard = s.heard /\ row.boot = s.boot
    /\ row.checks = s.checks /\ row.checked = s.checked
SameButEvent(row, s) ==
    /\ SameClock(row, s) /\ row.stage = s.stage /\ row.next = s.next /\ row.refs = s.refs
    /\ row.words = s.words /\ row.reason = s.reason

LEMMA AppliedIs ==
    ASSUME TrackInvariant, NEW t \in Kept, NEW o \in 0 .. moment, NEW kind \in ObservationKinds,
           NEW s \in TrackRows, Apply(t, o, kind, s)
    PROVE  /\ \E row \in TrackRows : /\ tracks' = [tracks EXCEPT ![t] = row]
                                     /\ SameButEvent(row, s) /\ row.at = o
           /\ tracks[t].at <= o /\ UNCHANGED <<sends, messages, moment>>
<1>1. PICK noted \in SUBSET ObservationKinds :
        noted = IF o = tracks[t].at THEN s.noted \cup {kind} ELSE {kind}
  BY DEF TrackRows
<1>2. PICK v \in Nat : v = s.version + 1
  BY DEF TrackRows
<1>3. o \in Nat
  BY DEF TrackInvariant, TrackTypes
<1> DEFINE row == [s EXCEPT !.version = v, !.at = o, !.noted = noted]
<1>4. row \in TrackRows /\ row.at = o /\ SameButEvent(row, s)
  BY <1>3 DEF TrackRows, SameButEvent, SameClock
<1>5. tracks' = [tracks EXCEPT ![t] = row]
  BY <1>1, <1>2 DEF Apply
<1>6. tracks[t].at <= o /\ UNCHANGED <<sends, messages, moment>>
  BY DEF Apply
<1> QED BY <1>4, <1>5, <1>6

\* What a record follows it did before, or nobody does.
FollowsItsOwn(s, t) == \A r \in s.refs : ~Tracked(r, t) \/ (t \in Kept /\ r \in tracks[t].refs)

\* A record that changes alone, follows the sends it did or one nobody follows, and is sound.
LEMMA RowKeeps ==
    ASSUME TrackInvariant, NEW t \in Tracks, NEW row \in TrackRows,
           tracks' = [tracks EXCEPT ![t] = row], UNCHANGED <<sends, messages, moment>>,
           SoundAt(row, row.at), FollowsItsOwn(row, t),
           t \in Kept => CheckInTime(tracks[t], row, row.at)
    PROVE  TrackInvariant' /\ Unhurried
<1>1. TrackTypes'
  BY DEF TrackInvariant, TrackTypes
<1>2. \A u \in Tracks : tracks'[u] = IF u = t THEN row ELSE tracks[u]
  BY DEF TrackInvariant, TrackTypes
<1>3. Kept' \subseteq Kept \cup {t}
  BY <1>2 DEF Kept
<1>4. \A u \in Kept' : SoundAt(tracks'[u], tracks'[u].at)
  BY <1>2, <1>3 DEF TrackInvariant
<1>5. (\A u \in Kept : SoundAt(tracks[u], tracks[u].at))'
  BY <1>4 DEF SoundAt, Timed, HeardLast, OpenUnjudged, PlannedLate, ReplyOfRound, QuietFor,
              SilentFrom, NextDue, FirstDue
<1>6. \A u \in Kept : u # t => row.refs \cap tracks[u].refs = {}
  BY DEF TrackInvariant, SendTrackedOnce, Tracked, FollowsItsOwn
<1>7. SendTrackedOnce'
  BY <1>2, <1>3, <1>6 DEF TrackInvariant, SendTrackedOnce, Kept
<1>8. Unhurried
  <2> SUFFICES ASSUME NEW u \in Kept PROVE CheckInTime(tracks[u], tracks'[u], tracks'[u].at)
    BY DEF Unhurried
  <2>1. CASE u = t
    BY <1>2, <2>1
  <2>2. CASE u # t
    <3>1. tracks'[u] = tracks[u] /\ tracks[u] \in TrackRows
      BY <1>2, <2>2 DEF TrackInvariant, TrackTypes, Kept
    <3> QED BY <3>1 DEF CheckInTime, TrackRows
  <2> QED BY <2>1, <2>2
<1> QED BY <1>1, <1>5, <1>7, <1>8 DEF TrackInvariant

LEMMA EventKeeps ==
    ASSUME TrackInvariant, NEW t \in Kept, NEW o \in 0 .. moment, NEW kind \in ObservationKinds,
           NEW s \in TrackRows, Apply(t, o, kind, s), FollowsItsOwn(s, t),
           tracks[t].at <= o => SoundAt(s, o) /\ CheckInTime(tracks[t], s, o)
    PROVE  TrackInvariant' /\ Unhurried
<1>1. PICK row \in TrackRows : /\ tracks' = [tracks EXCEPT ![t] = row]
                               /\ SameButEvent(row, s) /\ row.at = o
  BY AppliedIs
<1>2. tracks[t].at <= o /\ UNCHANGED <<sends, messages, moment>>
  BY AppliedIs
<1>3. SoundAt(s, o) /\ CheckInTime(tracks[t], s, o)
  BY <1>2
<1>4. SoundAt(row, row.at)
  BY <1>1, <1>3 DEF SameButEvent, SameClock, SoundAt, Timed, HeardLast, OpenUnjudged, PlannedLate,
                    ReplyOfRound, QuietFor, SilentFrom, NextDue, FirstDue
<1>5. CheckInTime(tracks[t], row, row.at)
  BY <1>1, <1>3 DEF SameButEvent, SameClock, CheckInTime
<1>6. FollowsItsOwn(row, t)
  BY <1>1 DEF SameButEvent, FollowsItsOwn
<1>7. t \in Tracks
  BY DEF Kept
<1> QED BY <1>1, <1>2, <1>4, <1>5, <1>6, <1>7, RowKeeps

\* What a command finds of its record.
LEMMA KeptIs ==
    ASSUME TrackInvariant, NEW t \in Kept
    PROVE  /\ tracks[t] \in TrackRows /\ SoundAt(tracks[t], tracks[t].at)
           /\ FollowsItsOwn(tracks[t], t) /\ moment \in Nat
BY DEF TrackInvariant, TrackTypes, Kept, FollowsItsOwn

\* Time alone does not make a record untrue.
LEMMA StaysSound ==
    ASSUME NEW s \in TrackRows, NEW a \in Nat, NEW o \in Nat, moment \in Nat,
           SoundAt(s, a), a <= o, o <= moment, TrackTypes
    PROVE  SoundAt(s, o)
<1>1. Timed(s, o)
  BY DEF SoundAt, Timed, TrackRows
<1>2. QuietFor(s, o)
  <2> SUFFICES ASSUME s.reason = "silence",
                      NEW life \in Known({s.sent, s.read} \cup {messages[m].received : m \in s.words})
               PROVE  life + SilenceTicks <= o
    BY DEF QuietFor
  <2>1. life + SilenceTicks <= a
    BY DEF SoundAt, QuietFor
  <2>2. life \in Nat
    <3>1. \A m \in s.words : messages[m].received \in Nat
      <4>1. \A m \in s.words : messages[m] \in [received : Nat, recorded : Nat, says : STRING]
        BY LettersTyped DEF SoundAt, HeardLast
      <4> QED BY <4>1
    <3> QED BY <3>1 DEF Known, TrackRows
  <2> QED BY <2>1, <2>2, TrackSorts
<1> QED BY <1>1, <1>2 DEF SoundAt

\* A record with the same clock and the same course, planned late, is as sound.
SameCourse(s, old) ==
    /\ SameClock(s, old) /\ s.stage = old.stage /\ s.refs = old.refs
    /\ s.words = old.words /\ s.reason = old.reason

LEMMA CourseKeeps ==
    ASSUME TrackInvariant, NEW t \in Kept, NEW o \in 0 .. moment, NEW kind \in ObservationKinds,
           NEW s \in TrackRows, Apply(t, o, kind, s), SameCourse(s, tracks[t]), PlannedLate(s)
    PROVE  TrackInvariant' /\ Unhurried
<1> DEFINE old == tracks[t]
<1>1. /\ old \in TrackRows /\ SoundAt(old, old.at) /\ FollowsItsOwn(old, t) /\ moment \in Nat
      /\ TrackTypes
  BY KeptIs DEF TrackInvariant
<1>2. FollowsItsOwn(s, t)
  BY <1>1 DEF FollowsItsOwn, SameCourse
<1>3. ASSUME old.at <= o PROVE SoundAt(s, o) /\ CheckInTime(old, s, o)
  <2>1. old.at \in Nat /\ o \in Nat /\ o <= moment
    BY <1>1 DEF TrackRows
  <2>2. SoundAt(old, o)
    BY <1>1, <1>3, <2>1, StaysSound
  <2>3. SoundAt(s, o)
    BY <2>2 DEF SoundAt, Timed, HeardLast, OpenUnjudged, ReplyOfRound, QuietFor, SameCourse, SameClock
  <2>4. s.checks = old.checks /\ old.checks \in Nat
    BY <1>1 DEF SameCourse, SameClock, TrackRows
  <2> QED BY <2>3, <2>4 DEF CheckInTime
<1> QED BY <1>2, <1>3, EventKeeps

LEMMA AnomalyKeeps ==
    ASSUME TrackInvariant, NEW t \in Tracks, NEW o \in 0 .. moment,
           Anomaly(t, o) \/ Suspected(t, o)
    PROVE  TrackInvariant' /\ Unhurried
<1> DEFINE old == tracks[t]
<1>1. t \in Kept
  BY DEF Anomaly, Suspected, Unpaused, Running
<1>2. old \in TrackRows /\ SoundAt(old, old.at)
  BY <1>1, KeptIs
<1>3. CASE Anomaly(t, o)
  <2> DEFINE s == [old EXCEPT !.paused = TRUE, !.next = NoTime]
  <2>1. s \in TrackRows /\ SameCourse(s, old) /\ s.next = NoTime
    BY <1>2 DEF TrackRows, SameCourse, SameClock
  <2>2. Apply(t, o, "anomaly", s) /\ "anomaly" \in ObservationKinds
    BY <1>3 DEF Anomaly, ObservationKinds
  <2>3. PlannedLate(s)
    BY <2>1 DEF PlannedLate
  <2> QED BY <1>1, <2>1, <2>2, <2>3, CourseKeeps
<1>4. CASE Suspected(t, o)
  <2>1. SameCourse(old, old) /\ PlannedLate(old)
    BY <1>2 DEF SameCourse, SameClock, SoundAt
  <2>2. Apply(t, o, "suspected", old) /\ "suspected" \in ObservationKinds
    BY <1>4 DEF Suspected, ObservationKinds
  <2> QED BY <1>1, <1>2, <2>1, <2>2, CourseKeeps
<1> QED BY <1>3, <1>4

LEMMA ResumeKeeps ==
    ASSUME TrackInvariant, NEW t \in Tracks, NEW o \in 0 .. moment, ResumeTracking(t, o)
    PROVE  TrackInvariant' /\ Unhurried
<1> DEFINE old == tracks[t]
           again == NextObservation(old, moment)
<1>1. t \in Kept
  BY DEF ResumeTracking, Running
<1>2. old \in TrackRows /\ SoundAt(old, old.at) /\ moment \in Nat
  BY <1>1, KeptIs
<1>3. again \in Nat /\ (again < SilentFrom(old) => again >= moment + CheckEvery)
  BY <1>2, ObservationIs
<1>4. PICK next \in Nat : /\ next = IF old.checks = 0 THEN Max(Known({again, old.boot})) ELSE again
                          /\ next = again \/ (old.checks = 0 /\ old.boot # NoTime)
  <2>1. CASE old.checks = 0 /\ old.boot # NoTime
    <3>1. old.boot \in Nat /\ Known({again, old.boot}) = {again, old.boot}
      BY <1>2, <1>3, <2>1, TrackSorts DEF TrackRows, Known
    <3>2. Max({again, old.boot}) \in Nat
      BY <1>3, <3>1, MaxOfTwo
    <3> QED BY <2>1, <3>1, <3>2
  <2>2. CASE old.checks = 0 /\ old.boot = NoTime
    <3>1. Known({again, old.boot}) = {again, again}
      BY <1>3, <2>2, TrackSorts DEF Known
    <3>2. Max({again, again}) = again
      BY <1>3, MaxOfTwo
    <3> QED BY <1>3, <2>2, <3>1, <3>2
  <2>3. CASE old.checks # 0
    BY <1>3, <2>3
  <2> QED BY <2>1, <2>2, <2>3
<1> DEFINE s == [old EXCEPT !.paused = FALSE, !.next = next]
<1>5. s \in TrackRows /\ SameCourse(s, old) /\ s.next = next
  BY <1>2 DEF TrackRows, SameCourse, SameClock
<1>6. Apply(t, o, "resume", s) /\ "resume" \in ObservationKinds
  BY <1>4 DEF ResumeTracking, ObservationKinds
<1>7. PlannedLate(s)
  <2> SUFFICES ASSUME next < SilentFrom(old), next = again
               PROVE  next >= NextDue(s) \/ (old.checks = 0 /\ old.boot # NoTime)
    BY <1>4, <1>5 DEF PlannedLate, SameCourse, SameClock, SilentFrom
  <2>1. next >= moment + CheckEvery
    BY <1>3
  <2>2. Timed(old, old.at) /\ old.at \in Nat /\ old.sent \in Nat /\ old.checked \in Nat \cup {NoTime}
    BY <1>2 DEF SoundAt, TrackRows
  <2>3. NextDue(s) = NextDue(old)
    BY <1>5 DEF NextDue, FirstDue, SameCourse, SameClock
  <2> QED BY <1>2, <2>1, <2>2, <2>3, TrackSorts DEF NextDue, FirstDue, Timed
<1> HIDE DEF s
<1> QED BY <1>1, <1>5, <1>6, <1>7, CourseKeeps

\* A record closed for another reason than silence claims nothing.
LEMMA CloseKeeps ==
    ASSUME TrackInvariant, NEW t \in Kept, NEW o \in 0 .. moment, NEW kind \in ObservationKinds,
           NEW reason \in {"ended", "job_closed", "rejected"},
           Apply(t, o, kind, CloseFor(tracks[t], reason))
    PROVE  TrackInvariant' /\ Unhurried
<1> DEFINE old == tracks[t]
<1>1. /\ old \in TrackRows /\ SoundAt(old, old.at) /\ FollowsItsOwn(old, t) /\ moment \in Nat
  BY KeptIs
<1>2. PICK s : s = CloseFor(old, reason)
  OBVIOUS
<1>3. /\ s \in TrackRows /\ SameClock(s, old) /\ s.refs = old.refs /\ s.words = old.words
      /\ s.stage = "closed" /\ s.reason = reason /\ s.next = NoTime
  BY <1>1, <1>2 DEF CloseFor, TrackRows, SameClock
<1>4. FollowsItsOwn(s, t)
  BY <1>1, <1>3 DEF FollowsItsOwn
<1>5. ASSUME old.at <= o PROVE SoundAt(s, o) /\ CheckInTime(old, s, o)
  <2>1. old.at \in Nat /\ o \in Nat /\ o <= moment /\ old.sent \in Nat /\ old.checks \in Nat
        /\ old.checked \in Nat \cup {NoTime}
    BY <1>1 DEF TrackRows
  <2>2. Timed(s, o)
    BY <1>1, <1>3, <1>5, <2>1 DEF SoundAt, Timed, SameClock
  <2>3. HeardLast(s)
    BY <1>1, <1>3 DEF SoundAt, HeardLast, SameClock
  <2>4. OpenUnjudged(s) /\ PlannedLate(s) /\ ReplyOfRound(s) /\ QuietFor(s, o)
    BY <1>3 DEF OpenUnjudged, PlannedLate, ReplyOfRound, QuietFor
  <2> QED BY <1>3, <2>1, <2>2, <2>3, <2>4 DEF SoundAt, CheckInTime, SameClock
<1> QED BY <1>2, <1>3, <1>4, <1>5, EventKeeps

LEMMA EndsKeep ==
    ASSUME TrackInvariant, NEW t \in Tracks, NEW o \in 0 .. moment,
           OwnerEnds(t, o) \/ JobClosed(t, o) \/ \E m \in DOMAIN messages : Declined(t, o, m)
    PROVE  TrackInvariant' /\ Unhurried
<1>1. t \in Kept
  BY DEF OwnerEnds, JobClosed, Declined, Unpaused, Running
<1>2. {"ended", "job_closed", "employer_rejected"} \subseteq ObservationKinds
  BY DEF ObservationKinds
<1>3. CASE OwnerEnds(t, o)
  BY <1>1, <1>2, <1>3, CloseKeeps DEF OwnerEnds
<1>4. CASE JobClosed(t, o)
  BY <1>1, <1>2, <1>4, CloseKeeps DEF JobClosed
<1>5. CASE \E m \in DOMAIN messages : Declined(t, o, m)
  BY <1>1, <1>2, <1>5, CloseKeeps DEF Declined
<1> QED BY <1>3, <1>4, <1>5

\* What is planned from a moment on is a whole interval after what that moment may follow.
LEMMA PlannedFrom ==
    ASSUME NEW s \in TrackRows, NEW o \in Nat, s.next = NextObservation(s, o),
           s.sent <= o, s.checked # NoTime => s.checked <= o, s.checked = NoTime <=> s.checks = 0
    PROVE  PlannedLate(s)
<1>1. s.next \in Nat /\ (s.next < SilentFrom(s) => s.next >= o + CheckEvery)
  BY ObservationIs
<1>2. s.sent \in Nat /\ s.checked \in Nat \cup {NoTime}
  BY DEF TrackRows
<1> QED BY <1>1, <1>2, TrackSorts DEF PlannedLate, NextDue, FirstDue

LEMMA ReceiptKeeps ==
    ASSUME TrackInvariant, NEW t \in Tracks, NEW o \in 0 .. moment, ReadConfirmed(t, o)
    PROVE  TrackInvariant' /\ Unhurried
<1> DEFINE old == tracks[t]
<1>1. t \in Kept /\ old.stage \in TalkStages
  BY DEF ReadConfirmed, Unpaused, Running
<1>2. /\ old \in TrackRows /\ SoundAt(old, old.at) /\ FollowsItsOwn(old, t) /\ moment \in Nat
      /\ o \in Nat
  BY <1>1, KeptIs
<1>3. PICK seen \in TrackRows : seen = [old EXCEPT !.read = o]
  BY <1>2 DEF TrackRows
<1>4. PICK next \in Nat : next = NextObservation(seen, o)
  BY <1>2, ObservationIs
<1>5. PICK s : s = [seen EXCEPT !.next = next]
  OBVIOUS
<1>6. /\ s \in TrackRows /\ s.sent = old.sent /\ s.read = o /\ s.heard = old.heard
      /\ s.checks = old.checks /\ s.checked = old.checked /\ s.refs = old.refs
      /\ s.words = old.words /\ s.stage = old.stage /\ s.reason = old.reason /\ s.next = next
      /\ s.sent = seen.sent /\ s.read = seen.read /\ s.heard = seen.heard
  BY <1>2, <1>3, <1>5 DEF TrackRows
<1>7. Apply(t, o, "read", s) /\ "read" \in ObservationKinds
  BY <1>3, <1>4, <1>5 DEF ReadConfirmed, ObservationKinds
<1>8. FollowsItsOwn(s, t)
  BY <1>2, <1>6 DEF FollowsItsOwn
<1>9. ASSUME old.at <= o PROVE SoundAt(s, o) /\ CheckInTime(old, s, o)
  <2>1. old.at \in Nat /\ o \in Nat /\ o <= moment /\ old.sent \in Nat /\ old.checks \in Nat
        /\ old.checked \in Nat \cup {NoTime}
    BY <1>2 DEF TrackRows
  <2>2. Timed(s, o)
    BY <1>2, <1>6, <1>9, <2>1 DEF SoundAt, Timed
  <2>3. HeardLast(s) /\ ReplyOfRound(s) /\ OpenUnjudged(s)
    BY <1>2, <1>6 DEF SoundAt, HeardLast, ReplyOfRound, OpenUnjudged
  <2>4. NextObservation(s, o) = NextObservation(seen, o)
    BY <1>6 DEF NextObservation, SilentFrom
  <2>5. PlannedLate(s)
    BY <1>4, <1>6, <2>1, <2>2, <2>4, PlannedFrom DEF Timed
  <2>6. QuietFor(s, o)
    BY <1>1, <1>2, <1>6, TrackSorts DEF SoundAt, OpenUnjudged, QuietFor, TalkStages
  <2> QED BY <1>6, <2>1, <2>2, <2>3, <2>5, <2>6 DEF SoundAt, CheckInTime
<1> QED BY <1>1, <1>6, <1>7, <1>8, <1>9, EventKeeps

LEMMA NothingKeeps ==
    ASSUME TrackInvariant, NEW t \in Tracks, NEW o \in 0 .. moment, NothingHeard(t, o)
    PROVE  TrackInvariant' /\ Unhurried
<1> DEFINE old == tracks[t]
<1>1. t \in Kept /\ old.stage \in TalkStages /\ old.next # NoTime /\ o >= CheckDueAt(old)
  BY DEF NothingHeard, Unpaused, Running
<1>2. /\ old \in TrackRows /\ SoundAt(old, old.at) /\ FollowsItsOwn(old, t) /\ moment \in Nat
      /\ o \in Nat /\ o <= moment
  BY <1>1, KeptIs
<1>3. /\ old.at \in Nat /\ old.sent \in Nat /\ old.checks \in Nat /\ old.next \in Nat
      /\ old.checked \in Nat \cup {NoTime} /\ old.boot \in Nat \cup {NoTime}
  BY <1>1, <1>2 DEF TrackRows
<1>4. PICK times \in Nat : times = old.checks + 1
  BY <1>3
<1>5. PICK seen : seen = [old EXCEPT !.checks = times, !.checked = o]
  OBVIOUS
<1>6. /\ seen \in TrackRows /\ seen.sent = old.sent /\ seen.read = old.read
      /\ seen.heard = old.heard /\ seen.checks = times /\ seen.checked = o
      /\ seen.refs = old.refs /\ seen.words = old.words /\ seen.stage = old.stage
      /\ seen.reason = old.reason
  BY <1>2, <1>5 DEF TrackRows
<1>7. SilentFrom(seen) = SilentFrom(old) /\ SilentFrom(old) \in Nat
  BY <1>2, <1>6, SilenceIs DEF SilentFrom
<1>8. /\ o >= SilentFrom(old) \/ o >= old.next
      /\ old.checks = 0 /\ old.boot # NoTime => o >= old.boot
  BY <1>1, <1>2, DueIs
<1>9. "no_reply" \in ObservationKinds
  BY DEF ObservationKinds
<1>10. CASE o >= SilentFrom(old)
  <2>1. PICK s : s = CloseFor(seen, "silence")
    OBVIOUS
  <2>2. /\ s \in TrackRows /\ s.sent = old.sent /\ s.read = old.read /\ s.heard = old.heard
        /\ s.checks = times /\ s.checked = o /\ s.refs = old.refs /\ s.words = old.words
        /\ s.stage = "closed" /\ s.reason = "silence" /\ s.next = NoTime
    BY <1>6, <2>1 DEF CloseFor, TrackRows
  <2>3. Apply(t, o, "no_reply", s)
    BY <1>4, <1>5, <1>10, <2>1 DEF NothingHeard
  <2>4. FollowsItsOwn(s, t)
    BY <1>2, <2>2 DEF FollowsItsOwn
  <2>5. ASSUME old.at <= o PROVE SoundAt(s, o) /\ CheckInTime(old, s, o)
    <3>1. o # NoTime /\ times # 0
      BY <1>2, <1>3, <1>4, TrackSorts
    <3>2. Timed(s, o)
      BY <1>2, <1>3, <2>2, <2>5, <3>1 DEF SoundAt, Timed
    <3>3. HeardLast(s)
      BY <1>2, <2>2 DEF SoundAt, HeardLast
    <3>4. QuietFor(s, o)
      <4> SUFFICES ASSUME NEW life \in Known({s.sent, s.read} \cup {messages[m].received : m \in s.words})
                   PROVE  life + SilenceTicks <= o
        BY DEF QuietFor
      <4>1. old.heard \in Nat \cup {NoTime} /\ SilenceTicks \in Nat
        BY <1>2, TrackSorts DEF TrackRows
      <4>2. CASE life \in {old.sent, old.read} /\ life # NoTime
        <5>1. life \in Nat
          BY <1>2, <4>2 DEF TrackRows
        <5>2. SilentFrom(old) >= life + SilenceTicks
          BY <1>2, <4>2, SilenceIs
        <5> QED BY <1>2, <1>7, <1>10, <4>1, <5>1, <5>2
      <4>3. CASE \E m \in old.words : life = messages[m].received
        <5>1. PICK m \in old.words : life = messages[m].received
          BY <4>3
        <5>2. m \in DOMAIN messages /\ old.heard # NoTime /\ life <= old.heard
          BY <1>2, <5>1 DEF SoundAt, HeardLast
        <5>3. messages[m] \in [received : Nat, recorded : Nat, says : STRING]
          BY <5>2, LettersTyped DEF TrackInvariant
        <5>4. life \in Nat /\ old.heard \in Nat
          BY <4>1, <5>1, <5>2, <5>3
        <5>5. SilentFrom(old) >= old.heard + SilenceTicks
          BY <1>2, <5>2, SilenceIs
        <5> QED BY <1>2, <1>7, <1>10, <4>1, <5>2, <5>4, <5>5
      <4> QED BY <2>2, <4>2, <4>3 DEF Known
    <3>5. OpenUnjudged(s) /\ PlannedLate(s) /\ ReplyOfRound(s)
      BY <2>2 DEF OpenUnjudged, PlannedLate, ReplyOfRound
    <3> QED BY <2>2, <3>2, <3>3, <3>4, <3>5 DEF SoundAt, CheckInTime
  <2> QED BY <1>1, <1>9, <2>2, <2>3, <2>4, <2>5, EventKeeps
<1>11. CASE o < SilentFrom(old)
  <2>1. PICK next \in Nat : next = NextObservation(seen, o)
    BY <1>2, <1>6, ObservationIs
  <2>2. PICK s : s = [seen EXCEPT !.next = next]
    OBVIOUS
  <2>3. /\ s \in TrackRows /\ s.sent = old.sent /\ s.read = old.read /\ s.heard = old.heard
        /\ s.checks = times /\ s.checked = o /\ s.refs = old.refs /\ s.words = old.words
        /\ s.stage = old.stage /\ s.reason = old.reason /\ s.next = next
    BY <1>6, <2>2 DEF TrackRows
  <2>4. Apply(t, o, "no_reply", s)
    <3>1. ~(o >= SilentFrom(old))
      BY <1>2, <1>7, <1>11
    <3>2. seen = [old EXCEPT !.checks = @ + 1, !.checked = o]
      BY <1>4, <1>5
    <3>3. NextObservation(old, o) = next
      BY <1>6, <2>1 DEF NextObservation, SilentFrom
    <3> QED BY <2>2, <3>1, <3>2, <3>3 DEF NothingHeard
  <2>5. FollowsItsOwn(s, t)
    BY <1>2, <2>3 DEF FollowsItsOwn
  <2>6. ASSUME old.at <= o PROVE SoundAt(s, o) /\ CheckInTime(old, s, o)
    <3>1. o # NoTime /\ times # 0
      BY <1>2, <1>3, <1>4, TrackSorts
    <3>2. Timed(s, o)
      BY <1>2, <1>3, <2>3, <2>6, <3>1 DEF SoundAt, Timed
    <3>3. HeardLast(s) /\ ReplyOfRound(s) /\ OpenUnjudged(s)
      BY <1>2, <2>3 DEF SoundAt, HeardLast, ReplyOfRound, OpenUnjudged
    <3>4. NextObservation(s, o) = NextObservation(seen, o)
      BY <1>6, <2>3 DEF NextObservation, SilentFrom
    <3>5. PlannedLate(s)
      BY <1>2, <2>1, <2>3, <3>2, <3>4, PlannedFrom DEF Timed
    <3>6. QuietFor(s, o)
      BY <1>1, <1>2, <2>3, TrackSorts DEF SoundAt, OpenUnjudged, QuietFor, TalkStages
    <3>7. o >= NextDue(old)
      <4>1. o >= old.next
        BY <1>2, <1>7, <1>8, <1>11
      <4>2. old.next < SilentFrom(old)
        BY <1>2, <1>3, <1>7, <1>11, <4>1
      <4>3. old.next >= NextDue(old) \/ (old.checks = 0 /\ old.boot # NoTime)
        BY <1>1, <1>2, <4>2 DEF SoundAt, PlannedLate
      <4>4. NextDue(old) \in Nat
        <5>1. CheckEvery \in Nat
          BY TrackSorts
        <5>2. CASE old.checked # NoTime
          BY <1>3, <5>1, <5>2 DEF NextDue
        <5>3. CASE old.checked = NoTime
          BY <1>3, <5>1, <5>3 DEF NextDue, FirstDue
        <5> QED BY <5>2, <5>3
      <4>5. CASE old.next >= NextDue(old)
        BY <1>2, <1>3, <4>1, <4>4, <4>5
      <4>6. CASE old.checks = 0 /\ old.boot # NoTime
        <5>1. old.checked = NoTime
          BY <1>2, <4>6 DEF SoundAt, Timed
        <5>2. NextDue(old) = old.boot
          BY <4>6, <5>1 DEF NextDue, FirstDue
        <5> QED BY <1>8, <4>6, <5>2
      <4> QED BY <4>3, <4>5, <4>6
    <3> QED BY <3>2, <3>3, <3>5, <3>6, <3>7 DEF SoundAt, CheckInTime
  <2> QED BY <1>1, <1>9, <2>3, <2>4, <2>5, <2>6, EventKeeps
<1> QED BY <1>2, <1>7, <1>10, <1>11

LEMMA SpokenIs ==
    ASSUME NEW h \in Nat \cup {NoTime}, NEW r \in Nat
    PROVE  /\ Max(Known({h, r})) \in Nat /\ Max(Known({h, r})) >= r
           /\ h # NoTime => Max(Known({h, r})) >= h
<1>1. CASE h = NoTime
  <2>1. Known({h, r}) = {r, r}
    BY <1>1, TrackSorts DEF Known
  <2>2. Max({r, r}) \in Nat /\ Max({r, r}) = r
    BY MaxOfTwo
  <2> QED BY <1>1, <2>1, <2>2
<1>2. CASE h # NoTime
  <2>1. Known({h, r}) = {h, r} /\ h \in Nat
    BY <1>2, TrackSorts DEF Known
  <2> QED BY <2>1, MaxOfTwo
<1> QED BY <1>1, <1>2

LEMMA AnsweredKeeps ==
    ASSUME TrackInvariant, NEW t \in Tracks, NEW o \in 0 .. moment, NEW m \in DOMAIN messages,
           NEW kind \in MessageKinds, Answered(t, o, m, kind)
    PROVE  TrackInvariant' /\ Unhurried
<1> DEFINE old == tracks[t]
           stage == StageAfter(old, kind, messages[m].says)
<1>1. t \in Kept /\ old.stage \in TalkStages /\ Matches(old, m, o) /\ kind \in ObservationKinds
  BY DEF Answered, Unpaused, Running, ObservationKinds
<1>2. /\ old \in TrackRows /\ SoundAt(old, old.at) /\ FollowsItsOwn(old, t) /\ moment \in Nat
      /\ o \in Nat /\ o <= moment
  BY <1>1, KeptIs
<1>3. /\ old.at \in Nat /\ old.sent \in Nat /\ old.checks \in Nat
      /\ old.checked \in Nat \cup {NoTime} /\ old.heard \in Nat \cup {NoTime}
      /\ old.words \in SUBSET Nat
  BY <1>2 DEF TrackRows
<1>4. m \in Nat /\ messages[m] \in [received : Nat, recorded : Nat, says : STRING]
  BY LettersTyped DEF TrackInvariant
<1>5. PICK r \in Nat : r = messages[m].received /\ old.sent <= r
  BY <1>1, <1>3, <1>4 DEF Matches
<1>6. PICK heard \in Nat : /\ heard = Max(Known({old.heard, r})) /\ heard >= r
                           /\ old.heard # NoTime => heard >= old.heard
  BY <1>3, SpokenIs
<1>7. PICK said \in SUBSET Nat : said = old.words \cup {m}
  BY <1>3, <1>4
<1>8. stage # "refused" => stage \in TalkStages
  BY <1>1 DEF StageAfter, TalkStages
<1>9. PICK spoken : spoken = [old EXCEPT !.heard = heard, !.words = said, !.stage = stage]
  OBVIOUS
<1>10. /\ spoken.stage = stage
       /\ spoken.stage # "refused" => Apply(t, o, kind, [spoken EXCEPT !.next = NextObservation(spoken, o)])
       /\ spoken.stage # "refused"
  <2>1. spoken = [old EXCEPT !.heard = Max(Known({@, messages[m].received})),
                             !.words = @ \cup {m}, !.stage = stage]
    BY <1>5, <1>6, <1>7, <1>9
  <2>2. spoken.stage = stage
    BY <1>2, <1>9 DEF TrackRows
  <2> QED BY <2>1, <2>2 DEF Answered
<1>11. stage \in TalkStages
  BY <1>8, <1>10
<1>12. /\ spoken \in TrackRows /\ spoken.sent = old.sent /\ spoken.read = old.read
       /\ spoken.heard = heard /\ spoken.checks = old.checks /\ spoken.checked = old.checked
       /\ spoken.refs = old.refs /\ spoken.words = said /\ spoken.reason = old.reason
  <2> HIDE DEF stage
  <2> QED BY <1>2, <1>9, <1>11 DEF TrackRows
<1> HIDE DEF stage
<1>13. PICK next \in Nat : next = NextObservation(spoken, o)
  BY <1>2, <1>12, ObservationIs
<1>14. PICK s : s = [spoken EXCEPT !.next = next]
  OBVIOUS
<1>15. /\ s \in TrackRows /\ s.sent = old.sent /\ s.read = old.read /\ s.heard = heard
       /\ s.checks = old.checks /\ s.checked = old.checked /\ s.refs = old.refs
       /\ s.words = said /\ s.stage = stage /\ s.reason = old.reason /\ s.next = next
  BY <1>10, <1>12, <1>14 DEF TrackRows
<1>16. Apply(t, o, kind, s)
  BY <1>10, <1>13, <1>14
<1>17. FollowsItsOwn(s, t)
  BY <1>2, <1>15 DEF FollowsItsOwn
<1>18. old.reason = NoTime
  BY <1>1, <1>2 DEF SoundAt, OpenUnjudged, TalkStages
<1>19. ASSUME old.at <= o PROVE SoundAt(s, o) /\ CheckInTime(old, s, o)
  <2>1. Timed(s, o)
    BY <1>2, <1>3, <1>15, <1>19 DEF SoundAt, Timed
  <2>2. HeardLast(s)
    <3> SUFFICES ASSUME NEW w \in said
                 PROVE  w \in DOMAIN messages /\ heard # NoTime /\ messages[w].received <= heard
      BY <1>15 DEF HeardLast
    <3>1. heard # NoTime
      BY TrackSorts
    <3>2. CASE w = m
      BY <1>5, <1>6, <3>1, <3>2
    <3>3. CASE w \in old.words
      <4>1. w \in DOMAIN messages /\ old.heard # NoTime /\ messages[w].received <= old.heard
        BY <1>2, <3>3 DEF SoundAt, HeardLast
      <4>2. messages[w] \in [received : Nat, recorded : Nat, says : STRING]
        BY <4>1, LettersTyped DEF TrackInvariant
      <4> QED BY <1>3, <1>6, <3>1, <4>1, <4>2
    <3> QED BY <1>7, <3>2, <3>3
  <2>3. ReplyOfRound(s)
    <3>1. m \in s.words /\ messages[m].received >= s.sent
      BY <1>3, <1>5, <1>7, <1>15
    <3> QED BY <3>1 DEF ReplyOfRound
  <2>4. OpenUnjudged(s) /\ QuietFor(s, o)
    BY <1>15, <1>18, TrackSorts DEF OpenUnjudged, QuietFor
  <2>5. NextObservation(s, o) = NextObservation(spoken, o)
    BY <1>12, <1>15 DEF NextObservation, SilentFrom
  <2>6. PlannedLate(s)
    BY <1>2, <1>13, <1>15, <2>1, <2>5, PlannedFrom DEF Timed
  <2> QED BY <1>3, <1>15, <2>1, <2>2, <2>3, <2>4, <2>6 DEF SoundAt, CheckInTime
<1> QED BY <1>1, <1>15, <1>16, <1>17, <1>19, EventKeeps

LEMMA ReplySentKeeps ==
    ASSUME TrackInvariant, NEW t \in Tracks, NEW o \in 0 .. moment, NEW r \in DOMAIN sends,
           ReplySent(t, o, r)
    PROVE  TrackInvariant' /\ Unhurried
<1> DEFINE old == tracks[t]
           stage == IF old.stage = "replied" THEN "awaiting" ELSE old.stage
<1>1. /\ t \in Kept /\ old.stage \in TalkStages /\ ~Tracked(r, t)
      /\ sends[r].at \in old.sent .. o
  BY DEF ReplySent, Unpaused, Running
<1>2. /\ old \in TrackRows /\ SoundAt(old, old.at) /\ FollowsItsOwn(old, t) /\ moment \in Nat
      /\ o \in Nat /\ o <= moment
  BY <1>1, KeptIs
<1>3. r \in Nat /\ sends[r] \in [at : Nat, reply : BOOLEAN]
  BY LettersTyped DEF TrackInvariant
<1>4. PICK at \in Nat : at = sends[r].at /\ at <= o
  BY <1>1, <1>2, <1>3
<1>5. PICK next \in Nat : next = at + CheckEvery
  BY TrackSorts
<1>6. PICK refs \in SUBSET Nat : refs = old.refs \cup {r}
  BY <1>2, <1>3 DEF TrackRows
<1>7. stage \in TalkStages /\ stage # "replied"
  BY <1>1 DEF TalkStages
<1>8. Apply(t, o, "reply_sent",
            [old EXCEPT !.stage = stage, !.sent = at, !.boot = NoTime, !.checks = 0,
                        !.checked = NoTime, !.read = NoTime, !.heard = NoTime, !.words = {},
                        !.next = next, !.refs = refs])
  BY <1>4, <1>5, <1>6 DEF ReplySent
<1> HIDE DEF stage
<1>9. PICK s : s = [old EXCEPT !.stage = stage, !.sent = at, !.boot = NoTime, !.checks = 0,
                               !.checked = NoTime, !.read = NoTime, !.heard = NoTime, !.words = {},
                               !.next = next, !.refs = refs]
  OBVIOUS
<1>10. /\ s \in TrackRows /\ s.sent = at /\ s.boot = NoTime /\ s.checks = 0 /\ s.checked = NoTime
       /\ s.read = NoTime /\ s.heard = NoTime /\ s.words = {} /\ s.next = next /\ s.refs = refs
       /\ s.stage = stage /\ s.reason = old.reason
  BY <1>2, <1>7, <1>9 DEF TrackRows
<1>11. FollowsItsOwn(s, t)
  BY <1>1, <1>2, <1>6, <1>10 DEF FollowsItsOwn
<1>12. old.reason = NoTime
  BY <1>1, <1>2 DEF SoundAt, OpenUnjudged, TalkStages
<1>13. SoundAt(s, o) /\ CheckInTime(old, s, o)
  <2>1. Timed(s, o) /\ HeardLast(s)
    BY <1>2, <1>4, <1>10 DEF Timed, HeardLast
  <2>2. OpenUnjudged(s) /\ QuietFor(s, o) /\ ReplyOfRound(s)
    BY <1>7, <1>10, <1>12, TrackSorts DEF OpenUnjudged, QuietFor, ReplyOfRound
  <2>3. NextDue(s) = next
    BY <1>5, <1>10 DEF NextDue, FirstDue
  <2>4. PlannedLate(s)
    BY <1>10, <2>3 DEF PlannedLate
  <2>5. old.checks \in Nat
    BY <1>2 DEF TrackRows
  <2> QED BY <1>10, <2>1, <2>2, <2>4, <2>5 DEF SoundAt, CheckInTime
<1>14. "reply_sent" \in ObservationKinds
  BY DEF ObservationKinds
<1> QED BY <1>1, <1>8, <1>9, <1>10, <1>11, <1>13, <1>14, EventKeeps

LEMMA TrackStartKeeps ==
    ASSUME TrackInvariant, NEW t \in Tracks, NEW r \in DOMAIN sends,
           NEW boot \in {NoTime, moment + 1}, Start(t, r, boot)
    PROVE  TrackInvariant' /\ Unhurried
<1>1. moment \in Nat /\ r \in Nat /\ sends[r] \in [at : Nat, reply : BOOLEAN]
  BY LettersTyped DEF TrackInvariant, TrackTypes
<1>2. PICK at \in Nat : at = sends[r].at /\ at <= moment
  BY <1>1 DEF Start
<1>3. PICK next \in Nat : next = IF boot # NoTime THEN boot ELSE at + CheckEvery
  BY <1>1, TrackSorts
<1>4. PICK row : row =
           [stage |-> "awaiting", sent |-> at, read |-> NoTime, heard |-> NoTime,
            boot |-> boot, next |-> next, checks |-> 0, checked |-> NoTime, refs |-> {r},
            words |-> {}, paused |-> FALSE, reason |-> NoTime, at |-> moment, noted |-> {},
            version |-> 2]
  OBVIOUS
<1>5. /\ row.sent = at /\ row.boot = boot /\ row.checks = 0 /\ row.checked = NoTime
      /\ row.words = {} /\ row.next = next /\ row.refs = {r} /\ row.stage = "awaiting"
      /\ row.reason = NoTime /\ row.at = moment
  BY <1>4
<1>6. row \in TrackRows
  <2>1. boot \in Nat \cup {NoTime} /\ {r} \in SUBSET Nat /\ "awaiting" \in TalkStages
    BY <1>1 DEF TalkStages
  <2> QED BY <1>1, <1>4, <2>1 DEF TrackRows
<1>7. tracks' = [tracks EXCEPT ![t] = row] /\ UNCHANGED <<sends, messages, moment>>
  BY <1>2, <1>3, <1>4 DEF Start
<1>8. t \notin Kept /\ ~Tracked(r, t)
  BY DEF Start, Kept
<1>9. SoundAt(row, row.at)
  <2>1. Timed(row, row.at) /\ HeardLast(row)
    BY <1>1, <1>2, <1>5 DEF Timed, HeardLast
  <2>2. OpenUnjudged(row) /\ QuietFor(row, row.at) /\ ReplyOfRound(row)
    BY <1>5, TrackSorts DEF OpenUnjudged, QuietFor, ReplyOfRound
  <2>3. NextDue(row) = next
    BY <1>3, <1>5 DEF NextDue, FirstDue
  <2>4. PlannedLate(row)
    BY <1>5, <2>3 DEF PlannedLate
  <2> QED BY <2>1, <2>2, <2>4 DEF SoundAt
<1>10. FollowsItsOwn(row, t)
  BY <1>5, <1>8 DEF FollowsItsOwn
<1> QED BY <1>6, <1>7, <1>8, <1>9, <1>10, RowKeeps

LEMMA TracksStill ==
    ASSUME TrackInvariant, UNCHANGED <<tracks, sends, messages>>, moment' \in Nat, moment <= moment'
    PROVE  TrackInvariant' /\ Unhurried
<1>1. Kept' = Kept /\ TrackTypes' /\ SendTrackedOnce'
  BY DEF Kept, TrackInvariant, TrackTypes, SendTrackedOnce
<1>2. ASSUME NEW t \in Kept PROVE SoundAt(tracks[t], tracks[t].at)'
  <2>1. tracks[t] \in TrackRows /\ SoundAt(tracks[t], tracks[t].at) /\ moment \in Nat
    BY KeptIs
  <2>2. tracks[t].at \in Nat
    BY <2>1 DEF TrackRows
  <2> QED BY <2>1, <2>2 DEF SoundAt, Timed, HeardLast, OpenUnjudged, PlannedLate, ReplyOfRound,
              QuietFor, SilentFrom, NextDue, FirstDue
<1>3. Unhurried
  <2> SUFFICES ASSUME NEW t \in Kept PROVE CheckInTime(tracks[t], tracks[t], tracks[t].at)
    BY DEF Unhurried
  <2>1. tracks[t] \in TrackRows
    BY KeptIs
  <2> QED BY <2>1 DEF CheckInTime, TrackRows
<1> QED BY <1>1, <1>2, <1>3 DEF TrackInvariant

LEMMA TracksStep == TrackInvariant /\ [TrackNext]_trackVars => TrackInvariant' /\ Unhurried
<1> SUFFICES ASSUME TrackInvariant, [TrackNext]_trackVars PROVE TrackInvariant' /\ Unhurried
  OBVIOUS
<1>1. CASE AdoptPipeline \/ TrackTick \/ UNCHANGED trackVars
  <2>1. UNCHANGED <<tracks, sends, messages>> /\ moment' \in Nat /\ moment <= moment'
    BY <1>1 DEF AdoptPipeline, TrackTick, trackVars, TrackInvariant, TrackTypes
  <2> QED BY <2>1, TracksStill
<1>2. CASE \E t \in Tracks, r \in DOMAIN sends, boot \in {NoTime, moment + 1} : Start(t, r, boot)
  BY <1>2, TrackStartKeeps
<1>3. ASSUME NEW t \in Tracks, NEW o \in 0 .. moment,
             \/ Anomaly(t, o) \/ ResumeTracking(t, o) \/ OwnerEnds(t, o) \/ JobClosed(t, o)
             \/ Suspected(t, o) \/ ReadConfirmed(t, o) \/ NothingHeard(t, o)
             \/ \E m \in DOMAIN messages :
                    Declined(t, o, m) \/ \E kind \in MessageKinds : Answered(t, o, m, kind)
             \/ \E r \in DOMAIN sends : ReplySent(t, o, r)
      PROVE  TrackInvariant' /\ Unhurried
  BY <1>3, AnomalyKeeps, ResumeKeeps, EndsKeep, ReceiptKeeps, NothingKeeps, AnsweredKeeps, ReplySentKeeps
<1> QED BY <1>1, <1>2, <1>3 DEF TrackNext

\* A record follows its own sends, is answered by what came after them, and is silent only when
\* it was, for any sends and messages, filed at any time (jobs/sent_tracking.py).
THEOREM RecordsTrue == TrackSpec => []TracksTrue
<1>1. TrackInvariant => TracksTrue
  <2> SUFFICES ASSUME TrackInvariant PROVE AnswerOfRound /\ SilenceWasLong
    BY DEF TracksTrue, TrackInvariant
  <2>1. AnswerOfRound
    BY DEF TrackInvariant, SoundAt, ReplyOfRound, AnswerOfRound
  <2>2. SilenceWasLong
    BY DEF TrackInvariant, SoundAt, QuietFor, SilenceWasLong
  <2> QED BY <2>1, <2>2
<1> QED BY TracksStart, TracksStep, <1>1, PTL DEF TrackSpec

\* No check is filed sooner than a whole interval after the one before it, unless the silence has
\* run out (jobs/sent_tracking.py).
THEOREM ChecksNeverCompressed == TrackSpec => ChecksNotCompressed
<1>1. Unhurried <=> (\A t \in Kept : tracks'[t].checks > tracks[t].checks =>
           LET s == tracks[t]
               first == IF s.boot # NoTime THEN s.boot ELSE s.sent + CheckEvery
               planned == IF s.checked = NoTime THEN first ELSE s.checked + CheckEvery
           IN  tracks'[t].at >= planned \/ tracks'[t].reason = "silence")
  BY Zenon DEF Unhurried, CheckInTime, NextDue, FirstDue
<1>2. TrackInvariant /\ [TrackNext]_trackVars =>
        [\A t \in Kept : tracks'[t].checks > tracks[t].checks =>
           LET s == tracks[t]
               first == IF s.boot # NoTime THEN s.boot ELSE s.sent + CheckEvery
               planned == IF s.checked = NoTime THEN first ELSE s.checked + CheckEvery
           IN  tracks'[t].at >= planned \/ tracks'[t].reason = "silence"]_trackVars
  BY TracksStep, <1>1, Zenon
<1> QED BY TracksStart, TracksStep, <1>2, PTL DEF TrackSpec, ChecksNotCompressed

-----------------------------------------------------------------------------
States == {"draft_pending", "greeting_sent", "greeting_read", "initial_contact", "resume_requested",
           "resume_sent", "interview_pending", "interviewed", "abandoned"}
Reasons == {"normal", "employer_rejected"} \cup OwnersReasons \cup Silent
Texts == Wordings \cup {NoFact}
Bindings == [approval : Nat, snapshot : Nat]
RoundRows ==
    [state : States, reason : Reasons, entered : Nat, changed : Nat, updated : Nat,
     proof : {"not_sent", "proof_pending", "verified"}, sentAt : Nat, sentText : Texts, ref : Nat,
     readAt : Nat, heardAt : Nat, resumeAt : Nat, resumeRef : Nat, draft : Texts, snapshot : Nat,
     bound : {NoFact} \cup Bindings, paused : BOOLEAN]
Moves == [from : States \cup {NoFact}, to : States, at : Nat, reason : Reasons]
Paths == Seq(Moves)
Makings == [for : Candidates, number : Nat, at : Nat, snapshot : Nat, draft : Texts]

PipeTypes ==
    /\ facts \in Stories /\ clock \in Nat \ {0}
    /\ intake \in [snapshot : Nat, at : Nat, draft : Texts]
    /\ rounds \in [Candidates -> Seq(RoundRows)] /\ trail \in [Candidates -> Seq(Paths)]
    /\ making \in [Makers -> {NoFact} \cup Makings]

----
(* What a round says, each part of one row. *)

\* What proves it is in use, and what is not proven is not yet known of.
Proven(r) ==
    /\ r.ref # 0 => r.proof = "verified"
    /\ r.state = "draft_pending" => r.proof = "not_sent"
    /\ r.proof # "verified" => r.sentAt = 0 /\ r.heardAt = 0
RefsUsed(r) == (r.ref # 0 => r.ref \in used) /\ (r.resumeRef # 0 => r.resumeRef \in used)

HeardAfter(r) == r.sentAt <= r.updated /\ (r.heardAt # 0 => r.heardAt >= r.sentAt)

SilentLong(r) ==
    r.reason \in Silent =>
        /\ r.state = "abandoned"
        /\ r.proof = "verified" /\ (r.reason = "read_no_reply_2d") = (r.readAt # 0)
        /\ \A t \in {r.sentAt, r.readAt, r.heardAt, r.resumeAt} : r.changed >= t + Silence

Recontacted(n, r) ==
    LET a == facts[r.ref].body
    IN  r.ref # 0 /\ facts[r.ref].kind = "sent" =>
            /\ n > 1 /\ r.entered <= facts[a].body.asked
            /\ r.sentText = facts[a].body.text
            /\ ~\E i \in a .. r.ref : facts[i].kind = "inbound"

BoundCurrent(n, r) ==
    /\ r.bound # NoFact => n > 1
    /\ r.bound # NoFact /\ r.state = "draft_pending" =>
           r.bound.snapshot = r.snapshot /\ r.draft = facts[r.bound.approval].body.text

RoundSound(n, r) ==
    Proven(r) /\ HeardAfter(r) /\ SilentLong(r) /\ Recontacted(n, r) /\ BoundCurrent(n, r)

\* The history of a round leads to it.
PathSound(path, r) ==
    /\ path # <<>> /\ path[1].from = NoFact /\ path[1].to = "draft_pending"
    /\ \A i \in 2 .. Len(path) :
           /\ path[i].from = path[i - 1].to /\ path[i].at >= path[i - 1].at
           /\ <<path[i].from, path[i].to>> \in Edges
    /\ path[Len(path)].to = r.state /\ path[Len(path)].at <= r.updated

RowsSound ==
    \A c \in Candidates :
        /\ Len(trail[c]) = Len(rounds[c])
        /\ \A n \in 1 .. Len(rounds[c]) :
               /\ RoundSound(n, rounds[c][n]) /\ RefsUsed(rounds[c][n])
               /\ PathSound(trail[c][n], rounds[c][n])
               /\ n < Len(rounds[c]) => rounds[c][n].state = "abandoned"

\* No two rounds have a proof in common.
Apart(r, s) == (r.ref # 0 => r.ref # s.ref) /\ (r.resumeRef # 0 => r.resumeRef # s.resumeRef)
Unshared(r, s) == r.ref # 0 => r.ref # s.resumeRef

ProofsApart ==
    \A c, d \in Candidates : \A n \in 1 .. Len(rounds[c]), m \in 1 .. Len(rounds[d]) :
        /\ Unshared(rounds[c][n], rounds[d][m])
        /\ <<c, n>> # <<d, m>> => Apart(rounds[c][n], rounds[d][m])

PipeInvariant == PipeTypes /\ RowsSound /\ ProofsApart

----
(* What the operators of the model return. *)

Less == {pair \in Nat \X Nat : pair[1] < pair[2]}

LEMMA LessWellFounded == IsWellFoundedOn(Less, Nat)
<1>1. OpToRel(<, Nat) = Less
  BY DEF OpToRel, Less
<1> QED BY <1>1, NatLessThanWellFounded, Zenon

LEMMA MaxIs ==
    ASSUME NEW n \in Nat, NEW S \in SUBSET (0 .. n), S # {}
    PROVE  Max(S) \in S /\ \A x \in S : x <= Max(S)
<1> DEFINE T == {n - x : x \in S}
<1>1. T \in SUBSET Nat /\ T # {}
  <2>1. \A x \in S : n - x \in Nat
    OBVIOUS
  <2> QED BY <2>1
<1>3. PICK t \in T : \A x \in T : <<x, t>> \notin Less
  <2> HIDE DEF T
  <2> QED BY <1>1, LessWellFounded, WFMin, Zenon
<1>4. PICK m \in S : t = n - m
  BY <1>3
<1>5. ASSUME NEW x \in S PROVE m >= x
  <2>1. <<n - x, n - m>> \notin Less
    BY <1>3, <1>4
  <2>2. x \in 0 .. n /\ m \in 0 .. n
    OBVIOUS
  <2> QED BY <2>1, <2>2 DEF Less
<1>6. \E x \in S : \A y \in S : x >= y
  BY <1>5
<1>7. Max(S) \in S /\ \A y \in S : Max(S) >= y
  <2> HIDE DEF T
  <2> QED BY <1>6, Zenon DEF Max
<1> QED BY <1>7

\* The facts that are recorded by now are facts of the story.
LEMMA NewestIs ==
    ASSUME PipeTypes, NEW f \in 1 .. Newest
    PROVE  f \in 1 .. Len(facts)
<1> DEFINE S == {0} \cup {i \in DOMAIN facts : facts[i].at <= clock}
<1>1. facts \in Seq(FactRows)
  BY PipelineSorts DEF PipeTypes
<1>2. Len(facts) \in Nat /\ DOMAIN facts = 1 .. Len(facts)
  BY <1>1
<1>3. S \in SUBSET (0 .. Len(facts)) /\ S # {}
  BY <1>2
<1>4. Max(S) \in S
  <2> HIDE DEF S
  <2> QED BY <1>2, <1>3, MaxIs
<1> QED BY <1>2, <1>4 DEF Newest

LEMMA FactIs ==
    ASSUME PipeTypes, NEW f \in 1 .. Len(facts)
    PROVE  /\ facts[f].at \in Nat \ {0} /\ f \in Nat \ {0}
           /\ facts[f].kind = "greeting" => facts[f].body \in Wordings
           /\ facts[f].kind = "inbound" => facts[f].body.received \in Nat
           /\ facts[f].kind = "approved" => facts[f].body.text \in Wordings
<1>1. facts \in Seq(FactRows)
  BY PipelineSorts DEF PipeTypes
<1>2. facts[f] \in FactRows
  BY <1>1, ElementOfSeq
<1>3. PICK fact \in FactRows : fact = facts[f]
  BY <1>2
<1>4. f \in Nat \ {0}
  BY <1>1
<1>5. /\ fact.at \in Nat \ {0}
      /\ fact.kind = "greeting" => fact.body \in Wordings
      /\ fact.kind = "inbound" => fact.body.received \in Nat
      /\ fact.kind = "approved" => fact.body.text \in Wordings
  BY DEF FactRows
<1> QED BY <1>3, <1>4, <1>5

\* A deadline is the silence after the latest of the times.
LEMMA DeadlineIs ==
    ASSUME NEW r \in RoundRows, NEW t \in {r.sentAt, r.readAt, r.heardAt, r.resumeAt}
    PROVE  Deadline(r) \in Nat /\ t + Silence \in Nat /\ Deadline(r) >= t + Silence
<1> DEFINE S == {r.sentAt, r.readAt, r.heardAt, r.resumeAt}
           n == r.sentAt + r.readAt + r.heardAt + r.resumeAt
<1>1. r.sentAt \in Nat /\ r.readAt \in Nat /\ r.heardAt \in Nat /\ r.resumeAt \in Nat
  BY DEF RoundRows
<1>2. n \in Nat /\ S \in SUBSET (0 .. n) /\ S # {} /\ S \subseteq Nat
  BY <1>1
<1>3. Max(S) \in S /\ t <= Max(S)
  <2>1. t \in S
    OBVIOUS
  <2> HIDE DEF S, n
  <2> QED BY <1>2, <2>1, MaxIs
<1>4. Max(S) \in Nat /\ t \in Nat /\ Silence \in Nat
  BY <1>1, <1>3, PipelineSorts
<1>5. Deadline(r) = Max(S) + Silence
  BY DEF Deadline
<1> HIDE DEF S, n
<1> QED BY <1>3, <1>4, <1>5

LEMMA LaterOf ==
    ASSUME NEW a \in Nat, NEW b \in Nat
    PROVE  Max({a, b}) \in Nat /\ Max({a, b}) >= a /\ Max({a, b}) >= b
<1>1. a + b \in Nat /\ {a, b} \in SUBSET (0 .. a + b) /\ {a, b} # {}
  OBVIOUS
<1>2. Max({a, b}) \in {a, b} /\ \A x \in {a, b} : x <= Max({a, b})
  BY <1>1, MaxIs
<1> QED BY <1>2

LEMMA EdgesAre ==
    ASSUME NEW s, NEW t, <<s, t>> \in Edges
    PROVE  /\ s \in States \ {"abandoned"} /\ t \in States \ {"draft_pending"}
           /\ t = "greeting_sent" <=> s = "draft_pending"
<1> QED BY DEF Edges, States

----
(* What a change of one row keeps. *)

\* A proof that the row takes is new, and its state moves along an edge of the graph.
Replaced(c, n, row) == rounds' = [rounds EXCEPT ![c][n] = row]
Prolonged(c, n, s) == trail' = [trail EXCEPT ![c][n] = Append(@, s)]
RefsGrow(old, row) ==
    \/ used' = used /\ row.ref = old.ref /\ row.resumeRef = old.resumeRef
    \/ \E f \in Nat \ {0} :
           /\ f \notin used /\ used' = used \cup {f}
           /\ \/ row.ref = f /\ row.resumeRef = old.resumeRef
              \/ row.ref = old.ref /\ row.resumeRef = f
Moved(c, n, old, row) ==
    \/ trail' = trail /\ row.state = old.state
    \/ \E s \in Moves :
           /\ s.from = old.state /\ s.to = row.state /\ <<s.from, s.to>> \in Edges
           /\ s.at >= old.updated /\ s.at <= row.updated
           /\ Prolonged(c, n, s)

LEMMA TimeOf ==
    /\ \A s \in Moves : s.at \in Nat
    /\ \A path \in Seq(Moves) : \A i \in 1 .. Len(path) : path[i].at \in Nat
<1>1. \A s \in Moves : s.at \in Nat
  BY DEF Moves
<1>2. ASSUME NEW path \in Seq(Moves), NEW i \in 1 .. Len(path) PROVE path[i].at \in Nat
  <2>1. path[i] \in Moves
    BY ElementOfSeq
  <2> QED BY <2>1, <1>1
<1> QED BY <1>1, <1>2

LEMMA PathGrows ==
    ASSUME NEW path \in Paths, NEW old \in RoundRows, NEW row \in RoundRows, NEW s \in Moves,
           PathSound(path, old), s.from = old.state, s.to = row.state, <<s.from, s.to>> \in Edges,
           s.at >= old.updated, s.at <= row.updated
    PROVE  Append(path, s) \in Paths /\ PathSound(Append(path, s), row)
<1> DEFINE new == Append(path, s)
<1>1. path \in Seq(Moves) /\ new \in Seq(Moves) /\ Len(new) = Len(path) + 1 /\ Len(path) \in Nat
  BY DEF Paths
<1>2. Len(path) >= 1 /\ path # <<>>
  BY <1>1 DEF PathSound
<1>3. new[Len(path) + 1] = s /\ \A i \in 1 .. Len(path) : new[i] = path[i]
  BY <1>1
<1>4. old.updated \in Nat /\ s.at \in Nat /\ path[Len(path)].at \in Nat /\ row.updated \in Nat
  <2>1. old.updated \in Nat /\ row.updated \in Nat
    BY DEF RoundRows
  <2>2. s.at \in Nat /\ path[Len(path)].at \in Nat
    BY <1>1, <1>2, TimeOf
  <2> QED BY <2>1, <2>2
<1>5. s.at >= path[Len(path)].at /\ s.from = path[Len(path)].to
  BY <1>4 DEF PathSound
<1>6. ASSUME NEW i \in 2 .. Len(new)
      PROVE  /\ new[i].from = new[i - 1].to /\ new[i].at >= new[i - 1].at
             /\ <<new[i].from, new[i].to>> \in Edges
  <2>1. CASE i = Len(path) + 1
    <3>1. i - 1 = Len(path) /\ new[i] = s /\ new[i - 1] = path[Len(path)]
      BY <2>1, <1>1, <1>2, <1>3
    <3> HIDE DEF new
    <3> QED BY <3>1, <1>5
  <2>2. CASE i # Len(path) + 1
    <3>1. i \in 2 .. Len(path) /\ new[i] = path[i] /\ new[i - 1] = path[i - 1]
      BY <2>2, <1>1, <1>3
    <3> HIDE DEF new
    <3> QED BY <3>1 DEF PathSound
  <2> QED BY <2>1, <2>2
<1>7. new # <<>> /\ new[1] = path[1] /\ new[Len(new)] = s
  BY <1>1, <1>2, <1>3
<1> HIDE DEF new
<1>8. PathSound(new, row)
  BY <1>6, <1>7 DEF PathSound
<1>9. new \in Paths
  BY <1>1 DEF Paths
<1> QED BY <1>8, <1>9 DEF new

LEMMA PathStays ==
    ASSUME NEW path, NEW old \in RoundRows, NEW row \in RoundRows,
           path \in Paths, PathSound(path, old), row.state = old.state, row.updated >= old.updated
    PROVE  PathSound(path, row)
<1>1. path \in Seq(Moves) /\ path # <<>> /\ Len(path) \in Nat
  BY DEF Paths, PathSound
<1>2. path[Len(path)].at \in Nat /\ old.updated \in Nat /\ row.updated \in Nat
  <2>1. old.updated \in Nat /\ row.updated \in Nat
    BY DEF RoundRows
  <2>2. Len(path) \in 1 .. Len(path)
    BY <1>1
  <2>3. path[Len(path)].at \in Nat
    BY <1>1, <2>2, TimeOf
  <2> QED BY <2>1, <2>3
<1>3. path[Len(path)].at <= row.updated
  BY <1>2 DEF PathSound
<1> QED BY <1>3 DEF PathSound

\* The rows of other rounds are as they were.
LEMMA RowsAre ==
    ASSUME PipeTypes, NEW c \in Candidates, NEW n \in 1 .. Len(rounds[c]), NEW row \in RoundRows,
           Replaced(c, n, row)
    PROVE  /\ rounds' \in [Candidates -> Seq(RoundRows)]
           /\ \A d \in Candidates : Len(rounds'[d]) = Len(rounds[d]) /\ DOMAIN rounds'[d] = DOMAIN rounds[d]
           /\ rounds'[c][n] = row
           /\ \A d \in Candidates : \A m \in 1 .. Len(rounds[d]) :
                  <<d, m>> # <<c, n>> => rounds'[d][m] = rounds[d][m]
<1>1. rounds[c] \in Seq(RoundRows) /\ rounds \in [Candidates -> Seq(RoundRows)]
  BY DEF PipeTypes
<1>2. PICK new : new = [rounds[c] EXCEPT ![n] = row]
  OBVIOUS
<1>3. /\ new \in Seq(RoundRows) /\ Len(new) = Len(rounds[c]) /\ new[n] = row
      /\ DOMAIN new = DOMAIN rounds[c]
      /\ \A m \in 1 .. Len(rounds[c]) : m # n => new[m] = rounds[c][m]
  BY <1>1, <1>2, ExceptSeq
<1>4. rounds' = [rounds EXCEPT ![c] = new]
  BY <1>2 DEF Replaced
<1>5. rounds' \in [Candidates -> Seq(RoundRows)] /\ rounds'[c] = new
  BY <1>1, <1>3, <1>4
<1>6. \A d \in Candidates : d # c => rounds'[d] = rounds[d]
  BY <1>1, <1>4
<1> QED BY <1>3, <1>5, <1>6

LEMMA TrailsAre ==
    ASSUME PipeTypes, RowsSound, NEW c \in Candidates, NEW n \in 1 .. Len(rounds[c]), NEW s \in Moves,
           Prolonged(c, n, s), Append(trail[c][n], s) \in Paths
    PROVE  /\ trail' \in [Candidates -> Seq(Paths)]
           /\ \A d \in Candidates : Len(trail'[d]) = Len(trail[d])
           /\ trail'[c][n] = Append(trail[c][n], s)
           /\ \A d \in Candidates : \A m \in 1 .. Len(rounds[d]) :
                  <<d, m>> # <<c, n>> => trail'[d][m] = trail[d][m]
<1>1. trail[c] \in Seq(Paths) /\ trail \in [Candidates -> Seq(Paths)] /\ Len(trail[c]) = Len(rounds[c])
  BY DEF PipeTypes, RowsSound
<1>2. PICK path \in Paths : path = Append(trail[c][n], s)
  OBVIOUS
<1>3. PICK new : new = [trail[c] EXCEPT ![n] = path]
  OBVIOUS
<1>4. /\ new \in Seq(Paths) /\ Len(new) = Len(trail[c]) /\ new[n] = path
      /\ \A m \in 1 .. Len(trail[c]) : m # n => new[m] = trail[c][m]
  BY <1>1, <1>3, ExceptSeq
<1>5. trail' = [trail EXCEPT ![c] = new]
  BY <1>2, <1>3 DEF Prolonged
<1>6. trail' \in [Candidates -> Seq(Paths)] /\ trail'[c] = new
  BY <1>1, <1>4, <1>5
<1>7. \A d \in Candidates : d # c => trail'[d] = trail[d]
  BY <1>1, <1>5
<1> QED BY <1>1, <1>2, <1>4, <1>6, <1>7

\* The facts are as they were, so what is sound by them stays so.
LEMMA SoundStays ==
    ASSUME facts' = facts, NEW n \in Nat, NEW r, RoundSound(n, r)
    PROVE  RoundSound(n, r)'
<1>1. Proven(r)' /\ HeardAfter(r)' /\ SilentLong(r)'
  BY DEF RoundSound, Proven, HeardAfter, SilentLong
<1>2. Recontacted(n, r)'
  <2>1. Recontacted(n, r)
    BY DEF RoundSound
  <2> QED BY <2>1 DEF Recontacted
<1>3. BoundCurrent(n, r)'
  <2>1. BoundCurrent(n, r)
    BY DEF RoundSound
  <2> QED BY <2>1 DEF BoundCurrent
<1> QED BY <1>1, <1>2, <1>3 DEF RoundSound

\* The parts of RowsSound, each row with its path.
RowSoundAt(d, m) ==
    /\ RoundSound(m, rounds[d][m]) /\ RefsUsed(rounds[d][m])
    /\ PathSound(trail[d][m], rounds[d][m])
    /\ m < Len(rounds[d]) => rounds[d][m].state = "abandoned"

LEMMA RowsSoundParts ==
    (\A d \in Candidates : /\ Len(trail[d]) = Len(rounds[d])
                           /\ \A i \in 1 .. Len(rounds[d]) : RowSoundAt(d, i))' => RowsSound'
<1>1. (\A d \in Candidates : /\ Len(trail[d]) = Len(rounds[d])
                             /\ \A i \in 1 .. Len(rounds[d]) : RowSoundAt(d, i)) => RowsSound
  BY Zenon DEF RowsSound, RowSoundAt
<1> QED BY <1>1, PTL

LEMMA RowAtKeeps ==
    ASSUME PipeTypes, RowsSound, NEW c \in Candidates, NEW n \in 1 .. Len(rounds[c]),
           NEW old \in RoundRows, old = rounds[c][n], NEW row \in RoundRows, old.state # "abandoned",
           Replaced(c, n, row), facts' = facts,
           RoundSound(n, row), row.updated >= old.updated, RefsGrow(old, row), Moved(c, n, old, row)
    PROVE  /\ trail' \in [Candidates -> Seq(Paths)]
           /\ RowsSound'
<1>1. PathSound(trail[c][n], old) /\ trail[c][n] \in Paths /\ RefsUsed(old)
  <2>1. Len(trail[c]) = Len(rounds[c]) /\ trail[c] \in Seq(Paths)
    BY DEF RowsSound, PipeTypes
  <2> QED BY <2>1 DEF RowsSound
<1>2. /\ trail' \in [Candidates -> Seq(Paths)]
      /\ \A d \in Candidates : Len(trail'[d]) = Len(trail[d])
      /\ PathSound(trail'[c][n], row)
      /\ \A d \in Candidates : \A m \in 1 .. Len(rounds[d]) :
             <<d, m>> # <<c, n>> => trail'[d][m] = trail[d][m]
  <2>1. CASE trail' = trail /\ row.state = old.state
    <3>1. PathSound(trail[c][n], row)
      BY <1>1, <2>1, PathStays
    <3> QED BY <2>1, <3>1 DEF PipeTypes
  <2>2. CASE ~(trail' = trail /\ row.state = old.state)
    <3>. PICK s \in Moves :
             /\ s.from = old.state /\ s.to = row.state /\ <<s.from, s.to>> \in Edges
             /\ s.at >= old.updated /\ s.at <= row.updated
             /\ Prolonged(c, n, s)
      BY <2>2, Zenon DEF Moved
    <3>1. PICK path \in Paths : path = trail[c][n]
      BY <1>1
    <3>2. Append(path, s) \in Paths /\ PathSound(Append(path, s), row)
      BY <1>1, <3>1, PathGrows
    <3>3. Append(trail[c][n], s) \in Paths /\ PathSound(Append(trail[c][n], s), row)
      BY <3>1, <3>2
    <3>4. /\ trail' \in [Candidates -> Seq(Paths)]
          /\ \A d \in Candidates : Len(trail'[d]) = Len(trail[d])
          /\ trail'[c][n] = Append(trail[c][n], s)
          /\ \A d \in Candidates : \A m \in 1 .. Len(rounds[d]) :
                 <<d, m>> # <<c, n>> => trail'[d][m] = trail[d][m]
      BY <3>3, TrailsAre
    <3> QED BY <3>3, <3>4
  <2> QED BY <2>1, <2>2
<1>3. /\ \A d \in Candidates : Len(rounds'[d]) = Len(rounds[d])
      /\ rounds'[c][n] = row
      /\ \A d \in Candidates : \A m \in 1 .. Len(rounds[d]) :
             <<d, m>> # <<c, n>> => rounds'[d][m] = rounds[d][m]
  BY RowsAre
<1>4. used \subseteq used' /\ RefsUsed(row)'
  BY <1>1 DEF RefsGrow, RefsUsed
<1>5. n = Len(rounds[c])
  <2>1. Len(rounds[c]) \in Nat /\ n \in Nat /\ n <= Len(rounds[c])
    BY DEF PipeTypes
  <2>2. ~(n < Len(rounds[c]))
    BY DEF RowsSound
  <2> QED BY <2>1, <2>2
<1>6. ASSUME NEW d \in Candidates, NEW m \in 1 .. Len(rounds[d]) PROVE RowSoundAt(d, m)'
  <2>1. CASE <<d, m>> = <<c, n>>
    <3>1. d = c /\ m = n /\ n \in Nat
      BY <2>1
    <3>2. RoundSound(n, row)'
      BY <3>1, SoundStays
    <3>3. ~(n < Len(rounds'[c]))
      BY <1>3, <1>5, <3>1
    <3> QED BY <1>2, <1>3, <1>4, <3>1, <3>2, <3>3, Zenon DEF RowSoundAt
  <2>2. CASE <<d, m>> # <<c, n>>
    <3>1. PICK r : r = rounds[d][m]
      OBVIOUS
    <3>2. rounds'[d][m] = r /\ trail'[d][m] = trail[d][m] /\ Len(rounds'[d]) = Len(rounds[d])
      BY <1>2, <1>3, <2>2, <3>1, Zenon
    <3>3. /\ RoundSound(m, r) /\ RefsUsed(r) /\ PathSound(trail[d][m], r)
          /\ m < Len(rounds[d]) => r.state = "abandoned"
      BY <3>1, Zenon DEF RowsSound
    <3>4. RefsUsed(r)'
      BY <1>4, <3>3 DEF RefsUsed
    <3>5. RoundSound(m, r)'
      <4>1. m \in Nat
        OBVIOUS
      <4> QED BY <4>1, <3>3, SoundStays
    <3>6. PathSound(trail'[d][m], r)
      BY <3>2, <3>3, Zenon
    <3> QED BY <3>2, <3>3, <3>4, <3>5, <3>6, Zenon DEF RowSoundAt
  <2> QED BY <2>1, <2>2
<1>7. \A d \in Candidates : Len(trail'[d]) = Len(rounds'[d])
  BY <1>2, <1>3 DEF RowsSound
<1>8. (\A d \in Candidates : /\ Len(trail[d]) = Len(rounds[d])
                             /\ \A i \in 1 .. Len(rounds[d]) : RowSoundAt(d, i))'
  BY <1>3, <1>6, <1>7, Zenon
<1> QED BY <1>2, <1>8, RowsSoundParts, Zenon

ApartAt(d, m, e, k) ==
    /\ Unshared(rounds[d][m], rounds[e][k])
    /\ <<d, m>> # <<e, k>> => Apart(rounds[d][m], rounds[e][k])

LEMMA ApartParts ==
    (\A d, e \in Candidates : \A i \in 1 .. Len(rounds[d]), j \in 1 .. Len(rounds[e]) :
        ApartAt(d, i, e, j))' => ProofsApart'
<1>1. (\A d, e \in Candidates : \A i \in 1 .. Len(rounds[d]), j \in 1 .. Len(rounds[e]) :
          ApartAt(d, i, e, j)) => ProofsApart
  BY Zenon DEF ProofsApart, ApartAt
<1> QED BY <1>1, PTL

LEMMA ApartKeeps ==
    ASSUME PipeTypes, RowsSound, ProofsApart, NEW c \in Candidates, NEW n \in 1 .. Len(rounds[c]),
           NEW old \in RoundRows, old = rounds[c][n], NEW row \in RoundRows,
           Replaced(c, n, row), RefsGrow(old, row)
    PROVE  ProofsApart'
<1>1. /\ \A d \in Candidates : Len(rounds'[d]) = Len(rounds[d])
      /\ rounds'[c][n] = row
      /\ \A d \in Candidates : \A m \in 1 .. Len(rounds[d]) :
             <<d, m>> # <<c, n>> => rounds'[d][m] = rounds[d][m]
  BY RowsAre
<1>2. Unshared(old, old)
  BY DEF ProofsApart
<1>3. \A d \in Candidates : \A m \in 1 .. Len(rounds[d]) : RefsUsed(rounds[d][m])
  BY DEF RowsSound
<1>4. Unshared(row, row)
  BY <1>2, <1>3 DEF RefsGrow, Unshared, RefsUsed
<1>5. ASSUME NEW d \in Candidates, NEW m \in 1 .. Len(rounds[d]), <<d, m>> # <<c, n>>
      PROVE  LET r == rounds[d][m] IN
             Unshared(r, row) /\ Unshared(row, r) /\ Apart(r, row) /\ Apart(row, r)
  <2>1. PICK r : r = rounds[d][m]
    OBVIOUS
  <2>2. RefsUsed(r) /\ RefsUsed(old)
    BY <1>3, <2>1
  <2>3. <<c, n>> # <<d, m>>
    BY <1>5
  <2>4. Unshared(r, old) /\ Unshared(old, r) /\ Apart(r, old) /\ Apart(old, r)
    BY <2>1, <2>3, <1>5, Zenon DEF ProofsApart
  <2>5. Unshared(r, row) /\ Unshared(row, r) /\ Apart(r, row) /\ Apart(row, r)
    BY ONLY <2>2, <2>4, RefsGrow(old, row) DEF RefsGrow, RefsUsed, Unshared, Apart
  <2> QED BY <2>1, <2>5
<1>6. ASSUME NEW d \in Candidates, NEW e \in Candidates,
             NEW m \in 1 .. Len(rounds[d]), NEW k \in 1 .. Len(rounds[e])
      PROVE  /\ Unshared(rounds'[d][m], rounds'[e][k])
             /\ <<d, m>> # <<e, k>> => Apart(rounds'[d][m], rounds'[e][k])
  <2>1. CASE <<d, m>> # <<c, n>> /\ <<e, k>> # <<c, n>>
    <3>1. rounds'[d][m] = rounds[d][m] /\ rounds'[e][k] = rounds[e][k]
      BY <1>1, <2>1, Zenon
    <3> QED BY <3>1, Zenon DEF ProofsApart
  <2>2. CASE <<d, m>> # <<c, n>> /\ <<e, k>> = <<c, n>>
    <3>1. rounds'[d][m] = rounds[d][m] /\ rounds'[e][k] = row
      BY <1>1, <2>2
    <3> QED BY <3>1, <2>2, <1>5
  <2>3. CASE <<d, m>> = <<c, n>> /\ <<e, k>> # <<c, n>>
    <3>1. rounds'[e][k] = rounds[e][k] /\ rounds'[d][m] = row
      BY <1>1, <2>3
    <3> QED BY <3>1, <2>3, <1>5
  <2>4. CASE <<d, m>> = <<c, n>> /\ <<e, k>> = <<c, n>>
    <3>1. rounds'[d][m] = row /\ rounds'[e][k] = row
      BY <1>1, <2>4
    <3> QED BY <3>1, <2>4, <1>4
  <2> QED BY <2>1, <2>2, <2>3, <2>4
<1>7. ASSUME NEW d \in Candidates, NEW e \in Candidates,
             NEW m \in 1 .. Len(rounds'[d]), NEW k \in 1 .. Len(rounds'[e])
      PROVE  ApartAt(d, m, e, k)'
  <2>1. m \in 1 .. Len(rounds[d]) /\ k \in 1 .. Len(rounds[e])
    BY <1>1
  <2>2. PICK r, s : r = rounds'[d][m] /\ s = rounds'[e][k]
    OBVIOUS
  <2>3. Unshared(r, s) /\ (<<d, m>> # <<e, k>> => Apart(r, s))
    BY <1>6, <2>1, <2>2, Zenon
  <2> QED BY ONLY <2>2, <2>3 DEF ApartAt, Unshared, Apart
<1>8. (\A d, e \in Candidates : \A i \in 1 .. Len(rounds[d]), j \in 1 .. Len(rounds[e]) :
          ApartAt(d, i, e, j))'
  BY <1>7, Zenon
<1> QED BY <1>8, ApartParts, Zenon

\* What SentStands says of one row.
RowStands(id) ==
    /\ Row(id).ref # 0 => /\ Row(id)'.ref = Row(id).ref /\ Row(id)'.sentAt = Row(id).sentAt
                          /\ Row(id)'.sentText = Row(id).sentText
    /\ Row(id).state = "abandoned" => Row(id)' = Row(id)
SendsStand == \A id \in Stored : RowStands(id)

KeepsSend(old, row) ==
    old.ref # 0 => row.ref = old.ref /\ row.sentAt = old.sentAt /\ row.sentText = old.sentText

LEMMA SaveKeeps ==
    ASSUME PipeInvariant, NEW c \in Candidates, NEW n \in 1 .. Len(rounds[c]),
           NEW old \in RoundRows, old = rounds[c][n], NEW row \in RoundRows, old.state # "abandoned",
           Save(c, n, row), RoundSound(n, row), row.updated >= old.updated,
           RefsGrow(old, row), Moved(c, n, old, row), KeepsSend(old, row)
    PROVE  PipeInvariant' /\ SendsStand
<1>1. Replaced(c, n, row) /\ making' = making /\ facts' = facts /\ intake' = intake /\ clock' = clock
  BY DEF Save, Replaced, factVars
<1>2. PipeTypes /\ RowsSound /\ ProofsApart
  BY DEF PipeInvariant
<1>3. trail' \in [Candidates -> Seq(Paths)] /\ RowsSound'
  BY <1>1, <1>2, RowAtKeeps
<1>4. ProofsApart'
  BY <1>1, <1>2, ApartKeeps
<1>5. /\ rounds' \in [Candidates -> Seq(RoundRows)]
      /\ rounds'[c][n] = row
      /\ \A d \in Candidates : \A m \in 1 .. Len(rounds[d]) :
             <<d, m>> # <<c, n>> => rounds'[d][m] = rounds[d][m]
  BY <1>1, <1>2, RowsAre
<1>6. PipeTypes'
  BY <1>1, <1>2, <1>3, <1>5 DEF PipeTypes
<1>7. ASSUME NEW id \in Stored PROVE RowStands(id)
  <2>1. PICK d \in Candidates, m \in 1 .. MaxRounds : id = <<d, m>> /\ m \in DOMAIN rounds[d]
    BY DEF Stored
  <2>2. m \in 1 .. Len(rounds[d])
    BY <1>2, <2>1 DEF PipeTypes
  <2>3. Row(id) = rounds[d][m] /\ Row(id)' = rounds'[d][m]
    BY <2>1 DEF Row
  <2>4. CASE <<d, m>> = <<c, n>>
    <3>1. Row(id) = old /\ Row(id)' = row
      BY <1>5, <2>3, <2>4
    <3> QED BY <3>1 DEF RowStands, KeepsSend
  <2>5. CASE <<d, m>> # <<c, n>>
    <3>1. Row(id)' = Row(id)
      BY <1>5, <2>2, <2>3, <2>5, Zenon
    <3> QED BY <3>1 DEF RowStands
  <2> QED BY <2>4, <2>5
<1> QED BY <1>3, <1>4, <1>6, <1>7 DEF PipeInvariant, SendsStand

\* The row that a command works on.
LEMMA ContextIs ==
    ASSUME PipeInvariant, NEW c \in Candidates, NEW n \in Nat, NEW at \in Nat, Context(c, n, at),
           NEW old, old = rounds[c][n]
    PROVE  /\ n \in 1 .. Len(rounds[c]) /\ old \in RoundRows /\ old.updated \in Nat
           /\ at >= old.updated /\ old.state # "abandoned" /\ RoundSound(n, old)
<1>1. PipeTypes /\ RowsSound
  BY DEF PipeInvariant
<1>2. rounds[c] \in Seq(RoundRows) /\ n \in 1 .. Len(rounds[c])
  BY <1>1 DEF PipeTypes, Context
<1>3. old \in RoundRows
  BY <1>2, ElementOfSeq
<1>4. old.updated \in Nat
  BY <1>3 DEF RoundRows
<1>5. at >= old.updated /\ old.state # "abandoned"
  BY <1>1, <1>4 DEF Context, PipeTypes
<1>6. RoundSound(n, old)
  BY <1>1, <1>2 DEF RowsSound
<1> QED BY <1>2, <1>3, <1>4, <1>5, <1>6

\* What a row must say before it moves.
RoundReady(n, mid, at) ==
    /\ mid.ref # 0 => mid.proof = "verified"
    /\ mid.proof # "verified" => mid.sentAt = 0 /\ mid.heardAt = 0
    /\ mid.sentAt <= at /\ (mid.heardAt # 0 => mid.heardAt >= mid.sentAt)
    /\ Recontacted(n, mid) /\ (mid.bound # NoFact => n > 1)
SilentFor(mid, at, reason) ==
    reason \in Silent =>
        /\ mid.proof = "verified" /\ (reason = "read_no_reply_2d") = (mid.readAt # 0)
        /\ \A t \in {mid.sentAt, mid.readAt, mid.heardAt, mid.resumeAt} : at >= t + Silence

LEMMA AdvanceKeeps ==
    ASSUME PipeInvariant, NEW c \in Candidates, NEW n \in Nat, NEW at \in Nat, Context(c, n, at),
           NEW old, old = rounds[c][n], NEW mid \in RoundRows, NEW to, NEW reason \in Reasons,
           Advance(c, n, at, to, reason, mid),
           RoundReady(n, mid, at), SilentFor(mid, at, reason), RefsGrow(old, mid), KeepsSend(old, mid)
    PROVE  PipeInvariant' /\ SendsStand
<1>1. /\ n \in 1 .. Len(rounds[c]) /\ old \in RoundRows /\ old.updated \in Nat
      /\ at >= old.updated /\ old.state # "abandoned" /\ RoundSound(n, old)
  BY ContextIs
<1>2. /\ <<old.state, to>> \in Edges /\ (to = "abandoned") = (reason # "normal")
      /\ Save(c, n, [mid EXCEPT !.state = to, !.reason = reason, !.changed = at, !.updated = at,
                                !.paused = @ /\ to # "abandoned"])
      /\ trail' = [trail EXCEPT ![c][n] = Append(@, Step(old.state, to, at, reason))]
  BY DEF Advance
<1>3. to \in States \ {"draft_pending"} /\ old.state \in States
  BY <1>2, EdgesAre
<1>4. PICK paused \in BOOLEAN : paused = (mid.paused /\ to # "abandoned")
  OBVIOUS
<1>5. PICK row : row = [mid EXCEPT !.state = to, !.reason = reason, !.changed = at, !.updated = at,
                                   !.paused = paused]
  OBVIOUS
<1>6. /\ row \in RoundRows
      /\ row.state = to /\ row.reason = reason /\ row.changed = at /\ row.updated = at
      /\ row.entered = mid.entered /\ row.proof = mid.proof /\ row.sentAt = mid.sentAt
      /\ row.sentText = mid.sentText /\ row.ref = mid.ref /\ row.readAt = mid.readAt
      /\ row.heardAt = mid.heardAt /\ row.resumeAt = mid.resumeAt /\ row.resumeRef = mid.resumeRef
      /\ row.bound = mid.bound
  BY <1>3, <1>5 DEF RoundRows
<1>7. Save(c, n, row)
  BY <1>2, <1>4, <1>5
<1>8. PICK s : s = Step(old.state, to, at, reason)
  OBVIOUS
<1>9. s \in Moves /\ s.from = old.state /\ s.to = to /\ s.at = at
  BY <1>3, <1>8 DEF Step, Moves
<1>10. Prolonged(c, n, s)
  BY <1>2, <1>8 DEF Prolonged
<1>11. Moved(c, n, old, row)
  <2>1. s.from = old.state /\ s.to = row.state /\ <<s.from, s.to>> \in Edges
    BY <1>2, <1>6, <1>9
  <2>2. s.at >= old.updated /\ s.at <= row.updated
    BY <1>1, <1>6, <1>9
  <2> QED BY <1>9, <1>10, <2>1, <2>2 DEF Moved
<1>12. RoundSound(n, row)
  <2>1. Proven(row)
    BY <1>3, <1>6 DEF RoundReady, Proven
  <2>2. HeardAfter(row)
    BY <1>6 DEF RoundReady, HeardAfter
  <2>3. SilentLong(row)
    <3>1. CASE reason \in Silent
      <4>1. to = "abandoned"
        BY <1>2, <3>1 DEF Silent
      <4> QED BY <4>1, <1>6, <3>1 DEF SilentFor, SilentLong
    <3>2. CASE reason \notin Silent
      BY <1>6, <3>2 DEF SilentLong
    <3> QED BY <3>1, <3>2
  <2>4. Recontacted(n, row)
    BY <1>6 DEF RoundReady, Recontacted
  <2>5. BoundCurrent(n, row)
    BY <1>3, <1>6 DEF RoundReady, BoundCurrent
  <2> QED BY <2>1, <2>2, <2>3, <2>4, <2>5 DEF RoundSound
<1>13. RefsGrow(old, row)
  BY <1>6 DEF RefsGrow
<1>14. KeepsSend(old, row)
  BY <1>6 DEF KeepsSend
<1>15. row.updated >= old.updated
  BY <1>1, <1>6
<1> QED BY <1>1, <1>6, <1>7, <1>11, <1>12, <1>13, <1>14, <1>15, SaveKeeps

----
(* The moves along the graph. *)

\* A row that moves as it is, or with a later time of what was read, heard or attached.
LEMMA ReadyAs ==
    ASSUME NEW n \in Nat, NEW at \in Nat, NEW old \in RoundRows, NEW mid \in RoundRows,
           RoundSound(n, old), at >= old.updated,
           mid.entered = old.entered, mid.proof = old.proof, mid.sentAt = old.sentAt,
           mid.sentText = old.sentText, mid.ref = old.ref, mid.bound = old.bound,
           mid.heardAt = old.heardAt \/ (mid.heardAt >= old.sentAt /\ old.proof = "verified")
    PROVE  RoundReady(n, mid, at) /\ KeepsSend(old, mid)
<1>1. old.sentAt \in Nat /\ old.updated \in Nat /\ old.heardAt \in Nat /\ mid.heardAt \in Nat
  BY DEF RoundRows
<1>2. Proven(old) /\ HeardAfter(old) /\ Recontacted(n, old) /\ BoundCurrent(n, old)
  BY DEF RoundSound
<1>3. /\ mid.ref # 0 => mid.proof = "verified"
      /\ mid.proof # "verified" => mid.sentAt = 0 /\ mid.heardAt = 0
  BY <1>2 DEF Proven
<1>4. mid.sentAt <= at /\ (mid.heardAt # 0 => mid.heardAt >= mid.sentAt)
  BY <1>1, <1>2 DEF HeardAfter
<1>5. Recontacted(n, mid)
  BY <1>2 DEF Recontacted
<1>6. mid.bound # NoFact => n > 1
  BY <1>2 DEF BoundCurrent
<1> QED BY <1>3, <1>4, <1>5, <1>6 DEF RoundReady, KeepsSend

LEMMA NotSilent == ASSUME NEW mid, NEW at, NEW reason, reason \notin Silent PROVE SilentFor(mid, at, reason)
BY DEF SilentFor

\* What only the owner may move is moved by no other reason.
LEMMA MovedProven ==
    ASSUME NEW c, NEW n, NEW at, NEW to, NEW mid, NEW old, old = rounds[c][n],
           Advance(c, n, at, to, "normal", mid), to # "greeting_sent"
    PROVE  old.proof = "verified"
<1>1. "normal" \notin OwnersReasons
  BY DEF OwnersReasons
<1>2. <<old.state, to>> \in Edges
  BY DEF Advance
<1>3. old.state # "draft_pending"
  BY <1>2, EdgesAre
<1> QED BY <1>1, <1>3 DEF Advance

LEMMA GreetingReadKeeps ==
    ASSUME PipeInvariant, NEW c \in Candidates, NEW n \in Nat, NEW at \in Nat, Context(c, n, at),
           GreetingRead(c, n, at)
    PROVE  PipeInvariant' /\ SendsStand
<1>1. PICK old : old = rounds[c][n]
  OBVIOUS
<1>2. old \in RoundRows /\ at >= old.updated /\ RoundSound(n, old)
  BY <1>1, ContextIs
<1>3. old.sentAt \in Nat
  BY <1>2 DEF RoundRows
<1>4. PICK seen \in old.sentAt .. at :
          Advance(c, n, at, "greeting_read", "normal", [old EXCEPT !.readAt = seen])
  BY <1>1 DEF GreetingRead
<1>5. seen \in Nat
  BY <1>3
<1>6. PICK mid : mid = [old EXCEPT !.readAt = seen]
  OBVIOUS
<1>7. /\ mid \in RoundRows /\ mid.entered = old.entered /\ mid.proof = old.proof
      /\ mid.sentAt = old.sentAt /\ mid.sentText = old.sentText /\ mid.ref = old.ref
      /\ mid.bound = old.bound /\ mid.heardAt = old.heardAt /\ mid.resumeRef = old.resumeRef
  BY <1>2, <1>5, <1>6 DEF RoundRows
<1>8. RoundReady(n, mid, at) /\ KeepsSend(old, mid)
  BY <1>2, <1>7, ReadyAs
<1>9. SilentFor(mid, at, "normal") /\ "normal" \in Reasons
  BY NotSilent DEF Silent, Reasons
<1>10. RefsGrow(old, mid)
  BY <1>7 DEF GreetingRead, RefsGrow
<1>11. Advance(c, n, at, "greeting_read", "normal", mid)
  BY <1>4, <1>6
<1> QED BY <1>1, <1>7, <1>8, <1>9, <1>10, <1>11, AdvanceKeeps

LEMMA HeardKeeps ==
    ASSUME PipeInvariant, NEW c \in Candidates, NEW n \in Nat, NEW at \in Nat, Context(c, n, at),
           NEW f \in 1 .. Newest, Heard(c, n, f, at)
    PROVE  PipeInvariant' /\ SendsStand
<1>1. PICK old : old = rounds[c][n]
  OBVIOUS
<1>2. old \in RoundRows /\ at >= old.updated /\ RoundSound(n, old)
  BY <1>1, ContextIs
<1>3. old.sentAt \in Nat /\ old.heardAt \in Nat
  BY <1>2 DEF RoundRows
<1>4. Inbound(old, f, at) /\ used' = used
  BY <1>1 DEF Heard
<1>5. PICK received \in Nat : received = facts[f].body.received
  BY <1>4, NewestIs, FactIs DEF Inbound, PipeInvariant
<1>6. received >= old.sentAt /\ old.sentAt # 0
  BY <1>3, <1>4, <1>5 DEF Inbound
<1>7. PICK latest \in Nat : latest = Max({old.heardAt, received}) /\ latest >= received
  BY <1>3, LaterOf
<1>8. PICK heard : heard = [old EXCEPT !.heardAt = latest]
  OBVIOUS
<1>9. /\ heard \in RoundRows /\ heard.entered = old.entered /\ heard.proof = old.proof
      /\ heard.sentAt = old.sentAt /\ heard.sentText = old.sentText /\ heard.ref = old.ref
      /\ heard.bound = old.bound /\ heard.heardAt = latest /\ heard.resumeRef = old.resumeRef
  BY <1>2, <1>7, <1>8 DEF RoundRows
<1>10. old.proof = "verified"
  BY <1>2, <1>6 DEF RoundSound, Proven
<1>11. latest >= old.sentAt
  BY <1>3, <1>6, <1>7
<1>12. RoundReady(n, heard, at) /\ KeepsSend(old, heard)
  BY <1>2, <1>9, <1>10, <1>11, ReadyAs
<1>13. RoundReady(n, old, at) /\ KeepsSend(old, old)
  BY <1>2, ReadyAs
<1>14. RefsGrow(old, heard) /\ RefsGrow(old, old)
  BY <1>4, <1>9 DEF RefsGrow
<1>15. /\ "normal" \in Reasons /\ "employer_rejected" \in Reasons
       /\ "normal" \notin Silent /\ "employer_rejected" \notin Silent
  BY DEF Reasons, Silent
<1>16. /\ SilentFor(heard, at, "normal")
       /\ SilentFor(old, at, "employer_rejected")
  BY <1>15, NotSilent
<1>17. \/ \E to \in States : Advance(c, n, at, to, "normal", heard)
       \/ Advance(c, n, at, "abandoned", "employer_rejected", old)
  <2>1. {"initial_contact", "resume_requested", "interview_pending"} \subseteq States
    BY DEF States
  <2>2. heard = [old EXCEPT !.heardAt = Max({@, facts[f].body.received})]
    BY <1>5, <1>7, <1>8
  <2> QED BY <1>1, <2>1, <2>2 DEF Heard
<1>18. CASE \E to \in States : Advance(c, n, at, to, "normal", heard)
  BY <1>1, <1>9, <1>12, <1>14, <1>15, <1>16, <1>18, AdvanceKeeps
<1>19. CASE Advance(c, n, at, "abandoned", "employer_rejected", old)
  BY <1>1, <1>2, <1>13, <1>14, <1>15, <1>16, <1>19, AdvanceKeeps
<1> QED BY <1>17, <1>18, <1>19

LEMMA ResumeSentKeeps ==
    ASSUME PipeInvariant, NEW c \in Candidates, NEW n \in Nat, NEW at \in Nat, Context(c, n, at),
           NEW f \in 1 .. Newest, ResumeSent(c, n, f, at)
    PROVE  PipeInvariant' /\ SendsStand
<1>1. PICK old : old = rounds[c][n]
  OBVIOUS
<1>2. old \in RoundRows /\ at >= old.updated /\ RoundSound(n, old)
  BY <1>1, ContextIs
<1>3. PICK t \in Nat : t = facts[f].at
  BY NewestIs, FactIs DEF PipeInvariant
<1>4. f \in Nat \ {0}
  BY NewestIs, FactIs DEF PipeInvariant
<1>5. PICK mid : mid = [old EXCEPT !.resumeAt = t, !.resumeRef = f]
  OBVIOUS
<1>6. /\ mid \in RoundRows /\ mid.entered = old.entered /\ mid.proof = old.proof
      /\ mid.sentAt = old.sentAt /\ mid.sentText = old.sentText /\ mid.ref = old.ref
      /\ mid.bound = old.bound /\ mid.heardAt = old.heardAt /\ mid.resumeRef = f
  BY <1>2, <1>4, <1>5 DEF RoundRows
<1>7. RoundReady(n, mid, at) /\ KeepsSend(old, mid)
  BY <1>2, <1>6, ReadyAs
<1>8. RefsGrow(old, mid)
  BY <1>4, <1>6 DEF ResumeSent, RefsGrow, Fresh
<1>9. SilentFor(mid, at, "normal") /\ "normal" \in Reasons
  BY NotSilent DEF Silent, Reasons
<1>10. Advance(c, n, at, "resume_sent", "normal", mid)
  BY <1>1, <1>3, <1>5 DEF ResumeSent
<1> QED BY <1>1, <1>6, <1>7, <1>8, <1>9, <1>10, AdvanceKeeps

LEMMA InterviewedKeeps ==
    ASSUME PipeInvariant, NEW c \in Candidates, NEW n \in Nat, NEW at \in Nat, Context(c, n, at),
           Interviewed(c, n, at)
    PROVE  PipeInvariant' /\ SendsStand
<1>1. PICK old : old = rounds[c][n]
  OBVIOUS
<1>2. old \in RoundRows /\ at >= old.updated /\ RoundSound(n, old)
  BY <1>1, ContextIs
<1>3. PICK mid : mid = [old EXCEPT !.heardAt = at]
  OBVIOUS
<1>4. /\ mid \in RoundRows /\ mid.entered = old.entered /\ mid.proof = old.proof
      /\ mid.sentAt = old.sentAt /\ mid.sentText = old.sentText /\ mid.ref = old.ref
      /\ mid.bound = old.bound /\ mid.heardAt = at /\ mid.resumeRef = old.resumeRef
  BY <1>2, <1>3 DEF RoundRows
<1>5. Advance(c, n, at, "interviewed", "normal", mid) /\ used' = used
  BY <1>1, <1>3 DEF Interviewed
<1>6. old.proof = "verified"
  BY <1>1, <1>5, MovedProven
<1>7. at >= old.sentAt
  <2>1. old.sentAt \in Nat /\ old.updated \in Nat /\ HeardAfter(old)
    BY <1>2 DEF RoundRows, RoundSound
  <2> QED BY <1>2, <2>1 DEF HeardAfter
<1>8. RoundReady(n, mid, at) /\ KeepsSend(old, mid)
  BY <1>2, <1>4, <1>6, <1>7, ReadyAs
<1>9. RefsGrow(old, mid)
  BY <1>4, <1>5 DEF RefsGrow
<1>10. SilentFor(mid, at, "normal") /\ "normal" \in Reasons
  BY NotSilent DEF Silent, Reasons
<1> QED BY <1>1, <1>4, <1>5, <1>8, <1>9, <1>10, AdvanceKeeps

LEMMA OwnerClosesKeeps ==
    ASSUME PipeInvariant, NEW c \in Candidates, NEW n \in Nat, NEW at \in Nat, Context(c, n, at),
           OwnerCloses(c, n, at)
    PROVE  PipeInvariant' /\ SendsStand
<1>1. PICK old : old = rounds[c][n]
  OBVIOUS
<1>2. old \in RoundRows /\ at >= old.updated /\ RoundSound(n, old)
  BY <1>1, ContextIs
<1>3. PICK reason \in OwnersReasons : Advance(c, n, at, "abandoned", reason, old)
  BY <1>1 DEF OwnerCloses
<1>4. reason \in Reasons /\ reason \notin Silent
  BY DEF Reasons, OwnersReasons, Silent
<1>5. RoundReady(n, old, at) /\ KeepsSend(old, old)
  BY <1>2, ReadyAs
<1>6. RefsGrow(old, old)
  BY DEF OwnerCloses, RefsGrow
<1> QED BY <1>1, <1>2, <1>3, <1>4, <1>5, <1>6, NotSilent, AdvanceKeeps

\* A greeting is proven by the send of its own draft: of an approved item, or of the bound reply.
LEMMA GreetingSentKeeps ==
    ASSUME PipeInvariant, NEW c \in Candidates, NEW n \in Nat, NEW at \in Nat, Context(c, n, at),
           NEW f \in 1 .. Newest, GreetingSent(c, n, f, at)
    PROVE  PipeInvariant' /\ SendsStand
<1>1. PICK old : old = rounds[c][n]
  OBVIOUS
<1>2. old \in RoundRows /\ at >= old.updated /\ RoundSound(n, old)
  BY <1>1, ContextIs
<1>3. PICK t \in Nat : t = facts[f].at
  BY NewestIs, FactIs DEF PipeInvariant
<1>4. f \in Nat \ {0}
  BY NewestIs, FactIs DEF PipeInvariant
<1>5. PICK mid : mid = [old EXCEPT !.proof = "verified", !.sentAt = t, !.sentText = old.draft, !.ref = f]
  OBVIOUS
<1>6. /\ mid \in RoundRows /\ mid.entered = old.entered /\ mid.proof = "verified"
      /\ mid.sentAt = t /\ mid.sentText = old.draft /\ mid.ref = f
      /\ mid.bound = old.bound /\ mid.heardAt = old.heardAt /\ mid.resumeRef = old.resumeRef
  BY <1>2, <1>3, <1>4, <1>5 DEF RoundRows
<1>7. /\ GreetingSend(old, f, at) /\ SentText(f) = old.draft /\ f \notin used /\ used' = used \cup {f}
      /\ Advance(c, n, at, "greeting_sent", "normal", mid)
  BY <1>1, <1>3, <1>5 DEF GreetingSent, Fresh
<1>8. old.ref = 0 /\ old.heardAt = 0 /\ (old.bound # NoFact => n > 1)
  <2>1. <<old.state, "greeting_sent">> \in Edges
    BY <1>1, <1>7 DEF Advance
  <2>2. old.state = "draft_pending"
    BY <2>1, EdgesAre
  <2> QED BY <1>2, <2>2 DEF RoundSound, Proven, BoundCurrent
<1>9. t <= at
  <2>1. old.entered \in Nat
    BY <1>2 DEF RoundRows
  <2>2. t \in old.entered .. at
    BY <1>3, <1>7 DEF GreetingSend, OutreachSend, RecontactSend
  <2> QED BY <2>1, <2>2
<1>10. Recontacted(n, mid)
  <2>1. SUFFICES ASSUME facts[f].kind = "sent"
                 PROVE  /\ n > 1 /\ old.entered <= facts[facts[f].body].body.asked
                        /\ old.draft = facts[facts[f].body].body.text
                        /\ ~\E i \in facts[f].body .. f : facts[i].kind = "inbound"
    BY <1>6 DEF Recontacted
  <2>2. old.bound # NoFact /\ RecontactSend(old, f, at)
    BY <1>7, <2>1 DEF GreetingSend, OutreachSend
  <2>3. PICK a \in Nat : a = old.bound.approval
    BY <1>2, <2>2 DEF RoundRows, Bindings
  <2>4. /\ facts[f].body = a /\ facts[a].kind = "approved" /\ NothingBetween(a, f)
        /\ old.entered <= facts[a].body.asked
    BY <2>2, <2>3 DEF RecontactSend, ApprovedReply
  <2>5. n > 1 /\ old.draft = facts[a].body.text
    BY <1>7, <1>8, <2>1, <2>2, <2>4 DEF SentText
  <2>6. ASSUME NEW i \in a .. f PROVE facts[i].kind # "inbound"
    <3>1. i = a \/ i = f \/ i \in a + 1 .. f - 1
      BY <1>4
    <3> QED BY <2>1, <2>4, <3>1 DEF NothingBetween
  <2> QED BY <2>4, <2>5, <2>6
<1>11. RoundReady(n, mid, at)
  BY <1>6, <1>8, <1>9, <1>10 DEF RoundReady
<1>12. KeepsSend(old, mid)
  BY <1>8 DEF KeepsSend
<1>13. RefsGrow(old, mid)
  BY <1>4, <1>6, <1>7 DEF RefsGrow
<1>14. SilentFor(mid, at, "normal") /\ "normal" \in Reasons
  BY NotSilent DEF Silent, Reasons
<1> QED BY <1>1, <1>6, <1>7, <1>11, <1>12, <1>13, <1>14, AdvanceKeeps

----
(* What is saved without a move. *)

\* A row that stays in its state, with its send and its draft.
LEMMA SaveStill ==
    ASSUME PipeInvariant, NEW c \in Candidates, NEW n \in Nat, NEW at \in Nat, Context(c, n, at),
           NEW old, old = rounds[c][n], NEW row \in RoundRows, Save(c, n, row),
           trail' = trail, used' = used, row.updated = at,
           row.state = old.state, row.reason = old.reason, row.entered = old.entered,
           row.proof = old.proof, row.sentAt = old.sentAt, row.sentText = old.sentText,
           row.ref = old.ref, row.resumeRef = old.resumeRef,
           row.bound = old.bound, row.snapshot = old.snapshot, row.draft = old.draft,
           row.heardAt = old.heardAt \/ (row.heardAt >= old.sentAt /\ old.proof = "verified")
    PROVE  PipeInvariant' /\ SendsStand
<1>1. /\ n \in 1 .. Len(rounds[c]) /\ old \in RoundRows /\ old.updated \in Nat
      /\ at >= old.updated /\ old.state # "abandoned" /\ RoundSound(n, old)
  BY ContextIs
<1>2. RoundReady(n, row, at) /\ KeepsSend(old, row)
  BY <1>1, ReadyAs
<1>3. old.reason \notin Silent
  BY <1>1 DEF RoundSound, SilentLong
<1>4. RoundSound(n, row)
  <2>1. Proven(row)
    BY <1>1, <1>2 DEF RoundReady, Proven, RoundSound
  <2>2. HeardAfter(row)
    BY <1>2 DEF RoundReady, HeardAfter
  <2>3. SilentLong(row)
    BY <1>3 DEF SilentLong
  <2>4. Recontacted(n, row)
    BY <1>2 DEF RoundReady
  <2>5. BoundCurrent(n, row)
    BY <1>1 DEF RoundSound, BoundCurrent
  <2> QED BY <2>1, <2>2, <2>3, <2>4, <2>5 DEF RoundSound
<1>5. RefsGrow(old, row) /\ Moved(c, n, old, row)
  BY DEF RefsGrow, Moved
<1>6. row.updated >= old.updated
  BY <1>1
<1> QED BY <1>1, <1>2, <1>4, <1>5, <1>6, SaveKeeps

LEMMA NoReplyKeeps ==
    ASSUME PipeInvariant, NEW c \in Candidates, NEW n \in Nat, NEW at \in Nat, Context(c, n, at),
           NoReply(c, n, at)
    PROVE  PipeInvariant' /\ SendsStand
<1>1. PICK old : old = rounds[c][n]
  OBVIOUS
<1>2. old \in RoundRows /\ at >= old.updated /\ RoundSound(n, old)
  BY <1>1, ContextIs
<1>3. Waits(old) /\ used' = used
  BY <1>1 DEF NoReply
<1>4. CASE at >= Deadline(old)
  <2>1. PICK reason : reason = IF old.readAt # 0 THEN "read_no_reply_2d" ELSE "no_reply_2d"
    OBVIOUS
  <2>2. reason \in Reasons /\ (reason = "read_no_reply_2d") = (old.readAt # 0)
    BY <2>1 DEF Reasons, Silent
  <2>3. Advance(c, n, at, "abandoned", reason, old)
    BY <1>1, <1>4, <2>1 DEF NoReply
  <2>4. ASSUME NEW t \in {old.sentAt, old.readAt, old.heardAt, old.resumeAt} PROVE at >= t + Silence
    <3>1. Deadline(old) \in Nat /\ t + Silence \in Nat /\ Deadline(old) >= t + Silence
      BY <1>2, DeadlineIs
    <3> QED BY <1>4, <3>1
  <2>5. SilentFor(old, at, reason)
    BY <1>3, <2>2, <2>4 DEF SilentFor, Waits
  <2>6. RoundReady(n, old, at) /\ KeepsSend(old, old)
    BY <1>2, ReadyAs
  <2>7. RefsGrow(old, old)
    BY <1>3 DEF RefsGrow
  <2> QED BY <1>1, <1>2, <2>2, <2>3, <2>5, <2>6, <2>7, AdvanceKeeps
<1>5. CASE ~(at >= Deadline(old))
  <2>1. PICK row : row = [old EXCEPT !.updated = at]
    OBVIOUS
  <2>2. Save(c, n, row) /\ trail' = trail
    BY <1>1, <1>5, <2>1 DEF NoReply
  <2>3. /\ row \in RoundRows /\ row.updated = at
        /\ row.state = old.state /\ row.reason = old.reason /\ row.entered = old.entered
        /\ row.proof = old.proof /\ row.sentAt = old.sentAt /\ row.sentText = old.sentText
        /\ row.ref = old.ref /\ row.resumeRef = old.resumeRef
        /\ row.bound = old.bound /\ row.snapshot = old.snapshot /\ row.draft = old.draft
        /\ row.heardAt = old.heardAt
    BY <1>2, <2>1 DEF RoundRows
  <2> QED BY <1>1, <1>3, <2>2, <2>3, SaveStill
<1> QED BY <1>4, <1>5

LEMMA ReplySeenKeeps ==
    ASSUME PipeInvariant, NEW c \in Candidates, NEW n \in Nat, NEW at \in Nat, Context(c, n, at),
           ReplySeen(c, n, at)
    PROVE  PipeInvariant' /\ SendsStand
<1>1. PICK old : old = rounds[c][n]
  OBVIOUS
<1>2. old \in RoundRows /\ at >= old.updated /\ RoundSound(n, old)
  BY <1>1, ContextIs
<1>3. trail' = trail /\ used' = used
  BY DEF ReplySeen
<1>4. ASSUME NEW latest \in Nat, Save(c, n, [old EXCEPT !.updated = at, !.heardAt = latest]),
             latest = old.heardAt \/ (latest >= old.sentAt /\ old.proof = "verified")
      PROVE  PipeInvariant' /\ SendsStand
  <2>1. PICK row : row = [old EXCEPT !.updated = at, !.heardAt = latest]
    OBVIOUS
  <2>2. /\ row \in RoundRows /\ row.updated = at
        /\ row.state = old.state /\ row.reason = old.reason /\ row.entered = old.entered
        /\ row.proof = old.proof /\ row.sentAt = old.sentAt /\ row.sentText = old.sentText
        /\ row.ref = old.ref /\ row.resumeRef = old.resumeRef
        /\ row.bound = old.bound /\ row.snapshot = old.snapshot /\ row.draft = old.draft
        /\ row.heardAt = latest
    BY <1>2, <2>1 DEF RoundRows
  <2>3. Save(c, n, row)
    BY <1>4, <2>1
  <2> QED BY <1>1, <1>3, <1>4, <2>2, <2>3, SaveStill
<1>5. CASE Save(c, n, [old EXCEPT !.updated = at])
  <2>1. [old EXCEPT !.updated = at] = [old EXCEPT !.updated = at, !.heardAt = old.heardAt]
    BY <1>2 DEF RoundRows
  <2>2. old.heardAt \in Nat
    BY <1>2 DEF RoundRows
  <2> QED BY <1>4, <1>5, <2>1, <2>2
<1>6. ASSUME NEW f \in 1 .. Newest, old.proof = "verified", Inbound(old, f, at),
             Save(c, n, [old EXCEPT !.updated = at, !.heardAt = Max({@, facts[f].body.received})])
      PROVE  PipeInvariant' /\ SendsStand
  <2>1. PICK received \in Nat : received = facts[f].body.received
    BY <1>6, NewestIs, FactIs DEF Inbound, PipeInvariant
  <2>2. old.sentAt \in Nat /\ old.heardAt \in Nat
    BY <1>2 DEF RoundRows
  <2>3. received >= old.sentAt
    BY <1>6, <2>1, <2>2 DEF Inbound
  <2>4. PICK latest \in Nat : latest = Max({old.heardAt, received}) /\ latest >= received
    BY <2>2, LaterOf
  <2>5. Save(c, n, [old EXCEPT !.updated = at, !.heardAt = latest])
    <3>1. [old EXCEPT !.updated = at, !.heardAt = Max({@, facts[f].body.received})]
          = [old EXCEPT !.updated = at, !.heardAt = latest]
      BY <2>1, <2>4
    <3> QED BY <1>6, <3>1
  <2>6. latest >= old.sentAt
    BY <2>2, <2>3, <2>4
  <2> QED BY <1>4, <1>6, <2>5, <2>6
<1> QED BY <1>1, <1>5, <1>6 DEF ReplySeen

LEMMA PauseKeeps ==
    ASSUME PipeInvariant, NEW c \in Candidates, NEW n \in Nat, NEW at \in Nat, Context(c, n, at),
           NEW paused \in BOOLEAN, Save(c, n, [rounds[c][n] EXCEPT !.updated = at, !.paused = paused]),
           trail' = trail, used' = used
    PROVE  PipeInvariant' /\ SendsStand
<1>1. PICK old : old = rounds[c][n]
  OBVIOUS
<1>2. old \in RoundRows
  BY <1>1, ContextIs
<1>3. PICK row : row = [old EXCEPT !.updated = at, !.paused = paused]
  OBVIOUS
<1>4. /\ row \in RoundRows /\ row.updated = at
      /\ row.state = old.state /\ row.reason = old.reason /\ row.entered = old.entered
      /\ row.proof = old.proof /\ row.sentAt = old.sentAt /\ row.sentText = old.sentText
      /\ row.ref = old.ref /\ row.resumeRef = old.resumeRef
      /\ row.bound = old.bound /\ row.snapshot = old.snapshot /\ row.draft = old.draft
      /\ row.heardAt = old.heardAt
  BY <1>2, <1>3 DEF RoundRows
<1>5. Save(c, n, row)
  BY <1>1, <1>3
<1> QED BY <1>1, <1>4, <1>5, SaveStill

LEMMA BindSendKeeps ==
    ASSUME PipeInvariant, NEW c \in Candidates, NEW n \in Nat, NEW at \in Nat, Context(c, n, at),
           NEW f \in 1 .. Newest, BindSend(c, n, f, at)
    PROVE  PipeInvariant' /\ SendsStand
<1>1. PICK old : old = rounds[c][n]
  OBVIOUS
<1>2. /\ n \in 1 .. Len(rounds[c]) /\ old \in RoundRows /\ old.updated \in Nat
      /\ at >= old.updated /\ old.state # "abandoned" /\ RoundSound(n, old)
  BY <1>1, ContextIs
<1>3. PICK t \in Nat : t = facts[f].at
  BY NewestIs, FactIs DEF PipeInvariant
<1>4. f \in Nat \ {0}
  BY NewestIs, FactIs DEF PipeInvariant
<1>5. /\ old.state = "greeting_sent" /\ old.proof = "proof_pending"
      /\ facts[f].kind = "greeting" /\ t \in old.entered .. at
      /\ f \notin used /\ used' = used \cup {f} /\ trail' = trail
      /\ Save(c, n, [old EXCEPT !.updated = at, !.proof = "verified", !.sentAt = t,
                                !.sentText = facts[f].body, !.ref = f])
  BY <1>1, <1>3 DEF BindSend, OutreachSend, Fresh
<1>6. PICK text \in Wordings : text = facts[f].body
  BY <1>5, NewestIs, FactIs DEF PipeInvariant
<1>7. PICK row : row = [old EXCEPT !.updated = at, !.proof = "verified", !.sentAt = t,
                                   !.sentText = text, !.ref = f]
  OBVIOUS
<1>8. /\ row \in RoundRows /\ row.updated = at /\ row.proof = "verified" /\ row.sentAt = t
      /\ row.ref = f /\ row.resumeRef = old.resumeRef
      /\ row.state = old.state /\ row.reason = old.reason /\ row.heardAt = old.heardAt
      /\ row.bound = old.bound
  BY <1>2, <1>4, <1>7 DEF RoundRows, Texts
<1>9. old.ref = 0 /\ old.heardAt = 0 /\ old.reason \notin Silent /\ (old.bound # NoFact => n > 1)
  BY <1>2, <1>5 DEF RoundSound, Proven, SilentLong, BoundCurrent
<1>10. t <= at
  <2>1. old.entered \in Nat
    BY <1>2 DEF RoundRows
  <2> QED BY <1>5, <2>1
<1>11. RoundSound(n, row)
  <2>1. Proven(row)
    BY <1>5, <1>8 DEF Proven
  <2>2. HeardAfter(row)
    BY <1>8, <1>9, <1>10 DEF HeardAfter
  <2>3. SilentLong(row)
    BY <1>8, <1>9 DEF SilentLong
  <2>4. Recontacted(n, row)
    BY <1>5, <1>8 DEF Recontacted
  <2>5. BoundCurrent(n, row)
    BY <1>5, <1>8, <1>9 DEF BoundCurrent
  <2> QED BY <2>1, <2>2, <2>3, <2>4, <2>5 DEF RoundSound
<1>12. Save(c, n, row)
  BY <1>5, <1>6, <1>7
<1>13. RefsGrow(old, row)
  BY <1>4, <1>5, <1>8 DEF RefsGrow
<1>14. Moved(c, n, old, row) /\ KeepsSend(old, row) /\ row.updated >= old.updated
  BY <1>2, <1>5, <1>8, <1>9 DEF Moved, KeepsSend
<1> QED BY <1>1, <1>2, <1>8, <1>11, <1>12, <1>13, <1>14, SaveKeeps

\* A row whose draft changes, and nothing that was proven of it.
LEMMA SaveDraft ==
    ASSUME PipeInvariant, NEW c \in Candidates, NEW n \in Nat, NEW at \in Nat, Context(c, n, at),
           NEW old, old = rounds[c][n], NEW row \in RoundRows, Save(c, n, row),
           trail' = trail, used' = used, row.updated = at,
           row.state = old.state, row.reason = old.reason, row.entered = old.entered,
           row.proof = old.proof, row.sentAt = old.sentAt, row.sentText = old.sentText,
           row.ref = old.ref, row.resumeRef = old.resumeRef, row.heardAt = old.heardAt,
           BoundCurrent(n, row)
    PROVE  PipeInvariant' /\ SendsStand
<1>1. /\ n \in 1 .. Len(rounds[c]) /\ old \in RoundRows /\ old.updated \in Nat
      /\ at >= old.updated /\ old.state # "abandoned" /\ RoundSound(n, old)
  BY ContextIs
<1>2. old.sentAt \in Nat
  BY <1>1 DEF RoundRows
<1>3. Proven(old) /\ HeardAfter(old) /\ Recontacted(n, old) /\ old.reason \notin Silent
  BY <1>1 DEF RoundSound, SilentLong
<1>4. Proven(row) /\ SilentLong(row)
  BY <1>3 DEF Proven, SilentLong
<1>5. HeardAfter(row)
  BY <1>1, <1>2, <1>3 DEF HeardAfter
<1>6. Recontacted(n, row)
  BY <1>3 DEF Recontacted
<1>7. RoundSound(n, row)
  BY <1>4, <1>5, <1>6 DEF RoundSound
<1>8. RefsGrow(old, row) /\ Moved(c, n, old, row) /\ KeepsSend(old, row) /\ row.updated >= old.updated
  BY <1>1 DEF RefsGrow, Moved, KeepsSend
<1> QED BY <1>1, <1>7, <1>8, SaveKeeps

LEMMA BindReplyKeeps ==
    ASSUME PipeInvariant, NEW c \in Candidates, NEW n \in Nat, NEW at \in Nat, Context(c, n, at),
           NEW a \in 1 .. Newest, BindReply(c, n, a, at)
    PROVE  PipeInvariant' /\ SendsStand
<1>1. PICK old : old = rounds[c][n]
  OBVIOUS
<1>2. old \in RoundRows
  BY <1>1, ContextIs
<1>3. PICK binding : binding = [approval |-> a, snapshot |-> old.snapshot]
  OBVIOUS
<1>4. /\ n > 1 /\ facts[a].kind = "approved" /\ trail' = trail /\ used' = used
      /\ Save(c, n, [old EXCEPT !.updated = at, !.draft = facts[a].body.text, !.bound = binding])
  BY <1>1, <1>3 DEF BindReply, ApprovedReply
<1>5. a \in Nat
  BY NewestIs, FactIs DEF PipeInvariant
<1>6. binding \in Bindings /\ binding.approval = a /\ binding.snapshot = old.snapshot
  BY <1>2, <1>3, <1>5 DEF Bindings, RoundRows
<1>7. PICK text \in Wordings : text = facts[a].body.text
  BY <1>4, NewestIs, FactIs DEF PipeInvariant
<1>8. PICK row : row = [old EXCEPT !.updated = at, !.draft = text, !.bound = binding]
  OBVIOUS
<1>9. /\ row \in RoundRows /\ row.updated = at /\ row.draft = text /\ row.bound = binding
      /\ row.snapshot = old.snapshot /\ row.state = old.state /\ row.reason = old.reason
      /\ row.entered = old.entered /\ row.proof = old.proof /\ row.sentAt = old.sentAt
      /\ row.sentText = old.sentText /\ row.ref = old.ref /\ row.resumeRef = old.resumeRef
      /\ row.heardAt = old.heardAt
  BY <1>2, <1>6, <1>8 DEF RoundRows, Texts
<1>10. Save(c, n, row)
  BY <1>4, <1>7, <1>8
<1>11. BoundCurrent(n, row)
  BY <1>4, <1>6, <1>7, <1>9 DEF BoundCurrent
<1> QED BY <1>1, <1>4, <1>9, <1>10, <1>11, SaveDraft

LEMMA SyncPipelineKeeps ==
    ASSUME PipeInvariant, NEW c \in Candidates, NEW n \in Nat, NEW at \in Nat, Context(c, n, at),
           SyncPipeline(c, n, at)
    PROVE  PipeInvariant' /\ SendsStand
<1>1. PICK old : old = rounds[c][n]
  OBVIOUS
<1>2. old \in RoundRows /\ RoundSound(n, old)
  BY <1>1, ContextIs
<1>3. trail' = trail /\ used' = used
  BY DEF SyncPipeline
<1>4. PICK moved \in BOOLEAN :
          moved = (old.bound # NoFact /\ old.state = "draft_pending" /\ old.bound.snapshot # intake.snapshot)
  OBVIOUS
<1>5. PICK snapshot \in Nat, text \in Texts : snapshot = intake.snapshot /\ text = intake.draft
  BY DEF PipeInvariant, PipeTypes
<1>6. PICK draft : draft = IF old.bound # NoFact /\ ~moved THEN old.draft
                           ELSE IF moved THEN NoFact ELSE text
  OBVIOUS
<1>7. PICK binding : binding = IF moved THEN NoFact ELSE old.bound
  OBVIOUS
<1>8. PICK paused \in BOOLEAN : paused = (old.paused \/ moved)
  OBVIOUS
<1>9. draft \in Texts /\ binding \in {NoFact} \cup Bindings
  BY <1>2, <1>6, <1>7 DEF RoundRows, Texts
<1>10. PICK row : row = [old EXCEPT !.snapshot = snapshot, !.draft = draft, !.bound = binding,
                                    !.paused = paused, !.updated = at]
  OBVIOUS
<1>11. Save(c, n, row)
  <2>1. [Synced(old) EXCEPT !.updated = at] = row
    BY <1>2, <1>4, <1>5, <1>6, <1>7, <1>8, <1>10 DEF Synced
  <2> QED BY <1>1, <2>1 DEF SyncPipeline
<1>12. /\ row \in RoundRows /\ row.updated = at /\ row.draft = draft /\ row.bound = binding
       /\ row.snapshot = snapshot /\ row.state = old.state /\ row.reason = old.reason
       /\ row.entered = old.entered /\ row.proof = old.proof /\ row.sentAt = old.sentAt
       /\ row.sentText = old.sentText /\ row.ref = old.ref /\ row.resumeRef = old.resumeRef
       /\ row.heardAt = old.heardAt
  BY <1>2, <1>5, <1>8, <1>9, <1>10 DEF RoundRows
<1>13. BoundCurrent(n, row)
  <2>1. BoundCurrent(n, old)
    BY <1>2 DEF RoundSound
  <2> QED BY <1>4, <1>5, <1>6, <1>7, <1>12, <2>1 DEF BoundCurrent
<1> QED BY <1>1, <1>3, <1>11, <1>12, <1>13, SaveDraft

LEMMA ChangeKeeps ==
    ASSUME PipeInvariant, NEW c \in Candidates, NEW n \in Nat, NEW at \in Nat, Change(c, n, at)
    PROVE  PipeInvariant' /\ SendsStand
<1>1. Context(c, n, at)
  BY DEF Change
<1>2. CASE GreetingRead(c, n, at)
  BY <1>1, <1>2, GreetingReadKeeps
<1>3. CASE Interviewed(c, n, at)
  BY <1>1, <1>3, InterviewedKeeps
<1>4. CASE OwnerCloses(c, n, at)
  BY <1>1, <1>4, OwnerClosesKeeps
<1>5. CASE NoReply(c, n, at)
  BY <1>1, <1>5, NoReplyKeeps
<1>6. CASE ReplySeen(c, n, at)
  BY <1>1, <1>6, ReplySeenKeeps
<1>7. CASE PauseOrResume(c, n, at)
  <2>1. PICK paused \in BOOLEAN : Save(c, n, [rounds[c][n] EXCEPT !.updated = at, !.paused = paused])
    BY <1>7 DEF PauseOrResume
  <2>2. trail' = trail /\ used' = used
    BY <1>7 DEF PauseOrResume
  <2> QED BY <1>1, <2>1, <2>2, PauseKeeps
<1>8. CASE SyncPipeline(c, n, at)
  BY <1>1, <1>8, SyncPipelineKeeps
<1>9. CASE \E f \in 1 .. Newest : GreetingSent(c, n, f, at)
  BY <1>1, <1>9, GreetingSentKeeps
<1>10. CASE \E f \in 1 .. Newest : Heard(c, n, f, at)
  BY <1>1, <1>10, HeardKeeps
<1>11. CASE \E f \in 1 .. Newest : ResumeSent(c, n, f, at)
  BY <1>1, <1>11, ResumeSentKeeps
<1>12. CASE \E f \in 1 .. Newest : BindSend(c, n, f, at)
  BY <1>1, <1>12, BindSendKeeps
<1>13. CASE \E f \in 1 .. Newest : BindReply(c, n, f, at)
  BY <1>1, <1>13, BindReplyKeeps
<1> QED BY <1>2, <1>3, <1>4, <1>5, <1>6, <1>7, <1>8, <1>9, <1>10, <1>11, <1>12, <1>13 DEF Change

LEMMA ReadbackFaultKeeps ==
    ASSUME PipeInvariant, NEW c \in Candidates, NEW n \in Nat, NEW f, ReadbackFault(c, n, f)
    PROVE  PipeInvariant' /\ SendsStand
<1>1. clock \in Nat
  BY DEF PipeInvariant, PipeTypes
<1>2. /\ Context(c, n, clock) /\ trail' = trail /\ used' = used
      /\ Save(c, n, [rounds[c][n] EXCEPT !.updated = clock, !.paused = TRUE])
  BY DEF ReadbackFault
<1>3. PICK at \in Nat : at = clock
  BY <1>1
<1>4. PICK paused \in BOOLEAN : paused = TRUE
  OBVIOUS
<1>5. Context(c, n, at) /\ Save(c, n, [rounds[c][n] EXCEPT !.updated = at, !.paused = paused])
  BY <1>2, <1>3, <1>4
<1> QED BY <1>2, <1>5, PauseKeeps

----
(* New rounds, and what changes no round. *)

LEMMA RoundsStill ==
    ASSUME PipeInvariant, PipeTypes', rounds' = rounds, trail' = trail, used' = used, facts' = facts
    PROVE  PipeInvariant' /\ SendsStand
<1>1. RowsSound /\ ProofsApart
  BY DEF PipeInvariant
<1>2. ASSUME NEW d \in Candidates, NEW m \in 1 .. Len(rounds[d]) PROVE RowSoundAt(d, m)'
  <2>1. PICK r : r = rounds[d][m]
    OBVIOUS
  <2>2. /\ RoundSound(m, r) /\ RefsUsed(r) /\ PathSound(trail[d][m], r)
        /\ m < Len(rounds[d]) => r.state = "abandoned"
    BY <1>1, <2>1, Zenon DEF RowsSound
  <2>3. RefsUsed(r)' /\ m \in Nat
    BY <2>2 DEF RefsUsed
  <2>4. RoundSound(m, r)'
    BY <2>2, <2>3, SoundStays
  <2> QED BY <2>1, <2>2, <2>3, <2>4, Zenon DEF RowSoundAt
<1>3. (\A d \in Candidates : /\ Len(trail[d]) = Len(rounds[d])
                             /\ \A i \in 1 .. Len(rounds[d]) : RowSoundAt(d, i))'
  BY <1>1, <1>2, Zenon DEF RowsSound
<1>4. RowsSound'
  BY <1>3, RowsSoundParts, Zenon
<1>5. ProofsApart'
  BY <1>1 DEF ProofsApart, Apart, Unshared
<1>6. ASSUME NEW id \in Stored PROVE RowStands(id)
  <2>1. Row(id)' = Row(id)
    BY DEF Row
  <2> QED BY <2>1 DEF RowStands
<1> QED BY <1>4, <1>5, <1>6 DEF PipeInvariant, SendsStand

LEMMA CreateReadKeeps ==
    ASSUME PipeInvariant, NEW m \in Makers, NEW c \in Candidates, CreateRead(m, c)
    PROVE  PipeInvariant' /\ SendsStand
<1>1. PipeTypes
  BY DEF PipeInvariant
<1>2. PICK new : new = [for |-> c, number |-> Len(rounds[c]) + 1, at |-> clock,
                        snapshot |-> intake.snapshot, draft |-> intake.draft]
  OBVIOUS
<1>3. new \in Makings
  BY <1>1, <1>2 DEF PipeTypes, Makings
<1>4. making' = [making EXCEPT ![m] = new]
  BY <1>2 DEF CreateRead
<1>5. rounds' = rounds /\ trail' = trail /\ used' = used /\ facts' = facts /\ intake' = intake /\ clock' = clock
  BY DEF CreateRead, factVars
<1>6. making' \in [Makers -> {NoFact} \cup Makings]
  BY <1>1, <1>3, <1>4 DEF PipeTypes
<1>7. PipeTypes'
  BY <1>1, <1>5, <1>6 DEF PipeTypes
<1> QED BY <1>5, <1>7, RoundsStill

LEMMA CreateEndsKeeps ==
    ASSUME PipeInvariant, NEW m \in Makers, CreateEnds(m)
    PROVE  PipeInvariant' /\ SendsStand
<1>1. PipeTypes
  BY DEF PipeInvariant
<1>2. rounds' = rounds /\ trail' = trail /\ used' = used /\ facts' = facts /\ intake' = intake /\ clock' = clock
  BY DEF CreateEnds, factVars
<1>3. making' \in [Makers -> {NoFact} \cup Makings]
  BY <1>1 DEF PipeTypes, CreateEnds
<1>4. PipeTypes'
  BY <1>1, <1>2, <1>3 DEF PipeTypes
<1> QED BY <1>2, <1>4, RoundsStill

LEMMA IntakeKeeps ==
    ASSUME PipeInvariant, IntakeMoves \/ PipeTick
    PROVE  PipeInvariant' /\ SendsStand
<1>1. PipeTypes
  BY DEF PipeInvariant
<1>2. rounds' = rounds /\ trail' = trail /\ used' = used /\ facts' = facts /\ making' = making
  BY DEF IntakeMoves, PipeTick
<1>3. clock' \in Nat \ {0}
  BY <1>1 DEF PipeTypes, IntakeMoves, PipeTick
<1>4. intake' \in [snapshot : Nat, at : Nat, draft : Texts]
  BY <1>1 DEF PipeTypes, IntakeMoves, PipeTick, Texts
<1>5. PipeTypes'
  BY <1>1, <1>2, <1>3, <1>4 DEF PipeTypes
<1> QED BY <1>2, <1>5, RoundsStill

\* A round as it is entered has proven nothing.
LEMMA EnteredIs ==
    ASSUME NEW at \in Nat, NEW snapshot \in Nat, NEW draft \in Texts, NEW n \in Nat,
           NEW r, r = Entered(at, snapshot, draft), NEW path,
           path = <<Step(NoFact, "draft_pending", at, "normal")>>
    PROVE  /\ r \in RoundRows /\ r.ref = 0 /\ r.resumeRef = 0 /\ r.state = "draft_pending"
           /\ RoundSound(n, r) /\ RefsUsed(r) /\ path \in Paths /\ PathSound(path, r)
<1>1. "draft_pending" \in States /\ "normal" \in Reasons /\ "normal" \notin Silent /\ NoFact \in Texts
  BY DEF States, Reasons, Silent, Texts
<1>2. r \in RoundRows
  BY <1>1 DEF Entered, RoundRows
<1>3. /\ r.ref = 0 /\ r.resumeRef = 0 /\ r.state = "draft_pending" /\ r.proof = "not_sent"
      /\ r.sentAt = 0 /\ r.heardAt = 0 /\ r.reason = "normal" /\ r.bound = NoFact /\ r.updated = at
  BY DEF Entered
<1>4. RoundSound(n, r)
  BY <1>1, <1>3 DEF RoundSound, Proven, HeardAfter, SilentLong, Recontacted, BoundCurrent
<1>5. RefsUsed(r)
  BY <1>3 DEF RefsUsed
<1>6. PICK s : s = Step(NoFact, "draft_pending", at, "normal")
  OBVIOUS
<1>7. s \in Moves /\ s.from = NoFact /\ s.to = "draft_pending" /\ s.at = at
  BY <1>1, <1>6 DEF Step, Moves
<1>8. path = <<s>> /\ path \in Seq(Moves) /\ Len(path) = 1 /\ path[1] = s /\ path # <<>>
  BY <1>6, <1>7
<1>9. PathSound(path, r)
  BY <1>3, <1>7, <1>8 DEF PathSound
<1> QED BY <1>2, <1>3, <1>4, <1>5, <1>8, <1>9 DEF Paths

LEMMA CreateCommitKeeps ==
    ASSUME PipeInvariant, NEW m \in Makers, CreateCommit(m)
    PROVE  PipeInvariant' /\ SendsStand
<1>1. PipeTypes /\ RowsSound /\ ProofsApart
  BY DEF PipeInvariant
<1>2. PICK new \in Makings : new = making[m]
  BY <1>1 DEF PipeTypes, CreateCommit
<1>3. PICK c \in Candidates : c = new.for
  BY DEF Makings
<1>4. new.at \in Nat /\ new.snapshot \in Nat /\ new.draft \in Texts
  BY DEF Makings
<1>5. PICK row : row = Entered(new.at, new.snapshot, new.draft)
  OBVIOUS
<1>6. PICK path : path = <<Step(NoFact, "draft_pending", new.at, "normal")>>
  OBVIOUS
<1>7. /\ ~Active(c) /\ making' = [making EXCEPT ![m] = NoFact]
      /\ rounds' = [rounds EXCEPT ![c] = Append(@, row)]
      /\ trail' = [trail EXCEPT ![c] = Append(@, path)]
      /\ used' = used /\ facts' = facts /\ intake' = intake /\ clock' = clock
  BY <1>2, <1>3, <1>5, <1>6 DEF CreateCommit, factVars
<1>8. PICK k \in Nat : k = Len(rounds[c])
  BY <1>1 DEF PipeTypes
<1>9. /\ row \in RoundRows /\ row.ref = 0 /\ row.resumeRef = 0
      /\ RoundSound(k + 1, row) /\ RefsUsed(row) /\ path \in Paths /\ PathSound(path, row)
  BY <1>4, <1>5, <1>6, EnteredIs
<1>10. /\ rounds[c] \in Seq(RoundRows) /\ trail[c] \in Seq(Paths) /\ Len(trail[c]) = k
       /\ DOMAIN rounds[c] = 1 .. k
       /\ rounds \in [Candidates -> Seq(RoundRows)] /\ trail \in [Candidates -> Seq(Paths)]
  BY <1>1, <1>8 DEF PipeTypes, RowsSound
<1>11. PICK all : all = Append(rounds[c], row)
  OBVIOUS
<1>12. PICK paths : paths = Append(trail[c], path)
  OBVIOUS
<1>13. /\ all \in Seq(RoundRows) /\ Len(all) = k + 1 /\ all[k + 1] = row
       /\ \A i \in 1 .. k : all[i] = rounds[c][i]
  BY <1>8, <1>9, <1>10, <1>11, AppendProperties
<1>14. /\ paths \in Seq(Paths) /\ Len(paths) = k + 1 /\ paths[k + 1] = path
       /\ \A i \in 1 .. k : paths[i] = trail[c][i]
  BY <1>8, <1>9, <1>10, <1>12, AppendProperties
<1>15. /\ rounds' = [rounds EXCEPT ![c] = all] /\ trail' = [trail EXCEPT ![c] = paths]
  BY <1>7, <1>11, <1>12
<1>16. /\ rounds' \in [Candidates -> Seq(RoundRows)] /\ rounds'[c] = all
       /\ trail' \in [Candidates -> Seq(Paths)] /\ trail'[c] = paths
       /\ \A d \in Candidates : d # c => rounds'[d] = rounds[d] /\ trail'[d] = trail[d]
  BY <1>10, <1>13, <1>14, <1>15
<1>17. PipeTypes'
  BY <1>1, <1>7, <1>16 DEF PipeTypes
<1>18. \A i \in 1 .. k : rounds[c][i].state = "abandoned"
  BY <1>7, <1>10 DEF Active
<1>19. ASSUME NEW d \in Candidates, NEW i \in 1 .. Len(rounds'[d]), ~(d = c /\ i = k + 1)
       PROVE  /\ i \in 1 .. Len(rounds[d]) /\ i \in Nat
              /\ rounds'[d][i] = rounds[d][i] /\ trail'[d][i] = trail[d][i]
              /\ i < Len(rounds'[d]) => rounds[d][i].state = "abandoned"
  <2>1. CASE d = c
    <3>1. i \in 1 .. k
      BY <1>13, <1>16, <1>19, <2>1
    <3> QED BY <1>8, <1>13, <1>14, <1>16, <1>18, <2>1, <3>1
  <2>2. CASE d # c
    <3>1. rounds'[d] = rounds[d] /\ trail'[d] = trail[d]
      BY <1>16, <2>2
    <3>2. i \in 1 .. Len(rounds[d]) /\ i \in Nat
      BY <3>1
    <3>3. i < Len(rounds[d]) => rounds[d][i].state = "abandoned"
      BY <1>1, <3>2, Zenon DEF RowsSound
    <3> QED BY <3>1, <3>2, <3>3
  <2> QED BY <2>1, <2>2
<1>20. ASSUME NEW d \in Candidates, NEW i \in 1 .. Len(rounds'[d]) PROVE RowSoundAt(d, i)'
  <2>1. CASE d = c /\ i = k + 1
    <3>1. rounds'[d][i] = row /\ trail'[d][i] = path /\ ~(i < Len(rounds'[d])) /\ i = k + 1 /\ i \in Nat
      BY <1>13, <1>14, <1>16, <2>1
    <3>2. RoundSound(i, row)'
      BY <1>7, <1>9, <3>1, SoundStays
    <3>3. RefsUsed(row)'
      BY <1>7, <1>9 DEF RefsUsed
    <3> QED BY <1>9, <3>1, <3>2, <3>3, Zenon DEF RowSoundAt
  <2>2. CASE ~(d = c /\ i = k + 1)
    <3>1. PICK r : r = rounds[d][i]
      OBVIOUS
    <3>2. /\ i \in 1 .. Len(rounds[d]) /\ i \in Nat /\ rounds'[d][i] = r
          /\ trail'[d][i] = trail[d][i] /\ (i < Len(rounds'[d]) => r.state = "abandoned")
      BY <1>19, <2>2, <3>1
    <3>3. RoundSound(i, r) /\ RefsUsed(r) /\ PathSound(trail[d][i], r)
      BY <1>1, <3>1, <3>2, Zenon DEF RowsSound
    <3>4. RefsUsed(r)'
      BY <1>7, <3>3 DEF RefsUsed
    <3>5. RoundSound(i, r)'
      BY <1>7, <3>2, <3>3, SoundStays
    <3>6. PathSound(trail'[d][i], r)
      BY <3>2, <3>3, Zenon
    <3> QED BY <3>2, <3>4, <3>5, <3>6, Zenon DEF RowSoundAt
  <2> QED BY <2>1, <2>2
<1>21. \A d \in Candidates : Len(trail'[d]) = Len(rounds'[d])
  BY <1>1, <1>13, <1>14, <1>16 DEF RowsSound
<1>22. (\A d \in Candidates : /\ Len(trail[d]) = Len(rounds[d])
                              /\ \A i \in 1 .. Len(rounds[d]) : RowSoundAt(d, i))'
  BY <1>20, <1>21, Zenon
<1>23. RowsSound'
  BY <1>22, RowsSoundParts, Zenon
<1>24. ASSUME NEW d \in Candidates, NEW e \in Candidates,
              NEW i \in 1 .. Len(rounds'[d]), NEW j \in 1 .. Len(rounds'[e])
       PROVE  ApartAt(d, i, e, j)'
  <2>1. PICK r, s : r = rounds'[d][i] /\ s = rounds'[e][j]
    OBVIOUS
  <2>2. Unshared(r, s) /\ (<<d, i>> # <<e, j>> => Apart(r, s))
    <3>1. CASE r = row \/ s = row
      BY <1>9, <3>1 DEF Unshared, Apart
    <3>2. CASE r # row /\ s # row
      <4>1. ~(d = c /\ i = k + 1) /\ ~(e = c /\ j = k + 1)
        BY <1>13, <1>16, <2>1, <3>2
      <4>2. /\ i \in 1 .. Len(rounds[d]) /\ j \in 1 .. Len(rounds[e])
            /\ r = rounds[d][i] /\ s = rounds[e][j]
        BY <1>19, <2>1, <4>1
      <4> QED BY <1>1, <4>2, Zenon DEF ProofsApart
    <3> QED BY <3>1, <3>2
  <2> QED BY ONLY <2>1, <2>2 DEF ApartAt, Unshared, Apart
<1>25. (\A d, e \in Candidates : \A i \in 1 .. Len(rounds[d]), j \in 1 .. Len(rounds[e]) :
           ApartAt(d, i, e, j))'
  BY <1>24, Zenon
<1>26. ProofsApart'
  BY <1>25, ApartParts, Zenon
<1>27. ASSUME NEW id \in Stored PROVE RowStands(id)
  <2>1. PICK d \in Candidates, i \in 1 .. MaxRounds : id = <<d, i>> /\ i \in DOMAIN rounds[d]
    BY DEF Stored
  <2>2. rounds'[d][i] = rounds[d][i]
    <3>1. CASE d = c
      BY <1>10, <1>13, <1>16, <2>1, <3>1
    <3>2. CASE d # c
      BY <1>16, <3>2
    <3> QED BY <3>1, <3>2
  <2>3. Row(id)' = Row(id)
    BY <2>1, <2>2 DEF Row
  <2> QED BY <2>3 DEF RowStands
<1> QED BY <1>17, <1>23, <1>26, <1>27 DEF PipeInvariant, SendsStand

LEMMA PipeStart == PipeInit => PipeInvariant
<1> SUFFICES ASSUME PipeInit PROVE PipeInvariant
  OBVIOUS
<1>1. {"draft_pending", "greeting_sent"} \subseteq States /\ "normal" \in Reasons /\ "normal" \notin Silent
      /\ NoFact \in Texts
  BY DEF States, Reasons, Silent, Texts
<1>2. PICK a : a = Adopted
  OBVIOUS
<1>3. /\ a \in RoundRows /\ a.ref = 0 /\ a.resumeRef = 0 /\ a.state = "greeting_sent"
      /\ a.proof = "proof_pending" /\ a.sentAt = 0 /\ a.heardAt = 0 /\ a.reason = "normal"
      /\ a.bound = NoFact /\ a.updated = 1
  BY <1>1, <1>2 DEF Adopted, Entered, RoundRows
<1>4. RoundSound(1, a) /\ RefsUsed(a)
  BY <1>1, <1>3 DEF RoundSound, Proven, HeardAfter, SilentLong, Recontacted, BoundCurrent, RefsUsed
<1>5. PICK s, t : /\ s = Step(NoFact, "draft_pending", 1, "normal")
                  /\ t = Step("draft_pending", "greeting_sent", 1, "normal")
  OBVIOUS
<1>6. /\ s \in Moves /\ s.from = NoFact /\ s.to = "draft_pending" /\ s.at = 1
      /\ t \in Moves /\ t.from = "draft_pending" /\ t.to = "greeting_sent" /\ t.at = 1
  BY <1>1, <1>5 DEF Step, Moves
<1>7. <<"draft_pending", "greeting_sent">> \in Edges
  BY DEF Edges
<1>8. PICK path : path = <<s, t>>
  OBVIOUS
<1>9. path \in Seq(Moves) /\ Len(path) = 2 /\ path[1] = s /\ path[2] = t /\ path # <<>>
  BY <1>6, <1>8
<1>10. PathSound(path, a) /\ path \in Paths
  <2>1. \A i \in 2 .. 2 : i = 2
    OBVIOUS
  <2> QED BY <1>3, <1>6, <1>7, <1>9, <2>1 DEF PathSound, Paths
<1>11. \A c \in Candidates : \/ rounds[c] = <<>> /\ trail[c] = <<>>
                             \/ rounds[c] = <<a>> /\ trail[c] = <<path>>
  BY <1>2, <1>5, <1>8 DEF PipeInit
<1>12. <<a>> \in Seq(RoundRows) /\ <<path>> \in Seq(Paths)
  BY <1>3, <1>10
<1>13. rounds \in [Candidates -> Seq(RoundRows)] /\ trail \in [Candidates -> Seq(Paths)]
  <2>1. DOMAIN rounds = Candidates /\ rounds = [c \in Candidates |-> rounds[c]]
    BY DEF PipeInit
  <2>2. DOMAIN trail = Candidates /\ trail = [c \in Candidates |-> trail[c]]
    BY DEF PipeInit
  <2>3. \A c \in Candidates : rounds[c] \in Seq(RoundRows) /\ trail[c] \in Seq(Paths)
    <3>1. <<>> \in Seq(RoundRows) /\ <<>> \in Seq(Paths)
      OBVIOUS
    <3> QED BY <1>11, <1>12, <3>1
  <2> QED BY <2>1, <2>2, <2>3
<1>14. PipeTypes
  BY <1>1, <1>13 DEF PipeInit, PipeTypes
<1>15. ASSUME NEW c \in Candidates, NEW n \in 1 .. Len(rounds[c])
       PROVE  n = 1 /\ rounds[c][n] = a /\ trail[c][n] = path /\ Len(rounds[c]) = 1
  <2>1. rounds[c] # <<>>
    BY <1>13
  <2>2. rounds[c] = <<a>> /\ trail[c] = <<path>>
    BY <1>11, <2>1
  <2>3. Len(<<a>>) = 1 /\ <<a>>[1] = a /\ <<path>>[1] = path
    OBVIOUS
  <2> QED BY <2>2, <2>3
<1>16. \A c \in Candidates : Len(trail[c]) = Len(rounds[c])
  BY <1>11
<1>17. RowsSound
  BY <1>4, <1>10, <1>15, <1>16 DEF RowsSound
<1>18. ProofsApart
  BY <1>3, <1>15 DEF ProofsApart, Unshared, Apart
<1> QED BY <1>14, <1>17, <1>18 DEF PipeInvariant

LEMMA PipeStep ==
    ASSUME PipeInvariant, [PipeNext]_pipeVars
    PROVE  PipeInvariant' /\ SendsStand
<1>1. CASE \E m \in Makers, c \in Candidates : CreateRead(m, c)
  BY <1>1, CreateReadKeeps
<1>2. CASE \E m \in Makers : CreateCommit(m)
  BY <1>2, CreateCommitKeeps
<1>3. CASE \E m \in Makers : CreateEnds(m)
  BY <1>3, CreateEndsKeeps
<1>4. CASE \E c \in Candidates, n \in 1 .. MaxRounds, at \in Lately : Change(c, n, at)
  <2>1. PICK c \in Candidates, n \in 1 .. MaxRounds, at \in Lately : Change(c, n, at)
    BY <1>4
  <2>2. n \in Nat /\ at \in Nat
    BY DEF Lately
  <2> QED BY <2>1, <2>2, ChangeKeeps
<1>5. CASE \E c \in Candidates, n \in 1 .. MaxRounds, f \in 1 .. Newest : ReadbackFault(c, n, f)
  BY <1>5, ReadbackFaultKeeps
<1>6. CASE IntakeMoves \/ PipeTick
  BY <1>6, IntakeKeeps
<1>7. CASE UNCHANGED pipeVars
  <2>1. PipeTypes'
    BY <1>7 DEF pipeVars, factVars, PipeInvariant, PipeTypes
  <2> QED BY <1>7, <2>1, RoundsStill DEF pipeVars, factVars
<1> QED BY <1>1, <1>2, <1>3, <1>4, <1>5, <1>6, <1>7 DEF PipeNext

\* What the invariant says of the stored rounds.
LEMMA PipeShows == PipeInvariant => PipelineSound
<1> SUFFICES ASSUME PipeInvariant PROVE PipelineSound
  OBVIOUS
<1>1. ASSUME NEW id \in Stored
      PROVE  /\ id \in Candidates \X (1 .. MaxRounds)
             /\ id[1] \in Candidates /\ id[2] \in 1 .. Len(rounds[id[1]])
             /\ id = <<id[1], id[2]>> /\ Row(id) = rounds[id[1]][id[2]]
  BY DEF Stored, Row, PipeInvariant, PipeTypes
<1>2. ASSUME NEW id \in Stored
      PROVE  /\ RoundSound(id[2], Row(id)) /\ PathSound(trail[id[1]][id[2]], Row(id))
             /\ id[2] < Len(rounds[id[1]]) => Row(id).state = "abandoned"
  BY <1>1, Zenon DEF PipeInvariant, RowsSound
<1>3. HistoryTrue
  BY <1>2, Zenon DEF HistoryTrue, PathSound
<1>4. SendsProveOnce
  <2>1. ASSUME NEW id \in Stored, NEW other \in Stored
        PROVE  /\ Unshared(Row(id), Row(other))
               /\ id # other => Apart(Row(id), Row(other))
    <3>1. PICK d, n, e, m : d = id[1] /\ n = id[2] /\ e = other[1] /\ m = other[2]
      OBVIOUS
    <3>2. /\ d \in Candidates /\ n \in 1 .. Len(rounds[d]) /\ id = <<d, n>> /\ Row(id) = rounds[d][n]
          /\ e \in Candidates /\ m \in 1 .. Len(rounds[e]) /\ other = <<e, m>> /\ Row(other) = rounds[e][m]
      BY <1>1, <3>1
    <3> QED BY <3>2, Zenon DEF PipeInvariant, ProofsApart
  <2> QED BY <2>1, Zenon DEF SendsProveOnce, Unshared, Apart
<1>5. SilenceFair
  BY <1>2, Zenon DEF SilenceFair, RoundSound, SilentLong
<1>6. RepliesOfRound
  BY <1>2, Zenon DEF RepliesOfRound, RoundSound, HeardAfter
<1>7. RecontactFresh
  BY <1>2, Zenon DEF RecontactFresh, RoundSound, Recontacted
<1>8. BindingCurrent
  BY <1>2, Zenon DEF BindingCurrent, RoundSound, BoundCurrent
<1> QED BY <1>3, <1>4, <1>5, <1>6, <1>7, <1>8 DEF PipelineSound

\* What a round of the pipeline says happened is proven by the facts of its own time and by no
\* fact twice, its history is a path of the graph, and silence closes it only after the deadline
\* (pipeline_sync.py, pipeline_proofs.py).
THEOREM RoundsProven == PipeSpec => []PipelineSound
<1>1. PipeInvariant /\ [PipeNext]_pipeVars => PipeInvariant'
  BY PipeStep
<1>2. PipeInvariant => PipelineSound
  BY PipeShows
<1> QED BY PipeStart, <1>1, <1>2, PTL DEF PipeSpec

\* What was sent stays as it was recorded, and a closed round stays closed (context, sync): the
\* part of HiringHistory about the pipeline.
THEOREM SendsOnRecordStand == PipeSpec => SentStands
<1>1. PipeInvariant /\ [PipeNext]_pipeVars => PipeInvariant'
  BY PipeStep
<1>2. ASSUME PipeInvariant, [PipeNext]_pipeVars
      PROVE  [\A id \in Stored :
                 /\ Row(id).ref # 0 => /\ Row(id)'.ref = Row(id).ref /\ Row(id)'.sentAt = Row(id).sentAt
                                       /\ Row(id)'.sentText = Row(id).sentText
                 /\ Row(id).state = "abandoned" => Row(id)' = Row(id)]_pipeVars
  <2>1. SendsStand
    BY <1>2, PipeStep
  <2> QED BY <2>1, Zenon DEF SendsStand, RowStands
<1> QED BY PipeStart, <1>1, <1>2, PTL DEF PipeSpec, SentStands

-----------------------------------------------------------------------------
Turns == [to : RecordStates, at : Nat]
HistoryRows == [at : Nat, turn : Turns]
Answers == [stale : BOOLEAN, about : SUBSET Records]
SightRows == [page : Pages, at : Nat, answer : {Unfiled} \cup Answers]
Judgements ==
    [nth : Nat, step : {"filed", "judged", "reading"}, stale : BOOLEAN, about : SUBSET Records,
     unread : SUBSET Records, todo : [Records -> Nat]]

Standing(r) == Underway(Last(history[r]))

RoundTypes ==
    /\ instant \in Nat \ {0} /\ authority \in Nat
    /\ history \in [Records -> Seq(HistoryRows)] /\ pausedBy \in [Records -> SUBSET Pages]
    /\ sightings \in Seq(SightRows)
    /\ judging = [d \in Reporters |-> judging[d]]

\* A record has a row from the first moment on, and its last row is its newest.
HistorySound ==
    \A r \in Records :
        /\ Len(history[r]) >= 1 /\ history[r][1].at = 1
        /\ \A n \in 1 .. Len(history[r]) : history[r][n].at <= Last(history[r]).at

\* A loss seen on a page has paused the record, unless it was closed or has newer evidence.
PausedFor(page, at, r) ==
    \/ page \in pausedBy[r]
    \/ ~Standing(r)
    \/ Last(history[r]).at > at

\* Records still to be paused were live as they were read; those neither to be paused nor to be
\* read are done with.
StillToDo(todo) ==
    \A r \in Records : todo[r] # 0 =>
        todo[r] \in 1 .. Len(history[r]) /\ Underway(history[r][todo[r]])
DoneOrToDo(n, about, unread, todo) ==
    \A r \in about : r \in unread \/ todo[r] # 0 \/ PausedFor(sightings[n].page, sightings[n].at, r)
JudgedBy(j) ==
    /\ j \in Judgements
    /\ StillToDo(j.todo)
    /\ j.step = "reading" /\ sightings[j.nth].page \in Lost /\ ~j.stale =>
           DoneOrToDo(j.nth, j.about, j.unread, j.todo)

JudgeSound ==
    \A d \in Reporters : judging[d] # Unfiled =>
        judging[d].nth \in 1 .. Len(sightings) /\ JudgedBy(judging[d])

RoundInvariant == RoundTypes /\ HistorySound /\ JudgeSound /\ LossPauses

----
(* What steps have in common. *)

\* A change of a record comes last and is of its last moment or a later one, while it is live.
Grown(r) ==
    \/ history'[r] = history[r]
    \/ Standing(r) /\ \E row \in HistoryRows :
           row.at >= Last(history[r]).at /\ history'[r] = Append(history[r], row)
RecordsGrow ==
    /\ history' \in [Records -> Seq(HistoryRows)] /\ pausedBy' \in [Records -> SUBSET Pages]
    /\ \A r \in Records : Grown(r) /\ pausedBy[r] \subseteq pausedBy'[r]

\* Observations stay as they were seen.
SightingsKeep ==
    /\ sightings' \in Seq(SightRows) /\ Len(sightings) <= Len(sightings')
    /\ \A n \in 1 .. Len(sightings) :
           sightings'[n].at = sightings[n].at /\ sightings'[n].page = sightings[n].page

RoundGoes == RecordsGrow /\ SightingsKeep

LossFor(n) ==
    LET s == sightings[n] IN
    s.page \in Lost /\ s.answer # Unfiled /\ ~s.answer.stale =>
        \A r \in s.answer.about : PausedFor(s.page, s.at, r)

LEMMA SightingsAre ==
    ASSUME RoundTypes
    PROVE  /\ Len(sightings) \in Nat /\ DOMAIN sightings = 1 .. Len(sightings)
           /\ \A n \in 1 .. Len(sightings) :
                  /\ sightings[n].page \in Pages /\ sightings[n].at \in Nat
                  /\ sightings[n].answer # Unfiled => sightings[n].answer \in Answers
<1>1. sightings \in Seq(SightRows)
  BY DEF RoundTypes
<1>2. Len(sightings) \in Nat /\ DOMAIN sightings = 1 .. Len(sightings)
  BY <1>1
<1>3. ASSUME NEW n \in 1 .. Len(sightings) PROVE sightings[n] \in SightRows
  BY <1>1, ElementOfSeq
<1> QED BY <1>2, <1>3 DEF SightRows

LEMMA RecordIs ==
    ASSUME RoundTypes, HistorySound, NEW r \in Records
    PROVE  /\ history[r] \in Seq(HistoryRows) /\ Len(history[r]) \in Nat \ {0}
           /\ DOMAIN history[r] = 1 .. Len(history[r])
           /\ Last(history[r]) = history[r][Len(history[r])]
           /\ \A n \in 1 .. Len(history[r]) :
                  history[r][n].at \in Nat /\ history[r][n].at <= Last(history[r]).at
           /\ Last(history[r]).at \in Nat
           /\ history[r][1].at = 1
<1>1. history[r] \in Seq(HistoryRows)
  BY DEF RoundTypes
<1>2. Len(history[r]) \in Nat \ {0} /\ DOMAIN history[r] = 1 .. Len(history[r])
  BY <1>1 DEF HistorySound
<1>3. Last(history[r]) = history[r][Len(history[r])]
  BY DEF Last
<1>4. ASSUME NEW n \in 1 .. Len(history[r]) PROVE history[r][n] \in HistoryRows
  BY <1>1, ElementOfSeq
<1>5. \A n \in 1 .. Len(history[r]) : history[r][n].at \in Nat
  BY <1>4 DEF HistoryRows
<1>6. Len(history[r]) \in 1 .. Len(history[r])
  BY <1>2
<1>7. Last(history[r]).at \in Nat
  BY <1>3, <1>5, <1>6
<1> QED BY <1>1, <1>2, <1>3, <1>5, <1>7 DEF HistorySound

\* What a grown record keeps of its rows, and its last is no older.
LEMMA GrownIs ==
    ASSUME RoundTypes, HistorySound, RecordsGrow, NEW r \in Records
    PROVE  /\ Len(history[r]) <= Len(history'[r]) /\ Len(history'[r]) \in Nat
           /\ \A n \in 1 .. Len(history[r]) : history'[r][n] = history[r][n]
           /\ \A n \in 1 .. Len(history'[r]) : history'[r][n].at <= Last(history'[r]).at
           /\ Last(history'[r]).at \in Nat /\ Last(history'[r]).at >= Last(history[r]).at
           /\ history'[r] = history[r] \/ Standing(r)
<1>1. CASE history'[r] = history[r]
  <2>1. Last(history'[r]) = Last(history[r])
    BY <1>1
  <2> QED BY <1>1, <2>1, RecordIs
<1>2. ASSUME NEW row \in HistoryRows, row.at >= Last(history[r]).at,
             history'[r] = Append(history[r], row), Standing(r)
      PROVE  /\ Len(history[r]) <= Len(history'[r]) /\ Len(history'[r]) \in Nat
             /\ \A n \in 1 .. Len(history[r]) : history'[r][n] = history[r][n]
             /\ \A n \in 1 .. Len(history'[r]) : history'[r][n].at <= Last(history'[r]).at
             /\ Last(history'[r]).at \in Nat /\ Last(history'[r]).at >= Last(history[r]).at
  <2>1. PICK h \in Seq(HistoryRows) : h = history[r]
    BY RecordIs
  <2>2. /\ \A n \in 1 .. Len(h) : Append(h, row)[n] = h[n]
        /\ Append(h, row)[Len(h) + 1] = row
        /\ Len(Append(h, row)) = Len(h) + 1 /\ Len(h) \in Nat
    BY <2>1
  <2>3. Last(history'[r]) = row
    BY <1>2, <2>1, <2>2 DEF Last
  <2>4. \A n \in 1 .. Len(h) : h[n].at \in Nat /\ h[n].at <= Last(h).at
    BY <2>1, RecordIs
  <2>5. row.at \in Nat /\ Last(h).at \in Nat /\ row.at >= Last(h).at
    BY <1>2, <2>1, RecordIs DEF HistoryRows
  <2>6. \A n \in 1 .. Len(h) + 1 : Append(h, row)[n].at <= row.at
    <3>1. ASSUME NEW n \in 1 .. Len(h) + 1 PROVE n \in 1 .. Len(h) \/ n = Len(h) + 1
      BY <2>2
    <3> QED BY <2>2, <2>4, <2>5, <3>1
  <2>7. history'[r] = Append(h, row)
    BY <1>2, <2>1
  <2> QED BY <2>1, <2>2, <2>3, <2>5, <2>6, <2>7
<1>3. Grown(r)
  BY DEF RecordsGrow
<1> QED BY <1>1, <1>2, <1>3, Zenon DEF Grown

LEMMA HistoryKept ==
    ASSUME RoundTypes, HistorySound, RecordsGrow
    PROVE  HistorySound'
<1>1. ASSUME NEW r \in Records
      PROVE  /\ Len(history'[r]) >= 1 /\ history'[r][1].at = 1
             /\ \A n \in 1 .. Len(history'[r]) : history'[r][n].at <= Last(history'[r]).at
  BY GrownIs, RecordIs
<1> QED BY <1>1 DEF HistorySound

\* What was paused for a page, closed or newer stays so.
LEMMA PausedStays ==
    ASSUME RoundTypes, HistorySound, RecordsGrow, NEW r \in Records, NEW at \in Nat, NEW page,
           PausedFor(page, at, r)
    PROVE  PausedFor(page, at, r)'
<1>1. CASE page \in pausedBy[r]
  BY <1>1 DEF PausedFor, RecordsGrow
<1>2. CASE ~Standing(r)
  <2>1. history'[r] = history[r]
    BY <1>2, GrownIs
  <2> QED BY <1>2, <2>1 DEF PausedFor, Standing
<1>3. CASE Last(history[r]).at > at
  <2>1. Last(history'[r]).at > at
    BY <1>3, GrownIs, RecordIs
  <2> QED BY <2>1 DEF PausedFor
<1> QED BY <1>1, <1>2, <1>3 DEF PausedFor

LEMMA JudgedStays ==
    ASSUME RoundTypes, HistorySound, RecordsGrow, SightingsKeep, NEW j, j.nth \in 1 .. Len(sightings),
           JudgedBy(j)
    PROVE  JudgedBy(j)'
<1>1. j \in Judgements
  BY Zenon DEF JudgedBy
<1>2. PICK n, about, unread, todo : n = j.nth /\ about = j.about /\ unread = j.unread /\ todo = j.todo
  OBVIOUS
<1>3. n \in 1 .. Len(sightings) /\ about \in SUBSET Records /\ todo \in [Records -> Nat]
  BY <1>1, <1>2 DEF Judgements
<1>4. StillToDo(todo)
  BY <1>2, Zenon DEF JudgedBy
<1>5. StillToDo(todo)'
  <2>1. ASSUME NEW r \in Records, todo[r] # 0
        PROVE  todo[r] \in 1 .. Len(history'[r]) /\ Underway(history'[r][todo[r]])
    <3>1. todo[r] \in 1 .. Len(history[r]) /\ Underway(history[r][todo[r]])
      BY <1>4, <2>1 DEF StillToDo
    <3>2. /\ Len(history[r]) <= Len(history'[r]) /\ Len(history'[r]) \in Nat /\ Len(history[r]) \in Nat
          /\ history'[r][todo[r]] = history[r][todo[r]]
      BY <3>1, GrownIs, RecordIs
    <3> QED BY <3>1, <3>2
  <2> QED BY <2>1, Zenon DEF StillToDo, Underway
<1>6. sightings'[n].page = sightings[n].page /\ sightings'[n].at = sightings[n].at
  BY <1>3 DEF SightingsKeep
<1>7. ASSUME DoneOrToDo(n, about, unread, todo) PROVE DoneOrToDo(n, about, unread, todo)'
  <2>1. ASSUME NEW r \in about, r \notin unread, todo[r] = 0
        PROVE  PausedFor(sightings[n].page, sightings[n].at, r)'
    <3>1. PICK page, at : page = sightings[n].page /\ at = sightings[n].at
      OBVIOUS
    <3>2. at \in Nat /\ r \in Records
      BY <1>3, <3>1, SightingsAre
    <3>3. PausedFor(page, at, r)
      BY <1>7, <2>1, <3>1 DEF DoneOrToDo
    <3>4. PausedFor(page, at, r)'
      BY <3>2, <3>3, PausedStays
    <3> QED BY <1>6, <3>1, <3>4 DEF PausedFor
  <2> QED BY <2>1, Zenon DEF DoneOrToDo
<1>8. ASSUME j.step = "reading", sightings[j.nth].page \in Lost, ~j.stale
      PROVE  DoneOrToDo(n, about, unread, todo)
  BY <1>2, <1>8, Zenon DEF JudgedBy
<1>9. ASSUME j.step = "reading", sightings'[j.nth].page \in Lost, ~j.stale
      PROVE  DoneOrToDo(j.nth, j.about, j.unread, j.todo)'
  <2>1. DoneOrToDo(n, about, unread, todo)'
    BY <1>2, <1>6, <1>7, <1>8, <1>9
  <2> QED BY <1>2, <2>1, Zenon
<1> QED BY <1>1, <1>2, <1>5, <1>9, Zenon DEF JudgedBy

\* One process judges, the others hold what they have read.
LEMMA JudgeKept ==
    ASSUME RoundInvariant, RecordsGrow, SightingsKeep, NEW d,
           \A e \in Reporters \ {d} : judging'[e] = judging[e],
           d \in Reporters /\ judging'[d] # Unfiled =>
               judging'[d].nth \in 1 .. Len(sightings') /\ JudgedBy(judging[d])'
    PROVE  JudgeSound'
<1> SUFFICES ASSUME NEW e \in Reporters, judging'[e] # Unfiled
             PROVE  judging'[e].nth \in 1 .. Len(sightings') /\ JudgedBy(judging[e])'
  BY DEF JudgeSound
<1>1. CASE e = d
  BY <1>1
<1>2. CASE e # d
  <2>1. PICK j : j = judging[e]
    OBVIOUS
  <2>2. judging'[e] = j
    BY <1>2, <2>1
  <2>3. j.nth \in 1 .. Len(sightings) /\ JudgedBy(j)
    BY <2>1, <2>2, Zenon DEF RoundInvariant, JudgeSound
  <2>4. j.nth \in 1 .. Len(sightings')
    BY <2>3, SightingsAre DEF SightingsKeep, RoundInvariant
  <2>5. JudgedBy(j)'
    BY <2>3, JudgedStays DEF RoundInvariant
  <2> QED BY <2>2, <2>4, <2>5, Zenon DEF JudgedBy, StillToDo, DoneOrToDo
<1> QED BY <1>1, <1>2

LEMMA LossKept ==
    ASSUME RoundInvariant, RecordsGrow, SightingsKeep,
           \A n \in 1 .. Len(sightings') :
               \/ n \in 1 .. Len(sightings) /\ sightings'[n].answer = sightings[n].answer
               \/ sightings'[n].answer = Unfiled
               \/ LossFor(n)'
    PROVE  LossPauses'
<1>1. DOMAIN sightings' = 1 .. Len(sightings')
  BY DEF SightingsKeep
<1>2. ASSUME NEW n \in 1 .. Len(sightings) PROVE LossFor(n)
  BY SightingsAre DEF RoundInvariant, LossPauses, LossFor, PausedFor, Standing
<1>3. ASSUME NEW n \in 1 .. Len(sightings), sightings'[n].answer = sightings[n].answer
      PROVE  LossFor(n)'
  <2>1. PICK page, at, answer :
            page = sightings[n].page /\ at = sightings[n].at /\ answer = sightings[n].answer
    OBVIOUS
  <2>2. sightings'[n].page = page /\ sightings'[n].at = at /\ sightings'[n].answer = answer
    BY <1>3, <2>1 DEF SightingsKeep
  <2>3. at \in Nat /\ (answer # Unfiled => answer \in Answers)
    BY <2>1, SightingsAre DEF RoundInvariant
  <2>4. SUFFICES ASSUME page \in Lost, answer # Unfiled, ~answer.stale, NEW r \in answer.about
                 PROVE  PausedFor(page, at, r)'
    BY <2>2, Zenon DEF LossFor
  <2>5. r \in Records
    BY <2>3, <2>4 DEF Answers
  <2>6. PausedFor(page, at, r)
    BY <1>2, <2>1, <2>4, Zenon DEF LossFor
  <2> QED BY <2>3, <2>5, <2>6, PausedStays DEF RoundInvariant
<1>4. ASSUME NEW n \in 1 .. Len(sightings') PROVE LossFor(n)'
  BY <1>3 DEF LossFor
<1> QED BY <1>1, <1>4, Zenon DEF LossPauses, LossFor, PausedFor, Standing

----
(* The steps. *)

LEMMA RecordsSame ==
    ASSUME RoundTypes, history' = history, pausedBy' = pausedBy
    PROVE  RecordsGrow
BY DEF RoundTypes, RecordsGrow, Grown

LEMMA SightingsSame ==
    ASSUME RoundTypes, sightings' = sightings
    PROVE  SightingsKeep
<1>1. Len(sightings') = Len(sightings) /\ Len(sightings) \in Nat
  BY SightingsAre
<1> QED BY <1>1 DEF RoundTypes, SightingsKeep

\* Steps that only read.
LEMMA NothingMoved ==
    ASSUME RoundInvariant, UNCHANGED <<history, pausedBy, sightings>>
    PROVE  RoundGoes /\ HistorySound' /\ LossPauses'
<1>1. RecordsGrow /\ SightingsKeep
  BY RecordsSame, SightingsSame DEF RoundInvariant
<1>2. HistorySound'
  BY <1>1, HistoryKept DEF RoundInvariant
<1>3. LossPauses'
  BY DEF RoundInvariant, LossPauses
<1> QED BY <1>1, <1>2, <1>3 DEF RoundGoes

LEMMA JudgeSame ==
    ASSUME JudgeSound, UNCHANGED <<history, pausedBy, sightings, judging>>
    PROVE  JudgeSound'
BY Zenon DEF JudgeSound, JudgedBy, StillToDo, DoneOrToDo, PausedFor, Standing

LEMMA TickKeeps ==
    ASSUME RoundInvariant, instant' = instant \/ instant' = instant + 1,
           UNCHANGED <<authority, history, pausedBy, sightings, judging>>
    PROVE  RoundInvariant' /\ RoundGoes
<1>1. RoundTypes'
  BY DEF RoundInvariant, RoundTypes
<1>2. JudgeSound'
  BY JudgeSame DEF RoundInvariant
<1> QED BY <1>1, <1>2, NothingMoved DEF RoundInvariant

LEMMA TakeAuthorityKeeps == ASSUME RoundInvariant, TakeAuthority PROVE RoundInvariant' /\ RoundGoes
<1>1. authority' \in 1 .. instant /\ UNCHANGED <<instant, history, pausedBy, sightings, judging>>
  BY DEF TakeAuthority
<1>2. RoundTypes'
  BY <1>1 DEF RoundInvariant, RoundTypes
<1>3. JudgeSound'
  BY <1>1, JudgeSame DEF RoundInvariant
<1> QED BY <1>1, <1>2, <1>3, NothingMoved DEF RoundInvariant

\* A row is added to a live record, no older than its last.
Added(r, row) ==
    /\ Standing(r) /\ row.at >= Last(history[r]).at
    /\ history' = [history EXCEPT ![r] = Append(@, row)]

LEMMA AddedIs ==
    ASSUME RoundInvariant, NEW r \in Records, NEW row \in HistoryRows, Added(r, row),
           pausedBy' \in [Records -> SUBSET Pages], \A q \in Records : pausedBy[q] \subseteq pausedBy'[q],
           sightings' = sightings
    PROVE  /\ RecordsGrow /\ SightingsKeep /\ HistorySound' /\ LossPauses'
           /\ history' \in [Records -> Seq(HistoryRows)]
<1>1. history'[r] = Append(history[r], row) /\ \A q \in Records \ {r} : history'[q] = history[q]
  BY DEF Added, RoundInvariant, RoundTypes
<1>2. history' \in [Records -> Seq(HistoryRows)]
  <2>1. history \in [Records -> Seq(HistoryRows)] /\ history[r] \in Seq(HistoryRows)
    BY DEF RoundInvariant, RoundTypes
  <2>2. Append(history[r], row) \in Seq(HistoryRows)
    BY <2>1
  <2> QED BY <2>1, <2>2 DEF Added
<1>3. \A q \in Records : Grown(q)
  BY <1>1 DEF Grown, Added
<1>4. RecordsGrow
  BY <1>2, <1>3 DEF RecordsGrow
<1>5. SightingsKeep
  BY SightingsSame DEF RoundInvariant
<1>6. HistorySound'
  BY <1>4, HistoryKept DEF RoundInvariant
<1>7. LossPauses'
  BY <1>4, <1>5, LossKept
<1> QED BY <1>2, <1>4, <1>5, <1>6, <1>7

LEMMA LastRowIs ==
    ASSUME RoundInvariant, NEW r \in Records
    PROVE  Last(history[r]) \in HistoryRows
<1>1. history[r] \in Seq(HistoryRows) /\ Len(history[r]) \in Nat \ {0}
      /\ Last(history[r]) = history[r][Len(history[r])]
  BY RecordIs DEF RoundInvariant
<1> QED BY <1>1, ElementOfSeq

LEMMA ChangeRecordKeeps ==
    ASSUME RoundInvariant, NEW r \in Records, ChangeRecord(r)
    PROVE  RoundInvariant' /\ RoundGoes
<1>1. PICK row \in HistoryRows : Added(r, row)
  <2>1. PICK at \in Last(history[r]).at .. instant, to \in RecordStates :
            history' = [history EXCEPT ![r] = Append(@, RowAt(at,
                IF to = Last(history[r]).turn.to THEN Last(history[r]).turn ELSE Turn(to, at)))]
    BY DEF ChangeRecord
  <2>2. Last(history[r]).at \in Nat /\ instant \in Nat
    BY RecordIs DEF RoundInvariant, RoundTypes
  <2>3. at \in Nat /\ at >= Last(history[r]).at
    BY <2>1, <2>2
  <2>4. PICK turn : turn = IF to = Last(history[r]).turn.to THEN Last(history[r]).turn ELSE Turn(to, at)
    OBVIOUS
  <2>5. turn \in Turns
    BY <2>3, <2>4, LastRowIs DEF Turn, Turns, HistoryRows
  <2>6. PICK row : row = RowAt(at, turn)
    OBVIOUS
  <2>7. row \in HistoryRows /\ row.at = at
    BY <2>3, <2>5, <2>6 DEF RowAt, HistoryRows
  <2>8. Standing(r)
    BY DEF ChangeRecord, Standing
  <2>9. history' = [history EXCEPT ![r] = Append(@, row)]
    BY <2>1, <2>4, <2>6
  <2> QED BY <2>3, <2>7, <2>8, <2>9 DEF Added
<1>2. UNCHANGED <<instant, authority, pausedBy, sightings, judging>>
  BY DEF ChangeRecord
<1>3. pausedBy' \in [Records -> SUBSET Pages] /\ \A q \in Records : pausedBy[q] \subseteq pausedBy'[q]
  BY <1>2 DEF RoundInvariant, RoundTypes
<1>4. /\ RecordsGrow /\ SightingsKeep /\ HistorySound' /\ LossPauses'
      /\ history' \in [Records -> Seq(HistoryRows)]
  BY <1>1, <1>2, <1>3, AddedIs
<1>5. RoundTypes'
  BY <1>2, <1>4 DEF RoundInvariant, RoundTypes
<1>6. JudgeSound'
  <2>1. ASSUME NEW d \in Reporters, judging'[d] # Unfiled
        PROVE  judging'[d].nth \in 1 .. Len(sightings') /\ JudgedBy(judging[d])'
    <3>1. PICK j : j = judging[d]
      OBVIOUS
    <3>2. judging'[d] = j /\ sightings' = sightings
      BY <1>2, <3>1
    <3>3. j.nth \in 1 .. Len(sightings) /\ JudgedBy(j)
      BY <2>1, <3>1, <3>2, Zenon DEF RoundInvariant, JudgeSound
    <3>4. JudgedBy(j)'
      BY <1>4, <3>3, JudgedStays DEF RoundInvariant
    <3> QED BY <3>2, <3>3, <3>4, Zenon DEF JudgedBy, StillToDo, DoneOrToDo
  <2> QED BY <2>1, Zenon DEF JudgeSound
<1> QED BY <1>4, <1>5, <1>6 DEF RoundInvariant, RoundGoes

\* A process takes up a page or lays it down.
LEMMA JudgingMoves ==
    ASSUME RoundInvariant, NEW d \in Reporters, NEW j,
           judging' = [judging EXCEPT ![d] = j],
           UNCHANGED <<instant, authority, history, pausedBy, sightings>>,
           j # Unfiled => j.nth \in 1 .. Len(sightings) /\ JudgedBy(j)
    PROVE  RoundInvariant' /\ RoundGoes
<1>1. RecordsGrow /\ SightingsKeep /\ HistorySound' /\ LossPauses'
  BY NothingMoved DEF RoundGoes
<1>2. judging = [e \in Reporters |-> judging[e]]
  BY DEF RoundInvariant, RoundTypes
<1>3. /\ judging'[d] = j /\ \A e \in Reporters \ {d} : judging'[e] = judging[e]
      /\ judging' = [e \in Reporters |-> judging'[e]]
  BY <1>2
<1>4. RoundTypes'
  BY <1>3 DEF RoundInvariant, RoundTypes
<1>5. ASSUME j # Unfiled PROVE JudgedBy(judging[d])'
  <2>1. JudgedBy(j)
    BY <1>5
  <2> QED BY <1>3, <2>1, Zenon DEF JudgedBy, StillToDo, DoneOrToDo, PausedFor, Standing
<1>6. JudgeSound'
  BY <1>1, <1>3, <1>5, JudgeKept
<1> QED BY <1>1, <1>4, <1>6 DEF RoundInvariant, RoundGoes

LEMMA TakenUpIs ==
    ASSUME NEW n \in Nat
    PROVE  /\ TakenUp(n) \in Judgements /\ TakenUp(n).nth = n /\ TakenUp(n).step = "filed"
           /\ \A r \in Records : TakenUp(n).todo[r] = 0
<1>1. PICK todo : todo = NoneToPause
  OBVIOUS
<1>2. todo \in [Records -> Nat] /\ \A r \in Records : todo[r] = 0
  BY <1>1 DEF NoneToPause
<1>3. PICK stale \in BOOLEAN : stale = FALSE
  OBVIOUS
<1>4. TakenUp(n) =
          [nth |-> n, step |-> "filed", stale |-> stale, about |-> {}, unread |-> {}, todo |-> todo]
  BY <1>1, <1>3, Zenon DEF TakenUp, Judgement
<1> QED BY <1>2, <1>4 DEF Judgements

LEMMA JudgementIs ==
    ASSUME NEW n \in Nat, NEW step \in {"filed", "judged", "reading"}, NEW stale \in BOOLEAN,
           NEW about \in SUBSET Records, NEW unread \in SUBSET Records, NEW todo \in [Records -> Nat],
           NEW j, j = Judgement(n, step, stale, about, unread, todo)
    PROVE  /\ j \in Judgements /\ j.nth = n /\ j.step = step /\ j.stale = stale /\ j.about = about
           /\ j.unread = unread /\ j.todo = todo
BY DEF Judgement, Judgements

\* What a process that has taken up a page holds.
LEMMA HeldIs ==
    ASSUME RoundInvariant, NEW d \in Reporters, judging[d] # Unfiled
    PROVE  /\ judging[d] \in Judgements /\ judging[d].nth \in 1 .. Len(sightings)
           /\ JudgedBy(judging[d])
BY Zenon DEF RoundInvariant, JudgeSound, JudgedBy

LEMMA FileAgainKeeps ==
    ASSUME RoundInvariant, NEW d \in Reporters, NEW n \in DOMAIN sightings, FileAgain(d, n)
    PROVE  RoundInvariant' /\ RoundGoes
<1>1. n \in 1 .. Len(sightings) /\ n \in Nat
  BY SightingsAre DEF RoundInvariant
<1>2. PICK j : j = TakenUp(n)
  OBVIOUS
<1>3. j \in Judgements /\ j.nth = n /\ j.step = "filed" /\ \A r \in Records : j.todo[r] = 0
  BY <1>1, <1>2, TakenUpIs
<1>4. JudgedBy(j)
  BY <1>3, Zenon DEF JudgedBy, StillToDo
<1>5. /\ judging' = [judging EXCEPT ![d] = j]
      /\ UNCHANGED <<instant, authority, history, pausedBy, sightings>>
  BY <1>2 DEF FileAgain
<1> QED BY <1>1, <1>3, <1>4, <1>5, JudgingMoves

LEMMA JudgingEndsKeeps ==
    ASSUME RoundInvariant, NEW d \in Reporters, JudgingEnds(d)
    PROVE  RoundInvariant' /\ RoundGoes
<1>1. /\ judging' = [judging EXCEPT ![d] = Unfiled]
      /\ UNCHANGED <<instant, authority, history, pausedBy, sightings>>
  BY DEF JudgingEnds
<1> QED BY <1>1, JudgingMoves

LEMMA JudgePageKeeps ==
    ASSUME RoundInvariant, NEW d \in Reporters, JudgePage(d)
    PROVE  RoundInvariant' /\ RoundGoes
<1>1. judging[d] # Unfiled
  BY Zenon DEF JudgePage, At
<1>2. PICK n : n = judging[d].nth
  OBVIOUS
<1>3. n \in 1 .. Len(sightings) /\ n \in Nat
  BY <1>1, <1>2, HeldIs, SightingsAre DEF RoundInvariant
<1>4. PICK stale \in BOOLEAN : stale = (NewestPage(LastInstant) # n)
  OBVIOUS
<1>5. NoneToPause \in [Records -> Nat] /\ \A r \in Records : NoneToPause[r] = 0
  BY DEF NoneToPause
<1>6. PICK j : j = Judgement(n, "judged", stale, {}, {}, NoneToPause)
  OBVIOUS
<1>7. j \in Judgements /\ j.nth = n /\ j.step = "judged" /\ j.todo = NoneToPause
  BY <1>3, <1>5, <1>6, JudgementIs
<1>8. JudgedBy(j)
  BY <1>5, <1>7, Zenon DEF JudgedBy, StillToDo
<1>9. judging' = [judging EXCEPT ![d] = j]
  BY <1>2, <1>4, <1>6, Zenon DEF JudgePage
<1>10. UNCHANGED <<instant, authority, history, pausedBy, sightings>>
  BY DEF JudgePage
<1> QED BY <1>3, <1>7, <1>8, <1>9, <1>10, JudgingMoves

LEMMA FindRecordsKeeps ==
    ASSUME RoundInvariant, NEW d \in Reporters, FindRecords(d)
    PROVE  RoundInvariant' /\ RoundGoes
<1>1. judging[d] # Unfiled
  BY Zenon DEF FindRecords, At
<1>2. PICK n, stale, s : n = judging[d].nth /\ stale = judging[d].stale /\ s = sightings[n]
  OBVIOUS
<1>3. n \in 1 .. Len(sightings) /\ n \in Nat /\ stale \in BOOLEAN
  BY <1>1, <1>2, HeldIs, SightingsAre DEF RoundInvariant, Judgements
<1>4. PICK about \in SUBSET Records : about = About(s.at)
  BY DEF About, Records
<1>5. PICK unread \in SUBSET Records :
          unread = IF s.page \in Lost /\ ~stale THEN about ELSE {}
  OBVIOUS
<1>6. NoneToPause \in [Records -> Nat] /\ \A r \in Records : NoneToPause[r] = 0
  BY DEF NoneToPause
<1>7. PICK j : j = Judgement(n, "reading", stale, about, unread, NoneToPause)
  OBVIOUS
<1>8. /\ j \in Judgements /\ j.nth = n /\ j.stale = stale /\ j.about = about /\ j.unread = unread
      /\ j.todo = NoneToPause
  BY <1>3, <1>6, <1>7, JudgementIs
<1>9. StillToDo(j.todo)
  BY <1>6, <1>8, Zenon DEF StillToDo
<1>10. ASSUME sightings[j.nth].page \in Lost, ~j.stale
       PROVE  DoneOrToDo(j.nth, j.about, j.unread, j.todo)
  <2>1. j.unread = j.about
    BY <1>2, <1>5, <1>8, <1>10, Zenon
  <2> QED BY <2>1 DEF DoneOrToDo
<1>11. JudgedBy(j)
  BY <1>8, <1>9, <1>10, Zenon DEF JudgedBy
<1>12. judging' = [judging EXCEPT ![d] = j]
  BY <1>2, <1>4, <1>5, <1>7, Zenon DEF FindRecords, Sighting
<1>13. UNCHANGED <<instant, authority, history, pausedBy, sightings>>
  BY DEF FindRecords
<1> QED BY <1>3, <1>8, <1>11, <1>12, <1>13, JudgingMoves

LEMMA ReadRecordKeeps ==
    ASSUME RoundInvariant, NEW d \in Reporters, NEW r \in Records, ReadRecord(d, r)
    PROVE  RoundInvariant' /\ RoundGoes
<1>1. PICK old : old = judging[d]
  OBVIOUS
<1>2. judging[d] # Unfiled
  BY Zenon DEF ReadRecord, At
<1>3. old \in Judgements /\ old.nth \in 1 .. Len(sightings) /\ JudgedBy(old)
  BY <1>1, <1>2, HeldIs
<1>4. PICK len : len = IF Underway(Last(history[r])) THEN Len(history[r]) ELSE 0
  OBVIOUS
<1>5. /\ len \in Nat
      /\ len # 0 => len \in 1 .. Len(history[r]) /\ Underway(history[r][len])
      /\ len = 0 => ~Standing(r)
  BY <1>4, RecordIs DEF RoundInvariant, Standing
<1>6. PICK todo : todo = [old.todo EXCEPT ![r] = len]
  OBVIOUS
<1>7. PICK unread : unread = old.unread \ {r}
  OBVIOUS
<1>8. /\ todo \in [Records -> Nat] /\ todo[r] = len /\ unread \in SUBSET Records
      /\ \A q \in Records \ {r} : todo[q] = old.todo[q]
  BY <1>3, <1>5, <1>6, <1>7 DEF Judgements
<1>9. PICK j : j = [old EXCEPT !.unread = unread, !.todo = todo]
  OBVIOUS
<1>10. /\ j \in Judgements /\ j.nth = old.nth /\ j.stale = old.stale /\ j.about = old.about
       /\ j.unread = unread /\ j.todo = todo /\ j.step = old.step
  BY <1>3, <1>8, <1>9 DEF Judgements
<1>11. judging' = [judging EXCEPT ![d] = j]
  <2>1. judging' = [judging EXCEPT ![d] =
            [[old EXCEPT !.unread = old.unread \ {r}] EXCEPT !.todo = [old.todo EXCEPT ![r] = len]]]
    BY <1>1, <1>2, <1>3, <1>4 DEF ReadRecord, Judgements, RoundInvariant, RoundTypes
  <2>2. j = [[old EXCEPT !.unread = unread] EXCEPT !.todo = todo]
    BY <1>3, <1>9 DEF Judgements
  <2> QED BY <1>6, <1>7, <2>1, <2>2
<1>12. StillToDo(j.todo)
  <2>1. ASSUME NEW q \in Records, todo[q] # 0
        PROVE  todo[q] \in 1 .. Len(history[q]) /\ Underway(history[q][todo[q]])
    <3>1. CASE q = r
      BY <1>5, <1>8, <2>1, <3>1
    <3>2. CASE q # r
      BY <1>3, <1>8, <2>1, <3>2 DEF JudgedBy, StillToDo
    <3> QED BY <3>1, <3>2
  <2> QED BY <1>10, <2>1, Zenon DEF StillToDo
<1>13. ASSUME j.step = "reading", sightings[j.nth].page \in Lost, ~j.stale
       PROVE  DoneOrToDo(j.nth, j.about, j.unread, j.todo)
  <2>1. DoneOrToDo(old.nth, old.about, old.unread, old.todo)
    BY <1>3, <1>10, <1>13, Zenon DEF JudgedBy
  <2>2. ASSUME NEW q \in old.about, q \notin unread, todo[q] = 0
        PROVE  PausedFor(sightings[old.nth].page, sightings[old.nth].at, q)
    <3>1. CASE q = r
      BY <1>5, <1>8, <2>2, <3>1 DEF PausedFor
    <3>2. CASE q # r
      <4>1. q \in Records
        BY <1>3 DEF Judgements
      <4>2. q \notin old.unread /\ old.todo[q] = 0
        BY <1>7, <1>8, <2>2, <3>2, <4>1
      <4> QED BY <2>1, <4>2, Zenon DEF DoneOrToDo
    <3> QED BY <3>1, <3>2
  <2> QED BY <1>10, <2>2, Zenon DEF DoneOrToDo
<1>14. JudgedBy(j)
  BY <1>10, <1>12, <1>13, Zenon DEF JudgedBy
<1>15. UNCHANGED <<instant, authority, history, pausedBy, sightings>>
  BY DEF ReadRecord
<1> QED BY <1>3, <1>10, <1>11, <1>14, <1>15, JudgingMoves

LEMMA FilePageKeeps ==
    ASSUME RoundInvariant, NEW d \in Reporters, NEW o \in Pages, FilePage(d, o)
    PROVE  RoundInvariant' /\ RoundGoes
<1>1. PICK at \in 1 .. instant :
          /\ sightings' = Append(sightings, [page |-> o, at |-> at, answer |-> Unfiled])
          /\ judging' = [judging EXCEPT ![d] = TakenUp(Len(sightings) + 1)]
  BY DEF FilePage
<1>2. UNCHANGED <<instant, authority, history, pausedBy>>
  BY DEF FilePage
<1>3. at \in Nat
  BY DEF RoundInvariant, RoundTypes
<1>4. PICK s : s = [page |-> o, at |-> at, answer |-> Unfiled]
  OBVIOUS
<1>5. s \in SightRows /\ s.page = o /\ s.at = at /\ s.answer = Unfiled
  BY <1>3, <1>4 DEF SightRows
<1>6. /\ sightings' \in Seq(SightRows) /\ Len(sightings') = Len(sightings) + 1 /\ Len(sightings) \in Nat
      /\ \A n \in 1 .. Len(sightings) : sightings'[n] = sightings[n]
      /\ sightings'[Len(sightings) + 1] = s
  <2>1. PICK old \in Seq(SightRows) : old = sightings
    BY DEF RoundInvariant, RoundTypes
  <2>2. /\ Append(old, s) \in Seq(SightRows) /\ Len(Append(old, s)) = Len(old) + 1 /\ Len(old) \in Nat
        /\ \A n \in 1 .. Len(old) : Append(old, s)[n] = old[n]
        /\ Append(old, s)[Len(old) + 1] = s
    BY <1>5
  <2>3. sightings' = Append(old, s)
    BY <1>1, <1>4, <2>1
  <2> QED BY <2>1, <2>2, <2>3
<1>7. RecordsGrow /\ SightingsKeep
  BY <1>2, <1>6, RecordsSame DEF SightingsKeep, RoundInvariant
<1>8. HistorySound'
  BY <1>7, HistoryKept DEF RoundInvariant
<1>9. PICK j : j = TakenUp(Len(sightings) + 1)
  OBVIOUS
<1>10. j \in Judgements /\ j.nth = Len(sightings) + 1 /\ j.step = "filed" /\ \A r \in Records : j.todo[r] = 0
  BY <1>6, <1>9, TakenUpIs
<1>11. judging' = [judging EXCEPT ![d] = j]
  BY <1>1, <1>9, Zenon
<1>12. /\ judging'[d] = j /\ \A e \in Reporters \ {d} : judging'[e] = judging[e]
       /\ judging' = [e \in Reporters |-> judging'[e]]
  <2>1. judging = [e \in Reporters |-> judging[e]]
    BY DEF RoundInvariant, RoundTypes
  <2> QED BY <1>11, <2>1
<1>13. RoundTypes'
  BY <1>2, <1>6, <1>12 DEF RoundInvariant, RoundTypes
<1>14. judging'[d].nth \in 1 .. Len(sightings') /\ JudgedBy(judging[d])'
  <2>1. JudgedBy(judging[d])'
    BY <1>10, <1>12, Zenon DEF JudgedBy, StillToDo
  <2> QED BY <1>6, <1>10, <1>12, <2>1
<1>15. JudgeSound'
  BY <1>7, <1>12, <1>14, JudgeKept
<1>16. ASSUME NEW n \in 1 .. Len(sightings')
       PROVE  \/ n \in 1 .. Len(sightings) /\ sightings'[n].answer = sightings[n].answer
              \/ sightings'[n].answer = Unfiled
  <2>1. n \in 1 .. Len(sightings) \/ n = Len(sightings) + 1
    BY <1>6
  <2> QED BY <1>5, <1>6, <2>1
<1>17. LossPauses'
  BY <1>7, <1>16, LossKept
<1> QED BY <1>7, <1>8, <1>13, <1>15, <1>17 DEF RoundInvariant, RoundGoes

\* A record that is done with is no more to be paused.
DoneWith ==
    \A j, k : \A r \in Records :
        /\ JudgedBy(j) /\ k \in Judgements /\ k.nth = j.nth /\ k.stale = j.stale /\ k.about = j.about
        /\ k.unread = j.unread /\ k.step = j.step
        /\ k.todo[r] = 0 /\ \A q \in Records \ {r} : k.todo[q] = j.todo[q]
        /\ PausedFor(sightings[j.nth].page, sightings[j.nth].at, r)
        => JudgedBy(k)

LEMMA DoneWithIs == DoneWith
<1> SUFFICES ASSUME NEW j, NEW k, NEW r \in Records, JudgedBy(j), k \in Judgements,
                    k.nth = j.nth, k.stale = j.stale, k.about = j.about, k.unread = j.unread,
                    k.step = j.step, k.todo[r] = 0,
                    \A q \in Records \ {r} : k.todo[q] = j.todo[q],
                    PausedFor(sightings[j.nth].page, sightings[j.nth].at, r)
             PROVE  JudgedBy(k)
  BY Zenon DEF DoneWith
<1>1. PICK todo : todo = k.todo
  OBVIOUS
<1>2. j \in Judgements /\ StillToDo(j.todo)
  BY Zenon DEF JudgedBy
<1>3. StillToDo(todo)
  <2>1. ASSUME NEW q \in Records, todo[q] # 0
        PROVE  todo[q] \in 1 .. Len(history[q]) /\ Underway(history[q][todo[q]])
    <3>1. todo[q] = j.todo[q]
      BY <1>1, <2>1
    <3> QED BY <1>2, <2>1, <3>1 DEF StillToDo
  <2> QED BY <2>1, Zenon DEF StillToDo
<1>4. ASSUME j.step = "reading", sightings[j.nth].page \in Lost, ~j.stale
      PROVE  DoneOrToDo(j.nth, j.about, j.unread, todo)
  <2>1. DoneOrToDo(j.nth, j.about, j.unread, j.todo)
    BY <1>4, Zenon DEF JudgedBy
  <2>2. ASSUME NEW q \in j.about, q \notin j.unread, todo[q] = 0
        PROVE  PausedFor(sightings[j.nth].page, sightings[j.nth].at, q)
    <3>1. CASE q = r
      BY <3>1
    <3>2. CASE q # r
      <4>1. q \in Records
        BY <1>2 DEF Judgements
      <4>2. j.todo[q] = 0
        BY <1>1, <2>2, <3>2, <4>1
      <4> QED BY <2>1, <2>2, <4>2, Zenon DEF DoneOrToDo
    <3> QED BY <3>1, <3>2
  <2> QED BY <2>2, Zenon DEF DoneOrToDo
<1> QED BY <1>1, <1>3, <1>4, Zenon DEF JudgedBy

LEMMA DoneWithNext == DoneWith'
<1>1. DoneWith
  BY DoneWithIs
<1> QED BY <1>1, PTL

LEMMA PauseRecordKeeps ==
    ASSUME RoundInvariant, NEW d \in Reporters, NEW r \in Records, PauseRecord(d, r)
    PROVE  RoundInvariant' /\ RoundGoes
<1>1. PICK j : j = judging[d]
  OBVIOUS
<1>2. PICK page, at : page = sightings[j.nth].page /\ at = sightings[j.nth].at
  OBVIOUS
<1>3. judging[d] # Unfiled /\ j.todo[r] # 0
  BY <1>1, Zenon DEF PauseRecord, AllRead, At
<1>4. j \in Judgements /\ j.nth \in 1 .. Len(sightings) /\ JudgedBy(j)
  BY <1>1, <1>3, HeldIs
<1>5. page \in Pages /\ at \in Nat
  BY <1>2, <1>4, SightingsAre DEF RoundInvariant
<1>6. PICK todo : todo = [j.todo EXCEPT ![r] = 0]
  OBVIOUS
<1>7. /\ todo \in [Records -> Nat] /\ todo[r] = 0 /\ \A q \in Records \ {r} : todo[q] = j.todo[q]
  BY <1>4, <1>6 DEF Judgements
<1>8. PICK k : k = [j EXCEPT !.todo = todo]
  OBVIOUS
<1>9. /\ k \in Judgements /\ k.nth = j.nth /\ k.stale = j.stale /\ k.about = j.about
      /\ k.unread = j.unread /\ k.step = j.step
      /\ k.todo[r] = 0 /\ \A q \in Records \ {r} : k.todo[q] = j.todo[q]
  BY <1>4, <1>7, <1>8 DEF Judgements
<1>10. judging' = [judging EXCEPT ![d] = k]
  BY <1>1, <1>4, <1>6, <1>8 DEF PauseRecord, Judgements, RoundInvariant, RoundTypes
<1>11. /\ history[r][j.todo[r]].at \in Nat /\ history[r][j.todo[r]].at <= Last(history[r]).at
       /\ Underway(history[r][j.todo[r]]) /\ Last(history[r]).at \in Nat
  BY <1>3, <1>4, RecordIs DEF RoundInvariant, JudgedBy, StillToDo
<1>12. CASE Settled(d, r) /\ UNCHANGED <<history, pausedBy>>
  <2>1. page \in pausedBy[r] \/ at < history[r][j.todo[r]].at
    BY <1>1, <1>2, <1>12 DEF Settled, Sighting
  <2>2. PausedFor(page, at, r)
    BY <1>5, <1>11, <2>1 DEF PausedFor
  <2>3. PausedFor(sightings[j.nth].page, sightings[j.nth].at, r)
    BY <1>2, <2>2
  <2>4. JudgedBy(k)
    BY <1>4, <1>9, <2>3, DoneWithIs, Zenon DEF DoneWith
  <2>5. UNCHANGED <<instant, authority, history, pausedBy, sightings>>
    BY <1>12 DEF PauseRecord
  <2> QED BY <1>4, <1>9, <1>10, <2>4, <2>5, JudgingMoves
<1>13. CASE /\ ~Settled(d, r) /\ RecordUnmoved(d, r)
            /\ history' = [history EXCEPT ![r] = Append(@, RowAt(Sighting(d).at, Last(@).turn))]
            /\ pausedBy' = [pausedBy EXCEPT ![r] = @ \cup {Sighting(d).page}]
  <2>1. PICK row : row = RowAt(at, Last(history[r]).turn)
    OBVIOUS
  <2>2. Sighting(d).at = at /\ Sighting(d).page = page
    BY <1>1, <1>2 DEF Sighting
  <2>3. row \in HistoryRows /\ row.at = at
    BY <1>5, <2>1, LastRowIs DEF RowAt, HistoryRows
  <2>4. history' = [history EXCEPT ![r] = Append(@, row)]
    <3>1. history' = [history EXCEPT ![r] = Append(history[r], RowAt(at, Last(history[r]).turn))]
      BY <1>13, <2>2 DEF RoundInvariant, RoundTypes
    <3> QED BY <2>1, <3>1
  <2>5. ~(at < history[r][j.todo[r]].at) /\ Len(history[r]) = j.todo[r]
    BY <1>1, <1>2, <1>13 DEF Settled, Sighting, RecordUnmoved
  <2>6. Last(history[r]) = history[r][j.todo[r]]
    BY <2>5 DEF Last
  <2>7. Added(r, row)
    BY <1>5, <1>11, <2>3, <2>4, <2>5, <2>6 DEF Added, Standing
  <2>8. pausedBy' = [pausedBy EXCEPT ![r] = @ \cup {page}]
    BY <1>13, <2>2
  <2>9. /\ pausedBy' \in [Records -> SUBSET Pages] /\ page \in pausedBy'[r]
        /\ \A q \in Records : pausedBy[q] \subseteq pausedBy'[q]
    BY <1>5, <2>8 DEF RoundInvariant, RoundTypes
  <2>10. UNCHANGED <<instant, authority, sightings>>
    BY DEF PauseRecord
  <2>11. /\ RecordsGrow /\ SightingsKeep /\ HistorySound' /\ LossPauses'
         /\ history' \in [Records -> Seq(HistoryRows)]
    BY <2>3, <2>7, <2>9, <2>10, AddedIs
  <2>12. JudgedBy(j)'
    BY <1>4, <2>11, JudgedStays DEF RoundInvariant
  <2>13. PausedFor(sightings[j.nth].page, sightings[j.nth].at, r)'
    BY <1>2, <2>9, <2>10 DEF PausedFor
  <2>14. JudgedBy(k)'
    BY <1>9, <2>12, <2>13, DoneWithNext, Zenon DEF DoneWith
  <2>15. /\ judging'[d] = k /\ \A e \in Reporters \ {d} : judging'[e] = judging[e]
         /\ judging' = [e \in Reporters |-> judging'[e]]
    <3>1. judging = [e \in Reporters |-> judging[e]]
      BY DEF RoundInvariant, RoundTypes
    <3> QED BY <1>10, <3>1
  <2>16. RoundTypes'
    BY <2>9, <2>10, <2>11, <2>15 DEF RoundInvariant, RoundTypes
  <2>17. JudgedBy(judging[d])'
    BY <2>14, <2>15, Zenon DEF JudgedBy, StillToDo, DoneOrToDo
  <2>18. k.nth \in 1 .. Len(sightings')
    BY <1>4, <1>9, <2>10
  <2>19. JudgeSound'
    BY <2>11, <2>15, <2>17, <2>18, JudgeKept
  <2> QED BY <2>11, <2>16, <2>19 DEF RoundInvariant, RoundGoes
<1>14. \/ Settled(d, r) /\ UNCHANGED <<history, pausedBy>>
       \/ /\ ~Settled(d, r) /\ RecordUnmoved(d, r)
          /\ history' = [history EXCEPT ![r] = Append(@, RowAt(Sighting(d).at, Last(@).turn))]
          /\ pausedBy' = [pausedBy EXCEPT ![r] = @ \cup {Sighting(d).page}]
  BY Zenon DEF PauseRecord
<1> QED BY <1>12, <1>13, <1>14, Zenon

LEMMA AnswerPageKeeps ==
    ASSUME RoundInvariant, NEW d \in Reporters, AnswerPage(d)
    PROVE  RoundInvariant' /\ RoundGoes
<1>1. PICK j : j = judging[d]
  OBVIOUS
<1>2. /\ j \in Judgements /\ j.nth \in 1 .. Len(sightings) /\ JudgedBy(j)
      /\ j.step = "reading" /\ j.unread = {} /\ j.todo = NoneToPause
  BY <1>1, HeldIs, Zenon DEF AnswerPage, AllRead, At
<1>3. PICK n : n = j.nth
  OBVIOUS
<1>4. PICK answer : answer = [stale |-> j.stale, about |-> j.about]
  OBVIOUS
<1>5. answer.stale = j.stale /\ answer.about = j.about /\ answer \in Answers
  BY <1>2, <1>4 DEF Answers, Judgements
<1>6. sightings' = [sightings EXCEPT ![n] = [@ EXCEPT !.answer = answer]]
  BY <1>1, <1>3, <1>4, Zenon DEF AnswerPage
<1>7. PICK old \in SightRows : old = sightings[n]
  BY <1>2, <1>3, ElementOfSeq DEF RoundInvariant, RoundTypes
<1>8. PICK new : new = [old EXCEPT !.answer = answer]
  OBVIOUS
<1>9. new \in SightRows /\ new.page = old.page /\ new.at = old.at /\ new.answer = answer
  BY <1>5, <1>8 DEF SightRows
<1>10. /\ sightings' \in Seq(SightRows) /\ Len(sightings') = Len(sightings) /\ Len(sightings) \in Nat
       /\ sightings'[n] = new /\ \A m \in 1 .. Len(sightings) : m # n => sightings'[m] = sightings[m]
  <2>1. PICK ss \in Seq(SightRows) : ss = sightings
    BY DEF RoundInvariant, RoundTypes
  <2>2. n \in 1 .. Len(ss)
    BY <1>2, <1>3, <2>1
  <2>3. sightings' = [ss EXCEPT ![n] = new]
    BY <1>6, <1>7, <1>8, <2>1
  <2>4. /\ [ss EXCEPT ![n] = new] \in Seq(SightRows) /\ Len([ss EXCEPT ![n] = new]) = Len(ss) /\ Len(ss) \in Nat
        /\ [ss EXCEPT ![n] = new][n] = new
        /\ \A m \in 1 .. Len(ss) : m # n => [ss EXCEPT ![n] = new][m] = ss[m]
    BY <1>9, <2>2
  <2> QED BY <2>1, <2>3, <2>4
<1>11. UNCHANGED <<instant, authority, history, pausedBy>>
  BY DEF AnswerPage
<1>12. RecordsGrow
  BY <1>11, RecordsSame DEF RoundInvariant
<1>13. SightingsKeep
  BY <1>7, <1>9, <1>10 DEF SightingsKeep
<1>14. HistorySound'
  BY <1>12, HistoryKept DEF RoundInvariant
<1>15. /\ judging'[d] = Unfiled /\ \A e \in Reporters \ {d} : judging'[e] = judging[e]
       /\ judging' = [e \in Reporters |-> judging'[e]]
  <2>1. judging = [e \in Reporters |-> judging[e]]
    BY DEF RoundInvariant, RoundTypes
  <2>2. judging' = [judging EXCEPT ![d] = Unfiled]
    BY DEF AnswerPage
  <2> QED BY <2>1, <2>2
<1>16. RoundTypes'
  BY <1>10, <1>11, <1>15 DEF RoundInvariant, RoundTypes
<1>17. JudgeSound'
  BY <1>12, <1>13, <1>15, JudgeKept
<1>18. LossFor(n)'
  <2>1. sightings'[n].page = old.page /\ sightings'[n].at = old.at /\ sightings'[n].answer = answer
    BY <1>9, <1>10
  <2>2. SUFFICES ASSUME old.page \in Lost, ~answer.stale, NEW r \in answer.about
                 PROVE  PausedFor(old.page, old.at, r)'
    BY <2>1, Zenon DEF LossFor
  <2>3. sightings[j.nth].page \in Lost /\ ~j.stale /\ r \in j.about
    BY <1>3, <1>5, <1>7, <2>2, Zenon
  <2>4. DoneOrToDo(j.nth, j.about, j.unread, j.todo)
    BY <1>2, <2>3, Zenon DEF JudgedBy
  <2>5. r \in Records
    BY <1>2, <2>3 DEF Judgements
  <2>6. r \notin j.unread /\ j.todo[r] = 0
    BY <1>2, <2>5 DEF NoneToPause
  <2>7. PausedFor(sightings[j.nth].page, sightings[j.nth].at, r)
    BY <2>3, <2>4, <2>6, Zenon DEF DoneOrToDo
  <2>8. PausedFor(old.page, old.at, r)
    BY <1>3, <1>7, <2>7, Zenon
  <2> QED BY <1>11, <2>8, Zenon DEF PausedFor, Standing
<1>19. ASSUME NEW m \in 1 .. Len(sightings')
       PROVE  \/ m \in 1 .. Len(sightings) /\ sightings'[m].answer = sightings[m].answer
              \/ LossFor(m)'
  BY <1>10, <1>18 DEF LossFor
<1>20. LossPauses'
  BY <1>12, <1>13, <1>19, LossKept
<1> QED BY <1>12, <1>13, <1>14, <1>16, <1>17, <1>20 DEF RoundInvariant, RoundGoes

LEMMA RoundStarts == RoundInit => RoundInvariant
<1> SUFFICES ASSUME RoundInit PROVE RoundInvariant
  OBVIOUS
<1>1. PICK row : row = RowAt(1, Turn("open", 1))
  OBVIOUS
<1>2. row \in HistoryRows /\ row.at = 1
  BY <1>1 DEF RowAt, Turn, HistoryRows, Turns, RecordStates
<1>3. PICK first : first = <<row>>
  OBVIOUS
<1>4. first \in Seq(HistoryRows) /\ Len(first) = 1 /\ first[1] = row /\ Last(first) = row
  BY <1>2, <1>3 DEF Last
<1>5. history = [r \in Records |-> first]
  BY <1>1, <1>3, Zenon DEF RoundInit
<1>6. /\ instant = 1 /\ authority \in {0, 1} /\ pausedBy = [r \in Records |-> {}] /\ sightings = <<>>
      /\ judging = [d \in Reporters |-> Unfiled]
  BY Zenon DEF RoundInit
<1>7. RoundTypes
  BY <1>4, <1>5, <1>6 DEF RoundTypes
<1>8. HistorySound
  <2>1. ASSUME NEW r \in Records PROVE history[r] = first
    BY <1>5
  <2>2. Len(first) >= 1 /\ first[1].at = 1 /\ Last(first).at = 1
    BY <1>2, <1>4
  <2>3. ASSUME NEW n \in 1 .. Len(first) PROVE first[n].at <= Last(first).at
    <3>1. n = 1
      BY <1>4
    <3> QED BY <2>2, <3>1
  <2> QED BY <2>1, <2>2, <2>3 DEF HistorySound
<1>9. JudgeSound
  BY <1>6 DEF JudgeSound
<1>10. LossPauses
  BY <1>6 DEF LossPauses
<1> QED BY <1>7, <1>8, <1>9, <1>10 DEF RoundInvariant

LEMMA RoundStep == RoundInvariant /\ [RoundNext]_roundVars => RoundInvariant' /\ RoundGoes
<1> SUFFICES ASSUME RoundInvariant, [RoundNext]_roundVars PROVE RoundInvariant' /\ RoundGoes
  OBVIOUS
<1>1. CASE RoundTick
  BY <1>1, TickKeeps DEF RoundTick
<1>2. CASE TakeAuthority
  BY <1>2, TakeAuthorityKeeps
<1>3. ASSUME NEW r \in Records, ChangeRecord(r) PROVE RoundInvariant' /\ RoundGoes
  BY <1>3, ChangeRecordKeeps
<1>4. ASSUME NEW d \in Reporters, NEW o \in Pages, FilePage(d, o) PROVE RoundInvariant' /\ RoundGoes
  BY <1>4, FilePageKeeps
<1>5. ASSUME NEW d \in Reporters, NEW n \in DOMAIN sightings, FileAgain(d, n)
      PROVE  RoundInvariant' /\ RoundGoes
  BY <1>5, FileAgainKeeps
<1>6. ASSUME NEW d \in Reporters, JudgePage(d) PROVE RoundInvariant' /\ RoundGoes
  BY <1>6, JudgePageKeeps
<1>7. ASSUME NEW d \in Reporters, FindRecords(d) PROVE RoundInvariant' /\ RoundGoes
  BY <1>7, FindRecordsKeeps
<1>8. ASSUME NEW d \in Reporters, NEW r \in Records, ReadRecord(d, r) PROVE RoundInvariant' /\ RoundGoes
  BY <1>8, ReadRecordKeeps
<1>9. ASSUME NEW d \in Reporters, PausePipeline(d) \/ PauseLegacy(d) PROVE RoundInvariant' /\ RoundGoes
  BY <1>9, PauseRecordKeeps DEF PausePipeline, PauseLegacy, Records
<1>10. ASSUME NEW d \in Reporters, AnswerPage(d) PROVE RoundInvariant' /\ RoundGoes
  BY <1>10, AnswerPageKeeps
<1>11. ASSUME NEW d \in Reporters, JudgingEnds(d) PROVE RoundInvariant' /\ RoundGoes
  BY <1>11, JudgingEndsKeeps
<1>12. CASE UNCHANGED roundVars
  BY <1>12, TickKeeps DEF roundVars
<1> QED BY <1>1, <1>2, <1>3, <1>4, <1>5, <1>6, <1>7, <1>8, <1>9, <1>10, <1>11, <1>12, Zenon DEF RoundNext

-----------------------------------------------------------------------------
Tellings ==
    [report : Reports, end : Nat \ {0}, step : {"begun", "records", "pages"},
     from : {"none", "pipelines", "trackings"}, unproven : SUBSET Legacies,
     share : [Records -> Nat], job : [Records -> Nat], meta : [Records -> Nat], read : [Records -> Nat],
     unverified : SUBSET Pipes, page : Pages \cup {Unfiled},
     rows : [Records -> Nat], pages : Nat, authority : Nat]

TellTypes ==
    /\ bound \in [Legacies -> Nat]
    /\ telling = [p \in Tellers |-> telling[p]] /\ reports = [i \in Reports |-> reports[i]]

\* What was known as the making of a report began is behind what is there.
BegunSound(w) ==
    /\ w.end <= instant
    /\ authority = w.authority \/ w.authority = 0
    /\ \A r \in Records : w.rows[r] \in 1 .. Len(history[r])
    /\ w.pages \in 0 .. Len(sightings)
    /\ ProofsTold(w)

\* What has been read of a record, and the verdict on it.
ShareSound(w, r) ==
    w.share[r] # 0 =>
        w.share[r] \in 1 .. Len(history[r]) /\ (LateWord(w, r) \/ w.share[r] = Upto(r, w.end))
ListSound(w, r) ==
    /\ w.job[r] # 0 => w.job[r] \in w.rows[r] .. Len(history[r])
    /\ w.meta[r] # 0 => w.meta[r] \in w.rows[r] .. Len(history[r]) /\ w.job[r] # 0
CheckSound(w, r) ==
    w.read[r] # 0 =>
        /\ w.read[r] \in 1 .. Len(history[r]) /\ w.share[r] # 0
        /\ r \in w.unverified => Len(history[r]) > w.rows[r]
        /\ r \notin w.unverified => TurnOf(r, w.share[r]) = TurnOf(r, AsOf(r, w.end, w.read[r]))
RecordsSound(w) == \A r \in Records : ShareSound(w, r) /\ ListSound(w, r) /\ CheckSound(w, r)

\* What is known once a step is reached.
SideSound(w) ==
    w.step # "begun" =>
        /\ SideTold(w)
        /\ w.from = "pipelines" => \A r \in Pipes : w.share[r] # 0
\* Nothing is read of a record before the side is known.
NoneChecked(w) == w.step = "begun" => \A r \in Records : w.read[r] = 0
NoneFlagged(w) == \A r \in w.unverified : w.read[r] # 0
PageSound(w) ==
    w.step = "pages" =>
        /\ PageTold(w)
        /\ w.from = "pipelines" => \A r \in Pipes : w.read[r] # 0
        /\ w.from = "trackings" => \A r \in Trackings : w.share[r] # 0

TellSound(w) ==
    /\ w \in Tellings /\ BegunSound(w) /\ RecordsSound(w) /\ SideSound(w)
    /\ NoneChecked(w) /\ NoneFlagged(w) /\ PageSound(w)

TellingsSound == \A p \in Tellers : telling[p] # Unfiled => \E w : w = telling[p] /\ TellSound(w)
ReportsSound ==
    \A i \in Reports : reports[i] # Unfiled =>
        \E w : w = reports[i] /\ TellSound(w) /\ w.step = "pages"
TellInvariant == TellTypes /\ TellingsSound /\ ReportsSound

----
(* What stays true of what has been read. *)

\* The last of the first rows of a time is one of them.
LEMMA AsOfIs ==
    ASSUME RoundTypes, HistorySound, NEW r \in Records, NEW end \in Nat \ {0}, NEW len \in 1 .. Len(history[r])
    PROVE  /\ AsOf(r, end, len) \in 1 .. len /\ history[r][AsOf(r, end, len)].at <= end
           /\ \A n \in 1 .. len : history[r][n].at <= end => n <= AsOf(r, end, len)
<1> DEFINE S == {n \in 1 .. len : history[r][n].at <= end}
<1>1. len \in Nat /\ S \in SUBSET (0 .. len) /\ 1 \in S
  BY RecordIs
<1>2. Max(S) \in S /\ \A n \in S : n <= Max(S)
  <2> HIDE DEF S
  <2> QED BY <1>1, MaxIs
<1> QED BY <1>2 DEF AsOf

LEMMA UptoIs ==
    ASSUME RoundTypes, HistorySound, NEW r \in Records, NEW end \in Nat \ {0}
    PROVE  /\ Upto(r, end) \in 1 .. Len(history[r]) /\ Upto(r, end) \in Nat \ {0}
           /\ history[r][Upto(r, end)].at <= end
           /\ \A n \in 1 .. Len(history[r]) : history[r][n].at <= end => n <= Upto(r, end)
<1>1. PICK len : len = Len(history[r])
  OBVIOUS
<1>2. len \in 1 .. Len(history[r]) /\ len \in Nat
  BY <1>1, RecordIs
<1>3. /\ AsOf(r, end, len) \in 1 .. len /\ history[r][AsOf(r, end, len)].at <= end
      /\ \A n \in 1 .. len : history[r][n].at <= end => n <= AsOf(r, end, len)
  BY <1>2, AsOfIs
<1>4. Upto(r, end) = AsOf(r, end, len)
  BY <1>1 DEF Upto
<1> QED BY <1>1, <1>2, <1>3, <1>4

LEMMA AsOfStays ==
    ASSUME RoundTypes, HistorySound, RecordsGrow, NEW r \in Records, NEW end, NEW len \in 1 .. Len(history[r])
    PROVE  AsOf(r, end, len)' = AsOf(r, end, len)
<1> DEFINE S == {n \in 1 .. len : history[r][n].at <= end}
<1>1. \A n \in 1 .. len : history'[r][n] = history[r][n]
  BY GrownIs, RecordIs
<1>2. S' = S
  BY <1>1
<1> QED BY <1>2 DEF AsOf

\* Word of a time that came in late did so, and where none did the last row of that time is the same.
LEMMA UptoStays ==
    ASSUME RoundTypes, HistorySound, RecordsGrow, NEW r \in Records, NEW w \in Tellings,
           w.rows[r] \in 1 .. Len(history[r]), ~LateWord(w, r)'
    PROVE  ~LateWord(w, r) /\ Upto(r, w.end)' = Upto(r, w.end)
<1>1. PICK end, len, known : end = w.end /\ len = Len(history[r]) /\ known = w.rows[r]
  OBVIOUS
<1>2. end \in Nat \ {0} /\ len \in Nat \ {0} /\ known \in 1 .. len
  BY <1>1, RecordIs DEF Tellings
<1>3. \A n \in known + 1 .. Len(history'[r]) : ~(history'[r][n].at <= end)
  BY <1>1 DEF LateWord
<1>4. len <= Len(history'[r]) /\ Len(history'[r]) \in Nat /\ \A n \in 1 .. len : history'[r][n] = history[r][n]
  BY <1>1, GrownIs
<1>5. ASSUME NEW n \in known + 1 .. len PROVE ~(history[r][n].at <= end)
  <2>1. n \in known + 1 .. Len(history'[r]) /\ n \in 1 .. len
    BY <1>2, <1>4
  <2>2. history'[r][n] = history[r][n]
    BY <1>4, <2>1
  <2> QED BY <1>3, <2>1, <2>2
<1>6. ~LateWord(w, r)
  BY <1>1, <1>5 DEF LateWord
<1>7. ASSUME history'[r] = history[r] PROVE Upto(r, end)' = Upto(r, end)
  <2> DEFINE S == {n \in 1 .. Len(history[r]) : history[r][n].at <= end}
  <2>1. S' = S
    BY <1>7
  <2>2. Upto(r, end) = Max(S) /\ Upto(r, end)' = Max(S')
    BY Zenon DEF Upto, AsOf
  <2> QED BY <2>1, <2>2
<1>8. ASSUME NEW row \in HistoryRows, history'[r] = Append(history[r], row)
      PROVE  Upto(r, end)' = Upto(r, end)
  <2>1. PICK h \in Seq(HistoryRows) : h = history[r]
    BY RecordIs
  <2>2. /\ \A n \in 1 .. Len(h) : Append(h, row)[n] = h[n]
        /\ Append(h, row)[Len(h) + 1] = row /\ Len(Append(h, row)) = Len(h) + 1 /\ Len(h) \in Nat
    BY <2>1
  <2>3. Len(history'[r]) = len + 1 /\ history'[r][len + 1] = row
    BY <1>1, <1>8, <2>1, <2>2
  <2>4. len + 1 \in known + 1 .. Len(history'[r])
    BY <1>2, <2>3
  <2>5. ~(row.at <= end)
    BY <1>3, <2>3, <2>4
  <2> DEFINE S == {n \in 1 .. len : history[r][n].at <= end}
             T == {n \in 1 .. len + 1 : history'[r][n].at <= end}
  <2>6. T = S
    <3>1. ASSUME NEW n \in 1 .. len + 1 PROVE n \in 1 .. len \/ n = len + 1
      BY <1>2
    <3>2. \A n \in 1 .. len : n \in 1 .. len + 1
      BY <1>2
    <3> QED BY <1>4, <2>3, <2>5, <3>1, <3>2
  <2>7. Upto(r, end) = Max(S)
    BY <1>1 DEF Upto, AsOf
  <2>8. Upto(r, end)' = Max(T)
    BY <2>3 DEF Upto, AsOf
  <2> QED BY <2>6, <2>7, <2>8
<1>9. Upto(r, end)' = Upto(r, end)
  <2>1. Grown(r)
    BY DEF RecordsGrow
  <2> QED BY <1>7, <1>8, <2>1, Zenon DEF Grown
<1> QED BY <1>1, <1>6, <1>9

\* The newest observation of a time is one of those.
LEMMA NewestPageIs ==
    ASSUME RoundTypes, NEW end \in Nat, Seen(end) # {}
    PROVE  NewestPage(end) \in Seen(end)
<1> DEFINE T == {sightings[n].at : n \in Seen(end)}
           last == Max(T)
           N == {n \in Seen(end) : sightings[n].at = last}
<1>1. T \in SUBSET (0 .. end) /\ T # {}
  BY SightingsAre DEF Seen
<1>2. last \in T
  <2> HIDE DEF T
  <2> QED BY <1>1, MaxIs
<1>3. N \in SUBSET (0 .. Len(sightings)) /\ N # {} /\ Len(sightings) \in Nat
  <2> HIDE DEF last
  <2> QED BY <1>2, SightingsAre DEF Seen
<1>4. Max(N) \in N
  <2> HIDE DEF N
  <2> QED BY <1>3, MaxIs
<1>5. NewestPage(end) = Max(N)
  BY DEF NewestPage
<1> QED BY <1>4, <1>5

\* What is told of the newest page stays true: a page of that time that is filed later is late.
LEMMA PageToldStays ==
    ASSUME RoundTypes, SightingsKeep, NEW w \in Tellings, w.pages \in 0 .. Len(sightings), PageTold(w)
    PROVE  PageTold(w)'
<1>1. PICK end, known : end = w.end /\ known = w.pages
  OBVIOUS
<1>2. end \in Nat /\ known \in 0 .. Len(sightings) /\ Len(sightings) \in Nat
      /\ DOMAIN sightings = 1 .. Len(sightings)
  BY <1>1, SightingsAre DEF Tellings
<1>3. sightings' \in Seq(SightRows) /\ DOMAIN sightings' = 1 .. Len(sightings') /\ Len(sightings') \in Nat
      /\ Len(sightings) <= Len(sightings')
  BY DEF SightingsKeep
<1>4. \A n \in 1 .. Len(sightings) :
          sightings'[n].at = sightings[n].at /\ sightings'[n].page = sightings[n].page
  BY DEF SightingsKeep
<1>5. SUFFICES ASSUME ~LatePage(w)' PROVE w.page = LatestPage(end)'
  BY <1>1 DEF PageTold
<1>6. \A n \in known + 1 .. Len(sightings') : ~(sightings'[n].at <= end)
  BY <1>1, <1>5 DEF LatePage
<1>7. ~LatePage(w)
  <2>1. ASSUME NEW n \in known + 1 .. Len(sightings) PROVE ~(sightings[n].at <= end)
    <3>1. n \in known + 1 .. Len(sightings') /\ n \in 1 .. Len(sightings)
      BY <1>2, <1>3
    <3> QED BY <1>4, <1>6, <3>1
  <2> QED BY <1>1, <2>1 DEF LatePage
<1>8. w.page = LatestPage(end)
  BY <1>1, <1>7 DEF PageTold
<1>9. Seen(end)' = Seen(end)
  <2>1. ASSUME NEW n \in 1 .. Len(sightings') PROVE n \in 1 .. Len(sightings) \/ ~(sightings'[n].at <= end)
    <3>1. n \in 1 .. Len(sightings) \/ n \in known + 1 .. Len(sightings')
      BY <1>2, <1>3
    <3> QED BY <1>6, <3>1
  <2>2. \A n \in 1 .. Len(sightings) : n \in 1 .. Len(sightings')
    BY <1>2, <1>3
  <2> QED BY <1>2, <1>3, <1>4, <2>1, <2>2 DEF Seen
<1>10. \A n \in Seen(end) : sightings'[n].at = sightings[n].at /\ sightings'[n].page = sightings[n].page
  BY <1>2, <1>4 DEF Seen
<1>11. NewestPage(end)' = NewestPage(end)
  <2> DEFINE T == {sightings[n].at : n \in Seen(end)}
             N == {n \in Seen(end) : sightings[n].at = Max(T)}
  <2>1. T' = T
    BY <1>9, <1>10
  <2>2. N' = N
    <3> HIDE DEF T
    <3> QED BY <1>9, <1>10, <2>1
  <2> QED BY <2>2 DEF NewestPage
<1>12. CASE Seen(end) = {}
  BY <1>8, <1>9, <1>12 DEF LatestPage
<1>13. CASE Seen(end) # {}
  <2>1. NewestPage(end) \in Seen(end)
    BY <1>2, <1>13, NewestPageIs
  <2>2. sightings'[NewestPage(end)].page = sightings[NewestPage(end)].page
    BY <1>10, <2>1
  <2> QED BY <1>8, <1>9, <1>11, <1>13, <2>2 DEF LatestPage
<1> QED BY <1>12, <1>13

\* Other commands: the records and the pages grow, the authority is taken once, proofs come in.
OthersGo ==
    /\ RoundGoes
    /\ instant' \in Nat /\ instant <= instant'
    /\ authority' = authority \/ (authority = 0 /\ authority' \in 1 .. instant)
    /\ bound' \in [Legacies -> Nat]
    /\ \A l \in Legacies : bound'[l] = bound[l] \/ (bound[l] = 0 /\ bound'[l] = instant)

LEMMA BegunStays ==
    ASSUME RoundTypes, HistorySound, TellTypes, OthersGo, NEW w \in Tellings, BegunSound(w)
    PROVE  BegunSound(w)'
<1>1. instant \in Nat /\ authority \in Nat /\ authority' \in Nat /\ w.end \in Nat /\ w.authority \in Nat
  BY DEF RoundTypes, OthersGo, Tellings
<1>2. w.end <= instant' /\ (authority' = w.authority \/ w.authority = 0)
  BY <1>1 DEF BegunSound, OthersGo
<1>3. ASSUME NEW r \in Records PROVE w.rows[r] \in 1 .. Len(history'[r])
  BY GrownIs, RecordIs DEF BegunSound, OthersGo, RoundGoes
<1>4. w.pages \in 0 .. Len(sightings')
  BY SightingsAre DEF BegunSound, OthersGo, RoundGoes, SightingsKeep
<1>5. ProofsTold(w)'
  <2>1. PICK end, unproven : end = w.end /\ unproven = w.unproven
    OBVIOUS
  <2>2. end \in Nat \ {0} /\ end <= instant /\ unproven \in SUBSET Legacies
    BY <2>1 DEF BegunSound, Tellings
  <2>3. \A l \in Legacies : bound[l] \in Nat /\ bound'[l] \in Nat
    BY DEF TellTypes, OthersGo
  <2>4. \A l \in Legacies : (bound[l] = 0 => l \in unproven) /\ (l \in unproven => bound[l] = 0 \/ bound[l] >= end)
    BY <2>1 DEF BegunSound, ProofsTold
  <2>5. ASSUME NEW l \in Legacies
        PROVE  (bound'[l] = 0 => l \in unproven) /\ (l \in unproven => bound'[l] = 0 \/ bound'[l] >= end)
    BY <1>1, <2>2, <2>3, <2>4 DEF OthersGo, RoundTypes
  <2> QED BY <2>1, <2>2, <2>5 DEF ProofsTold
<1> QED BY <1>2, <1>3, <1>4, <1>5 DEF BegunSound

LEMMA RowsStay ==
    ASSUME RoundTypes, HistorySound, OthersGo, NEW w \in Tellings, BegunSound(w), RecordsSound(w)
    PROVE  RecordsSound(w)'
<1>1. RecordsGrow
  BY DEF OthersGo, RoundGoes
<1> SUFFICES ASSUME NEW r \in Records
             PROVE  ShareSound(w, r)' /\ ListSound(w, r)' /\ CheckSound(w, r)'
  BY DEF RecordsSound
<1>2. ShareSound(w, r) /\ ListSound(w, r) /\ CheckSound(w, r) /\ w.rows[r] \in 1 .. Len(history[r])
  BY DEF RecordsSound, BegunSound
<1>3. PICK end, share, job, meta, read, known :
          /\ end = w.end /\ share = w.share[r] /\ job = w.job[r] /\ meta = w.meta[r] /\ read = w.read[r]
          /\ known = w.rows[r]
  OBVIOUS
<1>4. end \in Nat \ {0} /\ share \in Nat /\ job \in Nat /\ meta \in Nat /\ read \in Nat /\ known \in Nat
  BY <1>3 DEF Tellings
<1>5. /\ Len(history[r]) \in Nat /\ Len(history'[r]) \in Nat /\ Len(history[r]) <= Len(history'[r])
      /\ \A n \in 1 .. Len(history[r]) : history'[r][n] = history[r][n]
  BY <1>1, GrownIs, RecordIs
<1>6. ShareSound(w, r)'
  <2>1. SUFFICES ASSUME share # 0
                 PROVE  share \in 1 .. Len(history'[r]) /\ (LateWord(w, r)' \/ share = Upto(r, w.end)')
    BY <1>3 DEF ShareSound
  <2>2. share \in 1 .. Len(history[r]) /\ (LateWord(w, r) \/ share = Upto(r, w.end))
    BY <1>2, <1>3, <2>1 DEF ShareSound
  <2>3. share \in 1 .. Len(history'[r])
    BY <1>5, <2>2
  <2> QED BY <1>1, <1>2, <2>2, <2>3, UptoStays
<1>7. ListSound(w, r)'
  <2>1. /\ job # 0 => job \in known .. Len(history[r])
        /\ meta # 0 => meta \in known .. Len(history[r]) /\ job # 0
    BY <1>2, <1>3 DEF ListSound
  <2>2. /\ job # 0 => job \in known .. Len(history'[r])
        /\ meta # 0 => meta \in known .. Len(history'[r]) /\ job # 0
    BY <1>4, <1>5, <2>1
  <2> QED BY <1>3, <2>2 DEF ListSound
<1>8. CheckSound(w, r)'
  <2>1. SUFFICES ASSUME read # 0
                 PROVE  /\ read \in 1 .. Len(history'[r]) /\ share # 0
                        /\ r \in w.unverified => Len(history'[r]) > known
                        /\ r \notin w.unverified => TurnOf(r, share)' = TurnOf(r, AsOf(r, end, read))'
    BY <1>3 DEF CheckSound
  <2>2. /\ read \in 1 .. Len(history[r]) /\ share # 0
        /\ r \in w.unverified => Len(history[r]) > known
        /\ r \notin w.unverified => TurnOf(r, share) = TurnOf(r, AsOf(r, end, read))
    BY <1>2, <1>3, <2>1 DEF CheckSound
  <2>3. PICK m : m = AsOf(r, end, read) /\ m = AsOf(r, end, read)'
    BY <1>1, <2>2, AsOfStays
  <2>4. m \in 1 .. Len(history[r])
    <3>1. AsOf(r, end, read) \in 1 .. read
      BY <1>4, <2>2, AsOfIs DEF OthersGo
    <3> QED BY <1>4, <1>5, <2>2, <2>3, <3>1
  <2>5. history'[r][m] = history[r][m]
    BY <1>5, <2>4
  <2>6. ASSUME r \notin w.unverified PROVE TurnOf(r, share)' = TurnOf(r, AsOf(r, end, read))'
    <3>1. share \in 1 .. Len(history[r])
      BY <1>2, <1>3, <2>2 DEF ShareSound
    <3>2. history'[r][share] = history[r][share]
      BY <1>5, <3>1
    <3> QED BY <2>2, <2>3, <2>5, <2>6, <3>2 DEF TurnOf
  <2> QED BY <1>4, <1>5, <2>2, <2>6
<1> QED BY <1>6, <1>7, <1>8

LEMMA TellStays ==
    ASSUME RoundTypes, HistorySound, TellTypes, OthersGo, NEW w, TellSound(w)
    PROVE  TellSound(w)'
<1>1. /\ w \in Tellings /\ BegunSound(w) /\ RecordsSound(w) /\ SideSound(w) /\ PageSound(w)
      /\ NoneChecked(w) /\ NoneFlagged(w)
  BY Zenon DEF TellSound
<1>2. BegunSound(w)' /\ RecordsSound(w)'
  BY <1>1, BegunStays, RowsStay
<1>3. SideSound(w)'
  <2>1. PICK end, from, found : end = w.end /\ from = w.from /\ found = w.authority
    OBVIOUS
  <2>2. end \in Nat /\ instant \in Nat /\ authority \in Nat /\ end <= instant
    BY <1>1, <2>1 DEF Tellings, BegunSound, RoundTypes
  <2>3. authority = found \/ found = 0
    BY <1>1, <2>1 DEF BegunSound
  <2>4. authority' = authority \/ (authority = 0 /\ authority' \in 1 .. instant)
    BY DEF OthersGo
  <2>5. ASSUME SideTold(w) PROVE SideTold(w)'
    <3>1. /\ from = "pipelines" => authority \in 1 .. end
          /\ from = "trackings" => authority \notin 1 .. end \/ found = 0
      BY <2>1, <2>5 DEF SideTold
    <3>2. /\ from = "pipelines" => authority' \in 1 .. end
          /\ from = "trackings" => authority' \notin 1 .. end \/ found = 0
      BY <2>2, <2>3, <2>4, <3>1
    <3> QED BY <2>1, <2>5, <3>2 DEF SideTold
  <2> QED BY <1>1, <2>5, Zenon DEF SideSound
<1>4. PageSound(w)'
  <2>1. w.pages \in 0 .. Len(sightings) /\ SightingsKeep
    BY <1>1 DEF BegunSound, OthersGo, RoundGoes
  <2>2. ASSUME PageTold(w) PROVE PageTold(w)'
    BY <1>1, <2>1, <2>2, PageToldStays
  <2> QED BY <1>1, <2>2, Zenon DEF PageSound
<1> QED BY <1>1, <1>2, <1>3, <1>4, Zenon DEF TellSound, NoneChecked, NoneFlagged

----
(* The steps. *)

\* What a command of another kind leaves of reports made and being made.
LEMMA TellsStay ==
    ASSUME RoundInvariant, TellInvariant, OthersGo, UNCHANGED <<telling, reports>>
    PROVE  TellInvariant'
<1>1. TellTypes'
  BY DEF TellInvariant, TellTypes, OthersGo
<1>2. RoundTypes /\ HistorySound /\ TellTypes
  BY DEF RoundInvariant, TellInvariant
<1>3. ASSUME NEW w, TellSound(w) PROVE TellSound(w)'
  BY <1>2, <1>3, TellStays
<1>4. ASSUME NEW p \in Tellers, telling'[p] # Unfiled PROVE \E w : w = telling'[p] /\ TellSound(w)'
  <2>1. PICK w : w = telling[p] /\ TellSound(w)
    BY <1>4, Zenon DEF TellInvariant, TellingsSound
  <2>2. w = telling'[p] /\ TellSound(w)'
    BY <1>3, <2>1
  <2> QED BY <2>2
<1>5. ASSUME NEW i \in Reports, reports'[i] # Unfiled
      PROVE  \E w : w = reports'[i] /\ TellSound(w)' /\ w.step = "pages"
  <2>1. PICK w : w = reports[i] /\ TellSound(w) /\ w.step = "pages"
    BY <1>5, Zenon DEF TellInvariant, ReportsSound
  <2>2. w = reports'[i] /\ TellSound(w)'
    BY <1>3, <2>1
  <2> QED BY <2>1, <2>2
<1> QED BY <1>1, <1>4, <1>5, Zenon DEF TellInvariant, TellingsSound, ReportsSound

\* A process reads on, or ends.
LEMMA TellingMoves ==
    ASSUME RoundInvariant, TellInvariant, NEW p \in Tellers, NEW w, w # Unfiled => TellSound(w),
           telling' = [telling EXCEPT ![p] = w], UNCHANGED <<roundVars, bound, reports>>
    PROVE  TellInvariant'
<1>1. telling = [q \in Tellers |-> telling[q]]
  BY DEF TellInvariant, TellTypes
<1>2. /\ telling'[p] = w /\ \A q \in Tellers \ {p} : telling'[q] = telling[q]
      /\ telling' = [q \in Tellers |-> telling'[q]]
  BY <1>1
<1>3. ASSUME NEW v, TellSound(v) PROVE TellSound(v)'
  <2>1. UNCHANGED <<instant, authority, history, pausedBy, sightings, judging, bound>>
    BY DEF roundVars
  <2>2. RoundGoes
    BY <2>1, NothingMoved
  <2>3. RoundTypes /\ HistorySound /\ TellTypes
    BY DEF RoundInvariant, TellInvariant
  <2>4. OthersGo
    BY <2>1, <2>2, <2>3 DEF OthersGo, RoundTypes, TellTypes
  <2> QED BY <1>3, <2>3, <2>4, TellStays
<1>4. ASSUME NEW q \in Tellers, telling'[q] # Unfiled PROVE \E v : v = telling'[q] /\ TellSound(v)'
  <2>1. CASE q = p
    <3>1. TellSound(w)
      BY <1>2, <1>4, <2>1
    <3> QED BY <1>2, <1>3, <2>1, <3>1
  <2>2. CASE q # p
    <3>1. telling'[q] = telling[q]
      BY <1>2, <2>2
    <3>2. PICK v : v = telling[q] /\ TellSound(v)
      BY <1>4, <3>1, Zenon DEF TellInvariant, TellingsSound
    <3> QED BY <1>3, <3>1, <3>2
  <2> QED BY <2>1, <2>2
<1>5. ASSUME NEW i \in Reports, reports'[i] # Unfiled
      PROVE  \E v : v = reports'[i] /\ TellSound(v)' /\ v.step = "pages"
  <2>1. PICK v : v = reports[i] /\ TellSound(v) /\ v.step = "pages"
    BY <1>5, Zenon DEF TellInvariant, ReportsSound
  <2> QED BY <1>3, <2>1
<1>6. TellTypes'
  BY <1>2 DEF TellInvariant, TellTypes
<1> QED BY <1>4, <1>5, <1>6, Zenon DEF TellInvariant, TellingsSound, ReportsSound

LEMMA TellingEndsKeeps ==
    ASSUME RoundInvariant, TellInvariant, NEW p \in Tellers, TellingEnds(p)
    PROVE  TellInvariant'
<1>1. telling' = [telling EXCEPT ![p] = Unfiled] /\ UNCHANGED <<roundVars, bound, reports>>
  BY DEF TellingEnds
<1> QED BY <1>1, TellingMoves

\* What a process holds while it reads.
LEMMA TellingIs ==
    ASSUME TellInvariant, NEW p \in Tellers, telling[p] # Unfiled
    PROVE  \E w \in Tellings : w = telling[p] /\ TellSound(w)
BY Zenon DEF TellInvariant, TellingsSound, TellSound

LEMMA BeginReportKeeps ==
    ASSUME RoundInvariant, TellInvariant, NEW p \in Tellers, NEW i \in Reports, NEW end \in 1 .. LastInstant,
           BeginReport(p, i, end)
    PROVE  TellInvariant'
<1>1. PICK rows : rows = [r \in Records |-> Len(history[r])]
  OBVIOUS
<1>2. PICK none : none = NotRead
  OBVIOUS
<1>3. PICK unproven : unproven = {l \in Legacies : bound[l] = 0}
  OBVIOUS
<1>4. PICK pages, found : pages = Len(sightings) /\ found = authority
  OBVIOUS
<1>5. PICK w : w =
          [report |-> i, end |-> end, step |-> "begun", from |-> "none", unproven |-> unproven,
           share |-> none, job |-> none, meta |-> none, read |-> none,
           unverified |-> {}, page |-> Unfiled, rows |-> rows, pages |-> pages, authority |-> found]
  OBVIOUS
<1>6. telling' = [telling EXCEPT ![p] = w] /\ UNCHANGED <<roundVars, bound, reports>> /\ end <= instant
  BY <1>1, <1>2, <1>3, <1>4, <1>5, Zenon DEF BeginReport
<1>7. end \in Nat \ {0} /\ found \in Nat /\ pages \in Nat /\ unproven \in SUBSET Legacies
  BY <1>3, <1>4, SightingsAre, RoundSorts DEF RoundInvariant, RoundTypes
<1>8. /\ rows \in [Records -> Nat] /\ none \in [Records -> Nat]
      /\ \A r \in Records : rows[r] \in 1 .. Len(history[r]) /\ none[r] = 0
  BY <1>1, <1>2, RecordIs DEF RoundInvariant, NotRead
<1>9. /\ w \in Tellings /\ w.end = end /\ w.step = "begun" /\ w.unproven = unproven
      /\ w.share = none /\ w.job = none /\ w.meta = none /\ w.read = none /\ w.unverified = {}
      /\ w.rows = rows /\ w.pages = pages /\ w.authority = found
  BY <1>5, <1>7, <1>8 DEF Tellings
<1>10. ProofsTold(w)
  BY <1>3, <1>9 DEF ProofsTold
<1>11. BegunSound(w)
  BY <1>4, <1>6, <1>7, <1>8, <1>9, <1>10 DEF BegunSound
<1>12. RecordsSound(w)
  BY <1>8, <1>9 DEF RecordsSound, ShareSound, ListSound, CheckSound
<1>13. SideSound(w) /\ PageSound(w) /\ NoneChecked(w) /\ NoneFlagged(w)
  BY <1>8, <1>9 DEF NoneChecked, NoneFlagged, SideSound, PageSound
<1>14. TellSound(w)
  BY <1>9, <1>11, <1>12, <1>13, Zenon DEF TellSound
<1> QED BY <1>6, <1>14, TellingMoves

LEMMA ReadSnapshotsKeeps ==
    ASSUME RoundInvariant, TellInvariant, NEW p \in Tellers, ReadSnapshots(p)
    PROVE  TellInvariant'
<1>1. PICK w \in Tellings : w = telling[p] /\ TellSound(w)
  BY TellingIs, Zenon DEF ReadSnapshots
<1>2. w.step = "begun" /\ BegunSound(w) /\ RecordsSound(w) /\ NoneChecked(w) /\ NoneFlagged(w)
  BY <1>1, Zenon DEF ReadSnapshots, TellSound
<1>3. PICK end : end = w.end
  OBVIOUS
<1>4. end \in Nat \ {0} /\ authority \in Nat
  BY <1>3 DEF Tellings, RoundInvariant, RoundTypes
<1>5. PICK from : from = IF authority \in 1 .. end THEN "pipelines" ELSE "trackings"
  OBVIOUS
<1>6. PICK share : share = [r \in Records |-> IF authority \in 1 .. end /\ r \in Pipes THEN Upto(r, end) ELSE 0]
  OBVIOUS
<1>7. ASSUME NEW r \in Records
      PROVE  Upto(r, end) \in 1 .. Len(history[r]) /\ Upto(r, end) \in Nat \ {0}
  BY <1>4, <1>7, UptoIs DEF RoundInvariant
<1>8. /\ share \in [Records -> Nat]
      /\ \A r \in Records : share[r] # 0 => share[r] = Upto(r, end)
      /\ from = "pipelines" => \A r \in Pipes : share[r] # 0
  <2>1. \A r \in Records :
            share[r] = IF authority \in 1 .. end /\ r \in Pipes THEN Upto(r, end) ELSE 0
    BY <1>6
  <2>2. \A r \in Records : share[r] \in Nat /\ (share[r] # 0 => share[r] = Upto(r, end))
    BY <1>7, <2>1
  <2>3. share = [r \in Records |-> share[r]]
    BY <1>6
  <2>4. ASSUME from = "pipelines", NEW r \in Pipes PROVE share[r] # 0
    <3>1. authority \in 1 .. end /\ r \in Records
      BY <1>5, <2>4 DEF Records
    <3> QED BY <1>7, <2>1, <3>1
  <2> QED BY <2>2, <2>3, <2>4
<1>9. PICK v : v = [w EXCEPT !.step = "records", !.from = from, !.share = share]
  OBVIOUS
<1>10. /\ v \in Tellings /\ v.end = end /\ v.step = "records" /\ v.from = from /\ v.share = share
       /\ v.unproven = w.unproven /\ v.job = w.job /\ v.meta = w.meta /\ v.read = w.read
       /\ v.unverified = w.unverified /\ v.rows = w.rows /\ v.pages = w.pages /\ v.authority = w.authority
  BY <1>3, <1>5, <1>8, <1>9 DEF Tellings
<1>11. telling' = [telling EXCEPT ![p] = v]
  <2>1. telling' = [telling EXCEPT ![p] = [[[w EXCEPT !.step = "records"] EXCEPT !.from = from] EXCEPT !.share = share]]
    BY <1>1, <1>3, <1>5, <1>6 DEF ReadSnapshots, TellInvariant, TellTypes, Tellings
  <2> QED BY <1>9, <2>1 DEF Tellings
<1>12. UNCHANGED <<roundVars, bound, reports>>
  BY DEF ReadSnapshots
<1>13. BegunSound(v)
  BY <1>2, <1>3, <1>10 DEF BegunSound, ProofsTold
<1>14. RecordsSound(v)
  <2>1. ASSUME NEW r \in Records PROVE ShareSound(v, r) /\ ListSound(v, r) /\ CheckSound(v, r)
    <3>1. ShareSound(v, r)
      BY <1>7, <1>8, <1>10 DEF ShareSound
    <3>2. ListSound(v, r)
      BY <1>2, <1>10 DEF ListSound, RecordsSound
    <3>3. CheckSound(v, r)
      <4>1. w.read[r] = 0
        BY <1>2 DEF NoneChecked
      <4> QED BY <1>10, <4>1 DEF CheckSound
    <3> QED BY <3>1, <3>2, <3>3
  <2> QED BY <2>1 DEF RecordsSound
<1>15. SideSound(v)
  <2>1. /\ from = "pipelines" => authority \in 1 .. end
        /\ from = "trackings" => authority \notin 1 .. end
        /\ from \in {"pipelines", "trackings"}
    BY <1>5
  <2> QED BY <1>8, <1>10, <2>1 DEF SideSound, SideTold
<1>16. PageSound(v) /\ NoneChecked(v) /\ NoneFlagged(v)
  BY <1>2, <1>10 DEF PageSound, NoneChecked, NoneFlagged
<1>17. TellSound(v)
  BY <1>10, <1>13, <1>14, <1>15, <1>16, Zenon DEF TellSound
<1> QED BY <1>11, <1>12, <1>17, TellingMoves

LEMMA ReadJobKeeps ==
    ASSUME RoundInvariant, TellInvariant, NEW p \in Tellers, NEW r \in Records, ReadJob(p, r)
    PROVE  TellInvariant'
<1>1. PICK w \in Tellings : w = telling[p] /\ TellSound(w)
  BY TellingIs, Zenon DEF ReadJob, Reading
<1>2. /\ BegunSound(w) /\ RecordsSound(w) /\ SideSound(w) /\ PageSound(w) /\ NoneChecked(w)
      /\ NoneFlagged(w)
      /\ w.step = "records"
  BY <1>1, Zenon DEF TellSound, ReadJob, Reading
<1>3. PICK job : job = [w.job EXCEPT ![r] = Len(history[r])]
  OBVIOUS
<1>4. Len(history[r]) \in Nat \ {0} /\ w.rows[r] \in 1 .. Len(history[r])
  BY <1>2, RecordIs DEF RoundInvariant, BegunSound
<1>5. /\ job \in [Records -> Nat] /\ job[r] = Len(history[r])
      /\ \A q \in Records \ {r} : job[q] = w.job[q]
  BY <1>3, <1>4 DEF Tellings
<1>6. PICK v : v = [w EXCEPT !.job = job]
  OBVIOUS
<1>7. /\ v \in Tellings /\ v.end = w.end /\ v.step = w.step /\ v.from = w.from /\ v.share = w.share
      /\ v.unproven = w.unproven /\ v.job = job /\ v.meta = w.meta /\ v.read = w.read
      /\ v.unverified = w.unverified /\ v.rows = w.rows /\ v.pages = w.pages /\ v.authority = w.authority
  BY <1>5, <1>6 DEF Tellings
<1>8. telling' = [telling EXCEPT ![p] = v]
  <2>1. telling' = [telling EXCEPT ![p] = [w EXCEPT !.job = [w.job EXCEPT ![r] = Len(history[r])]]]
    BY <1>1 DEF ReadJob, TellInvariant, TellTypes, Tellings
  <2> QED BY <1>3, <1>6, <2>1
<1>9. UNCHANGED <<roundVars, bound, reports>>
  BY DEF ReadJob
<1>10. BegunSound(v)
  BY <1>2, <1>7 DEF BegunSound, ProofsTold
<1>11. RecordsSound(v)
  <2>1. ASSUME NEW q \in Records PROVE ShareSound(v, q) /\ ListSound(v, q) /\ CheckSound(v, q)
    <3>1. ShareSound(w, q) /\ ListSound(w, q) /\ CheckSound(w, q)
      BY <1>2 DEF RecordsSound
    <3>2. ShareSound(v, q)
      BY <1>7, <3>1 DEF ShareSound, LateWord
    <3>3. ListSound(v, q)
      <4>1. CASE q = r
        BY <1>4, <1>5, <1>7, <3>1, <4>1 DEF ListSound
      <4>2. CASE q # r
        BY <1>5, <1>7, <3>1, <4>2 DEF ListSound
      <4> QED BY <4>1, <4>2
    <3>4. CheckSound(v, q)
      BY <1>7, <3>1 DEF CheckSound
    <3> QED BY <3>2, <3>3, <3>4
  <2> QED BY <2>1 DEF RecordsSound
<1>12. SideSound(v)
  BY <1>2, <1>7 DEF SideSound, SideTold
<1>13. PageSound(v) /\ NoneChecked(v) /\ NoneFlagged(v)
  BY <1>2, <1>7 DEF PageSound, NoneChecked, NoneFlagged
<1>14. TellSound(v)
  BY <1>7, <1>10, <1>11, <1>12, <1>13, Zenon DEF TellSound
<1> QED BY <1>8, <1>9, <1>14, TellingMoves

LEMMA ReadMetaKeeps ==
    ASSUME RoundInvariant, TellInvariant, NEW p \in Tellers, NEW r \in Records, ReadMeta(p, r)
    PROVE  TellInvariant'
<1>1. PICK w \in Tellings : w = telling[p] /\ TellSound(w)
  BY TellingIs, Zenon DEF ReadMeta, Reading
<1>2. /\ BegunSound(w) /\ RecordsSound(w) /\ SideSound(w) /\ PageSound(w) /\ NoneChecked(w)
      /\ NoneFlagged(w)
      /\ w.step = "records" /\ w.job[r] # 0
  BY <1>1, Zenon DEF TellSound, ReadMeta, Reading
<1>3. PICK meta : meta = [w.meta EXCEPT ![r] = Len(history[r])]
  OBVIOUS
<1>4. Len(history[r]) \in Nat \ {0} /\ w.rows[r] \in 1 .. Len(history[r])
  BY <1>2, RecordIs DEF RoundInvariant, BegunSound
<1>5. /\ meta \in [Records -> Nat] /\ meta[r] = Len(history[r])
      /\ \A q \in Records \ {r} : meta[q] = w.meta[q]
  BY <1>3, <1>4 DEF Tellings
<1>6. PICK v : v = [w EXCEPT !.meta = meta]
  OBVIOUS
<1>7. /\ v \in Tellings /\ v.end = w.end /\ v.step = w.step /\ v.from = w.from /\ v.share = w.share
      /\ v.unproven = w.unproven /\ v.meta = meta /\ v.job = w.job /\ v.read = w.read
      /\ v.unverified = w.unverified /\ v.rows = w.rows /\ v.pages = w.pages /\ v.authority = w.authority
  BY <1>5, <1>6 DEF Tellings
<1>8. telling' = [telling EXCEPT ![p] = v]
  <2>1. telling' = [telling EXCEPT ![p] = [w EXCEPT !.meta = [w.meta EXCEPT ![r] = Len(history[r])]]]
    BY <1>1 DEF ReadMeta, TellInvariant, TellTypes, Tellings
  <2> QED BY <1>3, <1>6, <2>1
<1>9. UNCHANGED <<roundVars, bound, reports>>
  BY DEF ReadMeta
<1>10. BegunSound(v)
  BY <1>2, <1>7 DEF BegunSound, ProofsTold
<1>11. RecordsSound(v)
  <2>1. ASSUME NEW q \in Records PROVE ShareSound(v, q) /\ ListSound(v, q) /\ CheckSound(v, q)
    <3>1. ShareSound(w, q) /\ ListSound(w, q) /\ CheckSound(w, q)
      BY <1>2 DEF RecordsSound
    <3>2. ShareSound(v, q)
      BY <1>7, <3>1 DEF ShareSound, LateWord
    <3>3. ListSound(v, q)
      <4>1. CASE q = r
        BY <1>2, <1>4, <1>5, <1>7, <3>1, <4>1 DEF ListSound
      <4>2. CASE q # r
        BY <1>5, <1>7, <3>1, <4>2 DEF ListSound
      <4> QED BY <4>1, <4>2
    <3>4. CheckSound(v, q)
      BY <1>7, <3>1 DEF CheckSound
    <3> QED BY <3>2, <3>3, <3>4
  <2> QED BY <2>1 DEF RecordsSound
<1>12. SideSound(v)
  BY <1>2, <1>7 DEF SideSound, SideTold
<1>13. PageSound(v) /\ NoneChecked(v) /\ NoneFlagged(v)
  BY <1>2, <1>7 DEF PageSound, NoneChecked, NoneFlagged
<1>14. TellSound(v)
  BY <1>7, <1>10, <1>11, <1>12, <1>13, Zenon DEF TellSound
<1> QED BY <1>8, <1>9, <1>14, TellingMoves

\* A snapshot that disagrees with what is read of its pipeline is of one that moved meanwhile.
LEMMA DisagreesIs ==
    ASSUME RoundInvariant, NEW w \in Tellings, BegunSound(w), RecordsSound(w), NEW r \in Records,
           w.share[r] # 0, w.job[r] # 0, w.meta[r] # 0, Disagrees(w, r)
    PROVE  Len(history[r]) > w.rows[r]
<1>1. PICK end, share, job, meta, known, len :
          /\ end = w.end /\ share = w.share[r] /\ job = w.job[r] /\ meta = w.meta[r] /\ known = w.rows[r]
          /\ len = Len(history[r])
  OBVIOUS
<1>2. end \in Nat \ {0} /\ len \in Nat /\ known \in 1 .. len
  BY <1>1, RecordIs DEF Tellings, BegunSound, RoundInvariant
<1>3. /\ share \in 1 .. len /\ (LateWord(w, r) \/ share = Upto(r, end))
      /\ job \in known .. len /\ meta \in known .. len
  BY <1>1 DEF RecordsSound, ShareSound, ListSound
<1>4. SUFFICES ASSUME known = len PROVE FALSE
  BY <1>1, <1>2
<1>5. job = len /\ meta = len
  BY <1>2, <1>3, <1>4
<1>6. ~LateWord(w, r)
  <2>1. known + 1 .. len = {}
    BY <1>2, <1>4
  <2> QED BY <1>1, <2>1 DEF LateWord
<1>7. share = Upto(r, end)
  BY <1>3, <1>6
<1>8. history[r][len].at <= end /\ len # share
  BY <1>1, <1>5, <1>7 DEF Disagrees
<1>9. len <= share
  BY <1>1, <1>2, <1>4, <1>7, <1>8, UptoIs DEF RoundInvariant
<1> QED BY <1>2, <1>3, <1>8, <1>9

LEMMA CheckHistoryKeeps ==
    ASSUME RoundInvariant, TellInvariant, NEW p \in Tellers, NEW r \in Pipes, CheckHistory(p, r)
    PROVE  TellInvariant'
<1>1. PICK w \in Tellings : w = telling[p] /\ TellSound(w)
  BY TellingIs, Zenon DEF CheckHistory, Reading
<1>2. /\ BegunSound(w) /\ RecordsSound(w) /\ SideSound(w) /\ PageSound(w) /\ NoneChecked(w)
      /\ NoneFlagged(w)
      /\ w.step = "records" /\ w.from = "pipelines" /\ w.read[r] = 0
      /\ \A q \in Pipes : w.meta[q] # 0
  BY <1>1, Zenon DEF TellSound, CheckHistory, Reading
<1>3. r \in Records /\ w.share[r] # 0 /\ w.meta[r] # 0
  BY <1>2 DEF SideSound, Records
<1>4. w.job[r] # 0
  BY <1>2, <1>3 DEF RecordsSound, ListSound
<1>5. PICK len : len = Len(history[r])
  OBVIOUS
<1>6. len \in Nat \ {0} /\ len \in 1 .. Len(history[r])
  BY <1>3, <1>5, RecordIs DEF RoundInvariant
<1>7. PICK read : read = [w.read EXCEPT ![r] = len]
  OBVIOUS
<1>8. read \in [Records -> Nat] /\ read[r] = len /\ \A q \in Records \ {r} : read[q] = w.read[q]
  BY <1>3, <1>6, <1>7 DEF Tellings
<1>9. PICK unverified : unverified = IF Disagrees(w, r) THEN w.unverified \cup {r} ELSE w.unverified
  OBVIOUS
<1>10. /\ unverified \in SUBSET Pipes /\ \A q \in Records \ {r} : q \in unverified <=> q \in w.unverified
       /\ r \notin w.unverified => (r \in unverified <=> Disagrees(w, r))
  BY <1>9 DEF Tellings
<1>11. r \notin w.unverified
  BY <1>1, <1>2, <1>3 DEF NoneFlagged, TellSound
<1>12. PICK v : v = [w EXCEPT !.read = read, !.unverified = unverified]
  OBVIOUS
<1>13. /\ v \in Tellings /\ v.end = w.end /\ v.step = w.step /\ v.from = w.from /\ v.share = w.share
       /\ v.unproven = w.unproven /\ v.job = w.job /\ v.meta = w.meta /\ v.read = read
       /\ v.unverified = unverified /\ v.rows = w.rows /\ v.pages = w.pages /\ v.authority = w.authority
  BY <1>8, <1>10, <1>12 DEF Tellings
<1>14. telling' = [telling EXCEPT ![p] = v]
  <2>1. telling' = [telling EXCEPT ![p] =
            [[w EXCEPT !.read = [w.read EXCEPT ![r] = len]]
                EXCEPT !.unverified = IF Disagrees(w, r) THEN w.unverified \cup {r} ELSE w.unverified]]
    BY <1>1, <1>5 DEF CheckHistory, TellInvariant, TellTypes, Tellings
  <2> QED BY <1>7, <1>9, <1>12, <2>1 DEF Tellings
<1>15. UNCHANGED <<roundVars, bound, reports>>
  BY DEF CheckHistory
<1>16. BegunSound(v)
  BY <1>2, <1>13 DEF BegunSound, ProofsTold
<1>17. CheckSound(v, r)
  <2>1. Upto(r, w.end) = AsOf(r, w.end, len)
    BY <1>5 DEF Upto
  <2>2. ASSUME Disagrees(w, r) PROVE Len(history[r]) > w.rows[r]
    BY <1>2, <1>3, <1>4, <2>2, DisagreesIs
  <2>3. ASSUME ~Disagrees(w, r) PROVE TurnOf(r, w.share[r]) = TurnOf(r, AsOf(r, w.end, len))
    BY <2>1, <2>3 DEF Disagrees
  <2> QED BY <1>3, <1>6, <1>8, <1>10, <1>11, <1>13, <2>2, <2>3 DEF CheckSound
<1>18. RecordsSound(v)
  <2>1. ASSUME NEW q \in Records PROVE ShareSound(v, q) /\ ListSound(v, q) /\ CheckSound(v, q)
    <3>1. ShareSound(w, q) /\ ListSound(w, q) /\ CheckSound(w, q)
      BY <1>2 DEF RecordsSound
    <3>2. ShareSound(v, q) /\ ListSound(v, q)
      BY <1>13, <3>1 DEF ShareSound, LateWord, ListSound
    <3>3. CASE q = r
      BY <1>17, <3>2, <3>3
    <3>4. CASE q # r
      BY <1>8, <1>10, <1>13, <3>1, <3>2, <3>4 DEF CheckSound
    <3> QED BY <3>3, <3>4
  <2> QED BY <2>1 DEF RecordsSound
<1>19. SideSound(v)
  BY <1>2, <1>13 DEF SideSound, SideTold
<1>20. PageSound(v) /\ NoneChecked(v) /\ NoneFlagged(v)
  <2>1. \A q \in v.unverified : v.read[q] # 0
    <3>1. \A q \in w.unverified : w.read[q] # 0
      BY <1>1, Zenon DEF NoneFlagged, TellSound
    <3>2. \A q \in unverified : q \in Records
      BY <1>10 DEF Records
    <3> QED BY <1>6, <1>8, <1>10, <1>13, <3>1, <3>2
  <2> QED BY <1>2, <1>13, <2>1 DEF PageSound, NoneChecked, NoneFlagged
<1>21. TellSound(v)
  BY <1>13, <1>16, <1>18, <1>19, <1>20, Zenon DEF TellSound
<1> QED BY <1>14, <1>15, <1>21, TellingMoves

LEMMA ReadTrackingKeeps ==
    ASSUME RoundInvariant, TellInvariant, NEW p \in Tellers, NEW r \in Trackings, ReadTracking(p, r)
    PROVE  TellInvariant'
<1>1. PICK w \in Tellings : w = telling[p] /\ TellSound(w)
  BY TellingIs, Zenon DEF ReadTracking, Reading
<1>2. /\ BegunSound(w) /\ RecordsSound(w) /\ SideSound(w) /\ NoneChecked(w) /\ NoneFlagged(w)
      /\ w.step = "records" /\ w.from = "trackings" /\ w.share[r] = 0
  BY <1>1, Zenon DEF TellSound, ReadTracking, Reading
<1>3. r \in Records /\ w.end \in Nat \ {0}
  BY DEF Records, Tellings
<1>4. PICK len : len = Upto(r, w.end)
  OBVIOUS
<1>5. len \in Nat \ {0} /\ len \in 1 .. Len(history[r])
  BY <1>3, <1>4, UptoIs DEF RoundInvariant
<1>6. PICK share : share = [w.share EXCEPT ![r] = len]
  OBVIOUS
<1>7. share \in [Records -> Nat] /\ share[r] = len /\ \A q \in Records \ {r} : share[q] = w.share[q]
  BY <1>3, <1>5, <1>6 DEF Tellings
<1>8. PICK v : v = [w EXCEPT !.share = share]
  OBVIOUS
<1>9. /\ v \in Tellings /\ v.end = w.end /\ v.step = w.step /\ v.from = w.from /\ v.share = share
      /\ v.unproven = w.unproven /\ v.job = w.job /\ v.meta = w.meta /\ v.read = w.read
      /\ v.unverified = w.unverified /\ v.rows = w.rows /\ v.pages = w.pages /\ v.authority = w.authority
  BY <1>7, <1>8 DEF Tellings
<1>10. telling' = [telling EXCEPT ![p] = v]
  <2>1. telling' = [telling EXCEPT ![p] = [w EXCEPT !.share = [w.share EXCEPT ![r] = len]]]
    BY <1>1, <1>4 DEF ReadTracking, TellInvariant, TellTypes, Tellings
  <2> QED BY <1>6, <1>8, <2>1
<1>11. UNCHANGED <<roundVars, bound, reports>>
  BY DEF ReadTracking
<1>12. BegunSound(v)
  BY <1>2, <1>9 DEF BegunSound, ProofsTold
<1>13. RecordsSound(v)
  <2>1. ASSUME NEW q \in Records PROVE ShareSound(v, q) /\ ListSound(v, q) /\ CheckSound(v, q)
    <3>1. ShareSound(w, q) /\ ListSound(w, q) /\ CheckSound(w, q)
      BY <1>2 DEF RecordsSound
    <3>2. ListSound(v, q)
      BY <1>9, <3>1 DEF ListSound
    <3>3. CASE q = r
      <4>1. ShareSound(v, r)
        BY <1>4, <1>5, <1>7, <1>9 DEF ShareSound
      <4>2. w.read[r] = 0
        BY <1>2, <3>1, <3>3 DEF CheckSound
      <4>3. CheckSound(v, r)
        BY <1>9, <4>2 DEF CheckSound
      <4> QED BY <3>2, <3>3, <4>1, <4>3
    <3>4. CASE q # r
      BY <1>7, <1>9, <3>1, <3>2, <3>4 DEF ShareSound, LateWord, CheckSound
    <3> QED BY <3>3, <3>4
  <2> QED BY <2>1 DEF RecordsSound
<1>14. SideSound(v)
  BY <1>2, <1>9 DEF SideSound, SideTold
<1>15. PageSound(v) /\ NoneChecked(v) /\ NoneFlagged(v)
  BY <1>2, <1>9 DEF PageSound, NoneChecked, NoneFlagged
<1>16. TellSound(v)
  BY <1>9, <1>12, <1>13, <1>14, <1>15, Zenon DEF TellSound
<1> QED BY <1>10, <1>11, <1>16, TellingMoves

LEMMA ReadPagesKeeps ==
    ASSUME RoundInvariant, TellInvariant, NEW p \in Tellers, ReadPages(p)
    PROVE  TellInvariant'
<1>1. PICK w \in Tellings : w = telling[p] /\ TellSound(w)
  BY TellingIs, Zenon DEF ReadPages, Reading
<1>2. BegunSound(w) /\ RecordsSound(w) /\ SideSound(w) /\ NoneChecked(w) /\ NoneFlagged(w)
  BY <1>1, Zenon DEF TellSound
<1>3. /\ w.step = "records"
      /\ \/ w.from = "pipelines" /\ \A r \in Pipes : w.read[r] # 0
         \/ w.from = "trackings" /\ \A r \in Trackings : w.share[r] # 0
  BY <1>1, Zenon DEF ReadPages, Reading
<1>4. PICK page : page = LatestPage(w.end)
  OBVIOUS
<1>5. page \in Pages \cup {Unfiled}
  <2>1. CASE Seen(w.end) = {}
    BY <1>4, <2>1 DEF LatestPage
  <2>2. CASE Seen(w.end) # {}
    <3>1. NewestPage(w.end) \in Seen(w.end)
      BY <2>2, NewestPageIs DEF RoundInvariant, Tellings
    <3> QED BY <1>4, <2>2, <3>1, SightingsAre DEF LatestPage, Seen, RoundInvariant
  <2> QED BY <2>1, <2>2
<1>6. PICK v : v = [w EXCEPT !.step = "pages", !.page = page]
  OBVIOUS
<1>7. /\ v \in Tellings /\ v.end = w.end /\ v.step = "pages" /\ v.from = w.from /\ v.share = w.share
      /\ v.unproven = w.unproven /\ v.job = w.job /\ v.meta = w.meta /\ v.read = w.read /\ v.page = page
      /\ v.unverified = w.unverified /\ v.rows = w.rows /\ v.pages = w.pages /\ v.authority = w.authority
  BY <1>5, <1>6 DEF Tellings
<1>8. telling' = [telling EXCEPT ![p] = v]
  <2>1. telling' = [telling EXCEPT ![p] = [[w EXCEPT !.step = "pages"] EXCEPT !.page = page]]
    BY <1>1, <1>4 DEF ReadPages, TellInvariant, TellTypes, Tellings
  <2> QED BY <1>6, <2>1 DEF Tellings
<1>9. UNCHANGED <<roundVars, bound, reports>>
  BY DEF ReadPages
<1>10. BegunSound(v)
  BY <1>2, <1>7 DEF BegunSound, ProofsTold
<1>11. RecordsSound(v)
  <2>1. ASSUME NEW q \in Records PROVE ShareSound(v, q) /\ ListSound(v, q) /\ CheckSound(v, q)
    BY <1>2, <1>7 DEF RecordsSound, ShareSound, LateWord, ListSound, CheckSound
  <2> QED BY <2>1 DEF RecordsSound
<1>12. SideSound(v)
  BY <1>2, <1>3, <1>7 DEF SideSound, SideTold
<1>13. PageSound(v)
  <2>1. PageTold(v)
    BY <1>4, <1>7 DEF PageTold
  <2> QED BY <1>3, <1>7, <2>1 DEF PageSound
<1>14. NoneChecked(v) /\ NoneFlagged(v)
  BY <1>2, <1>7 DEF NoneChecked, NoneFlagged
<1>15. TellSound(v)
  BY <1>7, <1>10, <1>11, <1>12, <1>13, <1>14, Zenon DEF TellSound
<1> QED BY <1>8, <1>9, <1>15, TellingMoves

LEMMA SaveReportKeeps ==
    ASSUME RoundInvariant, TellInvariant, NEW p \in Tellers, SaveReport(p)
    PROVE  TellInvariant'
<1>1. PICK w \in Tellings : w = telling[p] /\ TellSound(w)
  BY TellingIs, Zenon DEF SaveReport
<1>2. w.step = "pages" /\ w.report \in Reports
  BY <1>1 DEF SaveReport, Tellings
<1>3. PICK i : i = w.report
  OBVIOUS
<1>4. /\ reports' = [reports EXCEPT ![i] = w] /\ telling' = [telling EXCEPT ![p] = Unfiled]
      /\ UNCHANGED <<roundVars, bound>>
  BY <1>1, <1>3 DEF SaveReport
<1>5. telling = [q \in Tellers |-> telling[q]] /\ reports = [k \in Reports |-> reports[k]]
  BY DEF TellInvariant, TellTypes
<1>6. /\ telling'[p] = Unfiled /\ \A q \in Tellers \ {p} : telling'[q] = telling[q]
      /\ telling' = [q \in Tellers |-> telling'[q]]
  BY <1>4, <1>5
<1>7. /\ reports'[i] = w /\ \A k \in Reports \ {i} : reports'[k] = reports[k]
      /\ reports' = [k \in Reports |-> reports'[k]]
  BY <1>2, <1>3, <1>4, <1>5
<1>8. ASSUME NEW v, TellSound(v) PROVE TellSound(v)'
  <2>1. UNCHANGED <<instant, authority, history, pausedBy, sightings, judging, bound>>
    BY <1>4 DEF roundVars
  <2>2. RoundGoes
    BY <2>1, NothingMoved
  <2>3. RoundTypes /\ HistorySound /\ TellTypes
    BY DEF RoundInvariant, TellInvariant
  <2>4. OthersGo
    BY <2>1, <2>2, <2>3 DEF OthersGo, RoundTypes, TellTypes
  <2> QED BY <1>8, <2>3, <2>4, TellStays
<1>9. ASSUME NEW q \in Tellers, telling'[q] # Unfiled PROVE \E v : v = telling'[q] /\ TellSound(v)'
  <2>1. telling'[q] = telling[q]
    BY <1>6, <1>9
  <2>2. PICK v : v = telling[q] /\ TellSound(v)
    BY <1>9, <2>1, Zenon DEF TellInvariant, TellingsSound
  <2> QED BY <1>8, <2>1, <2>2
<1>10. ASSUME NEW k \in Reports, reports'[k] # Unfiled
       PROVE  \E v : v = reports'[k] /\ TellSound(v)' /\ v.step = "pages"
  <2>1. CASE k = i
    BY <1>1, <1>2, <1>7, <1>8, <2>1
  <2>2. CASE k # i
    <3>1. reports'[k] = reports[k]
      BY <1>7, <2>2
    <3>2. PICK v : v = reports[k] /\ TellSound(v) /\ v.step = "pages"
      BY <1>10, <3>1, Zenon DEF TellInvariant, ReportsSound
    <3> QED BY <1>8, <3>1, <3>2
  <2> QED BY <2>1, <2>2
<1>11. TellTypes'
  BY <1>4, <1>6, <1>7 DEF TellInvariant, TellTypes
<1> QED BY <1>9, <1>10, <1>11, Zenon DEF TellInvariant, TellingsSound, ReportsSound

LEMMA BindTrackingKeeps ==
    ASSUME RoundInvariant, TellInvariant, NEW l \in Legacies, BindTracking(l)
    PROVE  TellInvariant'
<1>1. /\ bound[l] = 0 /\ bound' = [bound EXCEPT ![l] = instant]
      /\ UNCHANGED <<instant, authority, history, pausedBy, sightings, judging, telling, reports>>
  BY DEF BindTracking, roundVars
<1>2. RoundGoes
  BY <1>1, NothingMoved
<1>3. bound \in [Legacies -> Nat] /\ instant \in Nat
  BY DEF TellInvariant, TellTypes, RoundInvariant, RoundTypes
<1>4. OthersGo
  BY <1>1, <1>2, <1>3 DEF OthersGo
<1> QED BY <1>1, <1>4, TellsStay

\* The clock runs on and the authority is taken once.
LEMMA ClockGoes ==
    ASSUME RoundInvariant, [RoundNext]_roundVars
    PROVE  /\ instant' \in Nat /\ instant <= instant'
           /\ authority' = authority \/ (authority = 0 /\ authority' \in 1 .. instant)
<1>1. instant \in Nat
  BY DEF RoundInvariant, RoundTypes
<1>2. \/ instant' = instant /\ authority' = authority
      \/ instant' = instant + 1 /\ authority' = authority
      \/ instant' = instant /\ authority = 0 /\ authority' \in 1 .. instant
  BY Zenon DEF RoundNext, roundVars, RoundTick, TakeAuthority, ChangeRecord, FilePage, FileAgain, JudgePage,
     FindRecords, ReadRecord, PausePipeline, PauseLegacy, PauseRecord, AnswerPage, JudgingEnds
<1> QED BY <1>1, <1>2

LEMMA ReportStarts == ReportInit => RoundInvariant /\ TellInvariant
<1> SUFFICES ASSUME ReportInit PROVE RoundInvariant /\ TellInvariant
  OBVIOUS
<1>1. RoundInvariant
  BY RoundStarts DEF ReportInit
<1>2. /\ bound = [l \in Legacies |-> 0] /\ telling = [p \in Tellers |-> Unfiled]
      /\ reports = [i \in Reports |-> Unfiled]
  BY Zenon DEF ReportInit
<1>3. TellInvariant
  BY <1>2 DEF TellInvariant, TellTypes, TellingsSound, ReportsSound
<1> QED BY <1>1, <1>3

LEMMA ReportStep ==
    RoundInvariant /\ TellInvariant /\ [ReportNext]_reportVars => RoundInvariant' /\ TellInvariant'
<1> SUFFICES ASSUME RoundInvariant, TellInvariant, [ReportNext]_reportVars
             PROVE  RoundInvariant' /\ TellInvariant'
  OBVIOUS
<1>1. ASSUME [RoundNext]_roundVars, UNCHANGED tellVars PROVE RoundInvariant' /\ TellInvariant'
  <2>1. RoundInvariant' /\ RoundGoes
    BY <1>1, RoundStep
  <2>2. OthersGo
    BY <1>1, <2>1, ClockGoes DEF OthersGo, tellVars, TellInvariant, TellTypes
  <2>3. UNCHANGED <<telling, reports>>
    BY <1>1 DEF tellVars
  <2> QED BY <2>1, <2>2, <2>3, TellsStay
<1>2. ASSUME UNCHANGED roundVars PROVE RoundInvariant'
  BY <1>2, RoundStep
<1>3. CASE UNCHANGED reportVars
  <2>1. UNCHANGED roundVars /\ UNCHANGED tellVars
    BY <1>3, Zenon DEF reportVars
  <2> QED BY <1>1, <2>1
<1>4. ASSUME NEW l \in Legacies, BindTracking(l) PROVE RoundInvariant' /\ TellInvariant'
  <2>1. UNCHANGED roundVars
    BY <1>4, Zenon DEF BindTracking
  <2> QED BY <1>2, <1>4, <2>1, BindTrackingKeeps
<1>5. ASSUME NEW p \in Tellers, NEW i \in Reports, NEW end \in 1 .. LastInstant, BeginReport(p, i, end)
      PROVE  RoundInvariant' /\ TellInvariant'
  <2>1. UNCHANGED roundVars
    BY <1>5, Zenon DEF BeginReport
  <2> QED BY <1>2, <1>5, <2>1, BeginReportKeeps
<1>6. ASSUME NEW p \in Tellers, ReadSnapshots(p) PROVE RoundInvariant' /\ TellInvariant'
  <2>1. UNCHANGED roundVars
    BY <1>6, Zenon DEF ReadSnapshots
  <2> QED BY <1>2, <1>6, <2>1, ReadSnapshotsKeeps
<1>7. ASSUME NEW p \in Tellers, ReadPages(p) PROVE RoundInvariant' /\ TellInvariant'
  <2>1. UNCHANGED roundVars
    BY <1>7, Zenon DEF ReadPages
  <2> QED BY <1>2, <1>7, <2>1, ReadPagesKeeps
<1>8. ASSUME NEW p \in Tellers, SaveReport(p) PROVE RoundInvariant' /\ TellInvariant'
  <2>1. UNCHANGED roundVars
    BY <1>8, Zenon DEF SaveReport
  <2> QED BY <1>2, <1>8, <2>1, SaveReportKeeps
<1>9. ASSUME NEW p \in Tellers, TellingEnds(p) PROVE RoundInvariant' /\ TellInvariant'
  <2>1. UNCHANGED roundVars
    BY <1>9, Zenon DEF TellingEnds
  <2> QED BY <1>2, <1>9, <2>1, TellingEndsKeeps
<1>10. ASSUME NEW p \in Tellers, NEW r \in Pipes, ReadJob(p, r) PROVE RoundInvariant' /\ TellInvariant'
  <2>1. UNCHANGED roundVars /\ r \in Records
    BY <1>10, Zenon DEF ReadJob, Records
  <2> QED BY <1>2, <1>10, <2>1, ReadJobKeeps
<1>11. ASSUME NEW p \in Tellers, NEW r \in Pipes, ReadMeta(p, r) PROVE RoundInvariant' /\ TellInvariant'
  <2>1. UNCHANGED roundVars /\ r \in Records
    BY <1>11, Zenon DEF ReadMeta, Records
  <2> QED BY <1>2, <1>11, <2>1, ReadMetaKeeps
<1>12. ASSUME NEW p \in Tellers, NEW r \in Pipes, CheckHistory(p, r) PROVE RoundInvariant' /\ TellInvariant'
  <2>1. UNCHANGED roundVars
    BY <1>12, Zenon DEF CheckHistory
  <2> QED BY <1>2, <1>12, <2>1, CheckHistoryKeeps
<1>13. ASSUME NEW p \in Tellers, NEW r \in Trackings, ReadTracking(p, r)
       PROVE  RoundInvariant' /\ TellInvariant'
  <2>1. UNCHANGED roundVars
    BY <1>13, Zenon DEF ReadTracking
  <2> QED BY <1>2, <1>13, <2>1, ReadTrackingKeeps
<1>14. CASE RoundNext /\ UNCHANGED tellVars
  BY <1>1, <1>14
<1> QED BY <1>3, <1>4, <1>5, <1>6, <1>7, <1>8, <1>9, <1>10, <1>11, <1>12, <1>13, <1>14, Zenon DEF ReportNext

\* A report that has been filed is true of its round.
LEMMA ReportsAreTrue ==
    ASSUME RoundInvariant, TellInvariant
    PROVE  ReportsStand
<1> SUFFICES ASSUME NEW i \in Reports, reports[i] # Unfiled
             PROVE  LET w == reports[i]
                    IN  SideTold(w) /\ RecordsTold(w) /\ ChecksTold(w) /\ PageTold(w) /\ ProofsTold(w)
  BY Zenon DEF ReportsStand
<1>1. PICK w : w = reports[i] /\ TellSound(w) /\ w.step = "pages"
  BY Zenon DEF TellInvariant, ReportsSound
<1>2. w \in Tellings /\ BegunSound(w) /\ RecordsSound(w) /\ SideSound(w) /\ PageSound(w)
  BY <1>1, Zenon DEF TellSound
<1>3. SideTold(w) /\ PageTold(w) /\ ProofsTold(w)
  BY <1>1, <1>2 DEF SideSound, PageSound, BegunSound
<1>4. /\ w.from = "pipelines" => \A r \in Pipes : w.share[r] # 0 /\ w.read[r] # 0
      /\ w.from = "trackings" => \A r \in Trackings : w.share[r] # 0
  BY <1>1, <1>2 DEF SideSound, PageSound
<1>5. RecordsTold(w)
  <2>1. ASSUME NEW r \in RecordsOf(w) PROVE LateWord(w, r) \/ w.share[r] = Upto(r, w.end)
    <3>1. r \in Records /\ w.share[r] # 0
      BY <1>3, <1>4, <2>1 DEF RecordsOf, Records, SideTold
    <3> QED BY <1>2, <3>1 DEF RecordsSound, ShareSound
  <2> QED BY <2>1 DEF RecordsTold
<1>6. ChecksTold(w)
  <2>1. ASSUME w.from = "pipelines", NEW r \in Pipes
        PROVE  IF r \in w.unverified THEN Len(history[r]) > w.rows[r]
               ELSE TurnOf(r, w.share[r]) = TurnOf(r, AsOf(r, w.end, w.read[r]))
    <3>1. r \in Records /\ w.read[r] # 0
      BY <1>4, <2>1 DEF Records
    <3> QED BY <1>2, <3>1 DEF RecordsSound, CheckSound
  <2> QED BY <2>1 DEF ChecksTold
<1> QED BY <1>1, <1>3, <1>5, <1>6, Zenon

\* A page that tells the owner the login is lost has paused every record it is about, however its
\* filing was interleaved, interrupted and tried again; and a report says what was so when its
\* round ended, on either side of the pipelines' authority and whatever was committed between its
\* reads, but for what came in late (host_checks.py, host_reports.py).
THEOREM PausesAndReportsStand == ReportSpec => []RoundsReported
<1>1. RoundInvariant /\ TellInvariant => RoundsReported
  BY ReportsAreTrue DEF RoundInvariant, RoundsReported
<1> QED BY ReportStarts, ReportStep, <1>1, PTL DEF ReportSpec

=============================================================================
