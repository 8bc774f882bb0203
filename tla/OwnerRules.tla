----------------------------- MODULE OwnerRules -----------------------------
(***************************************************************************)
(* The ledger of rules the owner confirms: writing rules promoted from the *)
(* edits made to drafts (storage/message_diff_repository.py) and rules a   *)
(* funnel diagnosis suggests (storage/pipeline_rules.py), with the review  *)
(* that proposes to undo a rule that did not help.  Both kinds share one   *)
(* table of proposals and one of decisions; a rule is in force while its   *)
(* latest decision is an acceptance.                                       *)
(*                                                                         *)
(* A proposal stands for its number in the table.  Rates and texts are     *)
(* left out: figures and edits count the versions of the evidence, and a   *)
(* diagnosis carries the version it was computed from.  The commands of    *)
(* pipeline_rules.py hold the write lock throughout and are one step each; *)
(* confirming a writing rule reads and writes in separate transactions.    *)
(***************************************************************************)
EXTENDS Integers, Sequences, SequencesExt, FiniteSets

CONSTANTS Scopes,        \* slice of the funnel and category a rule is for
          Editors,       \* sessions that confirm writing rules
          MaxFigures,    \* bound on the versions of the funnel's figures
          MaxEdits,      \* bound on the versions of the recorded edits
          MaxDiagnoses,  \* bound on the stored diagnoses
          MaxProposals,  \* bound on the table of proposals
          MaxDecisions   \* bound on the decisions on one proposal

VARIABLES figures,    \* version of the pipeline facts the metrics are computed from
          edits,      \* version of the report on the recorded edits
          diagnoses,  \* stored diagnoses
          proposals,  \* message_rule_proposals
          standing,   \* per proposal: what its rows of message_rule_confirmations say
          deciding    \* per session: a writing rule between the checks and the insert

ownerVars == <<figures, edits, diagnoses, proposals, standing, deciding>>

Rules == DOMAIN proposals
None == 0

OwnerInit ==
  /\ figures = 0 /\ edits = 0
  /\ diagnoses = {}
  /\ proposals = <<>> /\ standing = <<>>
  /\ deciding = [e \in Editors |-> None]

\* confirmed_rules: the latest decision on the proposal is an acceptance.
InForce == {r \in Rules : standing[r].accepted}

\* scope_state: the diagnosis rules in force for one slice and category.
ScopeState(s) == {r \in InForce : proposals[r].kind = "pipeline" /\ proposals[r].scope = s}

\* fresh_evidence: computed again, the metric has the same source, and the
\* rule it was computed under is in force by the very same decision.
EvidenceFresh(d) ==
  /\ d.figures = figures
  /\ d.rule # None => d.rule \in InForce /\ standing[d.rule].decided = d.under

ObserveFigures ==
  /\ figures < MaxFigures
  /\ figures' = figures + 1
  /\ UNCHANGED <<edits, diagnoses, proposals, standing, deciding>>

RecordEdit ==
  /\ edits < MaxEdits
  /\ edits' = edits + 1
  /\ UNCHANGED <<figures, diagnoses, proposals, standing, deciding>>

\* compute and diagnose: a decline without a rule, or a rule the owner
\* confirmed found ineffective in its own scope (an effective one is on
\* record, and nothing is proposed from it).
Diagnose(s, r, code) ==
  /\ Cardinality(diagnoses) < MaxDiagnoses
  /\ IF code = "decline" THEN r = None ELSE r \in ScopeState(s)
  /\ diagnoses' = diagnoses \union
       {[scope |-> s, code |-> code, figures |-> figures, rule |-> r,
         under |-> IF r = None THEN 0 ELSE standing[r].decided]}
  /\ UNCHANGED <<figures, edits, proposals, standing, deciding>>

\* save_proposal; origin is the first rule of the line of replacements.
Proposed(d, previous, operation, restore) ==
  /\ Len(proposals) < MaxProposals
  /\ proposals' = Append(proposals,
       [kind |-> "pipeline", scope |-> d.scope, evidence |-> d, previous |-> previous,
        operation |-> operation, restore |-> restore, state |-> ScopeState(d.scope),
        origin |-> IF previous = None THEN Len(proposals) + 1 ELSE proposals[previous].origin])
  /\ standing' = Append(standing, [accepted |-> FALSE, decided |-> 0, taken |-> 0])
  /\ UNCHANGED <<figures, edits, diagnoses, deciding>>

ProposeRule(d, previous) ==
  /\ d.code = "decline" /\ EvidenceFresh(d)
  /\ previous \in {None} \union ScopeState(d.scope)
  /\ Proposed(d, previous, "activate", None)

\* review: only an ineffective rule gives a proposal, to put back what it replaced.
Review(d) ==
  /\ d.code = "ineffective" /\ EvidenceFresh(d)
  /\ LET before == proposals[d.rule].previous
     IN  Proposed(d, d.rule, IF before = None THEN "withdraw" ELSE "restore", before)

\* decision: one more row, the latest of its proposal.
Decided(st, r, accepted) ==
  IF r = None THEN st
  ELSE [st EXCEPT ![r].accepted = accepted, ![r].decided = @ + 1]

\* confirm: an accepted effect takes its predecessor out of force, puts the
\* rule it restores back, and comes into force itself if it activates.
Effect(r) ==
  Decided(Decided(Decided(standing, proposals[r].previous, FALSE),
                  proposals[r].restore, TRUE),
          r, proposals[r].operation = "activate")

\* Mutant: the rules in force are not compared with those of the proposal.
AcceptableAnyState(r) == EvidenceFresh(proposals[r].evidence)

\* confirm: the evidence holds, and the rules in force are those the proposal was made under.
Acceptable(r) ==
  /\ EvidenceFresh(proposals[r].evidence)
  /\ proposals[r].state = ScopeState(proposals[r].scope)

Confirm(r, accepted) ==
  /\ proposals[r].kind = "pipeline" /\ standing[r].decided < MaxDecisions
  /\ IF accepted
     THEN /\ Acceptable(r)
          /\ standing' = [Effect(r) EXCEPT ![r].taken = @ + 1]
     ELSE standing' = Decided(standing, r, FALSE)
  /\ UNCHANGED <<figures, edits, diagnoses, proposals, deciding>>

\* MessageDiffRepository.propose: a category that three jobs support.
ProposeWriting(s) ==
  /\ edits > 0 /\ Len(proposals) < MaxProposals
  /\ proposals' = Append(proposals,
       [kind |-> "writing", scope |-> s, evidence |-> edits, previous |-> None,
        operation |-> "activate", restore |-> None, state |-> {}, origin |-> Len(proposals) + 1])
  /\ standing' = Append(standing, [accepted |-> FALSE, decided |-> 0, taken |-> 0])
  /\ UNCHANGED <<figures, edits, diagnoses, deciding>>

\* MessageDiffRepository.confirm, up to the insert: a diagnosis rule is refused,
\* an acceptance needs the report the proposal was made from.
WritingRule(r) == proposals[r].kind = "writing" /\ proposals[r].evidence = edits

CheckWriting(e, r) ==
  /\ deciding[e] = None /\ WritingRule(r)
  /\ deciding' = [deciding EXCEPT ![e] = r]
  /\ UNCHANGED <<figures, edits, diagnoses, proposals, standing>>

DecideWriting(e) ==
  /\ deciding[e] # None /\ standing[deciding[e]].decided < MaxDecisions
  /\ standing' = Decided(standing, deciding[e], TRUE)
  /\ deciding' = [deciding EXCEPT ![e] = None]
  /\ UNCHANGED <<figures, edits, diagnoses, proposals>>

\* A refusal has no evidence to check and is one insert.
RefuseWriting(r) ==
  /\ proposals[r].kind = "writing" /\ standing[r].decided < MaxDecisions
  /\ standing' = Decided(standing, r, FALSE)
  /\ UNCHANGED <<figures, edits, diagnoses, proposals, deciding>>

OwnerNext ==
  \/ ObserveFigures
  \/ RecordEdit
  \/ \E s \in Scopes, r \in {None} \union Rules, code \in {"decline", "ineffective"} :
       Diagnose(s, r, code)
  \/ \E d \in diagnoses, previous \in {None} \union Rules : ProposeRule(d, previous)
  \/ \E d \in diagnoses : Review(d)
  \/ \E r \in Rules, accepted \in BOOLEAN : Confirm(r, accepted)
  \/ \E s \in Scopes : ProposeWriting(s)
  \/ \E e \in Editors, r \in Rules : CheckWriting(e, r)
  \/ \E e \in Editors : DecideWriting(e)
  \/ \E r \in Rules : RefuseWriting(r)

OwnerSpec == OwnerInit /\ [][OwnerNext]_ownerVars
-----------------------------------------------------------------------------
\* Of a rule, the rules that replaced it and the ones that replaced those, at
\* most one is in force, whatever is refused, replaced or rolled back between
\* a proposal and the owner's answer (pipeline_rules.py confirm, review).
OneOfEachLine ==
  \A r, q \in InForce : proposals[r].origin = proposals[q].origin => r = q

\* A proposal to undo a rule takes effect once: after the rule was accepted
\* anew, the old measurement no longer undoes it (pipeline_metrics.py
\* fresh_evidence compares the rule's decision, not only its id).
UndoneOnce ==
  \A r \in Rules : proposals[r].operation # "activate" => standing[r].taken <= 1

\* The rules in force are those the owner's latest answers leave, one of each line.
OwnerHeard ==
    /\ OneOfEachLine
    /\ UndoneOnce
=============================================================================
