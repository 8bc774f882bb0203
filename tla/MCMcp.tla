---- MODULE MCMcp ----
(***************************************************************************)
(* Instances of McpLedger for TLC.                                         *)
(***************************************************************************)
EXTENDS McpLedger, TLC

\* One round with a batch of a search and a view, and a second batch with one view.
CallsRounds == {"m1"}
CallsSourcing == [r \in CallsRounds |-> "s1"]
CallsPrevious == [r \in CallsRounds |-> None]
CallsCandidate == [r \in CallsRounds |-> "x"]
CallsCalls == {"c1", "c2", "c3"}
CallsRound == [c \in CallsCalls |-> "m1"]
CallsBatch == [c \in CallsCalls |-> IF c = "c3" THEN "b2" ELSE "b1"]
CallsOp == [c \in CallsCalls |-> IF c = "c1" THEN "query" ELSE "detail"]
NoActions == [d \in {} |-> "m1"]

\* Two rounds of one candidate with a call each; PairActions gives both deliveries to the first.
TwoRounds == {"m1", "m2"}
TwoSourcing == [r \in TwoRounds |-> IF r = "m1" THEN "s1" ELSE "s2"]
TwoPrevious == [r \in TwoRounds |-> None]
TwoCandidate == [r \in TwoRounds |-> "x"]
TwoCalls == {"c1", "c2"}
TwoCallRound == [c \in TwoCalls |-> IF c = "c1" THEN "m1" ELSE "m2"]
TwoBatch == [c \in TwoCalls |-> IF c = "c1" THEN "b1" ELSE "b2"]
TwoOp == [c \in TwoCalls |-> "detail"]

\* One round with one call and two deliveries.
PairCalls == {"c1"}
PairRound == [c \in PairCalls |-> "m1"]
PairBatch == [c \in PairCalls |-> "b1"]
PairOp == [c \in PairCalls |-> "detail"]
PairActions == [d \in {"d1", "d2"} |-> "m1"]

\* Which external identity a delivery has makes no difference, only whether two are the same.
ReferenceSymmetry == Permutations(References)
====
