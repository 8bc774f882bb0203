---- MODULE DynamicRules ----
(***************************************************************************)
(* One candidate's owner parameters: questions about one variable, the     *)
(* versions the owner's answers make, the one-time initialization, the     *)
(* owner messages that reopen the configuration, and the sourcing rounds   *)
(* that freeze a version.  Values and wording do not matter, only which    *)
(* question set a variable and which version it was asked against.         *)
(***************************************************************************)
EXTENDS Integers, Sequences, FiniteSetsExt

CONSTANTS
    Names,        \* variables of the registry
    BaseNames,    \* BASE_CONFIGURATION_NAMES
    Unset,        \* no value
    Requests,     \* the owner's change requests: [message, names, at, scope], scope a round or "reusable"
    Hunts,        \* sourcing run ids
    LastHour,     \* bound on time
    MaxQuestions  \* bound on saved proposals

ASSUME RuleSorts ==
    /\ BaseNames \subseteq Names
    /\ \A q \in Requests : q.names \subseteq Names /\ q.scope \in Hunts \cup {"reusable"}
    /\ {LastHour, MaxQuestions} \subseteq Nat

VARIABLES
    questions,  \* dynamic_rule_proposals: [name, request, decided, base, old, at]
    versions,   \* dynamic_rule_versions, the last one the head: [question, values, effective]
    spent,      \* configuration_owner_consumptions: [message, name, question, event]
    opened,     \* configuration_initializations: when, or Unset
    notified,   \* dynamic_rule_announcements: versions the owner was told of
    hunts,      \* sourcing_runs: [base, overrides, reads], by run id
    hour

ruleVars == <<questions, versions, spent, opened, notified, hunts, hour>>

RuleInit ==
    /\ questions = <<>> /\ versions = <<>> /\ spent = {} /\ notified = {}
    /\ opened = Unset /\ hour = 0
    /\ hunts = [h \in Hunts |-> Unset]

----
\* values of the head: by variable, the question whose answer set it.
HeadValues == IF versions = <<>> THEN [n \in Names |-> Unset] ELSE versions[Len(versions)].values
SetNames == {n \in Names : HeadValues[n] # Unset}
Since == IF versions = <<>> THEN 0 ELSE versions[Len(versions)].effective

\* Mutant: the round a message was meant for is part of the key it is spent under.
UsesOfInScope(request, name) ==
    {s \in spent : s.message = request.message /\ s.name = name
                   /\ questions[s.question].request.scope = request.scope}

\* _owner_consumption: by the message and the variable, whatever scope it was quoted for.
UsesOf(request, name) == {s \in spent : s.message = request.message /\ s.name = name}

\* require_owner_change_request.
RequestHolds(request, name, spender) ==
    /\ opened # Unset => request # Unset /\ request.at >= opened
    /\ request # Unset =>
        /\ UsesOf(request, name) \subseteq spender
        /\ UsesOf(request, name) = {} /\ HeadValues[name] # Unset =>
               request.at > questions[HeadValues[name]].decided

\* make_proposal: asked about the head, for a decision newer than the variable's last one.
Askable(q) ==
    /\ q.at >= Since /\ q.decided <= q.at
    /\ HeadValues[q.name] # Unset => q.decided > questions[HeadValues[q.name]].decided
    /\ q.base = Len(versions) /\ q.old = HeadValues[q.name]

----
\* rules propose: the question is made and saved against one and the same head.
Propose(name, request, decided) ==
    LET q == [name |-> name, request |-> request, decided |-> decided,
              base |-> Len(versions), old |-> HeadValues[name], at |-> hour]
    IN  /\ Len(questions) < MaxQuestions
        /\ request # Unset => name \in request.names /\ request.at <= decided
        /\ RequestHolds(request, name, {}) /\ Askable(q)
        /\ questions' = Append(questions, q)
        /\ UNCHANGED <<versions, spent, opened, notified, hunts, hour>>

SpendFor(q, event) ==
    {[message |-> questions[q].request.message, name |-> questions[q].name,
      question |-> q, event |-> event] : r \in {questions[q].request} \ {Unset}}

Approvable(q) ==
    /\ questions[q].request # Unset => questions[q].request.scope = "reusable"
    /\ RequestHolds(questions[q].request, questions[q].name, {})
    /\ Askable(questions[q])

\* rules approve: the new version, the spent request and the head in one transaction.
Approve(q) ==
    /\ \A i \in DOMAIN versions : versions[i].question # q
    /\ Approvable(q)
    /\ versions' = Append(versions,
           [question |-> q, effective |-> hour, values |-> [HeadValues EXCEPT ![questions[q].name] = q]])
    /\ spent' = spent \cup SpendFor(q, "approved")
    /\ UNCHANGED <<questions, opened, notified, hunts, hour>>

\* rules initialize: once, with every base variable set.
Initialize ==
    /\ versions # <<>> /\ opened = Unset /\ BaseNames \subseteq SetNames
    /\ opened' = hour
    /\ UNCHANGED <<questions, versions, spent, notified, hunts, hour>>

Acknowledge(v) ==
    /\ v \notin notified /\ notified' = notified \cup {v}
    /\ UNCHANGED <<questions, versions, spent, opened, hunts, hour>>

\* _configured_request with apply_round_overrides: a round holds under the head it was frozen
\* at, each override asked about that head and its request spent by this round or by nobody.
Configured(h, base, overrides) ==
    IF versions = <<>> THEN base = 0 /\ overrides = {}
    ELSE /\ opened # Unset /\ base = Len(versions)
         /\ \A q \in overrides :
                /\ RequestHolds(questions[q].request, questions[q].name,
                                {s \in spent : s.question = q /\ s.event = h})
                /\ Askable(questions[q])

\* sourcing-start: the round is frozen and the requests of its overrides are spent.
StartHunt(h, overrides) ==
    /\ hunts[h] = Unset
    /\ \A q \in overrides : questions[q].request # Unset /\ questions[q].request.scope = h
    /\ \A q, r \in overrides : questions[q].name = questions[r].name => q = r
    /\ Configured(h, Len(versions), overrides)
    /\ hunts' = [hunts EXCEPT ![h] = [base |-> Len(versions), overrides |-> overrides, reads |-> {}]]
    /\ spent' = spent \cup UNION {SpendFor(q, h) : q \in overrides}
    /\ UNCHANGED <<questions, versions, opened, notified, hour>>

\* sourcing-reserve: the round must still hold.  A read is remembered by the head it was made under.
ReserveRead(h) ==
    /\ hunts[h] # Unset /\ Configured(h, hunts[h].base, hunts[h].overrides)
    /\ hunts' = [hunts EXCEPT ![h].reads = @ \cup {Len(versions)}]
    /\ UNCHANGED <<questions, versions, spent, opened, notified, hour>>

RuleTick == hour < LastHour /\ hour' = hour + 1
            /\ UNCHANGED <<questions, versions, spent, opened, notified, hunts>>

RuleNext ==
    \/ \E n \in Names, r \in Requests \cup {Unset}, d \in 0..hour : Propose(n, r, d)
    \/ \E q \in DOMAIN questions : Approve(q)
    \/ Initialize
    \/ \E v \in DOMAIN versions : Acknowledge(v)
    \/ \E h \in Hunts, o \in SUBSET DOMAIN questions : StartHunt(h, o)
    \/ \E h \in Hunts : ReserveRead(h)
    \/ RuleTick

RuleSpec == RuleInit /\ [][RuleNext]_ruleVars

----
(* Properties. *)

Made == {versions[i].question : i \in DOMAIN versions}
Overriding == UNION {hunts[h].overrides : h \in {x \in Hunts : hunts[x] # Unset}}

\* What the owner was asked is what the answer changes: a version replaces the value named in
\* its question, of the version named in its question, and nothing else.
AnswersItsQuestion ==
    \A i \in DOMAIN versions :
        LET q == versions[i].question
            before == IF i = 1 THEN [n \in Names |-> Unset] ELSE versions[i - 1].values
        IN  /\ questions[q].base = i - 1 /\ before[questions[q].name] = questions[q].old
            /\ versions[i].values = [before EXCEPT ![questions[q].name] = q]

\* One message of the owner changes a variable once, be it for good or for one round, and never
\* for two rounds.
MessageSpentOnce ==
    \A q, r \in Made \cup Overriding :
        /\ q # r /\ Unset \notin {questions[q].request, questions[r].request}
        /\ questions[q].name = questions[r].name
        => questions[q].request.message # questions[r].request.message

\* Once the configuration is initialized nothing moves it but a request the owner made
\* afterwards, a question saved earlier and answered later included.
ReopenedByOwner ==
    [][\A i \in DOMAIN versions' \ DOMAIN versions :
           opened # Unset =>
               LET r == questions[versions'[i].question].request
               IN  r # Unset /\ r.at >= opened]_ruleVars

\* A change of the rules stops the rounds frozen before it: no read is reserved under a version
\* other than the one the round was started with.
ReadsUnderOwnRules ==
    \A h \in Hunts : hunts[h] # Unset => hunts[h].reads \subseteq {hunts[h].base}

\* Versions and overrides come from the owner's answers, each used once, and a round reads under the
\* rules it was frozen at (rules/service.py).
RulesAnswered ==
    /\ AnswersItsQuestion
    /\ MessageSpentOnce
    /\ ReadsUnderOwnRules
====
