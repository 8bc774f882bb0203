---------------------------- MODULE MCHiring ----------------------------
(***************************************************************************)
(* Instances for TLC of the components that follow a job from its intake   *)
(* to its end and share no variable: intakes with the strategies learnt    *)
(* from them, the pipeline, the tracking of sends, the dynamic rules, the  *)
(* rules the owner confirms, and the rounds of the host with their         *)
(* reports.  A behaviour picks a scene and one component acts in it, so    *)
(* that one run explores each.                                             *)
(***************************************************************************)
EXTENDS Strategies, Pipeline, SentTracking, DynamicRules, OwnerRules,
        HostReports, TLC

CONSTANT Parts   \* the scenes a run plays

VARIABLE part

hiringVars == <<intakeVars, planVars, pipeVars, trackVars, ruleVars, ownerVars, reportVars, part>>

\* Intakes: two targets of one job, a draft and a contact, a message that arrives late
\* with an interest of its own, a strategy learnt between two wishes.
Ask(id, t, at, c, d) == [id |-> id, target |-> t, at |-> at, choice |-> c, draft |-> d]
On(says, adds, n, contact, learn) ==
    [says |-> says, adds |-> adds, shots |-> n, contact |-> contact, learn |-> learn]
Twin == On({Ask("r1", "u", 1, "like", FALSE), Ask("r2", "l", 2, "neutral", FALSE)}, {}, 2, FALSE, FALSE)
Race == On({Ask("r1", "u", 1, Nothing, FALSE), Ask("r2", "l", 2, Nothing, FALSE)}, {}, 0, FALSE, FALSE)
Greet == On({Ask("r1", "u", 1, Nothing, TRUE)}, {}, 2, TRUE, FALSE)
Late == On({Ask("r1", "u", 3, "like", FALSE), Ask("r2", "u", 2, "neutral", FALSE),
            Ask("r3", "u", 1, Nothing, FALSE)},
           {[id |-> "i1", at |-> 4, choice |-> "neutral"]}, 1, FALSE, FALSE)
Learn == On({Ask("r1", "u", 1, "like", FALSE)}, {}, 2, FALSE, TRUE)
MCOccasions == {Twin, Race, Greet, Late, Learn}
LateOnly == {Late}

\* Pipeline: the greeting read and answered with a request for the resume, a follow-up
\* after silence, a reply approved before the recruiter declines and sent after it.
Told(k, t, b) == [kind |-> k, at |-> t, body |-> b]
In(t, f) == Told("inbound", t, [received |-> t, flag |-> f])
Ok(t, asked, kind) == Told("approved", t, [text |-> "g", asked |-> asked, reply |-> kind])
MCStories == {
    <<Told("greeting", 1, "g"), In(2, "asks_resume"), Told("attached", 2, 0), Ok(2, 2, "resume"),
      Told("sent", 3, 4), In(3, "invites")>>,
    <<Told("greeting", 1, "g"), In(1, "plain"), Ok(2, 2, "answer"), Told("sent", 3, 3)>>,
    <<Told("greeting", 1, "g"), Ok(2, 2, "answer"), In(2, "declines"), Told("sent", 3, 2)>>}

\* Sent tracking: a greeting and a reply, a message recorded after the reply and one in time.
Send(at, reply) == [at |-> at, reply |-> reply]
Message(received, recorded, says) == [received |-> received, recorded |-> recorded, says |-> says]
MCLetters == {[sends |-> <<Send(0, FALSE), Send(1, TRUE)>>,
               messages |-> <<Message(0, 1, "text"), Message(2, 2, says)>>] :
                 says \in {"invite", "decline"}}
MCEvents == [t \in Tracks |-> IF t = "a" THEN 4 ELSE 2]

\* Dynamic rules: one message of the owner quoted for one round and for every round.
MCRequests == {[message |-> "m", names |-> {"q"}, at |-> 1, scope |-> "reusable"],
               [message |-> "m", names |-> {"q"}, at |-> 1, scope |-> "h1"]}

\* Where a component starts makes a difference in its own scene only.
HiringInit ==
    /\ StrategyInit /\ PipeInit /\ TrackInit /\ RuleInit /\ OwnerInit
    /\ ReportInit
    /\ part \in Parts
    /\ part # "intakes" => occasion = CHOOSE o \in Occasions : TRUE
    /\ part # "pipeline" => facts = (CHOOSE s \in Stories : TRUE) /\ rounds = [c \in Candidates |-> <<>>]
    /\ part # "tracking" =>
          \E l \in {CHOOSE l \in Letters : TRUE} : sends = l.sends /\ messages = l.messages
    /\ part \notin {"rounds", "reports"} => authority = 0

\* Two processes resolve where they race for one job.
Intaking == part = "intakes" /\ StrategyNext
            /\ (occasion # Race => resolving'["q"] = Nothing)
            /\ UNCHANGED <<part, pipeVars, trackVars, ruleVars, ownerVars, reportVars>>
Piping == part = "pipeline" /\ PipeNext
          /\ UNCHANGED <<part, intakeVars, planVars, trackVars, ruleVars, ownerVars, reportVars>>
Tracking == part = "tracking" /\ TrackNext
            /\ UNCHANGED <<part, intakeVars, planVars, pipeVars, ruleVars, ownerVars, reportVars>>
Ruling == part = "rules" /\ RuleNext
          /\ UNCHANGED <<part, intakeVars, planVars, pipeVars, trackVars, ownerVars, reportVars>>
Owning == part = "owner" /\ OwnerNext
          /\ UNCHANGED <<part, intakeVars, planVars, pipeVars, trackVars, ruleVars, reportVars>>
Pausing == part = "rounds" /\ RoundNext
           /\ UNCHANGED <<part, intakeVars, planVars, pipeVars, trackVars, ruleVars, ownerVars, tellVars>>
\* Beside the making of a report one page is filed and not judged.
Reporting == part = "reports" /\ ReportNext
             /\ (\A d \in Reporters : judging[d] \in {Unfiled, judging'[d]})
             /\ UNCHANGED <<part, intakeVars, planVars, pipeVars, trackVars, ruleVars, ownerVars>>

HiringNext == Intaking \/ Piping \/ Tracking \/ Ruling \/ Owning \/ Pausing \/ Reporting
HiringSpec == HiringInit /\ [][HiringNext]_hiringVars

\* What a step may never do to a job's history: change a closed row or a send on record, claim a
\* plan that is not of now, make up for missed checks, or reopen a configuration unasked.
HiringHistory ==
    ClosedRowsStay /\ ClaimsOfNow /\ SentStands /\ ChecksNotCompressed /\ ReopenedByOwner
=============================================================================
