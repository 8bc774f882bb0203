---- MODULE Pipeline ----
(***************************************************************************)
(* The pipeline of one job for each candidate: contact rounds that move    *)
(* through fixed states on evidence which outreach, conversations and      *)
(* intake leave behind.  A command reads its evidence first and compares   *)
(* the version of the round in the transaction that writes, so one that    *)
(* was overtaken is refused, and one that commits has acted on evidence up *)
(* to the earlier time it names.  Requests answered before are answered    *)
(* again from their row and change nothing.  Times are ticks, 0 is NULL.   *)
(***************************************************************************)
EXTENDS Naturals, Sequences, FiniteSetsExt

CONSTANTS
    Candidates,   \* candidates with a pipeline for the job
    Makers,       \* processes that create rounds
    NoFact,       \* no value
    Stories,      \* what outreach and conversations may record of the job, in order, with times
    Wordings,     \* texts of greetings and replies
    Silence,      \* 48 hours
    MaxClock,     \* bound on time
    MaxLag,       \* bound on the time from what is seen to its record
    MaxRounds,    \* bound on the rounds of a candidate
    MaxSnapshots  \* bound on the contents of the posting

\* What was recorded: a greeting with its text, a message, a resume, an approval, a reply sent on one.
FactRows ==
    LET On(kind, bodies) == [kind : {kind}, at : Nat \ {0}, body : bodies] IN
    On("greeting", Wordings) \cup On("attached", Nat) \cup On("sent", Nat)
    \cup On("inbound", [received : Nat, flag : STRING])
    \cup On("approved", [text : Wordings, asked : Nat, reply : {"answer", "resume"}])

ASSUME PipelineSorts ==
    /\ {Silence, MaxClock, MaxLag, MaxRounds, MaxSnapshots} \subseteq Nat
    /\ Stories \subseteq Seq(FactRows)

VARIABLES
    rounds,   \* pipeline_jobs with pipeline_meta, by candidate and contact_round
    trail,    \* pipeline_state_history of each round
    used,     \* pipeline_used_sends
    making,   \* what create has read
    facts,    \* the story: outreach audits and conversation events, each recorded when its time comes
    intake,   \* the candidates' intake of the job: snapshot, when it was fetched, and draft
    clock

factVars == <<facts, intake, clock>>
pipeVars == <<rounds, trail, used, making, factVars>>

Edges == {<<"draft_pending", "greeting_sent">>, <<"greeting_sent", "greeting_read">>,
          <<"greeting_read", "initial_contact">>, <<"initial_contact", "resume_requested">>,
          <<"initial_contact", "interview_pending">>, <<"resume_requested", "resume_sent">>,
          <<"resume_sent", "interview_pending">>, <<"interview_pending", "interviewed">>}
         \cup {<<s, "abandoned">> : s \in {"greeting_sent", "greeting_read", "initial_contact",
                   "resume_requested", "resume_sent", "interview_pending", "interviewed"}}

Silent == {"read_no_reply_2d", "no_reply_2d"}
OwnersReasons == {"job_closed", "user_abandoned"}

\* A round as it is entered, and one that a migration adopted with a declared but unproven send.
Entered(at, snapshot, draft) ==
    [state |-> "draft_pending", reason |-> "normal", entered |-> at, changed |-> at, updated |-> at,
     proof |-> "not_sent", sentAt |-> 0, sentText |-> NoFact, ref |-> 0, readAt |-> 0, heardAt |-> 0,
     resumeAt |-> 0, resumeRef |-> 0, draft |-> draft, snapshot |-> snapshot, bound |-> NoFact, paused |-> FALSE]
Adopted == [Entered(1, 0, NoFact) EXCEPT !.state = "greeting_sent", !.proof = "proof_pending"]

Step(from, to, at, reason) == [from |-> from, to |-> to, at |-> at, reason |-> reason]

PipeInit ==
    /\ rounds \in [Candidates -> {<<>>, <<Adopted>>}]
    /\ trail = [c \in Candidates |->
            IF rounds[c] = <<>> THEN <<>>
            ELSE <<<<Step(NoFact, "draft_pending", 1, "normal"),
                     Step("draft_pending", "greeting_sent", 1, "normal")>>>>]
    /\ used = {} /\ making = [m \in Makers |-> NoFact]
    /\ facts \in Stories /\ intake = [snapshot |-> 0, at |-> 0, draft |-> NoFact] /\ clock = 1

----
\* What is recorded by now.
Newest == Max({0} \cup {i \in DOMAIN facts : facts[i].at <= clock})
Lately == {t \in 1 .. clock : clock <= t + MaxLag}

\* A new snapshot takes the draft with it.
IntakeMoves ==
    /\ \/ /\ intake.snapshot < MaxSnapshots
          /\ intake' = [snapshot |-> intake.snapshot + 1, at |-> clock, draft |-> NoFact]
       \/ \E t \in Wordings : intake.snapshot # 0 /\ intake' = [intake EXCEPT !.draft = t]
    /\ UNCHANGED <<rounds, trail, used, making, facts, clock>>

PipeTick == clock < MaxClock /\ clock' = clock + 1
            /\ UNCHANGED <<rounds, trail, used, making, facts, intake>>

----
(* create *)

\* Mutant: a paused round does not count.
ActiveUnpaused(c) == \E n \in DOMAIN rounds[c] : rounds[c][n].state # "abandoned" /\ ~rounds[c][n].paused

\* The unique index on the candidate and the job.
Active(c) == \E n \in DOMAIN rounds[c] : rounds[c][n].state # "abandoned"

\* A later round is the owner's explicit request.
CreateRead(m, c) ==
    /\ making[m] = NoFact /\ ~Active(c) /\ Len(rounds[c]) < MaxRounds
    /\ making' = [making EXCEPT ![m] = [for |-> c, number |-> Len(rounds[c]) + 1, at |-> clock,
                                        snapshot |-> intake.snapshot, draft |-> intake.draft]]
    /\ UNCHANGED <<rounds, trail, used, factVars>>

\* The row with its history and the authority, unless the id is taken or another round is active.
CreateCommit(m) ==
    LET new == making[m]
        c == new.for
    IN  /\ new # NoFact /\ new.number = Len(rounds[c]) + 1 /\ ~Active(c)
        /\ making' = [making EXCEPT ![m] = NoFact]
        /\ rounds' = [rounds EXCEPT ![c] = Append(@, Entered(new.at, new.snapshot, new.draft))]
        /\ trail' = [trail EXCEPT ![c] = Append(@, <<Step(NoFact, "draft_pending", new.at, "normal")>>)]
        /\ UNCHANGED <<used, factVars>>

\* Refused, or the process dies.
CreateEnds(m) ==
    /\ making[m] # NoFact
    /\ making' = [making EXCEPT ![m] = NoFact]
    /\ UNCHANGED <<rounds, trail, used, factVars>>

----
(* The evidence behind a transition. *)

\* _inbound: the message came and was recorded after this round's send.
Inbound(r, f, at) ==
    /\ facts[f].kind = "inbound" /\ r.sentAt # 0
    /\ facts[f].body.received \in r.sentAt .. at /\ facts[f].at \in r.sentAt .. at

\* outreach_proof: the audit of an approved item.  It is of this round when the round was there.
OutreachSend(r, f, at) == facts[f].kind = "greeting" /\ facts[f].at \in r.entered .. at

\* Nothing was said, attached or approved between an approval and its result.
NothingBetween(a, f) ==
    \A i \in a + 1 .. f - 1 : facts[i].kind \notin {"inbound", "attached", "approved", "sent"}

\* approved_reply: an answer asked and approved in this round, about the posting as it still is.
ApprovedReply(r, a, at) ==
    /\ facts[a].kind = "approved" /\ facts[a].body.reply = "answer"
    /\ r.entered <= facts[a].body.asked /\ facts[a].at <= at
    /\ intake.at <= facts[a].body.asked
    /\ r.snapshot # 0 => r.snapshot = intake.snapshot

\* greeting_proof: the result of the reply that the round is bound to.
RecontactSend(r, f, at) ==
    /\ facts[f].kind = "sent" /\ facts[f].body = r.bound.approval /\ r.bound.snapshot = r.snapshot
    /\ ApprovedReply(r, r.bound.approval, at) /\ NothingBetween(r.bound.approval, f)
    /\ facts[f].at \in r.entered .. at

\* _greeting, with the text that was sent.
GreetingSend(r, f, at) == IF r.bound = NoFact THEN OutreachSend(r, f, at) ELSE RecontactSend(r, f, at)
SentText(f) == IF facts[f].kind = "greeting" THEN facts[f].body ELSE facts[facts[f].body].body.text

\* _resume: attached before the question, approved and sent with nothing in between.
ResumeSend(r, f, at) ==
    /\ facts[f].kind = "sent" /\ r.sentAt # 0 /\ facts[f].at \in r.sentAt .. at
    /\ LET a == facts[f].body IN
       /\ facts[a].body.reply = "resume"
       /\ \E i \in 1 .. a - 1 : facts[i].kind = "attached"
       /\ \A i \in a + 1 .. f - 1 : facts[i].kind \notin {"inbound", "attached"}

----
(* advance_pipeline and observe_pipeline *)

\* Mutant: a round goes on after it was abandoned.
ContextAnyState(c, n, at) == n \in DOMAIN rounds[c] /\ at \in rounds[c][n].updated .. clock

\* context: the round is not abandoned, and the evidence is not older than its last change.
Context(c, n, at) ==
    /\ n \in DOMAIN rounds[c] /\ at \in rounds[c][n].updated .. clock
    /\ rounds[c][n].state # "abandoned"

\* silence_deadline, for the states that wait.
Deadline(r) == Max({r.sentAt, r.readAt, r.heardAt, r.resumeAt}) + Silence
Waits(r) == ~r.paused /\ r.proof = "verified" /\ r.sentAt # 0 /\ r.state \notin {"draft_pending", "interviewed"}

Fresh(f) == f \notin used

Save(c, n, row) ==
    /\ rounds' = [rounds EXCEPT ![c][n] = row]
    /\ UNCHANGED <<making, factVars>>

\* The round moves along an edge; only the owner's reasons move one that is paused or unproven.
Advance(c, n, at, to, reason, row) ==
    LET r == rounds[c][n] IN
    /\ <<r.state, to>> \in Edges
    /\ (to = "abandoned") = (reason # "normal")
    /\ r.state = "interviewed" => reason \in OwnersReasons
    /\ r.paused \/ (r.state # "draft_pending" /\ r.proof # "verified") => reason \in OwnersReasons
    /\ Save(c, n, [row EXCEPT !.state = to, !.reason = reason, !.changed = at, !.updated = at,
                              !.paused = @ /\ to # "abandoned"])
    /\ trail' = [trail EXCEPT ![c][n] = Append(@, Step(r.state, to, at, reason))]

GreetingSent(c, n, f, at) ==
    LET r == rounds[c][n] IN
    /\ GreetingSend(r, f, at) /\ SentText(f) = r.draft /\ Fresh(f)
    /\ used' = used \cup {f}
    /\ Advance(c, n, at, "greeting_sent", "normal",
               [r EXCEPT !.proof = "verified", !.sentAt = facts[f].at, !.sentText = r.draft, !.ref = f])

\* A stored receipt has its own time, a capture the time it was looked at.
GreetingRead(c, n, at) ==
    /\ rounds[c][n].sentAt # 0
    /\ \E seen \in rounds[c][n].sentAt .. at :
           Advance(c, n, at, "greeting_read", "normal", [rounds[c][n] EXCEPT !.readAt = seen])
    /\ UNCHANGED used

\* The recruiter's messages: a first reply, a wish for the resume, an invitation.
Heard(c, n, f, at) ==
    LET r == rounds[c][n]
        heard == [r EXCEPT !.heardAt = Max({@, facts[f].body.received})]
    IN  /\ Inbound(r, f, at)
        /\ \/ Advance(c, n, at, "initial_contact", "normal", heard)
           \/ facts[f].body.flag = "asks_resume" /\ Advance(c, n, at, "resume_requested", "normal", heard)
           \/ facts[f].body.flag = "invites" /\ Advance(c, n, at, "interview_pending", "normal", heard)
           \/ facts[f].body.flag = "declines" /\ Advance(c, n, at, "abandoned", "employer_rejected", r)
        /\ UNCHANGED used

ResumeSent(c, n, f, at) ==
    /\ ResumeSend(rounds[c][n], f, at) /\ Fresh(f)
    /\ used' = used \cup {f}
    /\ Advance(c, n, at, "resume_sent", "normal",
               [rounds[c][n] EXCEPT !.resumeAt = facts[f].at, !.resumeRef = f])

\* The owner's word or the page of the posting.
Interviewed(c, n, at) ==
    /\ Advance(c, n, at, "interviewed", "normal", [rounds[c][n] EXCEPT !.heardAt = at])
    /\ UNCHANGED used
OwnerCloses(c, n, at) ==
    /\ \E reason \in OwnersReasons : Advance(c, n, at, "abandoned", reason, rounds[c][n])
    /\ UNCHANGED used

\* A check of the loaded conversation that finds no reply closes the round after the deadline.
NoReply(c, n, at) ==
    LET r == rounds[c][n] IN
    /\ Waits(r) /\ UNCHANGED used
    /\ IF at >= Deadline(r)
       THEN Advance(c, n, at, "abandoned", IF r.readAt # 0 THEN "read_no_reply_2d" ELSE "no_reply_2d", r)
       ELSE Save(c, n, [r EXCEPT !.updated = at]) /\ UNCHANGED trail

\* A reply resets the clock to when it came; a suspected one only leaves a row.
ReplySeen(c, n, at) ==
    LET r == rounds[c][n] IN
    /\ ~r.paused
    /\ \/ Save(c, n, [r EXCEPT !.updated = at])
       \/ \E f \in 1 .. Newest :
              /\ r.proof = "verified" /\ Inbound(r, f, at)
              /\ Save(c, n, [r EXCEPT !.updated = at, !.heardAt = Max({@, facts[f].body.received})])
    /\ UNCHANGED <<trail, used>>

\* The platform, or a readback that is not what was approved, pauses; the owner resumes.
PauseOrResume(c, n, at) ==
    /\ \E p \in BOOLEAN : Save(c, n, [rounds[c][n] EXCEPT !.updated = at, !.paused = p])
    /\ UNCHANGED <<trail, used>>

\* _pause_readback_fault: the text read back differs from the one that the evidence approved.
ReadbackFault(c, n, f) ==
    LET r == rounds[c][n] IN
    /\ Context(c, n, clock) /\ ~r.paused
    /\ f \in used => f \in {r.ref, r.resumeRef}
    /\ \/ r.state = "draft_pending" /\ GreetingSend(r, f, clock)
       \/ r.state = "resume_requested" /\ ResumeSend(r, f, clock)
       \/ r.proof = "proof_pending" /\ OutreachSend(r, f, clock)
    /\ Save(c, n, [r EXCEPT !.updated = clock, !.paused = TRUE])
    /\ UNCHANGED <<trail, used>>

\* bind_send: the proof of a send that was only declared.
BindSend(c, n, f, at) ==
    LET r == rounds[c][n] IN
    /\ r.state = "greeting_sent" /\ r.proof = "proof_pending"
    /\ OutreachSend(r, f, at) /\ Fresh(f)
    /\ used' = used \cup {f}
    /\ Save(c, n, [r EXCEPT !.updated = at, !.proof = "verified", !.sentAt = facts[f].at,
                            !.sentText = facts[f].body, !.ref = f])
    /\ UNCHANGED trail

\* bind_reply: a later round takes the approved answer that is still pending as its draft.
BindReply(c, n, a, at) ==
    LET r == rounds[c][n] IN
    /\ n > 1 /\ r.state = "draft_pending"
    /\ ApprovedReply(r, a, at) /\ NothingBetween(a, Newest + 1)
    /\ Save(c, n, [r EXCEPT !.updated = at, !.draft = facts[a].body.text,
                            !.bound = [approval |-> a, snapshot |-> r.snapshot]])
    /\ UNCHANGED <<trail, used>>

\* What intake has now: a reply bound before the posting moved is dropped and the round pauses.
Synced(r) ==
    LET moved == r.bound # NoFact /\ r.state = "draft_pending" /\ r.bound.snapshot # intake.snapshot
        kept == r.bound # NoFact /\ ~moved
    IN  [r EXCEPT !.snapshot = intake.snapshot,
                  !.draft = IF kept THEN @ ELSE IF moved THEN NoFact ELSE intake.draft,
                  !.bound = IF moved THEN NoFact ELSE @,
                  !.paused = @ \/ moved]

SyncPipeline(c, n, at) ==
    /\ Save(c, n, [Synced(rounds[c][n]) EXCEPT !.updated = at])
    /\ UNCHANGED <<trail, used>>

Change(c, n, at) ==
    /\ Context(c, n, at)
    /\ \/ GreetingRead(c, n, at) \/ Interviewed(c, n, at) \/ OwnerCloses(c, n, at)
       \/ NoReply(c, n, at) \/ ReplySeen(c, n, at) \/ PauseOrResume(c, n, at) \/ SyncPipeline(c, n, at)
       \/ \E f \in 1 .. Newest :
              \/ GreetingSent(c, n, f, at) \/ Heard(c, n, f, at) \/ ResumeSent(c, n, f, at)
              \/ BindSend(c, n, f, at) \/ BindReply(c, n, f, at)

PipeNext ==
    \/ \E m \in Makers, c \in Candidates : CreateRead(m, c)
    \/ \E m \in Makers : CreateCommit(m) \/ CreateEnds(m)
    \/ \E c \in Candidates, n \in 1 .. MaxRounds, at \in Lately : Change(c, n, at)
    \/ \E c \in Candidates, n \in 1 .. MaxRounds, f \in 1 .. Newest : ReadbackFault(c, n, f)
    \/ IntakeMoves \/ PipeTick

PipeSpec == PipeInit /\ [][PipeNext]_pipeVars

----
Stored == {id \in Candidates \X (1 .. MaxRounds) : id[2] \in DOMAIN rounds[id[1]]}
Row(id) == rounds[id[1]][id[2]]

\* The history of a round is a path of the graph, in the order of time, that leads to its state, and
\* only the newest round of a candidate is not closed (advance_pipeline, create).
HistoryTrue ==
    \A id \in Stored :
        LET path == trail[id[1]][id[2]] IN
        /\ path[1].from = NoFact /\ path[1].to = "draft_pending"
        /\ \A i \in 2 .. Len(path) :
               /\ path[i].from = path[i - 1].to /\ path[i].at >= path[i - 1].at
               /\ <<path[i].from, path[i].to>> \in Edges
        /\ path[Len(path)].to = Row(id).state
        /\ id[2] < Len(rounds[id[1]]) => Row(id).state = "abandoned"

\* A send proves one greeting or one resume, in one round of one candidate (pipeline_used_sends).
SendsProveOnce ==
    \A id, other \in Stored :
        /\ Row(id).ref # 0 => Row(id).ref # Row(other).resumeRef
        /\ id # other /\ Row(id).ref # 0 => Row(id).ref # Row(other).ref
        /\ id # other /\ Row(id).resumeRef # 0 => Row(id).resumeRef # Row(other).resumeRef

\* A round is closed for silence only 48 hours after all that happened in it, and as read exactly
\* when its greeting was (silence_deadline).
SilenceFair ==
    \A id \in Stored :
        LET r == Row(id) IN
        r.reason \in Silent =>
            /\ r.proof = "verified" /\ (r.reason = "read_no_reply_2d") = (r.readAt # 0)
            /\ \A t \in {r.sentAt, r.readAt, r.heardAt, r.resumeAt} : r.changed >= t + Silence

\* What a round counts as heard came after its own send, never to an earlier one (_inbound).
RepliesOfRound == \A id \in Stored : Row(id).heardAt # 0 => Row(id).heardAt >= Row(id).sentAt

\* A round proven by a reply was asked for, approved and sent after the round began, with nothing
\* said in between, and its text is the one approved (greeting_proof).
RecontactFresh ==
    \A id \in Stored :
        LET r == Row(id)
            a == facts[r.ref].body
        IN  r.ref # 0 /\ facts[r.ref].kind = "sent" =>
                /\ id[2] > 1 /\ r.entered <= facts[a].body.asked
                /\ r.sentText = facts[a].body.text
                /\ ~\E i \in a .. r.ref : facts[i].kind = "inbound"

\* A bound draft that waits is the approved text, for the snapshot it was approved on (sync).
BindingCurrent ==
    \A id \in Stored :
        LET r == Row(id) IN
        r.bound # NoFact /\ r.state = "draft_pending" =>
            r.bound.snapshot = r.snapshot /\ r.draft = facts[r.bound.approval].body.text

\* What was sent stays as it was recorded, and a closed round stays closed (context, sync).
SentStands ==
    [][\A id \in Stored :
        /\ Row(id).ref # 0 => /\ Row(id)'.ref = Row(id).ref /\ Row(id)'.sentAt = Row(id).sentAt
                              /\ Row(id)'.sentText = Row(id).sentText
        /\ Row(id).state = "abandoned" => Row(id)' = Row(id)]_pipeVars

\* What a round says happened is proven by the facts of its own time, and by no fact twice, over
\* late and overtaken synchronizations (pipeline_sync.py, pipeline_proofs.py).
PipelineSound ==
    /\ HistoryTrue
    /\ SendsProveOnce
    /\ SilenceFair
    /\ RepliesOfRound
    /\ RecontactFresh
    /\ BindingCurrent
====
