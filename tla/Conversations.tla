---- MODULE Conversations ----
(***************************************************************************)
(* What follows a first greeting on one platform: one append-only event    *)
(* log per conversation, whose stage is folded from the log, and questions *)
(* put to the person.  A command loads the log, prepares events and        *)
(* appends them; the append fails unless the log is still the one loaded,  *)
(* so a command that reads nothing else is one step.  Opening a            *)
(* conversation and putting a question commit in more than one step.       *)
(***************************************************************************)
EXTENDS Naturals, Sequences, FiniteSetsExt

CONSTANTS
    NoOne,      \* no value: an empty column, a session that holds nothing
    Sessions,   \* host sessions that run commands
    Drafters,   \* the sessions that draft replies
    Convs,      \* conversation ids
    CompanyOf,  \* company_key of a conversation's recruiter
    JobKnown,   \* the conversations whose job_id is known
    Greeted,    \* the conversations of greetings that were sent or already there
    Messages,   \* recruiter messages told apart: level and flag
    Targets,    \* stages a host asks transition for
    Texts,      \* texts of replies
    Kinds,      \* kinds of replies drafted
    Files,      \* digests of rendered resumes, each of a verified variant
    MaxLog,     \* bound on the events of a conversation
    MaxInbound, \* bound on its messages
    LastDay     \* bound on the days

Stages == {"greeted", "replied", "intent_confirmed", "resume_requested", "resume_sent",
           "interview", "silent", "declined", "closed"}
TerminalStages == {"declined", "closed"}
Allowed == [s \in Stages |->
    CASE s = "greeted" -> {"replied", "resume_requested", "interview", "silent", "declined", "closed"}
      [] s = "replied" -> {"intent_confirmed", "resume_requested", "interview", "silent", "declined", "closed"}
      [] s = "intent_confirmed" -> {"resume_requested", "resume_sent", "interview", "declined", "closed"}
      [] s = "resume_requested" -> {"intent_confirmed", "resume_sent", "interview", "declined", "closed"}
      [] s = "resume_sent" -> {"interview", "silent", "declined", "closed"}
      [] s = "interview" -> {"declined", "closed"}
      [] s = "silent" -> {"replied", "resume_requested", "interview", "declined", "closed"}
      [] OTHER -> {}]

\* l1 and l2 differ in the length of an answer only.
Levels == {"l1", "l3", "danger", "mismatch"}
HumanOnlyLevels == {"l3", "danger", "mismatch"}
Flags == {"none", "asks_resume", "interview_invite", "declined"}
ReplyKinds == {"follow_up", "answer", "resume"}
\* failed stands for intervention too: both halt the platform for the day.
ReplyResults == {"sent", "failed"}
Replies == [kind : ReplyKinds, answers : 0 .. MaxLog, text : Texts]

ASSUME ConversationSorts ==
    /\ Drafters \subseteq Sessions /\ Kinds \subseteq ReplyKinds /\ Targets \subseteq Stages
    /\ JobKnown \subseteq Convs /\ Greeted \subseteq Convs /\ DOMAIN CompanyOf = Convs
    /\ Messages \subseteq [level : Levels, flag : Flags]
    /\ MaxLog \in Nat /\ MaxInbound \in Nat /\ LastDay \in Nat
    /\ NoOne \notin Sessions \cup Convs \cup Files \cup Stages \cup Replies

VARIABLES
    stored,     \* conversations; their origin decides nothing here
    log,        \* conversation_events
    asks,       \* conversation_asks at the present end of each log; first is of the properties only: the
                \* draft put first there, none when two sessions each put what they took for the first
    working,    \* what a session's command has read
    today

talkVars == <<stored, log, asks, working, today>>

----
\* A digest is of the conversation and the whole draft: two drafts share one when they are the same.
Event(kind, to, body) == [kind |-> kind, to |-> to, body |-> body]
Change(to, by) == Event("stage_changed", to, by)
NoAsk == [intent |-> FALSE, reply |-> NoOne, original |-> NoOne, first |-> NoOne]

LastOf(c, kind) ==
    Max({0} \cup {i \in DOMAIN log[c] : log[c][i].kind = kind})

StageOf(events) ==
    LET moves == {i \in DOMAIN events : events[i].to # NoOne}
    IN  IF moves = {} THEN NoOne ELSE events[Max(moves)].to

Stage(c) == StageOf(log[c])
IsOpen(c) == Stage(c) \notin TerminalStages \cup {NoOne}

LatestInbound(c) == LastOf(c, "inbound")
AttachedResume(c) ==
    IF LastOf(c, "resume_attached") = 0 THEN NoOne ELSE log[c][LastOf(c, "resume_attached")].body

\* The last approval, unless a later result carries the same digest.
PendingApproval(c) ==
    LET a == LastOf(c, "reply_approved")
        done == \E i \in a + 1 .. Len(log[c]) :
                    /\ log[c][i].kind = "reply_result"
                    /\ log[c][i].body.reply = log[c][a].body.reply
    IN  IF a # 0 /\ done THEN 0 ELSE a

\* Question rows are found by the seq they were asked at, so a row of an earlier end is dead.
Append1(c, events) ==
    /\ Len(log[c]) + Len(events) <= MaxLog
    /\ log' = [log EXCEPT ![c] = @ \o events]
    /\ asks' = [asks EXCEPT ![c] = NoAsk]

FailedToday ==
    \E c \in Convs : \E i \in DOMAIN log[c] :
        /\ log[c][i].kind = "reply_result"
        /\ log[c][i].body.result # "sent" /\ log[c][i].body.day = today

----
TalkInit ==
    /\ stored = {}
    /\ log = [c \in Convs |-> <<>>]
    /\ asks = [c \in Convs |-> NoAsk]
    /\ working = [s \in Sessions |-> NoOne]
    /\ today = 0

\* sync-outreach skips a stored id; open and adopt refuse a logged recruiter.
OpenRead(s, c, origin, stage) ==
    /\ working[s] = NoOne
    /\ \/ origin = "outreach" /\ c \in Greeted \ stored /\ stage = "greeted"
       \/ /\ origin = "inbound" /\ stage \in {"replied", "closed"}
          /\ \A d \in stored : CompanyOf[d] # CompanyOf[c]
       \/ /\ origin = "self" /\ stage \in {"greeted", "replied"}
          /\ \A d \in stored : CompanyOf[d] # CompanyOf[c]
    /\ working' = [working EXCEPT ![s] =
           [step |-> "save", conv |-> c, stage |-> stage]]
    /\ UNCHANGED <<stored, log, asks, today>>

\* INSERT OR IGNORE
OpenSave(s) ==
    /\ working[s] # NoOne /\ working[s].step = "save"
    /\ stored' = stored \cup {working[s].conv}
    /\ working' = [working EXCEPT ![s].step = "append"]
    /\ UNCHANGED <<log, asks, today>>

\* The opening event is number 1; another first event makes the append fail.
OpenAppend(s) ==
    /\ working[s] # NoOne /\ working[s].step = "append"
    /\ LET c == working[s].conv IN
       IF log[c] = <<>> THEN Append1(c, <<Event("opened", working[s].stage, NoOne)>>)
                        ELSE UNCHANGED <<log, asks>>
    /\ working' = [working EXCEPT ![s] = NoOne]
    /\ UNCHANGED <<stored, today>>

\* The stage a message implies, or none.
StageFor(current, m) ==
    LET allowed(stage) == IF stage \in Allowed[current] THEN stage ELSE NoOne
    IN  IF m.flag = "declined" THEN "declined"
        ELSE IF m.level = "mismatch" THEN "closed"
        ELSE IF m.level = "danger" THEN NoOne
        ELSE IF m.level = "l3" \/ m.flag = "interview_invite" THEN allowed("interview")
        ELSE IF m.flag = "asks_resume" /\ "resume_requested" \in Allowed[current]
             THEN "resume_requested"
        ELSE IF current \in {"greeted", "silent"} THEN "replied" ELSE NoOne

Receive(c, m) ==
    /\ IsOpen(c)
    /\ Cardinality({i \in DOMAIN log[c] : log[c][i].kind = "inbound"}) < MaxInbound
    /\ LET target == StageFor(Stage(c), m) IN
       Append1(c, <<Event("inbound", NoOne, m)>> \o
                  (IF target \in {NoOne, Stage(c)} THEN <<>> ELSE <<Change(target, "message")>>))
    /\ UNCHANGED <<stored, working, today>>

Transition(c, target) ==
    /\ IsOpen(c) /\ target \in Allowed[Stage(c)]
    /\ Append1(c, <<Change(target, "host")>>)
    /\ UNCHANGED <<stored, working, today>>

AskIntent(c) ==
    /\ IsOpen(c) /\ LatestInbound(c) # 0 /\ Len(log[c]) < MaxLog
    /\ asks' = [asks EXCEPT ![c].intent = TRUE]
    /\ UNCHANGED <<stored, log, working, today>>

ConfirmIntent(c) ==
    /\ asks[c].intent
    /\ IsOpen(c) /\ "intent_confirmed" \in Allowed[Stage(c)]
    /\ Append1(c, <<Change("intent_confirmed", "person")>>)
    /\ UNCHANGED <<stored, working, today>>

AttachResume(c, file) ==
    /\ IsOpen(c) /\ c \in JobKnown
    /\ Append1(c, <<Event("resume_attached", NoOne, file)>>)
    /\ UNCHANGED <<stored, working, today>>

----
\* Length is left out: a text is one that fits.
ReplyAccepted(c, reply) ==
    /\ IsOpen(c)
    /\ IF reply.kind = "follow_up"
       THEN LatestInbound(c) = 0
       ELSE /\ LatestInbound(c) # 0
            /\ log[c][LatestInbound(c)].body.level \notin HumanOnlyLevels
            /\ reply.answers = LatestInbound(c)
    /\ reply.kind = "resume" => AttachedResume(c) # NoOne

\* The digest of the first draft put at this point, once a draft differs from it.
FirstDraft(replaced, reply) ==
    IF replaced.original = NoOne /\ replaced.reply \notin {NoOne, reply}
    THEN replaced.reply ELSE replaced.original

\* draft-reply reads the log and the question already put; the host's draft answers the latest message.
DraftRead(s, c, kind, text) ==
    /\ working[s] = NoOne /\ Len(log[c]) < MaxLog
    /\ LET reply == [kind |-> kind, text |-> text,
                     answers |-> IF kind = "follow_up" THEN 0 ELSE LatestInbound(c)] IN
       /\ ReplyAccepted(c, reply)
       /\ working' = [working EXCEPT ![s] =
              [step |-> "ask", conv |-> c, anchor |-> Len(log[c]), reply |-> reply,
               replaced |-> asks[c].reply, original |-> FirstDraft(asks[c], reply)]]
    /\ UNCHANGED <<stored, log, asks, today>>

\* The question as this draft leaves it.
Put(question, draft) ==
    [question EXCEPT !.reply = draft.reply, !.original = draft.original,
                     !.first = IF question.reply = NoOne THEN draft.reply
                               ELSE IF draft.replaced = NoOne THEN NoOne ELSE question.first]

\* Mutant: the question is taken as put at the present end of the log.
DraftSaveLate(s) ==
    /\ working[s] # NoOne /\ working[s].step = "ask"
    /\ asks' = [asks EXCEPT ![working[s].conv] = Put(@, working[s])]
    /\ working' = [working EXCEPT ![s] = NoOne]
    /\ UNCHANGED <<stored, log, today>>

DraftSave(s) ==
    /\ working[s] # NoOne /\ working[s].step = "ask"
    /\ LET c == working[s].conv IN
       asks' = IF working[s].anchor = Len(log[c]) THEN [asks EXCEPT ![c] = Put(@, working[s])] ELSE asks
    /\ working' = [working EXCEPT ![s] = NoOne]
    /\ UNCHANGED <<stored, log, today>>

ApproveReply(c) ==
    /\ asks[c].reply # NoOne
    /\ Append1(c, <<Event("reply_approved", NoOne,
                          [reply |-> asks[c].reply, original |-> asks[c].original])>>)
    /\ UNCHANGED <<stored, working, today>>

\* What reply-gate lets a session send now, or nothing; it writes nothing.  Whether the session
\* holds the platform's lease and whether outreach has stopped there today are outreach's to say.
GateDecision(c, held, stopped) ==
    LET a == PendingApproval(c)
        reply == log[c][a].body.reply
    IN  IF a = 0 \/ LatestInbound(c) > a \/ ~held \/ stopped \/ FailedToday THEN NoOne
        ELSE [reply |-> reply, file |-> IF reply.kind = "resume" THEN AttachedResume(c) ELSE NoOne]

\* By the holder of the lease, who hands the file it uploaded; a sent resume is the attached one.
RecordReply(c, result, file) ==
    /\ PendingApproval(c) # 0
    /\ LET reply == log[c][PendingApproval(c)].body.reply
           resumeSent == result = "sent" /\ reply.kind = "resume"
           row == Event("reply_result", NoOne, [reply |-> reply, result |-> result, day |-> today])
       IN /\ resumeSent => file = AttachedResume(c) /\ file # NoOne
          /\ ~resumeSent => file = NoOne
          /\ Append1(c, IF resumeSent /\ "resume_sent" \in Allowed[Stage(c)]
                        THEN <<row, Change("resume_sent", "record")>> ELSE <<row>>)
    /\ UNCHANGED <<stored, working, today>>

----
NextDay ==
    /\ today < LastDay /\ today' = today + 1
    /\ UNCHANGED <<stored, log, asks, working>>

TalkCrash(s) ==
    /\ working[s] # NoOne
    /\ working' = [working EXCEPT ![s] = NoOne]
    /\ UNCHANGED <<stored, log, asks, today>>

Origins == {"outreach", "inbound", "self"}

TalkNext ==
    \/ \E s \in Sessions :
        \/ \E c \in Convs, o \in Origins, st \in {"greeted", "replied", "closed"} : OpenRead(s, c, o, st)
        \/ OpenSave(s) \/ OpenAppend(s)
        \/ \E c \in Convs, k \in Kinds, t \in Texts : s \in Drafters /\ DraftRead(s, c, k, t)
        \/ DraftSave(s)
        \/ TalkCrash(s)
    \/ \E c \in Convs :
        \/ \E m \in Messages : Receive(c, m)
        \/ \E st \in Targets : Transition(c, st)
        \/ AskIntent(c) \/ ConfirmIntent(c)
        \/ \E f \in Files : AttachResume(c, f)
        \/ ApproveReply(c)
        \/ \E r \in ReplyResults, f \in Files \cup {NoOne} : RecordReply(c, r, f)
    \/ NextDay

TalkSpec == TalkInit /\ [][TalkNext]_talkVars

----
\* Type correctness of the tables and of what sessions hold.
TalkTypeOK ==
    /\ stored \subseteq Convs
    /\ \A c \in Convs : /\ Len(log[c]) <= MaxLog
                        /\ \A i \in DOMAIN log[c] : log[c][i].to \in
                              IF log[c][i].kind \in {"opened", "stage_changed"} THEN Stages ELSE {NoOne}
    /\ asks \in [Convs -> [intent : BOOLEAN, reply : Replies \cup {NoOne},
                           original : Replies \cup {NoOne}, first : Replies \cup {NoOne}]]
    /\ today \in 0 .. LastDay

Before(c, i) == StageOf(SubSeq(log[c], 1, i - 1))
InboundBefore(c, i) == Max({0} \cup {j \in 1 .. i - 1 : log[c][j].kind = "inbound"})

\* A conversation opens once, and each later stage is one its table lets follow the stage before,
\* whichever command or message moved it (ALLOWED).
StagesFollow ==
    \A c \in Convs : \A i \in DOMAIN log[c] :
        /\ (log[c][i].kind = "opened") <=> (i = 1)
        /\ log[c][i].kind = "stage_changed" => log[c][i].to \in Allowed[Before(c, i)]

\* Once a recruiter declined or the conversation was closed, only the outcome of a reply approved
\* earlier is still logged.
ClosedIsQuiet ==
    \A c \in Convs : \A i \in DOMAIN log[c] :
        Before(c, i) \in TerminalStages => log[c][i].kind = "reply_result"

\* An approved reply answers the recruiter's latest message at that moment, which is not one left
\* to the person; a follow-up is approved only while nothing was received, and a resume once
\* there is a file (_reply_problems, _check_answer).
AnswersLatest ==
    \A c \in Convs : \A i \in DOMAIN log[c] : log[c][i].kind = "reply_approved" =>
        LET reply == log[c][i].body.reply
            last == InboundBefore(c, i)
        IN  /\ reply.answers = last
            /\ reply.kind = "follow_up" <=> last = 0
            /\ last # 0 => log[c][last].body.level = "l1"
            /\ reply.kind = "resume" => \E j \in 1 .. i - 1 : log[c][j].kind = "resume_attached"

\* Each logged outcome is that of an approval of the same reply with no outcome in between: no
\* approval is used twice (_pending_approval).
EachSendApproved ==
    \A c \in Convs : \A i \in DOMAIN log[c] : log[c][i].kind = "reply_result" =>
        \E j \in 1 .. i - 1 :
            /\ log[c][j].kind = "reply_approved" /\ log[c][j].body.reply = log[c][i].body.reply
            /\ \A k \in j + 1 .. i - 1 : log[c][k].kind # "reply_result"

\* A draft that is not the first put at its point carries the first one's digest, through redrafts
\* that overlap in any way, so that its approval shows the edit; the one exception is that two
\* sessions both drafted before anything was put (draft_reply, original_reply_digest).
EditStaysVisible ==
    \A c \in Convs : asks[c].first # NoOne =>
        /\ asks[c].original \in {NoOne, asks[c].first}
        /\ asks[c].reply # asks[c].first => asks[c].original = asks[c].first

\* What the gate lets out answers the latest message, on a day nothing has failed on the platform,
\* has not been logged since it was approved, and carries a file when it is a resume (reply_gate).
ReleaseFresh ==
    \A c \in Convs : GateDecision(c, TRUE, FALSE) # NoOne =>
        LET out == GateDecision(c, TRUE, FALSE)
            n == Len(log[c])
            approved == Max({j \in 1 .. n : log[c][j].kind = "reply_approved"})
        IN  /\ out.reply.answers = InboundBefore(c, n + 1)
            /\ out.reply.kind = "resume" => out.file \in Files
            /\ \A d \in Convs : \A i \in DOMAIN log[d] : log[d][i].kind = "reply_result" =>
                  /\ log[d][i].body.result = "sent" \/ log[d][i].body.day # today
                  /\ d = c => i < approved

\* Stages follow the table, a closed conversation is quiet, what is approved, let out and logged of
\* a reply is one reply to the latest message, and an edit shows, however commands interleave
\* (service.py).
TalksSound ==
    /\ TalkTypeOK
    /\ StagesFollow
    /\ ClosedIsQuiet
    /\ AnswersLatest
    /\ EachSendApproved
    /\ EditStaysVisible
    /\ ReleaseFresh
====
