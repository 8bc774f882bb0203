---- MODULE SentTracking ----
(***************************************************************************)
(* The older ledger of sent messages: each record follows one approved     *)
(* send to one recruiter, is checked for an answer at an agreed pace, and  *)
(* is closed after a silence.  Everything belongs to one candidate and one *)
(* posting; time is counted in ticks.                                      *)
(***************************************************************************)
EXTENDS Integers, Sequences, FiniteSetsExt

CONSTANTS
    Tracks,        \* tracking ids
    NoTime,        \* no value
    CheckEvery,    \* CHECK_INTERVAL
    SilenceTicks,  \* SILENCE_LIMIT
    Letters,       \* what may be sent and answered in a behaviour: [sends, messages]
    LastMoment,    \* bound on time
    MaxEvents      \* bound on the events of each record

ASSUME TrackSorts ==
    /\ {CheckEvery, SilenceTicks, LastMoment} \subseteq Nat /\ MaxEvents \in [Tracks -> Nat]
    /\ \A l \in Letters :
           /\ l.sends \in Seq([at : Nat, reply : BOOLEAN])
           /\ l.messages \in Seq([received : Nat, recorded : Nat, says : STRING])
    /\ NoTime \notin Nat /\ NoTime # "silence"

VARIABLES
    tracks,    \* the last state in sent_tracking_events, by tracking id
    sends,     \* the sends put on record with their readback: [at, reply]
    messages,  \* the inbound events of the conversation: [received, recorded, says]
    piped,     \* whether the candidate has a pipeline_authorities row
    moment

trackVars == <<tracks, sends, messages, piped, moment>>

TrackInit ==
    /\ tracks = [t \in Tracks |-> NoTime]
    /\ \E l \in Letters : sends = l.sends /\ messages = l.messages
    /\ piped = FALSE /\ moment = 0

Kept == {t \in Tracks : tracks[t] # NoTime}
TalkStages == {"awaiting", "replied", "screening", "interview"}

----
(* The clock of a record. *)

Known(S) == S \ {NoTime}

SilentFrom(s) == Max(Known({s.sent, s.read, s.heard})) + SilenceTicks

NextObservation(s, now) == Max({now, Min({now + CheckEvery, SilentFrom(s)})})

\* When a check is due; only asked of a record with one planned.
CheckDueAt(s) ==
    LET due == Min({s.next, SilentFrom(s)})
    IN  IF s.checks = 0 THEN Max(Known({due, s.boot})) ELSE due

\* sent_tracking_sends: one record for a send.
Tracked(r, t) == \E u \in Kept : r \in tracks[u].refs

----
(* What happens outside: time, and the move to the pipeline.  A behaviour's sends and messages
   are settled at the start; each can be cited from its own moment on. *)

AdoptPipeline == ~piped /\ piped' = TRUE /\ UNCHANGED <<tracks, sends, messages, moment>>

TrackTick == moment < LastMoment /\ moment' = moment + 1
             /\ UNCHANGED <<tracks, sends, messages, piped>>

----
\* start: the two events sent and readback_confirmed, in one transaction.
Start(t, r, boot) ==
    /\ ~piped /\ tracks[t] = NoTime /\ ~Tracked(r, t) /\ sends[r].at <= moment
    /\ boot # NoTime => boot > moment
    /\ moment > sends[r].at + CheckEvery => boot # NoTime
    /\ tracks' = [tracks EXCEPT ![t] =
           [stage |-> "awaiting", sent |-> sends[r].at, read |-> NoTime, heard |-> NoTime,
            boot |-> boot, next |-> IF boot # NoTime THEN boot ELSE sends[r].at + CheckEvery,
            checks |-> 0, checked |-> NoTime, refs |-> {r}, words |-> {}, paused |-> FALSE,
            reason |-> NoTime, at |-> moment, noted |-> {},
            version |-> 2]]
    /\ UNCHANGED <<sends, messages, piped, moment>>

\* apply: an event of a kind observed at o turns the record into s.  The host names an
\* observation by its kind and moment, and one already applied is refused.
Apply(t, o, kind, s) ==
    LET old == tracks[t]
    IN  /\ ~piped /\ o \in old.at..moment /\ old.version < MaxEvents[t]
        /\ o = old.at => kind \notin old.noted
        /\ tracks' = [tracks EXCEPT ![t] =
               [s EXCEPT !.version = @ + 1, !.at = o,
                         !.noted = IF o = old.at THEN @ \cup {kind} ELSE {kind}]]
        /\ UNCHANGED <<sends, messages, piped, moment>>

Running(t) == t \in Kept /\ tracks[t].stage \in TalkStages
Unpaused(t) == Running(t) /\ ~tracks[t].paused

\* An anomaly is taken before the record's stage is looked at.
Anomaly(t, o) ==
    /\ t \in Kept
    /\ Apply(t, o, "anomaly", [tracks[t] EXCEPT !.paused = TRUE, !.next = NoTime])

ResumeTracking(t, o) ==
    LET s == tracks[t]
        next == NextObservation(s, moment)
    IN  /\ Running(t) /\ s.paused
        /\ Apply(t, o, "resume", [s EXCEPT !.paused = FALSE,
               !.next = IF s.checks = 0 THEN Max(Known({next, s.boot})) ELSE next])

CloseFor(s, reason) == [s EXCEPT !.stage = "closed", !.reason = reason, !.next = NoTime,
                                 !.paused = FALSE]

\* user_abandon, queue_closed.
OwnerEnds(t, o) == Running(t) /\ Apply(t, o, "ended", CloseFor(tracks[t], "ended"))

JobClosed(t, o) == Unpaused(t) /\ Apply(t, o, "job_closed", CloseFor(tracks[t], "job_closed"))

Suspected(t, o) ==
    /\ Unpaused(t) /\ tracks[t].stage = "awaiting"
    /\ Apply(t, o, "suspected", tracks[t])

ReadConfirmed(t, o) ==
    LET s == [tracks[t] EXCEPT !.read = o]
    IN  /\ Unpaused(t) /\ tracks[t].read = NoTime
        /\ Apply(t, o, "read", [s EXCEPT !.next = NextObservation(s, o)])

NothingHeard(t, o) ==
    LET s == tracks[t]
        seen == [s EXCEPT !.checks = @ + 1, !.checked = o]
    IN  /\ Unpaused(t) /\ s.next # NoTime
        /\ o >= CheckDueAt(s)
        /\ Apply(t, o, "no_reply",
               IF o >= SilentFrom(s) THEN CloseFor(seen, "silence")
               ELSE [seen EXCEPT !.next = NextObservation(s, o)])

\* Mutant: an old message counts as an answer to a newer send.
MatchesUnboundedly(s, m, o) == messages[m].recorded <= o /\ messages[m].received <= o

\* _inbound: a message of this send round, already observed.
Matches(s, m, o) == /\ messages[m].recorded \in s.sent..o
                    /\ messages[m].received \in s.sent..o

\* What the stage becomes when an event of a kind cites a message that says something.
StageAfter(s, kind, says) ==
    CASE kind = "substantive_reply" -> s.stage
      [] kind = "reply_confirmed" /\ s.stage = "awaiting" -> "replied"
      [] kind = "screening_confirmed" /\ s.stage = "replied" -> "screening"
      [] kind = "interview_confirmed" /\ s.stage \in {"replied", "screening"}
         /\ says = "invite" -> "interview"
      [] OTHER -> "refused"

MessageKinds ==
    {"substantive_reply", "reply_confirmed", "screening_confirmed", "interview_confirmed"}

Answered(t, o, m, kind) ==
    LET s == tracks[t]
        spoken == [s EXCEPT !.heard = Max(Known({@, messages[m].received})),
                            !.words = @ \cup {m},
                            !.stage = StageAfter(s, kind, messages[m].says)]
    IN  /\ Unpaused(t) /\ Matches(s, m, o) /\ spoken.stage # "refused"
        /\ Apply(t, o, kind, [spoken EXCEPT !.next = NextObservation(spoken, o)])

Declined(t, o, m) ==
    /\ Unpaused(t) /\ Matches(tracks[t], m, o) /\ messages[m].says = "decline"
    /\ Apply(t, o, "employer_rejected", CloseFor(tracks[t], "rejected"))

\* reply_sent: an approved reply opens the next round of the same record.
ReplySent(t, o, r) ==
    LET s == tracks[t]
    IN  /\ Unpaused(t) /\ s.stage # "awaiting"
        /\ sends[r].reply /\ sends[r].at \in s.sent..o /\ r \notin s.refs /\ ~Tracked(r, t)
        /\ Apply(t, o, "reply_sent",
               [s EXCEPT !.stage = IF @ = "replied" THEN "awaiting" ELSE @,
                         !.sent = sends[r].at, !.boot = NoTime, !.checks = 0, !.checked = NoTime,
                         !.read = NoTime, !.heard = NoTime, !.words = {},
                         !.next = sends[r].at + CheckEvery, !.refs = @ \cup {r}])

TrackNext ==
    \/ AdoptPipeline \/ TrackTick
    \/ \E t \in Tracks, r \in DOMAIN sends, boot \in {NoTime, moment + 1} : Start(t, r, boot)
    \/ \E t \in Tracks, o \in 0..moment :
           \/ Anomaly(t, o) \/ ResumeTracking(t, o) \/ OwnerEnds(t, o) \/ JobClosed(t, o)
           \/ Suspected(t, o) \/ ReadConfirmed(t, o) \/ NothingHeard(t, o)
           \/ \E m \in DOMAIN messages :
                  Declined(t, o, m) \/ \E kind \in MessageKinds : Answered(t, o, m, kind)
           \/ \E r \in DOMAIN sends : ReplySent(t, o, r)

TrackSpec == TrackInit /\ [][TrackNext]_trackVars

----
(* Properties. *)

\* A send is followed by one record, whether it opened a record or a round of one.
SendTrackedOnce ==
    \A t, u \in Kept : t # u => tracks[t].refs \cap tracks[u].refs = {}

\* A record at "replied" has an answer given since the send it now follows: what the recruiter
\* wrote before a reply of ours does not answer that reply.
AnswerOfRound ==
    \A t \in Kept : tracks[t].stage = "replied" =>
        \E m \in tracks[t].words : messages[m].received >= tracks[t].sent

\* A record closed for silence had none of the signs of life filed in its round in the last
\* SilenceTicks: not the send, not a read receipt, not a message.
SilenceWasLong ==
    \A t \in Kept : tracks[t].reason = "silence" =>
        \A life \in Known({tracks[t].sent, tracks[t].read}
                          \cup {messages[m].received : m \in tracks[t].words}) :
            life + SilenceTicks <= tracks[t].at

\* Missed checks are not made up for: a check is filed a whole interval after the one before
\* it, the first one at the agreed poll, and sooner only when the silence has run out.
ChecksNotCompressed ==
    [][\A t \in Kept : tracks'[t].checks > tracks[t].checks =>
           LET s == tracks[t]
               first == IF s.boot # NoTime THEN s.boot ELSE s.sent + CheckEvery
               planned == IF s.checked = NoTime THEN first ELSE s.checked + CheckEvery
           IN  tracks'[t].at >= planned \/ tracks'[t].reason = "silence"]_trackVars

\* A record follows its own sends, is answered by what came after them, and is silent only when it
\* was (jobs/sent_tracking.py).
TracksTrue ==
    /\ SendTrackedOnce
    /\ AnswerOfRound
    /\ SilenceWasLong
====
