---- MODULE HostRounds ----
(***************************************************************************)
(* What a host round leaves about pages and records.  An observation of a  *)
(* page is filed as pending, judged against the others, pauses the records *)
(* it affects one by one if the login was lost, and is then answered; the  *)
(* one that died on the way is filed again.  One platform is followed and  *)
(* records are made beforehand: trackings are written until the first      *)
(* pipeline makes pipelines the authority, pipelines from then on.         *)
(***************************************************************************)
EXTENDS Naturals, SequencesExt

CONSTANTS
    Pipes,         \* pipelines of the candidate
    Trackings,     \* tracked sends of the candidate
    Pages,         \* ids of page observations
    Lost,          \* those of the messages page that show the login lost
    Reporters,     \* processes that file pages
    LastInstant,   \* bound on the clock
    MaxChanges,    \* bound on the changes of a record
    Unfiled        \* no page

ASSUME RoundSorts == Lost \subseteq Pages /\ LastInstant \in Nat /\ MaxChanges \in Nat

VARIABLES
    instant,    \* the clock
    authority,  \* when pipelines became the authority, 0 for not yet
    history,    \* of a record, the rows as its changes left them
    pausedBy,   \* pages that paused a record
    sightings,  \* host_page_observations in the order filed
    judging     \* what a process has read

roundVars == <<instant, authority, history, pausedBy, sightings, judging>>

Records == Pipes \cup Trackings
RecordStates == {"open", "answered", "closed"}

\* A row has the time of its event and the last change of state: to what, and when.
Turn(to, at) == [to |-> to, at |-> at]
RowAt(at, turn) == [at |-> at, turn |-> turn]
Underway(row) == row.turn.to # "closed"

RoundInit ==
    /\ instant = 1 /\ authority \in {0, 1}
    /\ history = [r \in Records |-> <<RowAt(1, Turn("open", 1))>>]
    /\ pausedBy = [r \in Records |-> {}]
    /\ sightings = <<>> /\ judging = [d \in Reporters |-> Unfiled]

----
RoundTick ==
    /\ instant < LastInstant /\ instant' = instant + 1
    /\ UNCHANGED <<authority, history, pausedBy, sightings, judging>>

\* The first pipeline makes them the authority, from when its command read the clock.
TakeAuthority ==
    /\ authority = 0 /\ authority' \in 1 .. instant
    /\ UNCHANGED <<instant, history, pausedBy, sightings, judging>>

\* Trackings are read only once pipelines are the authority.
Writable(r) == (r \in Pipes) <=> (authority # 0)

\* Any other event of a record: observed no earlier than its last, filed perhaps late.
ChangeRecord(r) ==
    /\ Writable(r) /\ Len(history[r]) < MaxChanges /\ Underway(Last(history[r]))
    /\ \E at \in Last(history[r]).at .. instant, to \in RecordStates :
          LET turn == IF to = Last(history[r]).turn.to THEN Last(history[r]).turn ELSE Turn(to, at)
          IN  history' = [history EXCEPT ![r] = Append(@, RowAt(at, turn))]
    /\ UNCHANGED <<instant, authority, pausedBy, sightings, judging>>

----
\* Positions of the observations of a time; the newest counts, of those at once the last filed.
Seen(end) == {n \in DOMAIN sightings : sightings[n].at <= end}
NewestPage(end) ==
    LET last == Max({sightings[n].at : n \in Seen(end)})
    IN  Max({n \in Seen(end) : sightings[n].at = last})

\* What a process holds of the page it has taken up: whether a newer one stood, the records that
\* page is about, those it has not read yet and the versions of those it is to pause, 0 for none.
Judgement(n, step, stale, about, unread, todo) ==
    [nth |-> n, step |-> step, stale |-> stale, about |-> about, unread |-> unread, todo |-> todo]
NoneToPause == [r \in Records |-> 0]
TakenUp(n) == Judgement(n, "filed", FALSE, {}, {}, NoneToPause)
At(d, step) == judging[d] # Unfiled /\ judging[d].step = step
Sighting(d) == sightings[judging[d].nth]

FilePage(d, o) ==
    /\ judging[d] = Unfiled
    /\ ~\E n \in DOMAIN sightings : sightings[n].page = o
    /\ \E at \in 1 .. instant :
          /\ sightings' = Append(sightings, [page |-> o, at |-> at, answer |-> Unfiled])
          /\ judging' = [judging EXCEPT ![d] = TakenUp(Len(sightings) + 1)]
    /\ UNCHANGED <<instant, authority, history, pausedBy>>

\* One that is answered is only answered again, one that is pending taken up.
FileAgain(d, n) ==
    /\ judging[d] = Unfiled /\ sightings[n].answer = Unfiled
    /\ judging' = [judging EXCEPT ![d] = TakenUp(n)]
    /\ UNCHANGED <<instant, authority, history, pausedBy, sightings>>

\* The pages are read, then the authority, then the records one by one, each by itself.
JudgePage(d) ==
    /\ At(d, "filed")
    /\ judging' = [judging EXCEPT ![d] =
          Judgement(@.nth, "judged", NewestPage(LastInstant) # @.nth, {}, {}, NoneToPause)]
    /\ UNCHANGED <<instant, authority, history, pausedBy, sightings>>

\* The records a page of a time is about: what is older than the pipelines' authority is about none.
About(at) == IF authority = 0 THEN Trackings ELSE IF at >= authority THEN Pipes ELSE {}

\* A loss that is current pauses them.
FindRecords(d) ==
    /\ At(d, "judged")
    /\ LET about == About(Sighting(d).at)
           lost == Sighting(d).page \in Lost /\ ~judging[d].stale
       IN judging' = [judging EXCEPT ![d] =
             Judgement(@.nth, "reading", @.stale, about, IF lost THEN about ELSE {}, NoneToPause)]
    /\ UNCHANGED <<instant, authority, history, pausedBy, sightings>>

ReadRecord(d, r) ==
    /\ At(d, "reading") /\ r \in judging[d].unread
    /\ judging' = [judging EXCEPT
          ![d].unread = @ \ {r},
          ![d].todo[r] = IF Underway(Last(history[r])) THEN Len(history[r]) ELSE 0]
    /\ UNCHANGED <<instant, authority, history, pausedBy, sightings>>

AllRead(d) == At(d, "reading") /\ judging[d].unread = {}

RecordUnmoved(d, r) == Len(history[r]) = judging[d].todo[r]

\* Mutant: a record that has moved on is passed over.
SettledOrMoved(d, r) ==
    \/ Sighting(d).page \in pausedBy[r]
    \/ Sighting(d).at < history[r][judging[d].todo[r]].at
    \/ ~RecordUnmoved(d, r)

\* Nothing to do: paused by this page before, or changed since it was seen.
Settled(d, r) ==
    \/ Sighting(d).page \in pausedBy[r]
    \/ Sighting(d).at < history[r][judging[d].todo[r]].at

\* The pause is refused if the record has moved on, and with it the whole observation.
PauseRecord(d, r) ==
    /\ AllRead(d) /\ judging[d].todo[r] # 0
    /\ judging' = [judging EXCEPT ![d].todo[r] = 0]
    /\ \/ /\ Settled(d, r) /\ UNCHANGED <<history, pausedBy>>
       \/ /\ ~Settled(d, r) /\ RecordUnmoved(d, r) /\ Writable(r)
          /\ history' = [history EXCEPT ![r] = Append(@, RowAt(Sighting(d).at, Last(@).turn))]
          /\ pausedBy' = [pausedBy EXCEPT ![r] = @ \cup {Sighting(d).page}]
    /\ UNCHANGED <<instant, authority, sightings>>

PausePipeline(d) == \E r \in Pipes : PauseRecord(d, r)
PauseLegacy(d) == \E r \in Trackings : PauseRecord(d, r)

AnswerPage(d) ==
    /\ AllRead(d) /\ judging[d].todo = NoneToPause
    /\ sightings' = [sightings EXCEPT ![judging[d].nth].answer =
                        [stale |-> judging[d].stale, about |-> judging[d].about]]
    /\ judging' = [judging EXCEPT ![d] = Unfiled]
    /\ UNCHANGED <<instant, authority, history, pausedBy>>

\* A refusal or a crash leaves the page pending.
JudgingEnds(d) ==
    /\ judging[d] # Unfiled /\ judging' = [judging EXCEPT ![d] = Unfiled]
    /\ UNCHANGED <<instant, authority, history, pausedBy, sightings>>

----
RoundNext ==
    \/ RoundTick \/ TakeAuthority
    \/ \E r \in Records : ChangeRecord(r)
    \/ \E d \in Reporters :
          \/ \E o \in Pages : FilePage(d, o)
          \/ \E n \in DOMAIN sightings : FileAgain(d, n)
          \/ JudgePage(d) \/ FindRecords(d) \/ \E r \in Records : ReadRecord(d, r)
          \/ PausePipeline(d) \/ PauseLegacy(d) \/ AnswerPage(d) \/ JudgingEnds(d)
RoundSpec == RoundInit /\ [][RoundNext]_roundVars

----
\* An observation that tells the owner the login is lost has paused every record it is about, unless
\* that is closed or its own evidence is newer, however often it was filed and whatever moved
\* meanwhile (record).
LossPauses ==
    \A n \in DOMAIN sightings :
        LET s == sightings[n] IN
        s.page \in Lost /\ s.answer # Unfiled /\ ~s.answer.stale =>
            \A r \in s.answer.about : \/ s.page \in pausedBy[r]
                                   \/ ~Underway(Last(history[r]))
                                   \/ Last(history[r]).at > s.at
====
