---- MODULE HostReports ----
(***************************************************************************)
(* The report of a host round that is over: what the records and the pages *)
(* were as the round ended.  It is put together by reads of their own, and *)
(* other commands commit between any two of them.  Where pipelines were    *)
(* the authority it tells a pipeline by the snapshots its requests keep,   *)
(* checked against the job, its metadata and its changes of state as they  *)
(* are read afterwards; before, a tracking by its last event of that time  *)
(* and, besides, how many legacy rows wait for a proof at the moment of    *)
(* reading, which is not kept as of the end.  Sourcing's share is left out *)
(* and legacy rows are made beforehand.                                    *)
(***************************************************************************)
EXTENDS HostRounds

CONSTANTS
    Tellers,    \* processes that record reports
    Reports,    \* ids of reports
    Legacies    \* host_legacy_rows of the candidate

VARIABLES
    bound,      \* of a legacy row, when its proof was verified, 0 for pending
    telling,    \* what a process has read
    reports     \* host_round_reports

tellVars == <<bound, telling, reports>>
reportVars == <<roundVars, tellVars>>

\* Of the first rows of a record the last of a time, and of all it has.
AsOf(r, end, len) == Max({n \in 1 .. len : history[r][n].at <= end})
Upto(r, end) == AsOf(r, end, Len(history[r]))

LatestPage(end) == IF Seen(end) = {} THEN Unfiled ELSE sightings[NewestPage(end)].page

NotRead == [r \in Records |-> 0]

ReportInit ==
    /\ RoundInit
    /\ bound = [l \in Legacies |-> 0]
    /\ telling = [p \in Tellers |-> Unfiled]
    /\ reports = [i \in Reports |-> Unfiled]

----
\* The proof of a legacy row is verified; a second time it says the same.
BindTracking(l) ==
    /\ bound[l] = 0 /\ bound' = [bound EXCEPT ![l] = instant]
    /\ UNCHANGED <<roundVars, telling, reports>>

\* A report there is is answered again.  What was known as its making began is kept with it here:
\* versions of records, pages and the authority.
BeginReport(p, i, end) ==
    /\ telling[p] = Unfiled /\ reports[i] = Unfiled /\ end <= instant
    /\ telling' = [telling EXCEPT ![p] =
          [report |-> i, end |-> end, step |-> "begun", from |-> "none",
           unproven |-> {l \in Legacies : bound[l] = 0},
           share |-> NotRead, job |-> NotRead, meta |-> NotRead, read |-> NotRead,
           unverified |-> {}, page |-> Unfiled,
           rows |-> [r \in Records |-> Len(history[r])], pages |-> Len(sightings),
           authority |-> authority]]
    /\ UNCHANGED <<roundVars, bound, reports>>

Reading(p, from) == telling[p] # Unfiled /\ telling[p].step = "records" /\ telling[p].from = from

\* The authority, which once taken stays, and under it what the requests keep of every pipeline.
ReadSnapshots(p) ==
    /\ telling[p] # Unfiled /\ telling[p].step = "begun"
    /\ telling' = [telling EXCEPT
          ![p].step = "records",
          ![p].from = IF authority \in 1 .. telling[p].end THEN "pipelines" ELSE "trackings",
          ![p].share = [r \in Records |-> IF authority \in 1 .. telling[p].end /\ r \in Pipes
                                          THEN Upto(r, telling[p].end) ELSE 0]]
    /\ UNCHANGED <<roundVars, bound, reports>>

\* One pipeline after the other is listed, its job and then its metadata.
ReadJob(p, r) ==
    /\ Reading(p, "pipelines") /\ telling[p].job[r] = 0
    /\ \A q \in Pipes : telling[p].job[q] # 0 => telling[p].meta[q] # 0
    /\ telling' = [telling EXCEPT ![p].job[r] = Len(history[r])]
    /\ UNCHANGED <<roundVars, bound, reports>>

ReadMeta(p, r) ==
    /\ Reading(p, "pipelines") /\ telling[p].job[r] # 0 /\ telling[p].meta[r] = 0
    /\ telling' = [telling EXCEPT ![p].meta[r] = Len(history[r])]
    /\ UNCHANGED <<roundVars, bound, reports>>

TurnOf(r, n) == history[r][n].turn

\* Mutant: the changes of state are not looked at.
DisagreesInVersion(w, r) == history[r][w.job[r]].at <= w.end /\ w.meta[r] # w.share[r]

\* A snapshot disagrees with the changes of state as they are now, or with the version of a job
\* that has not changed since the end.
Disagrees(w, r) ==
    \/ TurnOf(r, Upto(r, w.end)) # TurnOf(r, w.share[r])
    \/ history[r][w.job[r]].at <= w.end /\ w.meta[r] # w.share[r]

CheckHistory(p, r) ==
    /\ Reading(p, "pipelines") /\ telling[p].read[r] = 0
    /\ \A q \in Pipes : telling[p].meta[q] # 0
    /\ telling' = [telling EXCEPT
          ![p].read[r] = Len(history[r]),
          ![p].unverified = IF Disagrees(telling[p], r) THEN @ \cup {r} ELSE @]
    /\ UNCHANGED <<roundVars, bound, reports>>

ReadTracking(p, r) ==
    /\ Reading(p, "trackings") /\ telling[p].share[r] = 0
    /\ telling' = [telling EXCEPT ![p].share[r] = Upto(r, telling[p].end)]
    /\ UNCHANGED <<roundVars, bound, reports>>

ReadPages(p) ==
    /\ \/ Reading(p, "pipelines") /\ \A r \in Pipes : telling[p].read[r] # 0
       \/ Reading(p, "trackings") /\ \A r \in Trackings : telling[p].share[r] # 0
    /\ telling' = [telling EXCEPT ![p].step = "pages", ![p].page = LatestPage(telling[p].end)]
    /\ UNCHANGED <<roundVars, bound, reports>>

\* The insert is refused where another process was first.
SaveReport(p) ==
    /\ telling[p] # Unfiled /\ telling[p].step = "pages" /\ reports[telling[p].report] = Unfiled
    /\ reports' = [reports EXCEPT ![telling[p].report] = telling[p]]
    /\ telling' = [telling EXCEPT ![p] = Unfiled]
    /\ UNCHANGED <<roundVars, bound>>

\* A refusal or a crash leaves nothing.
TellingEnds(p) ==
    /\ telling[p] # Unfiled /\ telling' = [telling EXCEPT ![p] = Unfiled]
    /\ UNCHANGED <<roundVars, bound, reports>>

ReportNext ==
    \/ RoundNext /\ UNCHANGED tellVars
    \/ \E l \in Legacies : BindTracking(l)
    \/ \E p \in Tellers :
          \/ \E i \in Reports, end \in 1 .. LastInstant : BeginReport(p, i, end)
          \/ ReadSnapshots(p) \/ ReadPages(p) \/ SaveReport(p) \/ TellingEnds(p)
          \/ \E r \in Pipes : ReadJob(p, r) \/ ReadMeta(p, r) \/ CheckHistory(p, r)
          \/ \E r \in Trackings : ReadTracking(p, r)
ReportSpec == ReportInit /\ [][ReportNext]_reportVars

----
\* Something of before the end was recorded after the making of the report had begun.
LateWord(w, r) == \E n \in w.rows[r] + 1 .. Len(history[r]) : history[r][n].at <= w.end
LatePage(w) == \E n \in w.pages + 1 .. Len(sightings) : sightings[n].at <= w.end

\* Pipelines are told where they were the authority as the round ended, trackings elsewhere and
\* where the authority was only taken meanwhile.
SideTold(w) ==
    /\ w.from \in {"pipelines", "trackings"}
    /\ w.from = "pipelines" => authority \in 1 .. w.end
    /\ w.from = "trackings" => authority \notin 1 .. w.end \/ w.authority = 0

\* A record is told as it was at the end, unless word of that time came in meanwhile.
RecordsOf(w) == IF w.from = "pipelines" THEN Pipes ELSE Trackings
RecordsTold(w) == \A r \in RecordsOf(w) : LateWord(w, r) \/ w.share[r] = Upto(r, w.end)

\* A pipeline said to be verified is told in the state its history gave it when that was read, late
\* word included; one said to be unverified did move meanwhile.
ChecksTold(w) ==
    w.from = "pipelines" => \A r \in Pipes :
        IF r \in w.unverified THEN Len(history[r]) > w.rows[r]
        ELSE TurnOf(r, w.share[r]) = TurnOf(r, AsOf(r, w.end, w.read[r]))

PageTold(w) == LatePage(w) \/ w.page = LatestPage(w.end)

\* The rows counted as waiting for a proof all wait still or were proved after the end; one
\* proved between the end and the reading is not counted.
ProofsTold(w) ==
    /\ {l \in Legacies : bound[l] = 0} \subseteq w.unproven
    /\ \A l \in w.unproven : bound[l] = 0 \/ bound[l] >= w.end

ReportsStand ==
    \A i \in Reports : reports[i] # Unfiled =>
        LET w == reports[i]
        IN  SideTold(w) /\ RecordsTold(w) /\ ChecksTold(w) /\ PageTold(w) /\ ProofsTold(w)

\* A lost login has paused what it is about, and a report is true of its round however its reads
\* were interleaved with other commands, but for what came in late, and it finds out a pipeline's
\* late change of state where that came before the check (host_checks.py, host_reports.py).
RoundsReported ==
    /\ LossPauses
    /\ ReportsStand
====
