---- MODULE MessageLists ----
(***************************************************************************)
(* The message lists a patrol reads off one board.  Each is kept whole and *)
(* then compared with the last complete one; the statuses it shows of our  *)
(* own messages are recorded against the conversations they belong to.     *)
(***************************************************************************)
EXTENDS Naturals, Sequences, FiniteSetsExt

CONSTANTS
    NoList,    \* no value
    Rows,      \* keys of the board's rows
    FitsOf,    \* conversations a row fits best, by row; it belongs to one only if one fits
    MaxSnaps,  \* bound on the lists kept
    MaxWords   \* bound on the messages of a row

Talks == UNION {FitsOf[r] : r \in Rows}

ASSUME ListSorts == MaxSnaps \in Nat /\ MaxWords \in Nat /\ DOMAIN FitsOf = Rows

VARIABLES
    board,      \* the list the board shows now
    known,      \* conversations that are stored
    snaps,      \* patrol_snapshots, with whether their command got to its end and who was known then
    comparing,  \* the command between keeping a list and reporting on it
    told,       \* what commands reported as the recruiters' new messages
    receipts1   \* conversation_receipts: the number of the list of the first sighting

listVars == <<board, known, snaps, comparing, told, receipts1>>

Statuses == {"delivered", "read"}
\* What a list shows: everything, some rows, nothing that counts.  A legacy one declares nothing.
States == {"full", "partial", "blocked"}

List(state, rows) == [state |-> state, rows |-> rows, done |-> FALSE, known |-> {}]

\* A database from before the states were declared may hold a list without them.
ListInit ==
    /\ board = [r \in {} |-> 0] /\ known = {}
    /\ snaps \in {<<>>} \cup {<<List("legacy", [r \in {q} |->
                     [from |-> "them", preview |-> 1, status |-> "delivered"]])>> : q \in Rows}
    /\ comparing = NoList /\ told = {} /\ receipts1 = [x \in {} |-> 0]

----
\* A list whose rows could be read, and one the next may be compared with.
RowsObservable(snap) == snap.state # "blocked"
BaselineEligible(snap) == snap.state \in {"full", "legacy"}

\* Mutant: an incomplete list becomes the one to compare with.
LatestKept == Max({0} \cup {i \in DOMAIN snaps : RowsObservable(snaps[i])})

\* The newest list that may be compared with, or 0.
LatestBaseline == Max({0} \cup {i \in DOMAIN snaps : BaselineEligible(snaps[i])})

\* diff_snapshots: rows whose last message is the recruiter's, and that have another than before;
\* or that were not there, when before was complete.
TheirNewMessages(previous, snap) ==
    IF ~BaselineEligible(snap) \/ previous = 0 THEN {}
    ELSE LET before == snaps[previous].rows
             now == snap.rows
         IN  {r \in DOMAIN now : now[r].from = "them"
                 /\ IF r \in DOMAIN before THEN now[r].preview # before[r].preview
                    ELSE snaps[previous].state = "full"}

\* match_conversation: the one stored conversation a row fits.
Matched(r) == IF Cardinality(FitsOf[r] \cap known) = 1 THEN FitsOf[r] \cap known ELSE {}

\* receipts_from_snapshot
ReceiptsOf(snap) ==
    IF ~RowsObservable(snap) THEN {}
    ELSE UNION {Matched(r) \X {snap.rows[r].status} :
                    r \in {q \in DOMAIN snap.rows : snap.rows[q].from = "us"}}

\* INSERT OR IGNORE: the first sighting recorded stands.
RecordReceipts(found, n) ==
    [x \in DOMAIN receipts1 \cup found |-> IF x \in DOMAIN receipts1 THEN receipts1[x] ELSE n]

\* snapshot reads the list to compare with, keeps the new one, and commits it.
SnapshotKeep(state, seen) ==
    /\ comparing = NoList /\ Len(snaps) < MaxSnaps
    /\ state = "full" => seen = DOMAIN board
    /\ state = "blocked" => seen = {}
    /\ comparing' = LatestBaseline
    /\ snaps' = Append(snaps, List(state, [r \in seen |-> board[r]]))
    /\ UNCHANGED <<board, known, told, receipts1>>

\* Then it records receipts and reports; both are lost when it dies.
SnapshotReport ==
    /\ comparing # NoList
    /\ LET n == Len(snaps) IN
       /\ receipts1' = RecordReceipts(ReceiptsOf(snaps[n]), n)
       /\ told' = told \cup {<<r, snaps[n].rows[r].preview>> : r \in TheirNewMessages(comparing, snaps[n])}
       /\ snaps' = [snaps EXCEPT ![n].done = TRUE, ![n].known = known]
    /\ comparing' = NoList
    /\ UNCHANGED <<board, known>>

SnapshotDies ==
    /\ comparing # NoList /\ comparing' = NoList
    /\ UNCHANGED <<board, known, snaps, told, receipts1>>

\* receipts replays every kept list, oldest first.
ReplayReceipts ==
    /\ comparing = NoList
    /\ receipts1' = [x \in DOMAIN receipts1 \cup UNION {ReceiptsOf(snaps[i]) : i \in DOMAIN snaps} |->
                        IF x \in DOMAIN receipts1 THEN receipts1[x]
                        ELSE Min({i \in DOMAIN snaps : x \in ReceiptsOf(snaps[i])})]
    /\ UNCHANGED <<board, known, snaps, comparing, told>>

----
\* What happens on the board, and conversations that are opened.
BoardMoves(r, from) ==
    /\ r \in DOMAIN board => board[r].preview < MaxWords
    /\ board' = [q \in DOMAIN board \cup {r} |-> IF q # r THEN board[q] ELSE
                    [from |-> from, status |-> "delivered",
                     preview |-> IF r \in DOMAIN board THEN board[r].preview + 1 ELSE 1]]
    /\ UNCHANGED <<known, snaps, comparing, told, receipts1>>

BoardRead(r) ==
    /\ r \in DOMAIN board /\ board[r].from = "us" /\ board[r].status = "delivered"
    /\ board' = [board EXCEPT ![r].status = "read"]
    /\ UNCHANGED <<known, snaps, comparing, told, receipts1>>

TalkOpens(c) ==
    /\ known' = known \cup {c}
    /\ UNCHANGED <<board, snaps, comparing, told, receipts1>>

ListNext ==
    \/ \E state \in States, seen \in SUBSET DOMAIN board : SnapshotKeep(state, seen)
    \/ SnapshotReport \/ SnapshotDies \/ ReplayReceipts
    \/ \E r \in Rows : BoardRead(r) \/ \E from \in {"them", "us"} : BoardMoves(r, from)
    \/ \E c \in Talks : TalkOpens(c)

ListSpec == ListInit /\ [][ListNext]_listVars

----
Complete == {i \in DOMAIN snaps : snaps[i].state = "full"}

\* A recruiter's message that came between two complete lists is reported, whatever partial or
\* blocked readings came between, when the command that read the second got to its end
\* (latest_baseline, diff_snapshots).
NothingMissed ==
    \A i, j \in Complete :
        /\ i < j /\ snaps[j].done
        /\ \A k \in i + 1 .. j - 1 : k \notin Complete
        => \A r \in DOMAIN snaps[j].rows :
              /\ snaps[j].rows[r].from = "them"
              /\ r \in DOMAIN snaps[i].rows => snaps[i].rows[r].preview # snaps[j].rows[r].preview
              => <<r, snaps[j].rows[r].preview>> \in told

\* No list that could be read, and whose command got to its end while the conversation was known
\* and alone fitted the row, showed a status before the one recorded as its first sighting.
FirstSightingTrue ==
    \A x \in DOMAIN receipts1 : \A i \in DOMAIN snaps : i < receipts1[x] /\ snaps[i].done =>
        ~ \E r \in DOMAIN snaps[i].rows :
            /\ snaps[i].state # "blocked" /\ FitsOf[r] \cap snaps[i].known = {x[1]}
            /\ snaps[i].rows[r].from = "us" /\ snaps[i].rows[r].status = x[2]

\* A status is attributed to a conversation only by a row that no other one known then fits: one
\* that two fit is left to the person (match_conversation).
NeverGuessed ==
    [][\A x \in DOMAIN receipts1' \ DOMAIN receipts1 :
          \E r \in Rows : /\ FitsOf[r] \cap known = {x[1]}
                          /\ \E i \in DOMAIN snaps : /\ r \in DOMAIN snaps[i].rows
                                                     /\ snaps[i].rows[r].status = x[2]]_listVars

\* What moved between two readings is reported and dated by its first sighting (snapshot.py, receipts.py).
ListsTold ==
    /\ NothingMissed
    /\ FirstSightingTrue
====
