---- MODULE Mailbox ----
(***************************************************************************)
(* The mailbox between the front end and the main session: files of one    *)
(* JSON entry per line that are only appended to, and one file naming the  *)
(* session in each role.  An id counts the readable entries of its minute. *)
(* An append that was cut off leaves a torn line without its end.          *)
(***************************************************************************)
EXTENDS Naturals, Sequences, FiniteSets

CONSTANTS
    Posters,     \* threads of the front end that post
    Nobody,      \* no value
    MaxPosts,    \* bound on the lines of a file
    LastMinute   \* bound on the minutes

ASSUME MailSorts == MaxPosts \in Nat /\ LastMinute \in Nat

Roles == {"claude_code", "cowork"}

VARIABLES
    inbox,     \* cowork_inbox.jsonl, line by line
    receipts,  \* ids in cowork_inbox_done.jsonl
    outbox,    \* cc_outbox.jsonl
    peers,     \* agent_peers.json, with what a registration has read of it
    counted,   \* the id a poster has derived, before it appends
    minute

mailVars == <<inbox, receipts, outbox, peers, counted, minute>>

MailInit ==
    /\ inbox = <<>> /\ receipts = {} /\ outbox = <<>>
    /\ peers = [file |-> {}, read |-> [r \in Roles |-> Nobody]]
    /\ counted = [p \in Posters |-> Nobody]
    /\ minute = 0

\* Reading passes over a line that is not JSON.
Readable(file) == {i \in DOMAIN file : ~file[i].torn}
Ids(file) == {file[i].id : i \in Readable(file)}

\* Mutant: only the entries still to be processed are counted.
NextIdPending(file) ==
    <<minute, 1 + Cardinality({i \in Readable(file) : file[i].id[1] = minute /\ file[i].id \notin receipts})>>

\* _next_id counts the minute's entries.
NextId(file) ==
    <<minute, 1 + Cardinality({i \in Readable(file) : file[i].id[1] = minute})>>

CutOff(file) == file # <<>> /\ file[Len(file)].open

\* A line that was cut off has no end, so the next entry is written onto it.
Write(file, id) ==
    IF CutOff(file)
    THEN [file EXCEPT ![Len(file)] = [id |-> id, torn |-> TRUE, open |-> FALSE]]
    ELSE Append(file, [id |-> id, torn |-> FALSE, open |-> FALSE])

Cut(file, id) == Append(file, [id |-> id, torn |-> TRUE, open |-> TRUE])

----
\* An approval is refused unless its question is pending, which the caller has looked up.
PostRead(p) ==
    /\ counted[p] = Nobody /\ Len(inbox) < MaxPosts
    /\ counted' = [counted EXCEPT ![p] = NextId(inbox)]
    /\ UNCHANGED <<inbox, receipts, outbox, peers, minute>>

PostWrite(p) ==
    /\ counted[p] # Nobody
    /\ inbox' = Write(inbox, counted[p])
    /\ counted' = [counted EXCEPT ![p] = Nobody]
    /\ UNCHANGED <<receipts, outbox, peers, minute>>

PostCut(p) ==
    /\ counted[p] # Nobody /\ ~CutOff(inbox)
    /\ inbox' = Cut(inbox, counted[p])
    /\ counted' = [counted EXCEPT ![p] = Nobody]
    /\ UNCHANGED <<receipts, outbox, peers, minute>>

\* Any number of receipts may follow one another for an entry.
Acknowledge(id) ==
    /\ id \in Ids(inbox)
    /\ receipts' = receipts \cup {id}
    /\ UNCHANGED <<inbox, outbox, peers, counted, minute>>

\* The main session is one process and leaves its notes one after the other.
Notify ==
    /\ Len(outbox) < MaxPosts
    /\ outbox' = Write(outbox, NextId(outbox))
    /\ UNCHANGED <<inbox, receipts, peers, counted, minute>>

NotifyCut ==
    /\ Len(outbox) < MaxPosts /\ ~CutOff(outbox)
    /\ outbox' = Cut(outbox, NextId(outbox))
    /\ UNCHANGED <<inbox, receipts, peers, counted, minute>>

\* The whole file is read, changed and written back.
RegisterRead(r) ==
    /\ peers.read[r] = Nobody
    /\ peers' = [peers EXCEPT !.read[r] = peers.file]
    /\ UNCHANGED <<inbox, receipts, outbox, counted, minute>>

RegisterWrite(r) ==
    /\ peers.read[r] # Nobody
    /\ peers' = [file |-> peers.read[r] \cup {r}, read |-> [peers.read EXCEPT ![r] = Nobody]]
    /\ UNCHANGED <<inbox, receipts, outbox, counted, minute>>

NextMinute ==
    /\ minute < LastMinute /\ minute' = minute + 1
    /\ UNCHANGED <<inbox, receipts, outbox, peers, counted>>

MailNext ==
    \/ \E p \in Posters : PostRead(p) \/ PostWrite(p) \/ PostCut(p)
    \/ \E id \in (0 .. LastMinute) \X (1 .. MaxPosts) : Acknowledge(id)
    \/ \E r \in Roles : RegisterRead(r) \/ RegisterWrite(r)
    \/ Notify \/ NotifyCut \/ NextMinute

MailSpec == MailInit /\ [][MailNext]_mailVars

----
\* What inbox lists: the readable entries without a receipt.
Unprocessed == {i \in Readable(inbox) : inbox[i].id \notin receipts}

\* What notes lists after a note that was read: the entries behind it.
NotesAfter(id) ==
    {i \in Readable(outbox) : \E j \in Readable(outbox) : outbox[j].id = id /\ j < i}

\* A receipt takes exactly one entry off the list, so that every readable entry is either still to
\* be processed or has a receipt of its own, through torn lines and the change of minute.
EveryEntryOnce ==
    /\ receipts \subseteq Ids(inbox)
    /\ Cardinality(Unprocessed) + Cardinality(receipts) = Cardinality(Readable(inbox))

\* A reader who asks for the notes after the last one it read gets exactly those behind it.
NotesOnce ==
    \A i \in Readable(outbox) : NotesAfter(outbox[i].id) = {j \in Readable(outbox) : j > i}

\* No entry of either file is lost to its reader or comes twice (mailbox.py).
MailKept ==
    /\ EveryEntryOnce
    /\ NotesOnce
====
