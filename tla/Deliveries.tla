---- MODULE Deliveries ----
(***************************************************************************)
(* Delivery of one application: a package bound to the bytes of its final  *)
(* file, the question and the approval that bind its digests, the single   *)
(* submission of one send, and the audit of every attempt.  The package,   *)
(* the question and the approval are files of the host; only audits are in *)
(* the database.  A digest stands for what it is taken of, and the pinned  *)
(* policy is left out.                                                     *)
(***************************************************************************)
EXTENDS Naturals, Sequences, FiniteSetsExt

CONSTANTS
    NoWork,       \* no value
    Postings,     \* contents of the posting, by digest
    Letters,      \* texts of the message
    Resumes,      \* contents of the employer file that pass its checks
    MaxAttempts   \* bound on the processes that run send

ASSUME DeliverySorts == MaxAttempts \in Nat

VARIABLES
    pack,       \* the ApplicationPackage JSON, whose variant is verified or not
    disk,       \* the file at the package's artifact path
    question,   \* the ApprovalRequest JSON
    approval,   \* the ApprovalRecord JSON, with the question it answers
    sending,    \* what a send has read, by the order they began in
    begun,      \* sends begun
    arrived,    \* what reached the platform
    attempts    \* application_audits of the application, a set: rows carry their number

deliveryVars == <<pack, disk, question, approval, sending, begun, arrived, attempts>>

Contents == [job : Postings, message : Letters, file : Resumes]
Channels == {"terminal", "relay"}
\* What the connector reports or raises; "other" is a result for another application.
Outcomes == {"sent", "failed", "intervention", "other"}

Sends == 1 .. MaxAttempts

DeliveryInit ==
    /\ pack = NoWork /\ disk \in Resumes /\ question = NoWork /\ approval = NoWork
    /\ sending = [s \in Sends |-> NoWork] /\ begun = 0 /\ arrived = {} /\ attempts = {}

----
\* compute_digests: the file enters by its bytes, not its path.
Digests(p) == [job |-> p.job, message |-> p.message, file |-> p.file]

\* _validate_final_artifact: the file is the one bound.
FinalArtifact(p) == disk = p.file

\* preview binds the file that is there now; a package file can also be changed by hand, and then
\* its variant may be one that is not verified.
Preview(job, message) ==
    /\ pack' = [job |-> job, message |-> message, file |-> disk, verified |-> TRUE]
    /\ UNCHANGED <<disk, question, approval, sending, begun, arrived, attempts>>

EditPackage(content, verified) ==
    /\ pack # NoWork
    /\ pack' = [job |-> content.job, message |-> content.message, file |-> content.file,
                verified |-> verified]
    /\ UNCHANGED <<disk, question, approval, sending, begun, arrived, attempts>>

EditFile(f) ==
    /\ disk' = f
    /\ UNCHANGED <<pack, question, approval, sending, begun, arrived, attempts>>

AskApplication ==
    /\ pack # NoWork /\ FinalArtifact(pack)
    /\ question' = Digests(pack)
    /\ UNCHANGED <<pack, disk, approval, sending, begun, arrived, attempts>>

\* Mutant: any question put before will do.
RelayedAnyQuestion(p) == question # NoWork

\* _check_relayed_answer: the question it answers was about this very content.
RelayedAnswer(p) == question = Digests(p)

ApproveApplication(channel) ==
    /\ pack # NoWork /\ FinalArtifact(pack)
    /\ channel = "relay" => RelayedAnswer(pack)
    /\ pack.verified
    /\ approval' = [digests |-> Digests(pack),
                    answers |-> IF channel = "relay" THEN question ELSE NoWork]
    /\ UNCHANGED <<pack, disk, question, sending, begun, arrived, attempts>>

----
\* Mutant: the approval is compared by the posting and the message alone.
AuthorizedLanes(p, by) ==
    /\ p.verified
    /\ by.digests.job = p.job /\ by.digests.message = p.message

\* _refuse_unless_authorized
Authorized(p, by) ==
    /\ p.verified
    /\ by.digests = Digests(p)

\* What _audit is left with, and the number it is to take.
Unaudited(p, result) == [step |-> "audit", digests |-> Digests(p), result |-> result, attempt |-> 0]

\* send loads the package, checks its file and loads the approval; a refusal is audited as failed.
SendRead(s) ==
    /\ s = begun + 1
    /\ pack # NoWork /\ FinalArtifact(pack) /\ approval # NoWork
    /\ sending' = [sending EXCEPT ![s] =
           IF Authorized(pack, approval)
           THEN [step |-> "submit", pack |-> pack, approval |-> approval]
           ELSE Unaudited(pack, "failed")]
    /\ begun' = begun + 1
    /\ UNCHANGED <<pack, disk, question, approval, arrived, attempts>>

\* _submit_once, _settle: the connector uploads the file that is there then.  What it reports as
\* sent has arrived; a failure can be one after arrival, and a result for another application is
\* not audited.
Submit(s, outcome, reached) ==
    /\ sending[s] # NoWork /\ sending[s].step = "submit"
    /\ (outcome = "sent" => reached) /\ (outcome = "intervention" => ~reached)
    /\ arrived' = IF ~reached THEN arrived
                  ELSE arrived \cup {[sent |-> Digests(sending[s].pack), file |-> disk,
                                      approval |-> sending[s].approval, n |-> Cardinality(arrived) + 1]}
    /\ sending' = [sending EXCEPT ![s] = IF outcome = "other" THEN NoWork
                                         ELSE Unaudited(sending[s].pack, outcome)]
    /\ UNCHANGED <<pack, disk, question, approval, begun, attempts>>

\* record_attempt reads the next number and then writes its row, in two transactions.
NextAttempt == Max({0} \cup {a.attempt : a \in attempts}) + 1

AuditRead(s) ==
    /\ sending[s] # NoWork /\ sending[s].step = "audit" /\ sending[s].attempt = 0
    /\ sending' = [sending EXCEPT ![s].attempt = NextAttempt]
    /\ UNCHANGED <<pack, disk, question, approval, begun, arrived, attempts>>

\* Mutant: INSERT OR REPLACE.
AppendAttemptOver(row) == {a \in attempts : a.attempt # row.attempt} \cup {row}

\* UNIQUE (application_id, attempt): a number that is taken ends in an error, without a row.
AppendAttempt(row) ==
    IF \E a \in attempts : a.attempt = row.attempt THEN attempts ELSE attempts \cup {row}

AuditWrite(s) ==
    /\ sending[s] # NoWork /\ sending[s].step = "audit" /\ sending[s].attempt # 0
    /\ attempts' = AppendAttempt([attempt |-> sending[s].attempt, result |-> sending[s].result,
                                  digests |-> sending[s].digests])
    /\ sending' = [sending EXCEPT ![s] = NoWork]
    /\ UNCHANGED <<pack, disk, question, approval, begun, arrived>>

SendDies(s) ==
    /\ sending[s] # NoWork
    /\ sending' = [sending EXCEPT ![s] = NoWork]
    /\ UNCHANGED <<pack, disk, question, approval, begun, arrived, attempts>>

DeliveryNext ==
    \/ \E j \in Postings, l \in Letters : Preview(j, l)
    \/ \E c \in Contents, v \in BOOLEAN : EditPackage(c, v)
    \/ \E f \in Resumes : EditFile(f)
    \/ AskApplication
    \/ \E ch \in Channels : ApproveApplication(ch)
    \/ \E s \in Sends :
        \/ SendRead(s)
        \/ \E o \in Outcomes, r \in BOOLEAN : Submit(s, o, r)
        \/ AuditRead(s) \/ AuditWrite(s) \/ SendDies(s)

DeliverySpec == DeliveryInit /\ [][DeliveryNext]_deliveryVars

----
\* What reaches the platform is the posting, the message and the file a person approved, and a
\* relayed approval answered a question about exactly these, however package and file are changed
\* between question, approval and submission.
SubmittedApproved ==
    \A x \in arrived :
        /\ x.approval.digests = x.sent
        /\ x.approval.answers \in {NoWork, x.sent}

\* The audits of an application are numbered from 1 without a gap, and those that say sent are no
\* more than what arrived of that content, when sends overlap and die.
AuditTruthful ==
    /\ {a.attempt : a \in attempts} = 1 .. Cardinality(attempts)
    /\ \A c \in Contents :
        Cardinality({a \in attempts : a.result = "sent" /\ a.digests = c})
            <= Cardinality({x \in arrived : x.sent = c})

\* No audit is ever changed or replaced by one of an overlapping send.
AuditsStand == [][attempts \subseteq attempts']_deliveryVars

\* What arrives is what a person approved, and the audits are numbered and no more than true, over
\* overlapping sends, crashes and edits (delivery.py).
DeliveriesApproved ==
    /\ SubmittedApproved
    /\ AuditTruthful
====
