---------------------------- MODULE WorkerGateway ----------------------------
(***************************************************************************)
(* The worker gateway (bridge/worker.py, storage/worker_repository.py,     *)
(* migration 0027): a worker hands in observed jobs, claims one approved   *)
(* greeting, asks for the single dispatch authorization, and reports what  *)
(* it read back.  Every operation is one BEGIN IMMEDIATE transaction, so   *)
(* each is one action; the CLI commands interleave between them.           *)
(***************************************************************************)
EXTENDS OutreachLedger

CONSTANTS
    Workers,      \* the sessions that act as workers
    Tasks,        \* ids of fetch tasks
    Fetches       \* sets of jobs one fetch may observe

ASSUME WorkerAssumption ==
    /\ Workers \subseteq Sessions
    /\ \A f \in Fetches : f \subseteq Jobs
    /\ Tasks \cap ItemKey = {}

VARIABLES
    claims,       \* worker_send_claims, UNIQUE(batch_id, number): claims[i] or None
    receipts,     \* worker_fetch_receipts: jobs of the task's request, or None
    events,       \* worker_events: tasks and claimed items that completed
    acked         \* worker_event_acks

workerVars == <<claims, receipts, events, acked>>

\* What a readback may say, and whether its text and URL match the claim's.
Observed == {"sent", "duplicate_found", "failed", "intervention", "unknown"}
Readback == [result : Observed, exact : BOOLEAN]
Claim == [worker : Sessions, status : {"claimed", "authorized", "completed"}]

ASSUME ClaimAssumption == None \notin Claim

WorkerInit ==
    /\ claims = [i \in ItemKey |-> None]
    /\ receipts = [t \in Tasks |-> None]
    /\ events = {}
    /\ acked = {}

WorkerTypeOK ==
    /\ claims \in [ItemKey -> Claim \cup {None}]
    /\ receipts \in [Tasks -> Fetches \cup {None}]
    /\ events \subseteq Tasks \cup ItemKey
    /\ acked \subseteq Tasks \cup ItemKey

Claimed(i) == claims[i] # None
Open(i) == Claimed(i) /\ claims[i].status # "completed"
Completed(i) == Claimed(i) /\ claims[i].status = "completed"

-----------------------------------------------------------------------------
\* ingest: jobs, receipt and event commit together; stored is what the source
\* rules accept of the request, changed what no longer reads as it was stored.
\* A known task returns its receipt, or refuses other input, and writes nothing.
Ingest(t, fetch, stored, changed) ==
    /\ receipts[t] = None
    /\ stored \subseteq fetch /\ changed \subseteq stored
    /\ \A j \in stored : jobRev[j] = 0 => j \in changed
    /\ \A j \in changed : jobRev[j] < MaxRev
    /\ jobRev' = [j \in Jobs |-> IF j \in changed THEN jobRev[j] + 1 ELSE jobRev[j]]
    /\ receipts' = [receipts EXCEPT ![t] = fetch]
    /\ events' = events \cup {t}
    /\ UNCHANGED <<now, evidenceRev, outreachVars, claims, acked>>

\* _batch: the approval answers the question on record, no later one, and the
\* list, its jobs and its sources still are what was approved.
Releasable(b) ==
    /\ Approved(b)
    /\ asks[b] # None /\ asks[b] <= approvals[b].at
    /\ b \notin withdrawn
    /\ ContentCurrent(b)
    /\ SourcesCurrent(b)

\* Mutant: the contacted jobs are not looked up.
NextItemRepeated(b, p, s, n) ==
    Releasable(b) /\ Released(b, p, HoldsLease(p, s, now), now, n)

\* _next: the item the gate releases to session s, if its job is not contacted yet.
NextItem(b, p, s, n) ==
    /\ Releasable(b)
    /\ Released(b, p, HoldsLease(p, s, now), now, n)
    /\ ~Contacted(ItemOf(<<b, n>>).job)

\* Mutant: an authorized claim no longer counts as unfinished.
PlatformClaimedOnly(p) == \E i \in ItemKey :
    Claimed(i) /\ claims[i].status = "claimed" /\ SiteOf(i) = p

\* One unfinished claim per platform: the SELECT, and the partial unique index.
PlatformClaimed(p) == \E i \in ItemKey : Open(i) /\ SiteOf(i) = p

ClaimGreeting(w, b, p) ==
    /\ ~PlatformClaimed(p)
    /\ \E n \in Numbers :
        /\ NextItem(b, p, w, n) /\ ~Claimed(<<b, n>>)
        /\ claims' = [claims EXCEPT ![<<b, n>>] =
               [worker |-> w, status |-> "claimed"]]
    /\ UNCHANGED <<ledgerVars, receipts, events, acked>>

\* _verify_claim: the gate would still release this very item to this worker.
StillReleased(i) == NextItem(i[1], SiteOf(i), claims[i].worker, i[2])

\* Single use: only a claim that was never authorized.
AuthorizeGreeting(w, i) ==
    /\ Claimed(i) /\ claims[i].worker = w /\ claims[i].status = "claimed"
    /\ StillReleased(i)
    /\ claims' = [claims EXCEPT ![i].status = "authorized"]
    /\ UNCHANGED <<ledgerVars, receipts, events, acked>>

\* Mutant: an authorized send is believed without checking the gate again.
SettledUnverified(i, readback) ==
    CASE readback.result = "unknown" -> "intervention"
      [] readback.result \in CountsAsContact ->
            IF claims[i].status = "authorized" /\ readback.exact
            THEN readback.result ELSE "intervention"
      [] OTHER -> readback.result

\* _readback_result: a send or a duplicate counts only when it was authorized, the
\* text and URL match, and the gate did not change while the worker was out.
Settled(i, readback) ==
    CASE readback.result = "unknown" -> "intervention"
      [] readback.result \in CountsAsContact ->
            IF claims[i].status = "authorized" /\ readback.exact /\ StillReleased(i)
            THEN readback.result ELSE "intervention"
      [] OTHER -> readback.result

\* Mutant: the completion event is left to a later transaction.
RecordGreetingSilently(w, i, readback) ==
    /\ Open(i) /\ claims[i].worker = w
    /\ AppendAudit(i, Settled(i, readback), now)
    /\ claims' = [claims EXCEPT ![i].status = "completed"]
    /\ UNCHANGED <<now, jobRev, evidenceRev, batches, asks, approvals, withdrawn,
                   leases, cards, receipts, events, acked>>

\* Audit, completion and event commit together.  An item that was recorded through
\* the CLI meanwhile refuses the audit row, and with it the whole transaction; a
\* completed claim returns its receipt or refuses another readback.
RecordGreeting(w, i, readback) ==
    /\ Open(i) /\ claims[i].worker = w
    /\ AppendAudit(i, Settled(i, readback), now)
    /\ claims' = [claims EXCEPT ![i].status = "completed"]
    /\ events' = events \cup {i}
    /\ UNCHANGED <<now, jobRev, evidenceRev, batches, asks, approvals, withdrawn,
                   leases, cards, receipts, acked>>

\* The main agent confirms an event it handled; a repeated ack changes nothing.
Acknowledge(e) ==
    /\ e \in events \ acked
    /\ acked' = acked \cup {e}
    /\ UNCHANGED <<ledgerVars, claims, receipts, events>>

-----------------------------------------------------------------------------

WorkerStep(w) ==
    \/ \E b \in BatchId, p \in Platforms : ClaimGreeting(w, b, p)
    \/ \E i \in ItemKey : AuthorizeGreeting(w, i)
    \/ \E i \in ItemKey, readback \in Readback : RecordGreeting(w, i, readback)

FetchStep ==
    \E t \in Tasks, fetch \in Fetches : \E stored \in SUBSET fetch :
        \E changed \in SUBSET stored : Ingest(t, fetch, stored, changed)

AckStep == \E e \in Tasks \cup ItemKey : Acknowledge(e)

=============================================================================
