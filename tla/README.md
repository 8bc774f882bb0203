# A verification project for jobagent

jobagent (`src/src/jobagent`) is a local job-search agent: command-line tools, a worker
gateway and a decision panel over one SQLite database, driven by AI hosts that are started,
interrupted and restarted at will. Nothing runs permanently: every behaviour is a process that
opens the database, does a few committed statements and exits, and a browser or an MCP server
does the irreversible part outside. What makes it correct is therefore what the database
allows between those processes.

This directory holds TLA+ modules translated from the code, TLC configurations that check them
on small instances, and TLAPS proofs of what matters most. This document is the inventory, the
plan, and the guide to what is checked and proved.

## 1. Inventory

| Component (code) | State it keeps | Operations | Hard behaviour |
|---|---|---|---|
| Outreach ledger and gate (`outreach/service.py`, `storage/outreach_repository.py`, `bridge/greeting_freshness.py`) | batches, asks, approvals, withdrawals, leases, audits | pure rules: drafting, gate, contact, freshness | cap, gap and halt are derived from append-only rows |
| Outreach CLI (`cli/outreach.py`) | none of its own | draft-batch, ask, approve, feedback, withdraw, lease, next, record | each command is several separately committed statements |
| Worker gateway (`bridge/worker.py`, `storage/worker_repository.py`) | receipts, claims, events, acks | ingest, claim, authorize, record, ack | the gate can change while a worker is out; completion is all or nothing |
| Greeting decisions (`bridge/panel_decisions.py`, `storage/feedback_repository.py`, `outreach/feedback.py`) | paged cards, panel operations, feedback links, strategy heads | decide one item, commit, record feedback, save strategy | optimistic revision, repeated requests, two records of one person's answer |
| MCP call ledger (`storage/mcp_repository.py`, `connectors/mcp_gateway.py`, `jobs/mcp_calls.py`) | rounds, batches, calls, deliveries, receipts | start, open, dispatch, finish, close, deliver, reconcile | a crash between dispatch and finish leaves an unresolved outcome |
| Sourcing and query claims (`storage/sourcing_repository.py`, `storage/query_repository.py`) | runs, budgets, query plans, claims | start, reserve, complete, claim, take in | a budget reserved by a run that dies |
| Application delivery (`applications/`, `storage/application_repository.py`) | package, question and approval files, audits | preview, ask, approve, send, audit | overlapping sends; a file edited between approval and upload; a submission that is out when the send dies |
| Conversations (`conversation/service.py`, `storage/conversation_repository.py`, `cli/conversations.py`) | conversations, event logs, asks | open, receive, transition, confirm intent, draft, approve, release, record, attach | the log moves between draft, question, approval and release; two drafters |
| Harness runs (`harness/service.py`, `storage/harness_store.py`) | run files, a lock file | start, resume, checkpoint, release | a lock left by a crash; two sessions on one run |
| Mailbox (`bridge/mailbox.py`) | append-only files, a session table | register, post, notify, acknowledge | ids and registrations read and written without a lock; torn lines |
| Patrol (`patrol/`, `storage/patrol_repository.py`, `cli/patrol.py`) | checks, message lists, receipts | next, record, finish, snapshot, receipts | the decision is read on three connections and stored on another; a list is kept before it is compared |
| Database (`storage/database.py`) | schema version | migrate, transaction | two first runs |
| Adoption of an old queue and its backfills (`storage/host_migration.py`, `pipeline_migration.py`, `host_backfill.py`, `pipeline_backfill.py`) | the database file itself, its backup, the kept bytes of the queue, adoption rows, links | migrate, verify, rollback, attach | a file replaced while others commit; an interrupted adoption tried again; a retried backfill of a row that moved |
| Job intake and strategies (`storage/job_intake_service.py`, `intake_drafting.py`, `intake_strategy.py`) | a row per target, requests, signals, strategies, claims | enqueue, resolve, merge, attach, factorize, draft, review, synchronize; rebuild, activate, claim | late messages, two entries of one job, samples that move under a rebuild |
| Recruiting pipeline (`storage/pipeline_*.py`, `jobs/pipeline.py`) | rounds per candidate and job, their history, used sends | create, advance, observe, sync | evidence read late or used twice; silence against late replies |
| Sent tracking (`jobs/sent_tracking.py`) | records of sends, observations | start, observe, reply | messages filed late, checks missed |
| Host page checks and reports (`storage/host_checks.py`, `host_reports.py`) | page observations, pauses, reports | record, pause, report | a crash after some pauses; reports read while others commit, and observations filed after them |
| Rules (`rules/`, `storage/rule_repository.py`, `configuration_repository.py`; `storage/message_diff_repository.py`, `pipeline_rules.py`) | questions, versions, initialization, rounds; proposals and confirmations | propose, approve, initialize, start a round; diagnose, propose, confirm, review | an answer to a question whose grounds have moved |
| Preference memory and contexts (`bridge/preference_memory.py`, `outreach/preference_memory.py`, `outreach/generation.py`, `memory/service.py`) | one Markdown file, its history, a lock file; snapshots | refresh, request, generate, compile, context | two refreshes of one version; sources read one after the other |
| Job store, candidate evidence, JD knowledge, profile evaluation | their own tables | mostly single-writer imports and scores | none beyond their effect on the parts above |
| Optimizer, reasoning, rendering, parsing, connectors, console, frontend | none durable | text, layout, network and pages | out of a model's scope |

Components meet in three places: the database (every pair of processes), digests (an approval
names the digest of what was read, and later readers compute it again), and asks (an approval
answers a question that was put before).

What makes them correct: a greeting, a reply or an application goes out only if a person
approved that very text; once at most; at the platform's pace; with a result on record whatever
fails in between; and nothing a person decided is lost, revised or answered twice.
`PROJECT.json` lists every component with its status, and under `hazards` the places in the
code where this is hard to test.

## 2. Plan

1. First greetings: `OutreachLedger`, `OutreachCli`, `WorkerGateway`, `GreetingDecisions`,
   composed in `OutreachSystem`, with the abstract `GreetingPromise` and the proofs in
   `OutreachProofs`. **Done**, except as said in sections 3 and 7.
2. Harness runs: `HarnessRuns` with the abstract `HarnessPromise` and `HarnessProofs`. **Done.**
3. Sourcing reads and MCP calls: `SourcingReads`, and over it `McpLedger`, with `McpProofs`. **Done.**
4. The desk: `Conversations`, `Deliveries`, `Mailbox`, `PatrolChecks`, `MessageLists`, `Schema`,
   `Adoption`, `Backfills`, `Preferences`, each on its own, one scene each of `MCDesk`. **Done**, as
   model and run, and all with proofs.
5. The way of a job: `Intakes` with `Strategies` over it, `Pipeline`, `SentTracking`,
   `DynamicRules`, `OwnerRules`, `HostRounds` with `HostReports` over it, one or two scenes each of `MCHiring`. **Done**, as model and
   run, and all with proofs.
6. Proofs. **Done**: first greetings with the refinement of `GreetingPromise`, the panel and one
   host's pace; the harness; the MCP ledger; every scene of the way of a job and of the desk
   (section 6). Every property of a passing run is stated by a theorem but
   `LockGivenUp`; `DeskHistory` and `HiringHistory` conjunct by conjunct, each of its own module.
7. What remains to be modelled: the strategy heads of `save_strategy`, what a conversation makes
   due next, the evaluation of rule expressions, the metrics behind a diagnosis.

The project keeps few runs, one per question, and one grouped invariant per component: a
conjunction of named parts, each stated and explained in its module. Some observations of the
same kind as the counterexample runs of section 4 are kept as hazards with a note instead of a
run: a lease two sessions both take, a claim a CLI record leaves open for good, a greeting lost
with its host that is released again, two panel requests on one item that both commit, a check
that starts early because the one before it finished between two reads, two resolutions of one
job that overlap, and two first drafts of which one loses its digest.

## 3. First greetings: modules and their code

**`OutreachLedger`**: the tables and the pure rules. One variable per table; the clock `now`;
`jobRev` and `evidenceRev` stand for the content of a stored posting and of the candidate's
confirmed evidence. A digest becomes the revisions it covers, so "the digest still matches" is
equality of revisions. `GateOpen`/`Released` are `OutreachService.next_item` (lease, halt, cap,
gap, first remaining item), `ContentCurrent` is `verify_current_batch`, `SourcesCurrent` is
`verify_greeting_sources` (bound items only: a greeting written without a binding keeps the
older path). `AppendAudit` carries `UNIQUE (batch_id, number)`, `WriteLease` the
`INSERT OR REPLACE`. `Tick` and `EditEvidence` are the world.

**`OutreachCli`**: the commands. `cli[s]` is the command session `s` runs and what it has read;
one action per statement that another process can interleave with. `hand[s]` is the item `next`
released to the host behind `s`. `Crash` kills the process and its host at any point.

| Command | Actions |
|---|---|
| draft-batch | `DraftRead` (stored jobs, sources), `DraftBuild` (contacted jobs, `build_batch`), `DraftSave` |
| ask | `AskRead`, `AskSave` |
| approve | `ApproveRead`, `ApproveAnswer`, `ApproveSave` |
| withdraw | `WithdrawRead`, `WithdrawSave` |
| lease, lease --release | `LeaseRead`, `LeaseSave`; `LeaseRelease` |
| next | `NextRead`, `NextLease`, `NextRenew`, `NextRenewSave`, `NextDecide` |
| record | `RecordRead`, `RecordSave` |

Abstractions, each on purpose: the reads of `draft-batch` up to the source check are one step
(the binding a draft carries is taken to be made from what that step reads); a command that is
refused without writing simply is not taken or returns to idle; `record`'s look at the audits is
merged with its insert, which refuses the same thing by the unique key; an approval row is never
removed, so reading it earlier or later is the same; texts, platforms of drafts, evidence
ownership, policies other than the batch's own and the harness version row are left out, being
inputs that are constant for the property at hand. `UNDRAFTED_TIERS` and `low_preference` are
the constant `Undrafted`.

**`WorkerGateway`**: each operation is one `BEGIN IMMEDIATE` transaction and so one action.
`NextItem` is `_next`, `Settled` is `_readback_result`: what the worker says is believed only if
the send was authorized, text and URL match and the gate still releases this very item to this
worker. An already completed claim only returns its receipt, which is no step.

**`GreetingDecisions`**: a panel request reads the open items (`PanelRead`), registers the first
card (`PanelRegister`), reads the card and checks the single item (`PanelPrepare`), and commits
(`PanelCommit`: revision guard, single-item list, question, approval, event, withdrawal of a list
that is fully decided). `PanelGiveUp` is a refusal or a dead process. `Feedback` is
`record_outreach_feedback`.

**`OutreachSystem`** composes them: one `Next`, the invariants, the inductive invariant and the
refinement mapping. **`GreetingPromise`** is what all of it is for, in four actions: a person
approves, a worker takes one greeting out per platform, brings it back, or a session vouches for
a result. **`MCOutreach`** gives constants values and two later starts: `ListedSpec` (lists
drafted and asked) and `ApprovedSpec` (and approved), both reachable from `Spec`, so that a run
spends its states on the question it asks.

### Harness runs

**`HarnessRuns`** is `harness/service.py` over `storage/harness_store.py`: the workflow runs that the
hosts of one workspace share as files. Nothing but the lock file orders the processes, so each
file operation of a command is a step.

| Code | Actions |
|---|---|
| `start` up to the new directory, then `save` | `Start`, then `Lock`, `Write`, `Unlock` |
| `resume`, `checkpoint`, `release` on the command line | `Invoke` |
| `lock`: `os.open` with `O_CREAT` and `O_EXCL`; its refusal | `Lock`; `Locked` |
| `load`, and the conditions of the command | `Read` (`Owned`, `Resumable`, `Admitted`) |
| the loop over saved artifacts in `resume` | `Compare`, one file at a time |
| the new content | `Change` (`Resumed`, `Checkpointed`, `Freed`, `NewRun`) |
| `os.replace` | `Write` |
| an error under the lock; the `finally` | `GiveUp`; `Unlock` |
| the process is killed; a person removes a stale lock; other programs write files; time | `Crash`; `ClearLock`; `Edit`; `Tick` |

Abstractions: reading the file and judging the lease are one step (nobody else can replace the
file under the lock, which `NoLostUpdate` confirms, and the clock is read once); a digest is a
number, 0 for a file that is missing or does not fit its contract; an absent lease is 0; the
candidate, the time stamps and the contract names, which no condition of the four commands
compares across runs, are left out. A directory made by a `start` that died stays without a
`state.json`, as in the code, and no later command can name it.

**`HarnessPromise`** is what hosts rely on: five actions on the stored runs, one step each.
**`MCHarness`** gives the constants values.

### Sourcing reads and MCP calls

**`SourcingReads`** is the ledger of what is read from one source (`storage/sourcing_repository.py`,
`query_repository.py`, `read_repository.py`, `jobs/sourcing.py`). A host reserves every read before
it is made and nothing is refunded; queries and details of a round, captures of the second entry
point, and the MCP calls below draw on the same limits and obey the same stops of the day.

| Code | Actions |
|---|---|
| `start_run`; `reserve`; the captures' `reserve` | `StartRun`; `Reserve`; `ReserveRead` |
| `complete`; the captures' `record` | `Complete`; `RecordRead` |
| `claim` of `jobs search`, and the one request that follows | `Claim` |
| `take_in`, from a command or at the end of `jobs search` | `Take` |
| new rules or a new release; time | `ChangeRules`; `Tick` |

`Permitted` is `refusal_reason`, `Current` is `_configured_request`. `asked` counts what the ledger
cannot see, the requests that really left.

**`McpLedger`** is `storage/mcp_repository.py` with the gateway process around it
(`connectors/mcp_gateway.py`). Each operation of the repository is one transaction and so one
action; what can come between them are the other threads, the other processes, and death.

| Code | Actions |
|---|---|
| `start_round`, `close_round` | `StartRound`, `CloseRound` |
| `open_batch` | `OpenBatch` |
| a worker of the thread pool takes a call and starts the server | `Begin` |
| `mark_dispatched`, with `_activate`, `_budget` and the read it attempts and claims | `Dispatch` |
| the request is written to the server | `Send` |
| `finish`, after or before the dispatch | `Finish`, `FinishUncalled` |
| the process is killed, or its result is refused | `Die` |
| `reconcile`: an unknown result; a call without a result; a call never dispatched | `ReconcileUnknown`; `Recover`; `CloseUncalled` |
| `prepare_delivery`, `record_delivery`, `reconcile_delivery` | `PrepareDelivery`, `RecordDelivery`, `ReconcileDelivery` |

`chain` is the table of activations: a round is bound to the last round of its candidate that was
at work, and is charged the deliveries which that one is known to have made when it was closed.

Abstractions: a configured workspace (the unmetered reads of a workspace without confirmed rules
are left out); one source, the one with deliveries; the contents of a round, call or action are
fixed by its id, another content under an id being refused; the attempts of calls have ids of
their own (`MCP_` in the code), apart from the hosts'; "gate" stands for all stopping results and
"failed" for partial and cancelled; of a detail only whether it stops the source is told apart,
because nothing else depends on it; the selection of listings by front row is left out. The
clock does not step back.

**`MCMcp`** gives the constants their values for the three runs.

### Around the desk

Nine modules that share no state with one another; `MCDesk` gives each a scene of one run. An action is a
committed statement or a file operation; what a command reads first and uses later is kept in a
variable per process, so that others come in between.

| Module | Code and actions |
|---|---|
| `Conversations` | `conversation/service.py` with its CLI. A conversation is its event log, and its stage the fold `StageOf`. `OpenRead`, `OpenSave`, `OpenAppend` are `open`; `Receive`, `Transition`, `AskIntent`, `ConfirmIntent`, `AttachResume`, `ApproveReply`, `RecordReply` are one step each, since appending fails if the log moved; `DraftRead`, `DraftSave` are a draft, which replaces the stored question (`Put`). `GateDecision` is `reply_gate`. |
| `Deliveries` | `applications/`: `Preview`, `AskApplication`, `ApproveApplication`; a send is `SendRead`, `Submit`, `AuditRead`, `AuditWrite`. `EditPackage` and `EditFile` are the host's files changing. |
| `Mailbox` | `bridge/mailbox.py`: a post counts the minute's entries (`PostRead`) and appends (`PostWrite`, or `PostCut` if it dies half way); `Acknowledge`, `Notify`, `RegisterRead`, `RegisterWrite`. |
| `PatrolChecks` | `patrol/schedule.py` and its command: `Decide` is `decide`; `record` reads the last finished check (`RecordRead`) and then the open one (`RecordReadOpen`), decides (`RecordDecide`) and stores (`RecordSave`); `FinishCheck`. |
| `MessageLists` | `patrol/snapshot.py`, `receipts.py`: `SnapshotKeep`, `SnapshotReport`, `ReplayReceipts`; `board` is the site. |
| `Schema` | `Database.migrate`: `MigrateRead` the version once, then `MigrateScript` by script; a script that cannot run twice fails (`MigrateFail`). |
| `Adoption` | `HostQueueMigrator` and `PipelineMigrator` in one, told apart by `KindOf`: `MigrateMap`, `MigrateHash`, `MigrateCopy`, `MigrateBackup`, `MigrateOriginal`, `MigrateVerify`, `MigrateReplace`, and `RollbackRead`, `RollbackCompare`, `RollbackReplace`. `Commit` and `BindTracking` are other commands, `EditQueue` the old host. |
| `Backfills` | `attach` of both backfills: `AttachBegins`, `AttachSnapshot`, `HookSyncs` (what attaching brings about), `ReadFollower`, `SyncFollower`, `SaveLink`. |
| `Preferences` | A refresh is `LoadMemory`, `ReadDecisions`, `Summarize` or `KeepAsIs`, `TakeLock`, `BackUp`, `ReplaceMemory`, `ReleaseLock`; then a search is planned (`PlanSearch`) or a greeting requested and tried twice (`RequestGreeting`, `Attempt`). A context is `CompileMemory`, `CompileStatutes`, `SaveSnapshot`, `CheckMemory`, `CheckStatutes`. |

A digest is what it is taken of; a text is a model value; a version of preferences is the line of
summaries it came from. The environment (recruiters, sites, the person, other programs) does
whatever the commands accept.

### The way of a job

Eight modules, seven scenes of `MCHiring` (`Strategies` extends `Intakes`, `HostReports` extends
`HostRounds`).

| Module | Code and actions |
|---|---|
| `Intakes` | `JobIntakeService` and `intake_drafting.py`. Every command compares versions in the transaction that writes, so it is one action of its name; `resolve` looks for twins first (`ResolveRead`) and then commits or merges (`ResolveCommit`, `Merge`). `Capture`, `Import`, `Contact`, `DraftBatch` and `WithdrawBatch` are the other components at work on the same job. |
| `Strategies` | `intake_strategy.py`: `LearnSynchronized`, `LearnRead` and `Activate` are one rebuild; `Claim` and `RecordSearch` the rounds. |
| `Pipeline` | `pipeline_service.py`, `pipeline_sync.py`, `pipeline_recontact.py`, `pipeline_proofs.py`: `CreateRead` and `CreateCommit`; `Change` is any `advance`, `observe` or `sync` a round accepts on evidence up to `at`, through the operators of `jobs/pipeline.py` that have the code's names; `ReadbackFault`. The facts of a behaviour are one of `Stories`, told in its order. |
| `SentTracking` | `jobs/sent_tracking.py`: one action per kind of observation. |
| `DynamicRules` | `Propose`, `Approve`, `Initialize`, `Acknowledge`, `StartHunt` (a sourcing round freezes a version), `ReserveRead`. |
| `OwnerRules` | `Diagnose`, `ProposeRule`, `Review`, `Confirm` of `pipeline_rules.py`; `ProposeWriting`, `CheckWriting`, `DecideWriting`, `RefuseWriting` of `message_diff_repository.py`. |
| `HostRounds` | `host_checks.py`, one step per connection: `FilePage` or `FileAgain`, `JudgePage` (the pages), `FindRecords` (the authority), `ReadRecord` (the records), `PausePipeline` and `PauseLegacy`, `AnswerPage`. |
| `HostReports` | `host_reports.py`, likewise: `BeginReport` (with the legacy rows without a proof), `ReadSnapshots` (the authority and the requests), `ReadJob`, `ReadMeta` and `CheckHistory` of each pipeline or `ReadTracking` of each tracking, `ReadPages`, `SaveReport`; `BindTracking` of `host_migration.py` proves a legacy row meanwhile. |

Abstractions common to them: a request answered before is answered again from its row and is no
step; the scores, wordings and lexicons are left out; the policy that allows a pipeline command
(`require_pipeline_policy`) is taken as given; times are ticks. Variables that a module marks as
"of the properties only" (`first` and `replaced` of a draft, `stored` and `missed` of a check, `crossed` and `overlapped`
of resolutions, the versions a report begins at) remember what overlapped; no guard reads them.

A report has two sides. Where the pipelines were the authority as the round ended, their share is
told by the snapshots the requests keep, checked against job, metadata and history as they are read
afterwards. Elsewhere it is told by trackings as of the end, and `proof_pending` counts the
legacy rows as of the reading (`host_reports.py:170`), not of the end: a row proved in between is
not counted, and a report made earlier would have counted it. `ProofsTold` says just that.
`RecordsTold` and `PageTold` exempt what was filed after the making began with a time before the end:
a report is not made again for it.

## 4. Runs

Runs that pass:

| Run | Question | Instance |
|---|---|---|
| `OneSession` | Does one host that reports what it sent keep the pace through `lease`, `next`, `record`? | 1 session, 1 list of 2, cap 1, gap 1, lease 2, day 2, clock to 3: two days, expiry, renewal, a crash anywhere, evidence edited once, all five results |
| `Drafting` | Is an approval an answer, and feedback one story with it? | 2 sessions, 3 jobs (one undrafted), a draft list with repeats longer than a batch, an ingest that stores or moves postings, evidence edited |
| `Worker` | Is what workers confirm paced, first, recorded once, exclusive, and complete? Does it all implement the promise? | 2 workers that also run the CLI, 2 lists sharing a job, cap 2, gap 1, lease 1 so that it changes hands |
| `Panel` | Is any decision lost, altered, doubled or left half done? | 2 requests at once, 2 operation keys, 1 list of 2, a CLI `approve` of the same list, evidence edited |
| `Harness` | Is an update lost, does a session write to a run it lost, is a lock ever kept, and does all of it implement the promise? | 2 processes, 2 sessions of 1 host, 2 releases, 1 run with 1 artifact that is edited, lease 1, clock to 1, a crash anywhere, stale locks removed |
| `McpCalls` | Is the source asked once, within the limits and the parallel bound, and is every outcome final, with crashes and reconciliations of calls still at work? | 1 round, 2 batches of 2 and 1 calls (a search, two views), a read of the host, 1 day, the rules changed once |
| `McpDeliveries` | Are deliveries handed out in turn, counted once, and held by a stop? | 1 round, 1 call, 2 deliveries, 1 external identity, 3 ticks over 2 days |
| `McpRounds` | Does the allowance of a round keep to what its predecessor delivered? | 2 rounds of 1 candidate, a call each, both deliveries in the first, 2 external identities, call limit 2, 2 ticks |

| `Desk` | Does each component around the desk keep what it promises (section 3)? | eleven scenes: 1 conversation with 6 events, 2 messages of 5 kinds, 1 drafter, and 2 drafters on its first 2 events; 2 sends of 1 application with 2 attempts and 2 files; 1 poster, 3 entries, 2 minutes; 1 scheduler and at the beginning a second, 3 checks, 8 ticks of which 6 are active; 1 row two conversations fit, 3 lists; 2 commands, 4 scripts, one of which sets the version back; 2 adoptions of either kind and 3 versions of the queue; 2 requests of one backfill, 2 snapshots; 2 learners, 2 decisions, 2 summaries each; 1 reader of a context |
| `Hiring` | Does each component on the way of a job? | seven scenes: 5 occasions of intakes (twins, twins resolved by two at once, a greeting, late messages, a strategy), 2 targets of one job; 3 stories of a pipeline, 2 rounds, evidence late by 1; 2 trackings with 2 sends; 3 questions on 2 variables, one message quoted for a round and for good; 3 proposals, 3 decisions each; 2 pages; 1 report over 1 page, 1 pipeline, 1 tracking, 1 legacy row |

The hazards need few actors: two sessions to race, two lists to share a job or a platform, two
items for "all decided", a clock that passes the end of a lease and (in `OneSession`) of a day,
and one change of evidence. Symmetry is used for the interchangeable sessions of `Worker` and
external identities of `McpRounds` only. `McpCalls` has two batches because an unresolved call
must hold back the next one, a search and a view because only a search has a capture and a
second way to be run, and a host's read because the limits are shared. `McpDeliveries` leaves
one tick within the day and one beyond it, so that an observation is late, and made on another
day than the delivery. `McpRounds` needs both deliveries in the first round, so that the debit
can be none, a part that leaves the next round its call, or the whole limit, after which it has
none. A run with every part at once has too many states to finish; the parts meet in
`Permitted`, the stops and `chain`, which are in each run.

In `Desk` and `Hiring` a behaviour stays in its scene, so their states add up instead of multiplying,
and each scene has the bounds its own hazards need. In "mail" three entries are a torn line with
one before and one after it; in "checks" the third check is the first whose predecessor was paced
by another; in "lists" a complete list, a partial one and a complete one; in "talks" six events are
opened, received, drafted reply approved, a second message, and an outcome; in "lists" a listed
row has two words at most, enough for a change and the same text again; in "schema" four
scripts with one rebuild in the middle are what two commands can interleave on; in "learning" two
summaries of two learners are a race and the version after it. In "intakes" each occasion has just
the messages that make it; in "pipeline" the second round is a recontact; in "rules" three
questions are two on one variable and one on the other. Two sessions draft, two schedulers wake and
two processes resolve where their overlap matters, in scenes or occasions of their own. Mail has one
poster, which is what the documents speak of, and one process adopts.

Three guards of `MCDesk` leave out interleavings that no property can tell apart: once the last
send has begun only the file still changes, since a submission carries its package and approval
with it; after the last list is kept the board is still; and registrations, which have a file
nothing else reads, are explored apart from posts.

Deadlock is not checked: the clock and the ids are bounded, and a ledger where everything has a
result really has nothing left to do. In `Harness` one tick is enough for a lease to end while a
process that read it as active is still on its way to the write, and two processes are enough
for a lock to be contended, abandoned and removed.

Runs that find a counterexample, each to a sentence of the repository:

| Run | The sentence | What happens |
|---|---|---|
| `WithdrawRace` | migration 9: a withdrawn batch "can no longer be approved or sent" | `approve` and `withdraw` check each other before either writes; `next` never looks at withdrawals |
| `LateMessage` | muse-manual-intake-2026-10-28.md: the next `synchronize` records an interest that is missing | an attachment's event is named after its signal, so taking the same interest away and attaching it a second time is refused, and so is every `synchronize` after it |

`WithdrawRace` needs a person and a host to act within the same moment. The worker gateway's gate refuses the withdrawn list, the proof below covers it, and what is
released wrongly goes through the CLI's `next` only.

## 5. Fairness

`LockGivenUp` of `HarnessRuns` is the one liveness property: a lock that a living process holds
is given up. It assumes weak fairness of each process's own next step (`FairSpec`), that is, that
the operating system keeps running a process that has started; the code between the creation of
the lock and the `finally` waits for nothing. Nothing is assumed of who starts commands, of a
person who removes stale locks, of other programs, or of the clock. A crash ends the holding as
well, in a lock that is abandoned: the code leaves removing it to a person, and no property says
that it happens.

For sourcing reads and MCP calls no fairness is assumed either: a call that is not finished waits
for a person, by design. One stop is for good: after a delivery that failed without a positive
readback, or ended in a gate, `prepare_delivery` hands the candidate nothing more on that source,
and no command lifts it.

For first greetings no fairness is assumed and no liveness stated yet: the code starts nothing
by itself, hosts are free to stop, and a person need not answer. What must not happen is
checked; what must happen needs assumptions on hosts and on persons that nothing in the code
justifies. The same holds of the desk and of the way of a job: every command there ends in a few
statements or dies, and the next one is somebody's decision. Where a state can be left by nobody
(a lock file of a refresh that died, a claim of a dead worker), `PROJECT.json` lists it as a
hazard.

## 6. Proofs

`OutreachProofs` proves for every set of sessions, workers, platforms, jobs, lists, handlers and
keys, and every cap, gap, lease and day length, from the named assumptions of the modules
(constants have the sorts their comments say, and `None` is no value of a table):

`Safety == Spec => []SafetyInvariant`, and from it `TypeCorrect`, `ResultsFinal`
(`OneResultPerItem`), `ClaimsExclusive` (`OneOpenClaim`), `CompletionAtomic`
(`CompletionTogether`), `ConfirmedPace` (`ConfirmedSendsPaced`), `ConfirmedFirst`
(`ConfirmedSendsFirst`), `ApprovalsAnswer` (`ApprovalAnswersQuestion`), and the action property
`NothingUndone` (no step edits a stored list, revokes an approval or forgets a question).

Why the invariant is what it is. "An item has one result" needs that rows are about approved
items, and a session at `record_save` carries an item it read as approved, so `AnswerSound` says
what is carried stays true. For that, an approved item must stay the item it was: lists are
never edited, because a batch id is written only while unknown (`DraftApart` for two sessions
that draft, `Batches \cap Children = {}` for the panel). That a confirmed send kept the pace is
a statement about the rows before it; `RowsFaithful` says a row's job and platform are those of
its item, so the gate that looks at the item's platform and the rows of that platform speak of
the same thing; `ClaimsApproved` and `OneOpenClaim` carry the claim from the transaction that
made it to the one that settles it. `Frozen` is the two-state core: no list edited, no approval
revoked, no question forgotten. It is proved once for all actions (`FrozenStep`), and every other
step lemma then handles only the actions that touch its own tables (`LedgerSteps` reduces the
whole next-state relation to five cases for the audits and claims).

The clause that does the work in `ConfirmedStep` is that `record_greeting` runs the full gate
again in the very transaction that writes the row (`GateIsPace`); without it the mutant
`SettledUnverified` breaks the property in the run `Worker`.

`GreetingProofs` builds on it, with one more assumption, `PairAssumption` (`None` is no pair of an
item and a job).

- `GreetingsPromised == Spec => PromiseKept` is the refinement the run `Worker` checks: every step of
  sessions, workers and panel is a step of `GreetingPromise` or leaves its picture as it is. Beyond
  `SafetyInvariant` it needs `StampsPast`: the time a session is about to write down is not ahead
  of the clock, or its row could count against a day the promise has not reached.
- `DecisionsLast` (`DecisionsStand`) and `SignalsLast` (`FeedbackKept`). The invariant adds what a
  panel request still knows after others have moved (`ReadsHold`): the revision it read is not
  ahead of the card's, and while it is equal nothing of the card has changed. So the guard at the
  commit is what makes a decision count once, and what two requests read counts for nothing.
- `OneHostPaced == ASSUME OneHost PROVE Spec => []SendsPaced`, where `OneHost` is the instance of the
  run `OneSession`: one session, no workers, and a host that reports what it sent. `HandAllowed` and
  `ReportAllowed` say that what was released was allowed at the moment of the decision and still is
  until its row is written, because in between no other row appears and time only widens a gap.
  It speaks of recorded sends: a greeting that is sent and then lost with its host has no row, and
  the gate, which counts rows, does not know of it. With two sessions it does not hold (see the
  lease among the hazards).

`HarnessProofs` proves, for every set of processes, sessions, hosts, runs, files, phases and
releases and every length of a lease, `HarnessSafety == Spec => []Safe`, and from it
`HarnessTypes` (`TypeOK`), `NothingLost` (`NoLostUpdate`), `OwnersOnly` (`OwnerWrites`) and
`PromiseImplemented == Spec => RunsKeepPromise`, the refinement itself.

The argument: a process that is inside stands behind its own lock file (`LocksHeld`; a file is
removed only by the process that made it, or by a person once that process is dead), so two
processes are never inside for one run, and what one has read is what is stored
(`NoLostUpdate`). A command admitted at the reading stays justified although the clock moves on
until it writes, because its grounds are kept in a form that time cannot undo (`Grounds`: the
session and the host, or an expired lease, never "not yet expired"). `DraftsFit` says that what
is about to be written is the command's own change of what was read, which together make `Write`
one of the promise's actions. `StartsApart` is the same for `start`, which checks no file but
owns the directory it made.

`McpProofs` proves `ReadsKept`, `CallsKept`, `DeliveriesKept` and `RoundsKept` (the four invariants of the
runs `McpCalls`, `McpDeliveries` and `McpRounds`) and the action properties `StopsHold`
(`StopRespected`) and `RecordsStand` (`CallsStand`), for any number of rounds, batches, calls and
deliveries and all limits. The invariants hold each other up, so there is one induction. Its
strengthening says what the rows of one table prove about another: what was never attempted has
no outcome, and what was never dispatched was not asked of the source (`ReadsTold`, `CallsTold`,
`AskedBy`); a call that is out although its result is on record had been taken for dead, which
stopped its day (`CallsTold`); of two batches of a round one is resolved (`BatchesInTurn`); whatever
stops a day is among the halts (`HaltsTold`); each action is handed out once and observed after
that (`HandoffsTold`); and a round is activated once, after a predecessor that is closed
(`ChainTold`). `LastTold` says that the lists searched for a newest row have one. Counting against
a limit is arithmetic on cardinalities of finite sets, from the library's theorems.

Around the desk and on the way of a job each module is proved on its own, for every value of its
constants and whatever its environment does.

- `TalkProofs`: `RepliesSound` (`TalksSound`). The log is append-only, so the invariant is about rows:
  `Logged` says each row fits the rows before it. An approval is the last one with neither approval
  nor outcome in between, which is what "once per approval" needs to be inductive; what is asked
  and drafted refers to rows that are there (`AskedOfPresent`, `DraftedOfPresent`). That an edit shows
  (`EditStaysVisible`) is `EditsTold`: a session that read a question carries the first draft's digest
  of its line, or it read the point before anything was put; and of two such first drafts the
  question forgets which came first, the one case in which the code loses a digest.
  In the same module `PatrolsPaced` (`PatrolPaced`), for any number of schedulers: a process that
  read nobody else's check and missed no finish decides from the newest row. What it has read fits the
  rows as long as no other check was stored (`ReadsFit`): the newest is the open one it read, the one
  it missed, or the last finished one. What a late reading misses is one check
  (`MissedFinished`). Of two checks recorded one after the other, the last finished one it read is no older than the
  first, or the second kept its own pace; so two in a row never start early (`EarlyOnce`);
  `NewsReported` (`ListsTold`) and `StatusesAttributed` (`NeverGuessed`),
  carried by "what one complete list has and the complete one before it had not was told, once
  the later is done" (`MissedNone`); `EntriesKept` (`MailKept`, `ASSUME OnePoster`), where ids of a minute are no higher
  than the readable entries of it, so that the next count is new, torn lines or not.
- `DeskProofs`: `ScriptsNeverSkipped` (`ScriptsInOrder`). Every script before the one a process goes
  on to has run (`TargetsReached`), although another process may have set the version back in
  between: a process reads the version once, and everything up to it had been run at that moment.
  `LinksNeverGuessed` (`LinkProven`). A request is attached once and synchronized once, so what a
  process past the synchronization carries (`CarriesBound`) is what the tables say of its request,
  whoever runs the same request meanwhile and wherever it died. `ApprovedArrives`
  (`DeliveriesApproved`) and `AuditsNeverReplaced` (`AuditsStand`). A send carries package and
  approval together (`CarriesApproved`), so edits after its reading change nothing of what it
  submits; audits that say "sent", with those about to, are counted against what arrived
  (`Counted`), which a crash can only lower; and overlapping sends that read one attempt number
  cannot both write it (`Numbered`).
  `PreferencesKept` (`PreferencesLearned`) and `PreferencesNamed` (`PreferencesUsed`). What the file has
  been is one line of versions, and every earlier one is in the history (`FileSound`). Only who holds
  the lock saves (`LockHeld`), and between its backup and its replacement the file is still the
  one it has read, or it had refused (`LearningSound`), so a save goes on where the file ends. A context
  reads file and rules one after the other; what it has read was so together, or the file has grown
  since (`TogetherOrPast`), and then its check finds it out. The line never comes back to what it was,
  which is why comparing it once more is enough, whatever the rules do.
  `BytesKept` (`SourceKept`), for any number of processes that adopt: what is kept of the queue under
  an id lies between the version that was hashed and the present one (`MoveSourced`), so if the queue is
  still what was hashed at the end, all three are one. `AdoptionsSafe` (`AdoptionSound`,
  `ASSUME OneMover`). The copy never has more than the database (`Within`), and when its digest is the
  baseline again it lacks nothing; every run names an end which its backup lacks only the run's own
  rows of (`RunSound`), so a rollback that finds the database at that end takes away nothing else.
  That the backup may be older, left by an interrupted adoption, is what
  the comparison with the baseline is for: `BackupAny` in its place breaks the invariant.
- `HiringProofs`, five parts. `OneRuleInForce` (`OwnerHeard`). Every proposal names the origin of its
  line (`LineSound`). An acceptance compares the rules in force with those the proposal was made
  under, so what it takes out is the one rule of its line in force, and what it puts in is alone
  there. That one measurement undoes a rule once is `TakenSound`: the undoing that was taken moved
  the rule past the decision its evidence was measured under.
  `AnswersUsedOnce` (`RulesAnswered`). `SpentRecorded`: every answer in use has its row of spent
  messages, so a message quoted again for the same variable is found there. `OnlyTheOwnerReopens`
  (`ReopenedByOwner`) follows from the same rows: the check at the answer is made again, not only at
  the question.
  `RecordsTrue` (`TracksTrue`) and `ChecksNeverCompressed` (`ChecksNotCompressed`). A record is sound at
  the time of its last event, not at the present: `SoundAt` relates each field to the messages
  recorded by then (`HeardLast`, `ReplyOfRound`, `QuietFor`), and planned checks to the last one that
  took place (`PlannedLate`). A message recorded late is not yet known at that time, which is why
  the property speaks of what the record could know.
  `RoundsProven` (`PipelineSound`) and `SendsOnRecordStand` (`SentStands`). What makes it inductive: a
  round without a verified send has heard nothing and has no proof (`Proven`), so the send that
  proves it comes before all it hears; every proof in a row is in the table of used sends
  (`RefsUsed`), so a fresh one differs from all others (`ProofsApart`); the last time of the history
  is not after the row's (`PathSound`), so evidence not older than the row keeps the history in
  order; and a reply is bound in a later round only (`BoundCurrent`), so the send found through the
  binding is of its own round (`Recontacted`).
  `PausesAndReportsStand` (`RoundsReported`). A filing pauses one record after the other and may die
  or be overtaken at each; `PausedFor` says what a record has behind it once the filing has passed
  it, and `JudgeSound` what a filing that goes on still knows, though it reads pages, authority and
  records one by one. A report that is being made is told by what it has read (`TellSound`): each
  number is the version of its record as of the end, or something of before the end was filed
  since the making began (`ShareSound`), a verdict is that of the history as it was read
  (`CheckSound`), and the side it took was the right one or the authority was taken meanwhile. These
  survive every commit of others because histories only grow (`OthersGo`), so what was true as a
  number was read is still true of the report that is inserted, and ever after.
- `IntakeProofs`: `IntakesStand` (`IntakesSound`), `PlansNamedAreTrue` (`PlanTrue`), `ClosedRowsStand`
  (`ClosedRowsStay`) and `ClaimsAreOfNow` (`ClaimsOfNow`), for any number of processes. One invariant on
  a row, `RowAgrees`, is kept by every change of it; each command has a lemma about the row alone,
  and one about the table. What makes the plan true is `PlansSound`: what a rebuild has read is the
  plan of the sources it has read (`SampledBy`), so comparing the sources at the activation compares
  the plan. `ResolvingSound` says what a merge relies on: the two rows it read were open, and it
  writes only if they are as they were, so no request is lost between them (`RequestsSound`). For
  `OneRowPerJob` it is added that who found no other row of the job is still right when it
  writes but for rows resolved to that job since it looked, which are just what `crossed`
  remembers, as no other command gives a row a listing (`ListingsStay`). Two processes that
  resolve two entries of one job at once both find none and both write, and the code does not
  compare again: such pairs, and no others, are `overlapped`.

Two assumptions on who is at work are left, `OnePoster` and `OneMover`, the instances of `Desk`. The
documents speak of one thread that posts. The migrations ask that all writers of the database be stopped
(`host_migration.py:242`, `pipeline_migration.py:255`), but look for journal files only: `OneMover`
supposes of this that no second migration runs, and lets the other commands go on. With two of them at
once TLC finds adoptions that one replaces under the other. Beyond these and the
sorts of constants nothing else is assumed. That bounded sets of numbers have a greatest and a
least member, which minutes, deadlines and versions need, is derived from the library's
well-ordering of the naturals (`LessWellFounded`, `MaxIs`, `MinIs`).

Only model-checked: `LockGivenUp`, since liveness and ENABLED are out of the prover's reach. The
violations of section 4 are TLC's.

## 7. Not modelled

Of first greetings: `save_strategy` and the conversion of sourcing feedback; the read-only
commands; text and wording; clock steps backwards; loss of the database file. Of conversations:
what is due next, and the reading of a whole page of messages. Of intakes and strategies: scores,
lexicons and the derivation of queries. Of a host's round report: the share of sourcing and of the
intakes (`host_reports.py:57-169`, `221-263`), and rows or records made while it is being put together. Of the pipeline: metrics, and the policy behind a command.
Of rules: the evaluation of an expression. Whole components with the reason in `PROJECT.json`: the
job store and its scoring, artifacts, candidate interviews, JD knowledge, profile evaluation,
optimizer and rendering, connectors, console. Sites, browsers and the person are the environment:
they may do anything the code's inputs allow. Files of the host are lost or edited where a module
says so (`Edit`, `EditPackage`, `EditFile`, `EditQueue`), and otherwise written whole.
