---- MODULE Backfills ----
(***************************************************************************)
(* Backfills give an adopted row the full job description it came without. *)
(* One is planned from what is missing, and carried out under its own id   *)
(* in commits of their own: the snapshot is attached to the intake of the  *)
(* row, which may bring a pipeline that follows it up to date; the row's   *)
(* pipeline is synchronized; and a link records the snapshot.  An attempt  *)
(* may die between two of them and be made again with the same request.    *)
(* One row is followed; a snapshot is its number, the newest of the job    *)
(* being the one to use, and the evidence of its reading is left out.      *)
(***************************************************************************)
EXTENDS Naturals

CONSTANTS
    Backfillers,  \* processes that attach
    Requests,     \* event ids of backfills
    MaxShots,     \* bound on the snapshots of the job
    MaxMoves,     \* bound on the intake's version
    Idle          \* no process, no request

ASSUME BackfillSorts ==
    /\ MaxShots \in Nat /\ MaxMoves \in Nat
    /\ Idle \notin [snapshot : Nat, version : Nat]

VARIABLES
    kind,      \* what adopted the row: "host" or "pipeline"
    taken,     \* snapshots captured of the job
    intake,    \* [snapshot, version, closed] of the row's intake
    attached,  \* intake_events by request: the snapshot, 0 for none
    follower,  \* the row's pipeline: [snapshot, version, source, live]
    synced,    \* pipeline_requests by request: [snapshot, version]
    plans,     \* requests made: [snapshot, version]
    links,     \* the snapshot a link names, by request, 0 for none
    filling    \* what a process is at

backfillVars == <<kind, taken, intake, attached, follower, synced, plans, links, filling>>

BackfillInit ==
    /\ kind \in {"host", "pipeline"} /\ taken = 0
    /\ intake = [snapshot |-> 0, version |-> 1, closed |-> FALSE]
    /\ follower = [snapshot |-> 0, version |-> 1, source |-> 0, live |-> TRUE]
    /\ attached = [e \in Requests |-> 0] /\ links = [e \in Requests |-> 0]
    /\ synced = [e \in Requests |-> Idle] /\ plans = [e \in Requests |-> Idle]
    /\ filling = [p \in Backfillers |-> Idle]

----
\* The job is read again; others move the intake on, close it, or end the pipeline's round.
CaptureShot ==
    /\ taken < MaxShots /\ taken' = taken + 1
    /\ UNCHANGED <<kind, intake, attached, follower, synced, plans, links, filling>>
MoveIntake ==
    /\ intake.version < MaxMoves /\ ~intake.closed
    /\ \E closes \in BOOLEAN : intake' = [intake EXCEPT !.version = @ + 1, !.closed = closes]
    /\ UNCHANGED <<kind, taken, attached, follower, synced, plans, links, filling>>
EndFollower ==
    /\ follower.live /\ follower' = [follower EXCEPT !.live = FALSE, !.version = @ + 1]
    /\ UNCHANGED <<kind, taken, intake, attached, synced, plans, links, filling>>

\* plan: the host asks for the intake alone, the pipeline that it has the same snapshot.
HostComplete == intake.snapshot # 0 /\ intake.snapshot = taken
PipelineComplete ==
    /\ follower.source # 0 /\ HostComplete /\ ~intake.closed
    /\ follower.snapshot = intake.snapshot

\* A request is made of a row whose full text is missing, for the newest snapshot.
PlanBackfill(e) ==
    /\ plans[e] = Idle /\ taken > 0
    /\ IF kind = "host" THEN ~HostComplete ELSE ~PipelineComplete
    /\ plans' = [plans EXCEPT ![e] = [snapshot |-> taken, version |-> intake.version]]
    /\ UNCHANGED <<kind, taken, intake, attached, follower, synced, links, filling>>

----
AtFilling(p, stage) == filling[p] # Idle /\ filling[p].stage = stage
Fills(p, w) == filling' = [filling EXCEPT ![p] = w]
EventOf(p) == filling[p].event

\* attach: a link that is there is answered again; the host leaves a closed intake to its commit.
AttachBegins(p, e) ==
    /\ filling[p] = Idle /\ plans[e] # Idle /\ links[e] = 0
    /\ kind = "pipeline" => follower.live /\ ~intake.closed
    /\ Fills(p, [event |-> e, stage |-> "begun", expected |-> 0, bound |-> 0])
    /\ UNCHANGED <<kind, taken, intake, attached, follower, synced, plans, links>>

\* attach_snapshot once answers as it did, and otherwise wants the current intake and snapshot.
AttachSnapshot(p) ==
    /\ AtFilling(p, "begun")
    /\ LET e == EventOf(p) IN
       \/ /\ attached[e] # 0
          /\ Fills(p, [filling[p] EXCEPT !.stage = "attached"])
          /\ UNCHANGED <<intake, attached>>
       \/ /\ attached[e] = 0 /\ ~intake.closed
          /\ intake.version = plans[e].version /\ plans[e].snapshot = taken
          /\ intake' = [intake EXCEPT !.snapshot = taken, !.version = @ + 1]
          /\ attached' = [attached EXCEPT ![e] = taken]
          /\ Fills(p, [filling[p] EXCEPT !.stage = "stored"])
    /\ UNCHANGED <<kind, taken, follower, synced, plans, links>>

\* What a synchronization makes of the pipeline: a closed intake or an old snapshot binds none.
Bound == IF ~intake.closed /\ intake.snapshot = taken THEN intake.snapshot ELSE 0
Follows == [follower EXCEPT !.snapshot = Bound, !.version = @ + 1, !.source = intake.version]

\* The intake's own commit brings a pipeline that is bound to it up to date.
HookSyncs(p) ==
    /\ AtFilling(p, "stored")
    /\ follower' = IF follower.source \in {0, intake.version} \/ ~follower.live \/ intake.closed
                   THEN follower ELSE Follows
    /\ Fills(p, [filling[p] EXCEPT !.stage = "attached"])
    /\ UNCHANGED <<kind, taken, intake, attached, synced, plans, links>>

\* The version to expect is the pipeline's, or that of the synchronization made before.
ReadFollower(p) ==
    /\ AtFilling(p, "attached") /\ kind = "pipeline"
    /\ Fills(p, [filling[p] EXCEPT !.stage = "read",
                   !.expected = IF synced[EventOf(p)] = Idle THEN follower.version
                                ELSE synced[EventOf(p)].version - 1])
    /\ UNCHANGED <<kind, taken, intake, attached, follower, synced, plans, links>>

SyncFollower(p) ==
    /\ AtFilling(p, "read")
    /\ LET e == EventOf(p) IN
       \/ /\ synced[e] # Idle
          /\ Fills(p, [filling[p] EXCEPT !.stage = "synced", !.bound = synced[e].snapshot])
          /\ UNCHANGED <<follower, synced>>
       \/ /\ synced[e] = Idle /\ follower.version = filling[p].expected /\ follower.live
          /\ follower.source # 0 \/ ~intake.closed
          /\ follower' = Follows
          /\ synced' = [synced EXCEPT ![e] = [snapshot |-> Bound, version |-> follower'.version]]
          /\ Fills(p, [filling[p] EXCEPT !.stage = "synced", !.bound = Bound])
    /\ UNCHANGED <<kind, taken, intake, attached, plans, links>>

\* Mutant: what was attached is linked whatever the pipeline has.
LinksAttached(p) == TRUE

LinksBound(p) == kind = "pipeline" => filling[p].bound = attached[EventOf(p)]

\* The id of a link is its key.
SaveLink(p) ==
    /\ AtFilling(p, IF kind = "host" THEN "attached" ELSE "synced")
    /\ LinksBound(p) /\ links[EventOf(p)] = 0
    /\ links' = [links EXCEPT ![EventOf(p)] = attached[EventOf(p)]]
    /\ Fills(p, Idle)
    /\ UNCHANGED <<kind, taken, intake, attached, follower, synced, plans>>

\* A refusal or a crash; the commits made stay.
AttachEnds(p) ==
    /\ filling[p] # Idle /\ Fills(p, Idle)
    /\ UNCHANGED <<kind, taken, intake, attached, follower, synced, plans, links>>

BackfillNext ==
    \/ CaptureShot \/ MoveIntake \/ EndFollower
    \/ \E e \in Requests : PlanBackfill(e) \/ \E p \in Backfillers : AttachBegins(p, e)
    \/ \E p \in Backfillers :
          \/ AttachSnapshot(p) \/ HookSyncs(p) \/ ReadFollower(p) \/ SyncFollower(p)
          \/ SaveLink(p) \/ AttachEnds(p)
BackfillSpec == BackfillInit /\ [][BackfillNext]_backfillVars

----
\* A link names the snapshot its own request attached and, for a row of the pipeline, the one its
\* own synchronization bound there: not one that replaced it before a retry, and none at all of a
\* row whose intake was closed or read anew in between (attach).
LinkProven ==
    \A e \in Requests : links[e] # 0 =>
        /\ links[e] = attached[e]
        /\ kind = "pipeline" => synced[e] # Idle /\ synced[e].snapshot = links[e]
====
