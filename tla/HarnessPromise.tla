---- MODULE HarnessPromise ----
(***************************************************************************)
(* What the hosts of a workspace rely on: a run changes in one step at a   *)
(* time, and only in these ways.  An active lease is not taken by another  *)
(* session, a terminal run is not reopened, a bound artifact is not        *)
(* forgotten, and a run keeps the release it was started with.             *)
(***************************************************************************)
EXTENDS Naturals

CONSTANTS Sessions, Hosts, Runs, Paths, Phases, Terminal, Runtimes, LeaseTicks, MaxDigest,
          None

VARIABLES now, state

\* A lease that ends no later than a full one taken now.
Lease == 1 .. (now + LeaseTicks)

Begin(r) ==
    /\ state[r] = None
    /\ \E rt \in Runtimes, h \in Hosts, s \in Sessions, l \in Lease :
        state' = [state EXCEPT ![r] =
            [runtime |-> rt, host |-> h, phase |-> "new", session |-> s, lease |-> l,
             artifacts |-> [f \in Paths |-> 0]]]
    /\ UNCHANGED now

\* The run with another holder, and the run with another phase and a bound artifact.
Taken(run, h, s, l) == [run EXCEPT !.host = h, !.session = s, !.lease = l]

Marked(run, ph, l, f, d) ==
    [run EXCEPT !.phase = ph, !.lease = l,
                !.artifacts = [g \in Paths |-> IF g = f THEN d ELSE @[g]]]

\* Free, expired, or renewed by the very session and host that hold it.
Resume(r) ==
    /\ state[r] # None
    /\ state[r].phase \notin Terminal
    /\ \E h \in Hosts, s \in Sessions, l \in Lease :
        /\ \/ state[r].session = None
           \/ state[r].lease <= now
           \/ state[r].session = s /\ state[r].host = h
        /\ state' = [state EXCEPT ![r] = Taken(@, h, s, l)]
    /\ UNCHANGED now

\* One artifact more or renewed, at most; none is dropped.
Checkpoint(r) ==
    /\ state[r] # None
    /\ state[r].phase \notin Terminal
    /\ state[r].session # None
    /\ \E ph \in Phases, l \in Lease, f \in Paths \cup {None}, d \in 1 .. MaxDigest :
        state' = [state EXCEPT ![r] = Marked(@, ph, l, f, d)]
    /\ UNCHANGED now

Release(r) ==
    /\ state[r] # None
    /\ state[r].session # None
    /\ state' = [state EXCEPT ![r] = [@ EXCEPT !.session = None, !.lease = 0]]
    /\ UNCHANGED now

Pass == now' = now + 1 /\ UNCHANGED state

Init == now = 0 /\ state = [r \in Runs |-> None]

Next == Pass \/ \E r \in Runs : Begin(r) \/ Resume(r) \/ Checkpoint(r) \/ Release(r)

Spec == Init /\ [][Next]_<<now, state>>
====
