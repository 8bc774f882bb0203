---- MODULE HarnessRuns ----
(***************************************************************************)
(* Workflow runs shared by the hosts of one workspace.  A run is a file    *)
(* state.json in a directory of its own; every change of it is one command *)
(* line process that creates state.lock (O_EXCL), reads the file, checks   *)
(* the lease, and replaces the file.  A process that dies leaves its lock. *)
(*                                                                         *)
(* The model keeps each file operation of a process as a step of its own.  *)
(* A digest of an artifact is a number, 0 for a file that is missing or    *)
(* does not fit its contract; a session of None with lease 0 is a released *)
(* run.  Bounds: MaxNow on the clock, MaxDigest on the contents of a file. *)
(***************************************************************************)
EXTENDS Naturals, FiniteSets

CONSTANTS
    Procs,        \* command line processes
    Sessions,     \* session ids of the hosts
    Hosts,        \* codex, claude-code
    Runs,         \* run ids
    Paths,        \* files of the workspace that a run may bind
    Phases,       \* the phases of a run, "new" among them
    Terminal,     \* completed, cancelled, failed
    Runtimes,     \* fingerprints of the installed releases
    LeaseTicks,   \* lease_seconds
    MaxNow,       \* bound: last tick of the clock
    MaxDigest,    \* bound: contents a bound file may have
    None,
    Abandoned     \* a lock file whose owner is dead

ASSUME HarnessSorts ==
    /\ "new" \in Phases /\ Terminal \subseteq Phases \ {"new"}
    /\ None \notin Procs \cup Sessions \cup Paths
    /\ Abandoned \notin Procs \cup {None}
    /\ LeaseTicks \in Nat \ {0} /\ MaxNow \in Nat /\ MaxDigest \in Nat \ {0}

VARIABLES
    now,      \* the clock of the machine
    files,    \* files[f]: digest of file f, 0 when unreadable or invalid
    made,     \* run directories that exist
    state,    \* state[r]: state.json of run r, None before the first write
    lock,     \* lock[r]: who created state.lock, None when there is no such file
    pc,       \* pc[p]: where process p is in its command
    job,      \* job[p]: the command line of p, None when it runs none
    copy,     \* copy[p]: the run as p has read it
    draft,    \* draft[p]: the run as p will write it
    left      \* left[p]: saved artifacts that p has still to compare

procVars == <<pc, job, copy, draft, left>>
vars == <<now, files, made, state, lock, procVars>>

----
Digests == 0 .. MaxDigest

HarnessRun == [runtime : Runtimes, host : Hosts, phase : Phases,
               session : Sessions \cup {None}, lease : 0 .. (MaxNow + LeaseTicks),
               artifacts : [Paths -> Digests]]

Starts == [cmd : {"start"}, run : Runs, session : Sessions, host : Hosts, runtime : Runtimes]
Resumes == [cmd : {"resume"}, run : Runs, session : Sessions, host : Hosts,
            recover : BOOLEAN, runtime : Runtimes]
Checkpoints == [cmd : {"checkpoint"}, run : Runs, session : Sessions, phase : Phases,
                artifact : Paths \cup {None}, runtime : Runtimes]
Releases == [cmd : {"release"}, run : Runs, session : Sessions, runtime : Runtimes]
Commands == Resumes \cup Checkpoints \cup Releases

ASSUME HarnessNone == None \notin HarnessRun \cup Starts \cup Commands

Init ==
    /\ now = 0
    /\ files = [f \in Paths |-> 1]
    /\ made = {}
    /\ state = [r \in Runs |-> None]
    /\ lock = [r \in Runs |-> None]
    /\ pc = [p \in Procs |-> "idle"]
    /\ job = [p \in Procs |-> None]
    /\ copy = [p \in Procs |-> None]
    /\ draft = [p \in Procs |-> None]
    /\ left = [p \in Procs |-> {}]

----
(* What the service decides from a run and a command. *)

\* The artifacts a run has bound.
Bound(run) == {f \in Paths : run.artifacts[f] # 0}

\* The run that start creates.
NewRun(j, until) ==
    [runtime |-> j.runtime, host |-> j.host, phase |-> "new", session |-> j.session,
     lease |-> until, artifacts |-> [f \in Paths |-> 0]]

\* Mutant: any session may go on with a run whose lease is active.
OwnedByAnyone(run, j) == run.runtime = j.runtime /\ run.lease > now

\* _owned: same release, same session, lease not expired.
Owned(run, j) ==
    /\ run.runtime = j.runtime
    /\ run.session = j.session
    /\ run.lease > now

\* Mutant: --recover also takes an active lease.
ResumableByForce(run, j) ==
    /\ run.runtime = j.runtime
    /\ run.phase \notin Terminal
    /\ \/ run.session = None
       \/ j.recover
       \/ run.session = j.session /\ run.host = j.host

\* resume's conditions: a released run is free, an expired lease needs --recover,
\* an active one belongs to its host and session.
Resumable(run, j) ==
    /\ run.runtime = j.runtime
    /\ run.phase \notin Terminal
    /\ \/ run.session = None
       \/ run.lease <= now /\ j.recover
       \/ run.lease > now /\ run.session = j.session /\ run.host = j.host

Admitted(run, j) ==
    \/ j.cmd = "resume" /\ Resumable(run, j)
    \/ j.cmd = "checkpoint" /\ Owned(run, j) /\ run.phase \notin Terminal
    \/ j.cmd = "release" /\ Owned(run, j)

\* The run a command writes, with a lease until the given time; digest is that of the
\* artifact a checkpoint names, if it names one.
Resumed(run, j, until) ==
    [run EXCEPT !.host = j.host, !.session = j.session, !.lease = until]

Checkpointed(run, j, until, digest) ==
    [run EXCEPT !.phase = j.phase, !.lease = until,
                !.artifacts = [f \in Paths |-> IF f = j.artifact THEN digest ELSE @[f]]]

Freed(run) == [run EXCEPT !.session = None, !.lease = 0]

----
(* A command, step by step. *)

\* start creates the directory of a new run and takes the clock before it locks.
Start(p) ==
    /\ pc[p] = "idle"
    /\ \E j \in Starts :
        /\ j.run \notin made
        /\ made' = made \cup {j.run}
        /\ job' = [job EXCEPT ![p] = j]
        /\ draft' = [draft EXCEPT ![p] = NewRun(j, now + LeaseTicks)]
    /\ pc' = [pc EXCEPT ![p] = "lock"]
    /\ UNCHANGED <<now, files, state, lock, copy, left>>

\* Any other command names a run that some start has written.
Invoke(p) ==
    /\ pc[p] = "idle"
    /\ \E j \in Commands :
        /\ state[j.run] # None
        /\ job' = [job EXCEPT ![p] = j]
    /\ pc' = [pc EXCEPT ![p] = "lock"]
    /\ UNCHANGED <<now, files, made, state, lock, copy, draft, left>>

\* Mutant: the lock file is opened without O_EXCL.
LockShared(p) ==
    /\ pc[p] = "lock"
    /\ lock' = [lock EXCEPT ![job[p].run] = p]
    /\ pc' = [pc EXCEPT ![p] = IF job[p].cmd = "start" THEN "write" ELSE "read"]
    /\ UNCHANGED <<now, files, made, state, job, copy, draft, left>>

\* os.open with O_CREAT | O_EXCL.
Lock(p) ==
    /\ pc[p] = "lock"
    /\ lock[job[p].run] = None
    /\ lock' = [lock EXCEPT ![job[p].run] = p]
    /\ pc' = [pc EXCEPT ![p] = IF job[p].cmd = "start" THEN "write" ELSE "read"]
    /\ UNCHANGED <<now, files, made, state, job, copy, draft, left>>

\* What was read and put together is not used any more.
Forget(p) ==
    /\ copy' = [copy EXCEPT ![p] = None]
    /\ draft' = [draft EXCEPT ![p] = None]
    /\ left' = [left EXCEPT ![p] = {}]

\* The next command of the slot is a new process.
Exit(p) ==
    /\ pc' = [pc EXCEPT ![p] = "idle"]
    /\ job' = [job EXCEPT ![p] = None]
    /\ Forget(p)

\* "Run state is locked; investigate the owner."
Locked(p) ==
    /\ pc[p] = "lock"
    /\ lock[job[p].run] # None
    /\ Exit(p)
    /\ UNCHANGED <<now, files, made, state, lock>>

\* Read the file and check the lease; a refusal is GiveUp.
Read(p) ==
    /\ pc[p] = "read"
    /\ Admitted(state[job[p].run], job[p])
    /\ copy' = [copy EXCEPT ![p] = state[job[p].run]]
    /\ left' = [left EXCEPT ![p] =
                  IF job[p].cmd = "resume" THEN Bound(state[job[p].run]) ELSE {}]
    /\ pc' = [pc EXCEPT ![p] = "compare"]
    /\ UNCHANGED <<now, files, made, state, lock, job, draft>>

\* resume reads the saved artifacts one by one; a changed one is GiveUp.
Compare(p) ==
    /\ pc[p] = "compare"
    /\ \E f \in left[p] :
        /\ files[f] = copy[p].artifacts[f]
        /\ left' = [left EXCEPT ![p] = @ \ {f}]
    /\ UNCHANGED <<now, files, made, state, lock, pc, job, copy, draft>>

\* The new content is put together in memory.
Change(p) ==
    /\ pc[p] = "compare"
    /\ left[p] = {}
    /\ \/ /\ job[p].cmd = "resume"
          /\ draft' = [draft EXCEPT ![p] = Resumed(copy[p], job[p], now + LeaseTicks)]
       \/ /\ job[p].cmd = "checkpoint"
          /\ \E d \in Digests \ {0} :
              /\ job[p].artifact # None => files[job[p].artifact] = d
              /\ draft' = [draft EXCEPT ![p] =
                               Checkpointed(copy[p], job[p], now + LeaseTicks, d)]
       \/ job[p].cmd = "release" /\ draft' = [draft EXCEPT ![p] = Freed(copy[p])]
    /\ pc' = [pc EXCEPT ![p] = "write"]
    /\ UNCHANGED <<now, files, made, state, lock, job, copy, left>>

\* os.replace.
Write(p) ==
    /\ pc[p] = "write"
    /\ state' = [state EXCEPT ![job[p].run] = draft[p]]
    /\ pc' = [pc EXCEPT ![p] = "unlock"]
    /\ Forget(p)
    /\ UNCHANGED <<now, files, made, lock, job>>

\* Mutant: an error leaves the command without passing the finally.
GiveUpLocked(p) ==
    /\ pc[p] \in {"read", "compare", "write"}
    /\ Exit(p)
    /\ UNCHANGED <<now, files, made, state, lock>>

\* An error under the lock, of the service or of the file system, ends in the finally.
GiveUp(p) ==
    /\ pc[p] \in {"read", "compare", "write"}
    /\ pc' = [pc EXCEPT ![p] = "unlock"]
    /\ Forget(p)
    /\ UNCHANGED <<now, files, made, state, lock, job>>

\* path.unlink() in the finally.
Unlock(p) ==
    /\ pc[p] = "unlock"
    /\ lock' = [lock EXCEPT ![job[p].run] = None]
    /\ Exit(p)
    /\ UNCHANGED <<now, files, made, state>>

----
(* The world. *)

\* The process is killed; the lock file it has created stays.
Crash(p) ==
    /\ pc[p] # "idle"
    /\ lock' = [r \in Runs |-> IF lock[r] = p THEN Abandoned ELSE lock[r]]
    /\ Exit(p)
    /\ UNCHANGED <<now, files, made, state>>

\* A person has confirmed that no writer is left and removes the file by hand.
ClearLock(r) ==
    /\ lock[r] = Abandoned
    /\ lock' = [lock EXCEPT ![r] = None]
    /\ UNCHANGED <<now, files, made, state, procVars>>

\* A host, an editor or a person rewrites, spoils or deletes a file.
Edit(f) ==
    /\ \E d \in Digests \ {files[f]} : files' = [files EXCEPT ![f] = d]
    /\ UNCHANGED <<now, made, state, lock, procVars>>

Tick ==
    /\ now < MaxNow
    /\ now' = now + 1
    /\ UNCHANGED <<files, made, state, lock, procVars>>

----
\* What a running process does next; the operating system keeps it running.
Step(p) ==
    \/ Lock(p) \/ Locked(p) \/ Read(p) \/ Compare(p) \/ Change(p)
    \/ Write(p) \/ GiveUp(p) \/ Unlock(p)

Next ==
    \/ \E p \in Procs : Start(p) \/ Invoke(p) \/ Step(p) \/ Crash(p)
    \/ \E r \in Runs : ClearLock(r)
    \/ \E f \in Paths : Edit(f)
    \/ Tick

Spec == Init /\ [][Next]_vars

FairSpec == Spec /\ \A p \in Procs : WF_vars(Step(p))

----
(* Properties. *)

\* Under the lock: from its creation to its removal.
Inside(p) == pc[p] \in {"read", "compare", "write", "unlock"}

\* Past the reading, before the replacing.
Deciding(p) == pc[p] \in {"compare", "write"} /\ job[p].cmd # "start"

\* A stored run is released exactly when it has no lease (schemas/harness.py and release).
LeaseAndSession(run) == (run.session = None) <=> (run.lease = 0)

\* Every variable keeps its type, and a stored run has an owner and a lease together
\* or neither (release clears both, resume and checkpoint set both).
TypeOK ==
    /\ now \in 0 .. MaxNow
    /\ files \in [Paths -> Digests]
    /\ made \subseteq Runs
    /\ state \in [Runs -> HarnessRun \cup {None}]
    /\ lock \in [Runs -> Procs \cup {None, Abandoned}]
    /\ pc \in [Procs -> {"idle", "lock", "read", "compare", "write", "unlock"}]
    /\ job \in [Procs -> Starts \cup Commands \cup {None}]
    /\ copy \in [Procs -> HarnessRun \cup {None}]
    /\ draft \in [Procs -> HarnessRun \cup {None}]
    /\ left \in [Procs -> SUBSET Paths]
    /\ \A r \in Runs : state[r] # None => LeaseAndSession(state[r])

\* What a process has read of a run is what is stored until it has written or given up,
\* however many processes, crashes and removed locks there are (the lock file).
NoLostUpdate ==
    \A p \in Procs : Deciding(p) => copy[p] = state[job[p].run]

\* A checkpoint or a release that is about to be written is written by the session that
\* owns the run at that moment, under the release the run is bound to: a session whose
\* lease was recovered by another never writes over its successor (_owned).
OwnerWrites ==
    \A p \in Procs : pc[p] = "write" =>
        LET run == state[job[p].run]
            j == job[p] IN
        /\ j.cmd \in {"checkpoint", "release"} => run.session = j.session
        /\ j.cmd # "start" => run.runtime = j.runtime

----
(* The inductive invariant. *)

\* A process is inside only behind its own lock file.
LocksHeld == \A p \in Procs : Inside(p) => lock[job[p].run] = p

Starting(p) == pc[p] \in {"lock", "write"} /\ job[p].cmd = "start"

\* A command is about a run that exists, except the one that is starting it.
JobsKnown ==
    /\ \A r \in Runs : state[r] # None => r \in made
    /\ \A p \in Procs : pc[p] # "idle" =>
        /\ job[p] # None
        /\ job[p].run \in made
        /\ job[p].cmd # "start" => state[job[p].run] # None
        /\ pc[p] \in {"read", "compare"} => job[p].cmd # "start"

\* A run is started by one process, and its first content is a fresh run.
StartsApart ==
    /\ \A p \in Procs : Starting(p) =>
        /\ state[job[p].run] = None
        /\ \E l \in 1 .. (now + LeaseTicks) : draft[p] = NewRun(job[p], l)
    /\ \A p, q \in Procs : Starting(p) /\ Starting(q) /\ job[p].run = job[q].run => p = q

\* What admitted a command stays true while the clock runs on.
Grounds ==
    \A p \in Procs : Deciding(p) =>
        LET run == copy[p]
            j == job[p] IN
        /\ run.runtime = j.runtime
        /\ j.cmd \in {"resume", "checkpoint"} => run.phase \notin Terminal
        /\ j.cmd = "resume" =>
            \/ run.session = None
            \/ run.lease <= now
            \/ run.session = j.session /\ run.host = j.host
        /\ j.cmd \in {"checkpoint", "release"} => run.session = j.session

\* What is about to be written is the command's change of what was read.
DraftsFit ==
    \A p \in Procs : pc[p] = "write" /\ job[p].cmd # "start" =>
        \/ /\ job[p].cmd = "resume"
           /\ \E l \in 1 .. (now + LeaseTicks) : draft[p] = Resumed(copy[p], job[p], l)
        \/ /\ job[p].cmd = "checkpoint"
           /\ \E l \in 1 .. (now + LeaseTicks), d \in 1 .. MaxDigest :
                draft[p] = Checkpointed(copy[p], job[p], l, d)
        \/ job[p].cmd = "release" /\ draft[p] = Freed(copy[p])

Safe == TypeOK /\ LocksHeld /\ JobsKnown /\ StartsApart /\ NoLostUpdate /\ Grounds /\ DraftsFit

----
Promise == INSTANCE HarnessPromise

\* Every step of every process is one of the promise's or changes no stored run: an active
\* lease is not taken over, a terminal run is not reopened, no bound artifact is dropped
\* (HarnessService as a whole).
RunsKeepPromise == Promise!Spec

\* A lock that a living process holds is given up: by its removal, or because the process
\* died (the finally of HarnessStore.lock).
LockGivenUp ==
    \A r \in Runs : lock[r] \in Procs ~> lock[r] \notin Procs
====
