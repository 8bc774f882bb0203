---- MODULE HarnessProofs ----
(***************************************************************************)
(* Proofs about HarnessRuns: the lock file makes every change of a run a   *)
(* change of what is stored, for any processes, sessions, runs and files,  *)
(* and the runs keep the promise of HarnessPromise.                        *)
(***************************************************************************)
EXTENDS HarnessRuns, TLAPS

\* A command line has the fields its kind needs.
LEMMA JobKinds ==
    ASSUME NEW j \in Starts \cup Commands
    PROVE  /\ j.run \in Runs /\ j.session \in Sessions /\ j.runtime \in Runtimes
           /\ j.cmd \in {"start", "resume", "checkpoint", "release"}
           /\ j.cmd = "start" => j \in Starts
           /\ j.cmd = "resume" => j \in Resumes
           /\ j.cmd = "checkpoint" => j \in Checkpoints
           /\ j.cmd = "release" => j \in Releases
BY DEF Starts, Commands, Resumes, Checkpoints, Releases

\* A run whose lease was taken at most a full lease ago is a run of the right type.
LEMMA FreshRun ==
    ASSUME NEW j \in Starts, NEW l \in 1 .. (now + LeaseTicks), now \in 0 .. MaxNow
    PROVE  /\ NewRun(j, l) \in HarnessRun
           /\ LeaseAndSession(NewRun(j, l))
BY HarnessSorts DEF NewRun, HarnessRun, Starts, Digests, LeaseAndSession

LEMMA ResumedRun ==
    ASSUME NEW j \in Resumes, NEW run \in HarnessRun, NEW l \in 1 .. (now + LeaseTicks),
           now \in 0 .. MaxNow
    PROVE  /\ Resumed(run, j, l) \in HarnessRun
           /\ LeaseAndSession(Resumed(run, j, l))
<1>1. l \in 0 .. (MaxNow + LeaseTicks) /\ l # 0
  BY HarnessSorts
<1> DEFINE hosted == [run EXCEPT !.host = j.host]
           taken == [hosted EXCEPT !.session = j.session]
           leased == [taken EXCEPT !.lease = l]
<1>2. j.host \in Hosts /\ j.session \in Sessions /\ j.session # None
  BY HarnessSorts DEF Resumes
<1>3. hosted \in HarnessRun
  BY <1>2 DEF HarnessRun
<1>4. taken \in HarnessRun /\ taken.session = j.session
  <2> HIDE DEF hosted
  <2> QED
    BY <1>2, <1>3 DEF HarnessRun
<1>5. leased \in HarnessRun /\ leased.session = j.session /\ leased.lease = l
  <2> HIDE DEF taken
  <2> QED
    BY <1>1, <1>4 DEF HarnessRun
<1>6. Resumed(run, j, l) = leased
  BY DEF Resumed
<1> HIDE DEF leased
<1> QED
  BY <1>1, <1>2, <1>5, <1>6 DEF LeaseAndSession

LEMMA CheckpointedRun ==
    ASSUME NEW j \in Checkpoints, NEW run \in HarnessRun, NEW l \in 1 .. (now + LeaseTicks),
           NEW d \in 1 .. MaxDigest, now \in 0 .. MaxNow, run.session \in Sessions
    PROVE  /\ Checkpointed(run, j, l, d) \in HarnessRun
           /\ LeaseAndSession(Checkpointed(run, j, l, d))
<1>1. l \in 0 .. (MaxNow + LeaseTicks) /\ l # 0
  BY HarnessSorts
<1> DEFINE phased == [run EXCEPT !.phase = j.phase]
           leased == [phased EXCEPT !.lease = l]
           arts == [f \in Paths |-> IF f = j.artifact THEN d ELSE leased.artifacts[f]]
           bound == [leased EXCEPT !.artifacts = arts]
<1>2. j.phase \in Phases /\ run.session # None
  BY HarnessSorts DEF Checkpoints
<1>3. phased \in HarnessRun /\ phased.session = run.session
  BY <1>2 DEF HarnessRun
<1>4. leased \in HarnessRun /\ leased.session = run.session /\ leased.lease = l
  <2> HIDE DEF phased
  <2> QED
    BY <1>1, <1>3 DEF HarnessRun
<1>5. bound \in HarnessRun /\ bound.session = run.session /\ bound.lease = l
  <2> HIDE DEF leased
  <2>1. arts \in [Paths -> Digests]
    BY <1>4 DEF HarnessRun, Digests
  <2> HIDE DEF arts
  <2> QED
    BY <1>4, <2>1 DEF HarnessRun
<1>6. Checkpointed(run, j, l, d) = bound
  BY DEF Checkpointed
<1> HIDE DEF bound
<1> QED
  BY <1>1, <1>2, <1>5, <1>6 DEF LeaseAndSession

LEMMA FreedRun ==
    ASSUME NEW run \in HarnessRun
    PROVE  Freed(run) \in HarnessRun /\ LeaseAndSession(Freed(run))
<1> DEFINE loose == [run EXCEPT !.session = None]
           freed == [loose EXCEPT !.lease = 0]
<1>1. loose \in HarnessRun /\ loose.session = None
  BY DEF HarnessRun
<1>2. freed \in HarnessRun /\ freed.session = None /\ freed.lease = 0
  <2> HIDE DEF loose
  <2>1. 0 \in 0 .. (MaxNow + LeaseTicks)
    BY HarnessSorts
  <2> QED
    BY <1>1, <2>1 DEF HarnessRun
<1>3. Freed(run) = freed
  BY DEF Freed
<1> HIDE DEF freed
<1> QED
  BY <1>2, <1>3 DEF LeaseAndSession

\* What a process is about to write is a well-formed run.
LEMMA DraftTyped ==
    ASSUME Safe, NEW p \in Procs, pc[p] = "write"
    PROVE  draft[p] \in HarnessRun /\ LeaseAndSession(draft[p])
<1> USE DEF Safe
<1>1. /\ now \in 0 .. MaxNow /\ job[p] \in Starts \cup Commands
      /\ job[p].cmd # "start" => copy[p] \in HarnessRun
  BY HarnessNone, JobKinds DEF TypeOK, JobsKnown, NoLostUpdate, Deciding
<1>2. CASE job[p].cmd = "start"
  <2>1. PICK l \in 1 .. (now + LeaseTicks) : draft[p] = NewRun(job[p], l)
    BY <1>2 DEF StartsApart, Starting
  <2>2. job[p] \in Starts
    BY <1>1, <1>2, JobKinds
  <2> QED
    BY <1>1, <2>1, <2>2, FreshRun
<1>3. CASE job[p].cmd = "resume"
  <2>1. PICK l \in 1 .. (now + LeaseTicks) : draft[p] = Resumed(copy[p], job[p], l)
    BY <1>3 DEF DraftsFit
  <2> QED
    BY <1>1, <1>3, <2>1, JobKinds, ResumedRun
<1>4. CASE job[p].cmd = "checkpoint"
  <2>1. PICK l \in 1 .. (now + LeaseTicks), d \in 1 .. MaxDigest :
            draft[p] = Checkpointed(copy[p], job[p], l, d)
    BY <1>4 DEF DraftsFit
  <2>2. copy[p].session \in Sessions
    BY <1>1, <1>4, JobKinds DEF Grounds, Deciding, Checkpoints
  <2> QED
    BY <1>1, <1>4, <2>1, <2>2, JobKinds, CheckpointedRun
<1>5. CASE job[p].cmd = "release"
  BY <1>1, <1>5, FreedRun DEF DraftsFit
<1> QED
  BY <1>1, <1>2, <1>3, <1>4, <1>5, JobKinds

\* A running process has a command about one of the runs; what it has decided on is stored.
LEMMA Running ==
    ASSUME Safe, NEW p \in Procs, pc[p] # "idle"
    PROVE  /\ now \in 0 .. MaxNow
           /\ job[p] \in Starts \cup Commands
           /\ job[p].run \in Runs
           /\ job[p].cmd \in {"start", "resume", "checkpoint", "release"}
           /\ job[p].cmd # "start" => state[job[p].run] \in HarnessRun
           /\ Deciding(p) => copy[p] \in HarnessRun
<1>1. job[p] \in Starts \cup Commands
  BY DEF Safe, TypeOK, JobsKnown
<1>2. job[p].run \in Runs
  BY <1>1, JobKinds
<1>3. job[p].cmd # "start" => state[job[p].run] \in HarnessRun
  BY <1>2 DEF Safe, TypeOK, JobsKnown
<1> QED
  BY <1>1, <1>2, <1>3, JobKinds DEF Safe, TypeOK, NoLostUpdate, Deciding

\* The invariant holds when nothing has been started.
LEMMA SafeInit == Init => Safe
BY HarnessSorts DEF Init, Safe, TypeOK, LocksHeld, Inside, JobsKnown, StartsApart, Starting,
    NoLostUpdate, Grounds, Deciding, DraftsFit, Digests

\* Every step of every process and of the world keeps it.
LEMMA SafeKept == Safe /\ [Next]_vars => Safe'
<1> SUFFICES ASSUME Safe, [Next]_vars PROVE Safe'
  OBVIOUS
<1> USE DEF Safe
<1>1. ASSUME NEW p \in Procs, Start(p) PROVE Safe'
  <2>1. TypeOK'
    BY HarnessSorts, JobKinds, FreshRun, <1>1 DEF TypeOK, Start
  <2>2. LocksHeld'
    BY <1>1 DEF TypeOK, LocksHeld, Inside, Start
  <2>3. JobsKnown'
    BY JobKinds, HarnessNone, <1>1 DEF TypeOK, JobsKnown, Start, Starts
  <2>4. StartsApart'
    BY JobKinds, HarnessSorts, <1>1 DEF TypeOK, StartsApart, Starting, Start, JobsKnown, Starts
  <2>5. NoLostUpdate'
    BY <1>1 DEF TypeOK, NoLostUpdate, Deciding, Start
  <2>6. Grounds'
    BY <1>1 DEF TypeOK, Grounds, Deciding, Start
  <2>7. DraftsFit'
    BY JobKinds, <1>1 DEF TypeOK, DraftsFit, Start
  <2> QED
    BY <2>1, <2>2, <2>3, <2>4, <2>5, <2>6, <2>7
<1>2. ASSUME NEW p \in Procs, Invoke(p) PROVE Safe'
  <2>1. TypeOK'
    BY <1>2 DEF TypeOK, Invoke
  <2>2. LocksHeld'
    BY <1>2 DEF TypeOK, LocksHeld, Inside, Invoke
  <2>3. JobsKnown'
    BY JobKinds, HarnessNone, <1>2 DEF TypeOK, JobsKnown, Invoke, Commands, Resumes, Checkpoints, Releases
  <2>4. StartsApart'
    BY <1>2 DEF TypeOK, StartsApart, Starting, Invoke, Commands, Resumes, Checkpoints, Releases
  <2>5. NoLostUpdate'
    BY <1>2 DEF TypeOK, NoLostUpdate, Deciding, Invoke
  <2>6. Grounds'
    BY <1>2 DEF TypeOK, Grounds, Deciding, Invoke
  <2>7. DraftsFit'
    BY <1>2 DEF TypeOK, DraftsFit, Invoke
  <2> QED
    BY <2>1, <2>2, <2>3, <2>4, <2>5, <2>6, <2>7
<1>3. ASSUME NEW p \in Procs, Lock(p) PROVE Safe'
  <2>1. TypeOK'
    BY <1>3 DEF TypeOK, Lock
  <2>2. LocksHeld'
    BY HarnessSorts, Running, <1>3 DEF TypeOK, LocksHeld, Inside, Lock, JobsKnown
  <2>3. JobsKnown'
    BY <1>3 DEF TypeOK, JobsKnown, Lock
  <2>4. StartsApart'
    BY <1>3 DEF TypeOK, StartsApart, Starting, Lock
  <2>5. NoLostUpdate'
    BY <1>3 DEF TypeOK, NoLostUpdate, Deciding, Lock
  <2>6. Grounds'
    BY <1>3 DEF TypeOK, Grounds, Deciding, Lock
  <2>7. DraftsFit'
    BY <1>3 DEF TypeOK, DraftsFit, Lock
  <2> QED
    BY <2>1, <2>2, <2>3, <2>4, <2>5, <2>6, <2>7
<1>4. ASSUME NEW p \in Procs, Locked(p) PROVE Safe'
  <2>1. TypeOK'
    BY <1>4 DEF TypeOK, Locked, Exit, Forget
  <2>2. LocksHeld'
    BY <1>4 DEF TypeOK, LocksHeld, Inside, Locked, Exit, Forget
  <2>3. JobsKnown'
    BY <1>4 DEF TypeOK, JobsKnown, Locked, Exit, Forget
  <2>4. StartsApart'
    BY <1>4 DEF TypeOK, StartsApart, Starting, Locked, Exit, Forget
  <2>5. NoLostUpdate'
    BY <1>4 DEF TypeOK, NoLostUpdate, Deciding, Locked, Exit, Forget
  <2>6. Grounds'
    BY <1>4 DEF TypeOK, Grounds, Deciding, Locked, Exit, Forget
  <2>7. DraftsFit'
    BY <1>4 DEF TypeOK, DraftsFit, Locked, Exit, Forget
  <2> QED
    BY <2>1, <2>2, <2>3, <2>4, <2>5, <2>6, <2>7
<1>5. ASSUME NEW p \in Procs, Read(p) PROVE Safe'
  <2>1. TypeOK'
    <3>1. /\ job[p].run \in Runs
          /\ job[p].cmd # "start" /\ state[job[p].run] \in HarnessRun
      BY <1>5, Running DEF Read, JobsKnown
    <3>2. copy' \in [Procs -> HarnessRun \cup {None}]
      BY <1>5, <3>1 DEF TypeOK, Read
    <3>3. left' \in [Procs -> SUBSET Paths]
      BY <1>5 DEF TypeOK, Read, Bound
    <3> QED
      BY <1>5, <3>2, <3>3 DEF TypeOK, Read
  <2>2. LocksHeld'
    BY <1>5 DEF TypeOK, LocksHeld, Inside, Read
  <2>3. JobsKnown'
    BY <1>5 DEF TypeOK, JobsKnown, Read
  <2>4. StartsApart'
    BY <1>5 DEF TypeOK, StartsApart, Starting, Read
  <2>5. NoLostUpdate'
    BY <1>5 DEF TypeOK, NoLostUpdate, Deciding, Read
  <2>6. Grounds'
    BY HarnessSorts, JobKinds, <1>5 DEF TypeOK, Grounds, Deciding, Read, Admitted, Resumable, Owned, JobsKnown
  <2>7. DraftsFit'
    BY <1>5 DEF TypeOK, DraftsFit, Read
  <2> QED
    BY <2>1, <2>2, <2>3, <2>4, <2>5, <2>6, <2>7
<1>6. ASSUME NEW p \in Procs, Compare(p) PROVE Safe'
  <2>1. TypeOK'
    BY <1>6 DEF TypeOK, Compare
  <2>2. LocksHeld'
    BY <1>6 DEF TypeOK, LocksHeld, Inside, Compare
  <2>3. JobsKnown'
    BY <1>6 DEF TypeOK, JobsKnown, Compare
  <2>4. StartsApart'
    BY <1>6 DEF TypeOK, StartsApart, Starting, Compare
  <2>5. NoLostUpdate'
    BY <1>6 DEF TypeOK, NoLostUpdate, Deciding, Compare
  <2>6. Grounds'
    BY <1>6 DEF TypeOK, Grounds, Deciding, Compare
  <2>7. DraftsFit'
    BY <1>6 DEF TypeOK, DraftsFit, Compare
  <2> QED
    BY <2>1, <2>2, <2>3, <2>4, <2>5, <2>6, <2>7
<1>7. ASSUME NEW p \in Procs, Change(p) PROVE Safe'
  <2>1. TypeOK'
    <3>1. /\ now \in 0 .. MaxNow /\ copy[p] \in HarnessRun
          /\ job[p] \in Starts \cup Commands /\ job[p].cmd # "start"
      BY <1>7, Running DEF Change, JobsKnown, Deciding
    <3>2. \E run \in HarnessRun : draft' = [draft EXCEPT ![p] = run]
      <4>1. now + LeaseTicks \in 1 .. (now + LeaseTicks)
        BY <3>1, HarnessSorts
      <4>2. CASE job[p].cmd = "resume"
        BY <1>7, <3>1, <4>1, <4>2, JobKinds, ResumedRun DEF Change
      <4>3. CASE job[p].cmd = "checkpoint"
        <5>1. copy[p].session \in Sessions
          BY <1>7, <3>1, <4>3, JobKinds DEF Change, Grounds, Deciding
        <5>2. PICK d \in 1 .. MaxDigest : draft' = [draft EXCEPT ![p] =
                  Checkpointed(copy[p], job[p], now + LeaseTicks, d)]
          BY <1>7, <4>3, HarnessSorts DEF Change, Digests
        <5> QED
          BY <3>1, <4>1, <4>3, <5>1, <5>2, JobKinds, CheckpointedRun
      <4>4. CASE job[p].cmd = "release"
        BY <1>7, <3>1, <4>4, FreedRun DEF Change
      <4> QED
        BY <3>1, <4>2, <4>3, <4>4, JobKinds
    <3> QED
      BY <1>7, <3>2 DEF TypeOK, Change
  <2>2. LocksHeld'
    BY <1>7 DEF TypeOK, LocksHeld, Inside, Change
  <2>3. JobsKnown'
    BY <1>7 DEF TypeOK, JobsKnown, Change
  <2>4. StartsApart'
    BY <1>7 DEF TypeOK, StartsApart, Starting, Change, JobsKnown
  <2>5. NoLostUpdate'
    BY <1>7 DEF TypeOK, NoLostUpdate, Deciding, Change
  <2>6. Grounds'
    BY <1>7 DEF TypeOK, Grounds, Deciding, Change
  <2>7. DraftsFit'
    BY HarnessSorts, JobKinds, <1>7 DEF TypeOK, DraftsFit, Change, Digests
  <2> QED
    BY <2>1, <2>2, <2>3, <2>4, <2>5, <2>6, <2>7
<1>8. ASSUME NEW p \in Procs, Write(p) PROVE Safe'
  <2>1. TypeOK'
    BY DraftTyped, Running, <1>8 DEF TypeOK, Write, Forget
  <2>2. LocksHeld'
    BY <1>8 DEF TypeOK, LocksHeld, Inside, Write, Forget
  <2>3. JobsKnown'
    BY DraftTyped, Running, HarnessNone, <1>8 DEF TypeOK, JobsKnown, Write, Forget
  <2>4. StartsApart'
    <3>1. \A q \in Procs : Starting(q)' => Starting(q) /\ job[q].run # job[p].run
      BY <1>8 DEF TypeOK, Write, Starting, StartsApart, JobsKnown
    <3> QED
      BY <1>8, <3>1, Running DEF TypeOK, Write, Forget, Starting, StartsApart
  <2>5. NoLostUpdate'
    <3>1. \A q \in Procs : Deciding(q)' => Deciding(q) /\ job[q].run # job[p].run
      BY <1>8 DEF TypeOK, Write, Deciding, LocksHeld, Inside
    <3> QED
      BY <1>8, <3>1, Running DEF TypeOK, Write, Forget, NoLostUpdate, Deciding
  <2>6. Grounds'
    BY <1>8 DEF TypeOK, Grounds, Deciding, Write, Forget
  <2>7. DraftsFit'
    BY <1>8 DEF TypeOK, DraftsFit, Write, Forget
  <2> QED
    BY <2>1, <2>2, <2>3, <2>4, <2>5, <2>6, <2>7
<1>9. ASSUME NEW p \in Procs, GiveUp(p) PROVE Safe'
  <2>1. TypeOK'
    BY <1>9 DEF TypeOK, GiveUp, Forget
  <2>2. LocksHeld'
    BY <1>9 DEF TypeOK, LocksHeld, Inside, GiveUp, Forget
  <2>3. JobsKnown'
    BY <1>9 DEF TypeOK, JobsKnown, GiveUp, Forget
  <2>4. StartsApart'
    BY <1>9 DEF TypeOK, StartsApart, Starting, GiveUp, Forget
  <2>5. NoLostUpdate'
    BY <1>9 DEF TypeOK, NoLostUpdate, Deciding, GiveUp, Forget
  <2>6. Grounds'
    BY <1>9 DEF TypeOK, Grounds, Deciding, GiveUp, Forget
  <2>7. DraftsFit'
    BY <1>9 DEF TypeOK, DraftsFit, GiveUp, Forget
  <2> QED
    BY <2>1, <2>2, <2>3, <2>4, <2>5, <2>6, <2>7
<1>10. ASSUME NEW p \in Procs, Unlock(p) PROVE Safe'
  <2>1. TypeOK'
    BY <1>10 DEF TypeOK, Unlock, Exit, Forget
  <2>2. LocksHeld'
    BY <1>10 DEF TypeOK, LocksHeld, Inside, Unlock, Exit, Forget
  <2>3. JobsKnown'
    BY <1>10 DEF TypeOK, JobsKnown, Unlock, Exit, Forget
  <2>4. StartsApart'
    BY <1>10 DEF TypeOK, StartsApart, Starting, Unlock, Exit, Forget
  <2>5. NoLostUpdate'
    BY <1>10 DEF TypeOK, NoLostUpdate, Deciding, Unlock, Exit, Forget
  <2>6. Grounds'
    BY <1>10 DEF TypeOK, Grounds, Deciding, Unlock, Exit, Forget
  <2>7. DraftsFit'
    BY <1>10 DEF TypeOK, DraftsFit, Unlock, Exit, Forget
  <2> QED
    BY <2>1, <2>2, <2>3, <2>4, <2>5, <2>6, <2>7
<1>11. ASSUME NEW p \in Procs, Crash(p) PROVE Safe'
  <2>1. TypeOK'
    BY <1>11 DEF TypeOK, Crash, Exit, Forget
  <2>2. LocksHeld'
    BY Running, <1>11 DEF TypeOK, LocksHeld, Inside, Crash, Exit, Forget
  <2>3. JobsKnown'
    BY <1>11 DEF TypeOK, JobsKnown, Crash, Exit, Forget
  <2>4. StartsApart'
    BY <1>11 DEF TypeOK, StartsApart, Starting, Crash, Exit, Forget
  <2>5. NoLostUpdate'
    BY <1>11 DEF TypeOK, NoLostUpdate, Deciding, Crash, Exit, Forget
  <2>6. Grounds'
    BY <1>11 DEF TypeOK, Grounds, Deciding, Crash, Exit, Forget
  <2>7. DraftsFit'
    BY <1>11 DEF TypeOK, DraftsFit, Crash, Exit, Forget
  <2> QED
    BY <2>1, <2>2, <2>3, <2>4, <2>5, <2>6, <2>7
<1>12. ASSUME NEW r \in Runs, ClearLock(r) PROVE Safe'
  <2>1. TypeOK'
    BY <1>12 DEF TypeOK, ClearLock, procVars
  <2>2. LocksHeld'
    BY HarnessSorts, Running, <1>12 DEF TypeOK, LocksHeld, Inside, ClearLock, procVars
  <2>3. JobsKnown'
    BY <1>12 DEF TypeOK, JobsKnown, ClearLock, procVars
  <2>4. StartsApart'
    BY <1>12 DEF TypeOK, StartsApart, Starting, ClearLock, procVars
  <2>5. NoLostUpdate'
    BY <1>12 DEF TypeOK, NoLostUpdate, Deciding, ClearLock, procVars
  <2>6. Grounds'
    BY <1>12 DEF TypeOK, Grounds, Deciding, ClearLock, procVars
  <2>7. DraftsFit'
    BY <1>12 DEF TypeOK, DraftsFit, ClearLock, procVars
  <2> QED
    BY <2>1, <2>2, <2>3, <2>4, <2>5, <2>6, <2>7
<1>13. ASSUME NEW f \in Paths, Edit(f) PROVE Safe'
  <2>1. TypeOK'
    BY <1>13 DEF TypeOK, Edit, procVars
  <2>2. LocksHeld'
    BY <1>13 DEF TypeOK, LocksHeld, Inside, Edit, procVars
  <2>3. JobsKnown'
    BY <1>13 DEF TypeOK, JobsKnown, Edit, procVars
  <2>4. StartsApart'
    BY <1>13 DEF TypeOK, StartsApart, Starting, Edit, procVars
  <2>5. NoLostUpdate'
    BY <1>13 DEF TypeOK, NoLostUpdate, Deciding, Edit, procVars
  <2>6. Grounds'
    BY <1>13 DEF TypeOK, Grounds, Deciding, Edit, procVars
  <2>7. DraftsFit'
    BY <1>13 DEF TypeOK, DraftsFit, Edit, procVars
  <2> QED
    BY <2>1, <2>2, <2>3, <2>4, <2>5, <2>6, <2>7
<1>14. ASSUME Tick PROVE Safe'
  <2>1. TypeOK'
    BY HarnessSorts, <1>14 DEF TypeOK, Tick, procVars
  <2>2. LocksHeld'
    BY <1>14 DEF TypeOK, LocksHeld, Inside, Tick, procVars
  <2>3. JobsKnown'
    BY <1>14 DEF TypeOK, JobsKnown, Tick, procVars
  <2>4. StartsApart'
    BY HarnessSorts, <1>14 DEF TypeOK, StartsApart, Starting, Tick, procVars
  <2>5. NoLostUpdate'
    BY <1>14 DEF TypeOK, NoLostUpdate, Deciding, Tick, procVars
  <2>6. Grounds'
    <3>1. \A q \in Procs : Deciding(q) => copy[q].lease \in Nat
      BY HarnessSorts, Running DEF Deciding, HarnessRun
    <3> QED
      BY <1>14, <3>1 DEF TypeOK, Grounds, Deciding, Tick, procVars
  <2>7. DraftsFit'
    BY HarnessSorts, <1>14 DEF TypeOK, DraftsFit, Tick, procVars
  <2> QED
    BY <2>1, <2>2, <2>3, <2>4, <2>5, <2>6, <2>7
<1>15. CASE UNCHANGED vars
  <2>1. TypeOK'
    BY <1>15 DEF TypeOK, vars, procVars
  <2>2. LocksHeld'
    BY <1>15 DEF LocksHeld, Inside, vars, procVars
  <2>3. JobsKnown'
    BY <1>15 DEF JobsKnown, vars, procVars
  <2>4. StartsApart'
    BY <1>15 DEF StartsApart, Starting, vars, procVars
  <2>5. NoLostUpdate'
    BY <1>15 DEF NoLostUpdate, Deciding, vars, procVars
  <2>6. Grounds'
    BY <1>15 DEF Grounds, Deciding, vars, procVars
  <2>7. DraftsFit'
    BY <1>15 DEF DraftsFit, vars, procVars
  <2> QED
    BY <2>1, <2>2, <2>3, <2>4, <2>5, <2>6, <2>7
<1> QED
  BY <1>1, <1>2, <1>3, <1>4, <1>5, <1>6, <1>7, <1>8, <1>9, <1>10, <1>11, <1>12, <1>13,
     <1>14, <1>15 DEF Next, Step

\* The invariant holds in every run of the system.
THEOREM HarnessSafety == Spec => []Safe
BY SafeInit, SafeKept, PTL DEF Spec

\* Variables keep their types and a run has an owner and a lease together or neither.
THEOREM HarnessTypes == Spec => []TypeOK
<1>1. Safe => TypeOK
  BY DEF Safe
<1> QED
  BY <1>1, HarnessSafety, PTL

\* What a process decides from is what is stored until it writes.
THEOREM NothingLost == Spec => []NoLostUpdate
<1>1. Safe => NoLostUpdate
  BY DEF Safe
<1> QED
  BY <1>1, HarnessSafety, PTL

\* Only the owner, under the run's own release, checkpoints or releases a run.
THEOREM OwnersOnly == Spec => []OwnerWrites
<1>1. Safe => OwnerWrites
  BY DEF Safe, OwnerWrites, NoLostUpdate, Grounds, Deciding
<1> QED
  BY <1>1, HarnessSafety, PTL

\* The replacing of the file is one of the promise's four changes of a run.
LEMMA WriteKeepsPromise ==
    ASSUME Safe, NEW p \in Procs, Write(p)
    PROVE  Promise!Next
<1> DEFINE r == job[p].run
<1>1. /\ r \in Runs
      /\ state' = [state EXCEPT ![r] = draft[p]]
      /\ UNCHANGED now
      /\ job[p] \in Starts \cup Commands
      /\ job[p].cmd # "start" => state[r] \in HarnessRun /\ copy[p] = state[r] /\ state[r] # None
  BY Running DEF Write, Safe, NoLostUpdate, Deciding, JobsKnown
<1>2. CASE job[p].cmd = "start"
  <2>1. state[r] = None
    BY <1>2 DEF Write, Safe, StartsApart, Starting
  <2>2. PICK l \in 1 .. (now + LeaseTicks) : draft[p] = NewRun(job[p], l)
    BY <1>2 DEF Write, Safe, StartsApart, Starting
  <2>3. job[p] \in Starts
    BY <1>1, <1>2, JobKinds
  <2>4. Promise!Begin(r)
    BY <1>1, <2>1, <2>2, <2>3 DEF Promise!Begin, Promise!Lease, NewRun, Starts
  <2> QED
    BY <1>1, <2>4 DEF Promise!Next
<1>3. CASE job[p].cmd = "resume"
  <2>1. PICK l \in 1 .. (now + LeaseTicks) : draft[p] = Resumed(state[r], job[p], l)
    BY <1>1, <1>3 DEF Write, Safe, DraftsFit
  <2>2. /\ state[r].phase \notin Terminal
        /\ \/ state[r].session = None
           \/ state[r].lease <= now
           \/ state[r].session = job[p].session /\ state[r].host = job[p].host
    BY <1>1, <1>3 DEF Write, Safe, Grounds, Deciding
  <2>3. job[p].host \in Hosts /\ job[p].session \in Sessions
    BY <1>1, <1>3, JobKinds DEF Resumes
  <2>4. state' = [state EXCEPT ![r] = Promise!Taken(@, job[p].host, job[p].session, l)]
    BY <1>1, <1>3, <2>1 DEF Resumed, Promise!Taken
  <2>5. Promise!Resume(r)
    <3>1. l \in Promise!Lease
      BY DEF Promise!Lease
    <3>2. state[r] # None
      BY <1>1, <1>3
    <3> QED
      BY <1>1, <2>2, <2>3, <2>4, <3>1, <3>2 DEF Promise!Resume
  <2> QED
    BY <1>1, <2>5 DEF Promise!Next
<1>4. CASE job[p].cmd = "checkpoint"
  <2>1. PICK l \in 1 .. (now + LeaseTicks), d \in 1 .. MaxDigest :
            draft[p] = Checkpointed(state[r], job[p], l, d)
    BY <1>1, <1>4 DEF Write, Safe, DraftsFit
  <2>2. job[p].phase \in Phases /\ job[p].artifact \in Paths \cup {None}
    BY <1>1, <1>4, JobKinds DEF Checkpoints
  <2>3. state[r].phase \notin Terminal /\ state[r].session # None
    BY <1>1, <1>4, JobKinds, HarnessSorts DEF Write, Safe, Grounds, Deciding
  <2>4. state' = [state EXCEPT ![r] =
            Promise!Marked(@, job[p].phase, l, job[p].artifact, d)]
    BY <1>1, <1>4, <2>1 DEF Checkpointed, Promise!Marked
  <2>5. Promise!Checkpoint(r)
    <3>1. l \in Promise!Lease
      BY DEF Promise!Lease
    <3>2. state[r] # None
      BY <1>1, <1>4
    <3> QED
      <4> SUFFICES \E ph \in Phases, l2 \in Promise!Lease, f \in Paths \cup {None},
                      e \in 1 .. MaxDigest :
                        state' = [state EXCEPT ![r] = Promise!Marked(@, ph, l2, f, e)]
        BY <1>1, <2>3, <3>2 DEF Promise!Checkpoint
      <4> USE <2>2, <3>1
      <4> WITNESS job[p].phase \in Phases, l \in Promise!Lease,
                  job[p].artifact \in Paths \cup {None}, d \in 1 .. MaxDigest
      <4> QED
        BY <2>4
  <2> QED
    BY <1>1, <2>5 DEF Promise!Next
<1>5. CASE job[p].cmd = "release"
  <2>1. state[r].session # None
    BY <1>1, <1>5, JobKinds, HarnessSorts DEF Write, Safe, Grounds, Deciding
  <2>2. state' = [state EXCEPT ![r] = [@ EXCEPT !.session = None, !.lease = 0]]
    BY <1>1, <1>5 DEF Write, Safe, DraftsFit, Freed, TypeOK
  <2>3. Promise!Release(r)
    BY <1>1, <1>5, <2>1, <2>2 DEF Promise!Release
  <2> QED
    BY <1>1, <2>3 DEF Promise!Next
<1> QED
  BY <1>1, <1>2, <1>3, <1>4, <1>5, JobKinds

\* Every other step leaves the stored runs alone, or lets time pass.
LEMMA StepKeepsPromise == Safe /\ [Next]_vars => [Promise!Next]_<<now, state>>
<1> SUFFICES ASSUME Safe, [Next]_vars PROVE Promise!Next \/ UNCHANGED <<now, state>>
  OBVIOUS
<1>1. CASE \E p \in Procs : Write(p)
  BY <1>1, WriteKeepsPromise
<1>2. CASE \E p \in Procs : \/ Start(p) \/ Invoke(p) \/ Lock(p) \/ Locked(p) \/ Read(p)
                             \/ Compare(p) \/ Change(p) \/ GiveUp(p) \/ Unlock(p) \/ Crash(p)
  BY <1>2 DEF Start, Invoke, Lock, Locked, Read, Compare, Change, GiveUp, Unlock, Crash
<1>3. CASE \E r \in Runs : ClearLock(r)
  BY <1>3 DEF ClearLock
<1>4. CASE \E f \in Paths : Edit(f)
  BY <1>4 DEF Edit
<1>5. CASE Tick
  BY <1>5 DEF Tick, Promise!Next, Promise!Pass
<1>6. CASE UNCHANGED vars
  BY <1>6 DEF vars
<1> QED
  BY <1>1, <1>2, <1>3, <1>4, <1>5, <1>6 DEF Next, Step

\* The processes behind the lock file implement runs that change in one step, only as the
\* promise says.
THEOREM PromiseImplemented == Spec => RunsKeepPromise
<1>1. Init => Promise!Init
  BY DEF Init, Promise!Init
<1> QED
  BY <1>1, StepKeepsPromise, HarnessSafety, PTL DEF Spec, RunsKeepPromise, Promise!Spec
====
