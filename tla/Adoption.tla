---- MODULE Adoption ----
(***************************************************************************)
(* The offline adoption of an old queue file into the database, as intakes *)
(* of the host or as pipelines, and its rollback.  The database is copied, *)
(* the copy filled and verified, and put in place of the database if that  *)
(* and the queue are still what they were.  The backup and the copy of the *)
(* queue an interrupted adoption leaves are used by the next one under the *)
(* same id.  Processes are to be stopped while one runs; here some go on,  *)
(* and the loss this can bring is confined to the gap that remains.  A     *)
(* fact stands for any commit of the other commands, a version for the     *)
(* bytes of the queue, and a digest for what it is taken of.               *)
(***************************************************************************)
EXTENDS Naturals

CONSTANTS
    Adoptions,    \* migration ids
    KindOf,       \* "host" or "pipeline", by id
    Movers,       \* processes that adopt and roll back
    Entries,      \* rows of the queue
    Linked,       \* those with the address of a job
    Declared,     \* those its configuration says were sent
    Referred,     \* those that carry the reference of the send
    Facts,        \* what other commands commit
    LastVersion,  \* bound on the versions of the queue
    NoMove        \* no process, no backup

\* What the database holds of adoptions; of a run a digest keeps id and source only.
AdoptedRows == [id : Adoptions, entry : Entries, text : Nat, at : {"intake", "pipeline"},
                proof : {"pending", "undeclared", "verified"}]
DatabaseDigests == [there : BOOLEAN, facts : SUBSET Facts, rows : SUBSET AdoptedRows,
                    runs : SUBSET (Adoptions \X Nat)]
AdoptionRuns == [id : Adoptions, source : Nat, before : DatabaseDigests, after : DatabaseDigests]
Databases == [there : BOOLEAN, facts : SUBSET Facts, rows : SUBSET AdoptedRows,
              runs : SUBSET AdoptionRuns]

\* A configuration expects one row at least.
ASSUME AdoptionSorts ==
    /\ KindOf \in [Adoptions -> {"host", "pipeline"}] /\ LastVersion \in Nat \ {0}
    /\ Linked \subseteq Entries /\ Declared \subseteq Entries /\ Referred \subseteq Entries
    /\ Entries # {} /\ NoMove \notin Databases

VARIABLES
    db,         \* the database: whether it is there, its facts, adopted rows and runs
    queue,      \* the version of the queue
    backups,    \* before.sqlite3, by id
    originals,  \* the version in queue-original.jsonl, by id, 0 for none
    moving,     \* what a process has read and staged
    fate,       \* of a fact or a binding: "none" as yet, "kept" if no replacement was past its
                \* comparison when it was committed, else "late"
    standing    \* adoptions put in place at such a time and not rolled back

adoptionVars == <<db, queue, backups, originals, moving, fate, standing>>

\* Bindings are of an adopted row.
Commits == Facts \cup {<<m, e>> : m \in {m \in Adoptions : KindOf[m] = "host"}, e \in Referred}

NoDatabase == [there |-> FALSE, facts |-> {}, rows |-> {}, runs |-> {}]
Migrated == [NoDatabase EXCEPT !.there = TRUE]

AdoptionInit ==
    /\ db \in {NoDatabase, Migrated} /\ queue = 1
    /\ backups = [m \in Adoptions |-> NoMove] /\ originals = [m \in Adoptions |-> 0]
    /\ moving = [p \in Movers |-> NoMove]
    /\ fate = [k \in Commits |-> "none"] /\ standing = {}

----
RunKeys(runs) == {<<r.id, r.source>> : r \in runs}

\* database_digest leaves the host's own runs out.
HostDigest(d) == [d EXCEPT !.runs = RunKeys({r \in @ : KindOf[r.id] = "pipeline"})]

\* migration_database_digest leaves out of the pipeline's runs the digest they end with.
PipelineDigest(d) == [d EXCEPT !.runs = RunKeys(@)]

Digest(kind, d) == IF kind = "host" THEN HostDigest(d) ELSE PipelineDigest(d)

Kind(p) == KindOf[moving[p].id]
At(p, stage) == moving[p] # NoMove /\ moving[p].stage = stage
Goes(p, w) == moving' = [moving EXCEPT ![p] = w]

\* Some replacement has compared the database for the last time.
Replacing == \E p \in Movers : moving[p] # NoMove /\ moving[p].stage \in {"verified", "restored"}

\* The rows are read first, the bytes hashed next; an id that is there is only verified again.
MigrateMap(p, m) ==
    /\ moving[p] = NoMove
    /\ Goes(p, [stage |-> "mapped", id |-> m, text |-> queue, source |-> 0,
                baseline |-> NoMove, copy |-> NoMove])
    /\ UNCHANGED <<db, queue, backups, originals, fate, standing>>

MigrateHash(p) ==
    /\ At(p, "mapped")
    /\ Goes(p, IF \E r \in db.runs : r.id = moving[p].id THEN NoMove
               ELSE [moving[p] EXCEPT !.stage = "read", !.source = queue,
                                      !.baseline = Digest(Kind(p), db)])
    /\ UNCHANGED <<db, queue, backups, originals, fate, standing>>

MigrateCopy(p) ==
    /\ At(p, "read")
    /\ Goes(p, [moving[p] EXCEPT !.stage = "copied", !.copy = IF db.there THEN db ELSE Migrated])
    /\ UNCHANGED <<db, queue, backups, originals, fate, standing>>

\* Where a backup is taken from.
BackupSource(p) == IF db.there THEN db ELSE moving[p].copy

\* Mutant: a backup that is there is used as it is.
BackupAny(p) == TRUE

\* One that is there is of the baseline the host read, or of what the pipeline finds now.
BackupAgrees(p) ==
    LET old == Digest(Kind(p), backups[moving[p].id])
    IN IF Kind(p) = "host"
       THEN moving[p].copy = Migrated \/ old = moving[p].baseline
       ELSE old = PipelineDigest(BackupSource(p))

MigrateBackup(p) ==
    /\ At(p, "copied")
    /\ backups[moving[p].id] # NoMove => BackupAgrees(p)
    /\ backups' = [backups EXCEPT ![moving[p].id] = IF @ = NoMove THEN BackupSource(p) ELSE @]
    /\ Goes(p, [moving[p] EXCEPT !.stage = "backed"])
    /\ UNCHANGED <<db, queue, originals, fate, standing>>

\* The queue is read again for its own backup.
MigrateOriginal(p) ==
    /\ At(p, "backed")
    /\ originals[moving[p].id] \in {0, moving[p].source}
    /\ originals' = [originals EXCEPT ![moving[p].id] = IF @ = 0 THEN queue ELSE @]
    /\ Goes(p, [moving[p] EXCEPT !.stage = "preserved"])
    /\ UNCHANGED <<db, queue, backups, fate, standing>>

----
Row(w, e, at, proof) == [id |-> w.id, entry |-> e, text |-> w.text, at |-> at, proof |-> proof]

\* A declaration of the host stays to be proved, whatever the row says; nothing is merged.
HostRows(w) ==
    {Row(w, e, "intake", IF e \in Declared THEN "pending" ELSE "undeclared") : e \in Entries}

\* A row without an address stays an intake, and its declaration only in the report.
PipelineRows(w) ==
    {Row(w, e, IF e \in Linked THEN "pipeline" ELSE "intake",
         IF e \in Linked \cap Declared THEN "pending" ELSE "undeclared") : e \in Entries}

\* The manifest holds what the database digests to with it.
Staged(w) ==
    LET kind == KindOf[w.id]
        rows == w.copy.rows \cup IF kind = "host" THEN HostRows(w) ELSE PipelineRows(w)
        run == [id |-> w.id, source |-> w.source,
                before |-> Digest(kind, backups[w.id]), after |-> NoMove]
        after == Digest(kind, [w.copy EXCEPT !.rows = rows, !.runs = @ \cup {run}])
    IN [w.copy EXCEPT !.rows = rows, !.runs = @ \cup {[run EXCEPT !.after = after]}]

\* verify reads the kept bytes of a pipeline adoption again; the host's keeps to its rows.
Verified(w) ==
    KindOf[w.id] = "pipeline" => originals[w.id] = w.source /\ w.text = originals[w.id]

StillTheSame(w) == queue = w.source /\ (db.there => Digest(KindOf[w.id], db) = w.baseline)

MigrateVerify(p) ==
    /\ At(p, "preserved")
    /\ Verified(moving[p]) /\ StillTheSame(moving[p])
    /\ Goes(p, [moving[p] EXCEPT !.stage = "verified", !.copy = Staged(moving[p])])
    /\ UNCHANGED <<db, queue, backups, originals, fate, standing>>

MigrateReplace(p) ==
    /\ At(p, "verified")
    /\ db' = moving[p].copy
    /\ Goes(p, NoMove)
    /\ standing' = IF \E q \in Movers \ {p} : At(q, "verified") \/ At(q, "restored") THEN standing
                   ELSE standing \cup {moving[p].id}
    /\ UNCHANGED <<queue, backups, originals, fate>>

----
Unmodified(m, after) == Digest(KindOf[m], db) = after

\* A rollback first compares the database and the backup with the manifest.
RollbackRead(p, m) ==
    /\ moving[p] = NoMove /\ backups[m] # NoMove
    /\ \E r \in db.runs :
          /\ r.id = m /\ Unmodified(m, r.after)
          /\ Digest(KindOf[m], backups[m]) = r.before
          /\ Goes(p, [stage |-> "compared", id |-> m, text |-> 0, source |-> 0,
                      baseline |-> r.after, copy |-> backups[m]])
    /\ UNCHANGED <<db, queue, backups, originals, fate, standing>>

\* And once more when the backup has been copied.
RollbackCompare(p) ==
    /\ At(p, "compared") /\ Unmodified(moving[p].id, moving[p].baseline)
    /\ Goes(p, [moving[p] EXCEPT !.stage = "restored"])
    /\ UNCHANGED <<db, queue, backups, originals, fate, standing>>

RollbackReplace(p) ==
    /\ At(p, "restored")
    /\ db' = moving[p].copy /\ Goes(p, NoMove)
    /\ standing' = standing \ {moving[p].id}
    /\ UNCHANGED <<queue, backups, originals, fate>>

\* A check that fails refuses, and a process may die: what was staged is gone, the backups stay.
MoveEnds(p) ==
    /\ moving[p] # NoMove /\ Goes(p, NoMove)
    /\ UNCHANGED <<db, queue, backups, originals, fate, standing>>

----
Committed(k) == fate' = [fate EXCEPT ![k] = IF Replacing THEN "late" ELSE "kept"]

\* Another command commits a fact, and makes the database if there is none.  What the gap lost is
\* not done again.
Commit(f) ==
    /\ fate[f] = "none" /\ Committed(f)
    /\ db' = [db EXCEPT !.there = TRUE, !.facts = @ \cup {f}]
    /\ UNCHANGED <<queue, backups, originals, moving, standing>>

\* bind_tracking: a row of the host is proved by a tracked send of its own reference.
BindTracking(r) ==
    /\ KindOf[r.id] = "host" /\ r.entry \in Referred
    /\ fate[<<r.id, r.entry>>] = "none" /\ Committed(<<r.id, r.entry>>)
    /\ db' = [db EXCEPT !.rows = (@ \ {r}) \cup {[r EXCEPT !.proof = "verified"]}]
    /\ UNCHANGED <<queue, backups, originals, moving, standing>>

\* The old scripts write the queue on.
EditQueue ==
    /\ queue < LastVersion /\ queue' = queue + 1
    /\ UNCHANGED <<db, backups, originals, moving, fate, standing>>

AdoptionNext ==
    \/ \E p \in Movers :
          \/ \E m \in Adoptions : MigrateMap(p, m) \/ RollbackRead(p, m)
          \/ MigrateHash(p) \/ MigrateCopy(p) \/ MigrateBackup(p) \/ MigrateOriginal(p)
          \/ MigrateVerify(p) \/ MigrateReplace(p)
          \/ RollbackCompare(p) \/ RollbackReplace(p) \/ MoveEnds(p)
    \/ \E f \in Facts : Commit(f)
    \/ \E r \in db.rows : BindTracking(r)
    \/ EditQueue
AdoptionSpec == AdoptionInit /\ [][AdoptionNext]_adoptionVars

----
\* However adoptions are interrupted, tried again and rolled back, a fact or a proof of a send stays
\* in the database, unless it was committed after a replacement had last compared (migrate, rollback).
FactsKept ==
    \A k \in {k \in Commits : fate[k] = "kept"} :
        \/ k \in db.facts
        \/ \E r \in db.rows : <<r.id, r.entry>> = k /\ r.proof = "verified"

\* An adoption stays in place with all its rows until it is rolled back itself: neither another
\* adoption nor the rollback of an earlier one takes it away (migrate, rollback).
AdoptionsStand ==
    \A m \in standing :
        /\ \E r \in db.runs : r.id = m
        /\ {r.entry : r \in {r \in db.rows : r.id = m}} = Entries

\* The bytes kept of the queue are those an adoption names as its source, and the rows of pipelines
\* were read from them, though the queue is read several times (migrate, verify).
SourceKept ==
    \A r \in db.runs :
        /\ originals[r.id] = r.source
        /\ KindOf[r.id] = "pipeline" => \A s \in db.rows : s.id = r.id => s.text = r.source

\* Adoptions, interrupted and rolled back in any order, lose no fact, stand until they are rolled back
\* themselves, and come from the bytes kept of the queue (host_migration.py).
AdoptionSound ==
    /\ FactsKept
    /\ AdoptionsStand
    /\ SourceKept
====
