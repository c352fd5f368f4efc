---------------------------- MODULE ShardSchema ----------------------------
(***************************************************************************)
(* How the shard files come into being: ConnectionManager's constructor    *)
(* (core/db/connection.py) creates and migrates shard after shard, while   *)
(* other processes open the same directory, count jobs in it, or die half  *)
(* way.                                                                    *)
(*                                                                         *)
(* In Python's sqlite3 a PRAGMA, executescript and DDL commit by           *)
(* themselves: each is a step of its own.  INSERT and UPDATE open a        *)
(* transaction that the commit() at the end of the loop's body ends; no    *)
(* other process sees what is between, so each is one step with it.        *)
(***************************************************************************)
EXTENDS Naturals, Sequences, FiniteSets

CONSTANTS
    Opener,     \* processes that make a ConnectionManager on the directory
    NumShards,  \* the largest num_shards any of them asks for
    MaxCount,   \* bound: jobs counted in one shard's metadata
    NULL

ASSUME SchemaAssumption ==
    /\ NumShards \in Nat \ {0}
    /\ MaxCount \in Nat
    /\ NULL \notin [version : Nat, processed : Nat]

Shard == 0 .. NumShards - 1

SCHEMA_VERSION == 2

VARIABLES
    file,       \* shards whose file exists
    objects,    \* what has been created in each file
    meta,       \* the row of shard_metadata, NULL if there is none
    opened,     \* the num_shards each process asked for
    pc,         \* the next step of each process
    shard,      \* the shard it is at
    isNew,      \* is_new
    orphans,    \* history: files whose creator ended before it was done
    skipped     \* history: migration steps that failed and were logged

schemaVars == <<file, objects, meta, opened, pc, shard, isNew, orphans, skipped>>

----------------------------------------------------------------------------
(* The contents of a file *)

\* Each stands for the statements of its kind that have the same fate.
Tables == <<"fila", "shard_metadata", "dead_letter_queue">>

Indexes == <<"idx_pop_job">>

Pragmas == <<"journal_mode">>

\* What the current version is made of, in the order it is created.
Created == Pragmas \o Tables \o Indexes

\* What version 2 does to a shard of version 1, in this order.
Legacy == "idx_status_priority"

Constraint == "ck_fila_status"

Current == {Created[i] : i \in DOMAIN Created}

Object == Current \cup {Legacy, Constraint}

\* CREATE ... IF NOT EXISTS; the status check comes with the table only.
With(there, o) ==
    there \cup {o} \cup (IF o = "fila" /\ o \notin there THEN {Constraint} ELSE {})

\* A shard made by version 1.
OldObjects == {"journal_mode", "fila", "shard_metadata", "dead_letter_queue", Legacy}

Meta == [version : {1, SCHEMA_VERSION}, processed : 0 .. MaxCount]

----------------------------------------------------------------------------
(* Steps of _init_all_shards *)

\* While a process creates, its stage is what it creates next.
Stage == {"out", "look", "connect", "insert meta", "read version", "drop",
          "alter", "update version", "ready"} \cup Current

GoTo(p, stage) == pc' = [pc EXCEPT ![p] = stage]

\* Mutant of NextShard: one shard too many.
NextShardTooFar(p) ==
    IF shard[p] < opened[p]
    THEN /\ shard' = [shard EXCEPT ![p] = @ + 1]
         /\ GoTo(p, "look")
    ELSE /\ GoTo(p, "ready")
         /\ UNCHANGED shard

\* The end of the loop's body: the next shard, or the constructor returns.
NextShard(p) ==
    IF shard[p] + 1 < opened[p]
    THEN /\ shard' = [shard EXCEPT ![p] = @ + 1]
         /\ GoTo(p, "look")
    ELSE /\ GoTo(p, "ready")
         /\ UNCHANGED shard

Open(p, n) ==
    /\ pc[p] = "out"
    /\ opened' = [opened EXCEPT ![p] = n]
    /\ shard' = [shard EXCEPT ![p] = 0]
    /\ GoTo(p, "look")
    /\ UNCHANGED <<file, objects, meta, isNew, orphans, skipped>>

\* Mutant of LooksNew: the file is looked for after sqlite3.connect made it.
LooksNewAfterConnect(s) == FALSE

LooksNew(s) == s \notin file

LookForFile(p) ==
    /\ pc[p] = "look"
    /\ isNew' = [isNew EXCEPT ![p] = LooksNew(shard[p])]
    /\ GoTo(p, "connect")
    /\ UNCHANGED <<file, objects, meta, opened, shard, orphans, skipped>>

\* Mutant of AfterConnect: the schema is created in new files only.
AfterConnectNewOnly(p) == IF isNew[p] THEN Created[1] ELSE "read version"

AfterConnect(p) == Created[1]

\* sqlite3.connect creates an empty file.
Connect(p) ==
    /\ pc[p] = "connect"
    /\ file' = file \cup {shard[p]}
    /\ GoTo(p, AfterConnect(p))
    /\ UNCHANGED <<objects, meta, opened, shard, isNew, orphans, skipped>>

AfterCreate(p) ==
    IF pc[p] # Created[Len(Created)]
    THEN Created[1 + CHOOSE i \in DOMAIN Created : Created[i] = pc[p]]
    ELSE IF isNew[p] THEN "insert meta" ELSE "read version"

\* PRAGMAS_SQL, SCHEMA_SQL and INDEXES_SQL, one statement after the other.
Create(p) ==
    /\ pc[p] \in Current
    /\ objects' = [objects EXCEPT ![shard[p]] = With(@, pc[p])]
    /\ GoTo(p, AfterCreate(p))
    /\ UNCHANGED <<file, meta, opened, shard, isNew, orphans, skipped>>

NewMeta == [version |-> SCHEMA_VERSION, processed |-> 0]

\* INSERT OR IGNORE
Inserted(row) == IF row = NULL THEN NewMeta ELSE row

InsertMeta(p) ==
    /\ pc[p] = "insert meta"
    /\ meta' = [meta EXCEPT ![shard[p]] = Inserted(@)]
    /\ NextShard(p)
    /\ UNCHANGED <<file, objects, opened, isNew, orphans, skipped>>

----------------------------------------------------------------------------
(* _run_migrations *)

\* GET_SCHEMA_VERSION_SQL asks for the row of shard 0 in whatever file.
CurrentVersion(s) == IF s = 0 /\ meta[s] # NULL THEN meta[s].version ELSE 0

\* Mutant of FirstMigration: the legacy indexes are forgotten.
FirstMigrationAlter == "alter"

FirstMigration == "drop"

\* A SELECT that raises is taken for version 0.
ReadVersion(p) ==
    /\ pc[p] = "read version"
    /\ \E version \in {0, CurrentVersion(shard[p])} :
          IF version >= SCHEMA_VERSION
          THEN NextShard(p)
          ELSE GoTo(p, FirstMigration) /\ UNCHANGED shard
    /\ UNCHANGED <<file, objects, meta, opened, isNew, orphans, skipped>>

\* A migration step that raises is logged and the next one follows.
Skip(p, o) ==
    /\ skipped' = skipped \cup {<<shard[p], o>>}
    /\ UNCHANGED objects

DropLegacy(p) ==
    /\ pc[p] = "drop"
    /\ \/ /\ objects' = [objects EXCEPT ![shard[p]] = @ \ {Legacy}]
          /\ UNCHANGED skipped
       \/ Skip(p, Legacy)
    /\ GoTo(p, "alter")
    /\ UNCHANGED <<file, meta, opened, shard, isNew, orphans>>

\* get_migrations: the one statement of version 2.  Whether ALTER TABLE takes
\* a constraint, or the same one again, depends on the version of SQLite.
AlterTable(p) ==
    /\ pc[p] = "alter"
    /\ \/ /\ objects' = [objects EXCEPT ![shard[p]] = @ \cup {Constraint}]
          /\ UNCHANGED skipped
       \/ Skip(p, Constraint)
    /\ GoTo(p, "update version")
    /\ UNCHANGED <<file, meta, opened, shard, isNew, orphans>>

\* UPDATE_SCHEMA_VERSION_SQL finds its row in shard 0 only.
UpdateVersion(p) ==
    /\ pc[p] = "update version"
    /\ meta' = IF shard[p] = 0 /\ meta[0] # NULL
               THEN [meta EXCEPT ![0].version = SCHEMA_VERSION]
               ELSE meta
    /\ NextShard(p)
    /\ UNCHANGED <<file, objects, opened, isNew, orphans, skipped>>

----------------------------------------------------------------------------

\* It made the file and has not yet written the row.
Creating(p, s) ==
    /\ shard[p] = s /\ isNew[p]
    /\ pc[p] \in Current \cup {"insert meta"}

\* The process dies or closes the queue, or a statement raises, which ends
\* the constructor: what is not committed is undone.
End(p) ==
    /\ pc[p] # "out"
    /\ GoTo(p, "out")
    /\ opened' = [opened EXCEPT ![p] = 0]
    /\ shard' = [shard EXCEPT ![p] = 0]
    /\ isNew' = [isNew EXCEPT ![p] = FALSE]
    /\ orphans' = orphans \cup {s \in Shard : Creating(p, s)}
    /\ UNCHANGED <<file, objects, meta, skipped>>

\* complete_job counts the job in the row of its shard, if there is one.
CountJob(p, s) ==
    /\ pc[p] = "ready" /\ s < opened[p]
    /\ meta[s] # NULL
    /\ meta[s].processed < MaxCount
    /\ meta' = [meta EXCEPT ![s].processed = @ + 1]
    /\ UNCHANGED <<file, objects, opened, pc, shard, isNew, orphans, skipped>>

----------------------------------------------------------------------------

\* Some shards, from the first on, are there from version 1.
SchemaInit ==
    /\ \E old \in 0 .. NumShards :
          /\ file = 0 .. old - 1
          /\ objects = [s \in Shard |-> IF s < old THEN OldObjects ELSE {}]
          /\ meta = [s \in Shard |-> IF s < old
                                     THEN [version |-> 1, processed |-> 0]
                                     ELSE NULL]
    /\ opened = [p \in Opener |-> 0]
    /\ pc = [p \in Opener |-> "out"]
    /\ shard = [p \in Opener |-> 0]
    /\ isNew = [p \in Opener |-> FALSE]
    /\ orphans = {}
    /\ skipped = {}

Migrate(p) == ReadVersion(p) \/ DropLegacy(p) \/ AlterTable(p) \/ UpdateVersion(p)

SchemaNext ==
    \E p \in Opener :
       \/ \E n \in 1 .. NumShards : Open(p, n)
       \/ LookForFile(p) \/ Connect(p) \/ Create(p) \/ InsertMeta(p)
       \/ Migrate(p)
       \/ End(p)
       \/ \E s \in Shard : CountJob(p, s)

SchemaSpec == SchemaInit /\ [][SchemaNext]_schemaVars

----------------------------------------------------------------------------
(* Properties *)

SchemaTypeOK ==
    /\ file \subseteq Shard
    /\ objects \in [Shard -> SUBSET Object]
    /\ meta \in [Shard -> Meta \cup {NULL}]
    /\ opened \in [Opener -> 0 .. NumShards]
    /\ pc \in [Opener -> Stage]
    /\ shard \in [Opener -> Shard]
    /\ isNew \in [Opener -> BOOLEAN]
    /\ orphans \subseteq Shard
    /\ skipped \subseteq Shard \X {Legacy, Constraint}

\* A queue that was opened has all its tables and indexes in every shard,
\* whoever else was creating the files and wherever they were interrupted.
ReadyIsComplete ==
    \A p \in Opener : pc[p] = "ready" =>
        \A s \in 0 .. opened[p] - 1 : Current \subseteq objects[s]

\* A shard in use has the metadata row its counters live in, except where the
\* process that made the file has not come to it or ended before: two openers
\* that race for a file never leave the row to each other.
CountedUnlessOrphaned ==
    \A p \in Opener : pc[p] = "ready" =>
        \A s \in 0 .. opened[p] - 1 :
           \/ meta[s] # NULL
           \/ s \in orphans
           \/ \E q \in Opener : Creating(q, s)

DropTried(s) == Legacy \notin objects[s] \/ <<s, Legacy>> \in skipped

AlterTried(s) == Constraint \in objects[s] \/ <<s, Constraint>> \in skipped

\* A shard that says it is of the current version had every step of the
\* migration done to it, or tried and logged, though steps of several openers
\* and interruptions lie between.
VersionTellsMigrated ==
    \A s \in Shard : meta[s] # NULL /\ meta[s].version = SCHEMA_VERSION =>
        DropTried(s) /\ AlterTried(s)

\* The stages of a process that has created everything in its shard.
AfterIndexes == {"insert meta", "read version", "drop", "alter", "update version"}

\* The shards a process is through with.
Passed(p) == {s \in Shard : s < IF pc[p] = "ready" THEN opened[p] ELSE shard[p]}

\* What a process has done so far, whatever others do in the same files.
OpenerSound(p) ==
    /\ pc[p] # "out" => shard[p] < opened[p]
    /\ \A s \in Passed(p) : s \in file /\ Current \subseteq objects[s]
    /\ pc[p] \in Current \cup AfterIndexes => shard[p] \in file
    /\ pc[p] = "connect" /\ ~isNew[p] => shard[p] \in file
    /\ \A i \in DOMAIN Created : pc[p] = Created[i] =>
          \A j \in 1 .. i - 1 : Created[j] \in objects[shard[p]]
    /\ pc[p] \in AfterIndexes => Current \subseteq objects[shard[p]]
    /\ pc[p] \in {"alter", "update version"} => DropTried(shard[p])
    /\ pc[p] = "update version" => AlterTried(shard[p])

\* Every file has its metadata row, or is known not to have it.
FilesAccounted ==
    \A s \in file : \/ meta[s] # NULL
                    \/ s \in orphans
                    \/ \E p \in Opener : Creating(p, s)

\* A shard without a metadata row was not made by version 1.
RowlessIsCurrent ==
    \A s \in Shard : meta[s] = NULL =>
        /\ Legacy \notin objects[s]
        /\ "fila" \in objects[s] => Constraint \in objects[s]

\* The inductive invariant behind ReadyIsComplete, CountedUnlessOrphaned and
\* VersionTellsMigrated.
SchemaInv ==
    /\ SchemaTypeOK
    /\ \A p \in Opener : OpenerSound(p)
    /\ FilesAccounted
    /\ RowlessIsCurrent
    /\ VersionTellsMigrated

=============================================================================
