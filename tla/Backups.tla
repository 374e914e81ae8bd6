------------------------------ MODULE Backups ------------------------------
(***************************************************************************)
(* Backups: how an artifact is made of the live database and the files of  *)
(* the core, kept, restored and removed, by calls that take no lock, next  *)
(* to changes, to applies and to each other; and crashes of the panel.     *)
(*                                                                         *)
(* The database is a version number with one flag, whether everything in   *)
(* it is marked as applied, and the rows of the artifacts, which a dump    *)
(* contains and a restore brings back.  The configuration file of the core *)
(* is the version it was rendered from.  Artifacts are encrypted, as       *)
(* BACKUP_ENCRYPT has it by default: half a file is not decrypted.         *)
(***************************************************************************)
EXTENDS Naturals, Sequences, FiniteSets

CONSTANTS
  Artifacts,
  Kinds,        \* the kinds that are made
  MaxCalls,     \* bound on the calls that run at a time
  MaxVersions,  \* bound on the changes of the database
  MaxRestores,
  MaxCrashes

ASSUME BackupConstants ==
  /\ Kinds \subseteq {"DATABASE", "CORE_CONFIG", "FULL"}
  /\ {MaxCalls, MaxVersions, MaxRestores, MaxCrashes} \subseteq Nat

VARIABLES
  live,         \* the database (version, clean, rows) and the file of the core
  stored,       \* the files of the artifacts
  making,       \* create calls, by artifact
  restoring,    \* restore calls
  removing,     \* deletions, by hand or for their age
  applying,     \* an apply, and the version it has read
  counted       \* versions, restores and crashes so far

backupVars == <<live, stored, making, restoring, removing, applying, counted>>

Rest == [at |-> "idle"]
Unmade == [at |-> "fresh"]   \* the identifier of an artifact is new
NoFile == [whole |-> FALSE, there |-> FALSE]
Half == [whole |-> FALSE, there |-> TRUE]

\* Everything the database calls applied is in the file of the core.
Honest(data, clean, core) == clean => core = data

\* Ghost in an artifact being made: whether the system was honest when its first part was
\* taken, and until the last neither its data changed nor was anything else deployed.
NoRows == [i \in Artifacts |-> "none"]
Blank(kind) == [kind |-> kind, data |-> 0, clean |-> FALSE, rows |-> NoRows, core |-> 0,
                quiet |-> FALSE]

Begun(m) == m.at = "collect" /\ m.content.data + m.content.core # 0
Disturbed ==
  [i \in Artifacts |->
     IF Begun(making[i]) THEN [making[i] EXCEPT !.content.quiet = FALSE] ELSE making[i]]
Quiet(m) == IF Begun(m) THEN m.content.quiet ELSE Honest(live.data, live.clean, live.core)

Calls == Cardinality({i \in Artifacts : making[i] \notin {Unmade, Rest}})
         + Cardinality({i \in Artifacts : restoring[i] # Rest})
         + Cardinality({i \in Artifacts : removing[i] # "no"})

\* Some artifacts may be of the past, and the data may change until MaxVersions.
BackupInit ==
  /\ live \in [data: {1}, clean: {TRUE}, core: {1}, rows: [Artifacts -> {"none", "DELETED"}]]
  /\ stored = [i \in Artifacts |-> NoFile]
  /\ making = [i \in Artifacts |-> Unmade]
  /\ restoring = [i \in Artifacts |-> Rest]
  /\ removing = [i \in Artifacts |-> "no"]
  /\ applying = Rest
  /\ counted \in [versions: 1..MaxVersions, restores: {0}, crashes: {0}]

\* An update of a row that is not there throws.
HasRow(i) == live.rows[i] # "none"
SetRow(i, status) == live' = [live EXCEPT !.rows[i] = status]

-----------------------------------------------------------------------------
(* The system the backups are of.                                          *)

Change ==
  /\ counted.versions < MaxVersions
  /\ counted' = [counted EXCEPT !.versions = @ + 1]
  /\ live' = [live EXCEPT !.data = counted.versions + 1, !.clean = FALSE]
  /\ making' = Disturbed
  /\ UNCHANGED <<stored, restoring, removing, applying>>

\* An apply in two steps, of those LocalApply has: what it loads, and the file it replaces
\* and the marks it then makes of what has not changed.
LoadState ==
  /\ applying = Rest
  /\ applying' = [at |-> "loaded", data |-> live.data]
  /\ UNCHANGED <<live, stored, making, restoring, removing, counted>>

Deploy ==
  /\ applying # Rest
  /\ applying' = Rest
  /\ live' = [live EXCEPT !.core = applying.data, !.clean = @ \/ live.data = applying.data]
  /\ making' = IF applying.data = live.data THEN making ELSE Disturbed
  /\ UNCHANGED <<stored, restoring, removing, counted>>

-----------------------------------------------------------------------------
(* Create.                                                                 *)

\* Mutant: the files first.
PartsFilesFirst(kind) ==
  CASE kind = "DATABASE" -> <<"dump">>
    [] kind = "CORE_CONFIG" -> <<"stage">>
    [] OTHER -> <<"stage", "dump">>

\* buildArtifact: the database first, then the files.
Parts(kind) ==
  CASE kind = "DATABASE" -> <<"dump">>
    [] kind = "CORE_CONFIG" -> <<"stage">>
    [] OTHER -> <<"dump", "stage">>

Create(i) ==
  /\ Calls < MaxCalls
  /\ making[i] = Unmade /\ ~HasRow(i)
  /\ \E kind \in Kinds :
       making' = [making EXCEPT ![i] =
                    [at |-> "collect", left |-> Parts(kind), content |-> Blank(kind)]]
  /\ SetRow(i, "RUNNING")
  /\ UNCHANGED <<stored, restoring, removing, applying, counted>>

Collect(i, part) == making[i].at = "collect" /\ making[i].left # <<>> /\ Head(making[i].left) = part

DumpDatabase(i) ==
  /\ Collect(i, "dump")
  /\ making' = [making EXCEPT ![i].left = Tail(@),
                  ![i].content = [@ EXCEPT !.data = live.data, !.clean = live.clean,
                                           !.rows = live.rows, !.quiet = Quiet(making[i])]]
  /\ UNCHANGED <<live, stored, restoring, removing, applying, counted>>

StageCoreFiles(i) ==
  /\ Collect(i, "stage")
  /\ making' = [making EXCEPT ![i].left = Tail(@),
                  ![i].content = [@ EXCEPT !.core = live.core, !.quiet = Quiet(making[i])]]
  /\ UNCHANGED <<live, stored, restoring, removing, applying, counted>>

\* The archive is packed and encrypted, and its file begun.
BeginFile(i) ==
  /\ making[i].at = "collect" /\ making[i].left = <<>>
  /\ making' = [making EXCEPT ![i].at = "write"]
  /\ stored' = [stored EXCEPT ![i] = Half]
  /\ UNCHANGED <<live, restoring, removing, applying, counted>>

\* A file removed while it is written stays removed.
EndFile(i) ==
  /\ making[i].at = "write"
  /\ making' = [making EXCEPT ![i].at = "record"]
  /\ stored' = [stored EXCEPT ![i] =
                  IF @.there THEN [whole |-> TRUE, there |-> TRUE, content |-> making[i].content]
                  ELSE @]
  /\ UNCHANGED <<live, restoring, removing, applying, counted>>

Succeed(i) ==
  /\ making[i].at = "record" /\ HasRow(i)
  /\ SetRow(i, "SUCCEEDED")
  /\ making' = [making EXCEPT ![i] = Rest]
  /\ UNCHANGED <<stored, restoring, removing, applying, counted>>

\* The row is marked before the file is removed; without a row neither happens.
Fail(i) ==
  /\ making[i].at \in {"collect", "write", "record"}
  /\ IF HasRow(i)
     THEN SetRow(i, "FAILED") /\ making' = [making EXCEPT ![i] = [at |-> "discard"]]
     ELSE UNCHANGED live /\ making' = [making EXCEPT ![i] = Rest]
  /\ UNCHANGED <<stored, restoring, removing, applying, counted>>

\* An error of the removal is ignored.
Discard(i) ==
  /\ making[i].at = "discard"
  /\ making' = [making EXCEPT ![i] = Rest]
  /\ stored' \in {stored, [stored EXCEPT ![i] = NoFile]}
  /\ UNCHANGED <<live, restoring, removing, applying, counted>>

-----------------------------------------------------------------------------
(* Restore.                                                                *)

Restorable(i) == live.rows[i] \in {"SUCCEEDED", "FAILED"} /\ stored[i].there

BeginRestore(i) ==
  /\ restoring[i] = Rest /\ counted.restores < MaxRestores /\ Calls < MaxCalls
  /\ Restorable(i)
  /\ SetRow(i, "RUNNING")
  /\ restoring' = [restoring EXCEPT ![i] = [at |-> "read"]]
  /\ counted' = [counted EXCEPT !.restores = @ + 1]
  /\ UNCHANGED <<stored, making, removing, applying>>

\* Mutant: half a file is taken for an artifact.
ReadableHalf(file) == file.there

\* decryptBytes checks the tag of the whole file; of a plain dump that ends early pg_restore
\* only warns, and warnings pass.
Readable(file) == file.whole

Decrypt(i) ==
  /\ restoring[i].at = "read"
  /\ restoring' = [restoring EXCEPT ![i] =
       IF ~Readable(stored[i]) THEN [at |-> "fail"]
       ELSE IF ~stored[i].whole THEN [at |-> "record"]
       ELSE [at |-> IF stored[i].content.kind = "CORE_CONFIG" THEN "core" ELSE "database",
             content |-> stored[i].content]]
  /\ UNCHANGED <<live, stored, making, removing, applying, counted>>

Replaced(c) == [live EXCEPT !.data = c.data, !.clean = c.clean, !.rows = c.rows]

\* pg_restore exits with 1 after warnings and after any error of its own, a refused
\* connection among them, and both pass for success; a time-out does not.
RestoreDatabase(i) ==
  /\ restoring[i].at = "database"
  /\ LET c == restoring[i].content
     IN  \/ /\ live' \in {Replaced(c), live}
            /\ restoring' = [restoring EXCEPT ![i].at =
                               IF c.kind = "FULL" THEN "core" ELSE "record"]
         \/ /\ live' \in {Replaced(c), live}
            /\ restoring' = [restoring EXCEPT ![i].at = "fail"]
  /\ making' = Disturbed
  /\ UNCHANGED <<stored, removing, applying, counted>>

\* The files are replaced before the reload is asked for, which may fail.
RestoreCoreFiles(i) ==
  /\ restoring[i].at = "core"
  /\ \E reloaded \in BOOLEAN :
       restoring' = [restoring EXCEPT ![i].at = IF reloaded THEN "record" ELSE "fail"]
  /\ live' = [live EXCEPT !.core = restoring[i].content.core]
  /\ making' = Disturbed
  /\ UNCHANGED <<stored, removing, applying, counted>>

\* The last record may fail as well.
EndRestore(i) ==
  /\ restoring[i].at \in {"record", "fail"}
  /\ IF HasRow(i)
     THEN SetRow(i, "FAILED") \/ (restoring[i].at = "record" /\ SetRow(i, "SUCCEEDED"))
     ELSE UNCHANGED live
  /\ restoring' = [restoring EXCEPT ![i] = Rest]
  /\ UNCHANGED <<stored, making, removing, applying, counted>>

-----------------------------------------------------------------------------
(* Removal.                                                                *)

Remove(i) ==
  /\ removing[i] = "no" /\ Calls < MaxCalls
  /\ removing' = [removing EXCEPT ![i] = "removed"]
  /\ stored' \in {stored, [stored EXCEPT ![i] = NoFile]}
  /\ UNCHANGED <<live, making, restoring, applying, counted>>

\* An administrator may delete what is still running.
SoftDelete(i) == live.rows[i] \notin {"none", "DELETED"} /\ Remove(i)

\* A create call first removes what has expired, and that has ended.
PruneExpired(i) == live.rows[i] \in {"SUCCEEDED", "FAILED"} /\ Remove(i)

MarkDeleted(i) ==
  /\ removing[i] = "removed"
  /\ removing' = [removing EXCEPT ![i] = "no"]
  /\ IF HasRow(i) THEN SetRow(i, "DELETED") ELSE UNCHANGED live
  /\ UNCHANGED <<stored, making, restoring, applying, counted>>

\* The panel stops: the calls are gone, rows and files stay as they are.
Crash ==
  /\ counted.crashes < MaxCrashes
  /\ counted' = [counted EXCEPT !.crashes = @ + 1]
  /\ making' = [i \in Artifacts |-> IF making[i] = Unmade THEN Unmade ELSE Rest]
  /\ restoring' = [i \in Artifacts |-> Rest]
  /\ removing' = [i \in Artifacts |-> "no"]
  /\ applying' = Rest
  /\ UNCHANGED <<live, stored>>

-----------------------------------------------------------------------------
BackupNext ==
  \/ Change \/ LoadState \/ Deploy
  \/ \E i \in Artifacts :
       \/ Create(i) \/ DumpDatabase(i) \/ StageCoreFiles(i) \/ BeginFile(i) \/ EndFile(i)
       \/ Succeed(i) \/ Fail(i) \/ Discard(i)
       \/ BeginRestore(i) \/ Decrypt(i) \/ RestoreDatabase(i) \/ RestoreCoreFiles(i)
       \/ EndRestore(i) \/ SoftDelete(i) \/ PruneExpired(i) \/ MarkDeleted(i)
  \/ Crash

BackupSpec == BackupInit /\ [][BackupNext]_backupVars

-----------------------------------------------------------------------------
(***************************************************************************)
(* An artifact shown as SUCCEEDED whose file is there can be relied on,    *)
(* also when rows have come back with an older dump, and after deletions   *)
(* and crashes: its file is whole; and a FULL one, made while applies may  *)
(* run but nothing is changed, has in its files whatever its database      *)
(* calls applied (buildArtifact dumps first and copies the files after).   *)
(***************************************************************************)
SucceededIsTrue ==
  \A i \in Artifacts :
    live.rows[i] = "SUCCEEDED" /\ stored[i].there =>
      /\ stored[i].whole
      /\ LET c == stored[i].content
         IN  c.kind = "FULL" /\ c.quiet => Honest(c.data, c.clean, c.core)

=============================================================================
