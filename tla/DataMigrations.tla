---------------------------- MODULE DataMigrations ----------------------------
(***************************************************************************)
(* The runner of data migrations (prisma/data-migrations/runner.ts), which *)
(* every deployment starts after the schema migrations: it reads the names *)
(* that are recorded, runs `up` of each other file in order and records    *)
(* it.  Deployments may overlap and a runner may stop between any two      *)
(* calls.  Files are numbered as the directory sorts them; name is a       *)
(* unique column.                                                          *)
(***************************************************************************)
EXTENDS Naturals

CONSTANTS
    Runners,
    Files       \* number of migration files

ASSUME FilesAssumption == Files \in Nat \ {0}

VARIABLES
    dataMigration,  \* files recorded as applied
    runners,        \* the main() of each runner
    migrated        \* history: files whose up has gone through

migrationVars == <<dataMigration, runners, migrated>>

FileNumbers == 1..Files

\* `file` is the position in migrationFiles, `applied` the set it has read.
Runner == [step : {"stopped", "read", "files", "up", "record"},
           file : 1..(Files + 1), applied : SUBSET FileNumbers]

Stopped == [step |-> "stopped", file |-> 1, applied |-> {}]

MigrationsTypeOK ==
    /\ dataMigration \subseteq FileNumbers
    /\ runners \in [Runners -> Runner]
    /\ migrated \subseteq FileNumbers

MigrationsInit ==
    /\ dataMigration = {}
    /\ runners = [r \in Runners |-> Stopped]
    /\ migrated = {}

-----------------------------------------------------------------------------
(* main().                                                                 *)

StartRunner(r) ==
    /\ runners[r].step = "stopped"
    /\ runners' = [runners EXCEPT ![r].step = "read"]
    /\ UNCHANGED <<dataMigration, migrated>>

ReadApplied(r) ==
    /\ runners[r].step = "read"
    /\ runners' = [runners EXCEPT ![r] =
           [step |-> "files", file |-> 1, applied |-> dataMigration]]
    /\ UNCHANGED <<dataMigration, migrated>>

\* The next file of the loop: skipped when its name was read, else its up runs.
NextFile(r) ==
    /\ runners[r].step = "files" /\ runners[r].file \in FileNumbers
    /\ runners' = IF runners[r].file \in runners[r].applied
                  THEN [runners EXCEPT ![r].file = @ + 1]
                  ELSE [runners EXCEPT ![r].step = "up"]
    /\ UNCHANGED <<dataMigration, migrated>>

\* Mutant: an up that fails is left out and the loop goes on.
RunUpOrSkip(r) ==
    /\ runners[r].step = "up"
    /\ \/ /\ runners' = [runners EXCEPT ![r].step = "record"]
          /\ migrated' = migrated \cup {runners[r].file}
       \/ /\ runners' = [runners EXCEPT ![r].step = "files", ![r].file = @ + 1]
          /\ UNCHANGED migrated
    /\ UNCHANGED dataMigration

RunUp(r) ==
    /\ runners[r].step = "up"
    /\ runners' = [runners EXCEPT ![r].step = "record"]
    /\ migrated' = migrated \cup {runners[r].file}
    /\ UNCHANGED dataMigration

\* dataMigration.create rejects a name that is there.
Record(r) ==
    /\ runners[r].step = "record"
    /\ runners[r].file \notin dataMigration
    /\ dataMigration' = dataMigration \cup {runners[r].file}
    /\ runners' = [runners EXCEPT ![r].step = "files", ![r].file = @ + 1]
    /\ UNCHANGED migrated

\* The loop is done, a call is rejected, or the process is killed.
EndRunner(r) ==
    /\ runners[r].step # "stopped"
    /\ runners' = [runners EXCEPT ![r] = Stopped]
    /\ UNCHANGED <<dataMigration, migrated>>

MigrationsNext ==
    \E r \in Runners :
        \/ StartRunner(r) \/ ReadApplied(r) \/ NextFile(r)
        \/ RunUp(r) \/ Record(r) \/ EndRunner(r)

MigrationsSpec == MigrationsInit /\ [][MigrationsNext]_migrationVars

-----------------------------------------------------------------------------
(* However runners overlap and stop, up of a file begins when the files    *)
(* before it have gone through and are recorded, and a recorded file has   *)
(* gone through: a run that failed is repeated, never left out.            *)
MigratedInOrder ==
    /\ dataMigration \subseteq migrated
    /\ \A r \in Runners :
           runners[r].step \in {"up", "record"} =>
               1..(runners[r].file - 1) \subseteq dataMigration
=============================================================================
