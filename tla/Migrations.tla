----------------------------- MODULE Migrations -----------------------------
(***************************************************************************)
(* The start of the services that keep a table: auth, metadata and rating. *)
(* Each embeds one migration (src/*/migrations) and runs it, with          *)
(* src/pkg/migrate, before it serves.  All three use one database, so      *)
(* goose keeps their three version numbers in one version table.           *)
(*                                                                         *)
(* A process is interleaved with the others at each statement goose sends. *)
(* A statement or a process may fail at any point: main panics, and what   *)
(* MySQL has committed stays (it commits every CREATE TABLE by itself).    *)
(***************************************************************************)
EXTENDS Naturals

CONSTANTS Processes,   \* processes of the services, replicas included
          Version,     \* the version of the migration each process embeds
          References,  \* the versions whose tables the table of a version references
          MaxFaults    \* bound: processes that fail while they migrate

Versions == {Version[p] : p \in Processes}

ASSUME VersionAssumption == Version \in [Processes -> Nat \ {0}]
ASSUME ReferencesAssumption == References \in [Versions -> SUBSET Versions]
ASSUME MaxFaultsAssumption == MaxFaults \in Nat

VARIABLES
  pc,            \* how far each process is
  versionTable,  \* goose_db_version: "absent", "empty" or "ready"
  recorded,      \* the versions it lists
  latest,        \* the version of its newest row
  tables,        \* the versions whose table exists
  faults         \* processes that failed

vars == <<pc, versionTable, recorded, latest, tables, faults>>

Goto(p, to) == pc' = [pc EXCEPT ![p] = to]

Init ==
  /\ pc = [p \in Processes |-> "off"]
  /\ versionTable = "absent"
  /\ recorded = {}
  /\ latest = 0
  /\ tables = {}
  /\ faults = 0

(* NewWithMigration is about to call goose.Up. *)
Start(p) ==
  /\ pc[p] = "off"
  /\ Goto(p, "ensure")
  /\ UNCHANGED <<versionTable, recorded, latest, tables, faults>>

(* goose reads the version table; without rows it has no current version. *)
ReadVersionTable(p) ==
  /\ pc[p] = "ensure"
  /\ \/ versionTable = "absent" /\ Goto(p, "create")
     \/ versionTable = "empty"  /\ Goto(p, "off")
     \/ versionTable = "ready"  /\ Goto(p, "check")
  /\ UNCHANGED <<versionTable, recorded, latest, tables, faults>>

(* Two processes may find no version table; the second CREATE fails. *)
CreateVersionTable(p) ==
  /\ pc[p] = "create"
  /\ \/ versionTable = "absent" /\ versionTable' = "empty" /\ Goto(p, "initialise")
     \/ versionTable # "absent" /\ UNCHANGED versionTable /\ Goto(p, "off")
  /\ UNCHANGED <<recorded, latest, tables, faults>>

InsertVersionZero(p) ==
  /\ pc[p] = "initialise"
  /\ versionTable' = "ready"
  /\ Goto(p, "check")
  /\ UNCHANGED <<recorded, latest, tables, faults>>

(* A migration that is older than a recorded one, and not recorded. *)
Missing(p) == Version[p] \notin recorded /\ \E v \in recorded : v > Version[p]

(* Mutant: goose.Up is told not to mind missing migrations. *)
CheckMissingIgnored(p) ==
  /\ pc[p] = "check"
  /\ Goto(p, "current")
  /\ UNCHANGED <<versionTable, recorded, latest, tables, faults>>

(* goose.Up refuses to run migrations out of order. *)
CheckMissing(p) ==
  /\ pc[p] = "check"
  /\ Goto(p, IF Missing(p) THEN "off" ELSE "current")
  /\ UNCHANGED <<versionTable, recorded, latest, tables, faults>>

(* Mutant: the embedded file system holds no migration. *)
ReadCurrentVersionOnly(p) ==
  /\ pc[p] = "current"
  /\ Goto(p, "serving")
  /\ UNCHANGED <<versionTable, recorded, latest, tables, faults>>

(* Only migrations that are newer than the newest row are run. *)
ReadCurrentVersion(p) ==
  /\ pc[p] = "current"
  /\ Goto(p, IF latest < Version[p] THEN "migrate" ELSE "serving")
  /\ UNCHANGED <<versionTable, recorded, latest, tables, faults>>

(* Mutant: Up and Down are swapped in the migration. *)
DropTable(p) ==
  /\ pc[p] = "migrate"
  /\ tables' = tables \ {Version[p]}
  /\ Goto(p, "record")
  /\ UNCHANGED <<versionTable, recorded, latest, faults>>

(* Mutant: a MySQL that ignores a REFERENCES next to its column. *)
CreateTableUnchecked(p) ==
  /\ pc[p] = "migrate"
  /\ tables' = tables \cup {Version[p]}
  /\ Goto(p, "record")
  /\ UNCHANGED <<versionTable, recorded, latest, faults>>

(* MySQL refuses a table whose foreign key references a table that is not   *)
(* there; goose.Up then fails, and main panics.                            *)
CreateTable(p) ==
  /\ pc[p] = "migrate"
  /\ \/ /\ References[Version[p]] \subseteq tables
        /\ tables' = tables \cup {Version[p]}
        /\ Goto(p, "record")
     \/ /\ ~ References[Version[p]] \subseteq tables
        /\ UNCHANGED tables
        /\ Goto(p, "off")
  /\ UNCHANGED <<versionTable, recorded, latest, faults>>

(* Mutant: the transaction that inserts the row is not committed. *)
RecordVersionLost(p) ==
  /\ pc[p] = "record"
  /\ Goto(p, "current")
  /\ UNCHANGED <<versionTable, recorded, latest, tables, faults>>

(* Mutant: the row names the version that comes next. *)
RecordNextVersion(p) ==
  /\ pc[p] = "record"
  /\ recorded' = recorded \cup {Version[p]}
  /\ latest' = Version[p] + 1
  /\ Goto(p, "current")
  /\ UNCHANGED <<versionTable, tables, faults>>

(* goose then looks for the next migration again. *)
RecordVersion(p) ==
  /\ pc[p] = "record"
  /\ recorded' = recorded \cup {Version[p]}
  /\ latest' = Version[p]
  /\ Goto(p, "current")
  /\ UNCHANGED <<versionTable, tables, faults>>

(* A statement fails and main panics, or the process is killed. *)
Fail(p) ==
  /\ pc[p] \notin {"off", "serving"}
  /\ faults < MaxFaults
  /\ faults' = faults + 1
  /\ Goto(p, "off")
  /\ UNCHANGED <<versionTable, recorded, latest, tables>>

Stop(p) ==
  /\ pc[p] = "serving"
  /\ Goto(p, "off")
  /\ UNCHANGED <<versionTable, recorded, latest, tables, faults>>

Migrate(p) == \/ ReadVersionTable(p) \/ CreateVersionTable(p) \/ InsertVersionZero(p)
              \/ CheckMissing(p) \/ ReadCurrentVersion(p)
              \/ CreateTable(p) \/ RecordVersion(p)

Next == \E p \in Processes : Start(p) \/ Migrate(p) \/ Fail(p) \/ Stop(p)

Spec == Init /\ [][Next]_vars

(* A process goes on, and one that panicked is started again. *)
Fairness == \A p \in Processes : WF_vars(Start(p)) /\ WF_vars(Migrate(p))

FairSpec == Spec /\ Fairness

(***************************************************************************)
(* Properties                                                              *)
(***************************************************************************)
(* Every variable keeps its type. *)
TypeOK ==
  /\ pc \in [Processes -> {"off", "ensure", "create", "initialise", "check", "current",
                           "migrate", "record", "serving"}]
  /\ versionTable \in {"absent", "empty", "ready"}
  /\ recorded \in SUBSET Versions
  /\ latest \in Versions \cup {0}
  /\ tables \in SUBSET Versions
  /\ faults \in 0 .. MaxFaults

(* A version is listed only when its table exists, also after a crash      *)
(* between the two statements of a migration.                              *)
RecordedIsCreated == recorded \subseteq tables

(* A process that serves has its table, unless a service with a newer      *)
(* migration overtook it.  In particular the newest one always has its     *)
(* table, whatever it raced with.                                          *)
Overtaken(p) == \E v \in recorded : v > Version[p]

ServesOrOvertaken ==
  \A p \in Processes : pc[p] = "serving" => Version[p] \in tables \/ Overtaken(p)

(* A service that comes after a newer one, with no replica under way, is   *)
(* refused for ever: no step of any process can let it in again.           *)
Passed(p)    == pc[p] \in {"current", "migrate", "record", "serving"}
LockedOut(p) == Missing(p) /\ \A q \in Processes : Version[q] = Version[p] => ~ Passed(q)

LockedOutForEver == [][\A p \in Processes : LockedOut(p) => LockedOut(p)']_vars

(* The strengthening that makes these inductive. *)
LatestIsRecorded == latest = 0 \/ latest \in recorded

MigratedFirst ==
  \A p \in Processes :
    /\ pc[p] = "record" => Version[p] \in tables
    /\ pc[p] = "serving" => Version[p] \in recorded \/ Overtaken(p)

ReferencedExist ==
  \A v \in tables : References[v] \subseteq tables

IInv == TypeOK /\ RecordedIsCreated /\ LatestIsRecorded /\ MigratedFirst /\ ReferencedExist

(* The finding below spares the newest service: its processes have their   *)
(* table when they serve, whatever started before them or raced with them. *)
Newest(p) == \A q \in Processes : Version[q] <= Version[p]

NewestHasTable ==
  \A p \in Processes : Newest(p) /\ pc[p] = "serving" => Version[p] \in tables

(* A table that is not there, and that no process will create any more: a   *)
(* newer version is recorded, so goose.Up refuses to run its migration.    *)
Lost(v) ==
  /\ v \notin tables
  /\ \E w \in recorded : w > v
  /\ \A p \in Processes : Version[p] = v => pc[p] \notin {"current", "migrate"}

LostForEver == [][\A v \in Versions : Lost(v) => Lost(v)']_vars

(* The newest service, rating, references a table that is lost, the users  *)
(* of auth: such a process does not serve, in whatever order the services  *)
(* came to that and however often they start again.                        *)
Orphaned(p) == \E v \in References[Version[p]] : Lost(v)

OrphanedDoesNotServe ==
  \A p \in Processes : Newest(p) /\ Orphaned(p) => pc[p] # "serving"

(* The newest service gets to serve, through races for the version table,  *)
(* refused CREATE TABLEs and restarts, unless a crash left the version     *)
(* table without a row or a table that its own references is lost.         *)
Stuck     == versionTable = "empty" /\ \A p \in Processes : pc[p] # "initialise"

NewestServes ==
  \A p \in Processes :
    Newest(p) => (pc[p] = "ensure" ~> (pc[p] = "serving" \/ Stuck \/ Orphaned(p)))

(* "New creates a new MySQL-based repository and running migrations"       *)
(* (mysql.go:32): a process that serves has its table.                     *)
ServingHasTable == \A p \in Processes : pc[p] = "serving" => Version[p] \in tables
=============================================================================
