-------------------------- MODULE MigrationsProofs --------------------------
(***************************************************************************)
(* Theorems about module Migrations, for any processes and versions.  The  *)
(* invariant IInv of that module is inductive; the three invariants and    *)
(* the action property the runs check follow from it, and so does what    *)
(* excuses a newest service that never gets to serve.                      *)
(***************************************************************************)
EXTENDS Migrations, TLAPS

USE VersionAssumption, ReferencesAssumption, MaxFaultsAssumption

(* Initially no process has started and the database is empty. *)
LEMMA InitInv == Init => IInv
BY DEF Init, IInv, TypeOK, RecordedIsCreated, LatestIsRecorded, MigratedFirst, ReferencedExist

(* Each statement goose sends keeps IInv: a process records a version whose *)
(* table it has created, and goes on to serve when the newest row is its   *)
(* own or a newer one.                                                     *)
LEMMA StepInv == IInv /\ [Next]_vars => IInv'
<1> SUFFICES ASSUME IInv, [Next]_vars PROVE IInv'
  OBVIOUS
<1> USE DEF IInv, TypeOK, RecordedIsCreated, LatestIsRecorded, MigratedFirst, ReferencedExist,
            Overtaken, Goto
<1>1. ASSUME NEW p \in Processes, Start(p) PROVE IInv'
  BY <1>1 DEF Start
<1>2. ASSUME NEW p \in Processes, ReadVersionTable(p) PROVE IInv'
  BY <1>2 DEF ReadVersionTable
<1>3. ASSUME NEW p \in Processes, CreateVersionTable(p) PROVE IInv'
  BY <1>3 DEF CreateVersionTable
<1>4. ASSUME NEW p \in Processes, InsertVersionZero(p) PROVE IInv'
  BY <1>4 DEF InsertVersionZero
<1>5. ASSUME NEW p \in Processes, CheckMissing(p) PROVE IInv'
  BY <1>5 DEF CheckMissing
<1>6. ASSUME NEW p \in Processes, ReadCurrentVersion(p) PROVE IInv'
  BY <1>6 DEF ReadCurrentVersion, Versions
<1>7. ASSUME NEW p \in Processes, CreateTable(p) PROVE IInv'
  BY <1>7 DEF CreateTable, Versions
<1>8. ASSUME NEW p \in Processes, RecordVersion(p) PROVE IInv'
  BY <1>8 DEF RecordVersion, Versions
<1>9. ASSUME NEW p \in Processes, Fail(p) PROVE IInv'
  BY <1>9 DEF Fail
<1>10. ASSUME NEW p \in Processes, Stop(p) PROVE IInv'
  BY <1>10 DEF Stop
<1>11. CASE UNCHANGED vars
  BY <1>11 DEF vars
<1> QED
  BY <1>1, <1>2, <1>3, <1>4, <1>5, <1>6, <1>7, <1>8, <1>9, <1>10, <1>11 DEF Next, Migrate

LEMMA Invariance == Spec => []IInv
BY InitInv, StepInv, PTL DEF Spec

(* Every variable keeps its type. *)
THEOREM TypeCorrect == Spec => []TypeOK
BY Invariance, PTL DEF IInv

(* A version is listed only when its table exists. *)
THEOREM RecordedCreated == Spec => []RecordedIsCreated
BY Invariance, PTL DEF IInv

(* A process that serves has its table or was overtaken by a newer one. *)
THEOREM ServesCorrect == Spec => []ServesOrOvertaken
<1>1. IInv => ServesOrOvertaken
  BY DEF IInv, RecordedIsCreated, MigratedFirst, ServesOrOvertaken
<1> QED
  BY <1>1, Invariance, PTL

(* A serving process of the newest service has its table: no recorded      *)
(* version is newer than its own.                                          *)
THEOREM NewestCorrect == Spec => []NewestHasTable
<1>1. IInv => NewestHasTable
  <2> SUFFICES ASSUME IInv, NEW p \in Processes, Newest(p), pc[p] = "serving"
               PROVE  Version[p] \in tables
    BY DEF NewestHasTable
  <2>1. ~ Overtaken(p)
    <3>1. \A v \in recorded : v <= Version[p] /\ v \in Nat
      BY VersionAssumption DEF IInv, TypeOK, Versions, Newest
    <3> QED
      BY <3>1, VersionAssumption DEF Overtaken
  <2> QED
    BY <2>1 DEF IInv, MigratedFirst, RecordedIsCreated
<1> QED
  BY <1>1, Invariance, PTL

(* A service that came too late stays out: recorded versions only grow, so *)
(* the check of each of its processes fails, and no other process brings   *)
(* them past it.                                                           *)
THEOREM LockedOutStays == Spec => LockedOutForEver
<1>1. IInv /\ [Next]_vars => [\A p \in Processes : LockedOut(p) => LockedOut(p)']_vars
  <2> SUFFICES ASSUME IInv, Next, NEW l \in Processes, LockedOut(l) PROVE LockedOut(l)'
    OBVIOUS
  <2> USE DEF LockedOut, Missing, Passed, Goto
  <2> pc = [q \in Processes |-> pc[q]]
    BY DEF IInv, TypeOK
  <2>1. PICK p \in Processes : Start(p) \/ Migrate(p) \/ Fail(p) \/ Stop(p)
    BY DEF Next
  <2>2. CASE Version[p] # Version[l]
    <3>1. Version[l] \notin recorded' /\ recorded \subseteq recorded'
      BY <2>1, <2>2 DEF Start, Migrate, ReadVersionTable, CreateVersionTable, InsertVersionZero,
            CheckMissing, ReadCurrentVersion, CreateTable, RecordVersion, Fail, Stop
    <3>2. \A q \in Processes : q # p => pc'[q] = pc[q]
      BY <2>1 DEF Start, Migrate, ReadVersionTable, CreateVersionTable, InsertVersionZero,
            CheckMissing, ReadCurrentVersion, CreateTable, RecordVersion, Fail, Stop
    <3> QED
      BY <3>1, <3>2, <2>2
  <2>3. CASE Version[p] = Version[l]
    <3>1. ~ Passed(p) /\ Missing(p)
      BY <2>3
    <3>2. recorded' = recorded /\ ~ Passed(p)' /\ \A q \in Processes : q # p => pc'[q] = pc[q]
      BY <2>1, <3>1 DEF Start, Migrate, ReadVersionTable, CreateVersionTable, InsertVersionZero,
            CheckMissing, ReadCurrentVersion, CreateTable, RecordVersion, Fail, Stop
    <3> QED
      BY <3>2, <2>3
  <2> QED
    BY <2>2, <2>3
<1> QED
  BY <1>1, Invariance, PTL DEF Spec, LockedOutForEver

(* A table is lost for good: no process of its version passes the check,   *)
(* now that a newer version is recorded.                                   *)
THEOREM LostStays == Spec => LostForEver
<1>1. IInv /\ [Next]_vars => [\A v \in Versions : Lost(v) => Lost(v)']_vars
  <2> SUFFICES ASSUME IInv, Next, NEW v \in Versions, Lost(v) PROVE Lost(v)'
    OBVIOUS
  <2> USE DEF Lost, Goto
  <2> pc = [q \in Processes |-> pc[q]]
    BY DEF IInv, TypeOK
  <2>1. PICK p \in Processes : Start(p) \/ Migrate(p) \/ Fail(p) \/ Stop(p)
    BY DEF Next
  <2>2. recorded \subseteq recorded' /\ \A q \in Processes : q # p => pc'[q] = pc[q]
    BY <2>1 DEF Start, Migrate, ReadVersionTable, CreateVersionTable, InsertVersionZero,
          CheckMissing, ReadCurrentVersion, CreateTable, RecordVersion, Fail, Stop
  <2>3. ASSUME Version[p] # v PROVE v \notin tables'
    BY <2>1, <2>3 DEF Start, Migrate, ReadVersionTable, CreateVersionTable, InsertVersionZero,
          CheckMissing, ReadCurrentVersion, CreateTable, RecordVersion, Fail, Stop
  <2>4. ASSUME Version[p] = v
        PROVE  v \notin tables' /\ pc'[p] \notin {"current", "migrate"}
    <3>1. Missing(p) /\ pc[p] \notin {"current", "migrate", "record"}
      BY <2>4 DEF IInv, RecordedIsCreated, MigratedFirst, Missing
    <3> QED
      BY <2>1, <3>1 DEF Start, Migrate, ReadVersionTable, CreateVersionTable, InsertVersionZero,
            CheckMissing, ReadCurrentVersion, CreateTable, RecordVersion, Fail, Stop
  <2> QED
    BY <2>2, <2>3, <2>4
<1> QED
  BY <1>1, Invariance, PTL DEF Spec, LostForEver

(* A process of the newest service whose table references a lost one does  *)
(* not serve: its own table cannot have been created.                      *)
THEOREM OrphanedStaysOut == Spec => []OrphanedDoesNotServe
<1>1. IInv => OrphanedDoesNotServe
  <2> SUFFICES ASSUME IInv, NEW p \in Processes, Newest(p), Orphaned(p), pc[p] = "serving"
               PROVE  FALSE
    BY DEF OrphanedDoesNotServe
  <2>1. Version[p] \in tables
    <3>1. \A v \in recorded : v <= Version[p] /\ v \in Nat
      BY VersionAssumption DEF IInv, TypeOK, Versions, Newest
    <3> QED
      BY <3>1, VersionAssumption DEF Overtaken, IInv, MigratedFirst, RecordedIsCreated
  <2> QED
    BY <2>1 DEF IInv, ReferencedExist, Orphaned, Lost
<1> QED
  BY <1>1, Invariance, PTL
=============================================================================
