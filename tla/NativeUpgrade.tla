--------------------------- MODULE NativeUpgrade ---------------------------
(***************************************************************************)
(* The native installer (installer/install-debian.sh) run over an empty or *)
(* an existing host: the recovery snapshot it takes first, the             *)
(* installation, and the rollback its error trap performs.                 *)
(*                                                                         *)
(* The eighteen managed paths are four here: the code and its virtual      *)
(* environment (TARGET), the configuration directory (CONFIG_DIR, which    *)
(* also holds the database), a managed unit or helper, and one that only   *)
(* the new release has ("extra").  A path is "old", "new", absent, or      *)
(* "part": what a command that failed half way leaves.  A database is the  *)
(* number of changes stored in it and the release whose schema it has.     *)
(***************************************************************************)
EXTENDS Integers, Sequences

CONSTANTS
    MaxWrites,      \* settings stored by the running service
    MaxFaults,      \* commands that fail
    MaxRuns         \* runs of the installer

VARIABLES
    disk,       \* path -> its content
    db,         \* the database, NoDb when there is none
    zone,       \* the timezone of the host: the change that chose it
    service,    \* the release that runs, or "down"
    snap,       \* the recovery directory of this run
    whole,      \* the snapshot of this run was completed
    pc,         \* the step the installer is at, "idle" outside a run
    at,         \* the position in Paths of a loop over the managed paths
    before,     \* what the paths were when this run came to its snapshot
    damaged,    \* a command of the rollback itself failed
    runs, faults

vars == <<disk, db, zone, service, snap, whole, pc, at, before, damaged, runs, faults>>

\* The managed paths in the order of the installer's loop.
Paths == <<"code", "config", "unit", "extra">>
PathSet == {Paths[i] : i \in DOMAIN Paths}

Contents == {"absent", "old", "part", "new"}
NoDb == [rev |-> 0, schema |-> "none"]

\* RECOVERY_DIR before anything is copied into it; `state` is the file path-state.
NoSnapshot ==
    [state |-> [p \in PathSet |-> "none"], files |-> [p \in PathSet |-> "absent"],
     copied |-> NoDb, db |-> NoDb, zone |-> -1]

Init ==
    /\ \/ /\ disk = [p \in PathSet |-> IF p = "extra" THEN "absent" ELSE "old"]
          /\ db = [rev |-> 0, schema |-> "old"] /\ service = "old"
       \/ disk = [p \in PathSet |-> "absent"] /\ db = NoDb /\ service = "down"
    /\ zone = 0
    /\ snap = NoSnapshot /\ whole = FALSE /\ before = disk /\ damaged = FALSE
    /\ pc = "idle" /\ at = 1 /\ runs = 0 /\ faults = 0

Goto(step) == pc' = step /\ at' = 1

----------------------------------------------------------------------------
(* The service: it stores settings while it runs, and a start brings the    *)
(* database to its schema and the host to the stored timezone.              *)

Write ==
    /\ service # "down" /\ db.rev < MaxWrites
    /\ db' = [db EXCEPT !.rev = @ + 1] /\ zone' = db.rev + 1
    /\ UNCHANGED <<disk, service, snap, whole, pc, at, before, damaged, runs, faults>>

Starts ==
    /\ service' = disk["code"] /\ db' = [db EXCEPT !.schema = disk["code"]]
    /\ zone' = db.rev

\* init_database refuses a schema that is not its own or an older one.
Runnable == disk["code"] \in {"old", "new"} /\ (db.schema = "new" => disk["code"] = "new")

----------------------------------------------------------------------------
(* The run                                                                  *)

\* detect_installation_mode: an upgrade when the code or the database is there.
UpgradeMode == disk["code"] # "absent" \/ db # NoDb

\* create_directories and create_master_key; an existing master key is retained.
Directories ==
    [disk EXCEPT !["code"] = IF @ = "absent" THEN "part" ELSE @,
                 !["config"] = IF @ = "absent" THEN "new" ELSE @]

\* require_root to create_master_key.  A run that one of the checks or the comparison of
\* versions refuses changes nothing.  Only an upgrade takes a snapshot.
Begin ==
    /\ pc = "idle" /\ runs < MaxRuns
    /\ runs' = runs + 1 /\ snap' = NoSnapshot /\ whole' = FALSE
    /\ damaged' = FALSE
    /\ disk' = Directories
    /\ before' = (IF UpgradeMode THEN Directories ELSE disk)
    /\ Goto(IF UpgradeMode THEN "database" ELSE "code")
    /\ UNCHANGED <<db, zone, service, faults>>

\* snapshot_sqlite_database, while the service still runs.
SnapshotDatabase ==
    /\ pc = "database" /\ snap' = [snap EXCEPT !.db = db] /\ Goto("zone")
    /\ UNCHANGED <<disk, db, zone, service, whole, before, damaged, runs, faults>>

SnapshotZone ==
    /\ pc = "zone" /\ snap' = [snap EXCEPT !.zone = zone] /\ Goto("record")
    /\ UNCHANGED <<disk, db, zone, service, whole, before, damaged, runs, faults>>

\* snapshot_recovery_path writes the line of path-state first and copies the path then.
Record ==
    /\ pc = "record" /\ at \in DOMAIN Paths
    /\ LET p == Paths[at] IN
       IF disk[p] = "absent"
       THEN snap' = [snap EXCEPT !.state[p] = "absent"] /\ at' = at + 1 /\ pc' = pc
       ELSE snap' = [snap EXCEPT !.state[p] = "present"] /\ at' = at /\ pc' = "copy"
    /\ UNCHANGED <<disk, db, zone, service, whole, before, damaged, runs, faults>>

Copy ==
    /\ pc = "copy" /\ pc' = "record" /\ at' = at + 1
    /\ snap' = [snap EXCEPT !.files[Paths[at]] = disk[Paths[at]],
                            !.copied = IF Paths[at] = "config" THEN db ELSE @]
    /\ UNCHANGED <<disk, db, zone, service, whole, before, damaged, runs, faults>>

StopService ==
    /\ pc = "record" /\ at \notin DOMAIN Paths
    /\ service' = "down" /\ whole' = TRUE /\ Goto("code")
    /\ UNCHANGED <<disk, db, zone, snap, before, damaged, runs, faults>>

\* copy_application and create_virtual_environment.
InstallCode ==
    /\ pc = "code" /\ disk' = [disk EXCEPT !["code"] = "new"] /\ Goto("units")
    /\ UNCHANGED <<db, zone, service, snap, whole, before, damaged, runs, faults>>

\* install_cli, the helpers, install_service_files and configure_ip_forwarding.
InstallUnits ==
    /\ pc = "units" /\ disk' = [disk EXCEPT !["unit"] = "new", !["extra"] = "new"]
    /\ Goto("start")
    /\ UNCHANGED <<db, zone, service, snap, whole, before, damaged, runs, faults>>

StartService ==
    /\ pc = "start" /\ Starts /\ Goto("commit")
    /\ UNCHANGED <<disk, snap, whole, before, damaged, runs, faults>>

\* commit_upgrade; installed-version is a file of the configuration directory.
Commit ==
    /\ pc = "commit" /\ disk' = [disk EXCEPT !["config"] = "new"]
    /\ Goto("idle")
    /\ UNCHANGED <<db, zone, service, snap, whole, before, damaged, runs, faults>>

----------------------------------------------------------------------------
(* Failures.  The error trap rolls back an upgrade that has a recovery      *)
(* directory; a clean installation stays as it is.                          *)

Partial(p) == [disk EXCEPT ![p] = "part"]

Fails ==
    /\ faults < MaxFaults /\ faults' = faults + 1
    /\ Goto(IF whole \/ pc \in {"database", "zone", "record", "copy"} THEN "rollback" ELSE "idle")
    /\ UNCHANGED <<zone, whole, before, damaged, runs>>

\* A step that fails may have left its work half done.
SnapshotFails ==
    /\ pc \in {"database", "zone", "record"} /\ Fails
    /\ UNCHANGED <<disk, db, service, snap>>

CopyFails ==
    /\ pc = "copy" /\ Fails
    /\ snap' = [snap EXCEPT !.files[Paths[at]] = "part"]
    /\ UNCHANGED <<disk, db, service>>

InstallFails ==
    /\ pc \in {"code", "units"} /\ Fails
    /\ disk' = Partial(IF pc = "code" THEN "code" ELSE "unit")
    /\ UNCHANGED <<db, service, snap>>

\* The candidate does not stay up, before or after it brought the database to its schema.
StartFails ==
    /\ pc = "start" /\ Fails
    /\ service' = "down" /\ db' \in {db, [db EXCEPT !.schema = disk["code"]]}
    /\ UNCHANGED <<disk, snap>>

CommitFails ==
    /\ pc = "commit" /\ Fails /\ UNCHANGED <<disk, db, service, snap>>

\* The installer is killed or the host loses power: nothing is rolled back, and a boot
\* starts the service that is installed.
Cut ==
    /\ pc # "idle" /\ faults < MaxFaults /\ faults' = faults + 1
    /\ Goto("idle") /\ snap' = NoSnapshot /\ whole' = FALSE /\ before' = disk
    /\ \/ UNCHANGED <<db, zone, service>>
       \/ IF Runnable THEN Starts ELSE service' = "down" /\ UNCHANGED <<db, zone>>
    /\ UNCHANGED <<disk, damaged, runs>>

----------------------------------------------------------------------------
(* rollback_upgrade.  It runs as the left side of `|| true`, so a command   *)
(* of it that fails does not end it.                                        *)

\* Mutant: the files are replaced under a running service.
RollbackStopSkipped ==
    /\ pc = "rollback" /\ Goto("remove")
    /\ UNCHANGED <<disk, db, zone, service, snap, whole, before, damaged, runs, faults>>

RollbackStop ==
    /\ pc = "rollback" /\ service' = "down" /\ Goto("remove")
    /\ UNCHANGED <<disk, db, zone, snap, whole, before, damaged, runs, faults>>

\* restore_recovery_files: every recorded path is removed, and copied back when it was there.
RollbackRemove ==
    /\ pc = "remove" /\ at \in DOMAIN Paths /\ snap.state[Paths[at]] # "none"
    /\ disk' = [disk EXCEPT ![Paths[at]] = "absent"]
    /\ db' = IF Paths[at] = "config" THEN NoDb ELSE db
    /\ IF snap.state[Paths[at]] = "absent" THEN at' = at + 1 /\ pc' = pc
                                            ELSE at' = at /\ pc' = "restore"
    /\ UNCHANGED <<zone, service, snap, whole, before, damaged, runs, faults>>

RollbackCopy ==
    /\ pc = "restore" /\ pc' = "remove" /\ at' = at + 1
    /\ \/ /\ disk' = [disk EXCEPT ![Paths[at]] = snap.files[Paths[at]]]
          /\ UNCHANGED <<damaged, faults>>
       \/ /\ faults < MaxFaults /\ faults' = faults + 1
          /\ disk' = Partial(Paths[at]) /\ damaged' = TRUE
    /\ db' = IF Paths[at] = "config" THEN snap.copied ELSE db
    /\ UNCHANGED <<zone, service, snap, whole, before, runs>>

RollbackDatabase ==
    /\ pc = "remove"
    /\ at \in DOMAIN Paths => snap.state[Paths[at]] = "none"
    /\ db' = IF snap.db # NoDb THEN snap.db ELSE db
    /\ Goto("timezone")
    /\ UNCHANGED <<disk, zone, service, snap, whole, before, damaged, runs, faults>>

\* restore_system_timezone; a failure is reported and the rollback goes on.
RollbackZone ==
    /\ pc = "timezone"
    /\ \/ /\ zone' = IF snap.zone = -1 THEN zone ELSE snap.zone
          /\ UNCHANGED <<damaged, faults>>
       \/ faults < MaxFaults /\ faults' = faults + 1 /\ damaged' = TRUE /\ zone' = zone
    /\ Goto("restart")
    /\ UNCHANGED <<disk, db, service, snap, whole, before, runs>>

RollbackStart ==
    /\ pc = "restart" /\ Goto("restored")
    /\ IF Runnable THEN Starts ELSE service' = "down" /\ UNCHANGED <<db, zone>>
    /\ UNCHANGED <<disk, snap, whole, before, damaged, runs, faults>>

\* The installer exits.
Exit ==
    /\ pc = "restored" /\ Goto("idle")
    /\ snap' = NoSnapshot /\ whole' = FALSE /\ before' = disk
    /\ UNCHANGED <<disk, db, zone, service, damaged, runs, faults>>

----------------------------------------------------------------------------
Snapshot == SnapshotDatabase \/ SnapshotZone \/ Record \/ Copy
Install == StopService \/ InstallCode \/ InstallUnits \/ StartService \/ Commit
Failure == SnapshotFails \/ CopyFails \/ InstallFails \/ StartFails \/ CommitFails \/ Cut
Rollback ==
    RollbackStop \/ RollbackRemove \/ RollbackCopy \/ RollbackDatabase \/ RollbackZone
    \/ RollbackStart \/ Exit

Next == Write \/ Begin \/ Snapshot \/ Install \/ Failure \/ Rollback

Spec == Init /\ [][Next]_vars

----------------------------------------------------------------------------
(* Properties                                                               *)

Databases == [rev : 0..MaxWrites, schema : {"none", "old", "part", "new"}]
Steps ==
    {"idle", "database", "zone", "record", "copy", "code", "units", "start", "commit",
     "rollback", "remove", "restore", "timezone", "restart", "restored"}

\* The types of the state.
TypeOK ==
    /\ disk \in [PathSet -> Contents] /\ before \in [PathSet -> Contents]
    /\ db \in Databases /\ zone \in 0..MaxWrites
    /\ service \in {"down", "old", "new"}
    /\ snap \in [state : [PathSet -> {"none", "present", "absent"}],
                 files : [PathSet -> Contents], copied : Databases, db : Databases,
                 zone : -1..MaxWrites]
    /\ whole \in BOOLEAN /\ damaged \in BOOLEAN
    /\ pc \in Steps /\ at \in 1..(Len(Paths) + 1)
    /\ runs \in 0..MaxRuns /\ faults \in 0..MaxFaults

\* A path is still what it was when the run began, or the recovery directory has it.
Kept(p) ==
    \/ disk[p] = before[p]
    \/ snap.state[p] = "present" /\ snap.files[p] = before[p]
    \/ before[p] = "absent"

\* Once the snapshot is complete, every path of the previous installation is at every moment
\* in its place or whole in the recovery directory, whatever fails and wherever the installer
\* and its rollback are cut short.
PreviousKept == whole => \A p \in PathSet : Kept(p)

\* What the installer says of its rollback, "restoring the previous ExitLane installation": a
\* failure at any step, the snapshot included, never leaves the previous installation gone
\* from the disk and incomplete in the recovery directory.
PreviousSurvives == pc # "idle" /\ before["code"] # "absent" => \A p \in PathSet : Kept(p)

\* A rollback that itself met no error ends with every managed path as it was, the paths only
\* the new release has gone, and the previous release running.
RollbackRestores ==
    pc = "restored" /\ whole /\ ~damaged =>
        disk = before /\ (before["code"] \in {"old", "new"} => service = before["code"])

\* A release never runs on the database of another one: the rollback stops the candidate and
\* puts the database back before it starts the previous release.
SchemaMatches == service # "down" => db.schema = service

=============================================================================
