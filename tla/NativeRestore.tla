----------------------------- MODULE NativeRestore -----------------------------
(***************************************************************************)
(* Backup and restore of a native appliance: lifecycle.py with the service *)
(* actions and the forwarding guard cli.py gives it.                       *)
(*                                                                         *)
(* A restore replaces three components, the database, the master key and   *)
(* the WireGuard directory, under a forwarding guard of its own, with a    *)
(* snapshot to go back to. The application may be changing peers, and      *)
(* another command may be collecting a backup.                             *)
(***************************************************************************)
EXTENDS Naturals

CONSTANTS MaxRuns   \* bound on the restores and backups begun

Components == {"db", "key", "wg"}
Generations == {"old", "new"}
(* What the checks of a backup find wrong, in the order they look.           *)
Defects == {"envelope", "authentication", "archive", "manifest", "database",
            "pairing", "ingress", "hooks", "peers"}

VARIABLES
  gen,       \* generation of each component; "torn" for a half replaced directory
  rev,       \* peer revision the database and the directory are at
  revoked,   \* the restored database has lost its sessions
  snap,      \* components copied to the recovery directory; {} when there is none
  running,   \* exitlane.service runs
  ingress,   \* the protected interface is up
  guard,     \* table exitlane_restore is loaded
  net,       \* database whose killswitch and egress guards are installed
  lock,      \* holder of the lifecycle lock
  state,     \* holder of the WireGuard state lock
  pc, back, bad, result,
  backup,    \* the collected backup
  bpc, begun

vars == <<gen, rev, revoked, snap, running, ingress, guard, net, lock, state,
          pc, back, bad, result, backup, bpc, begun>>

Files == <<gen, rev, revoked, snap>>
Host == <<running, ingress, guard, net>>
Backup == <<backup, bpc>>

Init ==
  /\ gen = [c \in Components |-> "old"] /\ rev = [c \in {"db", "wg"} |-> 0]
  /\ revoked = FALSE /\ snap = {}
  /\ running = TRUE /\ ingress = TRUE /\ guard = FALSE /\ net = "old"
  /\ lock = "free" /\ state = "free"
  /\ pc = "idle" /\ back = FALSE /\ bad = {} /\ result = "none"
  /\ backup = [c \in {} |-> 0] /\ bpc = "idle" /\ begun = 0

Whole == \A c, d \in Components : gen[c] = gen[d] /\ gen[c] \in Generations

-----------------------------------------------------------------------------
(* What restore_backup asks of the file, in order.                           *)
Decrypts == bad \cap {"envelope", "authentication"} = {}
PayloadValid == bad \cap {"archive", "manifest"} = {}
DatabaseValid == "database" \notin bad
Paired == "pairing" \notin bad
IngressNamed == "ingress" \notin bad
HooksKnown == "hooks" \notin bad
PeersAgree == "peers" \notin bad

Acceptable == PayloadValid /\ DatabaseValid /\ Paired /\ IngressNamed /\ HooksKnown /\ PeersAgree

Begin ==
  /\ pc = "idle" /\ begun < MaxRuns
  /\ gen = [c \in Components |-> "old"] /\ snap = {}
  /\ pc' = "decrypt" /\ begun' = begun + 1
  /\ bad' \in {{}} \cup {{d} : d \in Defects}
  /\ result' = "none" /\ back' = FALSE
  /\ UNCHANGED <<Files, Host, lock, state, Backup>>

(* lifecycle_lock does not wait.                                             *)
Lock ==
  /\ pc = "decrypt" /\ Decrypts
  /\ IF lock = "free" THEN lock' = "restore" /\ pc' = "check" /\ UNCHANGED result
     ELSE pc' = "idle" /\ result' = "refused" /\ UNCHANGED lock
  /\ UNCHANGED <<Files, Host, state, back, bad, Backup, begun>>

Refuse ==
  /\ \/ pc = "decrypt" /\ ~Decrypts /\ UNCHANGED lock
     \/ pc = "check" /\ ~Acceptable /\ lock' = "free"
  /\ pc' = "idle" /\ result' = "refused"
  /\ UNCHANGED <<Files, Host, state, back, bad, Backup, begun>>

(* The guard is loaded and read back before anything is stopped. A failure   *)
(* leaves whatever nft loaded.                                               *)
Guard ==
  /\ pc = "check" /\ Acceptable
  /\ \/ guard' = TRUE /\ pc' = "stop" /\ UNCHANGED <<lock, result>>
     \/ guard' \in BOOLEAN /\ pc' = "idle" /\ lock' = "free" /\ result' = "error"
  /\ UNCHANGED <<Files, running, ingress, net, state, back, bad, Backup, begun>>

Raise == pc' = "rollback"
Restoring == <<lock, state, back, bad, Backup, begun>>

Stop ==
  /\ pc = "stop" /\ state # "app"
  /\ \/ running' = FALSE /\ pc' = "snapshot"
     \/ running' \in {running, FALSE} /\ Raise
  /\ UNCHANGED <<Files, ingress, guard, net, Restoring, result>>

(* The copies are made one by one; "ready" once there are all three.         *)
Snapshot ==
  /\ pc = "snapshot"
  /\ \/ \E c \in Components \ snap : snap' = snap \cup {c} /\ UNCHANGED pc
     \/ snap = Components /\ pc' = "reset" /\ UNCHANGED snap
     \/ snap # Components /\ UNCHANGED snap /\ Raise
  /\ UNCHANGED <<gen, rev, revoked, Host, Restoring, result>>

(* reset-egress: the old tunnel, its guards, its configuration, then the     *)
(* ingress. Half of it may have happened when it fails.                      *)
Reset(ok) ==
  IF ok THEN net' = "none" /\ ingress' = FALSE
  ELSE net' \in {net, "none"} /\ ingress' \in {ingress, FALSE}

ResetEgress ==
  /\ pc = "reset"
  /\ \/ Reset(TRUE) /\ pc' = "database"
     \/ Reset(FALSE) /\ Raise
  /\ UNCHANGED <<Files, running, guard, Restoring, result>>

ReplaceDatabase ==
  /\ pc = "database"
  /\ \/ /\ gen' = [gen EXCEPT !["db"] = "new"] /\ revoked' = FALSE
        /\ pc' = "key" /\ back' = TRUE
     \/ UNCHANGED <<gen, revoked, back>> /\ Raise
  /\ UNCHANGED <<rev, snap, Host, lock, state, bad, result, Backup, begun>>

ReplaceKey ==
  /\ pc = "key"
  /\ \/ gen' = [gen EXCEPT !["key"] = "new"] /\ pc' = "wireguard"
     \/ UNCHANGED gen /\ Raise
  /\ UNCHANGED <<rev, revoked, snap, Host, Restoring, result>>

(* _replace_wireguard empties the directory and fills it file by file.       *)
ReplaceWireguard ==
  /\ pc = "wireguard"
  /\ \/ gen["wg"] # "torn" /\ gen' = [gen EXCEPT !["wg"] = "torn"] /\ UNCHANGED pc
     \/ gen["wg"] = "torn" /\ gen' = [gen EXCEPT !["wg"] = "new"] /\ pc' = "revoke"
     \/ UNCHANGED gen /\ Raise
  /\ UNCHANGED <<rev, revoked, snap, Host, Restoring, result>>

Revoke ==
  /\ pc = "revoke"
  /\ \/ revoked' = TRUE /\ pc' = "guards"
     \/ revoked' \in BOOLEAN /\ Raise
  /\ UNCHANGED <<gen, rev, snap, Host, Restoring, result>>

-----------------------------------------------------------------------------
(* "start", for the restored and for the recovered generation: the guards of *)
(* the database now in place, the ingress, the service, its health, and only *)
(* then the restore guard goes.                                              *)
InstallGuards ==
  /\ pc \in {"guards", "reguards"}
  /\ \/ net' = gen["db"] /\ pc' = IF pc = "guards" THEN "up" ELSE "reup"
     \/ net' \in {net, "none"} /\ pc' = IF pc = "guards" THEN "rollback" ELSE "giveup"
  /\ UNCHANGED <<Files, running, ingress, guard, Restoring, result>>

StartIngress ==
  /\ pc \in {"up", "reup"}
  /\ \/ ingress' = TRUE /\ pc' = IF pc = "up" THEN "service" ELSE "reservice"
     \/ ingress' \in BOOLEAN /\ pc' = IF pc = "up" THEN "rollback" ELSE "giveup"
  /\ UNCHANGED <<Files, running, guard, net, Restoring, result>>

(* _local_health_check: fifteen requests, a second apart.                    *)
HealthAnswers == BOOLEAN

(* A service that started may still answer no health request.                *)
StartService ==
  /\ pc \in {"service", "reservice"}
  /\ \E healthy \in HealthAnswers :
       IF healthy THEN running' = TRUE /\ pc' = IF pc = "service" THEN "open" ELSE "reopen"
       ELSE running' \in BOOLEAN /\ pc' = IF pc = "service" THEN "rollback" ELSE "giveup"
  /\ UNCHANGED <<Files, ingress, guard, net, Restoring, result>>

(* The guard goes; with it, at the end of the transaction, the snapshot.     *)
OpenForwarding ==
  /\ pc \in {"open", "reopen"}
  /\ \/ /\ guard' = FALSE /\ snap' = {} /\ pc' = "idle" /\ lock' = "free"
        /\ result' = IF pc = "open" THEN "ok" ELSE "error"
     \/ /\ pc' = IF pc = "open" THEN "rollback" ELSE "giveup"
        /\ UNCHANGED <<guard, snap, lock, result>>
  /\ UNCHANGED <<gen, rev, revoked, running, ingress, net, state, back, bad, Backup, begun>>

-----------------------------------------------------------------------------
(* The except branch: the candidate is stopped first.                        *)
StopCandidate ==
  /\ pc = "rollback" /\ state # "app"
  /\ \/ running' = FALSE /\ pc' = IF snap = Components THEN "rereset" ELSE "giveup"
     \/ running' \in {running, FALSE} /\ pc' = "giveup"
  /\ UNCHANGED <<Files, ingress, guard, net, Restoring, result>>

(* The network of a candidate whose files were replaced is reset; if that    *)
(* fails the files are recovered all the same and the restore gives up.      *)
ResetCandidate ==
  /\ pc = "rereset"
  /\ \/ back /\ Reset(TRUE) /\ pc' = "refiles"
     \/ back /\ Reset(FALSE) /\ pc' = "refilesonly"
     \/ ~back /\ UNCHANGED <<net, ingress>> /\ pc' = "refiles"
  /\ UNCHANGED <<Files, running, guard, Restoring, result>>

RecoverFiles ==
  /\ pc \in {"refiles", "refilesonly"}
  /\ \/ \E c \in {"db", "key"} :
          /\ gen[c] # "old" /\ (c = "key" => gen["db"] = "old")
          /\ gen' = [gen EXCEPT ![c] = "old"] /\ UNCHANGED pc
     \/ /\ gen["db"] = "old" /\ gen["key"] = "old" /\ gen["wg"] # "torn"
        /\ gen' = [gen EXCEPT !["wg"] = "torn"] /\ UNCHANGED pc
     \/ /\ gen["db"] = "old" /\ gen["key"] = "old" /\ gen["wg"] = "torn"
        /\ gen' = [gen EXCEPT !["wg"] = "old"]
        /\ pc' = IF pc = "refiles" THEN "reguards" ELSE "giveup"
     \/ UNCHANGED gen /\ pc' = "giveup"
  /\ revoked' = (revoked /\ gen'["db"] = "new")
  /\ UNCHANGED <<rev, snap, Host, Restoring, result>>

(* A bug to be caught: the recovery directory is always removed.             *)
GiveUpCleans ==
  /\ pc = "giveup"
  /\ pc' = "idle" /\ lock' = "free" /\ result' = "error" /\ snap' = {}
  /\ UNCHANGED <<gen, rev, revoked, Host, state, back, bad, Backup, begun>>

(* An error out of the except branch: everything stays as it is, except that *)
(* an incomplete snapshot is removed.                                        *)
GiveUp ==
  /\ pc = "giveup"
  /\ pc' = "idle" /\ lock' = "free" /\ result' = "error"
  /\ snap' = IF snap = Components THEN snap ELSE {}
  /\ UNCHANGED <<gen, rev, revoked, Host, state, back, bad, Backup, begun>>

(* An interrupt is no Exception: only the finally blocks run.                *)
Interrupt ==
  /\ pc \notin {"idle", "decrypt", "check"}
  /\ pc' = "idle" /\ lock' = "free" /\ result' = "interrupted"
  /\ snap' = IF snap = Components THEN snap ELSE {}
  /\ UNCHANGED <<gen, rev, revoked, Host, state, back, bad, Backup, begun>>

-----------------------------------------------------------------------------
(* create_backup: the lifecycle lock, the WireGuard state lock, one file     *)
(* after the other.                                                          *)
BackupBegin ==
  /\ bpc = "idle" /\ lock = "free" /\ begun < MaxRuns
  /\ lock' = "backup" /\ bpc' = "lock" /\ begun' = begun + 1
  /\ backup' = [c \in {} |-> 0]
  /\ UNCHANGED <<Files, Host, state, pc, back, bad, result>>

BackupLock ==
  /\ bpc = "lock" /\ state = "free"
  /\ state' = "backup" /\ bpc' = "collect"
  /\ UNCHANGED <<Files, Host, lock, pc, back, bad, result, backup, begun>>

Collect(c) ==
  /\ bpc = "collect" /\ c \notin DOMAIN backup
  /\ c = "key" => "db" \in DOMAIN backup
  /\ c = "wg" => "key" \in DOMAIN backup
  /\ backup' = [d \in DOMAIN backup \cup {c} |->
                  IF d = c THEN [gen |-> gen[c], rev |-> IF c = "key" THEN 0 ELSE rev[c]]
                  ELSE backup[d]]
  /\ UNCHANGED <<Files, Host, lock, state, pc, back, bad, result, bpc, begun>>

(* The staged files are encrypted and renamed into place; an error at any    *)
(* point leaves no backup.                                                   *)
BackupEnd ==
  /\ bpc \in {"lock", "collect"}
  /\ \/ DOMAIN backup = Components /\ bpc' = "done" /\ UNCHANGED backup
     \/ bpc' = "idle" /\ backup' = [c \in {} |-> 0]
  /\ lock' = "free" /\ state' = IF state = "backup" THEN "free" ELSE state
  /\ UNCHANGED <<Files, Host, pc, back, bad, result, begun>>

(* The application changes its peers: database, then directory.              *)
PeersBegin ==
  /\ running /\ state = "free" /\ Whole /\ rev["db"] = 0
  /\ state' = "app" /\ rev' = [rev EXCEPT !["db"] = 1]
  /\ UNCHANGED <<gen, revoked, snap, Host, lock, pc, back, bad, result, Backup, begun>>

PeersEnd ==
  /\ state = "app"
  /\ state' = "free" /\ rev' = [rev EXCEPT !["wg"] = rev["db"]]
  /\ UNCHANGED <<gen, revoked, snap, Host, lock, pc, back, bad, result, Backup, begun>>

Next ==
  \/ Begin \/ Lock \/ Refuse \/ Guard \/ Stop \/ Snapshot \/ ResetEgress \/ ReplaceDatabase
  \/ ReplaceKey \/ ReplaceWireguard \/ Revoke \/ InstallGuards \/ StartIngress
  \/ StartService \/ OpenForwarding \/ StopCandidate \/ ResetCandidate \/ RecoverFiles
  \/ GiveUp \/ Interrupt
  \/ BackupBegin \/ BackupLock \/ (\E c \in Components : Collect(c)) \/ BackupEnd
  \/ PeersBegin \/ PeersEnd

Spec == Init /\ [][Next]_vars

-----------------------------------------------------------------------------
(* A component is of one generation or, the directory, half replaced.        *)
TypeOK ==
  /\ gen \in [Components -> Generations \cup {"torn"}] /\ rev \in [{"db", "wg"} -> 0..1]
  /\ snap \subseteq Components /\ net \in Generations \cup {"none"}
  /\ {revoked, running, ingress, guard, back} \subseteq BOOLEAN
  /\ lock \in {"free", "restore", "backup"} /\ state \in {"free", "app", "backup"}
  /\ result \in {"none", "ok", "error", "refused", "interrupted"} /\ begun \in 0..MaxRuns

(* The application never runs on components of two generations, nor on a     *)
(* restored database that still has sessions, whatever step of the restore   *)
(* or of its rollback failed.                                                *)
RunsOneGeneration == running => Whole /\ (gen["db"] = "new" => revoked)

(* "No restored or recovered service is exposed until its own guards exist": *)
(* protected clients are forwarded only under the guards of the database in  *)
(* place, or the restore guard drops them.                                   *)
ForwardingGuarded == ingress /\ ~guard => net = gen["db"]

(* While a component differs from what the appliance ran on, and the restore *)
(* did not succeed, everything needed to go back is on the disk; also after  *)
(* an interrupt, and after a rollback that failed.                           *)
SnapshotKept ==
  (\E c \in Components : gen[c] # "old") /\ result # "ok" => snap = Components

(* A finished backup holds one peer revision and, unless it was taken of an  *)
(* appliance a failed restore left torn, one generation.                     *)
BackupIsOneState ==
  bpc = "done" =>
    /\ backup["db"].rev = backup["wg"].rev
    /\ snap = {} => \A c, d \in Components : backup[c].gen = backup[d].gen
=============================================================================
