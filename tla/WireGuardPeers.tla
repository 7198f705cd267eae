--------------------------- MODULE WireGuardPeers ---------------------------
(***************************************************************************)
(* services/wireguard_peers.py: the peers of the WireGuard ingress, kept in *)
(* four places (database rows, server file, client files, running          *)
(* interface), changed under a lock that backups share and read by         *)
(* `configuration` without it.                                             *)
(*                                                                         *)
(* A key stands for a key pair and is a number, issued in order: `wg        *)
(* genkey` never repeats one.  An entry <<key, host>> is a [Peer] section   *)
(* of the server file, a peer of the interface, or what a client file       *)
(* holds.  Names, descriptions and the shared profile values are left out.  *)
(* Replacing a file is durable once it has happened.                        *)
(***************************************************************************)
EXTENDS Naturals, FiniteSets

CONSTANTS Peer,       \* peer identifiers
          Default,    \* the peer that adopts the legacy client
          Hosts,      \* assignable addresses of the subnet are 1..Hosts
          MaxPeers,   \* MAX_FILES - 3
          MaxKeys     \* bound on the keys ever issued

ASSUME PeerAssumption == /\ Default \in Peer
                         /\ Hosts \in Nat \ {0} /\ MaxPeers \in Nat /\ MaxKeys \in Nat \ {0}

VARIABLES profile,    \* the wireguard_ingress_profile row exists
          rows,       \* committed rows of wireguard_peers
          server,     \* entries of the server file
          files,      \* the client file of each peer
          kernel,     \* entries of the running interface
          issued,     \* number of keys issued
          op,         \* the change that holds the lock
          backup,     \* the backup that holds the lock
          read,       \* a running call of configuration
          retired,    \* history: keys revoked or replaced by a committed change
          doubt       \* history: peers whose change was cut or reported as rollback failed

vars == <<profile, rows, server, files, kernel, issued, op, backup, read, retired, doubt>>

Host == 1..Hosts
Key == 1..MaxKeys
Entry == Key \X Host
NoFile == <<0, 0>>
NoRow == [status |-> "none", key |-> 0, host |-> 0]
Row == [status : {"active", "revoked"}, key : Key, host : Host]

EntryOf(row) == <<row.key, row.host>>
Known(rs) == {p \in Peer : rs[p].status # "none"}
ActivePeers(rs) == {p \in Peer : rs[p].status = "active"}

\* What _validate_state compares: the server file lists the active rows, and the client file of
\* every row holds that row's key and address.
ServerMatches(rs, sv) == sv = {EntryOf(rs[p]) : p \in ActivePeers(rs)}
FileMatches(rs, fs, p) == fs[p] = EntryOf(rs[p])
Validates(rs, sv, fs) == /\ ServerMatches(rs, sv)
                         /\ \A p \in Known(rs) : FileMatches(rs, fs, p)

NoOp == [at |-> "none", kind |-> "none", peer |-> Default, row |-> NoRow,
         old |-> {}, new |-> {}, file |-> NoFile]
NoRead == [at |-> "idle", peer |-> Default, rows |-> [p \in Peer |-> NoRow], left |-> {},
           got |-> NoFile]
NoBackup == [at |-> "idle", rows |-> [p \in Peer |-> NoRow]]

Stages == {"none", "server", "client", "sync", "commit", "unlink", "undo_server", "undo_client",
           "undo_sync"}

\* Every variable has its type; the stage says which of op's fields are in use.
TypeOK ==
    /\ profile \in BOOLEAN
    /\ rows \in [Peer -> Row \cup {NoRow}]
    /\ server \subseteq Entry /\ kernel \subseteq Entry
    /\ files \in [Peer -> Entry \cup {NoFile}]
    /\ issued \in 0..MaxKeys
    /\ op \in [at : Stages, kind : {"none", "create", "regenerate", "revoke", "delete"},
               peer : Peer, row : Row \cup {NoRow}, old : SUBSET Entry, new : SUBSET Entry,
               file : Entry \cup {NoFile}]
    /\ backup \in [at : {"idle", "files"}, rows : [Peer -> Row \cup {NoRow}]]
    /\ read \in [at : {"idle", "check", "done"}, peer : Peer,
                 rows : [Peer -> Row \cup {NoRow}], left : SUBSET Peer,
                 got : Entry \cup {NoFile}]
    /\ retired \subseteq Key /\ doubt \subseteq Peer

\* A legacy appliance: one client, known to the server file, its own file and the interface.
Init ==
    /\ profile = FALSE /\ rows = [p \in Peer |-> NoRow]
    /\ server = {<<1, 1>>} /\ kernel = server
    /\ files = [p \in Peer |-> IF p = Default THEN <<1, 1>> ELSE NoFile]
    /\ issued = 1 /\ op = NoOp /\ backup = NoBackup /\ read = NoRead
    /\ retired = {} /\ doubt = {}
----------------------------------------------------------------------------
(* The lock, and where the event loop can run another task *)

\* state_lock is tried, never waited for: a second caller is refused and nothing changes.
LockFree == op.at = "none" /\ backup.at = "idle"

\* A change gives up the event loop while a sync command runs and when it starts the restore task;
\* its file writes and its commit run without a pause.
Yields == op.at \in {"none", "sync", "undo_server", "undo_sync"}

At(stage) == op.at = stage
Goto(stage) == op' = [op EXCEPT !.at = stage]
HasClient == op.kind \in {"create", "regenerate"}

\* migrate_legacy adopts the one legacy client; with a profile it only validates.
Migrate ==
    /\ LockFree /\ ~profile
    /\ \E e \in server :
         /\ server = {e} /\ files[Default] = e
         /\ rows' = [rows EXCEPT ![Default] = [status |-> "active", key |-> e[1], host |-> e[2]]]
    /\ profile' = TRUE
    /\ UNCHANGED <<server, files, kernel, issued, op, backup, read, retired, doubt>>

\* _allocate: the lowest address that no row holds, revoked rows included.
Free(rs) == {h \in Host : \A p \in Known(rs) : rs[p].host # h}
Allocate(rs) == CHOOSE h \in Free(rs) : \A g \in Free(rs) : h <= g

\* The start of every change: the lock, BEGIN IMMEDIATE, _validate_state, then the operation, which
\* computes the row and the server file and remembers the old files.
Begin(kind, p, row, new) ==
    /\ LockFree /\ profile /\ Validates(rows, server, files)
    /\ op' = [at |-> IF kind = "delete" THEN "unlink" ELSE "server", kind |-> kind, peer |-> p,
              row |-> row, old |-> server, new |-> new, file |-> files[p]]
    /\ UNCHANGED <<profile, rows, server, files, kernel, backup, read, retired, doubt>>

NewKey == issued < MaxKeys /\ issued' = issued + 1

Create(p) ==
    /\ p \notin Known(rows) /\ files[p] = NoFile
    /\ Cardinality(Known(rows)) < MaxPeers /\ Free(rows) # {} /\ NewKey
    /\ LET row == [status |-> "active", key |-> issued', host |-> Allocate(rows)]
       IN Begin("create", p, row, server \cup {EntryOf(row)})

\* The server file's sections without a key's.
Without(key) == {e \in server : e[1] # key}

\* The slip of adding the new section without replacing the old one.
BugRegenerate(p) ==
    /\ p \in Known(rows) /\ NewKey
    /\ LET row == [rows[p] EXCEPT !.status = "active", !.key = issued']
       IN Begin("regenerate", p, row, server \cup {EntryOf(row)})

\* A revoked peer that is regenerated becomes active again, with a new key.
Regenerate(p) ==
    /\ p \in Known(rows) /\ NewKey
    /\ LET row == [rows[p] EXCEPT !.status = "active", !.key = issued']
       IN Begin("regenerate", p, row, Without(rows[p].key) \cup {EntryOf(row)})

Revoke(p) ==
    /\ p \in ActivePeers(rows) /\ UNCHANGED issued
    /\ Begin("revoke", p, [rows[p] EXCEPT !.status = "revoked"], Without(rows[p].key))

Delete(p) ==
    /\ p \in Known(rows) \ ActivePeers(rows) /\ UNCHANGED issued
    /\ Begin("delete", p, NoRow, server)
----------------------------------------------------------------------------
(* _change and delete: write the files, sync the interface, commit *)

\* An exception leads to the restore; a write that raises may have replaced the file or not.
WriteServer ==
    /\ At("server")
    /\ \/ server' = op.new /\ Goto(IF HasClient THEN "client" ELSE "sync")
       \/ server' \in {server, op.new} /\ Goto("undo_server")
    /\ UNCHANGED <<profile, rows, files, kernel, issued, backup, read, retired, doubt>>

WriteClient ==
    /\ At("client")
    /\ LET written == [files EXCEPT ![op.peer] = EntryOf(op.row)]
       IN \/ files' = written /\ Goto("sync")
          \/ files' \in {files, written} /\ Goto("undo_server")
    /\ UNCHANGED <<profile, rows, server, kernel, issued, backup, read, retired, doubt>>

\* `wg syncconf` that fails, is killed at its timeout or by a cancellation may have applied any
\* part of the difference between the interface and the file.
PartlySynced ==
    LET same == kernel \cap server
    IN {same \cup part : part \in SUBSET ((kernel \cup server) \ same)}

Sync ==
    /\ At("sync")
    /\ \/ kernel' = server /\ Goto("commit")
       \/ kernel' \in PartlySynced /\ Goto("undo_server")
    /\ UNCHANGED <<profile, rows, server, files, issued, backup, read, retired, doubt>>

\* delete unlinks the client file of a revoked peer before it commits.
Unlink ==
    /\ At("unlink")
    /\ LET unlinked == [files EXCEPT ![op.peer] = NoFile]
       IN \/ files' = unlinked /\ Goto("commit")
          \/ files' = files /\ Goto("undo_client")
    /\ UNCHANGED <<profile, rows, server, kernel, issued, backup, read, retired, doubt>>

\* A committed change retires the key it revokes or replaces.  Its validation and its sync also
\* end any doubt that an earlier change left.
Commit ==
    /\ At("commit")
    /\ \/ /\ rows' = [rows EXCEPT ![op.peer] = op.row] /\ op' = NoOp
          /\ retired' = IF op.kind \in {"regenerate", "revoke"}
                        THEN retired \cup {rows[op.peer].key} ELSE retired
          /\ doubt' = IF op.kind = "delete" THEN doubt ELSE {}
       \/ /\ Goto(IF op.kind = "delete" THEN "undo_client" ELSE "undo_server")
          /\ UNCHANGED <<rows, retired, doubt>>
    /\ UNCHANGED <<profile, server, files, kernel, issued, backup, read>>

\* The change ends as wireguard_rollback_failed.
RollbackFailed == op' = NoOp /\ doubt' = doubt \cup {op.peer}

UndoServer ==
    /\ At("undo_server")
    /\ \/ /\ server' = op.old /\ Goto(IF HasClient THEN "undo_client" ELSE "undo_sync")
          /\ UNCHANGED doubt
       \/ server' \in {server, op.old} /\ RollbackFailed
    /\ UNCHANGED <<profile, rows, files, kernel, issued, backup, read, retired>>

UndoClient ==
    /\ At("undo_client")
    /\ LET restored == [files EXCEPT ![op.peer] = op.file]
       IN \/ /\ files' = restored /\ UNCHANGED doubt
             /\ IF op.kind = "delete" THEN op' = NoOp ELSE Goto("undo_sync")
          \/ files' \in {files, restored} /\ RollbackFailed
    /\ UNCHANGED <<profile, rows, server, kernel, issued, backup, read, retired>>

\* The slip of leaving the interface to the next sync.
BugUndoSync ==
    /\ At("undo_sync") /\ op' = NoOp
    /\ UNCHANGED <<profile, rows, server, files, kernel, issued, backup, read, retired, doubt>>

UndoSync ==
    /\ At("undo_sync")
    /\ \/ kernel' = server /\ op' = NoOp /\ UNCHANGED doubt
       \/ kernel' \in PartlySynced /\ RollbackFailed
    /\ UNCHANGED <<profile, rows, server, files, issued, backup, read, retired>>
----------------------------------------------------------------------------
(* Readers *)

\* configuration takes no lock.  It compares the server file with the rows, awaits `wg pubkey` for
\* every client file, and only then reads the row and the file that it hands out.
ReadStart(p) ==
    /\ Yields /\ profile /\ read.at # "check" /\ ServerMatches(rows, server)
    /\ read' = [at |-> "check", peer |-> p, rows |-> rows, left |-> Known(rows), got |-> NoFile]
    /\ UNCHANGED <<profile, rows, server, files, kernel, issued, op, backup, retired, doubt>>

ReadCheck(p) ==
    /\ Yields /\ read.at = "check" /\ p \in read.left
    /\ read' = IF FileMatches(read.rows, files, p)
               THEN [read EXCEPT !.left = @ \ {p}] ELSE NoRead
    /\ UNCHANGED <<profile, rows, server, files, kernel, issued, op, backup, retired, doubt>>

\* The slip of handing out the row that was validated before the awaits.
BugReadReturn ==
    /\ Yields /\ read.at = "check" /\ read.left = {}
    /\ read' = IF read.peer \in ActivePeers(read.rows)
               THEN [NoRead EXCEPT !.at = "done", !.got = EntryOf(read.rows[read.peer])] ELSE NoRead
    /\ UNCHANGED <<profile, rows, server, files, kernel, issued, op, backup, retired, doubt>>

ReadReturn ==
    /\ Yields /\ read.at = "check" /\ read.left = {}
    /\ read' = IF read.peer \in ActivePeers(rows) /\ files[read.peer] # NoFile
               THEN [NoRead EXCEPT !.at = "done", !.got = files[read.peer]] ELSE NoRead
    /\ UNCHANGED <<profile, rows, server, files, kernel, issued, op, backup, retired, doubt>>

\* The slip of copying without the lock.
BugBackupStart ==
    /\ backup.at = "idle" /\ backup' = [at |-> "files", rows |-> rows]
    /\ UNCHANGED <<profile, rows, server, files, kernel, issued, op, read, retired, doubt>>

\* A backup, in a process of its own, copies the database and then the files under the lock.
BackupStart ==
    /\ LockFree /\ backup' = [at |-> "files", rows |-> rows]
    /\ UNCHANGED <<profile, rows, server, files, kernel, issued, op, read, retired, doubt>>

BackupEnd ==
    /\ backup.at = "files" /\ backup' = NoBackup
    /\ UNCHANGED <<profile, rows, server, files, kernel, issued, op, read, retired, doubt>>
----------------------------------------------------------------------------
(* Crashes.  SQLite rolls the open transaction back, the files stay as they are. *)

Cut == /\ op' = NoOp /\ read' = NoRead
       /\ doubt' = IF op.at \in {"none", "server", "unlink"} THEN doubt
                                                            ELSE doubt \cup {op.peer}

\* The service ends; the interface is the kernel's and stays.
Crash == /\ Cut /\ UNCHANGED <<profile, rows, server, files, kernel, issued, backup, retired>>

\* The host restarts and wg-quick brings the interface up from the server file.
Reboot == /\ Cut /\ kernel' = server /\ backup' = NoBackup
          /\ UNCHANGED <<profile, rows, server, files, issued, retired>>

Next ==
    \/ Migrate
    \/ \E p \in Peer : Create(p) \/ Regenerate(p) \/ Revoke(p) \/ Delete(p)
    \/ WriteServer \/ WriteClient \/ Sync \/ Unlink \/ Commit
    \/ UndoServer \/ UndoClient \/ UndoSync
    \/ \E p \in Peer : ReadStart(p) \/ ReadCheck(p)
    \/ ReadReturn \/ BackupStart \/ BackupEnd \/ Crash \/ Reboot

Spec == Init /\ [][Next]_vars
----------------------------------------------------------------------------
(* Properties *)

\* Between changes rows, server file, client files and interface agree, whatever failed before,
\* unless a change was cut or reported as wireguard_rollback_failed: a failed write, sync or commit
\* of _change, and a failed delete, leave no trace.
Agreement ==
    profile /\ op.at = "none" /\ doubt = {} => Validates(rows, server, files) /\ kernel = server

\* The key of a revoked, replaced or deleted peer is never again in the server file or on the
\* interface: no restore of old files, failed sync, crash or reboot brings it back.
RetiredStaysOut == \A e \in server \cup kernel : e[1] \notin retired

\* A change, however it ends, keeps every other peer: an active row whose own change was not cut
\* stays in the server file and on the interface and keeps its client file.
OthersKept ==
    \A p \in ActivePeers(rows) : p \in doubt \/ (op.at # "none" /\ op.peer = p)
        \/ (EntryOf(rows[p]) \in server \cap kernel /\ FileMatches(rows, files, p))

\* No address is reserved by two rows: creation passes over the addresses of revoked rows, which
\* regeneration uses again.  So the UNIQUE constraint of the table never refuses an insert.
AddressesDistinct ==
    \A p, q \in Known(rows) : p # q => rows[p].host # rows[q].host

\* wireguard_peers: a change, however it ends, brings no retired key back into the server file
\* or the interface, keeps every other active peer in every copy, and gives no address twice.
PeersKept == RetiredStaysOut /\ OthersKept /\ AddressesDistinct

\* configuration hands out no key that was retired by the time it returns, although a change can
\* commit during any of its awaits.
NoRetiredServed ==
    [][read.at = "check" /\ read'.at = "done" => read'.got[1] \notin retired]_vars

\* The rows and the files in a backup belong together, unless the state itself was in doubt.
BackupCoherent ==
    [][backup.at = "files" /\ backup'.at = "idle" /\ profile /\ doubt = {}
         => Validates(backup.rows, server, files)]_vars
============================================================================
