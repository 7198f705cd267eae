--------------------------- MODULE DirectProvider ---------------------------
(***************************************************************************)
(* The providers whose tunnel ExitLane runs itself: providers/mullvad.py,  *)
(* providers/pia.py and providers/proton.py, with the encrypted row each   *)
(* keeps through services/provider_secrets.py.                             *)
(*                                                                         *)
(* An operation holds the provider's lock and works on a copy of the row.  *)
(* It can fail, be cancelled or die with the process at every step, so the *)
(* row, the tunnel, the guard rules and the account can disagree.  What    *)
(* ProviderWireGuard.start and stop do inside is module ProviderEgress;    *)
(* here they have outcomes.                                                *)
(***************************************************************************)
EXTENDS Naturals, FiniteSets

CONSTANTS
  Accounts,   \* Mullvad accounts an administrator types in
  Valid,      \* those of them the service knows
  Profiles,   \* Proton profiles
  MaxGens,    \* bound: connections attempted
  MaxKeys,    \* bound: WireGuard keys generated
  MaxFaults,  \* bound: failures, cancellations and crashes
  None

VARIABLES
  kind,     \* the provider this behaviour is about
  disk,     \* its row of provider_secrets
  op,       \* the operation holding _operation_lock
  tunnel,   \* the generation the interface runs
  rules,    \* the guard of the provider's interface is installed
  armed,    \* the kill switch holds a provider transition
  remote,   \* Mullvad's devices: account and key
  gens, keys, faults,
  torn      \* the last operation died, or gave up in its own clean-up

vars == <<kind, disk, op, tunnel, rules, armed, remote, gens, keys, faults, torn>>

Row == [reg |-> "registered", acct |-> None, key |-> 0, active |-> None, pending |-> None,
        failed |-> FALSE, profiles |-> {}, last |-> None]

\* {"recovery": "failed_connect"}: an intent that names no generation.
Marker == [id |-> 0, profile |-> None]

Init ==
  /\ kind \in {"mullvad", "pia", "proton"}
  /\ disk = None /\ op = None /\ tunnel = None
  /\ rules = FALSE /\ armed = FALSE /\ remote = {}
  /\ gens = 0 /\ keys = 0 /\ faults = 0 /\ torn = FALSE

-----------------------------------------------------------------------------
At(pc) == op # None /\ op.pc = pc

Goto(pc) == op' = [op EXCEPT !.pc = pc]

Over == op' = None

Fault == faults < MaxFaults /\ faults' = faults + 1

\* provider_secrets: the row is replaced or deleted in one transaction.
Save(row) == disk' = row

Forget == disk' = None

\* The row as an operation reads it: Proton has one from the start.
Loaded == IF disk = None /\ kind = "proton" THEN Row ELSE disk

Begins(pc) ==
  [pc |-> pc, mem |-> Loaded, acct |-> None, prev |-> None, cand |-> None, gen |-> None,
   again |-> FALSE]

\* direct_egress_intent: a pending generation, or the active one.
Intent == disk # None /\ (disk.pending # None \/ disk.active # None)

-----------------------------------------------------------------------------
(* Mullvad: signing in registers a key of this host as a device. *)

\* What an answer about a device says: the account and its key.
Device(a, k) == <<a, k>>

\* The account's list has a device with this key.
Registered(a, k) == Device(a, k) \in remote

\* The administrator may come back with another account while the first one's
\* registration has not been confirmed.
SignIn(a) ==
  /\ kind = "mullvad" /\ op = None
  /\ disk # None /\ disk.acct # a => disk.reg = "pending"
  /\ op' = [Begins(IF disk # None /\ disk.acct # a THEN "old" ELSE "list") EXCEPT !.acct = a]
  /\ UNCHANGED <<kind, disk, tunnel, rules, armed, remote, gens, keys, faults, torn>>

\* A device of the old account that did get registered keeps that account.
SignInOld ==
  /\ At("old")
  /\ IF Registered(disk.acct, disk.key)
     THEN Save([op.mem EXCEPT !.reg = "registered"]) /\ Over
     ELSE Forget /\ op' = [op EXCEPT !.pc = "list", !.mem = None]
  /\ UNCHANGED <<kind, tunnel, rules, armed, remote, gens, keys, faults, torn>>

\* A bug to be caught: the device is created before its key is stored.
SignInUnsaved ==
  /\ At("list") /\ op.acct \in Valid /\ keys < MaxKeys
  /\ keys' = keys + 1
  /\ op' = [op EXCEPT !.pc = "create",
                      !.mem = [Row EXCEPT !.reg = "pending", !.acct = op.acct, !.key = keys + 1]]
  /\ UNCHANGED <<kind, disk, tunnel, rules, armed, remote, gens, faults, torn>>

SignInList ==
  /\ At("list")
  /\ IF op.acct \notin Valid
     THEN /\ IF disk # None /\ disk.reg = "pending" THEN Forget ELSE UNCHANGED disk
          /\ Over
          /\ UNCHANGED keys
     ELSE IF op.mem = None
     THEN /\ keys < MaxKeys
          /\ keys' = keys + 1
          /\ Save([Row EXCEPT !.reg = "pending", !.acct = op.acct, !.key = keys + 1])
          /\ op' = [op EXCEPT !.pc = "create", !.mem = disk']
     ELSE /\ Goto(IF Registered(op.acct, op.mem.key) THEN "registered" ELSE "create")
          /\ UNCHANGED <<disk, keys>>
  /\ UNCHANGED <<kind, tunnel, rules, armed, remote, gens, faults, torn>>

SignInCreate ==
  /\ At("create")
  /\ remote' = remote \cup {Device(op.acct, op.mem.key)}
  /\ Goto("registered")
  /\ UNCHANGED <<kind, disk, tunnel, rules, armed, gens, keys, faults, torn>>

\* The device exists, its answer is lost.
SignInAnswerLost ==
  /\ At("create") /\ Fault
  /\ remote' = remote \cup {Device(op.acct, op.mem.key)}
  /\ Over
  /\ UNCHANGED <<kind, disk, tunnel, rules, armed, gens, keys, torn>>

SignInSave ==
  /\ At("registered")
  /\ Save([op.mem EXCEPT !.reg = "registered"])
  /\ Over
  /\ UNCHANGED <<kind, tunnel, rules, armed, remote, gens, keys, faults, torn>>

\* PIA keeps the credentials once the service has accepted them.
SignInCredentials ==
  /\ kind = "pia" /\ op = None /\ disk = None
  /\ Save(Row)
  /\ UNCHANGED <<kind, op, tunnel, rules, armed, remote, gens, keys, faults, torn>>

\* The administrator removes the device on the provider's own site.
DeviceRevoked(d) ==
  /\ d \in remote
  /\ Fault
  /\ remote' = remote \ {d}
  /\ UNCHANGED <<kind, disk, op, tunnel, rules, armed, gens, keys, torn>>

SignOut ==
  /\ kind \in {"mullvad", "pia"} /\ op = None /\ disk # None
  /\ disk.active = None
  /\ kind = "pia" => disk.pending = None
  /\ op' = Begins("signout")
  /\ UNCHANGED <<kind, disk, tunnel, rules, armed, remote, gens, keys, faults, torn>>

\* PIA leaves the rules to the disconnect that came before, and has no device.
SignOutStop ==
  /\ At("signout")
  /\ tunnel' = None
  /\ Goto(IF kind = "mullvad" THEN "lift" ELSE "delete")
  /\ UNCHANGED <<kind, disk, rules, armed, remote, gens, keys, faults, torn>>

SignOutDisarm ==
  /\ At("lift")
  /\ rules' = FALSE
  /\ Goto("forget")
  /\ UNCHANGED <<kind, disk, tunnel, armed, remote, gens, keys, faults, torn>>

SignOutRemote ==
  /\ At("forget")
  /\ remote' = remote \ {Device(disk.acct, disk.key)}
  /\ Goto("delete")
  /\ UNCHANGED <<kind, disk, tunnel, rules, armed, gens, keys, faults, torn>>

SignOutAnswerLost ==
  /\ At("forget") /\ Fault
  /\ remote' = remote \ {Device(disk.acct, disk.key)}
  /\ Over
  /\ UNCHANGED <<kind, disk, tunnel, rules, armed, gens, keys, torn>>

SignOutDelete ==
  /\ At("delete")
  /\ Forget
  /\ Over
  /\ UNCHANGED <<kind, tunnel, rules, armed, remote, gens, keys, faults, torn>>

-----------------------------------------------------------------------------
(* Proton: profiles are imported and deleted under the operation lock. *)

\* parse_profile: None stands for a file that is no profile.
Parses(p) == p # None

\* A bug to be caught: the import does not wait for the operation lock.
ImportUnlocked(p) ==
  /\ kind = "proton" /\ Parses(p)
  /\ p \notin Loaded.profiles
  /\ Save([Loaded EXCEPT !.profiles = @ \cup {p}])
  /\ UNCHANGED <<kind, op, tunnel, rules, armed, remote, gens, keys, faults, torn>>

ImportProfile(p) ==
  /\ kind = "proton" /\ op = None /\ Parses(p)
  /\ p \notin Loaded.profiles
  /\ Save([Loaded EXCEPT !.profiles = @ \cup {p}])
  /\ UNCHANGED <<kind, op, tunnel, rules, armed, remote, gens, keys, faults, torn>>

DeleteProfile(p) ==
  /\ kind = "proton" /\ op = None
  /\ p \in Loaded.profiles
  /\ \A g \in {disk.active, disk.pending} \ {None} : g.profile # p
  /\ Save([disk EXCEPT !.profiles = @ \ {p}, !.last = IF @ = p THEN None ELSE @])
  /\ UNCHANGED <<kind, op, tunnel, rules, armed, remote, gens, keys, faults, torn>>

-----------------------------------------------------------------------------
(* Connecting. *)

\* What the next connection may use: Proton prefers the profile in use, or the
\* last one.
Targets ==
  IF kind = "proton" THEN Loaded.profiles ELSE {None}

Connect(p) ==
  /\ op = None /\ Loaded # None /\ Loaded.reg = "registered"
  /\ p \in Targets
  /\ gens < MaxGens
  /\ gens' = gens + 1
  /\ op' = [Begins("arm") EXCEPT !.prev = Loaded.active,
                                 !.gen = [id |-> gens + 1, profile |-> p]]
  /\ UNCHANGED <<kind, disk, tunnel, rules, armed, remote, keys, faults, torn>>

ConnectArm ==
  /\ At("arm")
  /\ armed' = TRUE
  /\ Goto("select")
  /\ UNCHANGED <<kind, disk, tunnel, rules, remote, gens, keys, faults, torn>>

\* _rollback_connection, _rollback and _restore begin by forgetting both
\* generations of the copy.
Rollback(mem) ==
  op' = [op EXCEPT !.pc = IF op.prev = None THEN "stop" ELSE "restore",
                   !.cand = mem.pending,
                   !.mem = [mem EXCEPT !.active = None, !.pending = None]]

\* A call that the selection needs fails: the attempt ends before a generation
\* exists.
NotSelected(k) ==
  /\ kind = k /\ At("select") /\ Fault
  /\ Rollback(op.mem)
  /\ UNCHANGED <<kind, disk, tunnel, rules, armed, remote, gens, keys, torn>>

\* Mullvad: no relay for the target, or a list that does not parse.
RelayUnavailable == NotSelected("mullvad")
RelayListInvalid == NotSelected("mullvad")

\* PIA: the service, the server list, a server in it, the token, the key, and the answer to
\* the key.
ServiceUnreachable == NotSelected("pia")
CatalogInvalid == NotSelected("pia")
ServerUnavailable == NotSelected("pia")
TokenRefused == NotSelected("pia")
KeyRefused == NotSelected("pia")
KeyAnswerInvalid == NotSelected("pia")

\* Proton: the name of the endpoint does not resolve.
EndpointUnavailable == NotSelected("proton")

\* The relay, the key or the address is obtained and the intent stored; a
\* Mullvad device that is gone ends the attempt.
ConnectSelect ==
  /\ At("select")
  /\ IF kind = "mullvad" /\ ~Registered(op.mem.acct, op.mem.key)
     THEN Rollback(op.mem) /\ UNCHANGED disk
     ELSE /\ Save([op.mem EXCEPT !.pending = op.gen])
          /\ op' = [op EXCEPT !.pc = "start", !.mem = disk']
  /\ UNCHANGED <<kind, tunnel, rules, armed, remote, gens, keys, faults, torn>>

ConnectStart ==
  /\ At("start")
  /\ tunnel' = op.gen
  /\ rules' = TRUE
  /\ Goto("probe")
  /\ UNCHANGED <<kind, disk, armed, remote, gens, keys, faults, torn>>

ConnectProbe ==
  /\ At("probe")
  /\ Goto("commit")
  /\ UNCHANGED <<kind, disk, tunnel, rules, armed, remote, gens, keys, faults, torn>>

\* No dataplane proof within the time given.
ProbeFails ==
  /\ At("probe") /\ Fault
  /\ Rollback(op.mem)
  /\ UNCHANGED <<kind, disk, tunnel, rules, armed, remote, gens, keys, torn>>

Committed(mem, g) ==
  [mem EXCEPT !.active = g, !.pending = None,
              !.last = IF kind = "proton" /\ g = op.gen THEN g.profile ELSE @]

ConnectCommit ==
  /\ At("commit")
  /\ Save(Committed(op.mem, op.gen))
  /\ op' = [op EXCEPT !.pc = "complete", !.mem = disk']
  /\ UNCHANGED <<kind, tunnel, rules, armed, remote, gens, keys, faults, torn>>

ConnectComplete ==
  /\ At("complete")
  /\ armed' = FALSE
  /\ Goto("committed")
  /\ UNCHANGED <<kind, disk, tunnel, rules, remote, gens, keys, faults, torn>>

\* A transition that cannot be released ends the connection with an error and
\* leaves the transition armed.
ConnectCompleteFails ==
  /\ At("complete") /\ Fault
  /\ Over
  /\ UNCHANGED <<kind, disk, tunnel, rules, armed, remote, gens, keys, torn>>

ConnectDone ==
  /\ At("committed")
  /\ Over
  /\ torn' = FALSE
  /\ UNCHANGED <<kind, disk, tunnel, rules, armed, remote, gens, keys, faults>>

\* Another exception or a cancellation in the body of connect.  A start that
\* fails may have stopped the old tunnel or started the new one.
ConnectFails ==
  /\ op # None /\ op.pc \in {"select", "start", "commit", "complete", "committed"}
  /\ Fault
  /\ \/ /\ op.pc = "committed"
        /\ Rollback(op.mem)
        /\ UNCHANGED <<tunnel, rules, armed>>
     \/ \* the save of the intent fails
        /\ op.pc = "select"
        /\ Rollback([op.mem EXCEPT !.pending = op.gen])
        /\ UNCHANGED <<tunnel, rules, armed>>
     \/ /\ op.pc = "start"
        /\ tunnel' \in {tunnel, None, op.gen}
        /\ rules' \in {rules, TRUE}
        /\ Rollback(op.mem)
        /\ UNCHANGED armed
     \/ \* the save of the result fails
        /\ op.pc = "commit"
        /\ Rollback(Committed(op.mem, op.gen))
        /\ UNCHANGED <<tunnel, rules, armed>>
     \/ \* only a cancellation: it may find the transition released already
        /\ op.pc = "complete"
        /\ armed' \in BOOLEAN
        /\ Rollback(op.mem)
        /\ UNCHANGED <<tunnel, rules>>
  /\ UNCHANGED <<kind, disk, remote, gens, keys, torn>>

ArmFails ==
  /\ At("arm") /\ Fault
  /\ Over
  /\ UNCHANGED <<kind, disk, tunnel, rules, armed, remote, gens, keys, torn>>

-----------------------------------------------------------------------------
(* Rolling back: the previous generation is started and proved again. *)

RestoreSave ==
  /\ At("restore")
  /\ LET mem == [op.mem EXCEPT !.pending = op.prev]
     IN /\ op' = [op EXCEPT !.pc = "restart", !.mem = mem]
        /\ IF kind = "mullvad" THEN UNCHANGED disk ELSE Save(mem)
  /\ UNCHANGED <<kind, tunnel, rules, armed, remote, gens, keys, faults, torn>>

\* PIA tries once more after registering the old key again.
GiveUpRestore ==
  op' = [op EXCEPT !.pc = IF kind = "pia" /\ ~op.again THEN "rekey" ELSE "stop",
                   !.again = TRUE]

Restart ==
  /\ At("restart")
  /\ tunnel' = op.prev
  /\ rules' = TRUE
  /\ Goto("reprobe")
  /\ UNCHANGED <<kind, disk, armed, remote, gens, keys, faults, torn>>

Reprobe ==
  /\ At("reprobe")
  /\ Save(Committed(op.mem, op.prev))
  /\ op' = [op EXCEPT !.pc = "recommit", !.mem = disk']
  /\ UNCHANGED <<kind, tunnel, rules, armed, remote, gens, keys, faults, torn>>

Recommit ==
  /\ At("recommit")
  /\ Goto("release")
  /\ UNCHANGED <<kind, disk, tunnel, rules, armed, remote, gens, keys, faults, torn>>

RestoreFails ==
  /\ op # None /\ op.pc \in {"restart", "reprobe", "recommit", "rekey"}
  /\ Fault
  /\ IF op.pc = "restart"
     THEN tunnel' \in {tunnel, None, op.prev} /\ rules' \in {rules, TRUE}
     ELSE UNCHANGED <<tunnel, rules>>
  /\ GiveUpRestore
  /\ UNCHANGED <<kind, disk, armed, remote, gens, keys, torn>>

Rekey ==
  /\ At("rekey")
  /\ Save([op.mem EXCEPT !.pending = op.prev])
  /\ op' = [op EXCEPT !.pc = "restart", !.mem = disk']
  /\ UNCHANGED <<kind, tunnel, rules, armed, remote, gens, keys, faults, torn>>

Release ==
  /\ At("release")
  /\ armed' \in {armed, FALSE}
  /\ Over
  /\ torn' = FALSE
  /\ UNCHANGED <<kind, disk, tunnel, rules, remote, gens, keys, faults>>

-----------------------------------------------------------------------------
(* Without a tunnel to go back to, what is left is stopped. *)

\* What the record keeps when the tunnel is known to be down, and when not.
Stopped(mem) ==
  IF kind = "mullvad"
  THEN [mem EXCEPT !.pending = IF op.prev # None THEN @
                               ELSE IF op.cand # None THEN op.cand ELSE Marker]
  ELSE [mem EXCEPT !.pending = IF op.prev # None THEN op.prev ELSE @,
                   !.failed = IF kind = "pia" /\ op.prev # None THEN @ ELSE FALSE]

Uncertain(mem) ==
  [mem EXCEPT !.failed = TRUE,
              !.pending = IF op.prev # None THEN IF kind = "mullvad" THEN @ ELSE op.prev
                          ELSE IF op.cand # None THEN op.cand ELSE Marker]

StopTunnel ==
  /\ At("stop")
  /\ tunnel' = None
  /\ rules' = (IF kind # "mullvad" /\ op.prev = None /\ op.cand # None THEN FALSE ELSE rules)
  /\ op' = [op EXCEPT !.pc = "keep", !.mem = Stopped(@)]
  /\ UNCHANGED <<kind, disk, armed, remote, gens, keys, faults, torn>>

\* The interface stays, or it goes and the rules stay.
StopTunnelFails ==
  /\ At("stop") /\ Fault
  /\ \/ UNCHANGED tunnel
     \/ kind # "mullvad" /\ tunnel' = None
  /\ op' = [op EXCEPT !.pc = "keep", !.mem = Uncertain(@)]
  /\ UNCHANGED <<kind, disk, rules, armed, remote, gens, keys, torn>>

KeepRecord ==
  /\ At("keep")
  /\ Save(op.mem)
  /\ Over
  /\ torn' = FALSE
  /\ UNCHANGED <<kind, tunnel, rules, armed, remote, gens, keys, faults>>

-----------------------------------------------------------------------------
(* Disconnecting. *)

Disconnect ==
  /\ op = None
  /\ op' = Begins("disarm")
  /\ armed' = TRUE
  /\ UNCHANGED <<kind, disk, tunnel, rules, remote, gens, keys, faults, torn>>

DisconnectStop ==
  /\ At("disarm")
  /\ tunnel' = None
  /\ Goto("unrule")
  /\ UNCHANGED <<kind, disk, rules, armed, remote, gens, keys, faults, torn>>

DisconnectDisarm ==
  /\ At("unrule")
  /\ rules' = FALSE
  /\ Goto("clear")
  /\ UNCHANGED <<kind, disk, tunnel, armed, remote, gens, keys, faults, torn>>

DisconnectSave ==
  /\ At("clear")
  /\ IF op.mem = None THEN UNCHANGED disk
     ELSE Save([op.mem EXCEPT !.active = None, !.pending = None])
  /\ Goto("free")
  /\ UNCHANGED <<kind, tunnel, rules, armed, remote, gens, keys, faults, torn>>

DisconnectComplete ==
  /\ At("free")
  /\ armed' = FALSE
  /\ Over
  /\ torn' = FALSE
  /\ UNCHANGED <<kind, disk, tunnel, rules, remote, gens, keys, faults>>

-----------------------------------------------------------------------------
\* An error that no handler turns into a rollback ends the operation where it
\* stands: signing in or out, disconnecting, or storing the row in a rollback.
Abandon ==
  /\ op # None
  /\ op.pc \in {"old", "list", "create", "registered", "signout", "lift", "forget", "delete", "disarm",
                "unrule", "clear", "free", "restore", "reprobe", "rekey", "keep"}
  /\ op.pc = "restore" => kind # "mullvad"
  /\ Fault
  /\ Over
  /\ torn' = TRUE
  /\ UNCHANGED <<kind, disk, tunnel, rules, armed, remote, gens, keys>>

\* The application dies; the tunnel and the rules do not.
Crash ==
  /\ op # None /\ Fault
  /\ Over
  /\ torn' = TRUE
  /\ UNCHANGED <<kind, disk, tunnel, rules, armed, remote, gens, keys>>

\* The host restarts: before the network comes up, the guard is rebuilt from
\* the stored intent.
Reboot ==
  /\ Fault
  /\ Over
  /\ tunnel' = None
  /\ rules' = Intent
  /\ torn' = TRUE
  /\ UNCHANGED <<kind, disk, armed, remote, gens, keys>>

Account ==
  \/ \E a \in Accounts : SignIn(a)
  \/ SignInOld
  \/ SignInList
  \/ SignInCreate
  \/ SignInAnswerLost
  \/ SignInSave
  \/ SignInCredentials
  \/ \E d \in remote : DeviceRevoked(d)
  \/ SignOut
  \/ SignOutStop
  \/ SignOutDisarm
  \/ SignOutRemote
  \/ SignOutAnswerLost
  \/ SignOutDelete
  \/ \E p \in Profiles \cup {None} : ImportProfile(p)
  \/ \E p \in Profiles : DeleteProfile(p)

Connection ==
  \/ \E p \in Profiles \cup {None} : Connect(p)
  \/ ConnectArm
  \/ RelayUnavailable
  \/ RelayListInvalid
  \/ ServiceUnreachable
  \/ CatalogInvalid
  \/ ServerUnavailable
  \/ TokenRefused
  \/ KeyRefused
  \/ KeyAnswerInvalid
  \/ EndpointUnavailable
  \/ ConnectSelect
  \/ ConnectStart
  \/ ConnectProbe
  \/ ProbeFails
  \/ ConnectCommit
  \/ ConnectComplete
  \/ ConnectCompleteFails
  \/ ConnectDone
  \/ ConnectFails
  \/ ArmFails

Restoration ==
  \/ RestoreSave
  \/ Restart
  \/ Reprobe
  \/ Recommit
  \/ RestoreFails
  \/ Rekey
  \/ Release
  \/ StopTunnel
  \/ StopTunnelFails
  \/ KeepRecord

Next ==
  \/ Account
  \/ Connection
  \/ Restoration
  \/ Disconnect
  \/ DisconnectStop
  \/ DisconnectDisarm
  \/ DisconnectSave
  \/ DisconnectComplete
  \/ Abandon
  \/ Crash
  \/ Reboot

Spec == Init /\ [][Next]_vars

-----------------------------------------------------------------------------
Gens == [id: 0..MaxGens, profile: Profiles \cup {None}]

\* The stored row names generations, accounts and profiles the provider has,
\* and the service holds keys this host made.
TypeOK ==
  /\ kind \in {"mullvad", "pia", "proton"}
  /\ disk # None =>
       disk \in [reg: {"pending", "registered"}, acct: Accounts \cup {None}, key: 0..MaxKeys,
                 active: Gens \cup {None}, pending: Gens \cup {None}, failed: BOOLEAN,
                 profiles: SUBSET Profiles, last: Profiles \cup {None}]
  /\ tunnel \in Gens \cup {None}
  /\ {rules, armed, torn} \subseteq BOOLEAN
  /\ remote \subseteq Accounts \X (1..MaxKeys)

\* A tunnel that runs has a generation in the stored row, so the next boot
\* rebuilds its fail-closed guard: direct_egress_intent, cli.py's
\* restore_provider_egress_guard.
RunningHasIntent == tunnel # None => Intent

\* A tunnel other than the recorded ones is left behind only with the flag
\* that makes every later status report it: the rollback of connect.
UncertainIsFlagged ==
  op = None /\ ~torn /\ tunnel \notin {None} \cup (IF disk = None THEN {}
                                                  ELSE {disk.active, disk.pending})
    => disk # None /\ disk.failed

\* Every device this host registered still has its key in the row, however
\* signing in or out was interrupted.
NoOrphanDevice == \A d \in remote : disk # None /\ <<disk.acct, disk.key>> = d

\* The profile of a recorded generation exists: ProtonProvider.delete_profile.
ProfileInUse ==
  kind = "proton" /\ disk # None =>
    \A g \in {disk.active, disk.pending} \ {None, Marker} : g.profile \in disk.profiles

\* Only deleting a profile removes it: no operation that loaded the row before
\* an import, and saves it after its awaits, writes back the older copy.
KeepsProfiles ==
  \A p \in Profiles :
    disk # None /\ p \in disk.profiles /\ ~(disk' # None /\ p \in disk'.profiles)
      => op = None
=============================================================================
