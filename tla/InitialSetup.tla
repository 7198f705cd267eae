----------------------------- MODULE InitialSetup -----------------------------
(***************************************************************************)
(* The first WireGuard ingress: the request that creates it, the durable   *)
(* intent it keeps (services/wireguard_initial.py), its rollback, and the  *)
(* recovery a later start runs, by the service itself (main.py) or, in a   *)
(* container, by the parent process (container_entrypoint.py).             *)
(*                                                                         *)
(* A file has the content a reader sees now and the content a power loss   *)
(* may bring back; the two agree once its directory was synced. Database   *)
(* transactions are durable when they commit.                              *)
(***************************************************************************)
EXTENDS Naturals

CONSTANT MaxCuts     \* bound on crashes and power losses together

VARIABLES
  runtime,     \* "native" or "container"
  file,        \* journal, server and client file: [now, disk]
  rows,        \* the ingress profile and its default peer are in the database
  configured,  \* the setting wireguard_configured and the seven that go with it
  enabled,     \* native: the unit and its link in /etc/wireguard
  up,          \* the interface exists
  pc,          \* where the request, the rollback or the recovery is
  by,          \* who is at it: a request, the service's start, the parent
  tried,       \* journal["activation_attempted"] in memory
  answer,      \* what the last request returned
  cuts

vars == <<runtime, file, rows, configured, enabled, up, pc, by, tried, answer, cuts>>

Names == {"journal", "server", "client"}
Same(v) == [now |-> v, disk |-> v]

Init ==
  /\ runtime \in {"native", "container"}
  /\ file = [n \in Names |-> Same("absent")]
  /\ rows = FALSE /\ configured = FALSE /\ enabled = FALSE /\ up = FALSE
  /\ pc = "idle" /\ by = "request" /\ tried = FALSE /\ answer = "none" /\ cuts = 0

Now(n) == file[n].now

(* _atomic_write: nothing, or the rename; the directory's sync may fail or   *)
(* not be part of the write at all.                                          *)
Written(n, v) == {file, [file EXCEPT ![n].now = v], [file EXCEPT ![n] = Same(v)]}
WrittenSynced(n, v) == [file EXCEPT ![n] = Same(v)]
Synced == [n \in Names |-> IF n = "journal" THEN file[n] ELSE Same(file[n].now)]

(* wireguard_initial.read: the intent on the disk.                           *)
Intent == Now("journal")

(* A request returns; a start that fails ends the service; the parent goes   *)
(* on to start the worker, or exits.                                         *)
Over(outcome) ==
  /\ pc' = IF by = "request" \/ (by = "start" /\ outcome = "ok") THEN "idle" ELSE "down"
  /\ UNCHANGED by
Answer(a) == Over(a) /\ answer' = IF by = "request" THEN a ELSE answer

RolledBack ==
  /\ Over("ok") /\ answer' = IF by = "request" THEN "error" ELSE answer

Persistent == <<rows, configured>>
Ingress == <<enabled, up>>

-----------------------------------------------------------------------------
(* The recovery every request and every start of the service begins with.    *)
Complete ==
  /\ Now("server") = "key" /\ Now("client") = "key" /\ rows /\ configured
  /\ runtime = "native" => enabled

(* A committed intent is checked, routing is reconciled, the intent goes.    *)
RecoverCommitted ==
  /\ pc = "recover" /\ Intent = "committed"
  /\ \/ /\ rows /\ configured /\ Now("server") = "key" /\ Now("client") = "key"
        /\ file' = WrittenSynced("journal", "absent")
        /\ Answer("ok")
     \/ file' \in {file, [file EXCEPT !["journal"].now = "absent"]} /\ Answer("error")
  /\ UNCHANGED <<runtime, Persistent, Ingress, tried, cuts>>

(* A pending intent is rolled back by the service ...                        *)
RecoverPending ==
  /\ pc = "recover" /\ Intent \in {"pending", "attempted"}
  /\ pc' = "undo" /\ tried' = (Intent = "attempted")
  /\ UNCHANGED <<runtime, file, Persistent, Ingress, by, answer, cuts>>

RecoverNothing ==
  /\ pc = "recover" /\ Intent = "absent"
  /\ by = "start" /\ pc' = "idle"
  /\ UNCHANGED <<runtime, file, Persistent, Ingress, by, tried, answer, cuts>>

(* preserve_initial_policy: the guard found is the setup's own, or it is not *)
(* and the container exits.                                                  *)
PolicyEvidence == BOOLEAN

(* ... and in a container by the parent, before it starts a worker: the      *)
(* worker is stopped and its interface removed; a surviving interface is     *)
(* never adopted.                                                            *)
ParentRecover ==
  /\ runtime = "container" /\ pc = "down"
  /\ Intent \in {"pending", "attempted"}
  /\ up' = FALSE /\ by' = "parent" /\ tried' = FALSE
  /\ \E proven \in PolicyEvidence : pc' = IF proven THEN "undorows" ELSE "down"
  /\ UNCHANGED <<runtime, file, Persistent, enabled, answer, cuts>>

(* The service starts; a container's only once no intent is pending.         *)
Start ==
  /\ pc = "down"
  /\ runtime = "container" => Intent \in {"absent", "committed"}
  /\ pc' = "recover" /\ by' = "start"
  /\ up' = IF runtime = "container" THEN configured ELSE up
  /\ UNCHANGED <<runtime, file, Persistent, enabled, tried, answer, cuts>>

-----------------------------------------------------------------------------
(* Something of an ingress is there.                                         *)
Occupied ==
  \/ configured \/ rows \/ Now("server") # "absent" \/ Now("client") # "absent"
  \/ runtime = "native" /\ (up \/ enabled)

(* The request: refused when anything of an ingress is there, otherwise the  *)
(* intent is written first.                                                  *)
Request ==
  /\ pc = "idle" /\ Intent = "absent" /\ ~Occupied
  /\ tried' = FALSE /\ by' = "request"
  /\ \/ file' = WrittenSynced("journal", "pending") /\ pc' = "server" /\ answer' = "none"
     \/ file' \in Written("journal", "pending") /\ pc' = "idle" /\ answer' = "error"
  /\ UNCHANGED <<runtime, Persistent, Ingress, cuts>>

(* A failure while the files are written or the interface is activated first *)
(* runs provision's own rollback; a cancellation does not.                   *)
Fails == pc' \in {"inner", "undo"}

(* A name, subnet, address or port that create refuses.                      *)
InvalidRequest ==
  /\ pc = "server" /\ Fails
  /\ UNCHANGED <<runtime, by, file, Persistent, Ingress, tried, answer, cuts>>

WriteServer ==
  /\ pc = "server"
  /\ \/ file' = [file EXCEPT !["server"].now = "key"] /\ pc' = "client"
     \/ file' \in Written("server", "key") /\ Fails
  /\ UNCHANGED <<runtime, by, Persistent, Ingress, tried, answer, cuts>>

WriteClient ==
  /\ pc = "client"
  /\ \/ file' = [file EXCEPT !["client"].now = "key"] /\ pc' = "intend"
     \/ file' \in Written("client", "key") /\ Fails
  /\ UNCHANGED <<runtime, by, Persistent, Ingress, tried, answer, cuts>>

(* The attempt is recorded before the interface is touched.                  *)
Intend ==
  /\ pc = "intend" /\ tried' = TRUE
  /\ \/ file' = WrittenSynced("journal", "attempted") /\ pc' = "activate"
     \/ file' \in Written("journal", "attempted") /\ Fails
  /\ UNCHANGED <<runtime, by, Persistent, Ingress, answer, cuts>>

ActivateNative ==
  /\ pc = "activate" /\ runtime = "native"
  /\ \/ enabled' = TRUE /\ up' = TRUE /\ pc' = "sync"
     \/ enabled' \in BOOLEAN /\ up' \in BOOLEAN /\ Fails
  /\ UNCHANGED <<runtime, by, file, Persistent, tried, answer, cuts>>

ActivateContainer ==
  /\ pc = "activate" /\ runtime = "container"
  /\ \/ up' = TRUE /\ pc' = "sync"
     \/ up' \in BOOLEAN /\ Fails
  /\ UNCHANGED <<runtime, by, file, Persistent, enabled, tried, answer, cuts>>

(* A bug to be caught: the directory is not synced.                          *)
SyncSkipped ==
  /\ pc = "sync" /\ pc' = "migrate"
  /\ UNCHANGED <<runtime, by, file, Persistent, Ingress, tried, answer, cuts>>

(* The directory is synced before the database claims its files.             *)
Sync ==
  /\ pc = "sync"
  /\ \/ file' = Synced /\ pc' = "migrate"
     \/ UNCHANGED file /\ pc' = "undo"
  /\ UNCHANGED <<runtime, by, Persistent, Ingress, tried, answer, cuts>>

Migrate ==
  /\ pc = "migrate"
  /\ \/ rows' = TRUE /\ pc' = "settings"
     \/ UNCHANGED rows /\ pc' = "undo"
  /\ UNCHANGED <<runtime, by, file, configured, Ingress, tried, answer, cuts>>

SaveSettings ==
  /\ pc = "settings"
  /\ \/ configured' = TRUE /\ pc' = "routes"
     \/ UNCHANGED configured /\ pc' = "undo"
  /\ UNCHANGED <<runtime, by, file, rows, Ingress, tried, answer, cuts>>

Routes ==
  /\ pc = "routes" /\ pc' \in {"commit", "undo"}
  /\ UNCHANGED <<runtime, by, file, Persistent, Ingress, tried, answer, cuts>>

(* The commit marker. When its write fails nobody knows which record is on   *)
(* the disk: the one there is read and resolved.                             *)
Commit ==
  /\ pc = "commit"
  /\ \/ file' = WrittenSynced("journal", "committed") /\ pc' = "clear"
     \/ file' \in Written("journal", "committed") /\ pc' = "recover"
  /\ UNCHANGED <<runtime, by, Persistent, Ingress, tried, answer, cuts>>

Clear ==
  /\ pc = "clear"
  /\ \/ file' = WrittenSynced("journal", "absent") /\ Answer("ok")
     \/ file' \in Written("journal", "absent") /\ Answer("error")
  /\ UNCHANGED <<runtime, Persistent, Ingress, tried, cuts>>

-----------------------------------------------------------------------------
(* _deactivate_initial_wireguard_runtime: unit, interface, then the record   *)
(* that nothing is attempted any more.                                       *)
UnitDown == enabled' = FALSE /\ up' = FALSE
ContainerDown == up' = FALSE /\ UNCHANGED enabled

Deactivated ==
  IF tried
  THEN /\ IF runtime = "native" THEN UnitDown ELSE ContainerDown
       /\ tried' = FALSE
       /\ file' = WrittenSynced("journal", "pending")
  ELSE UNCHANGED <<enabled, up, tried, file>>

(* It may fail at any of these.                                              *)
DeactivationFails ==
  /\ tried
  /\ \/ enabled' \in {enabled, FALSE} /\ up' \in {up, FALSE} /\ UNCHANGED <<tried, file>>
     \/ /\ enabled' = FALSE /\ up' = FALSE /\ tried' = FALSE
        /\ file' \in Written("journal", "pending")

(* provision's rollback: the runtime, then the two files, each if it can be. *)
InnerUndo ==
  /\ pc = "inner"
  /\ \/ Deactivated /\ pc' = "innerfiles"
     \/ DeactivationFails /\ pc' = "undo"
  /\ UNCHANGED <<runtime, by, Persistent, answer, cuts>>

InnerFiles ==
  /\ pc = "innerfiles" /\ pc' = "undo"
  /\ \E gone \in SUBSET {"server", "client"} :
       file' = [n \in Names |-> IF n \in gone THEN [file[n] EXCEPT !.now = "absent"]
                                ELSE file[n]]
  /\ UNCHANGED <<runtime, by, Persistent, Ingress, tried, answer, cuts>>

(* _rollback_initial_wireguard_setup.                                        *)
UndoRuntime ==
  /\ pc = "undo"
  /\ \/ Deactivated /\ pc' = "undorows" /\ UNCHANGED <<by, answer>>
     \/ DeactivationFails /\ Answer("error")
  /\ UNCHANGED <<runtime, Persistent, cuts>>

(* rollback_persistent: the database first, then the files.                  *)
UndoRows ==
  /\ pc = "undorows"
  /\ \/ rows' = FALSE /\ configured' = FALSE /\ pc' = "undoserver"
        /\ UNCHANGED <<by, answer>>
     \/ UNCHANGED Persistent /\ Answer("error")
  /\ UNCHANGED <<runtime, file, Ingress, tried, cuts>>

UndoServer ==
  /\ pc = "undoserver"
  /\ \/ file' = [file EXCEPT !["server"].now = "absent"] /\ pc' = "undoclient"
        /\ UNCHANGED <<by, answer>>
     \/ UNCHANGED file /\ Answer("error")
  /\ UNCHANGED <<runtime, Persistent, Ingress, tried, cuts>>

UndoClient ==
  /\ pc = "undoclient"
  /\ \/ /\ file' = [n \in Names |-> IF n = "client" THEN Same("absent") ELSE
                                    IF n = "server" THEN Same(file[n].now) ELSE file[n]]
        /\ pc' = "undojournal" /\ UNCHANGED <<by, answer>>
     \/ file' \in Written("client", "absent") /\ Answer("error")
  /\ UNCHANGED <<runtime, Persistent, Ingress, tried, cuts>>

UndoJournal ==
  /\ pc = "undojournal" /\ by # "parent"
  /\ \/ file' = WrittenSynced("journal", "absent") /\ RolledBack
     \/ file' \in Written("journal", "absent") /\ Answer("error")
  /\ UNCHANGED <<runtime, Persistent, Ingress, tried, cuts>>

(* finish_initial_setup: the parent clears the intent once the blocked       *)
(* policy is proved.                                                         *)
ParentFinish ==
  /\ pc = "undojournal" /\ by = "parent"
  /\ \/ \E proven \in PolicyEvidence : proven /\ file' = WrittenSynced("journal", "absent")
     \/ file' \in Written("journal", "absent")
  /\ Over("ok")
  /\ UNCHANGED <<runtime, Persistent, Ingress, tried, answer, cuts>>

-----------------------------------------------------------------------------
(* The process ends, or the machine loses power and comes back: an enabled   *)
(* unit starts the interface from the server file, a container's is gone.    *)
Crash ==
  /\ cuts < MaxCuts /\ pc # "down"
  /\ pc' = "down" /\ cuts' = cuts + 1
  /\ up' = IF runtime = "container" THEN FALSE ELSE up
  /\ UNCHANGED <<runtime, by, file, Persistent, enabled, tried, answer>>

PowerLoss ==
  /\ cuts < MaxCuts /\ pc # "down"
  /\ pc' = "down" /\ cuts' = cuts + 1
  /\ \E lost \in SUBSET Names :
       file' = [n \in Names |-> Same(IF n \in lost THEN file[n].disk ELSE file[n].now)]
  /\ up' = (runtime = "native" /\ enabled /\ Now("server")' = "key")
  /\ UNCHANGED <<runtime, by, Persistent, enabled, tried, answer>>

(* Another request finds an intent that an earlier one left.                 *)
Retry ==
  /\ pc = "idle" /\ Intent # "absent"
  /\ pc' = "recover" /\ by' = "request"
  /\ UNCHANGED <<runtime, file, Persistent, Ingress, tried, answer, cuts>>

Next ==
  \/ RecoverCommitted \/ RecoverPending \/ RecoverNothing \/ ParentRecover \/ Start
  \/ Request \/ InvalidRequest \/ WriteServer \/ WriteClient \/ Intend
  \/ ActivateNative \/ ActivateContainer \/ Sync \/ Migrate \/ SaveSettings \/ Routes \/ Commit \/ Clear
  \/ InnerUndo \/ InnerFiles \/ UndoRuntime \/ UndoRows \/ UndoServer \/ UndoClient
  \/ UndoJournal \/ ParentFinish \/ Crash \/ PowerLoss \/ Retry

Spec == Init /\ [][Next]_vars

-----------------------------------------------------------------------------
(* The journal holds a phase that read accepts, and the files are whole.     *)
TypeOK ==
  /\ runtime \in {"native", "container"}
  /\ \A n \in Names : {file[n].now, file[n].disk} \subseteq
       IF n = "journal" THEN {"absent", "pending", "attempted", "committed"}
                        ELSE {"absent", "key"}
  /\ {rows, configured, enabled, up, tried} \subseteq BOOLEAN
  /\ answer \in {"none", "ok", "error"} /\ cuts \in 0..MaxCuts

NothingThere ==
  /\ Now("server") = "absent" /\ Now("client") = "absent"
  /\ ~rows /\ ~configured /\ ~enabled /\ ~up

(* Without an intent on the disk the ingress is all there or not there at    *)
(* all, after every failure, crash and power loss of the setup, of its       *)
(* rollback and of its recovery.                                             *)
AllOrNothing ==
  pc \in {"idle", "down"} /\ Now("journal") = "absent" => Complete \/ NothingThere

(* The database never claims an ingress whose files a cut could take away:   *)
(* "clearing database claims before deleting files makes every crash cut     *)
(* acceptable to the container parent validator".                            *)
ClaimsHaveFiles ==
  rows => \A n \in {"server", "client"} : file[n] = Same("key")

(* An interface the database does not know is one the intent knows of, on    *)
(* the disk too, so that the next recovery takes it down.                    *)
InterfaceIsIntended ==
  (up \/ enabled) /\ ~configured =>
    /\ file["journal"].now \in {"attempted", "pending"}
    /\ pc \in {"idle", "down"} => file["journal"].now = "attempted"

(* A setup reported as done is there and stays: no later recovery rolls it   *)
(* back.                                                                     *)
DoneStaysDone == answer = "ok" => Complete
=============================================================================
