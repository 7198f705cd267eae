------------------------- MODULE ApplianceCreation -------------------------
(***************************************************************************)
(* installer/create-proxmox-lxc.py: the helper that creates the ExitLane   *)
(* container on a Proxmox host.  It plans from what the host offers, shows *)
(* the plan, and carries it out after the operator's confirmation, while   *)
(* other administrators go on changing the host.                           *)
(*                                                                         *)
(* A plan is the container's identifier, the storage and the template; the *)
(* remaining options are fixed by the arguments, and the storage of the    *)
(* templates, the bridge and the pool stay available.  What a guest runs   *)
(* inside is one number, the installation steps completed in it.           *)
(***************************************************************************)
EXTENDS Integers, FiniteSetsExt

CONSTANTS
    Ids,            \* container identifiers, numbers
    Stores,         \* storages, numbers in the order the host lists them
    Templates,      \* versions of the Debian template, numbers
    MaxChanges,     \* changes by other administrators
    None

VARIABLES
    guests,     \* identifier -> the guest, or None
    active,     \* storages that are active
    local,      \* templates the template storage has
    args,       \* the operator's choices, a field None where the helper is to choose
    commands,   \* the plan the helper carries out, None before it has one
    shown,      \* the plan the operator confirmed, None before
    fetch,      \* the plan includes downloading the template
    round,      \* the readiness rounds that agreed, and what they observed
    pc, changes

vars == <<guests, active, local, args, commands, shown, fetch, round, pc, changes>>

\* The arguments parse_args accepts.  "access" asks for credentials in the guest.
Arguments == [id : Ids \cup {None}, store : Stores \cup {None}, access : BOOLEAN]

\* Repositories, prerequisites, download, installation, service and health check, and the
\* access configuration when it was asked for.
LastStep == IF args.access THEN 7 ELSE 6
NoRound == [stable |-> 0, seen |-> None]

Init ==
    /\ guests = [i \in Ids |-> None] /\ active = Stores /\ local \in SUBSET Templates
    /\ args = None /\ commands = None /\ shown = None /\ fetch = FALSE /\ round = NoRound
    /\ pc = "ask" /\ changes = 0

Guest(by, p) == [by |-> by, plan |-> p, tun |-> FALSE, started |-> FALSE, steps |-> 0]

----------------------------------------------------------------------------
(* Other administrators                                                     *)

Changes ==
    /\ changes < MaxChanges /\ changes' = changes + 1
    /\ UNCHANGED <<args, commands, shown, fetch, round, pc>>

OtherGuest(i) ==
    /\ Changes /\ guests[i] = None
    /\ guests' = [guests EXCEPT ![i] = Guest("other", None)]
    /\ UNCHANGED <<active, local>>

OtherStorage(s) ==
    /\ Changes /\ active' = (active \ {s}) \cup ({s} \ active)
    /\ UNCHANGED <<guests, local>>

OtherTemplate(t) ==
    /\ Changes /\ local' = (local \ {t}) \cup ({t} \ local)
    /\ UNCHANGED <<guests, active>>

----------------------------------------------------------------------------
(* Planning                                                                 *)

Free == {i \in Ids : guests[i] = None}

\* The identifiers free_ctid returns: the one asked for or the cluster's next, if it is free.
FreeCtid(id) == Free \cap (IF id # None THEN {id} ELSE {Min(Free \cup {Max(Ids)})})

\* The storages that pass: the one asked for or the first the host lists, if it is active.
RootStorage(store) ==
    active \cap (IF store # None THEN {store} ELSE {Min(active \cup {Max(Stores)})})

\* select_template: the latest one the host has, otherwise the latest that is offered.
SelectTemplate == IF local # {} THEN Max(local) ELSE Max(Templates)

\* `plan`: the plan for the choices a, none when one of its requirements is not met.
Plans(a) == [id : FreeCtid(a.id), store : RootStorage(a.store), template : {SelectTemplate}]

\* The program ends; whatever was created is retained.
Ends == pc' = "ended"

\* A command fails or runs out of time, and the exception ends the program.
Fails == Ends /\ UNCHANGED guests

\* The arguments, or the answers of the interactive mode; an invalid one ends the program.
Ask ==
    /\ pc = "ask"
    /\ \/ args' \in Arguments /\ pc' = "plan"
       \/ Ends /\ args' = args
    /\ UNCHANGED <<guests, active, local, commands, shown, fetch, round, changes>>

Plan ==
    /\ pc = "plan"
    /\ \/ /\ Plans(args) = {} /\ Ends /\ UNCHANGED <<commands, fetch>>
       \/ \E p \in Plans(args) :
             commands' = p /\ fetch' = (local = {}) /\ pc' = "confirm"
    /\ UNCHANGED <<guests, active, local, args, shown, round, changes>>

\* The operator confirms, or not (or asked for a dry run).  Confirming freezes the discovered
\* choices.
Confirm ==
    /\ pc = "confirm"
    /\ \/ Ends /\ UNCHANGED <<args, shown>>
       \/ /\ pc' = "check" /\ shown' = commands
          /\ args' = [args EXCEPT !.id = commands.id, !.store = commands.store]
    /\ UNCHANGED <<guests, active, local, commands, fetch, round, changes>>

\* recheck_plan: the host must still give the plan that was shown.  It runs after the
\* confirmation and again after the download.
Checked(agrees) ==
    IF agrees
    THEN pc' = IF pc = "check" /\ fetch THEN "download"
               ELSE IF pc = "check" THEN "again" ELSE "create"
    ELSE Ends

\* Mutant: the plan made again is carried out instead of being compared.
RecheckAdopts ==
    /\ pc \in {"check", "again"}
    /\ Checked(Plans(args) # {})
    /\ IF Plans(args) = {} THEN commands' = commands ELSE commands' \in Plans(args)
    /\ UNCHANGED <<guests, active, local, args, shown, fetch, round, changes>>

Recheck ==
    /\ pc \in {"check", "again"}
    /\ Checked(commands \in Plans(args))
    /\ UNCHANGED <<guests, active, local, args, commands, shown, fetch, round, changes>>

Download ==
    /\ pc = "download"
    /\ \/ local' = local \cup {commands.template} /\ pc' = "again"
       \/ Ends /\ local' = local
    /\ UNCHANGED <<guests, active, args, commands, shown, fetch, round, changes>>

----------------------------------------------------------------------------
(* Creation                                                                 *)

\* pct create refuses an identifier that is taken and a storage or template that is gone; one
\* that fails later or is killed may leave the guest behind.
Create ==
    /\ pc = "create"
    /\ \/ /\ commands.id \in Free /\ commands.store \in active /\ commands.template \in local
          /\ guests' = [guests EXCEPT ![commands.id] = Guest("helper", commands)]
          /\ pc' = "tun" \/ Ends
       \/ Fails
    /\ UNCHANGED <<active, local, args, commands, shown, fetch, round, changes>>

AppendTun ==
    /\ pc = "tun"
    /\ \/ guests' = [guests EXCEPT ![commands.id].tun = TRUE] /\ pc' = "start"
       \/ Fails
    /\ UNCHANGED <<active, local, args, commands, shown, fetch, round, changes>>

StartGuest ==
    /\ pc = "start"
    /\ \/ guests' = [guests EXCEPT ![commands.id].started = TRUE] /\ pc' = "wait"
       \/ Fails
    /\ UNCHANGED <<active, local, args, commands, shown, fetch, round, changes>>

\* wait_ready: one round observes the guest's network, None when a probe of it fails, and
\* two equal rounds in succession are wanted; the deadline ends the wait.
Ready(seen) ==
    /\ pc = "wait"
    /\ \/ /\ round' = [stable |-> IF seen = None THEN 0
                                  ELSE IF seen = round.seen THEN round.stable + 1 ELSE 1,
                       seen |-> seen]
          /\ pc' = IF round'.stable >= 2 THEN "install" ELSE "wait"
       \/ Ends /\ round' = round
    /\ UNCHANGED <<guests, active, local, args, commands, shown, fetch, changes>>

\* One command in the guest after the other; the first that fails ends the program.
InstallStep ==
    /\ pc = "install"
    /\ \/ /\ guests' = [guests EXCEPT ![commands.id].steps = @ + 1]
          /\ pc' = IF guests[commands.id].steps + 1 = LastStep THEN "done" ELSE "install"
       \/ Fails
    /\ UNCHANGED <<active, local, args, commands, shown, fetch, round, changes>>

----------------------------------------------------------------------------
Others ==
    \/ \E i \in Ids : OtherGuest(i)
    \/ \E s \in Stores : OtherStorage(s)
    \/ \E t \in Templates : OtherTemplate(t)

Helper ==
    \/ Ask \/ Plan \/ Confirm \/ Recheck \/ Download \/ Create \/ AppendTun \/ StartGuest
    \/ \E seen \in {None, 1, 2} : Ready(seen)
    \/ InstallStep

Next == Others \/ Helper

Spec == Init /\ [][Next]_vars

----------------------------------------------------------------------------
(* Properties                                                               *)

\* The helper creates what the operator confirmed, the very identifier, storage and template
\* of the plan shown, however the host changed while the template was downloaded ("must never
\* silently select another CTID, storage, bridge or template after the operator confirms").
CreatedAsConfirmed ==
    \A i \in Ids : guests[i] # None /\ guests[i].by = "helper" =>
        guests[i].plan = shown /\ i = shown.id

\* No step touches a guest the helper did not create, and none removes a guest ("this helper
\* never destroys it"): also when another administrator takes the identifier between the last
\* check and pct create.
KeepsForeignGuests ==
    \A i \in Ids : guests[i] # None =>
        guests'[i] # None /\ (guests[i].by = "other" => guests'[i] = guests[i])

=============================================================================
