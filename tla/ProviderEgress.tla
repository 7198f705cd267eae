---------------------------- MODULE ProviderEgress ----------------------------
(***************************************************************************)
(* The host network a direct provider's tunnel needs                       *)
(* (services/provider_wireguard.py): the routing table of its own with the *)
(* unreachable defaults, the rules that send ingress traffic and provider  *)
(* sources there, the interface, its route and its configuration file.     *)
(*                                                                         *)
(* Every command is a step that may fail with or without its effect, may   *)
(* be the last one before the service dies, and is followed by the next    *)
(* command of the operation. The callers run one operation at a time       *)
(* (the provider's lock under the operation claim).                        *)
(***************************************************************************)
EXTENDS Naturals, Sequences

CONSTANTS
  Configs,    \* provider configurations: [iface, generation, addr]
  Ingress,    \* the WireGuard ingress interfaces the callers pass
  None

VARIABLES
  host,       \* the kernel's routing state and the configuration files
  op,         \* the running operation: its kind, arguments and commands to come
  armed       \* the ingress interfaces a caller has armed and not disarmed since

vars == <<host, op, armed>>

Interfaces == {c.iface : c \in Configs}
Addresses == {c.addr : c \in Configs}
Families == {4, 6}

Idle == [kind |-> "idle", config |-> None, iface |-> None, todo |-> <<>>,
         previous |-> None]

Bare == [unreachable |-> {}, iif |-> {}, oif |-> {}, sources |-> {}, route |-> None,
         up |-> [i \in Interfaces |-> None], file |-> [i \in Interfaces |-> None],
         foreign |-> "none"]

(* The host before ExitLane's first rule, with or without another program's  *)
(* rule at the guard's priorities or at the source rules' one.               *)
Init ==
  /\ host \in {[Bare EXCEPT !.foreign = f] : f \in {"none", "guard", "source"}}
  /\ op = Idle /\ armed = {}

(* _check_table_ownership: every route of the table is ours, and the default *)
(* belongs to this interface.                                                *)
TableOwned(i) == host.route \in {None, i}

(* _check_source_assignment: no other interface has the address.             *)
SourceFree(c) == \A i \in Interfaces \ {c.iface} :
                   host.up[i] # None => host.up[i].addr # c.addr

(* EgressConfig.validated: a configuration without a usable address is       *)
(* refused before anything is touched.                                       *)
Validated(c) == c.addr # None

(* _owned_rule: the rules at our priorities are ours and this provider's.    *)
RulesOwned(i) == host.foreign = "none" /\ host.oif \subseteq {i}

(* _preflight: nothing of anybody else, another provider's default and probe *)
(* rule included, where the guard is about to be written.                    *)
Preflight(i) == RulesOwned(i) /\ TableOwned(i)

GuardSteps == <<"unreachable4", "unreachable6">>
RuleSteps == <<"iif4", "iif6">>
StopSteps == <<"down", "unroute">>

(* _apply_guard                                                              *)
ApplyGuard == GuardSteps \o <<"source">> \o RuleSteps \o <<"oif">>

(* _apply_guard, then the interface, the file, the tunnel and its route.     *)
StartSteps ==
  ApplyGuard \o StopSteps \o <<"write", "up", "route", "verify">>

DisarmSteps(ingress) ==
  (IF ingress THEN <<"del_iif4", "del_iif6">> ELSE <<>>)
    \o <<"del_oif">> \o GuardSteps \o <<"unroute">>

Steps == {"unreachable4", "unreachable6", "source", "iif4", "iif6", "oif", "down", "unroute",
          "write", "up", "route", "verify", "restore", "del_iif4", "del_iif6", "del_oif"}

(* What one command does to the host.                                        *)
Unreachable(h, f) == [h EXCEPT !.unreachable = @ \cup {f}]
AddIif(h, f) == [h EXCEPT !.iif = @ \cup (Ingress \X {f})]
DelIif(h, f) == [h EXCEPT !.iif = @ \ (Ingress \X {f})]
AddSource(h, c) == [h EXCEPT !.sources = @ \cup {c.addr}]
Down(h, i) == [h EXCEPT !.up[i] = None, !.route = IF @ = i THEN None ELSE @]
WriteFile(h, i, c) == [h EXCEPT !.file[i] = c]

Effect(h, step, c, i, previous) ==
  CASE step = "unreachable4" -> Unreachable(h, 4)
    [] step = "unreachable6" -> Unreachable(h, 6)
    [] step = "source" -> AddSource(h, c)
    [] step = "iif4" -> AddIif(h, 4)
    [] step = "iif6" -> AddIif(h, 6)
    [] step = "oif" -> [h EXCEPT !.oif = @ \cup {i}]
    [] step = "down" -> Down(h, i)
    [] step = "unroute" -> [h EXCEPT !.route = IF @ = i THEN None ELSE @]
    [] step = "write" -> WriteFile(h, i, c)
    [] step = "up" -> [h EXCEPT !.up[i] = h.file[i]]
    [] step = "route" -> [h EXCEPT !.route = i]
    [] step = "verify" -> h
    [] step = "restore" -> WriteFile(h, i, previous)
    [] step = "del_iif4" -> DelIif(h, 4)
    [] step = "del_iif6" -> DelIif(h, 6)
    [] step = "del_oif" -> [h EXCEPT !.oif = @ \ {i}]

-----------------------------------------------------------------------------
Begin(kind, c, i, steps) ==
  /\ op.todo = <<>>
  /\ op' = [kind |-> kind, config |-> c, iface |-> i, todo |-> steps,
            previous |-> IF i = None THEN None ELSE host.file[i]]
  /\ UNCHANGED host

(* start: the checks come before the first command.                          *)
Start(c) ==
  /\ Validated(c) /\ SourceFree(c) /\ Preflight(c.iface)
  /\ Begin("start", c, c.iface, StartSteps)
  /\ UNCHANGED armed

(* arm, for the ingress alone, or with a provider's source and probe rule.   *)
ArmIngress ==
  /\ Preflight(None)
  /\ Begin("arm", None, None, GuardSteps \o RuleSteps)
  /\ UNCHANGED armed

Arm(c) ==
  /\ Validated(c) /\ SourceFree(c) /\ Preflight(c.iface)
  /\ Begin("arm", c, c.iface, ApplyGuard)
  /\ UNCHANGED armed

(* arm_for_restore: what any registered provider left behind is accepted.    *)
ArmForRestore(c) ==
  /\ Validated(c) /\ SourceFree(c) /\ host.foreign = "none"
  /\ Begin("arm", c, c.iface, ApplyGuard)
  /\ UNCHANGED armed

(* arm_source: before a disconnect, the address about to be given up.        *)
ArmSource(c) ==
  /\ Validated(c) /\ SourceFree(c) /\ TableOwned(c.iface) /\ host.foreign # "source"
  /\ Begin("arm", c, c.iface, <<"unreachable4", "source">>)
  /\ UNCHANGED armed

Stop(i) ==
  /\ Begin("stop", None, i, StopSteps)
  /\ UNCHANGED armed

(* _check_removal_ownership: the table's default is this provider's or gone. *)
RemovalOwned(i) == TableOwned(i)

(* disarm, of the ingress and the provider's probe rule or of the latter.    *)
Disarm(i, ingress) ==
  /\ RemovalOwned(i)
  /\ Begin("disarm", None, i, DisarmSteps(ingress))
  /\ armed' = IF ingress THEN {} ELSE armed

(* remove_config, at the end of a sign-out: only with the interface down.    *)
RemoveConfig(i) ==
  /\ op.todo = <<>> /\ host.up[i] = None
  /\ host' = [host EXCEPT !.file[i] = None]
  /\ op' = Idle /\ UNCHANGED armed

-----------------------------------------------------------------------------
Current == Head(op.todo)

(* verify_route: ingress traffic now leaves by this interface.               *)
RouteVerified ==
  /\ host.route = op.iface
  /\ \A n \in Ingress : <<n, 4>> \in host.iif

(* A route needs its device, and the last check its outcome.                 *)
Possible ==
  /\ Current = "route" => host.up[op.iface] # None
  /\ Current = "verify" => RouteVerified

(* The command succeeds. An operation that has written its rules has armed   *)
(* the ingress.                                                              *)
Do ==
  /\ op.todo # <<>> /\ Possible
  /\ host' = Effect(host, Current, op.config, op.iface, op.previous)
  /\ op' = [op EXCEPT !.todo = Tail(@)]
  /\ armed' = IF Current = "iif6" THEN Ingress ELSE armed

(* Deleting a route that is gone, or a rule until none is left, is no error. *)
Tolerated == Current \in {"unroute", "del_iif4", "del_iif6", "del_oif"}

(* A bug to be caught: a failed start is disarmed.                            *)
UndoDisarms ==
  CASE op.kind = "start" -> StopSteps \o DisarmSteps(TRUE) \o <<"restore">>
    [] op.kind = "rollback" /\ Current = "down" -> <<"restore">>
    [] OTHER -> <<>>
(* The command fails, with or without its effect. A start is rolled back:    *)
(* the interface is stopped and, whether that worked or not, the file is     *)
(* restored. The other operations just end.                                  *)
Undo ==
  CASE op.kind = "start" -> StopSteps \o <<"restore">>
    [] op.kind = "rollback" /\ Current = "down" -> <<"restore">>
    [] OTHER -> <<>>

Fail ==
  /\ op.todo # <<>> /\ ~Tolerated
  /\ \/ UNCHANGED host
     \/ Possible /\ host' = Effect(host, Current, op.config, op.iface, op.previous)
  /\ op' = [op EXCEPT !.todo = Undo,
                      !.kind = CASE @ = "start" -> "rollback" [] @ = "rollback" -> "broken"
                                 [] OTHER -> @]
  /\ UNCHANGED armed

(* The service ends between two commands: what was running is forgotten.     *)
Crash ==
  /\ op.todo # <<>>
  /\ op' = Idle /\ UNCHANGED <<host, armed>>

(* A reboot loses the routing state and keeps the files.                     *)
Reboot ==
  /\ host' = [Bare EXCEPT !.file = host.file, !.foreign = host.foreign]
  /\ op' = Idle /\ armed' = {}

(* The tunnel's interface goes away on its own, and its route with it.       *)
LinkLost ==
  /\ \E i \in Interfaces : host.up[i] # None /\ host' = Down(host, i)
  /\ UNCHANGED <<op, armed>>

Next ==
  \/ \E c \in Configs : Start(c) \/ Arm(c) \/ ArmForRestore(c) \/ ArmSource(c)
  \/ \E i \in Interfaces, ingress \in BOOLEAN : Disarm(i, ingress)
  \/ \E i \in Interfaces : Stop(i) \/ RemoveConfig(i)
  \/ ArmIngress \/ Do \/ Fail \/ Crash \/ Reboot \/ LinkLost

Spec == Init /\ [][Next]_vars

-----------------------------------------------------------------------------
TypeOK ==
  /\ host.unreachable \subseteq Families
  /\ host.iif \subseteq Ingress \X Families
  /\ host.oif \subseteq Interfaces
  /\ host.sources \subseteq Addresses
  /\ host.route \in Interfaces \cup {None}
  /\ host.up \in [Interfaces -> Configs \cup {None}]
  /\ host.file \in [Interfaces -> Configs \cup {None}]
  /\ op.kind \in {"idle", "start", "rollback", "broken", "arm", "stop", "disarm"}
  /\ \A n \in DOMAIN op.todo : op.todo[n] \in Steps
  /\ armed \subseteq Ingress

(* Where an ingress packet of a family goes: the table's rule, if there is   *)
(* one, sends it to the tunnel's default or to the unreachable default below *)
(* it; without a rule, or with an empty table, it leaves by the main table.  *)
Lookup(n, f) ==
  IF <<n, f>> \notin host.iif THEN "main"
  ELSE IF f = 4 /\ host.route # None THEN "tunnel"
  ELSE IF f \in host.unreachable THEN "unreachable" ELSE "main"

(* Ingress traffic that was armed never leaves by the host's own route, at   *)
(* no command of a start, a failed start's rollback, a stop or a lost        *)
(* tunnel, and after no crash, until a disarm.                               *)
ArmedNeverLeaks ==
  \A n \in armed, f \in Families : Lookup(n, f) # "main"

(* A rule never sends traffic into a table without the unreachable default,  *)
(* not even while the guard is being written or taken down.                  *)
RuleHasGuard ==
  \A r \in host.iif : r[2] \in host.unreachable

(* An interface that is up has a source rule for its address, whatever       *)
(* happened since ("late kernel replies can outlive disconnect").            *)
SourceGuarded ==
  \A i \in Interfaces : host.up[i] # None => host.up[i].addr \in host.sources

(* A start whose rollback reported no failure of its own left the file it    *)
(* found and no tunnel, at whichever command it had failed.                  *)
FailedStartRestores ==
  op.kind = "rollback" /\ op.todo = <<>> =>
    host.file[op.iface] = op.previous /\ host.up[op.iface] = None

(* The table's default is one provider's: a disarm never takes the ingress   *)
(* rules away under another provider's tunnel.                               *)
SparesOthers ==
  host.route # None /\ ~(host.iif \subseteq host'.iif) /\ ~Reboot
    => op.kind = "disarm" /\ host.route = op.iface
=============================================================================
