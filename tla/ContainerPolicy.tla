--------------------------- MODULE ContainerPolicy ---------------------------
(***************************************************************************)
(* The forwarding policy of the container's worker: the nft table the      *)
(* worker rewrites (container_runtime.ContainerWireGuardLifecycle) and the *)
(* provider transactions that open and close it                            *)
(* (container_egress.ContainerWireGuardEgress).                            *)
(*                                                                         *)
(* A section under policy_lock is one step: no other section runs in it,   *)
(* and what a failure inside it leaves behind is one of its outcomes.      *)
(* Starting a tunnel, tearing it down and probing it take further steps,   *)
(* between which the other tasks run.                                      *)
(***************************************************************************)
EXTENDS Naturals, FiniteSets

CONSTANTS
  Tasks,        \* requests and the monitor, each running one operation at a time
  Configs,      \* provider configurations: [iface, generation, addr]
  MaxSources,   \* the budget of guarded source addresses (64 in the code)
  MaxEpoch,     \* bound on policy_epoch
  None

VARIABLES
  table,      \* the kernel's table: forward and probe verdicts, guarded sources
  net,        \* the worker's copy: policy_interface, probe_interface, source_addresses
  epoch, candidate, proof, committed,   \* policy_epoch, _candidate, _proof, _committed
  owned,      \* owned_epoch of each provider's ContainerWireGuardEgress
  link,       \* the configuration each provider interface is up with, or None
  alive,      \* the worker runs
  lock,       \* the holder of mutation_lock
  task,       \* where each task is, with the configuration and epoch it captured
  granted,    \* the epoch and configuration the forward verdict was loaded for
  sealed      \* FALSE once a failed rewrite could not restore the block either

policy == <<epoch, candidate, proof, committed, owned>>
vars == <<table, net, policy, link, alive, lock, task, granted, sealed>>

Interfaces == {c.iface : c \in Configs}
Addresses == {c.addr : c \in Configs}
Epochs == 0..MaxEpoch
Rules == [forward: Interfaces \cup {None}, probe: Interfaces \cup {None},
          sources: SUBSET Addresses]
Idle == [pc |-> "idle", config |-> None, iface |-> None, epoch |-> 0]

Blocked(sources) == [forward |-> None, probe |-> None, sources |-> sources]

Init ==
  /\ table = Blocked({}) /\ net = Blocked({})
  /\ epoch = 0 /\ candidate = None /\ proof = None /\ committed = None
  /\ owned = [i \in Interfaces |-> 0]
  /\ link = [i \in Interfaces |-> None]
  /\ alive = FALSE /\ lock = None
  /\ task = [t \in Tasks |-> Idle]
  /\ granted = None /\ sealed = TRUE

(* validate_nft_guard: the listed table is, rule for rule, the one the copy  *)
(* describes.                                                                *)
Recognised(t, n) == t = n

(* What rewriting the table t, known to the worker as n, to target may do:  *)
(* nothing, when listing, recognising or checking fails; all of it; a       *)
(* failure after which the block is restored; or a second failure, which    *)
(* leaves any of the three tables in the kernel and a blocked copy (the     *)
(* worker owns no ingress, so deactivate does nothing).                     *)
Rewrites(t, n, target) ==
  LET block == Blocked(target.sources)
  IN {[table |-> t, net |-> n, ok |-> FALSE, sealed |-> TRUE]}
     \cup {r \in {[table |-> target, net |-> target, ok |-> TRUE, sealed |-> TRUE],
                  [table |-> block, net |-> block, ok |-> FALSE, sealed |-> TRUE]}
                 \cup {[table |-> k, net |-> block, ok |-> FALSE, sealed |-> FALSE] :
                         k \in {t, target, block}} : Recognised(t, n)}

(* restrict_provider(None): the block, with the probe's verdict kept or not. *)
Restrict(t, n, keep) ==
  Rewrites(t, n, [Blocked(n.sources) EXCEPT !.probe = IF keep THEN n.probe ELSE None])

(* restrict_provider(config): forwarding opened for the configuration.       *)
Open(t, n, c) ==
  Rewrites(t, n, [forward |-> c.iface, probe |-> c.iface, sources |-> n.sources])

(* A bug to be caught: the interface is registered in place of its address.  *)
RegisterSourceName(t, n, c) ==
  Rewrites(t, n, [forward |-> None, probe |-> c.iface, sources |-> n.sources \cup {c.iface}])

(* register_source: the address is guarded before it is assigned; a full     *)
(* budget refuses it.                                                        *)
RegisterSource(t, n, c) ==
  LET sources == n.sources \cup {c.addr}
  IN IF Cardinality(sources) > MaxSources
     THEN {[table |-> t, net |-> n, ok |-> FALSE, sealed |-> TRUE]}
     ELSE Rewrites(t, n, [forward |-> None, probe |-> c.iface, sources |-> sources])

(* A bug to be caught: the source is added, the forward verdict stays.       *)
RegisterWithoutBlock(c) ==
  Rewrites(table, net, [net EXCEPT !.sources = @ \cup {c.addr}])

(* The second rewrite runs only when the first one succeeded.                *)
BlockThenRegister(c) ==
  UNION {IF r.ok THEN RegisterSource(r.table, r.net, c) ELSE {r} :
           r \in Restrict(table, net, FALSE)}

Load(r) ==
  /\ table' = r.table /\ net' = r.net /\ sealed' = (sealed /\ r.sealed)

Ends(t) == task' = [task EXCEPT ![t] = Idle]

-----------------------------------------------------------------------------
(* _start, first section: block, guard the source, become the candidate.     *)
StartBegin(t, c) ==
  /\ alive /\ lock = None /\ task[t] = Idle /\ epoch < MaxEpoch
  /\ \E r \in BlockThenRegister(c) :
       /\ Load(r)
       /\ IF r.ok
          THEN /\ epoch' = epoch + 1 /\ candidate' = c /\ proof' = None
               /\ owned' = [owned EXCEPT ![c.iface] = epoch + 1]
               /\ lock' = t
               /\ task' = [task EXCEPT ![t] = [pc |-> "starting", config |-> c,
                                               iface |-> c.iface, epoch |-> epoch + 1]]
          ELSE UNCHANGED <<epoch, candidate, proof, owned, lock, task>>
  /\ committed' = None
  /\ UNCHANGED <<link, alive, granted>>

(* The tunnel comes up in place of the old one, or the start is rolled back  *)
(* and the interface is stopped or, when that fails too, left as it is. A    *)
(* start whose epoch has moved is stale and is failed as well.               *)
StartTunnel(t) ==
  LET c == task[t].config
  IN /\ alive /\ task[t].pc = "starting"
     /\ \/ /\ link' = [link EXCEPT ![c.iface] = c]
           /\ IF task[t].epoch = epoch /\ candidate = c
              THEN Ends(t) /\ lock' = None
              ELSE task' = [task EXCEPT ![t].pc = "failed"] /\ UNCHANGED lock
        \/ /\ \E up \in {None, link[c.iface], c} : link' = [link EXCEPT ![c.iface] = up]
           /\ task' = [task EXCEPT ![t].pc = "failed"]
           /\ UNCHANGED lock
     /\ UNCHANGED <<table, net, policy, alive, granted, sealed>>

(* _start, the failure: its own epoch is blocked and withdrawn, a later one  *)
(* is left alone.                                                            *)
StartFailed(t) ==
  /\ alive /\ task[t].pc = "failed"
  /\ IF task[t].epoch = epoch
     THEN /\ epoch < MaxEpoch
          /\ \E r \in Restrict(table, net, FALSE) :
               /\ Load(r)
               /\ IF r.ok THEN epoch' = epoch + 1 /\ candidate' = None /\ proof' = None
                          ELSE UNCHANGED <<epoch, candidate, proof>>
          /\ committed' = None
     ELSE UNCHANGED <<table, net, sealed, epoch, candidate, proof, committed>>
  /\ Ends(t) /\ lock' = None
  /\ UNCHANGED <<owned, link, alive, granted>>

(* require_teardown_owner                                                    *)
TeardownOwner(i) == ~(candidate # None /\ candidate.iface = i /\ owned[i] # epoch)

(* stop_interface and disarm, up to the teardown: a task that does not own   *)
(* the candidate's epoch is refused, and a candidate on another interface    *)
(* keeps its verdict.                                                        *)
StopBlock(t, i, teardown) ==
  /\ alive /\ lock = None /\ task[t] = Idle
  /\ TeardownOwner(i)
  /\ LET next == IF teardown THEN [Idle EXCEPT !.pc = "stopping", !.iface = i] ELSE Idle
     IN IF candidate # None /\ candidate.iface # i
        THEN /\ teardown /\ lock' = t /\ task' = [task EXCEPT ![t] = next]
             /\ UNCHANGED <<table, net, sealed, epoch, candidate, proof, committed>>
        ELSE /\ epoch < MaxEpoch
             /\ \E r \in Restrict(table, net, FALSE) :
                  /\ Load(r)
                  /\ IF r.ok
                     THEN /\ epoch' = epoch + 1 /\ candidate' = None /\ proof' = None
                          /\ task' = [task EXCEPT ![t] = next]
                          /\ lock' = IF teardown THEN t ELSE None
                     ELSE UNCHANGED <<epoch, candidate, proof, task, lock>>
             /\ committed' = None
  /\ UNCHANGED <<owned, link, alive, granted>>

(* validate_teardown_file refuses the configuration and the interface stays, *)
(* or wg-quick takes it down or fails to.                                    *)
TeardownOutcomes(i) == {None, link[i]}

StopTunnel(t) ==
  LET i == task[t].iface
  IN /\ alive /\ task[t].pc = "stopping"
     /\ \E up \in TeardownOutcomes(i) : link' = [link EXCEPT ![i] = up]
     /\ Ends(t) /\ lock' = None
     /\ UNCHANGED <<table, net, policy, alive, granted, sealed>>

-----------------------------------------------------------------------------
(* probe: the epoch is captured without the lock.                            *)
ProbeBegin(t, c) ==
  /\ alive /\ task[t] = Idle /\ candidate = c
  /\ task' = [task EXCEPT ![t] = [pc |-> "probing", config |-> c,
                                  iface |-> c.iface, epoch |-> epoch]]
  /\ UNCHANGED <<table, net, policy, link, alive, lock, granted, sealed>>

(* What the name queries over UDP and TCP come to: a valid answer or none.   *)
DnsAnswers == BOOLEAN

(* source_route_proven: the source's rule is there and its traffic leaves by *)
(* the configuration's own interface.                                        *)
RouteProven(c) == link[c.iface] = c /\ c.addr \in table.sources

(* Two rounds of dataplane, name and route evidence; ready needs the         *)
(* configured peer to be up and the epoch not to have moved meanwhile.       *)
ProbeObserve(t) ==
  LET c == task[t].config
  IN /\ alive /\ task[t].pc = "probing"
     /\ \E answered \in DnsAnswers :
          /\ answered => RouteProven(c) /\ task[t].epoch = epoch /\ candidate = c
          /\ task' = [task EXCEPT ![t].pc = IF answered THEN "ready" ELSE "unready"]
     /\ UNCHANGED <<table, net, policy, link, alive, lock, granted, sealed>>

Current(t) == task[t].epoch = epoch /\ candidate = task[t].config

(* A bug to be caught: the epoch is not compared when the probe ends.        *)
ProbeApplyLate(t) ==
  /\ alive /\ task[t].pc \in {"ready", "unready"}
  /\ IF task[t].pc = "ready"
     THEN /\ proof' = [epoch |-> epoch, config |-> task[t].config, fresh |-> TRUE]
          /\ UNCHANGED <<table, net, sealed, committed>>
     ELSE /\ \E r \in Restrict(table, net, TRUE) : Load(r)
          /\ proof' = None /\ committed' = None
  /\ Ends(t)
  /\ UNCHANGED <<epoch, candidate, owned, link, alive, lock, granted>>

(* probe, the last section: a probe of an earlier epoch changes nothing,     *)
(* proof is recorded, anything else closes forwarding.                       *)
ProbeApply(t) ==
  /\ alive /\ task[t].pc \in {"ready", "unready"}
  /\ IF ~Current(t)
     THEN UNCHANGED <<table, net, sealed, proof, committed>>
     ELSE IF task[t].pc = "ready"
     THEN /\ proof' = [epoch |-> epoch, config |-> candidate, fresh |-> TRUE]
          /\ UNCHANGED <<table, net, sealed, committed>>
     ELSE /\ \E r \in Restrict(table, net, TRUE) : Load(r)
          /\ proof' = None /\ committed' = None
  /\ Ends(t)
  /\ UNCHANGED <<epoch, candidate, owned, link, alive, lock, granted>>

(* A cancelled probe revokes what it was proving, if that is still current.  *)
ProbeCancel(t) ==
  /\ alive /\ task[t].pc \in {"probing", "ready", "unready"} /\ Current(t)
  /\ \E r \in Restrict(table, net, TRUE) :
       Load(r) /\ proof' = IF r.ok THEN None ELSE proof
  /\ committed' = None
  /\ Ends(t)
  /\ UNCHANGED <<epoch, candidate, owned, link, alive, lock, granted>>

(* The proof is older than five seconds.                                     *)
ProofAges ==
  /\ alive /\ proof # None /\ proof.fresh
  /\ proof' = [proof EXCEPT !.fresh = FALSE]
  /\ UNCHANGED <<table, net, epoch, candidate, committed, owned, link, alive, lock, task,
                 granted, sealed>>

Proven(c) ==
  /\ candidate = c /\ proof # None
  /\ proof.epoch = epoch /\ proof.config = c /\ proof.fresh

(* _committed: a fresh proof of this configuration in this epoch, a last     *)
(* observation, then forwarding. A failure in either drops the proof and     *)
(* blocks; so does a cancellation, which may also hit the finished commit.   *)
Commit(t, c) ==
  /\ alive /\ lock = None /\ task[t] = Idle /\ Proven(c)
  /\ \/ \E r \in Open(table, net, c) :
          /\ r.ok /\ Load(r)
          /\ committed' = [epoch |-> epoch, config |-> c]
          /\ granted' = [epoch |-> epoch, config |-> c]
          /\ UNCHANGED proof
     \/ \E opened \in {[table |-> table, net |-> net, sealed |-> TRUE]}
                      \cup Open(table, net, c) :
        \E r \in Restrict(opened.table, opened.net, FALSE) :
          /\ table' = r.table /\ net' = r.net
          /\ sealed' = (sealed /\ opened.sealed /\ r.sealed)
          /\ proof' \in {None} \cup (IF r.ok THEN {} ELSE {proof})
          /\ committed' = None
          /\ granted' = IF r.table.forward = c.iface
                        THEN [epoch |-> epoch, config |-> c] ELSE granted
  /\ UNCHANGED <<epoch, candidate, owned, link, alive, lock, task>>

-----------------------------------------------------------------------------
(* rebind_initial_ingress: the block is loaded for a new ingress; a failure  *)
(* restores the old block, and a second one leaves the table and the copy.   *)
Rebind ==
  /\ alive /\ table = net /\ epoch < MaxEpoch
  /\ epoch' = epoch + 1
  /\ candidate' = None /\ proof' = None /\ committed' = None
  /\ \/ table' = Blocked(net.sources) /\ net' = Blocked(net.sources) /\ UNCHANGED sealed
     \/ table' \in {table, Blocked(net.sources)} /\ UNCHANGED net /\ sealed' = FALSE
  /\ UNCHANGED <<owned, link, alive, lock, task, granted>>

(* validate_previous_policy: the sources of an earlier worker's table.       *)
PreviousSources(t) == t.sources

(* arm_guard recognises whatever table it finds, keeps its sources and loads *)
(* the block.                                                                *)
ArmGuard(t) == Blocked(PreviousSources(t))

(* configure_providers in a new worker.                                      *)
WorkerStarts ==
  /\ ~alive /\ alive' = TRUE
  /\ link = [i \in Interfaces |-> None] /\ table = ArmGuard(table)
  /\ table' = ArmGuard(table) /\ net' = ArmGuard(table)
  /\ epoch' = 1 /\ candidate' = None /\ proof' = None /\ committed' = None
  /\ owned' = [i \in Interfaces |-> 0]
  /\ sealed' = TRUE
  /\ UNCHANGED <<link, lock, task, granted>>

(* The worker is stopped or dies: its memory goes, the kernel's state stays. *)
WorkerEnds ==
  /\ alive /\ alive' = FALSE
  /\ net' = Blocked({}) /\ epoch' = 0
  /\ candidate' = None /\ proof' = None /\ committed' = None
  /\ owned' = [i \in Interfaces |-> 0]
  /\ lock' = None /\ task' = [t \in Tasks |-> Idle]
  /\ UNCHANGED <<table, link, granted, sealed>>

(* The parent's reset, before the next worker: the provider interfaces are   *)
(* deleted one by one, and when none is left the block is armed.             *)
ParentReset ==
  /\ ~alive
  /\ \/ \E i \in Interfaces : /\ link[i] # None
                             /\ link' = [link EXCEPT ![i] = None]
                             /\ UNCHANGED table
     \/ /\ link = [i \in Interfaces |-> None]
        /\ table' = ArmGuard(table) /\ UNCHANGED link
  /\ UNCHANGED <<net, policy, alive, lock, task, granted, sealed>>

(* A failed reset ends the container: interfaces and table go with its       *)
(* network namespace, and the next one starts blocked.                       *)
NamespaceEnds ==
  /\ ~alive
  /\ link' = [i \in Interfaces |-> None] /\ table' = Blocked({})
  /\ UNCHANGED <<net, policy, alive, lock, task, granted, sealed>>

Next ==
  \/ \E t \in Tasks, c \in Configs : StartBegin(t, c) \/ ProbeBegin(t, c) \/ Commit(t, c)
  \/ \E t \in Tasks : \/ StartTunnel(t) \/ StartFailed(t) \/ StopTunnel(t)
                      \/ ProbeObserve(t) \/ ProbeApply(t) \/ ProbeCancel(t)
  \/ \E t \in Tasks, i \in Interfaces, teardown \in BOOLEAN : StopBlock(t, i, teardown)
  \/ ProofAges \/ Rebind \/ WorkerStarts \/ WorkerEnds \/ ParentReset \/ NamespaceEnds

Spec == Init /\ [][Next]_vars

-----------------------------------------------------------------------------
TypeOK ==
  /\ table \in Rules /\ net \in Rules
  /\ epoch \in Epochs /\ candidate \in Configs \cup {None}
  /\ proof \in [epoch: Epochs, config: Configs, fresh: BOOLEAN] \cup {None}
  /\ committed \in [epoch: Epochs, config: Configs] \cup {None}
  /\ owned \in [Interfaces -> Epochs]
  /\ link \in [Interfaces -> Configs \cup {None}]
  /\ alive \in BOOLEAN /\ lock \in Tasks \cup {None}
  /\ \A t \in Tasks :
       /\ task[t].pc \in {"idle", "starting", "failed", "stopping", "probing", "ready",
                          "unready"}
       /\ task[t].config \in Configs \cup {None}
       /\ task[t].iface \in Interfaces \cup {None}
       /\ task[t].epoch \in Epochs
  /\ granted \in [epoch: Epochs, config: Configs] \cup {None}
  /\ sealed \in BOOLEAN

(* While the worker runs, the kernel forwards only for the configuration     *)
(* that is still the candidate, and it was opened for it in the epoch that   *)
(* is still current: no start, stop or rebind since (container_egress.py,    *)
(* "only after ... the exact candidate generation has complete dataplane     *)
(* proof"). Not claimed once a failed rewrite also failed to block again.    *)
ForwardingIsCurrent ==
  alive /\ sealed /\ table.forward # None =>
    /\ candidate # None /\ candidate.iface = table.forward
    /\ granted = [epoch |-> epoch, config |-> candidate]

(* A provider interface that is up has its address guarded against leaving   *)
(* by another way, whatever failed on the way there (register_source runs    *)
(* before the address is assigned).                                          *)
SourceGuarded ==
  \A i \in Interfaces : link[i] # None => link[i].addr \in table.sources

(* What observe reports as connected is forwarded by the kernel, in every    *)
(* outcome of a failed rewrite.                                              *)
ConnectedForwards ==
  alive /\ candidate # None /\ committed = [epoch |-> epoch, config |-> candidate]
        /\ net.forward = candidate.iface
    => table.forward = candidate.iface

(* A probe that ends in another epoch than it began in changes nothing: a    *)
(* late answer about a replaced generation neither closes the new one's      *)
(* forwarding nor leaves a proof a commit could use.                         *)
LateProbe ==
  \A t \in Tasks :
    (/\ task[t].pc \in {"probing", "ready", "unready"} /\ task'[t] = Idle
     /\ alive' /\ task[t].epoch # epoch)
      => UNCHANGED <<table, net, policy>>

(* A guarded source stays guarded, through failed rewrites, worker deaths    *)
(* and resets, until the namespace ends (late replies can outlive a          *)
(* connection).                                                              *)
KeepsSources == NamespaceEnds \/ table.sources \subseteq table'.sources
=============================================================================
