-------------------------- MODULE ManagementRouting --------------------------
(***************************************************************************)
(* services/management_routing.py: the rules and routes that keep traffic  *)
(* to local networks off the VPN provider's path.  Several processes (the  *)
(* application's monitor and requests, systemd hooks) run the same         *)
(* reconciler under one lock, while the provider daemon and the kernel     *)
(* change rules, tables and links underneath it.                           *)
(*                                                                         *)
(* One address family is modelled: the code treats the two as copies of    *)
(* each other.  Three networks stand for the three reasons a network is    *)
(* protected: "lan" is directly attached, "routed" is a management prefix  *)
(* from the settings, "clients" is the WireGuard client subnet.            *)
(***************************************************************************)
EXTENDS Integers, FiniteSets

CONSTANTS
    Procs,       \* processes that run the reconciler
    MaxChanges,  \* bound: changes made by the provider, the kernel and the settings
    MaxFailures, \* bound: commands that fail, and processes that are killed
    None         \* no rule, no route, no job

VARIABLES
    kernel,     \* what `ip rule` and `ip route` show
    settings,   \* the networks the stored settings protect
    cached,     \* network.management_provider_tables names the provider's table
    lock,       \* the process inside the in-process lock and the lock file
    job,        \* each process's reconciliation
    sound,      \* the mode of the last complete run nothing has disturbed since
    changes, failures

vars == <<kernel, settings, cached, lock, job, sound, changes, failures>>

Networks == {"lan", "routed", "clients"}
Paths == {"eth", "router", "gateway", "wg", "unreachable"}
Base == 10000
Lowest == 1
NoRoutes == [n \in Networks |-> None]

\* A host as the first run finds it: the provider's daemon and the WireGuard
\* interface may be up already, and a rule of an older release be left.
Init ==
    /\ kernel \in [gateway: {TRUE}, specific: {FALSE}, wg: BOOLEAN,
                   rule: {None, 0}, default: BOOLEAN, foreign: {None},
                   main: {NoRoutes}, table: {NoRoutes},
                   rules: {{}, {<<0, "lan">>}}]
    /\ settings \in {{"routed"}, {"routed", "clients"}}
    /\ cached \in BOOLEAN
    /\ lock = None
    /\ job = [p \in Procs |-> None]
    /\ sound = None
    /\ changes = 0
    /\ failures = 0

-----------------------------------------------------------------------------
(* What the kernel does with a packet to a network. *)

\* The main table: the most specific route, then the lowest metric.
MainPath(n) ==
    IF n = "lan" THEN "eth"
    ELSE IF n = "clients" /\ kernel.wg THEN "wg"
    ELSE IF kernel.main[n] # None THEN kernel.main[n]
    ELSE IF n = "routed" /\ kernel.specific THEN "router"
    ELSE IF kernel.gateway THEN "gateway" ELSE "unreachable"

\* The provider's rule is consulted before every destination rule for n.
ProviderFirst(n) ==
    /\ kernel.rule # None
    /\ \A r \in kernel.rules : r[2] = n => kernel.rule <= r[1]

TablePath(n) ==
    IF n = "lan" /\ kernel.foreign # None THEN kernel.foreign
    ELSE IF kernel.table[n] # None THEN kernel.table[n]
    ELSE IF kernel.default THEN "tunnel" ELSE None

Lookup(n) ==
    IF ProviderFirst(n) /\ TablePath(n) # None THEN TablePath(n) ELSE MainPath(n)

\* A local network whose traffic leaves through the provider, or the client
\* subnet through the physical default route.
Leaks(n) == Lookup(n) = "tunnel" \/ (n = "clients" /\ Lookup(n) = "gateway")

\* _route_get: `ip route get` reports the path the kernel would choose.
RouteGet(n) == Lookup(n)

\* _main_routes, _owned_routes and _owned_provider_routes: of a table's routes
\* those with the reconciler's protocol number and metric.
OwnedRoutes(routes) == routes

\* configured_prefixes and configured_protected_destinations, the stored rows
\* after parsing.
Configured == settings

\* What has to stay local: with the networks of the default route's device.
Kept == Configured \cup (IF kernel.gateway THEN {"lan"} ELSE {})

-----------------------------------------------------------------------------
(* The provider's daemon, the links and the settings. *)

\* A change that no reconciliation made: every run in progress has stale reads.
Change(k) ==
    /\ changes < MaxChanges
    /\ changes' = changes + 1
    /\ kernel' = k
    /\ job' = [p \in Procs |->
                  IF job[p] = None THEN None ELSE [job[p] EXCEPT !.quiet = FALSE]]
    /\ UNCHANGED <<cached, lock, failures>>

\* What a connecting or disconnecting provider does is what a transition was
\* prepared for.
Unsettled ==
    /\ sound' = (IF sound = "prepared" THEN sound ELSE None)
    /\ UNCHANGED settings

ProviderRule(priority) ==
    /\ kernel.rule = None
    /\ Change([kernel EXCEPT !.rule = priority])
    /\ Unsettled

ProviderDefault ==
    /\ ~kernel.default
    /\ Change([kernel EXCEPT !.default = TRUE])
    /\ Unsettled

ProviderForeign(path) ==
    /\ kernel.default /\ kernel.foreign = None
    /\ Change([kernel EXCEPT !.foreign = path])
    /\ sound' = None
    /\ UNCHANGED settings

\* The daemon removes its rule, or its table with every route in it.
ProviderDown ==
    /\ kernel.rule # None
    /\ Change([kernel EXCEPT !.rule = None])
    /\ Unsettled

ProviderFlush ==
    /\ kernel.default
    /\ Change([kernel EXCEPT !.default = FALSE, !.foreign = None, !.table = NoRoutes])
    /\ sound' = None
    /\ UNCHANGED settings

\* An interface takes the routes that use it along.
WireGuardLink ==
    /\ Change([kernel EXCEPT !.wg = ~@,
                             !.table = [n \in Networks |-> IF @[n] = "wg" THEN None ELSE @[n]]])
    /\ sound' = None
    /\ UNCHANGED settings

DefaultRoute ==
    /\ Change([kernel EXCEPT !.gateway = ~@])
    /\ sound' = None
    /\ UNCHANGED settings

SpecificRoute ==
    /\ Change([kernel EXCEPT !.specific = ~@])
    /\ sound' = None
    /\ UNCHANGED settings

\* PUT deployment security and the first WireGuard setup: the rows change, the
\* reconciliation that follows is one of the runs below.
SavePrefixes ==
    /\ Change(kernel)
    /\ settings' = (IF "routed" \in settings THEN settings \ {"routed"}
                                             ELSE settings \cup {"routed"})
    /\ sound' = None

ConfigureWireGuard ==
    /\ "clients" \notin settings
    /\ Change(kernel)
    /\ settings' = settings \cup {"clients"}
    /\ sound' = None

-----------------------------------------------------------------------------
(* One reconciliation, from taking the locks to the postconditions. *)

Priority(p) == IF job[p].transition THEN Lowest ELSE Base

At(p, pc) == lock = p /\ job[p] # None /\ job[p].pc = pc

Set(p, j) == job' = [job EXCEPT ![p] = j]

\* Mutant: nobody waits for the lock.
BeginUnlocked(p, transition) ==
    /\ job[p] = None
    /\ lock' = p
    /\ Set(p, [pc |-> "rules", quiet |-> TRUE, transition |-> transition,
               wanted |-> Configured, rules |-> {}, rule |-> None,
               owned |-> NoRoutes, desired |-> NoRoutes, path |-> NoRoutes,
               target |-> FALSE])
    /\ sound' = None
    /\ UNCHANGED <<kernel, settings, cached, changes, failures>>

\* reconcile and prepare_provider_transition: the settings are read once both
\* locks are held.
Begin(p, transition) ==
    /\ lock = None
    /\ lock' = p
    /\ Set(p, [pc |-> "rules", quiet |-> TRUE, transition |-> transition,
               wanted |-> Configured, rules |-> {}, rule |-> None,
               owned |-> NoRoutes, desired |-> NoRoutes, path |-> NoRoutes,
               target |-> FALSE])
    /\ sound' = None
    /\ UNCHANGED <<kernel, settings, cached, changes, failures>>

\* The monitor, a hook or the end of a provider operation reconciles; the
\* start of one, and the hook before the daemons, prepares for it.
Reconcile(p) == Begin(p, FALSE)
PrepareTransition(p) == Begin(p, TRUE)

\* Every exit releases the locks.  `mode` is what the run has established.
End(p, mode) ==
    /\ lock' = None
    /\ Set(p, None)
    /\ sound' = (IF job[p].quiet THEN mode ELSE None)

\* A command fails, the store fails, or the process is killed.
Fail(p) ==
    /\ lock = p
    /\ failures < MaxFailures
    /\ failures' = failures + 1
    /\ End(p, None)
    /\ UNCHANGED <<kernel, settings, cached, changes>>

ReadRules(p) ==
    /\ At(p, "rules")
    /\ Set(p, [job[p] EXCEPT !.pc = "main", !.rules = kernel.rules, !.rule = kernel.rule])
    /\ UNCHANGED <<kernel, settings, cached, lock, sound, changes, failures>>

\* _protected_destination_paths: without its interface the client subnet is
\* to be blocked.
ClientPath(wanted) ==
    IF "clients" \notin wanted THEN None
    ELSE IF kernel.wg THEN "wg" ELSE "unreachable"

ReadMain(p) ==
    /\ At(p, "main")
    /\ Set(p, [job[p] EXCEPT !.pc = "plan", !.path["clients"] = ClientPath(job[p].wanted)])
    /\ UNCHANGED <<kernel, settings, cached, lock, sound, changes, failures>>

Closed(p) == job[p].path["clients"] = "unreachable"

\* _reconcile_routes: a management prefix without a route of its own gets one
\* through the default gateway.
PlanMain(p) ==
    /\ At(p, "plan")
    /\ LET routed == "routed" \in job[p].wanted
           own == routed /\ ~kernel.specific
       IN IF own /\ ~kernel.gateway
          THEN End(p, None)
          ELSE /\ Set(p, [job[p] EXCEPT
                      !.pc = "routes",
                      !.wanted = {},
                      !.owned = OwnedRoutes(kernel.main),
                      !.desired = [NoRoutes EXCEPT
                          !["routed"] = IF own THEN "gateway" ELSE None,
                          !["clients"] = IF Closed(p) THEN "unreachable" ELSE None],
                      !.path["routed"] =
                          IF ~routed THEN None ELSE IF own THEN "gateway" ELSE "router"])
               /\ UNCHANGED <<lock, sound>>
    /\ UNCHANGED <<kernel, settings, cached, changes, failures>>

\* What a pass over owned routes still has to add, and to delete afterwards.
Missing(p) == {n \in Networks : job[p].desired[n] \notin {None, job[p].owned[n]}}
Stale(p) == {n \in Networks : job[p].owned[n] # None /\ job[p].desired[n] = None}

\* The passes run in order of address; gateway paths come last in a mirror.
Rank == [lan |-> 1, clients |-> 2, routed |-> 3]
Earliest(n, S) == n \in S /\ \A m \in S : Rank[n] <= Rank[m]

AddMain(p, n) ==
    /\ At(p, "routes")
    /\ Earliest(n, Missing(p))
    /\ kernel' = [kernel EXCEPT !.main[n] = job[p].desired[n]]
    /\ Set(p, [job[p] EXCEPT !.owned[n] = job[p].desired[n]])
    /\ UNCHANGED <<settings, cached, lock, sound, changes, failures>>

DeleteMain(p, n) ==
    /\ At(p, "routes")
    /\ Missing(p) = {}
    /\ Earliest(n, Stale(p))
    /\ kernel' = [kernel EXCEPT !.main[n] = None]
    /\ Set(p, [job[p] EXCEPT !.owned[n] = None])
    /\ UNCHANGED <<settings, cached, lock, sound, changes, failures>>

\* The main table is read again, and the directly attached networks.
ReadDirect(p) ==
    /\ At(p, "routes")
    /\ Missing(p) = {} /\ Stale(p) = {}
    /\ Set(p, [job[p] EXCEPT !.pc = "tables",
                             !.path["lan"] = IF kernel.gateway THEN "eth" ELSE None])
    /\ UNCHANGED <<kernel, settings, cached, lock, sound, changes, failures>>

\* The provider's table needs the protected routes when its rule comes first
\* and it has a default route, or when a transition expects it.
Discovered(p) ==
    job[p].rule # None /\ job[p].rule <= Priority(p) /\ kernel.default

Target(p) == Discovered(p) \/ (job[p].transition /\ cached)

\* CoreProviderTableStore.save: a table once seen is remembered.
Remembered(found) == cached \/ found

\* Mutant: an agreeing route of somebody else counts as a conflict too.
ConflictsAny(path) == path # None

\* A route of somebody else's in the provider's table stands if it agrees with
\* the path wanted there.
Conflicts(path) == path \notin {None, "eth"}

ReadTables(p) ==
    /\ At(p, "tables")
    /\ cached' = Remembered(Discovered(p))
    /\ LET target == Target(p)
           alien == target /\ kernel.foreign # None /\ job[p].path["lan"] # None
       IN IF alien /\ Conflicts(kernel.foreign)
          THEN End(p, None)
          ELSE /\ Set(p, [job[p] EXCEPT
                      !.pc = "mirror",
                      !.owned = OwnedRoutes(kernel.table),
                      !.target = target,
                      !.desired = [n \in Networks |->
                          IF target /\ ~(alien /\ n = "lan") THEN job[p].path[n] ELSE None]])
               /\ UNCHANGED <<lock, sound>>
    /\ UNCHANGED <<kernel, settings, changes, failures>>

\* A route over an interface that has gone meanwhile is refused.
AddMirror(p, n) ==
    /\ At(p, "mirror")
    /\ Earliest(n, Missing(p))
    /\ IF job[p].desired[n] = "wg" /\ ~kernel.wg
       THEN End(p, None) /\ UNCHANGED kernel
       ELSE /\ kernel' = [kernel EXCEPT !.table[n] = job[p].desired[n]]
            /\ Set(p, [job[p] EXCEPT !.owned[n] = job[p].desired[n]])
            /\ UNCHANGED <<lock, sound>>
    /\ UNCHANGED <<settings, cached, changes, failures>>

\* So is the deletion of a route that somebody else removed.
DeleteMirror(p, n) ==
    /\ At(p, "mirror")
    /\ Missing(p) = {}
    /\ Earliest(n, Stale(p))
    /\ IF kernel.table[n] = None
       THEN End(p, None) /\ UNCHANGED kernel
       ELSE /\ kernel' = [kernel EXCEPT !.table[n] = None]
            /\ Set(p, [job[p] EXCEPT !.owned[n] = None])
            /\ UNCHANGED <<lock, sound>>
    /\ UNCHANGED <<settings, cached, changes, failures>>

Mirrored(p) ==
    /\ At(p, "mirror")
    /\ Missing(p) = {} /\ Stale(p) = {}
    /\ Set(p, [job[p] EXCEPT !.pc = "apply", !.rule = None,
                             !.owned = NoRoutes, !.desired = NoRoutes])
    /\ UNCHANGED <<kernel, settings, cached, lock, sound, changes, failures>>

\* _reconcile: destination rules, every new one before any old one goes.
DesiredRules(p) == {<<Priority(p), n>> : n \in {m \in Networks : job[p].path[m] # None}}

AddRule(p, n) ==
    /\ At(p, "apply")
    /\ Earliest(n, {r[2] : r \in DesiredRules(p) \ job[p].rules})
    /\ kernel' = [kernel EXCEPT !.rules = @ \cup {<<Priority(p), n>>}]
    /\ Set(p, [job[p] EXCEPT !.rules = @ \cup {<<Priority(p), n>>}])
    /\ UNCHANGED <<settings, cached, lock, sound, changes, failures>>

\* Mutant: old rules go before the new ones are there.
DeleteRuleFirst(p, r) ==
    /\ At(p, "apply")
    /\ r \in job[p].rules \ DesiredRules(p)
    /\ kernel' = [kernel EXCEPT !.rules = @ \ {r}]
    /\ Set(p, [job[p] EXCEPT !.rules = @ \ {r}])
    /\ UNCHANGED <<settings, cached, lock, sound, changes, failures>>

DeleteRule(p, r) ==
    /\ At(p, "apply")
    /\ DesiredRules(p) \subseteq job[p].rules
    /\ r \in job[p].rules \ DesiredRules(p)
    /\ \A q \in job[p].rules \ DesiredRules(p) :
          r[1] < q[1] \/ (r[1] = q[1] /\ Rank[r[2]] <= Rank[q[2]])
    /\ kernel' = [kernel EXCEPT !.rules = @ \ {r}]
    /\ Set(p, [job[p] EXCEPT !.rules = @ \ {r}])
    /\ UNCHANGED <<settings, cached, lock, sound, changes, failures>>

\* _verify_postconditions, first half: rules and routes read back.
VerifyTables(p) ==
    /\ At(p, "apply")
    /\ job[p].rules = DesiredRules(p)
    /\ IF /\ kernel.rules = DesiredRules(p)
          /\ Closed(p) => kernel.main["clients"] = "unreachable"
          /\ job[p].target => \A n \in Networks :
                 job[p].path[n] # None =>
                     \/ kernel.table[n] = job[p].path[n]
                     \/ n = "lan" /\ kernel.foreign = "eth"
       THEN Set(p, [job[p] EXCEPT !.pc = "verify", !.rules = {}]) /\ UNCHANGED <<lock, sound>>
       ELSE End(p, None)
    /\ UNCHANGED <<kernel, settings, cached, changes, failures>>

\* Second half: `ip route get` for every path, and for a public address.  A
\* blocked client subnet ends the run with its own code.
VerifyRoutes(p) ==
    /\ At(p, "verify")
    /\ LET good == /\ \A n \in Networks :
                          job[p].path[n] \notin {None, "unreachable"} => RouteGet(n) = job[p].path[n]
                   /\ job[p].path["lan"] # None
                   /\ kernel.rule # None => kernel.default
                   /\ kernel.rule = None => kernel.gateway
       IN End(p, IF good
                 THEN IF job[p].transition THEN "prepared" ELSE "reconciled"
                 ELSE None)
    /\ UNCHANGED <<kernel, settings, cached, changes, failures>>

-----------------------------------------------------------------------------
Provider ==
    \/ \E priority \in {0, 5000, 20000} : ProviderRule(priority)
    \/ ProviderDefault
    \/ \E path \in {"eth", "tunnel"} : ProviderForeign(path)
    \/ ProviderDown
    \/ ProviderFlush

Environment ==
    \/ Provider
    \/ WireGuardLink
    \/ DefaultRoute
    \/ SpecificRoute
    \/ SavePrefixes
    \/ ConfigureWireGuard

Work(p) ==
    \/ ReadRules(p)
    \/ ReadMain(p)
    \/ PlanMain(p)
    \/ \E n \in Networks : AddMain(p, n)
    \/ \E n \in Networks : DeleteMain(p, n)
    \/ ReadDirect(p)
    \/ ReadTables(p)
    \/ \E n \in Networks : AddMirror(p, n)
    \/ \E n \in Networks : DeleteMirror(p, n)
    \/ Mirrored(p)
    \/ \E n \in Networks : AddRule(p, n)
    \/ \E r \in {0, Lowest, Base} \X Networks : DeleteRule(p, r)
    \/ VerifyTables(p)
    \/ VerifyRoutes(p)

Next ==
    \/ Environment
    \/ \E p \in Procs :
          \/ Reconcile(p)
          \/ PrepareTransition(p)
          \/ Work(p)
          \/ Fail(p)

\* The monitor comes back every five seconds, and a run that has begun is
\* never left standing: each command has a time limit.
Fairness ==
    /\ WF_vars(\E p \in Procs : Reconcile(p))
    /\ WF_vars(\E p \in Procs : Work(p))

Spec == Init /\ [][Next]_vars /\ Fairness

-----------------------------------------------------------------------------
Jobs ==
    [pc: {"rules", "main", "plan", "routes", "tables", "mirror", "apply", "verify"},
     quiet: BOOLEAN, transition: BOOLEAN, wanted: SUBSET {"routed", "clients"},
     rules: SUBSET ({0, Lowest, Base} \X Networks), rule: {None, 0, 5000, 20000},
     owned: [Networks -> Paths \cup {None}], desired: [Networks -> Paths \cup {None}],
     path: [Networks -> Paths \cup {None}], target: BOOLEAN]

\* The types, and the lock: only the process that holds it is at work.
TypeOK ==
    /\ kernel \in [gateway: BOOLEAN, specific: BOOLEAN, wg: BOOLEAN,
                   rule: {None, 0, 5000, 20000}, default: BOOLEAN,
                   foreign: {None, "eth", "tunnel"},
                   main: [Networks -> {None, "gateway", "unreachable"}],
                   table: [Networks -> Paths \cup {None}],
                   rules: SUBSET ({0, Lowest, Base} \X Networks)]
    /\ settings \subseteq {"routed", "clients"}
    /\ cached \in BOOLEAN
    /\ lock \in Procs \cup {None}
    /\ \A p \in Procs : IF lock = p THEN job[p] \in Jobs ELSE job[p] = None
    /\ sound \in {None, "prepared", "reconciled"}
    /\ changes \in 0..MaxChanges
    /\ failures \in 0..MaxFailures

\* "Add first so a configuration or priority transition never opens a
\* management-routing gap": no command of a run whose reads are still true
\* sends a protected network through the provider that was safe before and
\* has its destination rule.
OpensNoGap ==
    \A p \in Procs :
        lock = p /\ job[p].quiet /\ changes' = changes =>
            \A n \in Kept :
                n \in {r[2] : r \in kernel.rules} /\ ~Leaks(n) => ~Leaks(n)'

\* A complete run that nothing has disturbed leaves every protected network on
\* its own path, the client subnet blocked when its interface is missing.
CompleteRunProtects ==
    sound = "reconciled" => \A n \in Kept : ~Leaks(n)

\* Once a transition is prepared the provider may install and remove its rule
\* and its default route in any order without a gap: "the strongest safe
\* non-local priority", and for a rule ahead of that the mirrored routes,
\* which need a table the application has seen before.
TransitionHolds ==
    sound = "prepared" /\ (kernel.rule = 0 => cached) =>
        \A n \in Kept : ~Leaks(n)

\* management_routing: no command of a run whose reads are still true opens a
\* gap, a complete run that nothing has disturbed protects every network, and a
\* prepared transition keeps them protected while the provider installs and
\* removes its rule and its route in any order.
RoutesStay == [](CompleteRunProtects /\ TransitionHolds) /\ [][OpensNoGap]_vars

\* When the host stops changing, the periodic runs end with every protected
\* network safe for good, whatever was interrupted before; without a default
\* route, or against a route the provider put in its own table, they cannot.
Converges ==
    <>[](kernel.gateway /\ kernel.foreign # "tunnel" => \A n \in Kept : ~Leaks(n))

=============================================================================
