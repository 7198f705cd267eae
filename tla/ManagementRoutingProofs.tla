----------------------- MODULE ManagementRoutingProofs -----------------------
(***************************************************************************)
(* The reconciler keeps local networks off the provider's path, for any    *)
(* processes, and any number of changes and failures.                      *)
(***************************************************************************)
EXTENDS ManagementRouting, TLAPS

Routes == [Networks -> Paths \cup {None}]
Mains == [Networks -> {None, "gateway", "unreachable"}]
Rules == SUBSET ({0, Lowest, Base} \X Networks)
Places == {"rules", "main", "plan", "routes", "tables", "mirror", "apply", "verify"}
Wanted == SUBSET {"routed", "clients"}
RuleAt == {None, 0, 5000, 20000}
Foreigns == {None, "eth", "tunnel"}
Kernels == [gateway: BOOLEAN, specific: BOOLEAN, wg: BOOLEAN, rule: RuleAt, default: BOOLEAN,
            foreign: Foreigns, main: Mains, table: Routes, rules: Rules]

\* No rule, no route and no job are none of the values they stand beside.
RoutingConstants ==
    /\ None \notin Jobs \cup Procs \cup Paths \cup {0, 5000, 20000, "tunnel", "prepared", "reconciled"}
    /\ MaxChanges \in Nat /\ MaxFailures \in Nat

LEMMA JobsAre ==
    Jobs = [pc: Places, quiet: BOOLEAN, transition: BOOLEAN, wanted: Wanted, rules: Rules,
            rule: RuleAt, owned: Routes, desired: Routes, path: Routes, target: BOOLEAN]
  BY DEF Jobs, Routes, Rules, Places, Wanted, RuleAt

LEMMA KernelsAre ==
    Kernels = [gateway: BOOLEAN, specific: BOOLEAN, wg: BOOLEAN, rule: RuleAt, default: BOOLEAN,
               foreign: Foreigns, main: Mains, table: Routes, rules: Rules]
  BY Zenon DEF Kernels

LEMMA JobFields ==
    ASSUME NEW j \in Jobs
    PROVE  /\ j.pc \in Places /\ j.quiet \in BOOLEAN /\ j.transition \in BOOLEAN
           /\ j.wanted \in Wanted /\ j.rules \in Rules /\ j.rule \in RuleAt /\ j.owned \in Routes
           /\ j.desired \in Routes /\ j.path \in Routes /\ j.target \in BOOLEAN
  BY JobsAre, Zenon

LEMMA KernelFields ==
    ASSUME NEW k \in Kernels
    PROVE  /\ k.gateway \in BOOLEAN /\ k.specific \in BOOLEAN /\ k.wg \in BOOLEAN
           /\ k.rule \in RuleAt /\ k.default \in BOOLEAN /\ k.foreign \in Foreigns
           /\ k.main \in Mains /\ k.table \in Routes /\ k.rules \in Rules
  BY Zenon DEF Kernels

-----------------------------------------------------------------------------
(* The inductive invariant. *)

\* TypeOK, with job a function.
Typed ==
    /\ kernel \in Kernels /\ settings \in Wanted /\ cached \in BOOLEAN
    /\ lock \in Procs \cup {None}
    /\ job = [p \in Procs |-> job[p]]
    /\ \A p \in Procs : IF lock = p THEN job[p] \in Jobs ELSE job[p] = None
    /\ sound \in {None, "prepared", "reconciled"}
    /\ changes \in 0..MaxChanges /\ failures \in 0..MaxFailures

\* What every run writes: blocked or gateway routes to the main table, and
\* nothing to a table that is not remembered.
Drafts ==
    \A p \in Procs : lock = p =>
        /\ job[p].pc = "routes" => job[p].desired \in Mains
        /\ job[p].pc = "mirror" => \A n \in Networks : job[p].desired[n] # None => cached

Ran == {"routes", "tables", "mirror", "apply", "verify"}

\* The provider's rule is read before those of this run.
Ahead(p) == kernel.rule # None /\ kernel.rule <= Priority(p) /\ kernel.default

\* What the provider's table is to hold.
Mirror(p, n) ==
    IF job[p].target /\ ~(n = "lan" /\ kernel.foreign # None) THEN job[p].path[n] ELSE None

\* What a run that nothing disturbed knows of the kernel and of the settings.
Reads(p) ==
    /\ job[p].pc \in {"rules", "main", "plan"} => job[p].wanted = settings
    /\ job[p].pc \notin {"rules", "verify"} => job[p].rules = kernel.rules
    /\ job[p].pc \in {"main", "plan", "routes", "tables", "mirror"} => job[p].rule = kernel.rule

KnownPaths(p) ==
    /\ job[p].pc \notin {"rules", "main"} => job[p].path["clients"] = ClientPath(settings)
    /\ job[p].pc \in Ran =>
         /\ job[p].path["routed"] \in {None, "gateway", "router"}
         /\ job[p].path["routed"] # None <=> "routed" \in settings
    /\ job[p].pc \in Ran \ {"routes"} =>
         job[p].path["lan"] = IF kernel.gateway THEN "eth" ELSE None

MainPass(p) ==
    /\ job[p].pc = "routes" =>
         /\ job[p].owned = kernel.main
         /\ job[p].desired["clients"] = IF Closed(p) THEN "unreachable" ELSE None
    /\ job[p].pc \in Ran \ {"routes"} /\ Closed(p) => kernel.main["clients"] = "unreachable"

TablePass(p) ==
    /\ job[p].pc \in {"mirror", "apply", "verify"} =>
         /\ Ahead(p) => job[p].target
         /\ job[p].transition /\ cached => job[p].target
         /\ job[p].target /\ kernel.foreign # None /\ job[p].path["lan"] # None =>
                kernel.foreign = "eth"
    /\ job[p].pc = "mirror" =>
         /\ job[p].owned = kernel.table
         /\ \A n \in Networks : job[p].desired[n] = Mirror(p, n)
    /\ job[p].pc \in {"apply", "verify"} =>
         \A n \in Networks : kernel.table[n] = Mirror(p, n)
    /\ job[p].pc = "verify" => kernel.rules = DesiredRules(p)

Knows(p) == Reads(p) /\ KnownPaths(p) /\ MainPass(p) /\ TablePass(p)

Known == \A p \in Procs : lock = p /\ job[p].quiet => Knows(p)

\* A table that the reconciler wrote to is remembered, and somebody else
\* writes to it after the default route.
Seen ==
    /\ \A n \in Networks : kernel.table[n] # None => cached
    /\ kernel.foreign # None => kernel.default

\* What lets the provider's rule and route come and go.
Prepared(n) ==
    /\ <<Lowest, n>> \in kernel.rules
    /\ n = "clients" => MainPath(n) # "gateway" /\ kernel.table[n] # "gateway"
    /\ cached => kernel.table[n] # None \/ (n = "lan" /\ kernel.foreign # None)
    /\ n = "lan" /\ cached => kernel.foreign # "tunnel"

Lasting ==
    /\ lock # None => sound = None
    /\ sound = "prepared" => \A n \in Kept : Prepared(n)
    /\ CompleteRunProtects

RoutingInv == Typed /\ Drafts /\ Seen /\ Known /\ Lasting

-----------------------------------------------------------------------------
(* What the invariant says of packets. *)

\* The constant None is none of the values in use.
LEMMA NoneApart ==
    ASSUME RoutingConstants
    PROVE  /\ None \notin Paths /\ None \notin Procs /\ None \notin Jobs
           /\ None \notin {0, 5000, 20000} /\ None # "tunnel"
           /\ None # "prepared" /\ None # "reconciled"
  BY DEF RoutingConstants

\* The main table never leads to the provider.
LEMMA MainIsLocal ==
    ASSUME Typed, RoutingConstants, NEW n \in Networks
    PROVE  MainPath(n) # "tunnel"
<1>1. kernel.main[n] \in {None, "gateway", "unreachable"}
  BY KernelFields, Zenon DEF Typed, Mains
<1>2. QED
  BY <1>1, NoneApart DEF MainPath, Networks

\* A run that nothing disturbed has a path for every network it has to keep.
LEMMA KeptHasPath ==
    ASSUME Typed, RoutingConstants, NEW p \in Procs, KnownPaths(p), NEW n \in Kept,
           job[p].pc \in Ran \ {"routes"}
    PROVE  /\ n \in Networks
           /\ job[p].path[n] # None /\ job[p].path[n] # "tunnel"
           /\ n = "clients" => job[p].path[n] \in {"wg", "unreachable"}
<1>1. CASE n = "lan"
  <2>1. kernel.gateway
    BY <1>1, Zenon DEF Kept, Configured, Typed, Wanted
  <2>2. QED
    BY <1>1, <2>1, NoneApart DEF KnownPaths, Paths, Networks
<1>2. CASE n = "routed"
  <2>1. "routed" \in settings
    BY <1>2, Zenon DEF Kept, Configured
  <2>2. QED
    BY <1>2, <2>1, NoneApart DEF KnownPaths, Paths, Networks
<1>3. CASE n = "clients"
  <2>1. "clients" \in settings
    BY <1>3, Zenon DEF Kept, Configured
  <2>2. job[p].path[n] = ClientPath(settings)
    BY <1>3, Zenon DEF KnownPaths, Ran
  <2>3. QED
    BY <1>3, <2>1, <2>2, NoneApart DEF ClientPath, Paths, Networks
<1>4. QED
  BY <1>1, <1>2, <1>3, Zenon DEF Kept, Configured, Typed, Wanted

\* After the pass over the main table, the client subnet has its interface or
\* is blocked there.
LEMMA ClientsStayHome ==
    ASSUME Typed, RoutingConstants, NEW p \in Procs, KnownPaths(p), MainPass(p),
           "clients" \in settings, job[p].pc \in Ran \ {"routes"}
    PROVE  MainPath("clients") \in {"wg", "unreachable"}
<1>1. job[p].path["clients"] = ClientPath(settings)
  BY Zenon DEF KnownPaths, Ran
<1>2. CASE kernel.wg
  BY <1>2, Zenon DEF MainPath
<1>3. CASE ~kernel.wg
  <2>1. Closed(p)
    BY <1>1, <1>3, Zenon DEF Closed, ClientPath
  <2>2. kernel.main["clients"] = "unreachable"
    BY <2>1, Zenon DEF MainPass
  <2>3. QED
    BY <1>3, <2>2, NoneApart DEF MainPath, Paths
<1>4. QED
  BY <1>2, <1>3, Zenon

\* A packet that takes the main table does not leak.
LEMMA MainIsSafe ==
    ASSUME Typed, RoutingConstants, NEW p \in Procs, KnownPaths(p), MainPass(p), NEW n \in Kept,
           job[p].pc \in Ran \ {"routes"}
    PROVE  MainPath(n) # "tunnel" /\ (n = "clients" => MainPath(n) # "gateway")
<1>1. n \in Networks
  BY KeptHasPath, Zenon
<1>2. MainPath(n) # "tunnel"
  BY <1>1, MainIsLocal, Zenon
<1>3. ASSUME n = "clients" PROVE MainPath(n) # "gateway"
  <2>1. "clients" \in settings
    BY <1>3, Zenon DEF Kept, Configured
  <2>2. QED
    BY <1>3, <2>1, ClientsStayHome, Zenon
<1>4. QED
  BY <1>2, <1>3, Zenon

\* What the provider's table is to hold does not leak either.
LEMMA MirrorIsSafe ==
    ASSUME Typed, RoutingConstants, NEW p \in Procs, KnownPaths(p), NEW n \in Kept,
           job[p].pc \in Ran \ {"routes"}
    PROVE  Mirror(p, n) # "tunnel" /\ (n = "clients" => Mirror(p, n) # "gateway")
  BY KeptHasPath, NoneApart DEF Mirror, Paths

\* With this run's rule for a network in place and its passes done, no packet
\* to the network leaks.
LEMMA RuleProtects ==
    ASSUME Typed, RoutingConstants, Seen, NEW p \in Procs, lock = p, Knows(p), NEW n \in Kept,
           job[p].pc \in {"apply", "verify"}, <<Priority(p), n>> \in kernel.rules
    PROVE  ~Leaks(n)
<1> DEFINE L == Lookup(n)
<1>1. job[p].pc \in Ran \ {"routes"}
  BY Zenon DEF Ran
<1>2. /\ n \in Networks
      /\ MainPath(n) # "tunnel" /\ (n = "clients" => MainPath(n) # "gateway")
      /\ Mirror(p, n) # "tunnel" /\ (n = "clients" => Mirror(p, n) # "gateway")
      /\ job[p].path[n] # None
  BY <1>1, KeptHasPath, MainIsSafe, MirrorIsSafe, Zenon DEF Knows
<1>3. kernel.table[n] = Mirror(p, n)
  BY <1>2, Zenon DEF Knows, TablePass
<1>4. ASSUME ProviderFirst(n), TablePath(n) # None
      PROVE  TablePath(n) # "tunnel" /\ (n = "clients" => TablePath(n) # "gateway")
  <2>1. kernel.rule # None /\ kernel.rule <= Priority(p)
    BY <1>4, Zenon DEF ProviderFirst
  <2>2. CASE n = "lan" /\ kernel.foreign # None
    <3>1. kernel.default
      BY <2>2, Zenon DEF Seen
    <3>2. job[p].target
      BY <2>1, <3>1, Zenon DEF Knows, TablePass, Ahead
    <3>3. kernel.foreign = "eth"
      BY <1>2, <2>2, <3>2, Zenon DEF Knows, TablePass
    <3>4. QED
      BY <2>2, <3>3, Zenon DEF TablePath
  <2>3. CASE ~(n = "lan" /\ kernel.foreign # None) /\ kernel.table[n] # None
    BY <1>2, <1>3, <2>3, Zenon DEF TablePath
  <2>4. CASE ~(n = "lan" /\ kernel.foreign # None) /\ kernel.table[n] = None
    <3>1. kernel.default
      BY <1>4, <2>4, Zenon DEF TablePath
    <3>2. job[p].target
      BY <2>1, <3>1, Zenon DEF Knows, TablePass, Ahead
    <3>3. QED
      BY <1>2, <1>3, <2>4, <3>2, Zenon DEF Mirror
  <2>5. QED
    BY <2>2, <2>3, <2>4, Zenon
<1>5. QED
  BY <1>2, <1>4, Zenon DEF Leaks, Lookup

\* A prepared network stays on its path while the provider's rule and route
\* come and go.
LEMMA PreparedHolds ==
    ASSUME Typed, RoutingConstants, NEW n \in Networks, Prepared(n), kernel.rule = 0 => cached
    PROVE  ~Leaks(n)
<1>1. MainPath(n) # "tunnel" /\ (n = "clients" => MainPath(n) # "gateway")
  BY MainIsLocal, Zenon DEF Prepared
<1>2. kernel.rule \in RuleAt /\ kernel.table[n] \in Paths \cup {None} /\ kernel.foreign \in Foreigns
  BY KernelFields, Zenon DEF Typed, Routes
<1>3. ASSUME ProviderFirst(n), TablePath(n) # None
      PROVE  TablePath(n) # "tunnel" /\ (n = "clients" => TablePath(n) # "gateway")
  <2>1. kernel.rule # None /\ kernel.rule <= Lowest
    BY <1>3, Zenon DEF ProviderFirst, Prepared
  <2>2. cached
    BY <1>2, <2>1 DEF RuleAt, Lowest
  <2>3. CASE n = "lan" /\ kernel.foreign # None
    BY <2>2, <2>3, Zenon DEF TablePath, Prepared
  <2>4. CASE ~(n = "lan" /\ kernel.foreign # None) /\ kernel.table[n] # None
    BY <1>2, <2>4, Zenon DEF TablePath, Prepared, Paths
  <2>5. QED
    BY <2>2, <2>3, <2>4, Zenon DEF Prepared
<1>4. QED
  BY <1>1, <1>3, Zenon DEF Leaks, Lookup

-----------------------------------------------------------------------------
(* Steps outside a run. *)

\* Set changes one process's job.
LEMMA JobSet ==
    ASSUME Typed, NEW p \in Procs, NEW j, Set(p, j)
    PROVE  /\ job'[p] = j
           /\ \A q \in Procs \ {p} : job'[q] = job[q]
           /\ job' = [q \in Procs |-> job'[q]]
<1>1. job' = [q \in Procs |-> IF q = p THEN j ELSE job[q]]
  BY Zenon DEF Typed, Set
<1>2. QED
  BY <1>1, Zenon

\* Somebody else's change leaves types, and runs that know it.
LEMMA ChangeStep ==
    ASSUME RoutingInv, RoutingConstants, NEW k \in Kernels, Change(k), settings' \in Wanted,
           sound' \in {None, "prepared"}
    PROVE  Typed' /\ Drafts' /\ Known'
<1>1. \A p \in Procs : job'[p] = IF job[p] = None THEN None ELSE [job[p] EXCEPT !.quiet = FALSE]
  BY Zenon DEF Change
<1>2. job' = [p \in Procs |-> job'[p]]
  BY Zenon DEF Change
<1>3. lock' = lock /\ cached' = cached /\ failures' = failures /\ kernel' = k
  BY Zenon DEF Change
<1>4. changes' \in 0..MaxChanges
  BY DEF Change, Typed, RoutingInv, RoutingConstants
<1>5. ASSUME NEW p \in Procs, lock # p PROVE job'[p] = None
  BY <1>1, <1>5, Zenon DEF RoutingInv, Typed
<1>6. ASSUME NEW p \in Procs, lock = p
      PROVE  /\ job'[p] \in Jobs /\ job'[p].quiet = FALSE /\ job'[p].pc = job[p].pc
             /\ job'[p].desired = job[p].desired
  <2>1. job[p] \in Jobs
    BY <1>6, Zenon DEF RoutingInv, Typed
  <2>2. job'[p] = [job[p] EXCEPT !.quiet = FALSE]
    BY <1>1, <2>1, NoneApart
  <2>3. QED
    BY <2>1, <2>2, JobsAre, Zenon
<1>7. Typed'
  BY <1>2, <1>3, <1>4, <1>5, <1>6, Zenon DEF Typed, RoutingInv
<1>8. Drafts'
  BY <1>3, <1>6, Zenon DEF Drafts, RoutingInv
<1>9. Known'
  BY <1>3, <1>6, Zenon DEF Known
<1>10. QED
  BY <1>7, <1>8, <1>9, Zenon

\* A change that ends what the last complete run established.
LEMMA ChangeEnds ==
    ASSUME RoutingInv, RoutingConstants, NEW k \in Kernels, Change(k), settings' \in Wanted,
           sound' = None, Seen'
    PROVE  RoutingInv'
<1>1. Typed' /\ Drafts' /\ Known'
  BY ChangeStep, Zenon
<1>2. Lasting'
  BY NoneApart DEF Lasting, CompleteRunProtects
<1>3. QED
  BY <1>1, <1>2, Zenon DEF RoutingInv

\* A change that a prepared transition expects.
LEMMA ChangeExpected ==
    ASSUME RoutingInv, RoutingConstants, NEW k \in Kernels, Change(k), Unsettled,
           k.gateway = kernel.gateway, k.specific = kernel.specific, k.wg = kernel.wg,
           k.foreign = kernel.foreign, k.main = kernel.main, k.table = kernel.table,
           k.rules = kernel.rules, kernel.default => k.default
    PROVE  RoutingInv'
<1>1. sound' \in {None, "prepared"} /\ settings' = settings
  BY Zenon DEF Unsettled
<1>2. kernel' = k /\ cached' = cached /\ lock' = lock
  BY Zenon DEF Change
<1>3. Typed' /\ Drafts' /\ Known'
  BY <1>1, ChangeStep, Zenon DEF RoutingInv, Typed
<1>4. Seen'
  BY <1>2, Zenon DEF Seen, RoutingInv
<1>5. ASSUME sound' = "prepared", NEW n \in Kept' PROVE Prepared(n)'
  <2>1. sound = "prepared" /\ n \in Kept
    BY <1>1, <1>2, <1>5, NoneApart DEF Unsettled, Kept, Configured
  <2>2. Prepared(n)
    BY <2>1, Zenon DEF RoutingInv, Lasting
  <2>3. MainPath(n)' = MainPath(n)
    BY <1>2, Zenon DEF MainPath
  <2>4. QED
    BY <1>2, <2>2, <2>3, Zenon DEF Prepared
<1>6. Lasting'
  BY <1>1, <1>2, <1>5, NoneApart DEF Lasting, CompleteRunProtects, RoutingInv, Unsettled
<1>7. QED
  BY <1>3, <1>4, <1>6, Zenon DEF RoutingInv

\* The provider's rule comes or goes.
LEMMA RuleChange ==
    ASSUME RoutingInv, RoutingConstants, NEW priority \in RuleAt,
           Change([kernel EXCEPT !.rule = priority]), Unsettled
    PROVE  RoutingInv'
<1>1. kernel \in Kernels
  BY Zenon DEF RoutingInv, Typed
<1>2. PICK s : s = [kernel EXCEPT !.rule = priority]
  BY Zenon
<1>3. /\ s \in Kernels /\ s.default = kernel.default
      /\ s.gateway = kernel.gateway /\ s.specific = kernel.specific /\ s.wg = kernel.wg
      /\ s.foreign = kernel.foreign /\ s.main = kernel.main /\ s.table = kernel.table
      /\ s.rules = kernel.rules
  BY <1>1, <1>2, KernelsAre, Zenon
<1>4. QED
  BY <1>2, <1>3, ChangeExpected, Zenon

\* What the provider's daemon, the links and the settings do.
LEMMA EnvironmentStep ==
    ASSUME RoutingInv, RoutingConstants, Environment
    PROVE  RoutingInv'
<1> kernel \in Kernels /\ settings \in Wanted
  BY Zenon DEF RoutingInv, Typed
<1>1. ASSUME NEW priority \in {0, 5000, 20000}, ProviderRule(priority) PROVE RoutingInv'
  <2>1. priority \in RuleAt
    BY DEF RuleAt
  <2>2. QED
    BY <1>1, <2>1, RuleChange DEF ProviderRule
<1>2. CASE ProviderDefault
  <2>1. PICK s : s = [kernel EXCEPT !.default = TRUE]
    BY Zenon
  <2>2. /\ s \in Kernels /\ s.default
        /\ s.gateway = kernel.gateway /\ s.specific = kernel.specific /\ s.wg = kernel.wg
        /\ s.foreign = kernel.foreign /\ s.main = kernel.main /\ s.table = kernel.table
        /\ s.rules = kernel.rules
    BY <2>1, KernelsAre, Zenon
  <2>3. QED
    BY <1>2, <2>1, <2>2, ChangeExpected, Zenon DEF ProviderDefault
<1>3. ASSUME NEW path \in {"eth", "tunnel"}, ProviderForeign(path) PROVE RoutingInv'
  <2>1. PICK s : s = [kernel EXCEPT !.foreign = path]
    BY Zenon
  <2>2. path \in Foreigns
    BY Zenon DEF Foreigns
  <2>3. s \in Kernels /\ s.table = kernel.table /\ s.default = kernel.default
    BY <2>1, <2>2, KernelsAre, Zenon
  <2>4. Change(s) /\ settings' = settings /\ sound' = None /\ kernel.default
    BY <1>3, <2>1, Zenon DEF ProviderForeign
  <2>5. Seen'
    BY <2>3, <2>4, Zenon DEF Seen, Change, RoutingInv
  <2>6. QED
    BY <2>3, <2>4, <2>5, ChangeEnds, Zenon
<1>4. CASE ProviderDown
  <2>1. None \in RuleAt
    BY DEF RuleAt
  <2>2. QED
    BY <1>4, <2>1, RuleChange, Zenon DEF ProviderDown
<1>5. CASE ProviderFlush
  <2>1. PICK s : s = [kernel EXCEPT !.default = FALSE, !.foreign = None, !.table = NoRoutes]
    BY Zenon
  <2>2. None \in Foreigns /\ NoRoutes \in Routes /\ \A n \in Networks : NoRoutes[n] = None
    BY Zenon DEF Foreigns, Routes, NoRoutes
  <2>3. s \in Kernels /\ s.table = NoRoutes /\ s.foreign = None
    BY <2>1, <2>2, KernelsAre, Zenon
  <2>4. Change(s) /\ settings' = settings /\ sound' = None
    BY <1>5, <2>1, Zenon DEF ProviderFlush
  <2>5. Seen'
    BY <2>2, <2>3, <2>4, Zenon DEF Seen, Change
  <2>6. QED
    BY <2>3, <2>4, <2>5, ChangeEnds, Zenon
<1>6. CASE WireGuardLink
  <2> DEFINE t == [n \in Networks |-> IF kernel.table[n] = "wg" THEN None ELSE kernel.table[n]]
  <2>1. PICK s : s = [kernel EXCEPT !.wg = ~kernel.wg, !.table = t]
    BY Zenon
  <2>2. t \in Routes /\ \A n \in Networks : t[n] # None => kernel.table[n] # None
    BY KernelFields, Zenon DEF Routes
  <2>3. s \in Kernels /\ s.table = t /\ s.foreign = kernel.foreign /\ s.default = kernel.default
    BY <2>1, <2>2, KernelsAre, Zenon
  <2>4. Change(s) /\ settings' = settings /\ sound' = None
    BY <1>6, <2>1, Zenon DEF WireGuardLink
  <2>5. Seen'
    BY <2>2, <2>3, <2>4, Zenon DEF Seen, Change, RoutingInv
  <2>6. QED
    BY <2>3, <2>4, <2>5, ChangeEnds, Zenon
<1>7. CASE DefaultRoute
  <2>1. PICK s : s = [kernel EXCEPT !.gateway = ~kernel.gateway]
    BY Zenon
  <2>3. /\ s \in Kernels /\ s.table = kernel.table
        /\ s.foreign = kernel.foreign /\ s.default = kernel.default
    BY <2>1, KernelsAre, Zenon
  <2>4. Change(s) /\ settings' = settings /\ sound' = None
    BY <1>7, <2>1, Zenon DEF DefaultRoute
  <2>5. Seen'
    BY <2>3, <2>4, Zenon DEF Seen, Change, RoutingInv
  <2>6. QED
    BY <2>3, <2>4, <2>5, ChangeEnds, Zenon
<1>8. CASE SpecificRoute
  <2>1. PICK s : s = [kernel EXCEPT !.specific = ~kernel.specific]
    BY Zenon
  <2>3. /\ s \in Kernels /\ s.table = kernel.table
        /\ s.foreign = kernel.foreign /\ s.default = kernel.default
    BY <2>1, KernelsAre, Zenon
  <2>4. Change(s) /\ settings' = settings /\ sound' = None
    BY <1>8, <2>1, Zenon DEF SpecificRoute
  <2>5. Seen'
    BY <2>3, <2>4, Zenon DEF Seen, Change, RoutingInv
  <2>6. QED
    BY <2>3, <2>4, <2>5, ChangeEnds, Zenon
<1>9. CASE SavePrefixes \/ ConfigureWireGuard
  <2>1. Change(kernel) /\ settings' \in Wanted /\ sound' = None
    BY <1>9, Zenon DEF SavePrefixes, ConfigureWireGuard, Wanted
  <2>2. Seen'
    BY <2>1, Zenon DEF Seen, Change, RoutingInv
  <2>3. QED
    BY <2>1, <2>2, ChangeEnds, Zenon
<1>10. QED
  BY <1>1, <1>2, <1>3, <1>4, <1>5, <1>6, <1>7, <1>8, <1>9 DEF Environment, Provider

-----------------------------------------------------------------------------
(* The steps of a run. *)

LEMMA BeginStep ==
    ASSUME RoutingInv, RoutingConstants, NEW p \in Procs, NEW transition \in BOOLEAN,
           Begin(p, transition)
    PROVE  RoutingInv'
<1> DEFINE j == [pc |-> "rules", quiet |-> TRUE, transition |-> transition,
                 wanted |-> settings, rules |-> {}, rule |-> None,
                 owned |-> NoRoutes, desired |-> NoRoutes, path |-> NoRoutes,
                 target |-> FALSE]
<1>1. Typed /\ lock = None /\ lock' = p /\ Set(p, j) /\ sound' = None
  BY Zenon DEF Begin, Configured, RoutingInv
<1>2. UNCHANGED <<kernel, settings, cached, changes, failures>>
  BY Zenon DEF Begin
<1>3. NoRoutes \in Routes /\ "rules" \in Places /\ None \in RuleAt /\ {} \in Rules
  BY DEF NoRoutes, Routes, Places, RuleAt, Rules
<1>4. j \in Jobs
  BY <1>1, <1>3, JobsAre, Zenon DEF Typed
<1>5. j.pc = "rules" /\ j.wanted = settings
  BY Zenon
<1> HIDE DEF j
<1>6. /\ job'[p] = j
      /\ \A q \in Procs \ {p} : job'[q] = None
      /\ job' = [q \in Procs |-> job'[q]]
  BY <1>1, JobSet, NoneApart DEF Typed
<1>7. Typed'
  BY <1>1, <1>2, <1>4, <1>6, Zenon DEF Typed
<1>8. Drafts' /\ Seen' /\ Lasting'
  BY <1>1, <1>2, <1>5, <1>6, NoneApart DEF Drafts, Seen, Lasting, CompleteRunProtects, RoutingInv
<1>9. Knows(p)'
  BY <1>2, <1>5, <1>6, Zenon DEF Knows, Reads, KnownPaths, MainPass, TablePass, Ran
<1>10. QED
  BY <1>1, <1>7, <1>8, <1>9, Zenon DEF Known, RoutingInv

\* A run that ends without having established anything.
LEMMA RunFails ==
    ASSUME RoutingInv, RoutingConstants, NEW p \in Procs, lock = p, End(p, None),
           kernel' = kernel, settings' = settings, cached' \in BOOLEAN, cached => cached',
           changes' = changes, failures' \in 0..MaxFailures
    PROVE  RoutingInv'
<1>1. Typed /\ lock' = None /\ sound' = None /\ Set(p, None)
  BY Zenon DEF End, RoutingInv
<1>2. /\ job'[p] = None
      /\ \A q \in Procs \ {p} : job'[q] = job[q]
      /\ job' = [q \in Procs |-> job'[q]]
  BY <1>1, JobSet, Zenon
<1>21. ASSUME NEW q \in Procs PROVE lock' # q /\ job'[q] = None
  BY <1>1, <1>2, NoneApart DEF Typed
<1>3. \A q \in Procs : lock' # q /\ job'[q] = None
  BY <1>21, Zenon
<1>31. Typed'
  BY <1>1, <1>2, <1>3, Zenon DEF Typed
<1>4. Drafts' /\ Known'
  BY <1>1, NoneApart DEF Drafts, Known
<1>5. Seen' /\ Lasting'
  BY <1>1, NoneApart DEF Seen, Lasting, CompleteRunProtects, RoutingInv
<1>6. QED
  BY <1>31, <1>4, <1>5, Zenon DEF RoutingInv

\* A run that goes on.
LEMMA RunContinues ==
    ASSUME RoutingInv, RoutingConstants, NEW p \in Procs, lock = p, NEW j \in Jobs, Set(p, j),
           kernel' \in Kernels, settings' = settings, cached' \in BOOLEAN, lock' = lock,
           sound' = sound, changes' = changes, failures' = failures, Seen',
           j.pc = "routes" => j.desired \in Mains,
           j.pc = "mirror" => \A n \in Networks : j.desired[n] # None => cached',
           j.quiet => Knows(p)'
    PROVE  RoutingInv'
<1>1. Typed
  BY Zenon DEF RoutingInv
<1>2. /\ job'[p] = j
      /\ \A q \in Procs \ {p} : job'[q] = None
      /\ job' = [q \in Procs |-> job'[q]]
  BY <1>1, JobSet, Zenon DEF Typed
<1>3. Typed'
  BY <1>1, <1>2, Zenon DEF Typed
<1>4. Drafts' /\ Known'
  BY <1>2, Zenon DEF Drafts, Known
<1>5. Lasting'
  BY NoneApart DEF Lasting, CompleteRunProtects, RoutingInv
<1>6. QED
  BY <1>3, <1>4, <1>5, Zenon DEF RoutingInv

\* What a process at a place of its run is.
LEMMA AtPlace ==
    ASSUME RoutingInv, NEW p \in Procs, NEW place, At(p, place)
    PROVE  /\ Typed /\ lock = p /\ job[p] \in Jobs /\ job[p].pc = place
           /\ kernel \in Kernels /\ cached \in BOOLEAN /\ Seen
           /\ job[p].quiet => Knows(p)
  BY Zenon DEF At, RoutingInv, Typed, Known

LEMMA FailStep ==
    ASSUME RoutingInv, RoutingConstants, NEW p \in Procs, Fail(p)
    PROVE  RoutingInv'
<1>1. failures' \in 0..MaxFailures
  BY DEF Fail, RoutingInv, Typed, RoutingConstants
<1>2. QED
  BY <1>1, RunFails, Zenon DEF Fail, RoutingInv, Typed

LEMMA ReadRulesStep ==
    ASSUME RoutingInv, RoutingConstants, NEW p \in Procs, ReadRules(p)
    PROVE  RoutingInv'
<1>1. /\ Typed /\ lock = p /\ job[p] \in Jobs /\ job[p].pc = "rules"
      /\ kernel \in Kernels /\ cached \in BOOLEAN /\ Seen /\ (job[p].quiet => Knows(p))
  BY AtPlace, Zenon DEF ReadRules
<1>2. PICK j : j = [job[p] EXCEPT !.pc = "main", !.rules = kernel.rules, !.rule = kernel.rule]
  BY Zenon
<1>3. "main" \in Places /\ kernel.rules \in Rules /\ kernel.rule \in RuleAt
  BY <1>1, KernelFields, Zenon DEF Places
<1>4. /\ j \in Jobs /\ j.pc = "main" /\ j.rules = kernel.rules /\ j.rule = kernel.rule
      /\ j.quiet = job[p].quiet /\ j.wanted = job[p].wanted
  BY <1>1, <1>2, <1>3, JobsAre, Zenon
<1>5. Set(p, j) /\ UNCHANGED <<kernel, settings, cached, lock, sound, changes, failures>>
  BY <1>2, Zenon DEF ReadRules
<1>6. job'[p] = j
  BY <1>1, <1>5, JobSet, Zenon
<1>7. ASSUME j.quiet PROVE Knows(p)'
  <2>1. job[p].wanted = settings
    BY <1>1, <1>4, <1>7, Zenon DEF Knows, Reads
  <2>2. QED
    BY <1>4, <1>5, <1>6, <2>1, Zenon DEF Knows, Reads, KnownPaths, MainPass, TablePass, Ran
<1>8. Seen'
  BY <1>1, <1>5, Zenon DEF Seen
<1>9. QED
  BY <1>1, <1>4, <1>5, <1>7, <1>8, RunContinues, Zenon

LEMMA ReadMainStep ==
    ASSUME RoutingInv, RoutingConstants, NEW p \in Procs, ReadMain(p)
    PROVE  RoutingInv'
<1>1. /\ Typed /\ lock = p /\ job[p] \in Jobs /\ job[p].pc = "main"
      /\ kernel \in Kernels /\ cached \in BOOLEAN /\ Seen /\ (job[p].quiet => Knows(p))
  BY AtPlace, Zenon DEF ReadMain
<1>2. PICK path : path = [job[p].path EXCEPT !["clients"] = ClientPath(job[p].wanted)]
  BY Zenon
<1>3. PICK j : j = [job[p] EXCEPT !.pc = "plan", !.path = path]
  BY Zenon
<1>4. job[p].path \in Routes /\ ClientPath(job[p].wanted) \in Paths \cup {None}
  BY <1>1, JobFields, Zenon DEF ClientPath, Paths
<1>5. "plan" \in Places /\ path \in Routes /\ path["clients"] = ClientPath(job[p].wanted)
  BY <1>2, <1>4, Zenon DEF Places, Routes, Networks
<1>6. /\ j \in Jobs /\ j.pc = "plan" /\ j.rules = job[p].rules /\ j.rule = job[p].rule
      /\ j.quiet = job[p].quiet /\ j.wanted = job[p].wanted /\ j.path = path
  BY <1>1, <1>3, <1>5, JobsAre, Zenon
<1>7. Set(p, j) /\ UNCHANGED <<kernel, settings, cached, lock, sound, changes, failures>>
  BY <1>2, <1>3, Zenon DEF ReadMain
<1>8. job'[p] = j
  BY <1>1, <1>7, JobSet, Zenon
<1>9. ASSUME j.quiet PROVE Knows(p)'
  <2>1. job[p].wanted = settings /\ job[p].rules = kernel.rules /\ job[p].rule = kernel.rule
    BY <1>1, <1>6, <1>9, Zenon DEF Knows, Reads
  <2>2. ClientPath(settings)' = ClientPath(settings)
    BY <1>7, Zenon DEF ClientPath
  <2>3. QED
    BY <1>5, <1>6, <1>7, <1>8, <2>1, <2>2, Zenon DEF Knows, Reads, KnownPaths, MainPass, TablePass, Ran
<1>10. Seen'
  BY <1>1, <1>7, Zenon DEF Seen
<1>11. QED
  BY <1>1, <1>6, <1>7, <1>9, <1>10, RunContinues, Zenon

LEMMA PlanMainStep ==
    ASSUME RoutingInv, RoutingConstants, NEW p \in Procs, PlanMain(p)
    PROVE  RoutingInv'
<1> DEFINE routed == "routed" \in job[p].wanted
           own == routed /\ ~kernel.specific
           way == IF ~routed THEN None ELSE IF own THEN "gateway" ELSE "router"
<1>1. /\ Typed /\ lock = p /\ job[p] \in Jobs /\ job[p].pc = "plan"
      /\ kernel \in Kernels /\ cached \in BOOLEAN /\ Seen /\ (job[p].quiet => Knows(p))
  BY AtPlace, Zenon DEF PlanMain
<1>2. UNCHANGED <<kernel, settings, cached, changes, failures>>
  BY Zenon DEF PlanMain
<1>3. CASE own /\ ~kernel.gateway
  <2>1. End(p, None)
    BY <1>3, Zenon DEF PlanMain
  <2>2. QED
    BY <1>1, <1>2, <2>1, RunFails, Zenon DEF Typed
<1>4. CASE ~(own /\ ~kernel.gateway)
  <2>1. PICK path : path = [job[p].path EXCEPT !["routed"] = way]
    BY Zenon
  <2>2. PICK desired : desired = [NoRoutes EXCEPT
                          !["routed"] = IF own THEN "gateway" ELSE None,
                          !["clients"] = IF Closed(p) THEN "unreachable" ELSE None]
    BY Zenon
  <2>3. PICK j : j = [job[p] EXCEPT !.pc = "routes", !.wanted = {}, !.owned = kernel.main,
                                    !.desired = desired, !.path = path]
    BY Zenon
  <2>4. Set(p, j) /\ UNCHANGED <<lock, sound>>
    BY <1>4, <2>1, <2>2, <2>3, Zenon DEF PlanMain, OwnedRoutes
  <2>5. job[p].path \in Routes /\ kernel.main \in Mains /\ way \in Paths \cup {None}
    BY <1>1, JobFields, KernelFields, Zenon DEF Paths
  <2>6. kernel.main \in Routes
    BY <2>5, Zenon DEF Mains, Routes, Paths
  <2>7. /\ path \in Routes /\ path["routed"] = way
        /\ path["clients"] = job[p].path["clients"]
    BY <2>1, <2>5, Zenon DEF Routes, Networks
  <2>8. /\ desired \in Mains
        /\ desired["clients"] = IF Closed(p) THEN "unreachable" ELSE None
    BY <2>2, Zenon DEF Mains, NoRoutes, Networks
  <2>9. desired \in Routes
    BY <2>8, Zenon DEF Mains, Routes, Paths
  <2>10. "routes" \in Places /\ {} \in Wanted
    BY Zenon DEF Places, Wanted
  <2>11. /\ j \in Jobs /\ j.pc = "routes" /\ j.rules = job[p].rules /\ j.rule = job[p].rule
         /\ j.quiet = job[p].quiet /\ j.owned = kernel.main /\ j.path = path
         /\ j.desired = desired
    BY <1>1, <2>3, <2>6, <2>7, <2>9, <2>10, JobsAre, Zenon
  <2>12. job'[p] = j
    BY <1>1, <2>4, JobSet, Zenon
  <2>13. ASSUME j.quiet PROVE Knows(p)'
    <3>1. /\ job[p].wanted = settings /\ job[p].rules = kernel.rules /\ job[p].rule = kernel.rule
          /\ job[p].path["clients"] = ClientPath(settings)
      BY <1>1, <2>11, <2>13, Zenon DEF Knows, Reads, KnownPaths
    <3>2. ClientPath(settings)' = ClientPath(settings)
      BY <1>2, Zenon DEF ClientPath
    <3>3. Closed(p)' = Closed(p)
      BY <2>7, <2>11, <2>12, Zenon DEF Closed
    <3>4. way \in {None, "gateway", "router"} /\ (way # None <=> "routed" \in settings)
      BY <3>1, NoneApart DEF Paths
    <3>5. Reads(p)' /\ TablePass(p)'
      BY <1>2, <2>11, <2>12, <3>1, Zenon DEF Reads, TablePass
    <3>6. KnownPaths(p)'
      BY <1>2, <2>7, <2>11, <2>12, <3>1, <3>2, <3>4, Zenon DEF KnownPaths, Ran
    <3>7. MainPass(p)'
      BY <1>2, <2>8, <2>11, <2>12, <3>3, Zenon DEF MainPass, Ran
    <3>8. QED
      BY <3>5, <3>6, <3>7, Zenon DEF Knows
  <2>14. Seen'
    BY <1>1, <1>2, Zenon DEF Seen
  <2>15. QED
    BY <1>1, <1>2, <2>4, <2>8, <2>11, <2>13, <2>14, RunContinues, Zenon
<1>5. QED
  BY <1>3, <1>4, Zenon

\* A pass over the main table writes one route of it.
LEMMA MainWritten ==
    ASSUME RoutingInv, RoutingConstants, NEW p \in Procs, NEW n \in Networks,
           At(p, "routes"), NEW v \in {None, "gateway", "unreachable"},
           v = job[p].desired[n],
           kernel' = [kernel EXCEPT !.main[n] = v],
           Set(p, [job[p] EXCEPT !.owned[n] = v]),
           UNCHANGED <<settings, cached, lock, sound, changes, failures>>
    PROVE  /\ RoutingInv'
           /\ kernel'.main[n] = v /\ \A m \in Networks \ {n} : kernel'.main[m] = kernel.main[m]
           /\ kernel'.gateway = kernel.gateway /\ kernel'.specific = kernel.specific
           /\ kernel'.wg = kernel.wg /\ kernel'.rule = kernel.rule /\ kernel'.rules = kernel.rules
           /\ kernel'.table = kernel.table /\ kernel'.foreign = kernel.foreign
           /\ kernel'.default = kernel.default
<1>1. /\ Typed /\ lock = p /\ job[p] \in Jobs /\ job[p].pc = "routes"
      /\ kernel \in Kernels /\ cached \in BOOLEAN /\ Seen /\ (job[p].quiet => Knows(p))
  BY AtPlace, Zenon
<1>2. PICK owned : owned = [job[p].owned EXCEPT ![n] = v]
  BY Zenon
<1>3. PICK main : main = [kernel.main EXCEPT ![n] = v]
  BY Zenon
<1>4. PICK j : j = [job[p] EXCEPT !.owned = owned]
  BY Zenon
<1>5. Set(p, j) /\ kernel' = [kernel EXCEPT !.main = main]
  BY <1>2, <1>3, <1>4, Zenon
<1>6. /\ owned \in Routes /\ main \in Mains /\ main[n] = v
      /\ \A m \in Networks \ {n} : main[m] = kernel.main[m]
  BY <1>1, <1>2, <1>3, JobFields, KernelFields, Zenon DEF Routes, Mains, Paths
<1>7. /\ kernel' \in Kernels /\ kernel'.main = main /\ kernel'.gateway = kernel.gateway
      /\ kernel'.wg = kernel.wg /\ kernel'.rule = kernel.rule /\ kernel'.rules = kernel.rules
      /\ kernel'.table = kernel.table /\ kernel'.foreign = kernel.foreign
      /\ kernel'.default = kernel.default /\ kernel'.specific = kernel.specific
  BY <1>1, <1>5, <1>6, KernelsAre, Zenon
<1>8. /\ j \in Jobs /\ j.pc = "routes" /\ j.rules = job[p].rules /\ j.rule = job[p].rule
      /\ j.quiet = job[p].quiet /\ j.owned = owned /\ j.path = job[p].path
      /\ j.desired = job[p].desired
  BY <1>1, <1>4, <1>6, JobsAre, Zenon
<1>9. job'[p] = j
  BY <1>1, <1>5, JobSet, Zenon
<1>10. ASSUME j.quiet PROVE Knows(p)'
  <2>1. Knows(p)
    BY <1>1, <1>8, <1>10, Zenon
  <2>2. ClientPath(settings)' = ClientPath(settings)
    BY <1>7, Zenon DEF ClientPath
  <2>3. Closed(p)' = Closed(p)
    BY <1>8, <1>9, Zenon DEF Closed
  <2>4. Reads(p)' /\ TablePass(p)'
    BY <1>1, <1>7, <1>8, <1>9, <2>1, Zenon DEF Knows, Reads, TablePass
  <2>5. KnownPaths(p)'
    BY <1>1, <1>7, <1>8, <1>9, <2>1, <2>2, Zenon DEF Knows, KnownPaths, Ran
  <2>6. owned = main
    BY <1>1, <1>2, <1>3, <2>1, Zenon DEF Knows, MainPass
  <2>7. MainPass(p)'
    BY <1>1, <1>7, <1>8, <1>9, <2>1, <2>3, <2>6, Zenon DEF Knows, MainPass, Ran
  <2>8. QED
    BY <2>4, <2>5, <2>7, Zenon DEF Knows
<1>11. Seen'
  BY <1>1, <1>7, Zenon DEF Seen
<1>12. j.desired \in Mains
  BY <1>1, <1>8, Zenon DEF RoutingInv, Drafts
<1>13. RoutingInv'
  BY <1>1, <1>5, <1>7, <1>8, <1>10, <1>11, <1>12, RunContinues, Zenon
<1>14. QED
  BY <1>6, <1>7, <1>13, Zenon

LEMMA MainSteps ==
    ASSUME RoutingInv, RoutingConstants, NEW p \in Procs, NEW n \in Networks,
           AddMain(p, n) \/ DeleteMain(p, n)
    PROVE  RoutingInv'
<1>1. At(p, "routes") /\ job[p].desired \in Mains
  BY AtPlace, Zenon DEF AddMain, DeleteMain, RoutingInv, Drafts
<1>2. job[p].desired[n] \in {None, "gateway", "unreachable"}
  BY <1>1, Zenon DEF Mains
<1>3. CASE AddMain(p, n)
  BY <1>1, <1>2, <1>3, MainWritten, Zenon DEF AddMain
<1>4. CASE DeleteMain(p, n)
  <2>1. job[p].desired[n] = None
    BY <1>4, Zenon DEF DeleteMain, Earliest, Stale
  <2>2. QED
    BY <1>1, <1>2, <1>4, <2>1, MainWritten, Zenon DEF DeleteMain
<1>5. QED
  BY <1>3, <1>4, Zenon

LEMMA ReadDirectStep ==
    ASSUME RoutingInv, RoutingConstants, NEW p \in Procs, ReadDirect(p)
    PROVE  RoutingInv'
<1> DEFINE direct == IF kernel.gateway THEN "eth" ELSE None
<1>1. /\ Typed /\ lock = p /\ job[p] \in Jobs /\ job[p].pc = "routes"
      /\ kernel \in Kernels /\ cached \in BOOLEAN /\ Seen /\ (job[p].quiet => Knows(p))
  BY AtPlace, Zenon DEF ReadDirect
<1>2. PICK path : path = [job[p].path EXCEPT !["lan"] = direct]
  BY Zenon
<1>3. PICK j : j = [job[p] EXCEPT !.pc = "tables", !.path = path]
  BY Zenon
<1>4. Set(p, j) /\ UNCHANGED <<kernel, settings, cached, lock, sound, changes, failures>>
  BY <1>2, <1>3, Zenon DEF ReadDirect
<1>5. job[p].path \in Routes /\ direct \in Paths \cup {None}
  BY <1>1, JobFields, Zenon DEF Paths
<1>6. /\ "tables" \in Places /\ path \in Routes /\ path["lan"] = direct
      /\ path["clients"] = job[p].path["clients"] /\ path["routed"] = job[p].path["routed"]
  BY <1>2, <1>5, Zenon DEF Places, Routes, Networks
<1>7. /\ j \in Jobs /\ j.pc = "tables" /\ j.rules = job[p].rules /\ j.rule = job[p].rule
      /\ j.quiet = job[p].quiet /\ j.path = path
  BY <1>1, <1>3, <1>6, JobsAre, Zenon
<1>8. job'[p] = j
  BY <1>1, <1>4, JobSet, Zenon
<1>9. ASSUME j.quiet PROVE Knows(p)'
  <2>1. Knows(p)
    BY <1>1, <1>7, <1>9, Zenon
  <2>2. ClientPath(settings)' = ClientPath(settings)
    BY <1>4, Zenon DEF ClientPath
  <2>3. Closed(p)' = Closed(p)
    BY <1>6, <1>7, <1>8, Zenon DEF Closed
  <2>4. Reads(p)' /\ TablePass(p)'
    BY <1>1, <1>4, <1>7, <1>8, <2>1, Zenon DEF Knows, Reads, TablePass
  <2>5. KnownPaths(p)'
    BY <1>1, <1>4, <1>6, <1>7, <1>8, <2>1, <2>2, Zenon DEF Knows, KnownPaths, Ran
  <2>6. ASSUME Closed(p) PROVE kernel.main["clients"] = "unreachable"
    <3>1. /\ job[p].owned = kernel.main /\ job[p].desired["clients"] = "unreachable"
      BY <1>1, <2>1, <2>6, Zenon DEF Knows, MainPass
    <3>2. "clients" \notin Missing(p)
      BY Zenon DEF ReadDirect
    <3>3. QED
      BY <3>1, <3>2, NoneApart DEF Missing, Networks, Paths
  <2>7. MainPass(p)'
    BY <1>1, <1>4, <1>7, <1>8, <2>3, <2>6, Zenon DEF MainPass, Ran
  <2>8. QED
    BY <2>4, <2>5, <2>7, Zenon DEF Knows
<1>10. Seen'
  BY <1>1, <1>4, Zenon DEF Seen
<1>11. QED
  BY <1>1, <1>4, <1>7, <1>9, <1>10, RunContinues, Zenon

LEMMA ReadTablesStep ==
    ASSUME RoutingInv, RoutingConstants, NEW p \in Procs, ReadTables(p)
    PROVE  RoutingInv'
<1> DEFINE target == Target(p)
           alien == target /\ kernel.foreign # None /\ job[p].path["lan"] # None
<1>1. /\ Typed /\ lock = p /\ job[p] \in Jobs /\ job[p].pc = "tables"
      /\ kernel \in Kernels /\ cached \in BOOLEAN /\ Seen /\ (job[p].quiet => Knows(p))
  BY AtPlace, Zenon DEF ReadTables
<1>2. /\ UNCHANGED <<kernel, settings, changes, failures>>
      /\ cached' = (cached \/ Discovered(p))
  BY Zenon DEF ReadTables, Remembered
<1>3. cached' \in BOOLEAN /\ (cached => cached')
  BY <1>1, <1>2, Zenon
<1>4. CASE alien /\ Conflicts(kernel.foreign)
  <2>1. End(p, None)
    BY <1>4, Zenon DEF ReadTables
  <2>2. QED
    BY <1>1, <1>2, <1>3, <2>1, RunFails, Zenon DEF Typed
<1>5. CASE ~(alien /\ Conflicts(kernel.foreign))
  <2>1. PICK desired : desired = [n \in Networks |->
                          IF target /\ ~(alien /\ n = "lan") THEN job[p].path[n] ELSE None]
    BY Zenon
  <2>2. PICK j : j = [job[p] EXCEPT !.pc = "mirror", !.owned = kernel.table, !.target = target,
                                    !.desired = desired]
    BY Zenon
  <2>3. Set(p, j) /\ UNCHANGED <<lock, sound>>
    BY <1>5, <2>1, <2>2, Zenon DEF ReadTables, OwnedRoutes
  <2>4. job[p].path \in Routes /\ kernel.table \in Routes /\ job[p].transition \in BOOLEAN
    BY <1>1, JobFields, KernelFields, Zenon
  <2>5. /\ desired \in Routes /\ "mirror" \in Places
        /\ \A n \in Networks :
              desired[n] = IF target /\ ~(alien /\ n = "lan") THEN job[p].path[n] ELSE None
    BY <2>1, <2>4, Zenon DEF Routes, Places
  <2>6. target \in BOOLEAN
    BY <1>1, <2>4, Zenon DEF Target, Discovered
  <2>7. target => cached'
    BY <1>2, Zenon DEF Target
  <2> HIDE DEF target
  <2>8. /\ j \in Jobs /\ j.pc = "mirror" /\ j.rules = job[p].rules /\ j.rule = job[p].rule
        /\ j.quiet = job[p].quiet /\ j.owned = kernel.table /\ j.path = job[p].path
        /\ j.desired = desired /\ j.target = target /\ j.transition = job[p].transition
    BY <1>1, <2>2, <2>4, <2>5, <2>6, JobsAre, Zenon
  <2>9. job'[p] = j
    BY <1>1, <2>3, JobSet, Zenon
  <2>10. ASSUME j.quiet PROVE Knows(p)'
    <3>1. Knows(p)
      BY <1>1, <2>8, <2>10, Zenon
    <3>2. ClientPath(settings)' = ClientPath(settings)
      BY <1>2, Zenon DEF ClientPath
    <3>3. Closed(p)' = Closed(p)
      BY <2>8, <2>9, Zenon DEF Closed
    <3>4. Reads(p)'
      BY <1>1, <1>2, <2>8, <2>9, <3>1, Zenon DEF Knows, Reads
    <3>5. KnownPaths(p)'
      BY <1>1, <1>2, <2>8, <2>9, <3>1, <3>2, Zenon DEF Knows, KnownPaths, Ran
    <3>6. MainPass(p)'
      BY <1>1, <1>2, <2>8, <2>9, <3>1, <3>3, Zenon DEF Knows, MainPass, Ran
    <3>7. job[p].rule = kernel.rule
      BY <1>1, <3>1, Zenon DEF Knows, Reads
    <3>8. Ahead(p)' => target
      BY <1>2, <2>8, <2>9, <3>7, Zenon DEF Ahead, Priority, Target, Discovered, target
    <3>9. job[p].transition /\ cached' => target
      BY <1>2, Zenon DEF target, Target, Discovered
    <3>10. alien => kernel.foreign = "eth"
      BY <1>1, <1>5, KernelFields, Zenon DEF Conflicts, Foreigns
    <3>11. \A n \in Networks : desired[n] = Mirror(p, n)'
      <4>1. ASSUME NEW n \in Networks PROVE desired[n] = Mirror(p, n)'
        <5>1. Mirror(p, n)' = IF target /\ ~(n = "lan" /\ kernel.foreign # None)
                              THEN job[p].path[n] ELSE None
          BY <1>2, <2>8, <2>9, Zenon DEF Mirror
        <5>2. QED
          BY <2>5, <5>1, Zenon
      <4>2. QED
        BY <4>1, Zenon
    <3>12. TablePass(p)'
      BY <1>2, <2>8, <2>9, <3>8, <3>9, <3>10, <3>11, Zenon DEF TablePass
    <3>13. QED
      BY <3>4, <3>5, <3>6, <3>12, Zenon DEF Knows
  <2>11. Seen'
    BY <1>1, <1>2, <1>3, Zenon DEF Seen
  <2>12. \A n \in Networks : j.desired[n] # None => cached'
    BY <2>5, <2>7, <2>8, Zenon
  <2>13. QED
    BY <1>1, <1>2, <1>3, <2>3, <2>8, <2>10, <2>11, <2>12, RunContinues, Zenon
<1>6. QED
  BY <1>4, <1>5, Zenon

\* A pass over the provider's table writes one route of it.
LEMMA TableWritten ==
    ASSUME RoutingInv, RoutingConstants, NEW p \in Procs, NEW n \in Networks,
           At(p, "mirror"), NEW v \in Paths \cup {None},
           v = job[p].desired[n],
           kernel' = [kernel EXCEPT !.table[n] = v],
           Set(p, [job[p] EXCEPT !.owned[n] = v]),
           UNCHANGED <<settings, cached, lock, sound, changes, failures>>
    PROVE  /\ RoutingInv'
           /\ kernel'.table[n] = v
           /\ \A m \in Networks \ {n} : kernel'.table[m] = kernel.table[m]
           /\ kernel'.gateway = kernel.gateway /\ kernel'.specific = kernel.specific
           /\ kernel'.wg = kernel.wg /\ kernel'.rule = kernel.rule /\ kernel'.rules = kernel.rules
           /\ kernel'.main = kernel.main /\ kernel'.foreign = kernel.foreign
           /\ kernel'.default = kernel.default
<1>1. /\ Typed /\ lock = p /\ job[p] \in Jobs /\ job[p].pc = "mirror"
      /\ kernel \in Kernels /\ cached \in BOOLEAN /\ Seen /\ (job[p].quiet => Knows(p))
  BY AtPlace, Zenon
<1>2. PICK owned : owned = [job[p].owned EXCEPT ![n] = v]
  BY Zenon
<1>3. PICK table : table = [kernel.table EXCEPT ![n] = v]
  BY Zenon
<1>4. PICK j : j = [job[p] EXCEPT !.owned = owned]
  BY Zenon
<1>5. Set(p, j) /\ kernel' = [kernel EXCEPT !.table = table]
  BY <1>2, <1>3, <1>4, Zenon
<1>6. /\ owned \in Routes /\ table \in Routes /\ table[n] = v
      /\ \A m \in Networks \ {n} : table[m] = kernel.table[m]
  BY <1>1, <1>2, <1>3, JobFields, KernelFields, Zenon DEF Routes
<1>7. /\ kernel' \in Kernels /\ kernel'.table = table /\ kernel'.gateway = kernel.gateway
      /\ kernel'.wg = kernel.wg /\ kernel'.rule = kernel.rule /\ kernel'.rules = kernel.rules
      /\ kernel'.main = kernel.main /\ kernel'.foreign = kernel.foreign
      /\ kernel'.default = kernel.default /\ kernel'.specific = kernel.specific
  BY <1>1, <1>5, <1>6, KernelsAre, Zenon
<1>8. /\ j \in Jobs /\ j.pc = "mirror" /\ j.rules = job[p].rules /\ j.rule = job[p].rule
      /\ j.quiet = job[p].quiet /\ j.owned = owned /\ j.path = job[p].path
      /\ j.desired = job[p].desired /\ j.target = job[p].target
      /\ j.transition = job[p].transition
  BY <1>1, <1>4, <1>6, JobsAre, Zenon
<1>9. job'[p] = j
  BY <1>1, <1>5, JobSet, Zenon
<1>10. ASSUME j.quiet PROVE Knows(p)'
  <2>1. Knows(p)
    BY <1>1, <1>8, <1>10, Zenon
  <2>2. ClientPath(settings)' = ClientPath(settings)
    BY <1>7, Zenon DEF ClientPath
  <2>3. Closed(p)' = Closed(p) /\ Ahead(p)' = Ahead(p) /\ \A m \in Networks : Mirror(p, m)' = Mirror(p, m)
    BY <1>7, <1>8, <1>9, Zenon DEF Closed, Ahead, Priority, Mirror
  <2>4. Reads(p)'
    BY <1>1, <1>7, <1>8, <1>9, <2>1, Zenon DEF Knows, Reads
  <2>5. KnownPaths(p)'
    BY <1>1, <1>7, <1>8, <1>9, <2>1, <2>2, Zenon DEF Knows, KnownPaths, Ran
  <2>6. owned = table
    BY <1>1, <1>2, <1>3, <2>1, Zenon DEF Knows, TablePass
  <2>7. MainPass(p)'
    BY <1>1, <1>7, <1>8, <1>9, <2>1, <2>3, Zenon DEF Knows, MainPass, Ran
  <2>8. TablePass(p)'
    BY <1>1, <1>7, <1>8, <1>9, <2>1, <2>3, <2>6, Zenon DEF Knows, TablePass
  <2>9. QED
    BY <2>4, <2>5, <2>7, <2>8, Zenon DEF Knows
<1>11. \A m \in Networks : j.desired[m] # None => cached'
  BY <1>1, <1>8, Zenon DEF RoutingInv, Drafts
<1>12. Seen'
  BY <1>1, <1>6, <1>7, <1>8, <1>11 DEF Seen
<1>13. RoutingInv'
  BY <1>1, <1>5, <1>7, <1>8, <1>10, <1>11, <1>12, RunContinues, Zenon
<1>14. QED
  BY <1>6, <1>7, <1>13, Zenon

LEMMA MirrorSteps ==
    ASSUME RoutingInv, RoutingConstants, NEW p \in Procs, NEW n \in Networks,
           AddMirror(p, n) \/ DeleteMirror(p, n)
    PROVE  RoutingInv'
<1>1. At(p, "mirror") /\ Typed /\ lock = p /\ job[p] \in Jobs
  BY AtPlace, Zenon DEF AddMirror, DeleteMirror
<1>2. job[p].desired[n] \in Paths \cup {None}
  BY <1>1, JobFields, Zenon DEF Routes
<1>3. CASE End(p, None) /\ UNCHANGED kernel
  <2>1. UNCHANGED <<settings, cached, changes, failures>>
    BY Zenon DEF AddMirror, DeleteMirror
  <2>2. QED
    BY <1>1, <1>3, <2>1, RunFails, Zenon DEF Typed
<1>4. CASE AddMirror(p, n) /\ ~(End(p, None) /\ UNCHANGED kernel)
  <2>1. /\ kernel' = [kernel EXCEPT !.table[n] = job[p].desired[n]]
        /\ Set(p, [job[p] EXCEPT !.owned[n] = job[p].desired[n]])
        /\ UNCHANGED <<settings, cached, lock, sound, changes, failures>>
    BY <1>4, Zenon DEF AddMirror
  <2>2. QED
    BY <1>1, <1>2, <2>1, TableWritten, Zenon
<1>5. CASE DeleteMirror(p, n) /\ ~(End(p, None) /\ UNCHANGED kernel)
  <2>1. /\ kernel' = [kernel EXCEPT !.table[n] = None]
        /\ Set(p, [job[p] EXCEPT !.owned[n] = None])
        /\ UNCHANGED <<settings, cached, lock, sound, changes, failures>>
    BY <1>5, Zenon DEF DeleteMirror
  <2>2. job[p].desired[n] = None
    BY <1>5, Zenon DEF DeleteMirror, Earliest, Stale
  <2>3. QED
    BY <1>1, <1>2, <2>1, <2>2, TableWritten, Zenon
<1>6. QED
  BY <1>3, <1>4, <1>5, Zenon

LEMMA MirroredStep ==
    ASSUME RoutingInv, RoutingConstants, NEW p \in Procs, Mirrored(p)
    PROVE  RoutingInv'
<1>1. /\ Typed /\ lock = p /\ job[p] \in Jobs /\ job[p].pc = "mirror"
      /\ kernel \in Kernels /\ cached \in BOOLEAN /\ Seen /\ (job[p].quiet => Knows(p))
  BY AtPlace, Zenon DEF Mirrored
<1>2. PICK j : j = [job[p] EXCEPT !.pc = "apply", !.rule = None,
                                  !.owned = NoRoutes, !.desired = NoRoutes]
  BY Zenon
<1>3. Set(p, j) /\ UNCHANGED <<kernel, settings, cached, lock, sound, changes, failures>>
  BY <1>2, Zenon DEF Mirrored
<1>4. "apply" \in Places /\ None \in RuleAt /\ NoRoutes \in Routes
  BY DEF Places, RuleAt, NoRoutes, Routes
<1>5. /\ j \in Jobs /\ j.pc = "apply" /\ j.rules = job[p].rules
      /\ j.quiet = job[p].quiet /\ j.path = job[p].path /\ j.target = job[p].target
      /\ j.transition = job[p].transition
  BY <1>1, <1>2, <1>4, JobsAre, Zenon
<1>6. job'[p] = j
  BY <1>1, <1>3, JobSet, Zenon
<1>7. ASSUME j.quiet PROVE Knows(p)'
  <2>1. Knows(p)
    BY <1>1, <1>5, <1>7, Zenon
  <2>2. ClientPath(settings)' = ClientPath(settings)
    BY <1>3, Zenon DEF ClientPath
  <2>3. Closed(p)' = Closed(p) /\ Ahead(p)' = Ahead(p) /\ \A m \in Networks : Mirror(p, m)' = Mirror(p, m)
    BY <1>3, <1>5, <1>6, Zenon DEF Closed, Ahead, Priority, Mirror
  <2>4. Reads(p)'
    BY <1>1, <1>3, <1>5, <1>6, <2>1, Zenon DEF Knows, Reads
  <2>5. KnownPaths(p)'
    BY <1>1, <1>3, <1>5, <1>6, <2>1, <2>2, Zenon DEF Knows, KnownPaths, Ran
  <2>6. MainPass(p)'
    BY <1>1, <1>3, <1>5, <1>6, <2>1, <2>3, Zenon DEF Knows, MainPass, Ran
  <2>7. ASSUME NEW n \in Networks PROVE kernel.table[n] = Mirror(p, n)
    <3>1. job[p].owned = kernel.table /\ job[p].desired[n] = Mirror(p, n)
      BY <1>1, <2>1, Zenon DEF Knows, TablePass
    <3>2. n \notin Missing(p) /\ n \notin Stale(p)
      BY Zenon DEF Mirrored
    <3>3. QED
      BY <3>1, <3>2, Zenon DEF Missing, Stale
  <2>8. TablePass(p)'
    BY <1>1, <1>3, <1>5, <1>6, <2>1, <2>3, <2>7, Zenon DEF Knows, TablePass
  <2>9. QED
    BY <2>4, <2>5, <2>6, <2>8, Zenon DEF Knows
<1>8. Seen'
  BY <1>1, <1>3, Zenon DEF Seen
<1>9. QED
  BY <1>1, <1>3, <1>5, <1>7, <1>8, RunContinues, Zenon

\* The destination rules change in the kernel as the run has them.
LEMMA RulesWritten ==
    ASSUME RoutingInv, RoutingConstants, NEW p \in Procs, At(p, "apply"),
           NEW here \in Rules, NEW there \in Rules,
           job[p].rules = kernel.rules => here = there,
           kernel' = [kernel EXCEPT !.rules = there],
           Set(p, [job[p] EXCEPT !.rules = here]),
           UNCHANGED <<settings, cached, lock, sound, changes, failures>>
    PROVE  /\ RoutingInv'
           /\ lock = p /\ job[p].quiet = job'[p].quiet /\ job'[p].pc = "apply"
           /\ Priority(p)' = Priority(p)
           /\ kernel'.rules = there /\ kernel'.gateway = kernel.gateway
           /\ kernel'.rule = kernel.rule /\ kernel'.specific = kernel.specific
           /\ kernel'.wg = kernel.wg /\ kernel'.main = kernel.main
           /\ kernel'.table = kernel.table /\ kernel'.foreign = kernel.foreign
           /\ kernel'.default = kernel.default
<1>1. /\ Typed /\ lock = p /\ job[p] \in Jobs /\ job[p].pc = "apply"
      /\ kernel \in Kernels /\ cached \in BOOLEAN /\ Seen /\ (job[p].quiet => Knows(p))
  BY AtPlace, Zenon
<1>2. PICK j : j = [job[p] EXCEPT !.rules = here]
  BY Zenon
<1>3. Set(p, j)
  BY <1>2, Zenon
<1>4. /\ kernel' \in Kernels /\ kernel'.rules = there /\ kernel'.gateway = kernel.gateway
      /\ kernel'.wg = kernel.wg /\ kernel'.rule = kernel.rule /\ kernel'.table = kernel.table
      /\ kernel'.main = kernel.main /\ kernel'.foreign = kernel.foreign
      /\ kernel'.default = kernel.default /\ kernel'.specific = kernel.specific
  BY <1>1, KernelsAre, Zenon
<1>5. /\ j \in Jobs /\ j.pc = "apply" /\ j.rules = here
      /\ j.quiet = job[p].quiet /\ j.path = job[p].path /\ j.target = job[p].target
      /\ j.transition = job[p].transition
  BY <1>1, <1>2, JobsAre, Zenon
<1>6. job'[p] = j
  BY <1>1, <1>3, JobSet, Zenon
<1>7. ASSUME j.quiet PROVE Knows(p)'
  <2>1. Knows(p)
    BY <1>1, <1>5, <1>7, Zenon
  <2>2. ClientPath(settings)' = ClientPath(settings)
    BY <1>4, Zenon DEF ClientPath
  <2>3. Closed(p)' = Closed(p) /\ Ahead(p)' = Ahead(p) /\ \A m \in Networks : Mirror(p, m)' = Mirror(p, m)
    BY <1>4, <1>5, <1>6, Zenon DEF Closed, Ahead, Priority, Mirror
  <2>4. Reads(p)'
    BY <1>1, <1>4, <1>5, <1>6, <2>1, Zenon DEF Knows, Reads
  <2>5. KnownPaths(p)'
    BY <1>1, <1>4, <1>5, <1>6, <2>1, <2>2, Zenon DEF Knows, KnownPaths, Ran
  <2>6. MainPass(p)'
    BY <1>1, <1>4, <1>5, <1>6, <2>1, <2>3, Zenon DEF Knows, MainPass, Ran
  <2>7. TablePass(p)'
    BY <1>1, <1>4, <1>5, <1>6, <2>1, <2>3, Zenon DEF Knows, TablePass
  <2>8. QED
    BY <2>4, <2>5, <2>6, <2>7, Zenon DEF Knows
<1>8. Seen'
  BY <1>1, <1>4, Zenon DEF Seen
<1>9. RoutingInv'
  BY <1>1, <1>3, <1>4, <1>5, <1>7, <1>8, RunContinues, Zenon
<1>10. QED
  BY <1>1, <1>4, <1>5, <1>6, <1>9, Zenon DEF Priority

LEMMA AddRuleStep ==
    ASSUME RoutingInv, RoutingConstants, NEW p \in Procs, NEW n \in Networks, AddRule(p, n)
    PROVE  /\ RoutingInv'
           /\ lock = p /\ job[p].quiet = job'[p].quiet /\ job'[p].pc = "apply"
           /\ Priority(p)' = Priority(p)
           /\ kernel'.rules = kernel.rules \cup {<<Priority(p), n>>}
           /\ kernel'.gateway = kernel.gateway
           /\ kernel'.rule = kernel.rule /\ kernel'.specific = kernel.specific
           /\ kernel'.wg = kernel.wg /\ kernel'.main = kernel.main
           /\ kernel'.table = kernel.table /\ kernel'.foreign = kernel.foreign
           /\ kernel'.default = kernel.default
<1> DEFINE here == job[p].rules \cup {<<Priority(p), n>>}
           there == kernel.rules \cup {<<Priority(p), n>>}
<1>1. At(p, "apply") /\ job[p] \in Jobs /\ kernel \in Kernels
  BY AtPlace, Zenon DEF AddRule
<1>2. <<Priority(p), n>> \in {0, Lowest, Base} \X Networks
  BY Zenon DEF Priority
<1>3. here \in Rules /\ there \in Rules /\ (job[p].rules = kernel.rules => here = there)
  BY <1>1, <1>2, JobFields, KernelFields, Zenon DEF Rules
<1>4. /\ kernel' = [kernel EXCEPT !.rules = there]
      /\ Set(p, [job[p] EXCEPT !.rules = here])
      /\ UNCHANGED <<settings, cached, lock, sound, changes, failures>>
  BY Zenon DEF AddRule
<1> HIDE DEF here
<1>5. QED
  BY <1>1, <1>3, <1>4, RulesWritten, Zenon

LEMMA DeleteRuleStep ==
    ASSUME RoutingInv, RoutingConstants, NEW p \in Procs, NEW r \in {0, Lowest, Base} \X Networks,
           DeleteRule(p, r)
    PROVE  /\ RoutingInv'
           /\ lock = p /\ job[p].quiet = job'[p].quiet /\ job'[p].pc = "apply"
           /\ Priority(p)' = Priority(p)
           /\ kernel'.rules = kernel.rules \ {r}
           /\ kernel'.gateway = kernel.gateway
           /\ kernel'.rule = kernel.rule /\ kernel'.specific = kernel.specific
           /\ kernel'.wg = kernel.wg /\ kernel'.main = kernel.main
           /\ kernel'.table = kernel.table /\ kernel'.foreign = kernel.foreign
           /\ kernel'.default = kernel.default
<1> DEFINE here == job[p].rules \ {r}
           there == kernel.rules \ {r}
<1>1. At(p, "apply") /\ job[p] \in Jobs /\ kernel \in Kernels
  BY AtPlace, Zenon DEF DeleteRule
<1>2. here \in Rules /\ there \in Rules /\ (job[p].rules = kernel.rules => here = there)
  BY <1>1, JobFields, KernelFields, Zenon DEF Rules
<1>3. /\ kernel' = [kernel EXCEPT !.rules = there]
      /\ Set(p, [job[p] EXCEPT !.rules = here])
      /\ UNCHANGED <<settings, cached, lock, sound, changes, failures>>
  BY Zenon DEF DeleteRule
<1> HIDE DEF here
<1>4. QED
  BY <1>1, <1>2, <1>3, RulesWritten, Zenon

LEMMA VerifyTablesStep ==
    ASSUME RoutingInv, RoutingConstants, NEW p \in Procs, VerifyTables(p)
    PROVE  RoutingInv'
<1>1. /\ Typed /\ lock = p /\ job[p] \in Jobs /\ job[p].pc = "apply"
      /\ kernel \in Kernels /\ cached \in BOOLEAN /\ Seen /\ (job[p].quiet => Knows(p))
  BY AtPlace, Zenon DEF VerifyTables
<1>2. UNCHANGED <<kernel, settings, cached, changes, failures>>
  BY Zenon DEF VerifyTables
<1>3. CASE End(p, None)
  BY <1>1, <1>2, <1>3, RunFails, Zenon DEF Typed
<1>4. CASE ~End(p, None)
  <2>1. PICK j : j = [job[p] EXCEPT !.pc = "verify", !.rules = {}]
    BY Zenon
  <2>2. Set(p, j) /\ UNCHANGED <<lock, sound>> /\ kernel.rules = DesiredRules(p)
    BY <1>4, <2>1, Zenon DEF VerifyTables
  <2>3. "verify" \in Places /\ {} \in Rules
    BY Zenon DEF Places, Rules
  <2>4. /\ j \in Jobs /\ j.pc = "verify"
        /\ j.quiet = job[p].quiet /\ j.path = job[p].path /\ j.target = job[p].target
        /\ j.transition = job[p].transition
    BY <1>1, <2>1, <2>3, JobsAre, Zenon
  <2>5. job'[p] = j
    BY <1>1, <2>2, JobSet, Zenon
  <2>6. ASSUME j.quiet PROVE Knows(p)'
    <3>1. Knows(p)
      BY <1>1, <2>4, <2>6, Zenon
    <3>2. ClientPath(settings)' = ClientPath(settings)
      BY <1>2, Zenon DEF ClientPath
    <3>3. /\ Closed(p)' = Closed(p) /\ Ahead(p)' = Ahead(p)
          /\ \A m \in Networks : Mirror(p, m)' = Mirror(p, m)
      BY <1>2, <2>4, <2>5, Zenon DEF Closed, Ahead, Priority, Mirror
    <3>4. DesiredRules(p)' = DesiredRules(p)
      BY <2>4, <2>5, Zenon DEF DesiredRules, Priority
    <3>5. Reads(p)'
      BY <2>4, <2>5, Zenon DEF Reads
    <3>6. KnownPaths(p)'
      BY <1>1, <1>2, <2>4, <2>5, <3>1, <3>2, Zenon DEF Knows, KnownPaths, Ran
    <3>7. MainPass(p)'
      BY <1>1, <1>2, <2>4, <2>5, <3>1, <3>3, Zenon DEF Knows, MainPass, Ran
    <3>8. TablePass(p)'
      BY <1>1, <1>2, <2>2, <2>4, <2>5, <3>1, <3>3, <3>4, Zenon DEF Knows, TablePass
    <3>9. QED
      BY <3>5, <3>6, <3>7, <3>8, Zenon DEF Knows
  <2>7. Seen'
    BY <1>1, <1>2, Zenon DEF Seen
  <2>8. QED
    BY <1>1, <1>2, <2>2, <2>4, <2>6, <2>7, RunContinues, Zenon
<1>5. QED
  BY <1>3, <1>4, Zenon

\* What a run that nothing disturbed has established at its end.
LEMMA RunEstablishes ==
    ASSUME RoutingInv, RoutingConstants, NEW p \in Procs, At(p, "verify"), job[p].quiet,
           NEW n \in Kept
    PROVE  ~Leaks(n) /\ (job[p].transition => Prepared(n))
<1>1. /\ Typed /\ lock = p /\ job[p] \in Jobs /\ job[p].pc = "verify"
      /\ kernel \in Kernels /\ cached \in BOOLEAN /\ Seen /\ Knows(p)
  BY AtPlace, Zenon
<1>2. job[p].pc \in Ran \ {"routes"} /\ Reads(p) /\ KnownPaths(p) /\ MainPass(p) /\ TablePass(p)
  BY <1>1, Zenon DEF Ran, Knows
<1>3. n \in Networks /\ job[p].path[n] # None
  BY <1>1, <1>2, KeptHasPath, Zenon
<1>4. <<Priority(p), n>> \in kernel.rules
  BY <1>1, <1>2, <1>3, Zenon DEF TablePass, DesiredRules
<1>5. ~Leaks(n)
  BY <1>1, <1>4, RuleProtects, Zenon
<1>6. ASSUME job[p].transition PROVE Prepared(n)
  <2>1. <<Lowest, n>> \in kernel.rules
    BY <1>4, <1>6, Zenon DEF Priority
  <2>2. kernel.table[n] = Mirror(p, n) /\ (cached => job[p].target)
    BY <1>1, <1>2, <1>3, <1>6, Zenon DEF TablePass
  <2>3. n = "clients" => MainPath(n) # "gateway" /\ kernel.table[n] # "gateway"
    BY <1>1, <1>2, <2>2, MainIsSafe, MirrorIsSafe, Zenon
  <2>4. cached => kernel.table[n] # None \/ (n = "lan" /\ kernel.foreign # None)
    BY <1>3, <2>2, Zenon DEF Mirror
  <2>5. n = "lan" /\ cached => kernel.foreign # "tunnel"
    BY <1>1, <1>2, <1>3, <2>2, NoneApart DEF TablePass
  <2>6. QED
    BY <2>1, <2>3, <2>4, <2>5, Zenon DEF Prepared
<1>7. QED
  BY <1>5, <1>6, Zenon

LEMMA VerifyRoutesStep ==
    ASSUME RoutingInv, RoutingConstants, NEW p \in Procs, VerifyRoutes(p)
    PROVE  RoutingInv'
<1>1. /\ Typed /\ lock = p /\ job[p] \in Jobs /\ job[p].pc = "verify" /\ At(p, "verify")
      /\ kernel \in Kernels /\ cached \in BOOLEAN /\ Seen
  BY AtPlace, Zenon DEF VerifyRoutes
<1>2. UNCHANGED <<kernel, settings, cached, changes, failures>>
  BY Zenon DEF VerifyRoutes
<1>3. /\ lock' = None /\ Set(p, None)
      /\ sound' # None => /\ job[p].quiet
                          /\ sound' = IF job[p].transition THEN "prepared" ELSE "reconciled"
  BY Zenon DEF VerifyRoutes, End
<1>4. CASE sound' = None
  <2>1. End(p, None)
    BY <1>3, <1>4, Zenon DEF End
  <2>2. QED
    BY <1>1, <1>2, <2>1, RunFails, Zenon DEF Typed
<1>5. CASE sound' # None
  <2>1. /\ job'[p] = None
        /\ \A q \in Procs \ {p} : job'[q] = job[q]
        /\ job' = [q \in Procs |-> job'[q]]
    BY <1>1, <1>3, JobSet, Zenon
  <2>2. ASSUME NEW q \in Procs PROVE lock' # q /\ job'[q] = None
    BY <1>1, <1>3, <2>1, NoneApart DEF Typed
  <2>3. sound' \in {None, "prepared", "reconciled"}
    BY <1>3, Zenon
  <2>4. Typed'
    BY <1>1, <1>2, <1>3, <2>1, <2>2, <2>3, Zenon DEF Typed
  <2>5. Drafts' /\ Known'
    BY <2>2, Zenon DEF Drafts, Known
  <2>6. Seen'
    BY <1>1, <1>2, Zenon DEF Seen
  <2>7. \A n : /\ Leaks(n)' = Leaks(n) /\ Prepared(n)' = Prepared(n)
    BY <1>2 DEF Leaks, Lookup, ProviderFirst, TablePath, MainPath, Prepared
  <2>8. Kept' = Kept
    BY <1>2, Zenon DEF Kept, Configured
  <2>9. \A n \in Kept : ~Leaks(n) /\ (job[p].transition => Prepared(n))
    BY <1>1, <1>3, <1>5, RunEstablishes, Zenon
  <2>10. Lasting'
    <3>1. sound' = "prepared" => job[p].transition
      BY <1>3, <1>5, Zenon
    <3>2. QED
      BY <1>3, <2>7, <2>8, <2>9, <3>1, Zenon DEF Lasting, CompleteRunProtects
  <2>11. QED
    BY <2>4, <2>5, <2>6, <2>10, Zenon DEF RoutingInv
<1>6. QED
  BY <1>4, <1>5, Zenon

LEMMA InitHolds ==
    ASSUME Init, RoutingConstants
    PROVE  RoutingInv
<1>1. /\ kernel.foreign = None /\ kernel.table = NoRoutes /\ kernel.main = NoRoutes
      /\ kernel \in Kernels
  <2>1. NoRoutes \in Routes /\ NoRoutes \in Mains
    BY Zenon DEF NoRoutes, Routes, Mains
  <2>2. {} \in Rules /\ {<<0, "lan">>} \in Rules
    BY DEF Rules, Networks
  <2>3. /\ kernel.gateway = TRUE /\ kernel.specific = FALSE /\ kernel.wg \in BOOLEAN
        /\ kernel.rule \in {None, 0} /\ kernel.default \in BOOLEAN /\ kernel.foreign = None
        /\ kernel.main = NoRoutes /\ kernel.table = NoRoutes
        /\ kernel.rules \in {{}, {<<0, "lan">>}}
    BY Zenon DEF Init
  <2>4. kernel = [gateway |-> kernel.gateway, specific |-> kernel.specific, wg |-> kernel.wg,
                  rule |-> kernel.rule, default |-> kernel.default, foreign |-> kernel.foreign,
                  main |-> kernel.main, table |-> kernel.table, rules |-> kernel.rules]
    BY Zenon DEF Init
  <2>5. kernel \in Kernels
    <3>1. /\ kernel.gateway \in BOOLEAN /\ kernel.specific \in BOOLEAN /\ kernel.wg \in BOOLEAN
          /\ kernel.rule \in RuleAt /\ kernel.default \in BOOLEAN /\ kernel.foreign \in Foreigns
          /\ kernel.main \in Mains /\ kernel.table \in Routes /\ kernel.rules \in Rules
      <4>1. kernel.gateway \in BOOLEAN /\ kernel.specific \in BOOLEAN
        BY <2>3, Zenon
      <4>2. kernel.rule \in RuleAt /\ kernel.foreign \in Foreigns
        BY <2>3 DEF RuleAt, Foreigns
      <4>3. kernel.main \in Mains /\ kernel.table \in Routes /\ kernel.rules \in Rules
        BY <2>1, <2>2, <2>3, Zenon
      <4>4. QED
        BY <2>3, <4>1, <4>2, <4>3, Zenon
    <3>2. QED
      BY <2>4, <3>1, KernelsAre, Zenon
  <2>6. QED
    BY <2>3, <2>5, Zenon
<1>2. Typed
  BY <1>1, NoneApart DEF Init, Typed, Wanted, RoutingConstants
<1>3. Drafts /\ Known /\ Seen
  BY <1>1, NoneApart DEF Init, Drafts, Known, Seen, NoRoutes
<1>4. Lasting
  BY NoneApart DEF Init, Lasting, CompleteRunProtects
<1>5. QED
  BY <1>2, <1>3, <1>4, Zenon DEF RoutingInv

LEMMA StutterStep ==
    ASSUME RoutingInv, UNCHANGED vars
    PROVE  RoutingInv'
<1>1. UNCHANGED <<kernel, settings, cached, lock, job, sound, changes, failures>>
  BY Zenon DEF vars
<1>2. Typed' /\ Drafts' /\ Seen'
  BY <1>1, Zenon DEF RoutingInv, Typed, Drafts, Seen
<1>3. \A n : Leaks(n)' = Leaks(n) /\ Prepared(n)' = Prepared(n)
  BY <1>1 DEF Leaks, Lookup, ProviderFirst, TablePath, MainPath, Prepared
<1>4. Lasting'
  BY <1>1, <1>3, Zenon DEF RoutingInv, Lasting, CompleteRunProtects, Kept, Configured
<1>5. ASSUME NEW p \in Procs, Knows(p) PROVE Knows(p)'
  <2>1. /\ ClientPath(settings)' = ClientPath(settings) /\ Closed(p)' = Closed(p)
        /\ Ahead(p)' = Ahead(p) /\ DesiredRules(p)' = DesiredRules(p)
        /\ \A n \in Networks : Mirror(p, n)' = Mirror(p, n)
    BY <1>1, Zenon DEF ClientPath, Closed, Ahead, Priority, DesiredRules, Mirror
  <2>2. Reads(p)' /\ KnownPaths(p)'
    BY <1>1, <1>5, <2>1, Zenon DEF Knows, Reads, KnownPaths
  <2>3. MainPass(p)' /\ TablePass(p)'
    BY <1>1, <1>5, <2>1, Zenon DEF Knows, MainPass, TablePass
  <2>4. QED
    BY <2>2, <2>3, Zenon DEF Knows
<1>6. Known'
  BY <1>1, <1>5, Zenon DEF RoutingInv, Known
<1>7. QED
  BY <1>2, <1>4, <1>6, Zenon DEF RoutingInv

LEMMA InvariantStep ==
    ASSUME RoutingInv, RoutingConstants, [Next]_vars
    PROVE  RoutingInv'
<1>1. CASE Environment
  BY <1>1, EnvironmentStep, Zenon
<1>2. ASSUME NEW p \in Procs, Reconcile(p) \/ PrepareTransition(p) PROVE RoutingInv'
  BY <1>2, BeginStep, Zenon DEF Reconcile, PrepareTransition
<1>3. ASSUME NEW p \in Procs, Work(p) PROVE RoutingInv'
  BY <1>3, ReadRulesStep, ReadMainStep, PlanMainStep, MainSteps, ReadDirectStep, ReadTablesStep,
     MirrorSteps, MirroredStep, AddRuleStep, DeleteRuleStep, VerifyTablesStep, VerifyRoutesStep, Zenon
     DEF Work
<1>4. ASSUME NEW p \in Procs, Fail(p) PROVE RoutingInv'
  BY <1>4, FailStep, Zenon
<1>5. CASE UNCHANGED vars
  BY <1>5, StutterStep, Zenon
<1>6. QED
  BY <1>1, <1>2, <1>3, <1>4, <1>5, Zenon DEF Next

-----------------------------------------------------------------------------
(* No command opens a gap. *)

\* What a packet takes depends on the kernel alone.
LEMMA NoCommand ==
    ASSUME kernel' = kernel
    PROVE  OpensNoGap
<1>1. \A n : Leaks(n)' = Leaks(n)
  BY DEF Leaks, Lookup, ProviderFirst, TablePath, MainPath
<1>2. QED
  BY <1>1, Zenon DEF OpensNoGap

\* Only the process at work is to be looked at.
LEMMA OneAtWork ==
    ASSUME RoutingConstants, NEW p \in Procs, lock = p,
           \A n \in Kept : job[p].quiet /\ n \in {r[2] : r \in kernel.rules} /\ ~Leaks(n) => ~Leaks(n)'
    PROVE  OpensNoGap
  BY Zenon DEF OpensNoGap

\* Routes of the main table: the client subnet is blocked before its route
\* could lead to the gateway, and released once its interface is there.
LEMMA MainOpensNoGap ==
    ASSUME RoutingInv, RoutingConstants, NEW p \in Procs, NEW n \in Networks,
           AddMain(p, n) \/ DeleteMain(p, n)
    PROVE  OpensNoGap
<1>1. /\ Typed /\ lock = p /\ job[p] \in Jobs /\ job[p].pc = "routes" /\ At(p, "routes")
      /\ kernel \in Kernels /\ (job[p].quiet => Knows(p)) /\ job[p].desired \in Mains
  <2>1. At(p, "routes")
    BY Zenon DEF AddMain, DeleteMain
  <2>2. QED
    BY <2>1, AtPlace, Zenon DEF RoutingInv, Drafts
<1>2. job[p].desired[n] \in {None, "gateway", "unreachable"}
  BY <1>1, Zenon DEF Mains
<1>3. /\ kernel' = [kernel EXCEPT !.main[n] = job[p].desired[n]]
      /\ Set(p, [job[p] EXCEPT !.owned[n] = job[p].desired[n]])
      /\ UNCHANGED <<settings, cached, lock, sound, changes, failures>>
  <2>1. CASE AddMain(p, n)
    BY <2>1, Zenon DEF AddMain
  <2>2. CASE DeleteMain(p, n)
    <3>1. job[p].desired[n] = None
      BY <2>2, Zenon DEF DeleteMain, Earliest, Stale
    <3>2. QED
      BY <2>2, <3>1, Zenon DEF DeleteMain
  <2>3. QED
    BY <2>1, <2>2, Zenon
<1>4. /\ RoutingInv'
      /\ kernel'.main[n] = job[p].desired[n]
      /\ \A m \in Networks \ {n} : kernel'.main[m] = kernel.main[m]
      /\ kernel'.gateway = kernel.gateway /\ kernel'.specific = kernel.specific
      /\ kernel'.wg = kernel.wg /\ kernel'.rule = kernel.rule /\ kernel'.rules = kernel.rules
      /\ kernel'.table = kernel.table /\ kernel'.foreign = kernel.foreign
      /\ kernel'.default = kernel.default
  BY <1>1, <1>2, <1>3, MainWritten, Zenon
<1>5. ASSUME NEW m \in Kept, job[p].quiet, ~Leaks(m) PROVE ~Leaks(m)'
  <2>1. m \in Networks /\ (m = "clients" => "clients" \in settings)
    BY <1>1, Zenon DEF Kept, Configured, Typed, Wanted, Networks
  <2>2. MainPath(m)' # "tunnel"
    <3>1. kernel'.main[m] \in {None, "gateway", "unreachable"}
      BY <1>4, <2>1, KernelFields, Zenon DEF RoutingInv, Typed, Mains
    <3>2. QED
      BY <2>1, <3>1, NoneApart DEF MainPath, Networks
  <2>3. ProviderFirst(m)' = ProviderFirst(m) /\ TablePath(m)' = TablePath(m)
    BY <1>4, Zenon DEF ProviderFirst, TablePath
  <2>4. CASE m # "clients"
    BY <1>5, <2>2, <2>3, <2>4, Zenon DEF Leaks, Lookup
  <2>5. CASE m = "clients" /\ n # "clients"
    <3>1. MainPath(m)' = MainPath(m)
      BY <1>4, <2>5, Zenon DEF MainPath, Networks
    <3>2. QED
      BY <1>5, <2>3, <3>1, Zenon DEF Leaks, Lookup
  <2>6. CASE m = "clients" /\ n = "clients"
    <3>1. /\ job[p].path["clients"] = ClientPath(settings)
          /\ job[p].desired["clients"] = IF Closed(p) THEN "unreachable" ELSE None
      BY <1>1, <1>5, Zenon DEF Knows, KnownPaths, MainPass
    <3>2. kernel.wg \/ kernel'.main["clients"] = "unreachable"
      BY <1>4, <2>1, <2>6, <3>1, Zenon DEF ClientPath, Closed
    <3>3. MainPath(m)' # "gateway"
      BY <1>4, <2>6, <3>2, NoneApart DEF MainPath, Paths
    <3>4. QED
      BY <1>5, <2>2, <2>3, <3>3, Zenon DEF Leaks, Lookup
  <2>7. QED
    BY <2>4, <2>5, <2>6, Zenon
<1>6. QED
  BY <1>1, <1>5, OneAtWork, Zenon

\* Routes of the provider's table: a route goes only when that table comes
\* after the network's rule, or holds nothing that could take the packet.
LEMMA MirrorOpensNoGap ==
    ASSUME RoutingInv, RoutingConstants, NEW p \in Procs, NEW n \in Networks,
           AddMirror(p, n) \/ DeleteMirror(p, n), kernel' # kernel
    PROVE  OpensNoGap
<1>1. /\ Typed /\ lock = p /\ job[p] \in Jobs /\ job[p].pc = "mirror" /\ At(p, "mirror")
      /\ kernel \in Kernels /\ Seen /\ (job[p].quiet => Knows(p))
  <2>1. At(p, "mirror")
    BY Zenon DEF AddMirror, DeleteMirror
  <2>2. QED
    BY <2>1, AtPlace, Zenon
<1>2. job[p].desired[n] \in Paths \cup {None}
  BY <1>1, JobFields, Zenon DEF Routes
<1>3. /\ kernel' = [kernel EXCEPT !.table[n] = job[p].desired[n]]
      /\ Set(p, [job[p] EXCEPT !.owned[n] = job[p].desired[n]])
      /\ UNCHANGED <<settings, cached, lock, sound, changes, failures>>
      /\ job[p].desired[n] = None => kernel.table[n] # None
  <2>1. CASE AddMirror(p, n)
    <3>1. job[p].desired[n] # None
      BY <2>1, Zenon DEF AddMirror, Earliest, Missing
    <3>2. QED
      BY <2>1, <3>1, Zenon DEF AddMirror
  <2>2. CASE DeleteMirror(p, n)
    <3>1. job[p].desired[n] = None
      BY <2>2, Zenon DEF DeleteMirror, Earliest, Stale
    <3>2. QED
      BY <2>2, <3>1, Zenon DEF DeleteMirror
  <2>3. QED
    BY <2>1, <2>2, Zenon
<1>4. /\ RoutingInv'
      /\ kernel'.table[n] = job[p].desired[n]
      /\ \A m \in Networks \ {n} : kernel'.table[m] = kernel.table[m]
      /\ kernel'.gateway = kernel.gateway /\ kernel'.specific = kernel.specific
      /\ kernel'.wg = kernel.wg /\ kernel'.rule = kernel.rule /\ kernel'.rules = kernel.rules
      /\ kernel'.main = kernel.main /\ kernel'.foreign = kernel.foreign
      /\ kernel'.default = kernel.default
  BY <1>1, <1>2, <1>3, TableWritten, Zenon
<1>5. ASSUME NEW m \in Kept, job[p].quiet, m \in {r[2] : r \in kernel.rules}, ~Leaks(m)
      PROVE  ~Leaks(m)'
  <2>1. job[p].pc \in Ran \ {"routes"} /\ KnownPaths(p) /\ MainPass(p) /\ TablePass(p)
    BY <1>1, <1>5, Zenon DEF Knows, Ran
  <2>2. /\ m \in Networks /\ job[p].path[m] # None
        /\ MainPath(m) # "tunnel" /\ (m = "clients" => MainPath(m) # "gateway")
        /\ Mirror(p, m) # "tunnel" /\ (m = "clients" => Mirror(p, m) # "gateway")
    BY <1>1, <2>1, KeptHasPath, MainIsSafe, MirrorIsSafe, Zenon
  <2>3. ProviderFirst(m)' = ProviderFirst(m) /\ MainPath(m)' = MainPath(m)
    BY <1>4, Zenon DEF ProviderFirst, MainPath
  <2>4. CASE TablePath(m)' = TablePath(m)
    BY <1>5, <2>3, <2>4, Zenon DEF Leaks, Lookup
  <2>5. CASE TablePath(m)' # TablePath(m)
    <3>1. m = n /\ ~(n = "lan" /\ kernel.foreign # None)
      BY <1>4, <2>2, <2>5, Zenon DEF TablePath
    <3>2. job[p].desired[m] = Mirror(p, m)
      BY <1>1, <2>1, <2>2, Zenon DEF TablePass
    <3>3. CASE job[p].desired[m] # None
      <4>1. TablePath(m)' = Mirror(p, m)
        BY <1>4, <3>1, <3>2, <3>3, Zenon DEF TablePath
      <4>2. QED
        BY <2>2, <2>3, <4>1, Zenon DEF Leaks, Lookup
    <3>4. CASE job[p].desired[m] = None
      <4>1. ~job[p].target
        BY <2>2, <3>1, <3>2, <3>4, Zenon DEF Mirror
      <4>2. cached
        BY <1>1, <1>3, <2>2, <3>1, <3>4, Zenon DEF Seen
      <4>3. ~job[p].transition /\ ~Ahead(p)
        BY <1>1, <2>1, <4>1, <4>2, Zenon DEF TablePass
      <4>4. CASE ~kernel.default
        <5>1. TablePath(m)' = None
          BY <1>4, <3>1, <3>4, <4>4, Zenon DEF TablePath
        <5>2. QED
          BY <2>2, <2>3, <5>1, Zenon DEF Leaks, Lookup
      <4>5. CASE kernel.default
        <5>1. kernel.rule # None => ~(kernel.rule <= Base)
          BY <4>3, <4>5, Zenon DEF Ahead, Priority
        <5>2. PICK r \in kernel.rules : r[2] = m
          BY <1>5, Zenon
        <5>3. r[1] \in {0, Lowest, Base}
          BY <1>1, KernelFields, Zenon DEF Rules
        <5>4. kernel.rule \in RuleAt
          BY <1>1, KernelFields, Zenon
        <5>5. ~ProviderFirst(m)
          BY <5>1, <5>2, <5>3, <5>4 DEF ProviderFirst, RuleAt, Lowest, Base
        <5>6. QED
          BY <2>2, <2>3, <5>5, Zenon DEF Leaks, Lookup
      <4>6. QED
        BY <4>4, <4>5, Zenon
    <3>5. QED
      BY <3>3, <3>4, Zenon
  <2>6. QED
    BY <2>4, <2>5, Zenon
<1>6. QED
  BY <1>1, <1>5, OneAtWork, Zenon

\* RuleProtects of the state that a command leaves.
Protects ==
    \A p \in Procs : \A n \in Kept :
        lock = p /\ job[p].quiet /\ job[p].pc = "apply" /\ <<Priority(p), n>> \in kernel.rules =>
            ~Leaks(n)

LEMMA RulesProtect ==
    ASSUME RoutingConstants
    PROVE  RoutingInv => Protects
  BY RuleProtects, Zenon DEF RoutingInv, Known, Protects

\* Rules: a network whose rule is in place is safe, and the rules of another
\* run's priority go after that.
LEMMA RulesOpenNoGap ==
    ASSUME RoutingInv, RoutingConstants, NEW p \in Procs,
           \/ \E n \in Networks : AddRule(p, n)
           \/ \E r \in {0, Lowest, Base} \X Networks : DeleteRule(p, r)
    PROVE  OpensNoGap
<1>1. RoutingConstants => (RoutingInv' => Protects')
  BY RulesProtect, PTL
<1>2. ASSUME NEW n \in Networks, AddRule(p, n) PROVE OpensNoGap
  <2>1. /\ RoutingInv'
        /\ lock = p /\ job[p].quiet = job'[p].quiet /\ job'[p].pc = "apply"
        /\ Priority(p)' = Priority(p)
        /\ kernel'.rules = kernel.rules \cup {<<Priority(p), n>>}
        /\ kernel'.gateway = kernel.gateway
        /\ kernel'.rule = kernel.rule /\ kernel'.specific = kernel.specific
        /\ kernel'.wg = kernel.wg /\ kernel'.main = kernel.main
        /\ kernel'.table = kernel.table /\ kernel'.foreign = kernel.foreign
        /\ kernel'.default = kernel.default
    BY <1>2, AddRuleStep, Zenon
  <2>2. lock' = lock /\ settings' = settings
    BY <1>2, Zenon DEF AddRule
  <2>3. Protects' /\ Kept' = Kept
    BY <1>1, <2>1, <2>2, Zenon DEF Kept, Configured
  <2>4. ASSUME NEW m \in Kept, job[p].quiet, ~Leaks(m) PROVE ~Leaks(m)'
    <3>1. CASE m = n
      BY <2>1, <2>2, <2>3, <2>4, <3>1, Zenon DEF Protects
    <3>2. CASE m # n
      <4>1. ProviderFirst(m)' = ProviderFirst(m)
        BY <2>1, <3>2 DEF ProviderFirst
      <4>2. TablePath(m)' = TablePath(m) /\ MainPath(m)' = MainPath(m)
        BY <2>1, Zenon DEF TablePath, MainPath
      <4>3. QED
        BY <2>4, <4>1, <4>2, Zenon DEF Leaks, Lookup
    <3>3. QED
      BY <3>1, <3>2, Zenon
  <2>5. QED
    BY <2>1, <2>4, OneAtWork, Zenon
<1>3. ASSUME NEW r \in {0, Lowest, Base} \X Networks, DeleteRule(p, r) PROVE OpensNoGap
  <2>1. /\ RoutingInv'
        /\ lock = p /\ job[p].quiet = job'[p].quiet /\ job'[p].pc = "apply"
        /\ Priority(p)' = Priority(p)
        /\ kernel'.rules = kernel.rules \ {r}
        /\ kernel'.gateway = kernel.gateway
        /\ kernel'.rule = kernel.rule /\ kernel'.specific = kernel.specific
        /\ kernel'.wg = kernel.wg /\ kernel'.main = kernel.main
        /\ kernel'.table = kernel.table /\ kernel'.foreign = kernel.foreign
        /\ kernel'.default = kernel.default
    BY <1>3, DeleteRuleStep, Zenon
  <2>2. lock' = lock /\ settings' = settings
    BY <1>3, Zenon DEF DeleteRule
  <2>3. Protects' /\ Kept' = Kept
    BY <1>1, <2>1, <2>2, Zenon DEF Kept, Configured
  <2>4. ASSUME NEW m \in Kept, job[p].quiet, ~Leaks(m) PROVE ~Leaks(m)'
    <3>1. Typed /\ job[p].pc = "apply" /\ Knows(p)
      BY <1>3, <2>4, AtPlace, Zenon DEF DeleteRule
    <3>2. job[p].pc \in Ran \ {"routes"} /\ KnownPaths(p) /\ job[p].rules = kernel.rules
      BY <3>1, Zenon DEF Knows, Ran, Reads
    <3>3. m \in Networks /\ job[p].path[m] # None
      BY <3>1, <3>2, KeptHasPath, Zenon
    <3>4. <<Priority(p), m>> \in DesiredRules(p)
      BY <3>3, Zenon DEF DesiredRules
    <3>5. DesiredRules(p) \subseteq job[p].rules /\ r \notin DesiredRules(p)
      BY <1>3, Zenon DEF DeleteRule
    <3>6. <<Priority(p), m>> \in kernel'.rules
      BY <2>1, <3>2, <3>4, <3>5, Zenon
    <3>7. QED
      BY <2>1, <2>2, <2>3, <2>4, <3>6, Zenon DEF Protects
  <2>5. QED
    BY <2>1, <2>4, OneAtWork, Zenon
<1>4. QED
  BY <1>2, <1>3, Zenon

LEMMA GapStep ==
    ASSUME RoutingInv, RoutingConstants, [Next]_vars
    PROVE  OpensNoGap
<1>1. CASE kernel' = kernel
  BY <1>1, NoCommand, Zenon
<1>2. CASE kernel' # kernel
  <2>1. CASE Environment
    <3>1. changes' = changes + 1
      BY <2>1 DEF Environment, Provider, ProviderRule, ProviderDefault, ProviderForeign,
         ProviderDown, ProviderFlush, WireGuardLink, DefaultRoute, SpecificRoute, SavePrefixes,
         ConfigureWireGuard, Change
    <3>2. changes \in Nat
      BY DEF RoutingInv, Typed, RoutingConstants
    <3>3. QED
      BY <3>1, <3>2 DEF OpensNoGap
  <2>2. ASSUME NEW p \in Procs, Work(p) PROVE OpensNoGap
    BY <1>2, <2>2, MainOpensNoGap, MirrorOpensNoGap, RulesOpenNoGap, Zenon
       DEF Work, ReadRules, ReadMain, PlanMain, ReadDirect, ReadTables, Mirrored, VerifyTables,
           VerifyRoutes
  <2>3. ASSUME NEW p \in Procs, Reconcile(p) \/ PrepareTransition(p) \/ Fail(p) PROVE FALSE
    BY <1>2, <2>3, Zenon DEF Reconcile, PrepareTransition, Begin, Fail
  <2>4. QED
    BY <1>2, <2>1, <2>2, <2>3, Zenon DEF Next, vars
<1>3. QED
  BY <1>1, <1>2, Zenon

-----------------------------------------------------------------------------
\* Types, and the lock: only the process that holds it is at work.
THEOREM TypeCorrect ==
    ASSUME RoutingConstants
    PROVE  Spec => []TypeOK
<1>1. Init => RoutingInv
  BY InitHolds, Zenon
<1>2. RoutingInv /\ [Next]_vars => RoutingInv'
  BY InvariantStep, Zenon
<1>3. RoutingInv => TypeOK
  <2>1. SUFFICES ASSUME RoutingInv PROVE TypeOK
    BY Zenon
  <2>2. kernel \in [gateway: BOOLEAN, specific: BOOLEAN, wg: BOOLEAN,
                    rule: {None, 0, 5000, 20000}, default: BOOLEAN,
                    foreign: {None, "eth", "tunnel"},
                    main: [Networks -> {None, "gateway", "unreachable"}],
                    table: [Networks -> Paths \cup {None}],
                    rules: SUBSET ({0, Lowest, Base} \X Networks)]
    BY <2>1 DEF RoutingInv, Typed, Kernels, RuleAt, Foreigns, Mains, Routes, Rules
  <2>3. /\ settings \subseteq {"routed", "clients"} /\ cached \in BOOLEAN
        /\ lock \in Procs \cup {None} /\ sound \in {None, "prepared", "reconciled"}
        /\ changes \in 0..MaxChanges /\ failures \in 0..MaxFailures
    BY <2>1, Zenon DEF RoutingInv, Typed, Wanted
  <2>4. \A p \in Procs : IF lock = p THEN job[p] \in Jobs ELSE job[p] = None
    BY <2>1, Zenon DEF RoutingInv, Typed
  <2>5. QED
    BY <2>2, <2>3, <2>4 DEF TypeOK
<1>4. QED
  BY <1>1, <1>2, <1>3, PTL DEF Spec

\* services/management_routing.py: no command of a run whose reads are still true
\* sends a protected network through the provider; a complete run that nothing
\* has disturbed leaves every protected network on its path; and once a
\* transition is prepared the provider's rule and default route may come and go
\* without a gap.
THEOREM RoutesAreKept ==
    ASSUME RoutingConstants
    PROVE  Spec => RoutesStay
<1>1. Init => RoutingInv
  BY InitHolds, Zenon
<1>2. RoutingInv /\ [Next]_vars => RoutingInv'
  BY InvariantStep, Zenon
<1>3. RoutingInv => CompleteRunProtects /\ TransitionHolds
  <2>1. ASSUME RoutingInv PROVE CompleteRunProtects
    BY <2>1, Zenon DEF RoutingInv, Lasting
  <2>2. ASSUME RoutingInv, sound = "prepared", kernel.rule = 0 => cached, NEW n \in Kept
        PROVE  ~Leaks(n)
    <3>1. n \in Networks
      BY <2>2, Zenon DEF RoutingInv, Typed, Wanted, Kept, Configured, Networks
    <3>2. QED
      BY <2>2, <3>1, PreparedHolds, Zenon DEF RoutingInv, Lasting
  <2>3. QED
    BY <2>1, <2>2, Zenon DEF TransitionHolds
<1>4. RoutingInv /\ [Next]_vars => OpensNoGap
  BY GapStep, Zenon
<1>5. QED
  BY <1>1, <1>2, <1>3, <1>4, PTL DEF Spec, RoutesStay
==============================================================================
