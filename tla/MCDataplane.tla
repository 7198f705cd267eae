----------------------------- MODULE MCDataplane -----------------------------
(* What carries traffic: the peers of the ingress on one side, and on the     *)
(* other a direct provider's tunnel, by the container's policy table or the   *)
(* native host's routing, and the provider's own record that both obey; and   *)
(* the choice of a server, the sign-in and the diagnosis of a provider.       *)
(* They share no state that they could race on, so a behaviour moves the one  *)
(* its first state chooses, and a property is about the behaviours of its     *)
(* part: in the others the part rests in its first state.                     *)
EXTENDS WireGuardPeers, Sequences

CONSTANTS Tasks, Ingress, Accounts, Valid, Profiles, None

VARIABLES part,
          table, net, epoch, candidate, proof, committed, owned, link, alive, lock, task,
          granted, sealed,
          host, egress, armed,
          kind, call, disk, tunnel, rules, held, remote, gens, keys, faults, torn,
          clock, cache, fresh, selection, survey, registered, measuring, waiting, connected,
          recoveries, daemonRestarts,
          client, out, in, pc, prompt, sink, asked, result,
          runtime, found, run, listed, test, busy, changes

policyVars == <<table, net, epoch, candidate, proof, committed, owned, link, alive, lock,
                task, granted, sealed>>
egressVars == <<host, egress, armed>>
directVars == <<kind, call, disk, tunnel, rules, held, remote, gens, keys, faults, torn>>
countryVars == <<clock, cache, fresh, selection, survey, registered, measuring, waiting,
                 connected, recoveries, daemonRestarts>>
loginVars == <<client, out, in, pc, prompt, sink, asked, result>>
diagnosticVars == <<runtime, found, run, listed, test, busy, changes>>

Pia1 == [iface |-> "wg-pia", generation |-> 1, addr |-> "a"]
Pia2 == [iface |-> "wg-pia", generation |-> 2, addr |-> "b"]
Proton == [iface |-> "wg-proton", generation |-> 1, addr |-> "c"]
ProtonSame == [Proton EXCEPT !.addr = "a"]
Unusable == [Pia2 EXCEPT !.addr = None]

Container == INSTANCE ContainerPolicy WITH Configs <- {Pia1, Pia2, Proton},
    MaxSources <- 2, MaxEpoch <- 3
Native == INSTANCE ProviderEgress WITH op <- egress, Configs <- {Pia1, Pia2, ProtonSame, Unusable}
Direct == INSTANCE DirectProvider WITH op <- call, armed <- held,
    MaxGens <- 3, MaxKeys <- 2, MaxFaults <- 3
Country == INSTANCE CountryConnection WITH now <- clock, op <- selection,
    restarts <- daemonRestarts,
    Servers <- 1..2, Probed <- 1, Latencies <- {1}, Window <- 1, Limit <- 2, MaxTime <- 2
Login == INSTANCE TokenLogin
Diagnostics == INSTANCE ConnectionDiagnostics WITH kind <- runtime, host <- found,
    table <- listed, Probes <- {"vpn_route", "public_ip"}, MaxRuns <- 1, MaxStarts <- 2,
    Callers <- 1..2, MaxChanges <- 1

DataplaneInit ==
  /\ Init
  /\ part \in {"peers", "container", "native", "direct", "country", "login", "diagnostics"}
  /\ Container!Init /\ Native!Init /\ Direct!Init /\ Country!Init /\ Login!Init
  /\ Diagnostics!Init
  /\ part # "direct" => kind = "mullvad"
  /\ part # "native" => host.foreign = "none"
  /\ part # "diagnostics" => runtime = "native"

PeersStep == part = "peers"
  /\ UNCHANGED <<part, policyVars, egressVars, directVars, countryVars, loginVars,
                 diagnosticVars>>
  /\ Next
ContainerStep == part = "container"
  /\ UNCHANGED <<part, vars, egressVars, directVars, countryVars, loginVars, diagnosticVars>>
  /\ Container!Next
NativeStep == part = "native"
  /\ UNCHANGED <<part, vars, policyVars, directVars, countryVars, loginVars, diagnosticVars>>
  /\ Native!Next
DirectStep == part = "direct"
  /\ UNCHANGED <<part, vars, policyVars, egressVars, countryVars, loginVars, diagnosticVars>>
  /\ Direct!Next
CountryStep == part = "country"
  /\ UNCHANGED <<part, vars, policyVars, egressVars, directVars, loginVars, diagnosticVars>>
  /\ Country!Next
LoginStep == part = "login"
  /\ UNCHANGED <<part, vars, policyVars, egressVars, directVars, countryVars, diagnosticVars>>
  /\ Login!Next
DiagnosticStep == part = "diagnostics"
  /\ UNCHANGED <<part, vars, policyVars, egressVars, directVars, countryVars, loginVars>>
  /\ Diagnostics!Next

DataplaneNext ==
  \/ PeersStep \/ ContainerStep \/ NativeStep \/ DirectStep \/ CountryStep \/ LoginStep
  \/ DiagnosticStep

DataplaneSpec ==
  DataplaneInit /\ [][DataplaneNext]_<<part, vars, policyVars, egressVars, directVars, countryVars,
                                      loginVars, diagnosticVars>>

-----------------------------------------------------------------------------
\* The state of each part has the shape its module gives it: the peers, the container
\* policy, the native routing rules, the provider's stored record, the choice of a server, the
\* sign-in and the diagnostic runs.
PartsTypeOK ==
  /\ part = "peers" => TypeOK
  /\ part = "container" => Container!TypeOK
  /\ part = "native" => Native!TypeOK
  /\ part = "direct" => Direct!TypeOK
  /\ part = "country" => Country!TypeOK
  /\ part = "login" => Login!TypeOK
  /\ part = "diagnostics" => Diagnostics!TypeOK

\* container_egress, container_runtime: forwarding is open only for the proven candidate of the
\* current epoch, what observe reports as connected is forwarded, and an interface that is up
\* has its address guarded, also after rewrites of the table that failed and could not be undone.
PolicyIsCurrent ==
  part = "container" =>
    Container!ForwardingIsCurrent /\ Container!ConnectedForwards /\ Container!SourceGuarded

\* container_egress: a probe that ends in a later epoch changes nothing, and a guarded source
\* stays guarded until the namespace ends.
PolicyStepsAreSafe == [][Container!LateProbe /\ Container!KeepsSources]_<<part, policyVars>>

\* provider_wireguard: at every command of a start, a rollback, a stop and a disarm, armed
\* ingress traffic stays off the host's own route, no rule leads into a table without its
\* unreachable default, an interface that is up has its source rule, a rolled back start leaves
\* the file it found and no tunnel, and another provider's rules are spared.
EgressStaysGuarded ==
  /\ [](part = "native" => /\ Native!ArmedNeverLeaks /\ Native!RuleHasGuard
                           /\ Native!SourceGuarded /\ Native!FailedStartRestores)
  /\ [][Native!SparesOthers]_<<part, egressVars>>

\* The direct providers: the stored row knows what an operation, its rollback, a lost answer or
\* a crash left: a running tunnel has a generation in it, or the row is flagged as uncertain,
\* and a device registered with the account has its key in it.
RowKnowsTunnel ==
  part = "direct" =>
    Direct!RunningHasIntent /\ Direct!UncertainIsFlagged /\ Direct!NoOrphanDevice

\* proton: the profile of a recorded generation exists, and no operation writes an older copy
\* of the profiles back over a newer one.
ProfilesKept ==
  /\ [](part = "direct" => Direct!ProfileInUse)
  /\ [][Direct!KeepsProfiles]_<<part, directVars>>

\* vpn_selection, vpn_operations: a server has at most one measurement running, what is
\* connected to was on offer for the country, a server that answers is preferred to one that
\* does not, and the daemon is restarted at most Limit times in a window.
ConnectionIsChosen ==
  /\ [](part = "country" =>
          Country!SingleProbe /\ Country!ChosenIsOffered /\ Country!RecoveryLimited)
  /\ [][Country!ChoosesAnswering]_<<part, countryVars>>

\* nordvpn: however typing, echo, the client's end and the deadline fall, the token is never
\* among the output that is kept and no client stays behind on the terminal.
LoginLeavesNothing == part = "login" => Login!TokenUnread /\ Login!NoClientLeft

\* connection_diagnostics: the verdict of a run does not change once it is final, the run
\* started last can be polled, and at most one speed test runs.
DiagnosesAreKept ==
  /\ [][Diagnostics!KeepsVerdicts]_<<part, diagnosticVars>>
  /\ [](part = "diagnostics" => Diagnostics!LatestListed /\ Diagnostics!OneSpeedTest)
=============================================================================
