------------------------ MODULE ConnectionDiagnostics ------------------------
(***************************************************************************)
(* Diagnostic runs and the speed test (services/connection_diagnostics.py, *)
(* container_observation.py and their routes in main.py).  A run is an     *)
(* object in a bounded table that its own task fills in, probe by probe,   *)
(* while the host changes and further runs push it out of the table.       *)
(***************************************************************************)
EXTENDS Naturals, Sequences

CONSTANTS
  Probes,   \* the probes of a run, of PROBE_DEFINITIONS
  MaxRuns,  \* MAX_RUNS, scaled
  MaxStarts, \* bound: runs started
  Callers,  \* browser tabs that ask for a speed test
  MaxChanges \* bound: changes of the host

VARIABLES
  kind,      \* "native" or "container"
  host,      \* what the probes find: the tunnel, the way to the internet
  run,       \* run id -> its object: the probes' states, and the task that fills it
  table,     \* _runs: the ids in the order they were inserted
  test,      \* caller -> where its speed test is
  busy,      \* _speedtest_action_lock is held
  changes

vars == <<kind, host, run, table, test, busy, changes>>

Ids == 1..MaxStarts
Terminal == {"passed", "warning", "failed"}
Fresh == [p \in Probes |-> "pending"]

Init ==
  /\ kind \in {"native", "container"}
  /\ host \in [tunnel: {TRUE}, wan: {TRUE}]
  /\ run = [i \in Ids |-> [task |-> "none", connected |-> FALSE, probes |-> Fresh]]
  /\ table = <<>>
  /\ test = [c \in Callers |-> "idle"]
  /\ busy = FALSE
  /\ changes = 0

HostChanges ==
  /\ changes < MaxChanges /\ changes' = changes + 1
  /\ \/ host' = [host EXCEPT !.tunnel = ~@]
     \/ host' = [host EXCEPT !.wan = ~@]
  /\ UNCHANGED <<kind, run, table, test, busy>>

-----------------------------------------------------------------------------
(* The probes.  A missing tool or an odd answer is a warning; an exception is *)
(* a failure.                                                                 *)

NetworkProbe == IF host.wan THEN {"passed", "warning"} ELSE {"warning"}

InterfaceProbe(connected) == IF connected /\ host.tunnel THEN {"passed", "warning"}
                             ELSE IF connected THEN {"warning"} ELSE {}

\* The age of the last handshake decides between passed and warning.
HandshakeProbe(connected) == IF connected /\ host.tunnel THEN {"passed", "warning"}
                             ELSE IF connected THEN {"warning"} ELSE {}

RouteProbe(connected) == IF connected /\ host.tunnel THEN {"passed", "warning"}
                         ELSE IF connected /\ host.wan THEN {"warning"} ELSE {}

DnsProbe == IF host.wan THEN {"passed", "warning"} ELSE {"warning"}
PingProbe == IF host.wan THEN {"passed", "warning"} ELSE {"warning"}
AddressProbe == IF host.wan THEN {"passed", "warning"} ELSE {"warning"}

Outcomes(p, connected) ==
  {"failed"} \union
  CASE p = "exitlane_network" -> NetworkProbe
    [] p = "vpn_interface" -> InterfaceProbe(connected)
    [] p = "vpn_handshake" -> HandshakeProbe(connected)
    [] p = "vpn_route" -> RouteProbe(connected)
    [] p = "dns_resolution" -> DnsProbe
    [] p = "internet_reachability" -> PingProbe
    [] p = "public_ip" -> AddressProbe

\* Mutant: a verdict is given as soon as a probe has one.
OverallAtOnce(probes) ==
  LET seen == {probes[p] : p \in Probes}
  IN  IF "failed" \in seen THEN "failed"
      ELSE IF "warning" \in seen THEN "warning"
      ELSE IF "running" \in seen THEN "running"
      ELSE IF "pending" \in seen THEN "pending" ELSE "passed"

Overall(probes) ==
  LET seen == {probes[p] : p \in Probes}
  IN  IF "running" \in seen THEN "running"
      ELSE IF "pending" \in seen THEN "pending"
      ELSE IF "failed" \in seen THEN "failed"
      ELSE IF "warning" \in seen THEN "warning" ELSE "passed"

-----------------------------------------------------------------------------
(* Runs. *)

\* start: the oldest runs leave the table, and their tasks go on.
Start ==
  LET i == CHOOSE j \in Ids : run[j].task = "none" /\ \A k \in Ids : k < j => run[k].task # "none"
      all == Append(table, i)
  IN  /\ \E j \in Ids : run[j].task = "none"
      /\ run' = [run EXCEPT ![i].task = "loading"]
      /\ table' = IF Len(all) > MaxRuns THEN Tail(all) ELSE all
      /\ UNCHANGED <<kind, host, test, busy, changes>>

\* _fresh_vpn_status: what the provider says of its tunnel; an error is a no.
Connected == {FALSE, host.tunnel}

\* _execute up to its probes: the provider's status, which may be unavailable.  A
\* run that left the table before its task began is not executed.
Execute(i) ==
  /\ kind = "native" /\ run[i].task = "loading"
  /\ \/ \E connected \in Connected :
          run' = [run EXCEPT ![i].task = "probing", ![i].connected = connected]
     \/ /\ i \notin {table[k] : k \in 1..Len(table)}
        /\ run' = [run EXCEPT ![i].task = "ended"]
  /\ UNCHANGED <<kind, host, table, test, busy, changes>>

ProbeStarts(i) ==
  /\ run[i].task = "probing"
  /\ \E p \in Probes :
       /\ run[i].probes[p] = "pending"
       /\ run' = [run EXCEPT ![i].probes[p] = "running"]
  /\ UNCHANGED <<kind, host, table, test, busy, changes>>

ProbeEnds(i) ==
  /\ run[i].task = "probing"
  /\ \E p \in Probes :
       /\ run[i].probes[p] = "running"
       /\ \E s \in Outcomes(p, run[i].connected) : run' = [run EXCEPT ![i].probes[p] = s]
  /\ UNCHANGED <<kind, host, table, test, busy, changes>>

Completes(i) ==
  /\ run[i].task = "probing"
  /\ \A p \in Probes : run[i].probes[p] \in Terminal
  /\ run' = [run EXCEPT ![i].task = "ended"]
  /\ UNCHANGED <<kind, host, table, test, busy, changes>>

\* connection_run: every probe is answered from the one status of the provider.
\* A status that fails in another way than a RuntimeError ends the task.
ContainerRun(i) ==
  /\ kind = "container" /\ run[i].task = "loading"
  /\ \/ \E connected \in Connected :
          run' = [run EXCEPT ![i].task = "ended",
                  ![i].probes = [p \in Probes |->
                     IF p = "public_ip" THEN "warning"
                     ELSE IF p = "exitlane_network" \/ connected THEN "passed" ELSE "failed"]]
     \/ run' = [run EXCEPT ![i].task = "ended"]
  /\ UNCHANGED <<kind, host, table, test, busy, changes>>

-----------------------------------------------------------------------------
(* The speed test. *)

\* The client is asked for its version first; what is missing is answered.
TestAsked(c) ==
  /\ test[c] = "idle"
  /\ test' = [test EXCEPT ![c] = "version"]
  /\ UNCHANGED <<kind, host, run, table, busy, changes>>

\* Without the client, the confirmations or the lock there is no test.
TestStarts(c) ==
  /\ test[c] = "version"
  /\ \/ test' = [test EXCEPT ![c] = "idle"] /\ UNCHANGED busy
     \/ ~busy /\ test' = [test EXCEPT ![c] = "running"] /\ busy' = TRUE
  /\ UNCHANGED <<kind, host, run, table, changes>>

\* The command ends, times out, or its request is cancelled.
TestEnds(c) ==
  /\ test[c] = "running"
  /\ test' = [test EXCEPT ![c] = "idle"]
  /\ busy' = FALSE
  /\ UNCHANGED <<kind, host, run, table, changes>>

Next ==
  \/ HostChanges \/ Start
  \/ \E i \in Ids :
       Execute(i) \/ ProbeStarts(i) \/ ProbeEnds(i) \/ Completes(i) \/ ContainerRun(i)
  \/ \E c \in Callers : TestAsked(c) \/ TestStarts(c) \/ TestEnds(c)

Spec == Init /\ [][Next]_vars

-----------------------------------------------------------------------------
\* Every probe of every run has one of the STATUSES.
TypeOK ==
  /\ \A i \in Ids : \A p \in Probes :
       run[i].probes[p] \in Terminal \union {"pending", "running"}
  /\ Len(table) <= MaxRuns

\* A result that a browser has polled as final is final: it stops polling there,
\* so no probe may change the verdict of the run afterwards.
KeepsVerdicts ==
  \A i \in Ids : Overall(run[i].probes) \in Terminal => Overall(run[i].probes)' = Overall(run[i].probes)

\* The run started last can be polled, whatever the older runs still do.
LatestListed ==
  \A i \in Ids :
    run[i].task # "none" /\ (\A j \in Ids : j > i => run[j].task = "none")
      => \E k \in 1..Len(table) : table[k] = i

\* At most one speed test uses the line.
OneSpeedTest == \A c, d \in Callers : test[c] = "running" /\ test[d] = "running" => c = d
=============================================================================
