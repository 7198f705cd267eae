-------------------------- MODULE CountryConnection -------------------------
(***************************************************************************)
(* Connecting to a country: main.py's _connect_provider_country with the   *)
(* choice of a server and the latency cache (services/vpn_selection.py)    *)
(* and the limit on restarts of the provider's daemon after a timeout      *)
(* (services/vpn_operations.py).                                           *)
(*                                                                         *)
(* The cache is read and written by the connection, by an administrator's  *)
(* measurement of a country and by every status poll, which starts one     *)
(* measurement of the connected server and shares it.  Servers are         *)
(* numbered in the order of the provider's catalogue.                      *)
(***************************************************************************)
EXTENDS Naturals, Sequences, FiniteSets, FiniteSetsExt

CONSTANTS
  Servers,     \* servers of the country, 1..n
  Probed,      \* measure_servers looks at the first five
  Latencies,   \* round trips a measurement can give
  Window,      \* RECOVERY_WINDOW
  Limit,       \* RECOVERY_LIMIT
  MaxTime,     \* bound: ticks of the clock
  None

VARIABLES
  now,
  cache,       \* vpn_latency_cache: server -> latency
  fresh,       \* servers whose row is younger than CACHE_TTL
  op,          \* the connect request that holds the claim
  survey,      \* servers an administrator's measurement waits for
  registered,  \* keys of _active_server_measurements
  measuring,   \* server -> measurements of it that run
  waiting,     \* servers whose measurement a poll waits for
  connected,   \* the server the provider is connected to
  recoveries,  \* _recoveries
  restarts     \* times at which the last restarts of the daemon were decided on

vars == <<now, cache, fresh, op, survey, registered, measuring, waiting, connected, recoveries,
          restarts>>

Init ==
  /\ now = 0
  /\ cache = [s \in Servers |-> None]
  /\ fresh = {}
  /\ op = None /\ survey = None
  /\ registered = {}
  /\ measuring = [s \in Servers |-> 0]
  /\ waiting = {}
  /\ connected = None
  /\ recoveries = <<>> /\ restarts = <<>>

-----------------------------------------------------------------------------
\* The first servers of what the provider offers.
Candidates(offered) == {s \in offered : Cardinality({r \in offered : r < s}) < Probed}

\* ORDER BY latency_ms IS NULL, latency_ms, and sorted(rows).
Best(results) ==
  LET reached == {s \in DOMAIN results : results[s] # None}
  IN {s \in reached : \A r \in reached : results[s] <= results[r]}

\* select_server: the best measured server, or the first one offered.
Selected(results, offered) ==
  IF Best(results) # {} THEN Best(results) ELSE {Min(offered)}

\* measure_latency: ping, else a TCP connection; None when neither answers.
Answers == Latencies \cup {None}

Measurements(set) == [set -> Answers]

\* server_latency: there is a row for the server that is young enough.
Known(s) == s \in fresh

\* _cached and the filter on what is offered: rows of other servers of the
\* country are left out, rows of offered ones that were not measured this time
\* are not.
Rows(offered) == [s \in {r \in offered : Known(r)} |-> cache[s]]

Stored(results) ==
  /\ cache' = [s \in Servers |-> IF s \in DOMAIN results THEN results[s] ELSE cache[s]]
  /\ fresh' = fresh \cup DOMAIN results

-----------------------------------------------------------------------------
(* The connect request. *)

Connect(offered) ==
  /\ op = None
  /\ op' = [pc |-> "select", offered |-> offered, server |-> None, retried |-> FALSE]
  /\ UNCHANGED <<now, cache, fresh, survey, registered, measuring, waiting, connected, recoveries,
                 restarts>>

Chosen(s) == op' = [op EXCEPT !.pc = "connect", !.server = s]

SelectCached ==
  /\ op # None /\ op.pc = "select"
  /\ Candidates(op.offered) \subseteq fresh
  /\ \E s \in Selected(Rows(op.offered), op.offered) : Chosen(s)
  /\ UNCHANGED <<now, cache, fresh, survey, registered, measuring, waiting, connected, recoveries,
                 restarts>>

SelectProbe ==
  /\ op # None /\ op.pc = "select"
  /\ ~(Candidates(op.offered) \subseteq fresh)
  /\ op' = [op EXCEPT !.pc = "probe"]
  /\ UNCHANGED <<now, cache, fresh, survey, registered, measuring, waiting, connected, recoveries,
                 restarts>>

SelectMeasured ==
  /\ op # None /\ op.pc = "probe"
  /\ \E results \in Measurements(Candidates(op.offered)) :
       /\ Stored(results)
       /\ \E s \in Selected(results, op.offered) : Chosen(s)
  /\ UNCHANGED <<now, survey, registered, measuring, waiting, connected, recoveries, restarts>>

\* connect_country: the provider connects to the server, or to nothing.
Outcomes == {op.server, None}

ConnectEnds(s) ==
  /\ op # None /\ op.pc = "connect"
  /\ s \in Outcomes
  /\ connected' = s
  /\ op' = None
  /\ UNCHANGED <<now, cache, fresh, survey, registered, measuring, waiting, recoveries, restarts>>

LastOf(seq, n) == IF Len(seq) > n THEN SubSeq(seq, Len(seq) - n + 1, Len(seq)) ELSE seq

\* Mutant: a restart exactly one window old is forgotten.
RecentStrict == SelectSeq(recoveries, LAMBDA t : t + Window > now)

\* recovery_allowed drops what is older than the window.
Recent == SelectSeq(recoveries, LAMBDA t : t + Window >= now)

\* record_recovery
Recorded == Append(Recent, now)

ConnectTimesOut ==
  /\ op # None /\ op.pc = "connect" /\ ~op.retried
  /\ connected' = None
  /\ IF Len(Recent) < Limit
     THEN /\ recoveries' = Recorded
          /\ restarts' = LastOf(Append(restarts, now), Limit + 1)
          /\ op' = [op EXCEPT !.pc = "recover", !.retried = TRUE]
     ELSE /\ recoveries' = Recent
          /\ op' = None
          /\ UNCHANGED restarts
  /\ UNCHANGED <<now, cache, fresh, survey, registered, measuring, waiting>>

\* recover_daemon restarts the daemon; the same server is tried once more when
\* it answers again.
Recover(ok) ==
  /\ op # None /\ op.pc = "recover"
  /\ op' = (IF ok THEN [op EXCEPT !.pc = "connect"] ELSE None)
  /\ UNCHANGED <<now, cache, fresh, survey, registered, measuring, waiting, connected, recoveries,
                 restarts>>

\* The request is cancelled; what it stored stays.
Cancel ==
  /\ op # None
  /\ op' = None
  /\ connected' \in {connected, None}
  /\ UNCHANGED <<now, cache, fresh, survey, registered, measuring, waiting, recoveries, restarts>>

Disconnected ==
  /\ op = None /\ connected # None
  /\ connected' = None
  /\ UNCHANGED <<now, cache, fresh, op, survey, registered, measuring, waiting, recoveries, restarts>>

-----------------------------------------------------------------------------
(* An administrator measures a country: force skips the cache. *)

SurveyBegins(offered) ==
  /\ survey = None
  /\ survey' = Candidates(offered)
  /\ UNCHANGED <<now, cache, fresh, op, registered, measuring, waiting, connected, recoveries, restarts>>

SurveyEnds ==
  /\ survey # None
  /\ \E results \in Measurements(survey) : Stored(results)
  /\ survey' = None
  /\ UNCHANGED <<now, op, registered, measuring, waiting, connected, recoveries, restarts>>

-----------------------------------------------------------------------------
(* A status poll: ensure_active_server_latency. *)

\* The first poll that finds no fresh row starts the measurement, others join.
Poll(s) ==
  /\ s = connected
  /\ ~Known(s)
  /\ waiting' = waiting \cup {s}
  /\ measuring' = [measuring EXCEPT ![s] = IF s \in registered THEN @ ELSE @ + 1]
  /\ registered' = registered \cup {s}
  /\ UNCHANGED <<now, cache, fresh, op, survey, connected, recoveries, restarts>>

\* A poll that is cancelled leaves the shielded measurement running.
PollCancelled(s) ==
  /\ s \in waiting
  /\ waiting' = waiting \ {s}
  /\ UNCHANGED <<now, cache, fresh, op, survey, registered, measuring, connected, recoveries, restarts>>

MeasurementEnds(s) ==
  /\ measuring[s] > 0
  /\ measuring' = [measuring EXCEPT ![s] = @ - 1]
  /\ \E results \in Measurements({s}) : Stored(results)
  /\ registered' = registered \ {s}
  /\ waiting' = waiting \ {s}
  /\ UNCHANGED <<now, op, survey, connected, recoveries, restarts>>

\* A row grows old, and is not read again.
Expire(s) ==
  /\ s \in fresh
  /\ fresh' = fresh \ {s} /\ cache' = [cache EXCEPT ![s] = None]
  /\ UNCHANGED <<now, op, survey, registered, measuring, waiting, connected, recoveries,
                 restarts>>

Tick ==
  /\ now < MaxTime
  /\ now' = now + 1
  /\ UNCHANGED <<cache, fresh, op, survey, registered, measuring, waiting, connected, recoveries,
                 restarts>>

\* servers: what the provider's catalogue lists for the country just now.
Offers == SUBSET Servers \ {{}}

\* recover_daemon: the daemon answers again, or not.
Recovered == BOOLEAN

Request ==
  \/ \E offered \in Offers : Connect(offered)
  \/ SelectCached
  \/ SelectProbe
  \/ SelectMeasured
  \/ \E s \in Servers \cup {None} : ConnectEnds(s)
  \/ ConnectTimesOut
  \/ \E ok \in Recovered : Recover(ok)
  \/ Cancel

Measure ==
  \/ \E offered \in Offers : SurveyBegins(offered)
  \/ SurveyEnds
  \/ \E s \in Servers : Poll(s)
  \/ \E s \in Servers : PollCancelled(s)
  \/ \E s \in Servers : MeasurementEnds(s)
  \/ \E s \in Servers : Expire(s)

Next ==
  \/ Request
  \/ Measure
  \/ Disconnected
  \/ Tick

Spec == Init /\ [][Next]_vars

-----------------------------------------------------------------------------
TypeOK ==
  /\ now \in 0..MaxTime
  /\ cache \in [Servers -> Latencies \cup {None}]
  /\ op # None => op.pc \in {"select", "probe", "connect", "recover"}
  /\ registered \subseteq Servers
  /\ connected \in Servers \cup {None}

\* A server that polls ask about is measured once at a time, also when the poll
\* that started the measurement has gone.
SingleProbe == \A s \in Servers : measuring[s] <= 1

\* The daemon is not restarted more often than RECOVERY_LIMIT within
\* RECOVERY_WINDOW, whatever requests time out or are cancelled.
RecoveryLimited == Len(restarts) > Limit => restarts[Limit + 1] > restarts[1] + Window

\* A request connects to a server that the provider offered it.
ChosenIsOffered == op # None /\ op.server # None => op.server \in op.offered

\* A server without an answer is chosen only when no other offered server has a
\* fresh latency in the cache.
ChoosesAnswering ==
  op # None /\ op' # None /\ op.server = None /\ op'.server # None
    => \/ cache'[op'.server] # None
       \/ \A s \in Candidates(op.offered) : cache'[s] = None
=============================================================================
