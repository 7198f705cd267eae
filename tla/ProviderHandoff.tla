--------------------------- MODULE ProviderHandoff ---------------------------
(***************************************************************************)
(* Connecting, disconnecting and switching VPN providers (main.py,         *)
(* services/vpn_operations.py, the connect and disconnect of the direct    *)
(* providers), together with the killswitch monitor and the web killswitch *)
(* requests that run beside them in one event loop, and the restarts that  *)
(* can end them all.  Every await of a request is a step boundary.         *)
(***************************************************************************)
EXTENDS Killswitch, FiniteSets

CONSTANTS Direct,     \* providers whose tunnel ExitLane runs itself
          Web,        \* the killswitch requests users send
          Faults,     \* the kinds of fault that can happen
          MaxFaults   \* bound on the number of faults

FaultKinds == {"provider", "nft", "management", "drop", "cancel", "crash", "late",
               "nft_late"}

ASSUME ProviderAssumption ==
    /\ Direct \subseteq Provider
    /\ Provider \cap {"none", "closed", "down", "conflict", "transition", "switch"} = {}
ASSUME ClientAssumption == {"monitor", "web"} \subseteq Client
ASSUME HandoffFaultAssumption == Faults \subseteq FaultKinds /\ MaxFaults \in Nat
ASSUME WebAssumption == Web \subseteq {"enable", "disable"}

VARIABLES
    canonical,   \* the persisted vpn.provider_id
    claims,      \* connection id -> an active operation is registered on it
    req,         \* VPN request -> where it is and what it works on
    tunnel,      \* provider -> its tunnel is up
    generation,  \* direct provider -> an active generation is saved
    late,        \* providers whose client still works on a connect that timed out
    mon,         \* the killswitch monitor: its step, observation and previous facts
    web,         \* the killswitch web request: its step and observation
    faults       \* faults so far

netVars == <<tunnel, generation, late>>
vars == <<ksVars, canonical, claims, req, netVars, mon, web, faults>>

Requests == Client \ {"monitor", "web"}
Connection == Provider \cup {"switch"}

SwitchSteps == {"s_local", "s_adopt", "s_adopted", "s_arm", "s_disconnect", "s_wait", "s_ready",
                "s_connect", "s_observe", "s_commit", "s_complete"}
RollbackSteps == {"r_target", "r_wait", "r_source", "r_prove", "r_complete", "r_end"}
ConnectSteps == {"c_check", "c_arm", "c_dial", "c_complete", "c_after", "c_status"}
DisconnectSteps == {"d_check", "d_arm", "d_stop", "d_complete", "d_end"}
Causes == {"none", "reject", "http", "error", "cancel"}

Nobody == CHOOSE p \in Provider : TRUE
Idle == [pc |-> "idle", conn |-> "switch", source |-> Nobody, target |-> Nobody,
         armed |-> FALSE, cause |-> "none"]
NoRequest == [r \in Requests |-> Idle]

TypeOK ==
    /\ KsTypeOK
    /\ canonical \in Provider
    /\ claims \in [Connection -> BOOLEAN]
    /\ req \in [Requests -> [pc : {"idle"} \cup SwitchSteps \cup RollbackSteps
                                  \cup ConnectSteps \cup DisconnectSteps,
                             conn : Connection, source : Provider, target : Provider,
                             armed : BOOLEAN, cause : Causes]]
    /\ tunnel \in [Provider -> BOOLEAN] /\ generation \in [Direct -> BOOLEAN]
    /\ late \subseteq Provider \ Direct
    /\ mon \in [pc : {"sleep", "facts", "wait"}, seen : Facts, previous : Facts \cup {"none"}]
    /\ web \in [pc : {"idle", "facts", "wait"}, seen : Facts]
    /\ faults \in 0..MaxFaults

Init == /\ KsInit
        /\ canonical \in Provider
        /\ claims = [c \in Connection |-> FALSE]
        /\ req = NoRequest
        /\ tunnel = [p \in Provider |-> FALSE] /\ generation = [p \in Direct |-> FALSE]
        /\ late = {}
        /\ mon = [pc |-> "sleep", seen |-> "down", previous |-> "none"]
        /\ web = [pc |-> "idle", seen |-> "down"] /\ faults = 0
----------------------------------------------------------------------------
Fault(kind) == kind \in Faults /\ faults < MaxFaults /\ faults' = faults + 1
NoFault == UNCHANGED faults

\* _exclusive_provider_facts and the active provider's network_facts.
ExclusiveFacts ==
    LET up == {p \in Provider : tunnel[p]}
    IN  IF up \subseteq {canonical}
        THEN IF canonical \in up THEN canonical ELSE "down"
        ELSE "conflict"
NetworkFacts(p) == IF tunnel[p] THEN p ELSE "down"

\* What a provider says of its own tunnel: its daemon or kernel state alone, and
\* its full status.
LocalStatus(p) == tunnel[p]
Status(p) == tunnel[p]

At(r, pc) == req[r].pc = pc
Goto(r, pc) == req' = [req EXCEPT ![r].pc = pc]

Up(p) == tunnel' = [tunnel EXCEPT ![p] = TRUE]
Down(p) == tunnel' = [tunnel EXCEPT ![p] = FALSE]
Saved(p, active) == generation' = IF p \in Direct THEN [generation EXCEPT ![p] = active]
                                  ELSE generation

\* vpn_operations.begin: one active operation over all providers and the switch.
Begin(r, conn, pc, source, target) ==
    /\ At(r, "idle") /\ \A c \in Connection : ~claims[c]
    /\ claims' = [claims EXCEPT ![conn] = TRUE]
    /\ req' = [req EXCEPT ![r] = [pc |-> pc, conn |-> conn, source |-> source,
                                  target |-> target, armed |-> FALSE, cause |-> "none"]]
    /\ NoFault /\ UNCHANGED <<ksVars, canonical, netVars, mon, web>>

\* vpn_operations.finish and the response, and a response without finish.
Finish(r) == /\ claims' = [claims EXCEPT ![req[r].conn] = FALSE]
             /\ req' = [req EXCEPT ![r] = Idle]
Abort(r) == UNCHANGED claims /\ req' = [req EXCEPT ![r] = Idle]

\* _reconcile_management_routes_or_503 before finish, inside an except clause.
FinishReconciled(r) == \/ NoFault /\ Finish(r)
                       \/ Fault("management") /\ Abort(r)
\* The same call inside the try block: its 503 is handled there, and finished.
FinishChecked(r) == (NoFault \/ Fault("management")) /\ Finish(r)

RollBack(r, cause) ==
    /\ req' = [req EXCEPT ![r].pc = "r_target", ![r].cause = cause]
    /\ UNCHANGED claims
----------------------------------------------------------------------------
(* activate_vpn_provider *)

Switch(r, t) == Begin(r, "switch", "s_local", canonical, t)

\* What a local, and a full status of a provider report against its activation:
\* not installed, its daemon or status unavailable, not signed in.
LocalBlockers == Fault("provider")
Blockers == Fault("provider")

\* The network-independent preflight.
SwitchLocal(r) ==
    LET s == req[r].source  t == req[r].target  up == {p \in Provider : tunnel[p]} IN
    /\ At(r, "s_local") /\ UNCHANGED <<canonical, netVars, mon, web>>
    /\ \/ /\ \/ Fault("management") \/ LocalBlockers
             \/ NoFault /\ (s = t \/ ~(up \subseteq {s}))
          /\ Finish(r) /\ UNCHANGED ksVars
       \/ /\ NoFault /\ s # t /\ up = {}
          /\ Goto(r, "s_adopt") /\ UNCHANGED <<claims, ksVars>>
       \/ /\ NoFault /\ s # t /\ up = {s}
          /\ Goto(r, "s_arm") /\ Request(r, "arm", "transition") /\ UNCHANGED claims

\* The source is not connected: the target becomes canonical at once.
SwitchAdopt(r) ==
    /\ At(r, "s_adopt") /\ UNCHANGED <<netVars, mon, web>>
    /\ \/ Blockers /\ Finish(r) /\ UNCHANGED <<canonical, ksVars>>
       \/ /\ NoFault /\ canonical' = req[r].target
          /\ Goto(r, "s_adopted") /\ UNCHANGED claims
          /\ IF configured THEN Request(r, "reconcile", NetworkFacts(req[r].target))
                           ELSE UNCHANGED ksVars

SwitchAdopted(r) ==
    /\ At(r, "s_adopted") /\ Take(r) /\ FinishChecked(r)
    /\ UNCHANGED <<canonical, netVars, mon, web>>

SwitchArmed(r) ==
    /\ At(r, "s_arm") /\ Take(r) /\ UNCHANGED <<canonical, netVars, mon, web>>
    /\ \/ /\ reply[r] = "ok" /\ NoFault /\ UNCHANGED claims
          /\ req' = [req EXCEPT ![r].pc = "s_disconnect", ![r].armed = TRUE]
       \/ reply[r] = "error" /\ FinishReconciled(r)

SourceDisconnect(r) ==
    LET s == req[r].source IN
    /\ At(r, "s_disconnect") /\ UNCHANGED <<ksVars, canonical, claims, mon, web>>
    /\ \/ /\ NoFault /\ Down(s) /\ Saved(s, FALSE) /\ late' = late \ {s}
          /\ Goto(r, "s_wait")
       \/ /\ Fault("provider") /\ (Down(s) \/ UNCHANGED tunnel)
          /\ UNCHANGED <<generation, late>>
          /\ Goto(r, "s_wait") \/ RollBack(r, "reject")

\* The source must be seen disconnected.
SourceWait(r) ==
    /\ At(r, "s_wait") /\ UNCHANGED <<ksVars, canonical, claims, netVars, mon, web>>
    /\ \/ NoFault /\ ~LocalStatus(req[r].source) /\ Goto(r, "s_ready")
       \/ NoFault /\ LocalStatus(req[r].source) /\ RollBack(r, "reject")
       \/ Fault("provider") /\ RollBack(r, "reject")

\* _target_activation_readiness and prepare_activation.
TargetReady(r) ==
    /\ At(r, "s_ready") /\ UNCHANGED <<ksVars, canonical, claims, netVars, mon, web>>
    /\ \/ NoFault /\ ~Status(req[r].target) /\ Goto(r, "s_connect")
       \/ NoFault /\ Status(req[r].target) /\ RollBack(r, "error")
       \/ Blockers /\ RollBack(r, "error")

\* A connect that does not succeed: a direct provider restores its saved
\* generation or stops its interface; a client may have connected all the same,
\* or connect after its command timed out.
Undone(p) ==
    \/ p \in Direct /\ generation[p] /\ Up(p) /\ UNCHANGED <<generation, late>>
    \/ p \in Direct /\ Down(p) /\ Saved(p, FALSE) /\ UNCHANGED late
    \/ p \notin Direct /\ (Up(p) \/ Down(p)) /\ UNCHANGED <<generation, late>>
    \/ /\ p \notin Direct /\ "late" \in Faults /\ Down(p)
       /\ late' = late \cup {p} /\ UNCHANGED generation

Connected(p) == Up(p) /\ Saved(p, TRUE) /\ late' = late \ {p}
Disconnected(p) == Down(p) /\ Saved(p, FALSE) /\ late' = late \ {p}

\* _run_with_management_routing around the target's connect.
TargetConnect(r) ==
    LET t == req[r].target IN
    /\ At(r, "s_connect") /\ UNCHANGED <<ksVars, canonical, claims, mon, web>>
    /\ \/ NoFault /\ Connected(t) /\ Goto(r, "s_observe")
       \/ Fault("provider") /\ Undone(t) /\ (Goto(r, "s_observe") \/ RollBack(r, "error"))
       \/ Fault("management") /\ UNCHANGED netVars /\ RollBack(r, "http")
       \/ Fault("management") /\ Disconnected(t) /\ RollBack(r, "http")

\* _observe_target_after_connect and network_facts.
TargetObserve(r) ==
    /\ At(r, "s_observe") /\ UNCHANGED <<ksVars, canonical, claims, netVars, mon, web>>
    /\ \/ NoFault /\ Status(req[r].target) /\ Goto(r, "s_commit")
       \/ NoFault /\ ~Status(req[r].target) /\ RollBack(r, "error")
       \/ Fault("provider") /\ RollBack(r, "error")

SwitchCommit(r) ==
    /\ At(r, "s_commit") /\ UNCHANGED <<claims, netVars, mon, web>>
    /\ \/ Fault("management") /\ RollBack(r, "http") /\ UNCHANGED <<canonical, ksVars>>
       \/ /\ NoFault /\ canonical' = req[r].target
          /\ Request(r, "complete", req[r].target) /\ Goto(r, "s_complete")

SwitchComplete(r) ==
    /\ At(r, "s_complete") /\ Take(r) /\ NoFault
    /\ UNCHANGED <<canonical, netVars, mon, web>>
    /\ IF reply[r] = "ok" THEN Finish(r) ELSE RollBack(r, "error")
----------------------------------------------------------------------------
(* _rollback_provider_switch, and what its caller does next *)

\* Mutant: the target is left connected.
BugRollTarget(r) ==
    LET t == req[r].target IN
    /\ At(r, "r_target") /\ UNCHANGED <<ksVars, claims, mon, web>>
    /\ \/ /\ NoFault /\ canonical' = req[r].source
          /\ Goto(r, "r_source") /\ UNCHANGED netVars
       \/ Fault("provider") /\ Goto(r, "r_end") /\ UNCHANGED <<netVars, canonical>>

RollTarget(r) ==
    LET t == req[r].target IN
    /\ At(r, "r_target") /\ UNCHANGED <<ksVars, claims, mon, web>>
    /\ \/ /\ NoFault /\ ~tunnel[t] /\ canonical' = req[r].source
          /\ Goto(r, "r_source") /\ UNCHANGED netVars
       \/ NoFault /\ tunnel[t] /\ Disconnected(t) /\ Goto(r, "r_wait") /\ UNCHANGED canonical
       \/ /\ Fault("provider") /\ UNCHANGED <<generation, late, canonical>>
          /\ \/ UNCHANGED tunnel /\ (Goto(r, "r_end") \/ Goto(r, "r_wait"))
             \/ Down(t) /\ (Goto(r, "r_end") \/ Goto(r, "r_wait"))

RollWait(r) ==
    /\ At(r, "r_wait") /\ UNCHANGED <<ksVars, claims, netVars, mon, web>> /\ NoFault
    /\ IF LocalStatus(req[r].target)
       THEN Goto(r, "r_end") /\ UNCHANGED canonical
       ELSE Goto(r, "r_source") /\ canonical' = req[r].source

RollSource(r) ==
    LET s == req[r].source IN
    /\ At(r, "r_source") /\ UNCHANGED <<ksVars, canonical, claims, mon, web>>
    /\ \/ NoFault /\ tunnel[s] /\ Goto(r, "r_prove") /\ UNCHANGED netVars
       \/ NoFault /\ ~tunnel[s] /\ Connected(s) /\ Goto(r, "r_prove")
       \/ Fault("provider") /\ ~tunnel[s] /\ Undone(s) /\ Goto(r, "r_end")
       \/ /\ Fault("management") /\ ~tunnel[s] /\ Goto(r, "r_end")
          /\ UNCHANGED netVars \/ Disconnected(s)

\* The source's facts and management routes, then the guard's completion.
RollProve(r) ==
    LET s == req[r].source IN
    /\ At(r, "r_prove") /\ UNCHANGED <<canonical, claims, netVars, mon, web>>
    /\ \/ NoFault /\ tunnel[s] /\ Request(r, "complete", s) /\ Goto(r, "r_complete")
       \/ NoFault /\ ~tunnel[s] /\ Goto(r, "r_end") /\ UNCHANGED ksVars
       \/ Fault("management") /\ tunnel[s] /\ Goto(r, "r_end") /\ UNCHANGED ksVars

RollComplete(r) ==
    /\ At(r, "r_complete") /\ Take(r) /\ NoFault
    /\ UNCHANGED <<canonical, claims, netVars, mon, web>>
    /\ req' = [req EXCEPT ![r].pc = "r_end", ![r].armed = (reply[r] # "ok")]

\* A failed rollback of a rejected switch raises and is tried once more.
RollEnd(r) ==
    /\ At(r, "r_end") /\ UNCHANGED <<ksVars, canonical, netVars, mon, web>>
    /\ CASE req[r].cause = "reject" /\ req[r].armed -> NoFault /\ RollBack(r, "error")
         [] req[r].cause = "reject" /\ ~req[r].armed -> FinishChecked(r)
         [] req[r].cause = "error" /\ ~req[r].armed -> FinishReconciled(r)
         [] OTHER -> NoFault /\ Finish(r)

\* The request's task is cancelled.  An except clause that is cancelled, or
\* whose management check fails, ends without vpn_operations.finish.
Cancel(r) ==
    /\ req[r].pc \in SwitchSteps \cup (RollbackSteps \ {"r_end"})
    /\ Cancelled(r) /\ UNCHANGED <<canonical, netVars, mon, web>>
    /\ IF req[r].cause \notin {"none", "reject"} THEN Fault("cancel") /\ Abort(r)
       ELSE IF req[r].armed THEN Fault("cancel") /\ RollBack(r, "cancel")
       ELSE \/ Fault("cancel") /\ Finish(r)
            \/ Fault("cancel") /\ "management" \in Faults /\ Abort(r)
----------------------------------------------------------------------------
(* _connect_provider with the direct providers' connect.  Outside a switch a *)
(* direct provider arms and completes the transition itself.                 *)

Connect(r) == Begin(r, canonical, "c_check", canonical, canonical)

ConnectCheck(r) ==
    LET t == req[r].target IN
    /\ At(r, "c_check") /\ UNCHANGED <<canonical, netVars, mon, web>>
    /\ \/ /\ \/ Fault("provider") \/ Fault("management")
             \/ NoFault /\ \E p \in Provider \ {t} : tunnel[p]
          /\ Finish(r) /\ UNCHANGED ksVars
       \/ /\ NoFault /\ ~\E p \in Provider \ {t} : tunnel[p]
          /\ UNCHANGED claims
          /\ IF t \in Direct THEN Request(r, "arm", "transition") /\ Goto(r, "c_arm")
                             ELSE Goto(r, "c_dial") /\ UNCHANGED ksVars

ConnectArmed(r) ==
    /\ At(r, "c_arm") /\ Take(r) /\ NoFault
    /\ UNCHANGED <<canonical, claims, netVars, mon, web>>
    /\ Goto(r, IF reply[r] = "ok" THEN "c_dial" ELSE "c_after")

\* The guard is completed for a proven tunnel, new or restored.
ConnectDial(r) ==
    LET t == req[r].target IN
    /\ At(r, "c_dial") /\ UNCHANGED <<canonical, claims, mon, web>>
    /\ (NoFault /\ Connected(t)) \/ (Fault("provider") /\ Undone(t))
    /\ IF t \in Direct /\ tunnel'[t] THEN Request(r, "complete", t) /\ Goto(r, "c_complete")
                                     ELSE Goto(r, "c_after") /\ UNCHANGED ksVars

ConnectCompleted(r) ==
    /\ At(r, "c_complete") /\ Take(r) /\ NoFault /\ Goto(r, "c_after")
    /\ UNCHANGED <<canonical, claims, netVars, mon, web>>

\* Management routing is checked again; its failure disconnects the provider.
ConnectAfter(r) ==
    /\ At(r, "c_after") /\ UNCHANGED <<canonical, claims, netVars, mon, web>>
    /\ \/ NoFault /\ Goto(r, "c_status") /\ UNCHANGED ksVars
       \/ /\ Fault("management")
          /\ IF req[r].target \in Direct
             THEN Request(r, "arm", "transition") /\ Goto(r, "d_arm")
             ELSE Goto(r, "d_stop") /\ UNCHANGED ksVars

\* The last observations; cancelling the first one skips finish.
ConnectStatus(r) ==
    /\ At(r, "c_status") /\ UNCHANGED <<ksVars, canonical, netVars, mon, web>>
    /\ \/ NoFault /\ Finish(r)
       \/ Fault("cancel") /\ Abort(r)
----------------------------------------------------------------------------
(* _disconnect_provider with the direct providers' disconnect *)

Disconnect(r) == Begin(r, canonical, "d_check", canonical, canonical)

DisconnectCheck(r) ==
    /\ At(r, "d_check") /\ UNCHANGED <<canonical, netVars, mon, web>>
    /\ \/ Fault("provider") /\ Finish(r) /\ UNCHANGED ksVars
       \/ /\ NoFault /\ UNCHANGED claims
          /\ IF req[r].target \in Direct
             THEN Request(r, "arm", "transition") /\ Goto(r, "d_arm")
             ELSE Goto(r, "d_stop") /\ UNCHANGED ksVars

DisconnectArmed(r) ==
    /\ At(r, "d_arm") /\ Take(r) /\ NoFault
    /\ UNCHANGED <<canonical, claims, netVars, mon, web>>
    /\ Goto(r, IF reply[r] = "ok" THEN "d_stop" ELSE "d_end")

DisconnectStop(r) ==
    LET t == req[r].target IN
    /\ At(r, "d_stop") /\ UNCHANGED <<canonical, claims, mon, web>>
    /\ \/ /\ NoFault /\ Disconnected(t)
          /\ IF t \in Direct THEN Request(r, "complete", "down") /\ Goto(r, "d_complete")
                             ELSE Goto(r, "d_end") /\ UNCHANGED ksVars
       \/ /\ Fault("provider") /\ (Down(t) \/ UNCHANGED tunnel)
          /\ Goto(r, "d_end") /\ UNCHANGED <<ksVars, generation, late>>

DisconnectCompleted(r) ==
    /\ At(r, "d_complete") /\ Take(r) /\ NoFault /\ Goto(r, "d_end")
    /\ UNCHANGED <<canonical, claims, netVars, mon, web>>

DisconnectEnd(r) ==
    /\ At(r, "d_end") /\ NoFault /\ Finish(r)
    /\ UNCHANGED <<ksVars, canonical, netVars, mon, web>>
----------------------------------------------------------------------------
(* The killswitch monitor and the killswitch requests of the web interface *)

others == <<canonical, claims, req, netVars>>

\* Mutant: the monitor leaves an armed transition alone.
BugMonitorTick ==
    /\ mon.pc = "sleep" /\ NoFault /\ UNCHANGED <<others, web, ksVars>>
    /\ \/ /\ ~configured
          /\ mon' = [mon EXCEPT !.previous = "none"]
       \/ /\ configured
          /\ mon' = [mon EXCEPT !.pc = "facts", !.seen = ExclusiveFacts]

\* A tick of the monitor.  Without a transition it observes the providers first
\* and uses what it saw after another await.
MonitorTick ==
    /\ mon.pc = "sleep" /\ NoFault /\ UNCHANGED <<others, web>>
    /\ \/ /\ ~configured /\ ~transition
          /\ mon' = [mon EXCEPT !.previous = "none"] /\ UNCHANGED ksVars
       \/ /\ transition /\ Request("monitor", "reconcile", "transition")
          /\ mon' = [mon EXCEPT !.pc = "wait", !.seen = "transition"]
       \/ /\ configured /\ ~transition /\ UNCHANGED ksVars
          /\ mon' = [mon EXCEPT !.pc = "facts", !.seen = ExclusiveFacts]

MonitorApply ==
    /\ mon.pc = "facts" /\ NoFault /\ UNCHANGED <<others, web>>
    /\ IF mon.seen # mon.previous
       THEN Request("monitor", "reconcile", mon.seen) /\ mon' = [mon EXCEPT !.pc = "wait"]
       ELSE UNCHANGED ksVars /\ mon' = [mon EXCEPT !.pc = "sleep", !.seen = "down"]

MonitorDone ==
    /\ mon.pc = "wait" /\ Take("monitor") /\ NoFault /\ UNCHANGED <<others, web>>
    /\ mon' = [pc |-> "sleep", seen |-> "down",
               previous |-> IF reply["monitor"] = "ok" THEN mon.seen ELSE mon.previous]

\* Both routes refuse while the transition flag is set; disable looks at the
\* flag before it waits for the lock, enable before it observes the providers.
WebDisable == /\ web.pc = "idle" /\ "disable" \in Web /\ ~transition
              /\ Request("web", "disable", "down") /\ web' = [web EXCEPT !.pc = "wait"]
              /\ NoFault /\ UNCHANGED <<others, mon>>
WebEnable == /\ web.pc = "idle" /\ "enable" \in Web /\ ~transition
             /\ web' = [pc |-> "facts", seen |-> ExclusiveFacts]
             /\ NoFault /\ UNCHANGED <<ksVars, others, mon>>
WebEnableApply == /\ web.pc = "facts"
                  /\ Request("web", "enable", web.seen)
                  /\ web' = [pc |-> "wait", seen |-> "down"]
                  /\ NoFault /\ UNCHANGED <<others, mon>>
WebDone == /\ web.pc = "wait" /\ Take("web") /\ web' = [web EXCEPT !.pc = "idle"]
           /\ NoFault /\ UNCHANGED <<others, mon>>
----------------------------------------------------------------------------
(* The environment *)

\* A tunnel is lost, and a client connects after its command timed out.
TunnelLost(p) == /\ Fault("drop") /\ tunnel[p] /\ Down(p)
                 /\ UNCHANGED <<ksVars, canonical, claims, req, generation, late, mon, web>>
LateConnect(p) == /\ p \in late /\ Up(p) /\ late' = late \ {p} /\ NoFault
                  /\ UNCHANGED <<ksVars, canonical, claims, req, generation, mon, web>>

ServiceEnds == /\ claims' = [c \in Connection |-> FALSE] /\ req' = NoRequest
               /\ mon' = [pc |-> "sleep", seen |-> "down", previous |-> "none"]
               /\ web' = [pc |-> "idle", seen |-> "down"]
               /\ UNCHANGED canonical
Restart == Fault("crash") /\ KsRestart /\ ServiceEnds /\ UNCHANGED netVars
Reboot == /\ Fault("crash") /\ KsReboot /\ ServiceEnds
          /\ tunnel' = [p \in Provider |-> FALSE] /\ late' = {} /\ UNCHANGED generation

Lock == /\ \/ (Enter \/ Apply \/ Settle \/ Return) /\ NoFault
           \/ Fault("nft") /\ ApplyFails({table})
           \/ Fault("nft_late") /\ queue # <<>> /\ ApplyFails({Goal(Holder)})
        /\ UNCHANGED <<others, mon, web>>

Step(r) == \/ SwitchLocal(r) \/ SwitchAdopt(r) \/ SwitchAdopted(r) \/ SwitchArmed(r)
           \/ SourceDisconnect(r) \/ SourceWait(r) \/ TargetReady(r) \/ TargetConnect(r)
           \/ TargetObserve(r) \/ SwitchCommit(r) \/ SwitchComplete(r)
           \/ RollTarget(r) \/ RollWait(r) \/ RollSource(r) \/ RollProve(r)
           \/ RollComplete(r) \/ RollEnd(r)
           \/ ConnectCheck(r) \/ ConnectArmed(r) \/ ConnectDial(r) \/ ConnectCompleted(r)
           \/ ConnectAfter(r) \/ ConnectStatus(r)
           \/ DisconnectCheck(r) \/ DisconnectArmed(r) \/ DisconnectStop(r)
           \/ DisconnectCompleted(r) \/ DisconnectEnd(r)
Monitor == MonitorTick \/ MonitorApply \/ MonitorDone
WebRequest == WebEnableApply \/ WebDone

Next == \/ \E r \in Requests : \/ \E t \in Provider : Switch(r, t)
                               \/ Connect(r) \/ Disconnect(r) \/ Step(r) \/ Cancel(r)
        \/ Monitor \/ WebDisable \/ WebEnable \/ WebRequest \/ Lock
        \/ \E p \in Provider : TunnelLost(p) \/ LateConnect(p)
        \/ Restart \/ Reboot

Spec == Init /\ [][Next]_vars

\* The event loop runs every task that is ready; users need not send requests.
FairSpec == /\ Spec /\ WF_vars(Lock) /\ WF_vars(Monitor) /\ WF_vars(WebRequest)
            /\ \A r \in Requests : WF_vars(Step(r))
----------------------------------------------------------------------------
Guarded == transition /\ table = "closed"

\* The completion a request asked for has been applied.
Completing(r) == \/ /\ queue # <<>> /\ Holder.by = r /\ Holder.op = "complete"
                    /\ stage \in {"settle", "status"}
                 \/ ~Pending(r) /\ reply[r] = "ok"

\* While activate_vpn_provider holds the armed transition, from the arming to
\* the completion it asks for itself, the flag is set and forwarding is closed,
\* whatever the monitor and the web killswitch requests do meanwhile.
GuardedHandoff == \A r \in Requests : req[r].armed /\ ~Completing(r) => Guarded

\* Connect, disconnect, switch and rollback never leave the tunnels of two
\* providers up together.
OneEgress == \A p, q \in Provider : tunnel[p] /\ tunnel[q] => p = q

\* The canonical provider is replaced, by a switch or by its rollback, only
\* while its own tunnel is down.
SourceReleased == [][canonical' # canonical => ~tunnel[canonical]]_vars

\* vpn_operations.begin serialises the VPN requests: one runs at a time, also
\* after requests that ended without releasing their claim.
Serialised == \A r, q \in Requests : ~At(r, "idle") /\ ~At(q, "idle") => r = q

\* main, vpn_operations: one request runs at a time, also after requests that ended without
\* releasing their claim; the tunnels of two providers are never up together, and the canonical
\* provider is replaced, by a switch or its rollback, only while its own tunnel is down.
OneAtATime == [](Serialised /\ OneEgress) /\ SourceReleased

\* Rules closed for a transition are opened only by the operation that also
\* clears the flag: never by the monitor, by enabling, by a restart or by a
\* cancelled call.
OnlyCompletionReopens ==
    [][Guarded => \/ table' = "closed"
                  \/ queue # <<>> /\ Holder.op \in {"complete", "disable"}]_vars

\* A persisted transition whose table is not closed, after a failed arming or a
\* crash, is closed by the monitor.
GuardConverges == (transition /\ table # "closed") ~> (table = "closed" \/ ~transition)

\* A claim belongs to a running request: a request that ended has released it.
ClaimReleased == \A c \in Connection :
                     claims[c] => \E r \in Requests : ~At(r, "idle") /\ req[r].conn = c

\* Rules open to the canonical provider are not replaced by rules open to
\* another one.
CompletionKept == [][table = canonical /\ table' \in Provider => table' = table]_vars
=============================================================================
