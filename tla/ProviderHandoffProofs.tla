------------------------ MODULE ProviderHandoffProofs ------------------------
(***************************************************************************)
(* The handoff between providers, for any set of providers and requests    *)
(* and any number of faults: type correctness, VPN requests one at a time, *)
(* a closed table opened by nothing but a completion, and the guard held   *)
(* while a switch has the armed transition.                                *)
(***************************************************************************)
EXTENDS ProviderHandoff, TLAPS

\* Every running request holds its claim.
Claimed == \A r \in Requests : ~At(r, "idle") => claims[req[r].conn]

\* Only a switch is armed, and from the end of its arming on.
ArmedSteps == (SwitchSteps \cup RollbackSteps) \ {"s_local", "s_adopt", "s_adopted", "s_arm"}
SwitchArms == \A r \in Requests : /\ req[r].armed => req[r].pc \in ArmedSteps
                                  /\ req[r].pc \in ArmedSteps \ {"r_end"} => req[r].armed

----------------------------------------------------------------------------
(* Type correctness *)

USE ProviderAssumption, ClientAssumption, HandoffFaultAssumption, WebAssumption

\* What the killswitch's queue looks like after a call, an answer and a cancellation.
LEMMA AppendCall ==
    ASSUME NEW q \in Seq(Call), NEW c \in Call
    PROVE  /\ Append(q, c) \in Seq(Call) /\ Len(Append(q, c)) = Len(q) + 1
           /\ \A i \in 1..Len(q) : Append(q, c)[i] = q[i]
           /\ Append(q, c)[Len(q) + 1] = c
BY Z3

LEMMA TailCalls ==
    ASSUME NEW q \in Seq(Call), q # <<>>
    PROVE  /\ Tail(q) \in Seq(Call) /\ Len(Tail(q)) = Len(q) - 1 /\ Head(q) = q[1]
           /\ Head(q) \in Call /\ Len(q) \in Nat \ {0}
           /\ \A i \in 1..Len(Tail(q)) : Tail(q)[i] = q[i + 1]
BY Z3

LEMMA RemoveCall ==
    ASSUME NEW q \in Seq(Call), NEW i \in 1..Len(q)
    PROVE  SubSeq(q, 1, i - 1) \o SubSeq(q, i + 1, Len(q)) \in Seq(Call)
BY Z3

\* The operations of the killswitch keep its types.
LEMMA RequestType ==
    ASSUME KsTypeOK, NEW c \in Client, NEW op \in Operation, NEW facts \in Facts,
           Request(c, op, facts)
    PROVE  KsTypeOK'
<1>1. [by |-> c, op |-> op, facts |-> facts] \in Call
  BY Zenon DEF Call
<1>2. queue' \in Seq(Call)
  BY <1>1, AppendCall, Zenon DEF Request, KsTypeOK
<1> QED
  BY <1>2, Zenon DEF Request, KsTypeOK

LEMMA TakeType == ASSUME KsTypeOK, NEW c \in Client, Take(c) PROVE KsTypeOK'
BY Zenon DEF KsTypeOK, Take

LEMMA AnswerType ==
    ASSUME KsTypeOK, queue # <<>>, NEW result \in {"ok", "error"}, Answer(result)
    PROVE  queue' \in Seq(Call) /\ stage' = "entry" /\ reply' \in [Client -> {"none", "ok", "error"}]
<1>1. Holder.by \in Client /\ Tail(queue) \in Seq(Call)
  BY TailCalls, Zenon DEF KsTypeOK, Holder, Call
<1> QED
  BY <1>1, Zenon DEF Answer, KsTypeOK

LEMMA GoalType == ASSUME KsTypeOK, queue # <<>> PROVE Goal(Holder) \in Table
<1>1. Holder.op \in Operation /\ Holder.facts \in Facts
  BY TailCalls, Zenon DEF KsTypeOK, Holder, Call
<1> QED
  BY <1>1, Zenon DEF Goal, Ruleset, Operation, Facts, Table, KsTypeOK

\* The parts of the type invariant.
Steps == SwitchSteps \cup RollbackSteps \cup ConnectSteps \cup DisconnectSteps
State == [pc : {"idle"} \cup Steps, conn : Connection, source : Provider, target : Provider,
          armed : BOOLEAN, cause : Causes]
CtrlOK == claims \in [Connection -> BOOLEAN] /\ req \in [Requests -> State]
NetOK == /\ tunnel \in [Provider -> BOOLEAN] /\ generation \in [Direct -> BOOLEAN]
         /\ late \subseteq Provider \ Direct
TaskOK == /\ mon \in [pc : {"sleep", "facts", "wait"}, seen : Facts, previous : Facts \cup {"none"}]
          /\ web \in [pc : {"idle", "facts", "wait"}, seen : Facts]

LEMMA Parts == TypeOK => /\ KsTypeOK /\ CtrlOK /\ NetOK /\ TaskOK
                         /\ canonical \in Provider /\ faults \in 0..MaxFaults
BY Zenon DEF TypeOK, CtrlOK, NetOK, TaskOK, State, Steps

LEMMA PartsNext == /\ KsTypeOK' /\ CtrlOK' /\ NetOK' /\ TaskOK'
                   /\ canonical' \in Provider /\ faults' \in 0..MaxFaults
                   => TypeOK'
BY Zenon DEF TypeOK, CtrlOK, NetOK, TaskOK, State, Steps

LEMMA IdleType == ASSUME canonical \in Provider PROVE Idle \in State /\ "switch" \in Connection
<1>1. Nobody \in Provider
  BY Zenon DEF Nobody
<1> QED
  BY <1>1, Zenon DEF Idle, State, Connection, Causes

\* No step counts more faults than there may be.
LEMMA FaultType ==
    ASSUME faults \in 0..MaxFaults, UNCHANGED faults \/ (faults < MaxFaults /\ faults' = faults + 1)
    PROVE  faults' \in 0..MaxFaults
OBVIOUS

LEMMA LockType == ASSUME TypeOK, Lock PROVE TypeOK'
<1>0. KsTypeOK /\ CtrlOK /\ NetOK /\ TaskOK /\ canonical \in Provider /\ faults \in 0..MaxFaults
  BY Parts, Zenon
<1>1. ASSUME Enter PROVE KsTypeOK'
  BY <1>0, <1>1, Zenon DEF Enter, KsTypeOK
<1>2. ASSUME Apply PROVE KsTypeOK'
  <2>1. queue # <<>> /\ table' \in Table /\ configured' = configured /\ transition' = transition
    BY <1>0, <1>2, GoalType, Zenon DEF Apply, AtTable
  <2>2. CASE Answer("ok")
    BY <1>0, <2>1, <2>2, AnswerType, Zenon DEF KsTypeOK
  <2>3. CASE stage' = "settle" /\ UNCHANGED <<queue, reply>>
    BY <1>0, <2>1, <2>3, Zenon DEF KsTypeOK
  <2> QED
    BY <1>2, <2>2, <2>3, Zenon DEF Apply
<1>3. ASSUME NEW T \in SUBSET Table, ApplyFails(T) PROVE KsTypeOK'
  <2>1. queue # <<>> /\ table' \in Table /\ configured' = configured /\ transition' = transition
        /\ Answer("error")
    BY <1>3, Zenon DEF ApplyFails, AtTable
  <2> QED
    BY <1>0, <2>1, AnswerType, Zenon DEF KsTypeOK
<1>4. ASSUME Settle PROVE KsTypeOK'
  <2>1. queue # <<>> /\ table' = table
        /\ configured' \in BOOLEAN /\ transition' \in BOOLEAN
    BY <1>0, <1>4, Zenon DEF Settle, KsTypeOK
  <2>2. CASE Answer("ok")
    BY <1>0, <2>1, <2>2, AnswerType, Zenon DEF KsTypeOK
  <2>3. CASE stage' = "status" /\ UNCHANGED <<queue, reply>>
    BY <1>0, <2>1, <2>3, Zenon DEF KsTypeOK
  <2> QED
    BY <1>4, <2>2, <2>3, Zenon DEF Settle
<1>5. ASSUME Return PROVE KsTypeOK'
  BY <1>0, <1>5, AnswerType, Zenon DEF Return, KsTypeOK
<1>6. KsTypeOK'
  <2>1. {table} \in SUBSET Table /\ (queue # <<>> => {Goal(Holder)} \in SUBSET Table)
    BY <1>0, GoalType, Zenon DEF KsTypeOK
  <2> QED
    BY <1>1, <1>2, <1>3, <1>4, <1>5, <2>1, Zenon DEF Lock
<1>7. UNCHANGED <<others, mon, web>> /\ faults' \in 0..MaxFaults
  BY <1>0, FaultType, Zenon DEF Lock, Fault, NoFault
<1>8. CtrlOK' /\ NetOK' /\ TaskOK' /\ canonical' \in Provider
  BY <1>0, <1>7, Zenon DEF others, netVars, CtrlOK, NetOK, TaskOK
<1> QED
  BY <1>6, <1>7, <1>8, PartsNext, Zenon

\* What a request's step does to its own state and to the claims.
LEMMA ControlType ==
    ASSUME TypeOK, NEW r \in Requests,
           \/ \E pc \in Steps : Goto(r, pc) /\ UNCHANGED claims
           \/ Finish(r) \/ Abort(r) \/ (\E cause \in Causes : RollBack(r, cause))
           \/ \E a \in BOOLEAN, pc \in Steps :
                /\ req' = [req EXCEPT ![r].pc = pc, ![r].armed = a]
                /\ UNCHANGED claims
    PROVE  CtrlOK'
<1>0. CtrlOK /\ canonical \in Provider /\ req[r] \in State
  BY Parts, Zenon DEF CtrlOK
<1>1. ASSUME NEW s \in State, UNCHANGED claims, req' = [req EXCEPT ![r] = s] PROVE CtrlOK'
  BY <1>0, <1>1, Zenon DEF CtrlOK
<1>2. ASSUME NEW pc \in Steps, Goto(r, pc) /\ UNCHANGED claims PROVE CtrlOK'
  <2>1. [req[r] EXCEPT !.pc = pc] \in State
    BY <1>0, Zenon DEF State
  <2> QED
    BY <1>1, <1>2, <2>1, Zenon DEF Goto
<1>3. ASSUME Finish(r) PROVE CtrlOK'
  <2>1. req[r].conn \in Connection
    BY <1>0, Zenon DEF State
  <2> QED
    BY <1>0, <1>3, <2>1, IdleType, Zenon DEF Finish, CtrlOK
<1>4. ASSUME Abort(r) PROVE CtrlOK'
  BY <1>0, <1>1, <1>4, IdleType, Zenon DEF Abort
<1>5. ASSUME NEW cause \in Causes, RollBack(r, cause) PROVE CtrlOK'
  <2>1. [req[r] EXCEPT !.pc = "r_target", !.cause = cause] \in State
    BY <1>0, Zenon DEF State, Steps, RollbackSteps
  <2>2. req' = [req EXCEPT ![r] = [req[r] EXCEPT !.pc = "r_target", !.cause = cause]]
    BY <1>0, <1>5, Zenon DEF RollBack, CtrlOK, State
  <2> QED
    BY <1>1, <1>5, <2>1, <2>2, Zenon DEF RollBack
<1>6. ASSUME NEW a \in BOOLEAN, NEW pc \in Steps,
             req' = [req EXCEPT ![r].pc = pc, ![r].armed = a], UNCHANGED claims
      PROVE  CtrlOK'
  <2>1. [req[r] EXCEPT !.pc = pc, !.armed = a] \in State
    BY <1>0, Zenon DEF State
  <2>2. req' = [req EXCEPT ![r] = [req[r] EXCEPT !.pc = pc, !.armed = a]]
    BY <1>0, <1>6, Zenon DEF CtrlOK, State
  <2> QED
    BY <1>1, <1>6, <2>1, <2>2, Zenon
<1> QED
  BY <1>2, <1>3, <1>4, <1>5, <1>6, Zenon

\* What a provider's command does to the tunnels.
LEMMA NetType ==
    ASSUME NetOK, NEW p \in Provider,
           \/ Connected(p) \/ Disconnected(p) \/ Undone(p)
           \/ (Up(p) \/ Down(p)) /\ UNCHANGED <<generation, late>>
           \/ UNCHANGED netVars
    PROVE  NetOK'
BY Zenon DEF NetOK, Connected, Disconnected, Undone, Up, Down, Saved, netVars

\* A cancelled call leaves the queue, and a cancelled holder may have loaded its table.
LEMMA CancelledType == ASSUME KsTypeOK, NEW c \in Client, Cancelled(c) PROVE KsTypeOK'
<1>1. queue' \in Seq(Call)
  BY RemoveCall, ZenonT(60) DEF Without, Cancelled, KsTypeOK
<1>2. table' \in Table
  BY GoalType, Zenon DEF Cancelled, KsTypeOK
<1> QED
  BY <1>1, <1>2, Zenon DEF Cancelled, KsTypeOK

\* What every step of a request is made of: a call or a result of the killswitch, a change of the
\* request's own state, a command of one provider, and at most one fault.
KsPart(r) == \/ UNCHANGED ksVars \/ Take(r) \/ Cancelled(r)
             \/ \E op \in Operation, facts \in Facts : Request(r, op, facts)
CtrlPart(r) == \/ \E pc \in Steps : Goto(r, pc) /\ UNCHANGED claims
               \/ Finish(r) \/ Abort(r) \/ (\E cause \in Causes : RollBack(r, cause))
               \/ \E a \in BOOLEAN, pc \in Steps :
                    /\ req' = [req EXCEPT ![r].pc = pc, ![r].armed = a]
                    /\ UNCHANGED claims
NetPart == \E p \in Provider :
             \/ Connected(p) \/ Disconnected(p) \/ Undone(p)
             \/ (Up(p) \/ Down(p)) /\ UNCHANGED <<generation, late>>
             \/ UNCHANGED netVars
RestPart == /\ canonical' \in Provider /\ UNCHANGED <<mon, web>>
            /\ NoFault \/ \E k \in FaultKinds : Fault(k)

LEMMA StepParts ==
    ASSUME TypeOK, NEW r \in Requests, Step(r) \/ Cancel(r)
    PROVE  KsPart(r) /\ CtrlPart(r) /\ NetPart /\ RestPart
<1>0. /\ KsTypeOK /\ CtrlOK /\ NetOK /\ TaskOK /\ canonical \in Provider /\ faults \in 0..MaxFaults
      /\ r \in Client /\ req[r] \in State
  BY Parts, Zenon DEF CtrlOK, Requests
<1>1. req[r].source \in Provider /\ req[r].target \in Provider
  BY <1>0, Zenon DEF State
<1> USE DEF KsPart, CtrlPart, NetPart, RestPart, Steps, SwitchSteps, RollbackSteps, ConnectSteps,
            DisconnectSteps, Operation, Facts, NetworkFacts, Causes, FaultKinds
<1>2. CASE SwitchLocal(r)
  BY <1>0, <1>1, <1>2, Zenon DEF SwitchLocal, LocalBlockers
<1>3. CASE SwitchAdopt(r)
  BY <1>0, <1>1, <1>3, Zenon DEF SwitchAdopt, Blockers
<1>4. CASE SwitchAdopted(r)
  BY <1>0, <1>1, <1>4, Zenon DEF SwitchAdopted, FinishChecked
<1>5. CASE SwitchArmed(r)
  BY <1>0, <1>1, <1>5, Zenon DEF SwitchArmed, FinishReconciled
<1>6. CASE SourceDisconnect(r)
  BY <1>0, <1>1, <1>6, Zenon DEF SourceDisconnect, Disconnected, netVars
<1>7. CASE SourceWait(r)
  BY <1>0, <1>1, <1>7, Zenon DEF SourceWait
<1>8. CASE TargetReady(r)
  BY <1>0, <1>1, <1>8, Zenon DEF TargetReady, Blockers
<1>9. CASE TargetConnect(r)
  BY <1>0, <1>1, <1>9, Zenon DEF TargetConnect
<1>10. CASE TargetObserve(r)
  BY <1>0, <1>1, <1>10, Zenon DEF TargetObserve
<1>11. CASE SwitchCommit(r)
  BY <1>0, <1>1, <1>11, Zenon DEF SwitchCommit
<1>12. CASE SwitchComplete(r)
  BY <1>0, <1>1, <1>12, Zenon DEF SwitchComplete
<1>13. CASE RollTarget(r)
  BY <1>0, <1>1, <1>13, Zenon DEF RollTarget, netVars
<1>14. CASE RollWait(r)
  BY <1>0, <1>1, <1>14, Zenon DEF RollWait
<1>15. CASE RollSource(r)
  BY <1>0, <1>1, <1>15, Zenon DEF RollSource
<1>16. CASE RollProve(r)
  BY <1>0, <1>1, <1>16, Zenon DEF RollProve
<1>17. CASE RollComplete(r)
  BY <1>0, <1>1, <1>17, Zenon DEF RollComplete
<1>18. CASE RollEnd(r)
  BY <1>0, <1>1, <1>18, Zenon DEF RollEnd, FinishChecked, FinishReconciled
<1>19. CASE ConnectCheck(r)
  BY <1>0, <1>1, <1>19, Zenon DEF ConnectCheck
<1>20. CASE ConnectArmed(r)
  BY <1>0, <1>1, <1>20, Zenon DEF ConnectArmed
<1>21. CASE ConnectDial(r)
  BY <1>0, <1>1, <1>21, Zenon DEF ConnectDial
<1>22. CASE ConnectCompleted(r)
  BY <1>0, <1>1, <1>22, Zenon DEF ConnectCompleted
<1>23. CASE ConnectAfter(r)
  BY <1>0, <1>1, <1>23, Zenon DEF ConnectAfter
<1>24. CASE ConnectStatus(r)
  BY <1>0, <1>1, <1>24, Zenon DEF ConnectStatus
<1>25. CASE DisconnectCheck(r)
  BY <1>0, <1>1, <1>25, Zenon DEF DisconnectCheck
<1>26. CASE DisconnectArmed(r)
  BY <1>0, <1>1, <1>26, Zenon DEF DisconnectArmed
<1>27. CASE DisconnectStop(r)
  BY <1>0, <1>1, <1>27, Zenon DEF DisconnectStop, netVars
<1>28. CASE DisconnectCompleted(r)
  BY <1>0, <1>1, <1>28, Zenon DEF DisconnectCompleted
<1>29. CASE DisconnectEnd(r)
  BY <1>0, <1>1, <1>29, Zenon DEF DisconnectEnd
<1>30. CASE Cancel(r)
  BY <1>0, <1>1, <1>30, Zenon DEF Cancel
<1> QED
  BY <1>2, <1>3, <1>4, <1>5, <1>6, <1>7, <1>8, <1>9, <1>10, <1>11, <1>12, <1>13, <1>14, <1>15, <1>16, <1>17, <1>18, <1>19, <1>20, <1>21, <1>22, <1>23, <1>24, <1>25, <1>26, <1>27, <1>28, <1>29, <1>30, Zenon DEF Step

\* Every step keeps the types.
LEMMA TypeStep == ASSUME TypeOK, [Next]_vars PROVE TypeOK'
<1>0. /\ KsTypeOK /\ CtrlOK /\ NetOK /\ TaskOK /\ canonical \in Provider /\ faults \in 0..MaxFaults
      /\ {"monitor", "web"} \subseteq Client
  BY Parts, Zenon
<1>1. ASSUME NEW r \in Requests, Step(r) \/ Cancel(r) PROVE TypeOK'
  <2>1. KsPart(r) /\ CtrlPart(r) /\ NetPart /\ RestPart
    BY <1>1, StepParts, Zenon
  <2>2. KsTypeOK'
    BY <1>0, <2>1, RequestType, TakeType, CancelledType, Zenon DEF KsPart, Requests, KsTypeOK, ksVars
  <2>3. CtrlOK'
    BY <2>1, ControlType, Zenon DEF CtrlPart
  <2>4. NetOK'
    BY <1>0, <2>1, NetType, Zenon DEF NetPart
  <2>5. TaskOK' /\ canonical' \in Provider /\ faults' \in 0..MaxFaults
    BY <1>0, <2>1, FaultType, Zenon DEF RestPart, TaskOK, Fault, NoFault
  <2> QED
    BY <2>2, <2>3, <2>4, <2>5, PartsNext, Zenon
<1>2. ASSUME NEW r \in Requests, NEW conn \in Connection, NEW pc \in Steps,
             NEW source \in Provider, NEW target \in Provider, Begin(r, conn, pc, source, target)
      PROVE  TypeOK'
  <2>1. CtrlOK'
    BY <1>0, <1>2, Zenon DEF CtrlOK, Begin, State, Causes
  <2>2. KsTypeOK' /\ NetOK' /\ TaskOK' /\ canonical' \in Provider /\ faults' \in 0..MaxFaults
    BY <1>0, <1>2, Zenon DEF Begin, NoFault, ksVars, netVars, KsTypeOK, NetOK, TaskOK
  <2> QED
    BY <2>1, <2>2, PartsNext, Zenon
<1>3. ASSUME NEW r \in Requests, (\E t \in Provider : Switch(r, t)) \/ Connect(r) \/ Disconnect(r)
      PROVE  TypeOK'
  BY <1>0, <1>2, <1>3, Zenon DEF Switch, Connect, Disconnect, Connection, Steps, SwitchSteps,
     ConnectSteps, DisconnectSteps
<1>4. ExclusiveFacts \in Facts
  BY <1>0, Zenon DEF ExclusiveFacts, Facts
<1>5. CASE Monitor \/ WebRequest \/ WebDisable \/ WebEnable
  <2>1. CtrlOK' /\ NetOK' /\ canonical' \in Provider /\ faults' \in 0..MaxFaults
    BY <1>0, <1>5, Zenon DEF Monitor, WebRequest, WebDisable, WebEnable, MonitorTick, MonitorApply,
       MonitorDone, WebEnableApply, WebDone, others, netVars, CtrlOK, NetOK, NoFault
  <2>2. KsTypeOK'
    BY <1>0, <1>5, RequestType, TakeType, Zenon
       DEF Monitor, WebRequest, WebDisable, WebEnable, MonitorTick, MonitorApply,
           MonitorDone, WebEnableApply, WebDone, Operation, Facts, TaskOK, ksVars, KsTypeOK
  <2>3. CASE Monitor
    <3>1. UNCHANGED web
      BY <2>3, Zenon DEF Monitor, MonitorTick, MonitorApply, MonitorDone
    <3>2. mon.seen \in Facts /\ mon.previous \in Facts \cup {"none"} /\ {"down", "transition"} \subseteq Facts
      BY <1>0, Zenon DEF TaskOK, Facts
    <3>3. mon' \in [pc : {"sleep", "facts", "wait"}, seen : Facts, previous : Facts \cup {"none"}]
      <4>1. CASE MonitorTick
        BY <1>0, <1>4, <3>2, <4>1, Zenon DEF MonitorTick, TaskOK
      <4>2. CASE MonitorApply
        BY <1>0, <3>2, <4>2, Zenon DEF MonitorApply, TaskOK
      <4>3. CASE MonitorDone
        BY <3>2, <4>3, Zenon DEF MonitorDone
      <4> QED
        BY <2>3, <4>1, <4>2, <4>3, Zenon DEF Monitor
    <3> QED
      BY <1>0, <2>1, <2>2, <3>1, <3>3, PartsNext, Zenon DEF TaskOK
  <2>4. CASE WebRequest \/ WebDisable \/ WebEnable
    <3>1. UNCHANGED mon
      BY <2>4, Zenon DEF WebRequest, WebDisable, WebEnable, WebEnableApply, WebDone
    <3>2. web' \in [pc : {"idle", "facts", "wait"}, seen : Facts]
      BY <1>0, <1>4, <2>4 DEF WebRequest, WebDisable, WebEnable, WebEnableApply, WebDone, TaskOK, Facts
    <3> QED
      BY <1>0, <2>1, <2>2, <3>1, <3>2, PartsNext, Zenon DEF TaskOK
  <2> QED
    BY <1>5, <2>3, <2>4, Zenon
<1>6. CASE \E p \in Provider : TunnelLost(p) \/ LateConnect(p)
  <2>1. KsTypeOK' /\ CtrlOK' /\ TaskOK' /\ canonical' \in Provider /\ faults' \in 0..MaxFaults
    BY <1>0, <1>6, FaultType, Zenon DEF TunnelLost, LateConnect, Fault, NoFault, ksVars, KsTypeOK, CtrlOK,
       TaskOK
  <2>2. NetOK'
    BY <1>0, <1>6, Zenon DEF TunnelLost, LateConnect, Up, Down, NetOK
  <2> QED
    BY <2>1, <2>2, PartsNext, Zenon
<1>7. CASE Restart \/ Reboot
  <2>1. KsTypeOK'
    <3>1. <<>> \in Seq(Call) /\ {"none", "closed"} \subseteq Table
      BY DEF Table
    <3>2. CASE KsRestart
      BY <1>0, <3>1, <3>2, Zenon DEF KsRestart, KsTypeOK
    <3>3. CASE KsReboot
      BY <1>0, <3>1, <3>3, Zenon DEF KsReboot, KsTypeOK
    <3> QED
      BY <1>7, <3>2, <3>3, Zenon DEF Restart, Reboot
  <2>2. CtrlOK' /\ TaskOK' /\ canonical' \in Provider
    <3>1. ServiceEnds
      BY <1>7, Zenon DEF Restart, Reboot
    <3>2. CtrlOK'
      BY <1>0, <3>1, IdleType, Zenon DEF ServiceEnds, NoRequest, CtrlOK
    <3>3. TaskOK' /\ canonical' \in Provider
      BY <1>0, <3>1, Zenon DEF ServiceEnds, TaskOK, Facts
    <3> QED
      BY <3>2, <3>3, Zenon
  <2>3. NetOK' /\ faults' \in 0..MaxFaults
    BY <1>0, <1>7, FaultType, Zenon DEF Restart, Reboot, netVars, NetOK, Fault
  <2> QED
    BY <2>1, <2>2, <2>3, PartsNext, Zenon
<1>8. CASE UNCHANGED vars
  BY <1>8, Zenon DEF vars, ksVars, netVars, TypeOK, KsTypeOK
<1> QED
  BY <1>1, <1>3, <1>5, <1>6, <1>7, <1>8, LockType, Zenon DEF Next

LEMMA TypeInit == Init => TypeOK
<1> SUFFICES ASSUME Init PROVE TypeOK
  BY Zenon
<1>1. KsTypeOK
  <2>1. <<>> \in Seq(Call) /\ {"none", "closed"} \subseteq Table
    BY DEF Table
  <2> QED
    BY <2>1, Zenon DEF Init, KsInit, KsTypeOK
<1>2. canonical \in Provider /\ faults \in 0..MaxFaults /\ late \subseteq Provider \ Direct
  BY DEF Init
<1>3. req \in [Requests -> State] /\ claims \in [Connection -> BOOLEAN]
  BY <1>2, IdleType, Zenon DEF Init, NoRequest
<1>4. tunnel \in [Provider -> BOOLEAN] /\ generation \in [Direct -> BOOLEAN]
  BY Zenon DEF Init
<1>5. TaskOK
  BY Zenon DEF Init, TaskOK, Facts
<1> QED
  BY <1>1, <1>2, <1>3, <1>4, <1>5, Zenon DEF TypeOK, TaskOK, State, Steps

\* Every variable keeps its type, whatever fails, is cancelled or is cut by a restart.
THEOREM TypeCorrect == Spec => []TypeOK
BY TypeInit, TypeStep, PTL DEF Spec
----------------------------------------------------------------------------
(* Requests run one at a time *)

\* Only a running request takes a step.
LEMMA Running == ASSUME NEW r \in Requests, Step(r) \/ Cancel(r) PROVE req[r].pc # "idle"
<1>1. SwitchLocal(r) \/ SwitchAdopt(r) \/ SwitchAdopted(r) \/ SwitchArmed(r) \/ SourceDisconnect(r)
        \/ SourceWait(r) \/ TargetReady(r) \/ TargetConnect(r) \/ TargetObserve(r) => ~At(r, "idle")
  BY Zenon DEF At, SwitchLocal, SwitchAdopt, SwitchAdopted, SwitchArmed, SourceDisconnect, SourceWait,
     TargetReady, TargetConnect, TargetObserve
<1>2. SwitchCommit(r) \/ SwitchComplete(r) \/ RollTarget(r) \/ RollWait(r) \/ RollSource(r)
        \/ RollProve(r) \/ RollComplete(r) \/ RollEnd(r) => ~At(r, "idle")
  BY Zenon DEF At, SwitchCommit, SwitchComplete, RollTarget, RollWait, RollSource, RollProve,
     RollComplete, RollEnd
<1>3. ConnectCheck(r) \/ ConnectArmed(r) \/ ConnectDial(r) \/ ConnectCompleted(r) \/ ConnectAfter(r)
        \/ ConnectStatus(r) => ~At(r, "idle")
  BY Zenon DEF At, ConnectCheck, ConnectArmed, ConnectDial, ConnectCompleted, ConnectAfter,
     ConnectStatus
<1>4. DisconnectCheck(r) \/ DisconnectArmed(r) \/ DisconnectStop(r) \/ DisconnectCompleted(r)
        \/ DisconnectEnd(r) => ~At(r, "idle")
  BY Zenon DEF At, DisconnectCheck, DisconnectArmed, DisconnectStop, DisconnectCompleted,
     DisconnectEnd
<1>5. Cancel(r) => ~At(r, "idle")
  BY Zenon DEF At, Cancel, SwitchSteps, RollbackSteps
<1> QED
  BY Zenon, <1>1, <1>2, <1>3, <1>4, <1>5 DEF Step, At

\* Where a request is after a step.
LEMMA GotoIs ==
    ASSUME CtrlOK, NEW r \in Requests, NEW pc, Goto(r, pc)
    PROVE  /\ req'[r].pc = pc /\ req'[r].armed = req[r].armed
           /\ req'[r].source = req[r].source /\ req'[r].target = req[r].target
BY Zenon DEF CtrlOK, State, Goto

LEMMA RollBackIs ==
    ASSUME CtrlOK, NEW r \in Requests, NEW cause, RollBack(r, cause)
    PROVE  /\ req'[r].pc = "r_target" /\ req'[r].armed = req[r].armed
           /\ req'[r].source = req[r].source /\ req'[r].target = req[r].target
BY Zenon DEF CtrlOK, State, RollBack

LEMMA ArmedIs ==
    ASSUME CtrlOK, NEW r \in Requests, NEW pc, NEW a,
           req' = [req EXCEPT ![r].pc = pc, ![r].armed = a]
    PROVE  /\ req'[r].pc = pc /\ req'[r].armed = a
           /\ req'[r].source = req[r].source /\ req'[r].target = req[r].target
BY Zenon DEF CtrlOK, State

LEMMA EndIs ==
    ASSUME CtrlOK, NEW r \in Requests, Finish(r) \/ Abort(r)
    PROVE  req'[r].pc = "idle" /\ ~req'[r].armed
<1>1. req'[r] = Idle
  BY Zenon DEF CtrlOK, Finish, Abort
<1> QED
  BY <1>1 DEF Idle

\* A step of one request leaves the others, which are idle, alone.
LEMMA OthersIdle ==
    ASSUME TypeOK, Serialised, NEW r \in Requests, Step(r) \/ Cancel(r)
    PROVE  \A q \in Requests \ {r} : req'[q] = req[q] /\ req[q].pc = "idle"
<1>1. CtrlPart(r) /\ req[r].pc # "idle" /\ CtrlOK
  BY StepParts, Running, Parts, Zenon
<1> QED
  BY <1>1, Zenon DEF CtrlPart, Goto, Finish, Abort, RollBack, Serialised, At, CtrlOK

\* What a step does to the requests and the claims.
LEMMA SerialStep ==
    ASSUME TypeOK, Claimed, Serialised, [Next]_vars PROVE Claimed' /\ Serialised'
<1>0. CtrlOK /\ TypeOK'
  BY Parts, TypeStep, Zenon
<1>1. ASSUME NEW r \in Requests, Step(r) \/ Cancel(r) PROVE Claimed' /\ Serialised'
  <2>1. CtrlPart(r) /\ req[r].pc # "idle"
    BY <1>1, StepParts, Running, Zenon
  <2>2. \A q \in Requests \ {r} : req'[q] = req[q] /\ req[q].pc = "idle"
    BY <1>1, OthersIdle, Zenon
  <2>3. Serialised'
    BY <2>2 DEF Serialised, At
  <2> DEFINE Kept == req'[r].pc # "idle" => UNCHANGED claims /\ req'[r].conn = req[r].conn
  <2>4. Kept
    <3>1. CASE Finish(r) \/ Abort(r)
      <4>1. req'[r] = Idle
        BY <1>0, <3>1, Zenon DEF Finish, Abort, CtrlOK
      <4> QED
        BY <4>1 DEF Idle
    <3>2. ASSUME NEW pc, Goto(r, pc), UNCHANGED claims PROVE Kept
      BY <1>0, <3>2, Zenon DEF Goto, CtrlOK, State
    <3>3. ASSUME NEW cause, RollBack(r, cause) PROVE Kept
      BY <1>0, <3>3, Zenon DEF RollBack, CtrlOK, State
    <3>4. ASSUME NEW a, NEW pc, req' = [req EXCEPT ![r].pc = pc, ![r].armed = a], UNCHANGED claims
          PROVE Kept
      BY <1>0, <3>4, Zenon DEF CtrlOK, State
    <3> QED
      BY <2>1, <3>1, <3>2, <3>3, <3>4, Zenon DEF CtrlPart
  <2>5. Claimed'
    BY <2>1, <2>2, <2>4 DEF Claimed, At
  <2> QED
    BY <2>3, <2>5, Zenon
<1>2. ASSUME NEW r \in Requests, NEW conn \in Connection, NEW pc, NEW source, NEW target,
             Begin(r, conn, pc, source, target)
      PROVE  Claimed' /\ Serialised'
  <2>1. \A q \in Requests : req[q].pc = "idle"
    BY <1>0, <1>2, Zenon DEF Begin, Claimed, At, CtrlOK, State
  <2>2. \A q \in Requests \ {r} : req'[q].pc = "idle"
    BY <1>0, <1>2, <2>1, Zenon DEF Begin, CtrlOK
  <2>3. claims'[req'[r].conn]
    BY <1>0, <1>2, Zenon DEF Begin, CtrlOK
  <2> QED
    BY <2>2, <2>3, Zenon DEF Claimed, Serialised, At
<1>3. CASE UNCHANGED <<claims, req>>
  BY <1>3, Zenon DEF Claimed, Serialised, At
<1>4. CASE Restart \/ Reboot
  <2>1. \A q \in Requests : req'[q].pc = "idle"
    BY <1>4 DEF Restart, Reboot, ServiceEnds, NoRequest, Idle
  <2> QED
    BY <2>1, Zenon DEF Claimed, Serialised, At
<1>5. ASSUME NEW r \in Requests, (\E t \in Provider : Switch(r, t)) \/ Connect(r) \/ Disconnect(r)
      PROVE  Claimed' /\ Serialised'
  BY <1>2, <1>5, Parts, Zenon DEF Switch, Connect, Disconnect, Connection
<1>6. CASE Monitor \/ WebRequest \/ WebDisable \/ WebEnable \/ Lock \/ UNCHANGED vars
  BY <1>3, <1>6, Zenon DEF Monitor, WebRequest, WebDisable, WebEnable, MonitorTick, MonitorApply,
     MonitorDone, WebEnableApply, WebDone, Lock, others, vars
<1>7. CASE \E p \in Provider : TunnelLost(p) \/ LateConnect(p)
  BY <1>3, <1>7, Zenon DEF TunnelLost, LateConnect
<1> QED
  BY <1>1, <1>4, <1>5, <1>6, <1>7, Zenon DEF Next

\* A request that is armed stays in the switch.
LEMMA ArmedStep == ASSUME TypeOK, Serialised, SwitchArms, [Next]_vars PROVE SwitchArms'
<1>0. CtrlOK
  BY Parts, Zenon
<1>1. ASSUME NEW r \in Requests, Step(r) \/ Cancel(r) PROVE SwitchArms'
  <2> DEFINE Late(q) == /\ req[q].armed => req[q].pc \in ArmedSteps
                        /\ req[q].pc \in ArmedSteps \ {"r_end"} => req[q].armed
  <2>1. \A q \in Requests \ {r} : req'[q] = req[q]
    BY <1>1, OthersIdle, Zenon
  <2>2. Late(r)
    BY Zenon DEF SwitchArms
  <2> SUFFICES Late(r)'
    BY <2>1, Zenon DEF SwitchArms
  <2> USE DEF ArmedSteps, SwitchSteps, RollbackSteps, At
  <2>3. CASE SwitchLocal(r) \/ SwitchAdopt(r) \/ SwitchAdopted(r) \/ SwitchArmed(r)
    BY <1>0, <2>2, <2>3, GotoIs, EndIs, ArmedIs
       DEF SwitchLocal, SwitchAdopt, SwitchAdopted, SwitchArmed, FinishChecked, FinishReconciled
  <2>4. CASE SourceDisconnect(r) \/ SourceWait(r) \/ TargetReady(r)
    <3>1. \/ \E pc \in {"s_wait", "s_ready", "s_connect"} : Goto(r, pc)
          \/ \E cause \in Causes : RollBack(r, cause)
      BY <2>4, Zenon DEF SourceDisconnect, SourceWait, TargetReady, Causes
    <3>2. req[r].armed
      BY <2>2, <2>4, Zenon DEF SourceDisconnect, SourceWait, TargetReady
    <3> QED
      BY <1>0, <3>1, <3>2, GotoIs, RollBackIs
  <2>10. CASE TargetConnect(r) \/ TargetObserve(r) \/ SwitchCommit(r) \/ SwitchComplete(r)
    BY <1>0, <2>2, <2>10, GotoIs, EndIs, RollBackIs
       DEF TargetConnect, TargetObserve, SwitchCommit, SwitchComplete
  <2>5. CASE \/ RollTarget(r) \/ RollWait(r) \/ RollSource(r) \/ RollProve(r) \/ RollComplete(r)
    BY <1>0, <2>2, <2>5, GotoIs, ArmedIs DEF RollTarget, RollWait, RollSource, RollProve, RollComplete
  <2>6. CASE RollEnd(r)
    BY <1>0, <2>2, <2>6, EndIs, RollBackIs, Zenon DEF RollEnd, FinishChecked, FinishReconciled
  <2>7. CASE \/ ConnectCheck(r) \/ ConnectArmed(r) \/ ConnectDial(r) \/ ConnectCompleted(r)
             \/ ConnectAfter(r) \/ ConnectStatus(r)
    BY <1>0, <2>2, <2>7, GotoIs, EndIs
       DEF ConnectCheck, ConnectArmed, ConnectDial, ConnectCompleted, ConnectAfter, ConnectStatus
  <2>8. CASE \/ DisconnectCheck(r) \/ DisconnectArmed(r) \/ DisconnectStop(r)
             \/ DisconnectCompleted(r) \/ DisconnectEnd(r)
    BY <1>0, <2>2, <2>8, GotoIs, EndIs
       DEF DisconnectCheck, DisconnectArmed, DisconnectStop, DisconnectCompleted, DisconnectEnd
  <2>9. CASE Cancel(r)
    BY <1>0, <2>2, <2>9, EndIs, RollBackIs, Zenon DEF Cancel
  <2> QED
    BY <1>1, <2>3, <2>4, <2>5, <2>6, <2>7, <2>8, <2>9, <2>10, Zenon DEF Step
<1>2. ASSUME NEW r \in Requests, NEW conn, NEW pc \in {"s_local", "c_check", "d_check"},
             NEW source, NEW target, Begin(r, conn, pc, source, target)
      PROVE  SwitchArms'
  <2>1. /\ req'[r].pc = pc /\ ~req'[r].armed
        /\ \A q \in Requests \ {r} : req'[q] = req[q]
    BY <1>0, <1>2, Zenon DEF Begin, CtrlOK
  <2> QED
    BY <2>1, ZenonT(60) DEF SwitchArms, ArmedSteps, SwitchSteps, RollbackSteps
<1>3. CASE UNCHANGED req
  BY <1>3, Zenon DEF SwitchArms
<1>4. CASE Restart \/ Reboot
  <2>1. \A q \in Requests : req'[q].pc = "idle" /\ ~req'[q].armed
    BY <1>4 DEF Restart, Reboot, ServiceEnds, NoRequest, Idle
  <2> QED
    BY <2>1, Zenon DEF SwitchArms, ArmedSteps, SwitchSteps, RollbackSteps
<1>5. CASE Monitor \/ WebRequest \/ WebDisable \/ WebEnable \/ Lock \/ UNCHANGED vars
  BY <1>3, <1>5, Zenon DEF Monitor, WebRequest, WebDisable, WebEnable, MonitorTick, MonitorApply,
     MonitorDone, WebEnableApply, WebDone, Lock, others, vars
<1>6. CASE \E p \in Provider : TunnelLost(p) \/ LateConnect(p)
  BY <1>3, <1>6, Zenon DEF TunnelLost, LateConnect
<1> QED
  BY <1>1, <1>2, <1>4, <1>5, <1>6, Zenon DEF Next, Switch, Connect, Disconnect

LEMMA SerialInit == Init => Claimed /\ Serialised /\ SwitchArms
<1> SUFFICES ASSUME Init PROVE \A r \in Requests : req[r].pc = "idle" /\ ~req[r].armed
  BY Zenon DEF Claimed, Serialised, At, SwitchArms, ArmedSteps, SwitchSteps, RollbackSteps
<1> QED
  BY Zenon DEF Init, NoRequest, Idle

LEMMA SerialAlways == Spec => [](TypeOK /\ Claimed /\ Serialised /\ SwitchArms)
BY TypeInit, TypeStep, SerialInit, SerialStep, ArmedStep, PTL DEF Spec

----------------------------------------------------------------------------
(* One tunnel at a time *)

\* The tunnels that are up, and what a request knows of them at each of its steps.
UpIn(S) == \A p \in Provider : tunnel[p] => p \in S

NothingUp == {"s_adopt", "s_ready", "s_connect"}
SourceUp == {"s_arm", "s_disconnect", "s_wait", "r_source", "r_prove", "r_complete"}
TargetUp == {"s_observe", "s_commit", "s_complete", "c_arm", "c_dial", "c_complete", "c_after",
             "c_status"}
EitherUp == {"r_target", "r_wait", "r_end"}

Known(r) == /\ req[r].pc \in NothingUp => UpIn({})
            /\ req[r].pc \in SourceUp => UpIn({req[r].source})
            /\ req[r].pc \in TargetUp => UpIn({req[r].target})
            /\ req[r].pc \in EitherUp => UpIn({req[r].source, req[r].target})

EgressInv == /\ TypeOK /\ Claimed /\ Serialised /\ SwitchArms
             /\ OneEgress /\ late = {} /\ \A r \in Requests : Known(r)


\* A provider's command moves no other provider's tunnel.
Moves(p) == \A q \in Provider \ {p} : tunnel'[q] = tunnel[q]

LEMMA CommandMoves ==
    ASSUME NetOK, NEW p \in Provider, late = {}, "late" \notin Faults,
           \/ Connected(p) \/ Disconnected(p) \/ Undone(p)
           \/ (Up(p) \/ Down(p)) /\ UNCHANGED <<generation, late>>
           \/ UNCHANGED netVars
    PROVE  Moves(p) /\ late' = {}
BY Zenon DEF NetOK, Connected, Disconnected, Undone, Up, Down, netVars, Moves

\* It leaves one tunnel up at most, where the others were down.
LEMMA MovesOne ==
    ASSUME NetOK, NEW p \in Provider, UpIn({p}), Moves(p)
    PROVE  OneEgress' /\ UpIn({p})'
BY Zenon DEF UpIn, Moves, OneEgress, NetOK

LEMMA MovesNone ==
    ASSUME NetOK, NEW p \in Provider, OneEgress, Moves(p), ~tunnel'[p] \/ (tunnel'[p] <=> tunnel[p])
    PROVE  OneEgress' /\ \A S \in SUBSET Provider : UpIn(S) => UpIn(S)'
BY Zenon DEF UpIn, Moves, OneEgress, NetOK

\* A tunnel comes up only where a request knows that the others are down.
LEMMA EgressSteps ==
    ASSUME EgressInv, "late" \notin Faults, NEW r \in Requests, Step(r) \/ Cancel(r)
    PROVE  OneEgress' /\ late' = {} /\ Known(r)'
<1>0. /\ CtrlOK /\ NetOK /\ late = {} /\ OneEgress /\ Known(r)
      /\ req[r].source \in Provider /\ req[r].target \in Provider
      /\ req[r].armed => req[r].pc \in ArmedSteps
  BY Parts, Zenon DEF EgressInv, CtrlOK, State, SwitchArms
<1> DEFINE s == req[r].source
           t == req[r].target
<1> USE DEF Known, NothingUp, SourceUp, TargetUp, EitherUp, At
<1>1. CASE SwitchLocal(r)
  BY <1>0, <1>1, GotoIs, RollBackIs, EndIs
     DEF SwitchLocal, UpIn, OneEgress, netVars, LocalStatus, Status
<1>2. CASE SwitchAdopt(r)
  BY <1>0, <1>2, GotoIs, RollBackIs, EndIs, Zenon
     DEF SwitchAdopt, UpIn, OneEgress, netVars, LocalStatus, Status
<1>3. CASE SwitchAdopted(r)
  BY <1>0, <1>3, GotoIs, RollBackIs, EndIs, Zenon
     DEF SwitchAdopted, FinishChecked, UpIn, OneEgress, netVars, LocalStatus, Status
<1>4. CASE SwitchArmed(r)
  BY <1>0, <1>4, GotoIs, RollBackIs, EndIs, ArmedIs
     DEF SwitchArmed, FinishReconciled, UpIn, OneEgress, netVars, LocalStatus, Status
<1>5. CASE SourceWait(r)
  BY <1>0, <1>5, GotoIs, RollBackIs, EndIs, ZenonT(60)
     DEF SourceWait, UpIn, OneEgress, netVars, LocalStatus, Status
<1>6. CASE TargetReady(r)
  BY <1>0, <1>6, GotoIs, RollBackIs, EndIs, Zenon
     DEF TargetReady, UpIn, OneEgress, netVars, LocalStatus, Status
<1>7. CASE TargetObserve(r)
  BY <1>0, <1>7, GotoIs, RollBackIs, EndIs
     DEF TargetObserve, UpIn, OneEgress, netVars, LocalStatus, Status
<1>8. CASE SwitchCommit(r)
  BY <1>0, <1>8, GotoIs, RollBackIs, EndIs
     DEF SwitchCommit, UpIn, OneEgress, netVars, LocalStatus, Status
<1>9. CASE SwitchComplete(r)
  BY <1>0, <1>9, GotoIs, RollBackIs, EndIs, ZenonT(60)
     DEF SwitchComplete, UpIn, OneEgress, netVars, LocalStatus, Status
<1>10. CASE RollWait(r)
  BY <1>0, <1>10, GotoIs, RollBackIs, EndIs
     DEF RollWait, UpIn, OneEgress, netVars, LocalStatus, Status
<1>11. CASE RollProve(r)
  BY <1>0, <1>11, GotoIs, RollBackIs, EndIs
     DEF RollProve, UpIn, OneEgress, netVars, LocalStatus, Status
<1>12. CASE RollComplete(r)
  <2>1. req'[r].pc = "r_end" /\ req'[r].source = s /\ req'[r].target = t
    BY <1>0, <1>12, ArmedIs, Zenon DEF RollComplete
  <2>2. UNCHANGED netVars /\ UpIn({s})
    BY <1>0, <1>12, Zenon DEF RollComplete
  <2> QED
    BY <1>0, <2>1, <2>2, Zenon DEF UpIn, OneEgress, netVars
<1>13. CASE RollEnd(r)
  BY <1>0, <1>13, GotoIs, RollBackIs, EndIs, Zenon
     DEF RollEnd, FinishChecked, FinishReconciled, UpIn, OneEgress, netVars, LocalStatus, Status
<1>14. CASE ConnectCheck(r)
  BY <1>0, <1>14, GotoIs, RollBackIs, EndIs
     DEF ConnectCheck, UpIn, OneEgress, netVars, LocalStatus, Status
<1>15. CASE ConnectArmed(r)
  BY <1>0, <1>15, GotoIs, RollBackIs, EndIs
     DEF ConnectArmed, UpIn, OneEgress, netVars, LocalStatus, Status
<1>16. CASE ConnectCompleted(r)
  BY <1>0, <1>16, GotoIs, RollBackIs, EndIs
     DEF ConnectCompleted, UpIn, OneEgress, netVars, LocalStatus, Status
<1>17. CASE ConnectAfter(r)
  BY <1>0, <1>17, GotoIs, RollBackIs, EndIs
     DEF ConnectAfter, UpIn, OneEgress, netVars, LocalStatus, Status
<1>18. CASE ConnectStatus(r)
  BY <1>0, <1>18, GotoIs, RollBackIs, EndIs, Zenon
     DEF ConnectStatus, UpIn, OneEgress, netVars, LocalStatus, Status
<1>19. CASE DisconnectCheck(r)
  BY <1>0, <1>19, GotoIs, RollBackIs, EndIs
     DEF DisconnectCheck, UpIn, OneEgress, netVars, LocalStatus, Status
<1>20. CASE DisconnectArmed(r)
  BY <1>0, <1>20, GotoIs, RollBackIs, EndIs
     DEF DisconnectArmed, UpIn, OneEgress, netVars, LocalStatus, Status
<1>21. CASE DisconnectCompleted(r)
  BY <1>0, <1>21, GotoIs, RollBackIs, EndIs
     DEF DisconnectCompleted, UpIn, OneEgress, netVars, LocalStatus, Status
<1>22. CASE DisconnectEnd(r)
  BY <1>0, <1>22, GotoIs, RollBackIs, EndIs, Zenon
     DEF DisconnectEnd, UpIn, OneEgress, netVars, LocalStatus, Status
<1>23. CASE Cancel(r)
  BY <1>0, <1>23, GotoIs, RollBackIs, EndIs, ZenonT(60)
     DEF Cancel, ArmedSteps, SwitchSteps, RollbackSteps, UpIn, OneEgress, netVars, LocalStatus, Status
<1>24. CASE SourceDisconnect(r)
  <2>1. Moves(s) /\ late' = {} /\ (~tunnel'[s] \/ (tunnel'[s] <=> tunnel[s]))
    BY <1>0, <1>24, CommandMoves, Zenon DEF SourceDisconnect, Disconnected, Down, NetOK, Moves
  <2>2. UpIn({s}) /\ req'[r].pc \in {"s_wait", "r_target"}
        /\ req'[r].source = s /\ req'[r].target = t
    BY <1>0, <1>24, GotoIs, RollBackIs, Zenon DEF SourceDisconnect
  <2> QED
    BY <1>0, <2>1, <2>2, MovesOne, Zenon DEF UpIn
<1>25. CASE TargetConnect(r)
  <2>1. Moves(t) /\ late' = {}
    BY <1>0, <1>25, CommandMoves, Zenon DEF TargetConnect
  <2>2. UpIn({t}) /\ req'[r].pc \in {"s_observe", "r_target"}
        /\ req'[r].source = s /\ req'[r].target = t
    BY <1>0, <1>25, GotoIs, RollBackIs, Zenon DEF TargetConnect, UpIn
  <2> QED
    BY <1>0, <2>1, <2>2, MovesOne, Zenon DEF UpIn
<1>26. CASE RollTarget(r)
  <2>1. Moves(t) /\ late' = {} /\ (~tunnel'[t] \/ (tunnel'[t] <=> tunnel[t]))
    BY <1>0, <1>26, CommandMoves, ZenonT(60) DEF RollTarget, Disconnected, Down, NetOK, Moves, netVars
  <2>2. UpIn({s, t}) /\ req'[r].source = s /\ req'[r].target = t
        /\ req'[r].pc \in {"r_source", "r_wait", "r_end"}
    BY <1>0, <1>26, GotoIs, Zenon DEF RollTarget
  <2>3. req'[r].pc = "r_source" => ~tunnel[t] /\ UNCHANGED tunnel
    BY <1>0, <1>26, GotoIs DEF RollTarget, netVars
  <2> QED
    BY <1>0, <2>1, <2>2, <2>3, MovesNone, Zenon DEF UpIn, Moves
<1>27. CASE RollSource(r)
  <2>1. Moves(s) /\ late' = {}
    BY <1>0, <1>27, CommandMoves, Zenon DEF RollSource
  <2>2. UpIn({s}) /\ req'[r].pc \in {"r_prove", "r_end"}
        /\ req'[r].source = s /\ req'[r].target = t
    BY <1>0, <1>27, GotoIs, Zenon DEF RollSource
  <2> QED
    BY <1>0, <2>1, <2>2, MovesOne, Zenon DEF UpIn
<1>28. CASE ConnectDial(r)
  <2>1. Moves(t) /\ late' = {}
    BY <1>0, <1>28, CommandMoves, Zenon DEF ConnectDial
  <2>2. UpIn({t}) /\ req'[r].pc \in {"c_complete", "c_after"} /\ req'[r].target = t
    BY <1>0, <1>28, GotoIs, Zenon DEF ConnectDial
  <2> QED
    BY <1>0, <2>1, <2>2, MovesOne, Zenon
<1>29. CASE DisconnectStop(r)
  <2>1. Moves(t) /\ late' = {} /\ (~tunnel'[t] \/ (tunnel'[t] <=> tunnel[t]))
    BY <1>0, <1>29, CommandMoves, Zenon DEF DisconnectStop, Disconnected, Down, NetOK, Moves
  <2>2. req'[r].pc \in {"d_complete", "d_end"}
    BY <1>0, <1>29, GotoIs, Zenon DEF DisconnectStop
  <2> QED
    BY <1>0, <2>1, <2>2, MovesNone, Zenon
<1> QED
  BY <1>1, <1>2, <1>3, <1>4, <1>5, <1>6, <1>7, <1>8, <1>9, <1>10, <1>11, <1>12, <1>13, <1>14, <1>15, <1>16, <1>17, <1>18, <1>19, <1>20, <1>21, <1>22, <1>23, <1>24, <1>25, <1>26, <1>27, <1>28, <1>29, ZenonT(60) DEF Step

\* Every step keeps the tunnels where the requests know them.
LEMMA EgressStep ==
    ASSUME EgressInv, "late" \notin Faults, [Next]_vars PROVE EgressInv'
<1>0. /\ TypeOK' /\ Claimed' /\ Serialised' /\ SwitchArms'
      /\ CtrlOK /\ NetOK /\ OneEgress /\ late = {}
  BY TypeStep, SerialStep, ArmedStep, Parts, Zenon DEF EgressInv
<1> SUFFICES OneEgress' /\ late' = {} /\ \A r \in Requests : Known(r)'
  BY <1>0, Zenon DEF EgressInv
<1> USE DEF NothingUp, SourceUp, TargetUp, EitherUp
<1>1. ASSUME NEW r \in Requests, Step(r) \/ Cancel(r)
      PROVE  OneEgress' /\ late' = {} /\ \A q \in Requests : Known(q)'
  <2>1. \A q \in Requests \ {r} : req'[q].pc = "idle"
    BY <1>1, OthersIdle, Zenon DEF EgressInv
  <2>2. \A q \in Requests \ {r} : Known(q)'
    BY <2>1, Zenon DEF Known
  <2> QED
    BY <1>1, <2>2, EgressSteps, Zenon
<1>2. ASSUME NEW r \in Requests, NEW conn, NEW pc \in {"s_local", "c_check", "d_check"},
             NEW source, NEW target, Begin(r, conn, pc, source, target)
      PROVE  OneEgress' /\ late' = {} /\ \A q \in Requests : Known(q)'
  <2>1. req'[r].pc = pc /\ \A q \in Requests \ {r} : req'[q] = req[q]
    BY <1>0, <1>2, Zenon DEF Begin, CtrlOK
  <2>2. UNCHANGED netVars
    BY <1>2, Zenon DEF Begin
  <2> QED
    BY <1>0, <2>1, <2>2, Zenon DEF Known, UpIn, OneEgress, netVars, EgressInv
<1>3. CASE UNCHANGED <<req, netVars>>
  BY <1>0, <1>3, Zenon DEF Known, UpIn, OneEgress, netVars, EgressInv
<1>4. CASE Restart \/ Reboot
  <2>1. \A q \in Requests : req'[q].pc = "idle"
    BY <1>4 DEF Restart, Reboot, ServiceEnds, NoRequest, Idle
  <2>2. OneEgress' /\ late' = {}
    BY <1>0, <1>4, Zenon DEF Restart, Reboot, netVars, OneEgress
  <2> QED
    BY <2>1, <2>2, Zenon DEF Known
<1>5. CASE Monitor \/ WebRequest \/ WebDisable \/ WebEnable \/ Lock \/ UNCHANGED vars
  BY <1>3, <1>5, Zenon DEF Monitor, WebRequest, WebDisable, WebEnable, MonitorTick, MonitorApply,
     MonitorDone, WebEnableApply, WebDone, Lock, others, vars
<1>6. CASE \E p \in Provider : TunnelLost(p) \/ LateConnect(p)
  <2>1. PICK p \in Provider : TunnelLost(p)
    BY <1>0, <1>6, Zenon DEF LateConnect
  <2>2. Moves(p) /\ ~tunnel'[p] /\ UNCHANGED <<req, late>>
    BY <1>0, <2>1, Zenon DEF TunnelLost, Down, Moves, NetOK
  <2> QED
    BY <1>0, <2>2, MovesNone, Zenon DEF Known, UpIn, Moves, EgressInv
<1> QED
  BY <1>1, <1>2, <1>4, <1>5, <1>6, Zenon DEF Next, Switch, Connect, Disconnect

\* The canonical provider is given up only when its tunnel is down.
Releases == canonical' # canonical => ~tunnel[canonical]

LEMMA ReleaseStep == ASSUME EgressInv, [Next]_vars PROVE Releases
<1>0. /\ CtrlOK /\ canonical \in Provider
      /\ \A r \in Requests : req[r].target \in Provider /\ req[r].source \in Provider /\ Known(r)
  BY Parts, Zenon DEF EgressInv, CtrlOK, State
<1>1. ASSUME NEW r \in Requests, SwitchAdopt(r) \/ SwitchCommit(r) PROVE Releases
  BY <1>0, <1>1, Zenon DEF SwitchAdopt, SwitchCommit, Known, UpIn, NothingUp, TargetUp, At, Releases
<1>2. ASSUME NEW r \in Requests, RollTarget(r) \/ RollWait(r) PROVE Releases
  BY <1>0, <1>2, ZenonT(60) DEF RollTarget, RollWait, Known, UpIn, EitherUp, LocalStatus, At, Releases
<1>3. CASE UNCHANGED canonical
  BY <1>3, Zenon DEF Releases
<1>4. ASSUME NEW r \in Requests, Step(r) \/ Cancel(r) PROVE Releases
  BY <1>1, <1>2, <1>3, <1>4, Zenon DEF Step, Cancel, SwitchLocal, SwitchAdopted, SwitchArmed,
     SourceDisconnect, SourceWait, TargetReady, TargetConnect, TargetObserve, SwitchComplete,
     RollSource, RollProve, RollComplete, RollEnd, ConnectCheck, ConnectArmed, ConnectDial,
     ConnectCompleted, ConnectAfter, ConnectStatus, DisconnectCheck, DisconnectArmed, DisconnectStop,
     DisconnectCompleted, DisconnectEnd
<1>5. CASE \/ Monitor \/ WebRequest \/ WebDisable \/ WebEnable \/ Lock \/ UNCHANGED vars
           \/ (\E p \in Provider : TunnelLost(p) \/ LateConnect(p)) \/ Restart \/ Reboot
  BY <1>3, <1>5, Zenon DEF Monitor, WebRequest, WebDisable, WebEnable, MonitorTick, MonitorApply,
     MonitorDone, WebEnableApply, WebDone, Lock, others, vars, TunnelLost, LateConnect, Restart,
     Reboot, ServiceEnds
<1>6. ASSUME NEW r \in Requests, (\E t \in Provider : Switch(r, t)) \/ Connect(r) \/ Disconnect(r)
      PROVE  Releases
  BY <1>3, <1>6, Zenon DEF Switch, Connect, Disconnect, Begin
<1> QED
  BY <1>4, <1>5, <1>6, Zenon DEF Next

LEMMA EgressInit == Init => EgressInv
<1> SUFFICES ASSUME Init PROVE EgressInv
  BY Zenon
<1>1. TypeOK /\ Claimed /\ Serialised /\ SwitchArms
  BY TypeInit, SerialInit, Zenon
<1>2. \A r \in Requests : req[r].pc = "idle"
  BY Zenon DEF Init, NoRequest, Idle
<1>3. late = {} /\ OneEgress
  BY Zenon DEF Init, OneEgress
<1> QED
  BY <1>1, <1>2, <1>3, Zenon DEF EgressInv, Known, NothingUp, SourceUp, TargetUp, EitherUp

\* Where no client connects after its command has timed out: VPN requests run one at a time, two
\* tunnels are never up together, and the canonical provider is replaced only while its tunnel is
\* down, also with cancelled requests, restarts and failures of every other kind.
THEOREM OneTunnelAtATime == ASSUME "late" \notin Faults PROVE Spec => OneAtATime
<1>1. Spec => []EgressInv
  BY EgressInit, EgressStep, PTL DEF Spec
<1>2. EgressInv => Serialised /\ OneEgress
  BY Zenon DEF EgressInv
<1>3. EgressInv /\ [Next]_vars => [canonical' # canonical => ~tunnel[canonical]]_vars
  BY ReleaseStep, Zenon DEF Releases
<1> QED
  BY <1>1, <1>2, <1>3, PTL DEF OneAtATime, SourceReleased, Spec
----------------------------------------------------------------------------
(* The guard *)

\* Where a request waits for the killswitch, and what it has called.
Arming == {"s_arm", "c_arm", "d_arm"}
Completion == {"s_complete", "r_complete", "c_complete", "d_complete"}
Awaits(op) == CASE op = "arm" -> Arming
                [] op = "complete" -> Completion
                [] op = "reconcile" -> {"s_adopted"}
                [] OTHER -> {}
Waiting == Arming \cup Completion \cup {"s_adopted"}

\* The calls in the queue are those of the tasks that wait for them.
Calls == /\ \A i \in 1..Len(queue) : \A r \in Requests :
              queue[i].by = r => req[r].pc \in Awaits(queue[i].op)
         /\ \A i \in 1..Len(queue) :
              queue[i].by \in {"monitor", "web"} => queue[i].op \in {"enable", "reconcile"}
         /\ \A i, j \in 1..Len(queue) :
              queue[i].by = queue[j].by /\ queue[i].by \in Requests => i = j

\* How far the holder of the lock is.
Stages == /\ stage # "entry" => queue # <<>>
          /\ stage = "apply" => Holder.op = "arm" /\ transition
          /\ stage = "settle" => Holder.op \in {"enable", "complete"}
          /\ stage = "status" => Holder.op = "complete"

\* A result waits for its request, and that of an arming means what it says.
Replies == \A r \in Requests :
             /\ req[r].pc \notin Waiting => reply[r] = "none"
             /\ At(r, "s_arm") /\ ~Pending(r) /\ reply[r] = "ok" => Guarded

GuardInv == /\ TypeOK /\ Claimed /\ Serialised /\ SwitchArms
            /\ Calls /\ Stages /\ Replies /\ GuardedHandoff

\* With the transition flag set, only completing and disabling want the table open.
LEMMA GuardedGoal ==
    ASSUME KsTypeOK, Guarded, queue # <<>>, Holder.op \notin {"complete", "disable"}
    PROVE  Goal(Holder) = "closed"
<1>1. Holder.op \in Operation
  BY TailCalls, Zenon DEF KsTypeOK, Holder, Call
<1> QED
  BY <1>1, Zenon DEF Goal, Guarded, Operation

Reopens == Guarded => table' = "closed" \/ (queue # <<>> /\ Holder.op \in {"complete", "disable"})

LEMMA ReopenStep == ASSUME TypeOK, [Next]_vars PROVE Reopens
<1>0. KsTypeOK
  BY Parts, Zenon
<1>1. CASE table' \in {table, "closed"}
  BY <1>1, Zenon DEF Reopens, Guarded
<1>2. CASE queue # <<>> /\ table' = Goal(Holder)
  BY <1>0, <1>2, GuardedGoal, Zenon DEF Reopens
<1>3. ASSUME NEW r \in Requests, Step(r) \/ Cancel(r) PROVE Reopens
  BY <1>1, <1>2, <1>3, StepParts, Zenon DEF KsPart, Take, Cancelled, Request, ksVars, AtTable
<1>4. CASE Lock
  BY <1>1, <1>2, <1>4, Zenon DEF Lock, Enter, Apply, ApplyFails, Settle, Return, AtTable
<1>5. CASE Restart
  BY <1>1, <1>5, Zenon DEF Restart, KsRestart
<1>6. CASE Reboot
  BY <1>6, Zenon DEF Reboot, KsReboot, Reopens, Guarded
<1>7. CASE Monitor \/ WebRequest \/ WebDisable \/ WebEnable \/ UNCHANGED vars
  BY <1>1, <1>7, Zenon DEF Monitor, WebRequest, WebDisable, WebEnable, MonitorTick, MonitorApply,
     MonitorDone, WebEnableApply, WebDone, Request, Take, ksVars, vars
<1>8. CASE \E p \in Provider : TunnelLost(p) \/ LateConnect(p)
  BY <1>1, <1>8, Zenon DEF TunnelLost, LateConnect, ksVars
<1>9. ASSUME NEW r \in Requests, (\E t \in Provider : Switch(r, t)) \/ Connect(r) \/ Disconnect(r)
      PROVE  Reopens
  BY <1>1, <1>9, Zenon DEF Switch, Connect, Disconnect, Begin, ksVars
<1> QED
  BY <1>3, <1>4, <1>5, <1>6, <1>7, <1>8, <1>9, Zenon DEF Next

\* Whatever fails, is cancelled or is cut: rules closed for a transition are opened only by a
\* completion or by disabling the killswitch, which clear the flag.
THEOREM CompletionReopens == Spec => OnlyCompletionReopens
<1>1. TypeOK /\ [Next]_vars =>
        [Guarded => \/ table' = "closed"
                    \/ queue # <<>> /\ Holder.op \in {"complete", "disable"}]_vars
  BY ReopenStep, Zenon DEF Reopens
<1> QED
  BY <1>1, TypeCorrect, PTL DEF Spec, OnlyCompletionReopens

\* What a step of a request that is not cancelled does to its calls: it works between two calls,
\* it goes on with a result, or it makes a call and waits.  It arms the switch with the result of
\* the arming, and an armed switch goes on only with a completion that failed.
Works(r) == UNCHANGED ksVars /\ {req[r].pc, req'[r].pc} \cap Waiting = {}
GoesOn(r) == Take(r) /\ req[r].pc \in Waiting /\ req'[r].pc \notin Waiting
MakesCall(r) == /\ req[r].pc \notin Waiting
                /\ \E op \in {"arm", "complete", "reconcile"}, facts \in Facts :
                     Request(r, op, facts) /\ req'[r].pc \in Awaits(op)
Arms(r) == req'[r].armed => \/ req[r].armed /\ (req[r].pc \in Waiting => reply[r] # "ok")
                            \/ At(r, "s_arm") /\ reply[r] = "ok" /\ Take(r)

LEMMA CallShape ==
    ASSUME TypeOK, SwitchArms, "cancel" \notin Faults, NEW r \in Requests, Step(r) \/ Cancel(r)
    PROVE  (Works(r) \/ GoesOn(r) \/ MakesCall(r)) /\ Arms(r)
<1>0. CtrlOK /\ canonical \in Provider /\ req[r].source \in Provider /\ req[r].target \in Provider
      /\ (req[r].armed => req[r].pc \in ArmedSteps)
      /\ (req[r].pc \in ArmedSteps \ {"r_end"} => req[r].armed)
  BY Parts, Zenon DEF CtrlOK, State, SwitchArms
<1> USE DEF Works, GoesOn, MakesCall, Arms, Waiting, Arming, Completion, Awaits, At, ArmedSteps,
            SwitchSteps, RollbackSteps, Facts
<1>1. ~Cancel(r)
  BY Zenon DEF Cancel, Fault
<1>2. CASE SwitchLocal(r)
  BY <1>0, <1>2, GotoIs, RollBackIs, EndIs DEF SwitchLocal
<1>3. CASE SwitchAdopt(r)
  BY <1>0, <1>3, GotoIs, RollBackIs, EndIs DEF SwitchAdopt, NetworkFacts
<1>4. CASE SwitchAdopted(r)
  BY <1>0, <1>4, GotoIs, RollBackIs, EndIs, Zenon DEF SwitchAdopted, FinishChecked
<1>5. CASE SwitchArmed(r)
  BY <1>0, <1>5, GotoIs, RollBackIs, EndIs, ArmedIs DEF SwitchArmed, FinishReconciled
<1>6. CASE SourceDisconnect(r)
  <2>1. /\ Goto(r, "s_wait") \/ RollBack(r, "reject")
        /\ UNCHANGED ksVars /\ req[r].pc = "s_disconnect"
    BY <1>6, Zenon DEF SourceDisconnect
  <2> QED
    BY <1>0, <2>1, GotoIs, RollBackIs
<1>7. CASE SourceWait(r)
  BY <1>0, <1>7, GotoIs, RollBackIs, EndIs DEF SourceWait
<1>8. CASE TargetReady(r)
  BY <1>0, <1>8, GotoIs, RollBackIs, EndIs DEF TargetReady
<1>9. CASE TargetConnect(r)
  BY <1>0, <1>9, GotoIs, RollBackIs, EndIs DEF TargetConnect
<1>10. CASE TargetObserve(r)
  BY <1>0, <1>10, GotoIs, RollBackIs, EndIs DEF TargetObserve
<1>11. CASE SwitchCommit(r)
  BY <1>0, <1>11, GotoIs, RollBackIs, EndIs, ZenonT(60) DEF SwitchCommit
<1>12. CASE SwitchComplete(r)
  BY <1>0, <1>12, GotoIs, RollBackIs, EndIs, Zenon DEF SwitchComplete
<1>13. CASE RollTarget(r)
  BY <1>0, <1>13, GotoIs, RollBackIs, EndIs DEF RollTarget
<1>14. CASE RollWait(r)
  BY <1>0, <1>14, GotoIs, RollBackIs, EndIs DEF RollWait
<1>15. CASE RollSource(r)
  BY <1>0, <1>15, GotoIs, RollBackIs, EndIs DEF RollSource
<1>16. CASE RollProve(r)
  BY <1>0, <1>16, GotoIs, RollBackIs, EndIs DEF RollProve
<1>17. CASE RollComplete(r)
  <2>1. req'[r].pc = "r_end" /\ (req'[r].armed <=> reply[r] # "ok")
    BY <1>0, <1>17, Zenon DEF RollComplete, CtrlOK, State
  <2>2. Take(r) /\ req[r].pc = "r_complete"
    BY <1>17, Zenon DEF RollComplete
  <2>3. req'[r].armed => req[r].armed /\ reply[r] # "ok"
    BY <1>0, <2>1, <2>2, Zenon
  <2> QED
    BY <2>1, <2>2, <2>3, Zenon
<1>18. CASE RollEnd(r)
  BY <1>0, <1>18, GotoIs, RollBackIs, EndIs, ZenonT(60) DEF RollEnd, FinishChecked, FinishReconciled
<1>19. CASE ConnectCheck(r)
  BY <1>0, <1>19, GotoIs, RollBackIs, EndIs DEF ConnectCheck
<1>20. CASE ConnectArmed(r)
  BY <1>0, <1>20, GotoIs, RollBackIs, EndIs DEF ConnectArmed
<1>21. CASE ConnectDial(r)
  BY <1>0, <1>21, GotoIs, RollBackIs, EndIs DEF ConnectDial
<1>22. CASE ConnectCompleted(r)
  BY <1>0, <1>22, GotoIs, RollBackIs, EndIs DEF ConnectCompleted
<1>23. CASE ConnectAfter(r)
  BY <1>0, <1>23, GotoIs, RollBackIs, EndIs DEF ConnectAfter
<1>24. CASE ConnectStatus(r)
  BY <1>0, <1>24, GotoIs, RollBackIs, EndIs, Zenon DEF ConnectStatus
<1>25. CASE DisconnectCheck(r)
  BY <1>0, <1>25, GotoIs, RollBackIs, EndIs DEF DisconnectCheck
<1>26. CASE DisconnectArmed(r)
  BY <1>0, <1>26, GotoIs, RollBackIs, EndIs DEF DisconnectArmed
<1>27. CASE DisconnectStop(r)
  BY <1>0, <1>27, GotoIs, RollBackIs, EndIs DEF DisconnectStop
<1>28. CASE DisconnectCompleted(r)
  BY <1>0, <1>28, GotoIs, RollBackIs, EndIs DEF DisconnectCompleted
<1>29. CASE DisconnectEnd(r)
  BY <1>0, <1>29, GotoIs, RollBackIs, EndIs, Zenon DEF DisconnectEnd
<1> QED
  BY <1>1, <1>2, <1>3, <1>4, <1>5, <1>6, <1>7, <1>8, <1>9, <1>10, <1>11, <1>12, <1>13, <1>14, <1>15, <1>16, <1>17, <1>18, <1>19, <1>20, <1>21, <1>22, <1>23, <1>24, <1>25, <1>26, <1>27, <1>28, <1>29, ZenonT(60) DEF Step

\* The calls of a request.
LEMMA NotPending ==
    ASSUME TypeOK, Calls, NEW r \in Requests, req[r].pc \notin Waiting
    PROVE  ~Pending(r)
<1>1. queue \in Seq(Call)
  BY Parts, Zenon DEF KsTypeOK
<1>2. \A i \in 1..Len(queue) : queue[i] \in Call
  BY <1>1
<1>3. \A i \in 1..Len(queue) : queue[i].op \in Operation
  BY <1>2, Zenon DEF Call
<1> QED
  BY <1>3, Zenon DEF Calls, Pending, Awaits, Waiting, Operation

LEMMA NotCompleting ==
    ASSUME TypeOK, NEW r \in Requests, ~Pending(r), reply[r] # "ok"
    PROVE  ~Completing(r)
<1>1. queue # <<>> => Holder = queue[1] /\ 1 \in 1..Len(queue)
  BY TailCalls, Parts DEF KsTypeOK, Holder
<1> QED
  BY <1>1, Zenon DEF Completing, Pending

\* A call of one task changes nothing for the others.
LEMMA CallKeeps ==
    ASSUME TypeOK, NEW c \in Client, NEW op \in Operation, NEW facts \in Facts,
           Request(c, op, facts)
    PROVE  /\ queue' \in Seq(Call) /\ Len(queue') = Len(queue) + 1
           /\ \A i \in 1..Len(queue) : queue'[i] = queue[i]
           /\ queue'[Len(queue) + 1] = [by |-> c, op |-> op, facts |-> facts]
           /\ queue # <<>> => Holder' = Holder
           /\ queue' # <<>>
<1>1. queue \in Seq(Call) /\ [by |-> c, op |-> op, facts |-> facts] \in Call
  BY Parts, Zenon DEF KsTypeOK, Call
<1>2. /\ queue' \in Seq(Call) /\ Len(queue') = Len(queue) + 1
      /\ \A i \in 1..Len(queue) : queue'[i] = queue[i]
      /\ queue'[Len(queue) + 1] = [by |-> c, op |-> op, facts |-> facts]
  BY <1>1, AppendCall DEF Request
<1>3. queue' # <<>>
  BY <1>1, <1>2
<1>4. queue # <<>> => Holder' = Holder
  BY <1>1, <1>2, <1>3, TailCalls DEF Holder
<1> QED
  BY <1>2, <1>3, <1>4, Zenon

\* The effect of a call on the queue, the stages and the completions of the requests.
LEMMA CallStep ==
    ASSUME TypeOK, Calls, Stages, NEW c \in Client, NEW op \in Operation, NEW facts \in Facts,
           Request(c, op, facts),
           \A q \in Requests \ {c} : req'[q].pc = req[q].pc,
           c \in Requests => ~Pending(c) /\ req'[c].pc \in Awaits(op),
           c \in {"monitor", "web"} => op \in {"enable", "reconcile"}
    PROVE  /\ Calls' /\ Stages' /\ (Guarded' <=> Guarded)
           /\ \A q \in Requests \ {c} : /\ reply'[q] = reply[q] /\ (Pending(q)' <=> Pending(q))
                                        /\ Completing(q) => Completing(q)'
<1>0. /\ queue \in Seq(Call) /\ Len(queue) \in Nat /\ Client = Requests \cup {"monitor", "web"}
      /\ reply \in [Client -> {"none", "ok", "error"}]
  BY Parts DEF KsTypeOK, Requests
<1>1. /\ queue' \in Seq(Call) /\ Len(queue') = Len(queue) + 1
      /\ \A i \in 1..Len(queue) : queue'[i] = queue[i]
      /\ queue'[Len(queue) + 1] = [by |-> c, op |-> op, facts |-> facts]
      /\ queue # <<>> => Holder' = Holder
      /\ queue' # <<>>
  BY CallKeeps, Zenon
<1>2. UNCHANGED <<configured, transition, table, stage>> /\ reply' = [reply EXCEPT ![c] = "none"]
  BY Zenon DEF Request
<1>3. \A q \in Requests \ {c} : Pending(q)' <=> Pending(q)
  BY <1>0, <1>1 DEF Pending
<1>4. Stages'
  BY <1>1, <1>2, Zenon DEF Stages
<1>5. Calls'
  <2>1. ASSUME NEW i \in 1..Len(queue'), NEW r \in Requests, queue'[i].by = r
        PROVE  req'[r].pc \in Awaits(queue'[i].op)
    <3>1. CASE i = Len(queue) + 1
      BY <1>1, <2>1, <3>1
    <3>2. CASE i \in 1..Len(queue)
      <4>1. r # c
        BY <1>1, <2>1, <3>2, Zenon DEF Pending
      <4> QED
        BY <1>1, <2>1, <3>2, <4>1, Zenon DEF Calls
    <3> QED
      BY <1>0, <1>1, <3>1, <3>2
  <2>2. ASSUME NEW i \in 1..Len(queue'), queue'[i].by \in {"monitor", "web"}
        PROVE  queue'[i].op \in {"enable", "reconcile"}
    BY <1>0, <1>1, <2>2 DEF Calls
  <2>3. ASSUME NEW i \in 1..Len(queue'), NEW j \in 1..Len(queue'),
               queue'[i].by = queue'[j].by, queue'[i].by \in Requests
        PROVE  i = j
    BY <1>0, <1>1, <2>3 DEF Calls, Pending
  <2> QED
    BY <2>1, <2>2, <2>3, Zenon DEF Calls
<1>6. \A q \in Requests \ {c} : reply'[q] = reply[q] /\ (Completing(q) => Completing(q)')
  BY <1>0, <1>1, <1>2, <1>3, Zenon DEF Completing
<1> QED
  BY <1>2, <1>3, <1>4, <1>5, <1>6, Zenon DEF Guarded

\* A step of a request keeps the guard.
LEMMA GuardSteps ==
    ASSUME GuardInv, "cancel" \notin Faults, NEW r \in Requests, Step(r) \/ Cancel(r)
    PROVE  Calls' /\ Stages' /\ Replies' /\ GuardedHandoff'
<1>0. /\ TypeOK /\ SwitchArms /\ Serialised /\ Calls /\ Stages /\ Replies /\ GuardedHandoff
      /\ r \in Client /\ KsTypeOK
  BY Parts, Zenon DEF GuardInv, Requests
<1>1. (Works(r) \/ GoesOn(r) \/ MakesCall(r)) /\ Arms(r)
  BY <1>0, CallShape, Zenon
<1>2. \A q \in Requests \ {r} : req'[q] = req[q] /\ req[q].pc = "idle" /\ ~req[q].armed
  BY <1>0, OthersIdle, Zenon DEF SwitchArms, ArmedSteps, SwitchSteps, RollbackSteps
<1>3. "idle" \notin Waiting /\ "s_arm" \in Waiting
  BY Zenon DEF Waiting, Arming, Completion
<1>4. CASE Works(r)
  <2>1. ~Pending(r) /\ reply[r] = "none"
    BY <1>0, <1>4, NotPending, Zenon DEF Works, Replies
  <2>2. UNCHANGED <<configured, transition, table, queue, stage, reply>>
    BY <1>4, Zenon DEF Works, ksVars
  <2>3. Calls' /\ Stages'
    BY <1>0, <1>2, <2>1, <2>2, Zenon DEF Calls, Stages, Pending, Holder
  <2>4. Replies'
    BY <1>0, <1>2, <1>3, <1>4, <2>1, <2>2, Zenon DEF Replies, Works, At
  <2>5. GuardedHandoff'
    <3>1. req'[r].armed => Guarded
      BY <1>0, <1>1, <1>4, <2>1, NotCompleting, Zenon DEF Arms, Works, GuardedHandoff
    <3> QED
      BY <1>2, <2>2, <3>1, Zenon DEF GuardedHandoff, Guarded
  <2> QED
    BY <2>3, <2>4, <2>5, Zenon
<1>5. CASE GoesOn(r)
  <2>1. ~Pending(r) /\ UNCHANGED <<configured, transition, table, queue, stage>>
        /\ reply' = [reply EXCEPT ![r] = "none"]
    BY <1>5, Zenon DEF GoesOn, Take
  <2>2. reply'[r] = "none" /\ \A q \in Requests \ {r} : reply'[q] = reply[q]
    BY <1>0, <2>1, Zenon DEF KsTypeOK, Requests
  <2>3. Calls' /\ Stages'
    BY <1>0, <1>2, <2>1, Zenon DEF Calls, Stages, Pending, Holder
  <2>4. Replies'
    BY <1>0, <1>2, <1>3, <1>5, <2>2, Zenon DEF Replies, GoesOn, At
  <2>5. GuardedHandoff'
    <3>1. req'[r].armed => Guarded
      BY <1>0, <1>1, <1>5, <2>1, NotCompleting, Zenon DEF Arms, GoesOn, GuardedHandoff, Replies
    <3> QED
      BY <1>2, <2>1, <3>1, Zenon DEF GuardedHandoff, Guarded
  <2> QED
    BY <2>3, <2>4, <2>5, Zenon
<1>6. CASE MakesCall(r)
  <2>1. PICK op \in {"arm", "complete", "reconcile"}, facts \in Facts :
          Request(r, op, facts) /\ req'[r].pc \in Awaits(op)
    BY <1>6, Zenon DEF MakesCall
  <2>2. ~Pending(r) /\ reply[r] = "none" /\ req[r].pc \notin Waiting
    BY <1>0, <1>6, NotPending, Zenon DEF MakesCall, Replies
  <2>3. Calls' /\ Stages' /\ (Guarded' <=> Guarded)
        /\ \A q \in Requests \ {r} : reply'[q] = reply[q]
    BY <1>0, <1>2, <2>1, <2>2, CallStep DEF Operation, Requests
  <2>4. reply'[r] = "none" /\ req'[r].pc \in Waiting
    BY <1>0, <2>1, Zenon DEF Request, KsTypeOK, Awaits, Waiting
  <2>5. Replies'
    BY <1>0, <1>2, <1>3, <2>3, <2>4, Zenon DEF Replies, At
  <2>6. GuardedHandoff'
    <3>1. req'[r].armed => Guarded
      BY <1>0, <1>1, <1>3, <2>2, NotCompleting, Zenon DEF Arms, GuardedHandoff, At
    <3> QED
      BY <1>2, <2>3, <3>1, Zenon DEF GuardedHandoff
  <2> QED
    BY <2>3, <2>5, <2>6, Zenon
<1> QED
  BY <1>1, <1>4, <1>5, <1>6, Zenon

\* The holder answers: its call leaves the queue, and only its task gets a result.
LEMMA AnswerStep ==
    ASSUME TypeOK, Calls, queue # <<>>, NEW result \in {"ok", "error"}, Answer(result), UNCHANGED req
    PROVE  /\ Calls' /\ stage' = "entry" /\ Holder.by \in Client
           /\ reply'[Holder.by] = result
           /\ \A q \in Requests : q = Holder.by => req[q].pc \in Waiting /\ ~Pending(q)'
           /\ \A q \in Requests : q # Holder.by =>
                /\ reply'[q] = reply[q] /\ (Pending(q)' <=> Pending(q))
<1>0. queue \in Seq(Call) /\ reply \in [Client -> {"none", "ok", "error"}]
  BY Parts, Zenon DEF KsTypeOK
<1>1. /\ Len(queue) \in Nat \ {0} /\ Holder = queue[1] /\ Holder \in Call
      /\ queue' = Tail(queue) /\ queue' \in Seq(Call) /\ Len(queue') = Len(queue) - 1
      /\ \A i \in 1..Len(queue') : queue'[i] = queue[i + 1]
  BY <1>0, TailCalls, Zenon DEF Answer, Holder
<1>2. /\ Holder.by \in Client /\ Holder.op \in Operation /\ reply'[Holder.by] = result
      /\ stage' = "entry" /\ \A q \in Client : q # Holder.by => reply'[q] = reply[q]
  BY <1>0, <1>1, Zenon DEF Answer, Call
<1>3. \A i \in 1..Len(queue') : i + 1 \in 1..Len(queue) /\ i + 1 # 1
  BY <1>1
<1>4. Calls'
  <2>1. ASSUME NEW i \in 1..Len(queue'), NEW r \in Requests, queue'[i].by = r
        PROVE  req'[r].pc \in Awaits(queue'[i].op)
    BY <1>1, <1>3, <2>1, Zenon DEF Calls
  <2>2. ASSUME NEW i \in 1..Len(queue'), queue'[i].by \in {"monitor", "web"}
        PROVE  queue'[i].op \in {"enable", "reconcile"}
    BY <1>1, <1>3, <2>2, Zenon DEF Calls
  <2>3. ASSUME NEW i \in 1..Len(queue'), NEW j \in 1..Len(queue'),
               queue'[i].by = queue'[j].by, queue'[i].by \in Requests
        PROVE  i = j
    <3>1. i + 1 = j + 1
      BY <1>1, <1>3, <2>3, ZenonT(60) DEF Calls
    <3> QED
      BY <3>1
  <2> QED
    BY <2>1, <2>2, <2>3, Zenon DEF Calls
<1>5. \A q \in Requests : q # Holder.by => (Pending(q)' <=> Pending(q))
  <2>1. ASSUME NEW q \in Requests, q # Holder.by, Pending(q) PROVE Pending(q)'
    <3>1. PICK i \in 1..Len(queue) : queue[i].by = q
      BY <2>1, Zenon DEF Pending
    <3>2. i # 1
      BY <1>1, <2>1, <3>1, Zenon
    <3>3. i - 1 \in 1..Len(queue') /\ queue'[i - 1] = queue[i]
      BY <1>1, <3>1, <3>2
    <3> QED
      BY <3>1, <3>3, Zenon DEF Pending
  <2>2. ASSUME NEW q \in Requests, Pending(q)' PROVE Pending(q)
    BY <1>1, <1>3, <2>2, Zenon DEF Pending
  <2> QED
    BY <2>1, <2>2, Zenon
<1>6. ASSUME NEW q \in Requests, q = Holder.by PROVE req[q].pc \in Waiting /\ ~Pending(q)'
  <2>1. 1 \in 1..Len(queue)
    BY <1>1
  <2>2. req[q].pc \in Waiting
    BY <1>1, <1>2, <1>6, <2>1, Zenon DEF Calls, Awaits, Waiting
  <2>3. \A i \in 1..Len(queue') : queue'[i].by # q
    BY <1>1, <1>3, <1>6, <2>1, ZenonT(60) DEF Calls
  <2> QED
    BY <2>2, <2>3, Zenon DEF Pending
<1> QED
  BY <1>2, <1>4, <1>5, <1>6, Zenon DEF Requests

\* A completion that holds the lock is that of the one request that runs.
LEMMA HolderCompletes ==
    ASSUME GuardInv, queue # <<>>, Holder.op = "complete"
    PROVE  /\ Holder.by \in Requests /\ req[Holder.by].pc \in Completion
           /\ \A q \in Requests : q # Holder.by => req[q].pc = "idle" /\ ~req[q].armed
<1>0. queue \in Seq(Call) /\ Client = Requests \cup {"monitor", "web"} /\ Calls /\ Serialised
      /\ SwitchArms
  BY Parts, Zenon DEF KsTypeOK, Requests, GuardInv
<1>1. Holder = queue[1] /\ Holder \in Call /\ 1 \in 1..Len(queue)
  BY <1>0, TailCalls DEF Holder
<1>2. Holder.by \in Requests
  BY <1>0, <1>1, Zenon DEF Calls, Call
<1>3. req[Holder.by].pc \in Completion
  BY <1>0, <1>1, <1>2, Zenon DEF Calls, Awaits
<1>4. \A q \in Requests : q # Holder.by => req[q].pc = "idle"
  BY <1>0, <1>2, <1>3, Zenon DEF Serialised, At, Completion
<1> QED
  BY <1>0, <1>2, <1>3, <1>4, Zenon DEF SwitchArms, ArmedSteps, SwitchSteps, RollbackSteps

\* An answer to any call but a completion, after which the guard is as it was or closed.
LEMMA OtherAnswer ==
    ASSUME GuardInv, queue # <<>>, Holder.op # "complete", NEW result \in {"ok", "error"},
           Answer(result), UNCHANGED req, Guarded => Guarded',
           result = "ok" /\ Holder.op = "arm" => Guarded'
    PROVE  Calls' /\ Stages' /\ Replies' /\ GuardedHandoff'
<1>0. TypeOK /\ KsTypeOK /\ Calls /\ Replies /\ GuardedHandoff /\ queue \in Seq(Call)
  BY Parts, Zenon DEF GuardInv, KsTypeOK
<1>1. Holder = queue[1] /\ 1 \in 1..Len(queue) /\ Holder \in Call
  BY <1>0, TailCalls DEF Holder
<1>2. /\ Calls' /\ stage' = "entry" /\ reply'[Holder.by] = result
      /\ \A q \in Requests : q = Holder.by => req[q].pc \in Waiting /\ ~Pending(q)'
      /\ \A q \in Requests : q # Holder.by => reply'[q] = reply[q] /\ (Pending(q)' <=> Pending(q))
  BY <1>0, AnswerStep, Zenon
<1>3. Stages'
  BY <1>2, Zenon DEF Stages
<1>4. ASSUME NEW q \in Requests, At(q, "s_arm"), ~Pending(q)', reply'[q] = "ok" PROVE Guarded'
  <2>1. CASE q = Holder.by
    <3>1. Holder.op = "arm"
      BY <1>0, <1>1, <1>4, <2>1, Zenon DEF Calls, Awaits, Completion, At, Call, Operation
    <3> QED
      BY <1>2, <1>4, <2>1, <3>1, Zenon
  <2>2. CASE q # Holder.by
    BY <1>0, <1>2, <1>4, <2>2, Zenon DEF Replies
  <2> QED
    BY <2>1, <2>2, Zenon
<1>5. Replies'
  BY <1>0, <1>2, <1>4, Zenon DEF Replies, At
<1>6. ASSUME NEW q \in Requests, req[q].armed, ~Completing(q)' PROVE Guarded'
  <2>1. ~Completing(q)
    BY <1>1, <1>2, <1>6, Zenon DEF Completing, Pending
  <2> QED
    BY <1>0, <1>6, <2>1, Zenon DEF GuardedHandoff
<1> QED
  BY <1>2, <1>3, <1>5, <1>6, Zenon DEF GuardedHandoff

\* A step of the killswitch keeps the guard.
LEMMA GuardLock ==
    ASSUME GuardInv, "nft_late" \notin Faults, Lock
    PROVE  Calls' /\ Stages' /\ Replies' /\ GuardedHandoff'
<1>0. /\ TypeOK /\ KsTypeOK /\ SwitchArms /\ Calls /\ Stages /\ Replies /\ GuardedHandoff
      /\ UNCHANGED req /\ queue \in Seq(Call)
  BY Parts, Zenon DEF GuardInv, Lock, others, KsTypeOK
<1>1. queue # <<>> /\ (Enter \/ Apply \/ ApplyFails({table}) \/ Settle \/ Return)
  BY Zenon DEF Lock, Fault, Enter, Apply, ApplyFails, Settle, Return, AtTable
<1>2. Holder = queue[1] /\ 1 \in 1..Len(queue) /\ Holder \in Call
  BY <1>0, <1>1, TailCalls DEF Holder
<1>3. Holder.op \in {"enable", "reconcile", "arm", "complete"}
  <2>1. Holder.by \in Requests \cup {"monitor", "web"} /\ Holder.op \in Operation
    BY <1>2, Zenon DEF Call, Requests
  <2> QED
    BY <1>0, <1>2, <2>1, Zenon DEF Calls, Awaits, Operation
<1>4. ASSUME UNCHANGED <<queue, reply>>, queue # <<>>
      PROVE  Calls' /\ \A q \in Requests : Pending(q)' <=> Pending(q)
  BY <1>0, <1>4, Zenon DEF Calls, Pending
<1>5. CASE Holder.op # "complete"
  <2>1. CASE Enter
    BY <1>0, <1>1, <1>4, <1>5, <2>1, Zenon
       DEF Enter, Stages, Replies, GuardedHandoff, Completing, Guarded, Holder, At
  <2>2. Apply => table' = Goal(Holder) /\ transition' = transition
    BY Zenon DEF Apply
  <2>3. Apply => (Guarded => Guarded')
    BY <1>0, <1>1, <1>3, <1>5, <2>2, GuardedGoal, Zenon DEF Guarded
  <2>4. CASE Apply /\ Holder.op \in {"arm", "reconcile"}
    <3>1. Answer("ok")
      BY <2>4, Zenon DEF Apply
    <3>2. Holder.op = "arm" => Guarded'
      BY <1>0, <2>2, <2>4, Zenon DEF Apply, AtTable, Stages, Goal, Guarded
    <3> QED
      BY <1>0, <1>1, <1>5, <2>3, <2>4, <3>1, <3>2, OtherAnswer, Zenon
  <2>5. CASE Apply /\ Holder.op \notin {"arm", "reconcile"}
    <3>1. stage' = "settle" /\ UNCHANGED <<queue, reply>> /\ Holder.op = "enable"
      BY <1>3, <1>5, <2>5, Zenon DEF Apply
    <3> QED
      BY <1>0, <1>1, <1>4, <1>5, <2>3, <2>5, <3>1, Zenon
         DEF Stages, Replies, GuardedHandoff, Completing, Holder, At
  <2>6. CASE ApplyFails({table})
    <3>1. Answer("error") /\ (Guarded => Guarded')
      BY <2>6, Zenon DEF ApplyFails, Guarded
    <3> QED
      BY <1>0, <1>1, <1>5, <3>1, OtherAnswer, Zenon
  <2>7. CASE Settle
    <3>1. Answer("ok") /\ Holder.op = "enable" /\ (Guarded => Guarded')
      BY <1>0, <1>5, <2>7, Zenon DEF Settle, Stages, Guarded
    <3> QED
      BY <1>0, <1>1, <1>5, <3>1, OtherAnswer, Zenon
  <2>8. ~Return
    BY <1>0, <1>5, Zenon DEF Return, Stages
  <2> QED
    BY <1>1, <2>1, <2>4, <2>5, <2>6, <2>7, <2>8, Zenon
<1>6. CASE Holder.op = "complete"
  <2> DEFINE r == Holder.by
  <2>1. /\ r \in Requests /\ req[r].pc \in Completion
        /\ \A q \in Requests : q # r => req[q].pc = "idle" /\ ~req[q].armed
    BY <1>1, <1>6, HolderCompletes, Zenon
  <2>2. \A q \in Requests : ~At(q, "s_arm")
    BY <2>1, Zenon DEF At, Completion
  <2>3. \A q \in Requests : q # r => req[q].pc \notin Waiting
    BY <2>1, Zenon DEF Waiting, Arming, Completion
  <2>4. ASSUME UNCHANGED <<queue, reply>>, stage' \in {"settle", "status"}
        PROVE  Calls' /\ Stages' /\ Replies' /\ GuardedHandoff'
    <3>1. Completing(r)'
      BY <1>1, <1>6, <2>4, Zenon DEF Completing, Holder
    <3> QED
      BY <1>0, <1>1, <1>4, <1>6, <2>1, <2>2, <2>4, <3>1, Zenon
         DEF Stages, Replies, GuardedHandoff, Holder, At
  <2>5. ASSUME NEW result \in {"ok", "error"}, Answer(result)
        PROVE  /\ Calls' /\ Stages' /\ Replies'
               /\ \A q \in Requests : q = Holder.by => ~Pending(q)' /\ reply'[q] = result
    BY <1>0, <1>1, <2>2, <2>3, <2>5, AnswerStep, Zenon DEF Stages, Replies, At
  <2>6. CASE Apply \/ Settle
    BY <1>6, <2>4, <2>6, Zenon DEF Apply, Settle
  <2>7. CASE ApplyFails({table})
    <3>1. Answer("error") /\ (Guarded => Guarded') /\ stage \in {"entry", "apply"}
      BY <2>7, Zenon DEF ApplyFails, AtTable, Guarded
    <3>2. ~Completing(r)
      BY <1>2, <3>1, Zenon DEF Completing, Pending
    <3> QED
      BY <1>0, <2>1, <2>5, <3>1, <3>2, Zenon DEF GuardedHandoff
  <2>8. CASE Return
    <3>1. Answer("ok")
      BY <2>8, Zenon DEF Return
    <3>2. \A q \in Requests : q = r => Completing(q)'
      BY <2>5, <3>1, Zenon DEF Completing
    <3> QED
      BY <1>0, <2>1, <2>5, <3>1, <3>2, Zenon DEF GuardedHandoff
  <2>9. ~Enter
    BY <1>6, Zenon DEF Enter
  <2> QED
    BY <1>1, <2>6, <2>7, <2>8, <2>9, Zenon
<1> QED
  BY <1>5, <1>6, Zenon

\* The monitor and the web interface reconcile and enable only, which keeps the guard.
LEMMA GuardTasks ==
    ASSUME GuardInv, NEW c \in {"monitor", "web"}, UNCHANGED req,
           \/ \E op \in {"reconcile", "enable"}, facts \in Facts : Request(c, op, facts)
           \/ Take(c) \/ UNCHANGED ksVars
    PROVE  Calls' /\ Stages' /\ Replies' /\ GuardedHandoff'
<1>0. /\ TypeOK /\ KsTypeOK /\ Calls /\ Stages /\ Replies /\ GuardedHandoff
      /\ c \in Client /\ c \notin Requests
  BY Parts, Zenon DEF GuardInv, Requests
<1>1. ASSUME NEW op \in {"reconcile", "enable"}, NEW facts \in Facts, Request(c, op, facts)
      PROVE  Calls' /\ Stages' /\ Replies' /\ GuardedHandoff'
  <2>1. /\ Calls' /\ Stages' /\ (Guarded' <=> Guarded)
        /\ \A q \in Requests : /\ reply'[q] = reply[q] /\ (Pending(q)' <=> Pending(q))
                               /\ Completing(q) => Completing(q)'
    BY <1>0, <1>1, CallStep, Zenon DEF Operation
  <2> QED
    BY <1>0, <2>1, Zenon DEF Replies, GuardedHandoff, At
<1>2. CASE Take(c) \/ UNCHANGED ksVars
  <2>1. /\ UNCHANGED <<configured, transition, table, queue, stage>>
        /\ \A q \in Requests : reply'[q] = reply[q]
    BY <1>0, <1>2, Zenon DEF Take, ksVars, KsTypeOK, Requests
  <2> QED
    BY <1>0, <2>1, Zenon DEF Calls, Stages, Replies, GuardedHandoff, Completing, Guarded, Pending, Holder, At
<1> QED
  BY <1>1, <1>2, Zenon

\* Every step keeps the guard of the switch that holds it.
LEMMA GuardStep ==
    ASSUME GuardInv, Faults \cap {"cancel", "nft_late"} = {}, "disable" \notin Web, [Next]_vars
    PROVE  GuardInv'
<1>0. /\ TypeOK' /\ Claimed' /\ Serialised' /\ SwitchArms'
      /\ TypeOK /\ CtrlOK /\ TaskOK /\ Calls /\ Stages /\ Replies /\ GuardedHandoff
  BY TypeStep, SerialStep, ArmedStep, Parts, Zenon DEF GuardInv
<1> SUFFICES Calls' /\ Stages' /\ Replies' /\ GuardedHandoff'
  BY <1>0, Zenon DEF GuardInv
<1>1. ASSUME NEW r \in Requests, Step(r) \/ Cancel(r)
      PROVE  Calls' /\ Stages' /\ Replies' /\ GuardedHandoff'
  BY <1>1, GuardSteps, Zenon
<1>2. CASE Lock
  BY <1>2, GuardLock, Zenon
<1>3. CASE Monitor \/ WebRequest \/ WebDisable \/ WebEnable
  <2>1. UNCHANGED req
    BY <1>3, Zenon DEF Monitor, WebRequest, WebDisable, WebEnable, MonitorTick, MonitorApply,
       MonitorDone, WebEnableApply, WebDone, others
  <2>2. mon.seen \in Facts /\ web.seen \in Facts /\ "transition" \in Facts
    BY <1>0, Zenon DEF TaskOK, Facts
  <2>3. \E c \in {"monitor", "web"} :
          \/ \E op \in {"reconcile", "enable"}, facts \in Facts : Request(c, op, facts)
          \/ Take(c) \/ UNCHANGED ksVars
    BY <1>3, <2>2, Zenon DEF Monitor, WebRequest, WebDisable, WebEnable, MonitorTick, MonitorApply,
       MonitorDone, WebEnableApply, WebDone
  <2> QED
    BY <2>1, <2>3, GuardTasks, Zenon
<1>4. CASE UNCHANGED <<ksVars, req>>
  BY <1>4, GuardTasks, Zenon
<1>5. CASE UNCHANGED vars \/ \E p \in Provider : TunnelLost(p) \/ LateConnect(p)
  BY <1>4, <1>5, Zenon DEF TunnelLost, LateConnect, vars
<1>6. ASSUME NEW r \in Requests, NEW conn, NEW pc \in {"s_local", "c_check", "d_check"},
             NEW source, NEW target, Begin(r, conn, pc, source, target)
      PROVE  Calls' /\ Stages' /\ Replies' /\ GuardedHandoff'
  <2>1. /\ req'[r].pc = pc /\ ~req'[r].armed /\ req[r].pc = "idle" /\ UNCHANGED ksVars
        /\ \A q \in Requests \ {r} : req'[q] = req[q]
    BY <1>0, <1>6, Zenon DEF Begin, CtrlOK, At
  <2>2. {"idle", "s_local", "c_check", "d_check"} \cap Waiting = {}
    BY Zenon DEF Waiting, Arming, Completion
  <2>3. ~Pending(r) /\ reply[r] = "none"
    BY <1>0, <2>1, <2>2, NotPending, Zenon DEF Replies
  <2>4. Calls' /\ Stages'
    BY <1>0, <2>1, <2>3, ZenonT(60) DEF Calls, Stages, Pending, ksVars, Holder
  <2>5. Replies'
    BY <1>0, <2>1, <2>2, <2>3, Zenon DEF Replies, ksVars, Guarded, Pending, At
  <2>6. GuardedHandoff'
    BY <1>0, <2>1, Zenon DEF GuardedHandoff, ksVars, Guarded, Completing, Pending, Holder
  <2> QED
    BY <2>4, <2>5, <2>6, Zenon
<1>7. CASE Restart \/ Reboot
  <2>1. /\ \A q \in Requests : req'[q].pc = "idle" /\ ~req'[q].armed
        /\ queue' = <<>> /\ stage' = "entry" /\ \A q \in Requests : reply'[q] = "none"
    BY <1>7 DEF Restart, Reboot, ServiceEnds, NoRequest, Idle, KsRestart, KsReboot, Requests
  <2>2. Calls' /\ Stages'
    BY <2>1 DEF Calls, Stages
  <2> QED
    BY <2>1, <2>2, Zenon DEF Replies, GuardedHandoff, At
<1> QED
  BY <1>1, <1>2, <1>3, <1>5, <1>6, <1>7, Zenon DEF Next, Switch, Connect, Disconnect

LEMMA GuardInit == Init => GuardInv
<1> SUFFICES ASSUME Init PROVE GuardInv
  BY Zenon
<1>1. TypeOK /\ Claimed /\ Serialised /\ SwitchArms
  BY TypeInit, SerialInit, Zenon
<1>2. /\ \A q \in Requests : req[q].pc = "idle" /\ ~req[q].armed
      /\ queue = <<>> /\ stage = "entry" /\ \A q \in Requests : reply[q] = "none"
  BY Zenon DEF Init, KsInit, NoRequest, Idle, Requests
<1>3. Calls /\ Stages
  BY <1>2 DEF Calls, Stages
<1> QED
  BY <1>1, <1>2, <1>3, Zenon DEF GuardInv, Replies, GuardedHandoff, At

\* A switch holds its guard from the arming to its own completion, for any number of requests and
\* providers and with failures of every kind but a cancelled task and a load that nft did not
\* report, as long as nobody disables the killswitch meanwhile.
THEOREM HandoffIsGuarded ==
    ASSUME Faults \cap {"cancel", "nft_late"} = {}, "disable" \notin Web
    PROVE  Spec => []GuardedHandoff
<1>1. Spec => []GuardInv
  BY GuardInit, GuardStep, PTL DEF Spec
<1>2. GuardInv => GuardedHandoff
  BY Zenon DEF GuardInv
<1> QED
  BY <1>1, <1>2, PTL
=============================================================================
