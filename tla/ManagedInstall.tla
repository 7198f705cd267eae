--------------------------- MODULE ManagedInstall ---------------------------
(***************************************************************************)
(* Installing software on the host: the NordVPN client (providers/         *)
(* nordvpn.py, installer/install-nordvpn.sh) and the speed test            *)
(* (services/speedtest_installation.py, installer/install-speedtest.sh).   *)
(*                                                                         *)
(* Each tool has a systemd unit that runs a helper script.  The script     *)
(* tells the application how far it is through a phase file; the           *)
(* application finds out by polling, and for NordVPN a poll also drives    *)
(* what is left to do after the script: the gateway settings.              *)
(***************************************************************************)
EXTENDS Naturals

CONSTANTS
  MaxStarts,  \* bound: installations requested, for both tools
  MaxFaults,  \* bound: failures of a helper, of a daemon, of the application
  None

VARIABLES
  unit,      \* tool -> state of its systemd unit
  run,       \* tool -> current_phase of its running script
  phase,     \* tool -> contents of its phase file
  held,      \* the tool whose script holds the package lock
  present,   \* tool -> its program is installed
  daemon,    \* nordvpnd answers
  settings,  \* the gateway settings of the NordVPN client are applied
  starting,  \* tool -> _installation_starting, _starting
  task,      \* _gateway_defaults_task
  call,      \* tool -> caller -> its status call
  answer,    \* the last answer about NordVPN
  starts, faults

vars == <<unit, run, phase, held, present, daemon, settings, starting, task, call, answer,
          starts, faults>>

host == <<unit, run, held, present, daemon, settings>>

Tools == {"nord", "speed"}
Callers == {"poll", "start"}

\* Downloading, verifying and installing are told apart by nothing here.
Phases == {"checking", "installing", "daemon", "waiting", "gateway", "validating"}

\* The phase file: a phase, or the phase that failed; without a file, None.
File(p) == [at |-> p, failed |-> FALSE]
Failed(p) == [at |-> p, failed |-> TRUE]

Idle == [pc |-> "idle", unit |-> None, phase |-> File(None), well |-> FALSE, retry |-> None]

Init ==
  /\ unit = [t \in Tools |-> "inactive"]
  /\ run = [t \in Tools |-> None]
  /\ phase = [t \in Tools |-> File(None)]
  /\ held = None
  /\ present \in [Tools -> BOOLEAN]
  /\ daemon = FALSE /\ settings = FALSE
  /\ starting = [t \in Tools |-> FALSE]
  /\ task = None
  /\ call = [t \in Tools |-> [c \in Callers |-> Idle]]
  /\ answer = None
  /\ starts = 0 /\ faults = 0

Fault == faults < MaxFaults /\ faults' = faults + 1

-----------------------------------------------------------------------------
(* The helper scripts. *)

\* Mutant: the script names a phase the application does not know.
ScriptUnknown(t, p) ==
  /\ run' = [run EXCEPT ![t] = p]
  /\ phase' = [phase EXCEPT ![t] = File(IF p = "daemon" THEN "enabling" ELSE p)]

Script(t, p) ==
  /\ run' = [run EXCEPT ![t] = p]
  /\ phase' = [phase EXCEPT ![t] = File(p)]

Exits(t, state) ==
  /\ unit' = [unit EXCEPT ![t] = state]
  /\ run' = [run EXCEPT ![t] = None]
  /\ held' = (IF held = t THEN None ELSE held)

HelperBegins(t) ==
  /\ unit[t] = "queued"
  /\ unit' = [unit EXCEPT ![t] = "active"]
  /\ Script(t, "checking")
  /\ UNCHANGED <<held, present, daemon, settings, starting, task, call, answer, starts, faults>>

\* die: the failure names the phase it happened in.
HelperDies(t) ==
  /\ phase' = [phase EXCEPT ![t] = Failed(run[t])]
  /\ Exits(t, "failed")

\* flock -n: the other tool's script may be installing.  A client that is
\* there already only has its daemon started.
HelperLocks(t) ==
  /\ run[t] = "checking"
  /\ \/ /\ held # None
        /\ HelperDies(t)
     \/ /\ held = None
        /\ ~present[t]
        /\ held' = t
        /\ Script(t, "installing")
        /\ UNCHANGED unit
     \/ /\ held = None
        /\ present[t] /\ t = "nord"
        /\ held' = t
        /\ Script(t, "daemon")
        /\ UNCHANGED unit
  /\ UNCHANGED <<present, daemon, settings, starting, task, call, answer, starts, faults>>

SpeedFound ==
  /\ run["speed"] = "checking"
  /\ held = None /\ present["speed"]
  /\ phase' = [phase EXCEPT !["speed"] = File("completed")]
  /\ Exits("speed", "inactive")
  /\ UNCHANGED <<present, daemon, settings, starting, task, call, answer, starts, faults>>

HelperInstalls(t) ==
  /\ run[t] = "installing"
  /\ present' = [present EXCEPT ![t] = TRUE]
  /\ Script(t, IF t = "nord" THEN "daemon" ELSE "validating")
  /\ settings' = (IF t = "nord" THEN FALSE ELSE settings)
  /\ UNCHANGED <<unit, held, daemon, starting, task, call, answer, starts, faults>>

HelperStartsDaemon ==
  /\ run["nord"] = "daemon"
  /\ daemon' = TRUE
  /\ Script("nord", "waiting")
  /\ UNCHANGED <<unit, held, present, settings, starting, task, call, answer, starts, faults>>

\* wait_for_provider: the NordVPN script ends in this phase.
HelperReady ==
  /\ run["nord"] = "waiting"
  /\ daemon
  /\ Exits("nord", "inactive")
  /\ UNCHANGED <<phase, present, daemon, settings, starting, task, call, answer, starts, faults>>

\* official_cli_installed, then "completed".
SpeedValidated ==
  /\ run["speed"] = "validating"
  /\ phase' = [phase EXCEPT !["speed"] = File("completed")]
  /\ Exits("speed", "inactive")
  /\ UNCHANGED <<present, daemon, settings, starting, task, call, answer, starts, faults>>

HelperFails(t) ==
  /\ run[t] # None
  /\ run[t] = "waiting" => ~daemon
  /\ Fault
  /\ HelperDies(t)
  /\ UNCHANGED <<present, daemon, settings, starting, task, call, answer, starts>>

\* TimeoutStartSec, or a signal: the phase file keeps the phase.
HelperKilled(t) ==
  /\ run[t] # None
  /\ Fault
  /\ Exits(t, "failed")
  /\ UNCHANGED <<phase, present, daemon, settings, starting, task, call, answer, starts>>

DaemonFlaps ==
  /\ present["nord"]
  /\ IF daemon THEN Fault ELSE UNCHANGED faults
  /\ daemon' = ~daemon
  /\ UNCHANGED <<unit, run, phase, held, present, settings, starting, task, call, answer,
                 starts>>

\* gateway_settings_status: the client's settings are the managed ones.
SettingsMatch == settings

\* defaults(): sets what differs and reads the settings back.
DefaultsApplied ==
  /\ task = "running" /\ daemon
  /\ settings' = TRUE
  /\ task' = "good"
  /\ UNCHANGED <<unit, run, phase, held, present, daemon, starting, call, answer, starts, faults>>

DefaultsFail ==
  /\ task = "running"
  /\ daemon => Fault
  /\ ~daemon => UNCHANGED faults
  /\ task' = "bad"
  /\ UNCHANGED <<unit, run, phase, held, present, daemon, settings, starting, call, answer,
                 starts>>

-----------------------------------------------------------------------------
(* NordVPN: installation_status, under its lock. *)

\* _installation_health: program, unit and daemon are there and answer.
Healthy == present["nord"] /\ daemon

Sets(t, c, value) == call' = [call EXCEPT ![t][c] = value]

StatusLocked == \E c \in Callers : call["nord"][c].pc \in {"health", "decide"}

StatusRead(c) ==
  /\ ~StatusLocked
  /\ \/ c = "poll" /\ call["nord"][c].pc = "idle"
     \/ c = "start" /\ call["nord"][c].pc = "begin"
  /\ Sets("nord", c, [Idle EXCEPT !.pc = "health", !.unit = unit["nord"],
                                  !.phase = phase["nord"]])
  /\ UNCHANGED <<host, phase, starting, task, answer, starts, faults>>

StatusHealth(c) ==
  /\ call["nord"][c].pc = "health"
  /\ Sets("nord", c, [call["nord"][c] EXCEPT !.pc = "decide",
                                             !.well = Healthy])
  /\ UNCHANGED <<host, phase, starting, task, answer, starts, faults>>

\* What a failed phase is retried with: _installation_response.
RetryOf(p) ==
  CASE p = "gateway" -> "reapply"
    [] p \in {"daemon", "waiting"} -> "recheck"
    [] p = "validating" -> "revalidate"
    [] OTHER -> "restart"

\* The answer, the phase file and the task that a status call leaves.
Result(state, retry, file, t) == [state |-> state, retry |-> retry, file |-> file, task |-> t]

\* Mutant: a task that ended counts as applied.
AppliedAny(result) == result # None

\* What the finished task read back, and the phase that follows.
Applied(result) == result = "good"

\* Mutant: the phase is left as it was.
AfterDefaultsAgain == File("gateway")

AfterDefaults == File("validating")

Installed(s) ==
  IF s.phase = Failed("gateway") /\ ~SettingsMatch
  THEN Result("failed", "reapply", phase["nord"], task)
  ELSE IF s.phase = Failed("gateway")
  THEN Result("installing", None, File("validating"), task)
  ELSE IF s.phase = File("completed")
  THEN Result("completed", None, phase["nord"], task)
  ELSE IF s.phase = File("validating")
  THEN Result("completed", None, File("completed"), task)
  ELSE IF task = None
  THEN Result("installing", None, File("gateway"), "running")
  ELSE IF task = "running"
  THEN Result("installing", None, phase["nord"], task)
  ELSE IF ~Applied(task)
  THEN Result("failed", "reapply", Failed("gateway"), None)
  ELSE IF ~Healthy
  THEN Result("failed", "revalidate", phase["nord"], None)
  ELSE Result("installing", None, AfterDefaults, None)

Decision(s) ==
  IF starting["nord"] \/ s.unit = "active"
  THEN Result("installing", None, phase["nord"], task)
  ELSE IF s.well
  THEN Installed(s)
  ELSE IF s.phase.failed
  THEN Result("failed", RetryOf(s.phase.at), phase["nord"], task)
  ELSE IF s.unit = "failed"
  THEN Result("failed", RetryOf(IF s.phase.at \in Phases THEN s.phase.at ELSE "installing"),
              phase["nord"], task)
  ELSE Result("unavailable", None, phase["nord"], task)

StatusAnswer(c) ==
  /\ call["nord"][c].pc = "decide"
  /\ LET d == Decision(call["nord"][c]) IN
       /\ phase' = [phase EXCEPT !["nord"] = d.file]
       /\ task' = d.task
       /\ answer' = d.state
       /\ Sets("nord", c,
               IF c = "poll" \/ d.state = "installing" \/ starting["nord"] THEN Idle
               ELSE [Idle EXCEPT !.pc = "act", !.retry = d.retry,
                                 !.well = call["nord"][c].well])
  /\ UNCHANGED <<host, starting, starts, faults>>

\* start_installation goes on where its status call returned, without a pause.
StartRetries ==
  /\ call["nord"]["start"].pc = "act"
  /\ LET s == call["nord"]["start"]
         reapply == s.retry = "reapply" /\ s.well
         revalidate == s.retry = "revalidate" /\ s.well
         recheck == s.retry = "recheck" /\ present["nord"]
     IN /\ phase' = [phase EXCEPT !["nord"] = CASE reapply -> File("gateway")
                                                [] revalidate -> File("validating")
                                                [] recheck -> File("waiting")
                                                [] OTHER -> File(None)]
        /\ task' = (IF reapply THEN "running" ELSE task)
        /\ starting' = [starting EXCEPT !["nord"] = ~(reapply \/ revalidate)]
        /\ Sets("nord", "start", IF reapply \/ revalidate THEN Idle
                                 ELSE [s EXCEPT !.pc = IF recheck THEN "enable" ELSE "reset"])
  /\ UNCHANGED <<host, answer, starts, faults>>

StartEnables ==
  /\ call["nord"]["start"].pc = "enable"
  /\ daemon' \in {daemon, TRUE}
  /\ starting' = [starting EXCEPT !["nord"] = FALSE]
  /\ Sets("nord", "start", Idle)
  /\ UNCHANGED <<unit, run, held, present, settings, phase, task, answer, starts, faults>>

-----------------------------------------------------------------------------
(* The speed test: status has no lock of its own. *)

\* _official_cli_state: the pinned package owns the program.
OfficialCli == present["speed"]

SpeedProgram(c) ==
  /\ \/ c = "poll" /\ call["speed"][c].pc = "idle"
     \/ c = "start" /\ call["speed"][c].pc = "begin"
  /\ starting' = [starting EXCEPT !["speed"] = @ /\ ~OfficialCli]
  /\ Sets("speed", c, IF OfficialCli THEN Idle ELSE [Idle EXCEPT !.pc = "decide"])
  /\ UNCHANGED <<host, phase, task, answer, starts, faults>>

\* A running unit wins over an old phase, and a failure over the mark that a
\* start was accepted.
SpeedDecision ==
  IF unit["speed"] = "active" THEN "running"
  ELSE IF phase["speed"].failed \/ unit["speed"] = "failed" THEN "failed"
  ELSE IF starting["speed"] THEN "running"
  ELSE "unavailable"

\* _clear_stale_failed_phase: a failure of an earlier attempt is forgotten.
ClearStale(p) == IF p.failed THEN File(None) ELSE p

SpeedAnswer(c) ==
  /\ call["speed"][c].pc = "decide"
  /\ LET d == SpeedDecision
         accepted == c = "start" /\ d # "running"
     IN /\ starting' = [starting EXCEPT !["speed"] = (@ /\ d = "running") \/ accepted]
        /\ phase' = [phase EXCEPT !["speed"] = IF accepted THEN ClearStale(@) ELSE @]
        /\ Sets("speed", c, IF accepted THEN [Idle EXCEPT !.pc = "reset"] ELSE Idle)
  /\ UNCHANGED <<host, task, answer, starts, faults>>

\* systemctl reset-failed, before the unit is started.
ResetFailed(t) ==
  /\ call[t]["start"].pc = "reset"
  /\ unit' = [unit EXCEPT ![t] = IF @ = "failed" THEN "inactive" ELSE @]
  /\ Sets(t, "start", [Idle EXCEPT !.pc = "enqueue"])
  /\ UNCHANGED <<run, held, present, daemon, settings, phase, starting, task, answer, starts,
                 faults>>

-----------------------------------------------------------------------------
Request(t) ==
  /\ call[t]["start"].pc = "idle"
  /\ starts < MaxStarts
  /\ starts' = starts + 1
  /\ Sets(t, "start", [Idle EXCEPT !.pc = "begin"])
  /\ UNCHANGED <<host, phase, starting, task, answer, faults>>

\* systemctl start --no-block: nothing happens to a unit that is on its way.
Enqueue(t) ==
  /\ call[t]["start"].pc = "enqueue"
  /\ unit' = [unit EXCEPT ![t] = IF @ \in {"queued", "active"} THEN @ ELSE "queued"]
  /\ starting' = (IF t = "nord" THEN [starting EXCEPT ![t] = FALSE] ELSE starting)
  /\ Sets(t, "start", Idle)
  /\ UNCHANGED <<run, held, present, daemon, settings, phase, task, answer, starts, faults>>

EnqueueFails(t) ==
  /\ call[t]["start"].pc = "enqueue"
  /\ Fault
  /\ starting' = [starting EXCEPT ![t] = FALSE]
  /\ Sets(t, "start", Idle)
  /\ UNCHANGED <<host, phase, task, answer, starts>>

AppRestarts ==
  /\ Fault
  /\ starting' = [t \in Tools |-> FALSE]
  /\ task' = None
  /\ call' = [t \in Tools |-> [c \in Callers |-> Idle]]
  /\ UNCHANGED <<host, phase, answer, starts>>

Helper(t) ==
  \/ HelperBegins(t)
  \/ HelperLocks(t)
  \/ HelperInstalls(t)
  \/ t = "nord" /\ HelperStartsDaemon
  \/ t = "nord" /\ HelperReady
  \/ t = "speed" /\ (SpeedFound \/ SpeedValidated)

Defaults == DefaultsApplied \/ DefaultsFail

Status(c) ==
  \/ StatusRead(c)
  \/ StatusHealth(c)
  \/ StatusAnswer(c)

Speed(c) ==
  \/ SpeedProgram(c)
  \/ SpeedAnswer(c)

Starting ==
  \/ StartRetries
  \/ StartEnables
  \/ \E t \in Tools : ResetFailed(t) \/ Enqueue(t)

Next ==
  \/ \E t \in Tools : Helper(t)
  \/ \E t \in Tools : HelperFails(t)
  \/ \E t \in Tools : HelperKilled(t)
  \/ DaemonFlaps
  \/ Defaults
  \/ \E c \in Callers : Status(c)
  \/ \E c \in Callers : Speed(c)
  \/ Starting
  \/ \E t \in Tools : Request(t)
  \/ \E t \in Tools : EnqueueFails(t)
  \/ AppRestarts

\* systemd runs a queued unit and its script, the event loop runs the task and
\* the requests it accepted, and somebody polls: the monitor of an accepted
\* start, or the page that shows it.  systemd restarts a daemon that stopped.
Working == Defaults \/ Starting \/ \E t \in Tools : Helper(t)
Polling == \E c \in Callers : Status(c)
SpeedPolling == \E c \in Callers : Speed(c)
DaemonReturns == ~daemon /\ DaemonFlaps

Fairness ==
  /\ WF_vars(Working)
  /\ WF_vars(Polling)
  /\ WF_vars(SpeedPolling)
  /\ WF_vars(DaemonReturns)

Spec == Init /\ [][Next]_vars /\ Fairness

-----------------------------------------------------------------------------
\* The types of the state; a phase file holds a phase the application accepts.
TypeOK ==
  /\ unit \in [Tools -> {"inactive", "queued", "active", "failed"}]
  /\ run \in [Tools -> Phases \cup {None}]
  /\ phase \in [Tools -> [at: Phases \cup {"completed", None}, failed: BOOLEAN]]
  /\ held \in Tools \cup {None}
  /\ task \in {None, "running", "good", "bad"}
  /\ starting \in [Tools -> BOOLEAN]

\* NordVPN counts as installed only after its gateway settings were read back,
\* whatever polls, retries and restarts happened on the way.
CompletedIsConfigured ==
  phase["nord"] \in {File("validating"), File("completed")} => present["nord"] /\ settings

\* An accepted installation comes to an end: the mark of the speed test's start does not
\* outlive its unit, and a NordVPN installation that is reported as running ends as installed or
\* as failed, or is known not to have started.
Settles ==
  /\ starting["speed"] ~> ~starting["speed"]
  /\ (answer = "installing") ~> (answer # "installing")
=============================================================================
