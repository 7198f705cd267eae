---------------------------- MODULE SoftwareProofs ----------------------------
(***************************************************************************)
(* Software on its way to the host.  NordVPN counts as installed only      *)
(* after its gateway settings were read back, for any number of            *)
(* installation requests, polls, failures and restarts; and the release of *)
(* the container image keeps its promises for any number of runs,          *)
(* attempts, builds, mirror runs and faults.                               *)
(***************************************************************************)
EXTENDS ManagedInstall, Sequences, TLAPS


\* No file, no task and no run are none of the values they stand beside.
InstallConstants ==
  None \notin Phases \cup Tools \cup {"completed", "running", "good", "bad", "revalidate"}

Units == {"inactive", "queued", "active", "failed"}
Ats == Phases \cup {"completed", None}
Files == [at: Ats, failed: BOOLEAN]
Places == {"idle", "begin", "health", "decide", "act", "enable", "reset", "enqueue"}
Retries == {None, "reapply", "recheck", "revalidate", "restart"}
Tasks == {None, "running", "good", "bad"}
Calls == [pc: Places, unit: Units \cup {None}, phase: Files, well: BOOLEAN, retry: Retries]

Typed ==
  /\ unit \in [Tools -> Units]
  /\ run \in [Tools -> Phases \cup {None}]
  /\ phase \in [Tools -> Files]
  /\ held \in Tools \cup {None}
  /\ present \in [Tools -> BOOLEAN]
  /\ daemon \in BOOLEAN /\ settings \in BOOLEAN
  /\ starting \in [Tools -> BOOLEAN]
  /\ task \in Tasks
  /\ call \in [Tools -> [Callers -> Calls]]

Told == {File("validating"), File("completed")}

\* A script installs what is not there, so that settings once read back stay;
\* a task means that the client is there.
Grounded ==
  /\ run["nord"] = "installing" => ~present["nord"]
  /\ settings => present["nord"]
  /\ task # None => present["nord"]
  /\ task = "good" => settings

\* What a status call carries was true when it was read, and still is.
Carried(s) ==
  /\ s.well => present["nord"]
  /\ s.phase \in Told => settings
  /\ s.retry = "revalidate" /\ s.well => settings
  /\ s.pc = "health" => s.retry = None

\* The inductive invariant.
Configured ==
  /\ Grounded
  /\ \A c \in Callers : Carried(call["nord"][c])
  /\ phase["nord"] \in Told => settings

InstallInv == Typed /\ Configured

-----------------------------------------------------------------------------
LEMMA NoneApart ==
  ASSUME InstallConstants
  PROVE  /\ None \notin Phases /\ None \notin Tools /\ None # "completed" /\ None # "running"
         /\ None # "good" /\ None # "bad" /\ None # "revalidate" /\ None # "validating"
         /\ None # "installing"
  BY DEF InstallConstants, Phases

LEMMA FileTypes ==
  /\ \A p \in Ats : File(p) \in Files /\ Failed(p) \in Files
  /\ \A p : File(p).at = p /\ Failed(p).at = p /\ File(p).failed = FALSE /\ Failed(p).failed = TRUE
  BY Zenon DEF File, Failed, Files

\* Which files tell of an installation that is over.
LEMMA ToldFiles ==
  /\ \A p : Failed(p) \notin Told
  /\ \A p : File(p) \in Told => p \in {"validating", "completed"}
<1>1. ASSUME NEW p, NEW q PROVE Failed(p) # File(q)
  BY FileTypes
<1>2. ASSUME NEW p, NEW q, File(p) = File(q) PROVE p = q
  BY <1>2, FileTypes, Zenon
<1>3. QED
  BY <1>1, <1>2, Zenon DEF Told

LEMMA Places0 ==
  /\ None \in Ats /\ Phases \subseteq Ats /\ "completed" \in Ats
  /\ None \in Retries
  /\ "gateway" \in Ats /\ "validating" \in Ats /\ "waiting" \in Ats
  BY DEF Ats, Retries, Phases

\* A status call that carries nothing.
LEMMA IdleFacts ==
  ASSUME InstallConstants
  PROVE  /\ Idle \in Calls /\ Idle.pc = "idle" /\ Idle.well = FALSE /\ Idle.retry = None
         /\ Idle.phase = File(None) /\ Idle.phase \notin Told
<1>1. "idle" \in Places /\ None \in Units \cup {None} /\ File(None) \in Files
  BY FileTypes, Places0 DEF Places
<1>2. File(None) \notin Told
  BY ToldFiles, NoneApart
<1>3. Idle \in Calls
  BY <1>1, Places0 DEF Idle, Calls
<1>4. Idle.pc = "idle" /\ Idle.well = FALSE /\ Idle.retry = None /\ Idle.phase = File(None)
  BY Zenon DEF Idle
<1>5. QED
  BY <1>2, <1>3, <1>4

LEMMA IdleCarried ==
  ASSUME InstallConstants, NEW s, s.well = FALSE, s.phase = File(None), s.retry = None
  PROVE  Carried(s)
  BY IdleFacts DEF Carried

\* Sets changes one call.
LEMMA CallSet ==
  ASSUME call \in [Tools -> [Callers -> Calls]], NEW t \in Tools, NEW c \in Callers,
         NEW v \in Calls, Sets(t, c, v)
  PROVE  /\ call' \in [Tools -> [Callers -> Calls]]
         /\ call'[t][c] = v
         /\ \A d \in Callers \ {c} : call'[t][d] = call[t][d]
         /\ \A u \in Tools \ {t} : call'[u] = call[u]
  BY DEF Sets

\* A place of an idle call.
LEMMA IdleAt ==
  ASSUME InstallConstants, NEW p \in Places
  PROVE  LET s == [Idle EXCEPT !.pc = p] IN
           s \in Calls /\ s.well = FALSE /\ s.phase = File(None) /\ s.retry = None
<1>1. PICK s : s = [Idle EXCEPT !.pc = p]
  BY Zenon
<1>2. s \in Calls /\ s.well = Idle.well /\ s.phase = Idle.phase /\ s.retry = Idle.retry
  BY <1>1, IdleFacts, Zenon DEF Calls
<1>3. QED
  BY <1>1, <1>2, IdleFacts, Zenon

\* One entry of a function over the tools.
LEMMA OneSet ==
  ASSUME NEW S, NEW f \in [Tools -> S], NEW t \in Tools, NEW v \in S, NEW g, g = [f EXCEPT ![t] = v]
  PROVE  g \in [Tools -> S] /\ g[t] = v /\ \A u \in Tools \ {t} : g[u] = f[u]
  OBVIOUS

\* A call that does not change carries what it did.
LEMMA CarriedStays ==
  ASSUME InstallInv, present["nord"] => present'["nord"], settings => settings', NEW c \in Callers,
         call'["nord"][c] = call["nord"][c]
  PROVE  Carried(call["nord"][c])'
  BY DEF InstallInv, Configured, Carried

-----------------------------------------------------------------------------
(* The scripts, the daemon and the task. *)

\* A script's own step: the client, its settings and the application's state stay.
LEMMA ScriptStep ==
  ASSUME InstallInv, InstallConstants, NEW t \in Tools, NEW f \in Files, NEW p \in Phases \cup {None},
         run' = [run EXCEPT ![t] = p],
         phase' = [phase EXCEPT ![t] = f] \/ phase' = phase,
         phase' # phase /\ t = "nord" => f \notin Told,
         t = "nord" /\ p = "installing" => ~present["nord"],
         unit' \in [Tools -> Units], held' \in Tools \cup {None}, daemon' \in BOOLEAN,
         UNCHANGED <<present, settings, starting, task, call>>
  PROVE  InstallInv'
<1>1. Typed /\ "nord" \in Tools
  BY DEF InstallInv, Tools
<1>2. phase' \in [Tools -> Files] /\ (phase'["nord"] \in Told => phase["nord"] \in Told)
  <2>1. CASE phase' = phase
    BY <1>1, <2>1 DEF Typed
  <2>2. CASE phase' # phase
    BY <1>1, <2>2 DEF Typed
  <2>3. QED
    BY <2>1, <2>2
<1>3. /\ run' \in [Tools -> Phases \cup {None}]
      /\ run'["nord"] = "installing" => run["nord"] = "installing" \/ ~present["nord"]
  BY <1>1 DEF Typed
<1>4. Typed'
  BY <1>1, <1>2, <1>3, Zenon DEF Typed
<1>5. \A c \in Callers : Carried(call["nord"][c])'
  BY CarriedStays
<1>6. Configured'
  BY <1>2, <1>3, <1>5 DEF InstallInv, Configured, Grounded
<1>7. QED
  BY <1>4, <1>6 DEF InstallInv

\* What a script leaves when it exits.
LEMMA ExitStep ==
  ASSUME InstallInv, InstallConstants, NEW t \in Tools, NEW state \in Units, NEW f \in Files,
         Exits(t, state),
         phase' = [phase EXCEPT ![t] = f] \/ phase' = phase,
         phase' # phase /\ t = "nord" => f \notin Told,
         UNCHANGED <<present, daemon, settings, starting, task, call>>
  PROVE  InstallInv'
<1>1. unit' \in [Tools -> Units] /\ held' \in Tools \cup {None} /\ daemon' \in BOOLEAN
  BY DEF Exits, InstallInv, Typed
<1>2. run' = [run EXCEPT ![t] = None] /\ None # "installing" /\ None \in Phases \cup {None}
  BY NoneApart DEF Exits
<1>3. QED
  BY <1>1, <1>2, ScriptStep, Zenon

\* A script that fails, or is killed.
LEMMA FailSteps ==
  ASSUME InstallInv, InstallConstants, NEW t \in Tools, HelperFails(t) \/ HelperKilled(t)
  PROVE  InstallInv'
<1>1. run[t] \in Ats /\ Failed(run[t]) \in Files /\ Failed(run[t]) \notin Told
  BY FileTypes, ToldFiles, Places0 DEF InstallInv, Typed, Ats
<1>2. "failed" \in Units
  BY DEF Units
<1>3. CASE HelperFails(t)
  BY <1>1, <1>2, <1>3, ExitStep, Zenon DEF HelperFails, HelperDies
<1>4. CASE HelperKilled(t)
  BY <1>1, <1>2, <1>4, ExitStep DEF HelperKilled
<1>5. QED
  BY <1>3, <1>4

\* A script begins, takes the package lock or finds it taken.
LEMMA LockSteps ==
  ASSUME InstallInv, InstallConstants, NEW t \in Tools, HelperBegins(t) \/ HelperLocks(t)
  PROVE  InstallInv'
<1>1. \A p \in Phases : File(p) \in Files
  BY FileTypes, Places0
<1>2. "checking" \in Phases /\ "installing" \in Phases /\ "daemon" \in Phases
  BY DEF Phases
<1>3. /\ File("checking") \notin Told /\ File("installing") \notin Told
      /\ File("daemon") \notin Told
  BY ToldFiles
<1>4. unit \in [Tools -> Units] /\ held \in Tools \cup {None} /\ daemon \in BOOLEAN
  BY DEF InstallInv, Typed
<1>5. CASE HelperBegins(t)
  <2>1. unit' \in [Tools -> Units]
    BY <1>4, <1>5 DEF HelperBegins, Units
  <2>2. QED
    BY <1>1, <1>2, <1>3, <1>4, <1>5, <2>1, ScriptStep, Zenon DEF HelperBegins, Script
<1>6. CASE HelperLocks(t) /\ HelperDies(t)
  <2>1. run[t] \in Ats /\ Failed(run[t]) \in Files /\ Failed(run[t]) \notin Told
    BY FileTypes, ToldFiles, Places0 DEF InstallInv, Typed, Ats
  <2>2. "failed" \in Units
    BY DEF Units
  <2>3. QED
    BY <1>6, <2>1, <2>2, ExitStep, Zenon DEF HelperLocks, HelperDies
<1>7. CASE HelperLocks(t) /\ ~HelperDies(t) /\ ~present[t]
  <2>1. /\ held' = t /\ Script(t, "installing") /\ unit' = unit
        /\ UNCHANGED <<present, daemon, settings, starting, task, call>>
    BY <1>7 DEF HelperLocks
  <2>2. QED
    BY <1>1, <1>2, <1>3, <1>4, <1>7, <2>1, ScriptStep, Zenon DEF Script
<1>8. CASE HelperLocks(t) /\ ~HelperDies(t) /\ present[t]
  <2>1. /\ held' = t /\ Script(t, "daemon") /\ unit' = unit
        /\ UNCHANGED <<present, daemon, settings, starting, task, call>>
    BY <1>8 DEF HelperLocks
  <2>2. QED
    BY <1>1, <1>2, <1>3, <1>4, <2>1, ScriptStep, Zenon DEF Script
<1>9. QED
  BY <1>5, <1>6, <1>7, <1>8

\* A script starts the daemon, finds it ready, or has the speed test.
LEMMA EndSteps ==
  ASSUME InstallInv, InstallConstants,
         HelperStartsDaemon \/ HelperReady \/ SpeedFound \/ SpeedValidated
  PROVE  InstallInv'
<1>1. /\ unit \in [Tools -> Units] /\ held \in Tools \cup {None} /\ "inactive" \in Units
      /\ "nord" \in Tools /\ "speed" \in Tools
  BY DEF InstallInv, Typed, Units, Tools
<1>2. /\ File("waiting") \in Files /\ File("waiting") \notin Told /\ "waiting" \in Phases
      /\ File("completed") \in Files
  BY FileTypes, ToldFiles, Places0 DEF Phases
<1>3. CASE HelperStartsDaemon
  BY <1>1, <1>2, <1>3, ScriptStep, Zenon DEF HelperStartsDaemon, Script
<1>4. CASE HelperReady
  BY <1>1, <1>2, <1>4, ExitStep DEF HelperReady
<1>5. CASE SpeedFound
  BY <1>1, <1>2, <1>5, ExitStep, Zenon DEF SpeedFound
<1>6. CASE SpeedValidated
  BY <1>1, <1>2, <1>6, ExitStep, Zenon DEF SpeedValidated
<1>7. QED
  BY <1>3, <1>4, <1>5, <1>6

\* The program is installed: for the client, nothing was configured before.
LEMMA InstallStep ==
  ASSUME InstallInv, InstallConstants, NEW t \in Tools, HelperInstalls(t)
  PROVE  InstallInv'
<1> DEFINE p == IF t = "nord" THEN "daemon" ELSE "validating"
<1>1. Typed /\ "nord" \in Tools
  BY DEF InstallInv, Tools
<1>2. /\ present' = [present EXCEPT ![t] = TRUE]
      /\ run' = [run EXCEPT ![t] = p] /\ phase' = [phase EXCEPT ![t] = File(p)]
      /\ settings' = (IF t = "nord" THEN FALSE ELSE settings)
      /\ UNCHANGED <<unit, held, daemon, starting, task, call>>
  BY DEF HelperInstalls, Script
<1>3. p \in Phases /\ File(p) \in Files /\ (t = "nord" => File(p) \notin Told)
  BY FileTypes, ToldFiles, Places0 DEF Phases
<1>4. present' \in [Tools -> BOOLEAN] /\ run' \in [Tools -> Phases \cup {None}] /\ settings' \in BOOLEAN
  BY <1>1, <1>2, <1>3, Zenon DEF Typed
<1>5. phase' \in [Tools -> Files] /\ phase'[t] = File(p) /\ \A u \in Tools \ {t} : phase'[u] = phase[u]
  BY <1>1, <1>2, <1>3 DEF Typed
<1>6. Typed'
  BY <1>1, <1>2, <1>4, <1>5, Zenon DEF Typed
<1>7. CASE t = "nord"
  <2>1. ~present["nord"]
    BY <1>7 DEF HelperInstalls, InstallInv, Configured, Grounded
  <2>2. ~settings /\ task # "good" /\ ~settings'
    BY <1>2, <1>7, <2>1 DEF InstallInv, Configured, Grounded
  <2>3. /\ present'["nord"] = TRUE /\ run'["nord"] # "installing"
        /\ phase'["nord"] \notin Told
    BY <1>1, <1>2, <1>3, <1>5, <1>7 DEF Typed
  <2>4. \A c \in Callers : Carried(call["nord"][c])'
    BY <1>2, <2>2, <2>3 DEF InstallInv, Configured, Carried
  <2>5. Configured'
    BY <1>2, <2>2, <2>3, <2>4 DEF Configured, Grounded
  <2>6. QED
    BY <1>6, <2>5 DEF InstallInv
<1>8. CASE t # "nord"
  <2>1. /\ present'["nord"] = present["nord"] /\ run'["nord"] = run["nord"] /\ settings' = settings
        /\ phase'["nord"] = phase["nord"]
    BY <1>1, <1>2, <1>5, <1>8, Zenon DEF Typed
  <2>2. UNCHANGED <<task, call>>
    BY <1>2, Zenon
  <2>3. \A c \in Callers : Carried(call["nord"][c])'
    BY <2>1, <2>2, CarriedStays
  <2>4. Configured'
    BY <2>1, <2>2, <2>3 DEF InstallInv, Configured, Grounded
  <2>5. QED
    BY <1>6, <2>4 DEF InstallInv
<1>9. QED
  BY <1>7, <1>8

\* The daemon comes and goes, and the task ends.
LEMMA TaskSteps ==
  ASSUME InstallInv, InstallConstants, DaemonFlaps \/ Defaults
  PROVE  InstallInv'
<1>1. /\ UNCHANGED <<unit, run, phase, held, present, starting, call>>
      /\ daemon' \in BOOLEAN /\ settings' \in BOOLEAN /\ task' \in Tasks /\ (settings => settings')
  BY Zenon DEF DaemonFlaps, Defaults, DefaultsApplied, DefaultsFail, InstallInv, Typed, Tasks
<1>2. Typed'
  BY <1>1, Zenon DEF InstallInv, Typed
<1>3. \A c \in Callers : Carried(call["nord"][c])'
  BY <1>1, CarriedStays
<1>4. Grounded'
  BY <1>1, NoneApart DEF DaemonFlaps, Defaults, DefaultsApplied, DefaultsFail, InstallInv,
     Configured, Grounded
<1>5. Configured'
  BY <1>1, <1>3, <1>4 DEF InstallInv, Configured
<1>6. QED
  BY <1>2, <1>5 DEF InstallInv

-----------------------------------------------------------------------------
(* The application's calls. *)

\* A step that sets one call, and leaves the client and its settings as they are.
LEMMA CallStep ==
  ASSUME InstallInv, InstallConstants, NEW t \in Tools, NEW c \in Callers, NEW v \in Calls,
         Sets(t, c, v), t = "nord" => Carried(v),
         phase' \in [Tools -> Files], phase'["nord"] \in Told => settings,
         task' \in Tasks, task' # None => present["nord"], task' = "good" => settings,
         starting' \in [Tools -> BOOLEAN], unit' \in [Tools -> Units], daemon' \in BOOLEAN,
         UNCHANGED <<run, held, present, settings>>
  PROVE  InstallInv'
<1>1. Typed /\ "nord" \in Tools
  BY DEF InstallInv, Tools
<1>2. /\ call' \in [Tools -> [Callers -> Calls]] /\ call'[t][c] = v
      /\ \A d \in Callers \ {c} : call'[t][d] = call[t][d]
      /\ \A u \in Tools \ {t} : call'[u] = call[u]
  BY <1>1, CallSet, Zenon DEF Typed
<1>3. Typed'
  BY <1>1, <1>2, Zenon DEF Typed
<1>4. ASSUME NEW d \in Callers PROVE Carried(call["nord"][d])'
  <2>1. CASE t = "nord" /\ d = c
    BY <1>2, <2>1 DEF Carried
  <2>2. CASE ~(t = "nord" /\ d = c)
    <3>1. call'["nord"][d] = call["nord"][d]
      BY <1>1, <1>2, <2>2, Zenon
    <3>2. QED
      BY <3>1, CarriedStays, Zenon
  <2>3. QED
    BY <2>1, <2>2, Zenon
<1>5. Grounded'
  BY DEF InstallInv, Configured, Grounded
<1>6. Configured'
  BY <1>4, <1>5, Zenon DEF Configured
<1>7. QED
  BY <1>3, <1>6 DEF InstallInv

\* What CallStep asks of the variables that a step leaves alone.
LEMMA AsTheyAre ==
  ASSUME InstallInv
  PROVE  /\ phase \in [Tools -> Files] /\ (phase["nord"] \in Told => settings)
         /\ task \in Tasks /\ (task # None => present["nord"]) /\ (task = "good" => settings)
         /\ starting \in [Tools -> BOOLEAN] /\ unit \in [Tools -> Units] /\ daemon \in BOOLEAN
         /\ "nord" \in Tools /\ "speed" \in Tools /\ "start" \in Callers /\ "poll" \in Callers
  BY Zenon DEF InstallInv, Typed, Configured, Grounded, Tools, Callers

\* A status call reads the unit and the phase file.
LEMMA ReadStep ==
  ASSUME InstallInv, InstallConstants, NEW c \in Callers, StatusRead(c)
  PROVE  InstallInv'
<1>1. PICK s : s = [Idle EXCEPT !.pc = "health", !.unit = unit["nord"], !.phase = phase["nord"]]
  BY Zenon
<1>2. "health" \in Places /\ unit["nord"] \in Units /\ phase["nord"] \in Files
  BY AsTheyAre DEF Places
<1>3. s \in Calls /\ s.well = Idle.well /\ s.phase = phase["nord"] /\ s.retry = Idle.retry
  BY <1>1, <1>2, IdleFacts, Zenon DEF Calls
<1>4. Carried(s)
  BY <1>3, AsTheyAre, IdleFacts, Zenon DEF Carried
<1>5. Sets("nord", c, s) /\ UNCHANGED <<host, phase, starting, task>>
  BY <1>1, Zenon DEF StatusRead
<1>6. UNCHANGED <<unit, daemon, run, held, present, settings>>
  BY <1>5, Zenon DEF host
<1>7. QED
  BY <1>3, <1>4, <1>5, <1>6, AsTheyAre, CallStep, Zenon

\* A status call asks the client.
LEMMA HealthStep ==
  ASSUME InstallInv, InstallConstants, NEW c \in Callers, StatusHealth(c)
  PROVE  InstallInv'
<1> DEFINE r == call["nord"][c]
<1>1. PICK s : s = [r EXCEPT !.pc = "decide", !.well = Healthy]
  BY Zenon
<1>2. "decide" \in Places /\ r \in Calls /\ Healthy \in BOOLEAN
  BY AsTheyAre, Zenon DEF Places, InstallInv, Typed, Healthy
<1>3. s \in Calls /\ s.well = Healthy /\ s.phase = r.phase /\ s.retry = r.retry
  BY <1>1, <1>2, Zenon DEF Calls
<1>4. r.retry = None
  BY DEF StatusHealth, InstallInv, Configured, Carried
<1>5. Carried(s)
  BY <1>3, <1>4, NoneApart, Zenon DEF Carried, InstallInv, Configured, Healthy
<1>6. Sets("nord", c, s) /\ UNCHANGED <<host, phase, starting, task>>
  BY <1>1, Zenon DEF StatusHealth
<1>7. UNCHANGED <<unit, daemon, run, held, present, settings>>
  BY <1>6, Zenon DEF host
<1>8. QED
  BY <1>3, <1>5, <1>6, <1>7, AsTheyAre, CallStep, Zenon

\* What a status call may leave: a file and a task that the client's settings bear out.
Sound(d, well) ==
  /\ d.file \in Files /\ (d.file \in Told => settings)
  /\ d.task \in Tasks /\ (d.task # None => present["nord"]) /\ (d.task = "good" => settings)
  /\ d.retry \in Retries /\ (d.retry = "revalidate" /\ well => settings)

LEMMA SoundResult ==
  ASSUME NEW state, NEW retry \in Retries, NEW file \in Files, NEW t \in Tasks, NEW well,
         file \in Told => settings, t # None => present["nord"], t = "good" => settings,
         retry = "revalidate" /\ well => settings
  PROVE  Sound(Result(state, retry, file, t), well)
<1>1. PICK d : d = Result(state, retry, file, t)
  BY Zenon
<1>2. d.retry = retry /\ d.file = file /\ d.task = t
  BY <1>1, Zenon DEF Result
<1>3. QED
  BY <1>1, <1>2, Zenon DEF Sound

\* An answer that leaves the file and the task alone.
LEMMA SoundAsIs ==
  ASSUME InstallInv, NEW state, NEW retry \in Retries, NEW well, retry = "revalidate" => ~well
  PROVE  Sound(Result(state, retry, phase["nord"], task), well)
<1>1. phase["nord"] \in Files
  BY AsTheyAre, Zenon
<1>2. QED
  BY <1>1, AsTheyAre, SoundResult, Zenon

\* The client is there: every way its settings can be.
LEMMA InstalledSound ==
  ASSUME InstallInv, InstallConstants, NEW s, s.well, Carried(s)
  PROVE  Sound(Installed(s), s.well)
<1> DEFINE R == {None, "reapply", "recheck", "restart"}
<1>1. /\ R \subseteq Retries /\ "revalidate" \in Retries /\ "running" \in Tasks /\ None \in Tasks
      /\ None # "good" /\ "running" # None /\ "revalidate" \notin R /\ "running" # "good"
      /\ None \in Retries /\ None # "revalidate"
  BY NoneApart DEF Retries, Tasks
<1>2. /\ File("gateway") \in Files /\ File("validating") \in Files /\ File("completed") \in Files
      /\ Failed("gateway") \in Files /\ File("gateway") \notin Told /\ Failed("gateway") \notin Told
  BY FileTypes, ToldFiles, Places0
<1>3. \A state, retry : retry \in R => Sound(Result(state, retry, phase["nord"], task), s.well)
  BY <1>1, SoundAsIs, Zenon
<1>4. present["nord"]
  BY DEF Carried
<1>5. CASE s.phase = Failed("gateway") /\ ~SettingsMatch
  BY <1>3, <1>5, Zenon DEF Installed
<1>6. CASE s.phase = Failed("gateway") /\ SettingsMatch
  <2>1. Sound(Result("installing", None, File("validating"), task), s.well)
    BY <1>1, <1>2, <1>6, AsTheyAre, SoundResult, NoneApart, Zenon DEF SettingsMatch
  <2>2. QED
    BY <1>6, <2>1, Zenon DEF Installed
<1>7. CASE s.phase # Failed("gateway") /\ s.phase = File("completed")
  BY <1>3, <1>7, Zenon DEF Installed
<1>8. CASE /\ s.phase # Failed("gateway") /\ s.phase # File("completed")
           /\ s.phase = File("validating")
  <2>1. settings
    BY <1>8, Zenon DEF Carried, Told
  <2>2. Sound(Result("completed", None, File("completed"), task), s.well)
    BY <1>1, <1>2, <2>1, AsTheyAre, SoundResult, NoneApart, Zenon
  <2>3. QED
    BY <1>8, <2>2, Zenon DEF Installed
<1>9. CASE s.phase \notin {Failed("gateway"), File("completed"), File("validating")}
  <2>1. CASE task = None
    <3>1. Sound(Result("installing", None, File("gateway"), "running"), s.well)
      BY <1>1, <1>2, <1>4, SoundResult, Zenon
    <3>2. QED
      BY <1>9, <2>1, <3>1, Zenon DEF Installed
  <2>2. CASE task # None /\ task = "running"
    BY <1>3, <1>9, <2>2, Zenon DEF Installed
  <2>3. CASE task # None /\ task # "running" /\ ~Applied(task)
    <3>1. Sound(Result("failed", "reapply", Failed("gateway"), None), s.well)
      BY <1>1, <1>2, SoundResult, NoneApart, Zenon
    <3>2. QED
      BY <1>9, <2>3, <3>1, Zenon DEF Installed
  <2>4. CASE task # None /\ task # "running" /\ Applied(task) /\ ~Healthy
    <3>1. phase["nord"] \in Files /\ settings
      BY <2>4, AsTheyAre, Zenon DEF Applied
    <3>2. Sound(Result("failed", "revalidate", phase["nord"], None), s.well)
      BY <1>1, <3>1, SoundResult, NoneApart, Zenon
    <3>3. QED
      BY <1>9, <2>4, <3>2, Zenon DEF Installed
  <2>5. CASE task # None /\ task # "running" /\ Applied(task) /\ Healthy
    <3>1. settings
      BY <2>5, AsTheyAre, Zenon DEF Applied
    <3>2. Sound(Result("installing", None, File("validating"), None), s.well)
      BY <1>1, <1>2, <3>1, SoundResult, NoneApart, Zenon
    <3>3. QED
      BY <1>9, <2>5, <3>2, Zenon DEF Installed, AfterDefaults
  <2>6. QED
    BY <2>1, <2>2, <2>3, <2>4, <2>5, Zenon
<1>10. QED
  BY <1>5, <1>6, <1>7, <1>8, <1>9, Zenon

LEMMA DecisionSound ==
  ASSUME InstallInv, InstallConstants, NEW s, s.well \in BOOLEAN, Carried(s)
  PROVE  Sound(Decision(s), s.well)
<1>1. \A p : RetryOf(p) \in Retries
  BY DEF RetryOf, Retries
<1>2. None \in Retries /\ None # "revalidate"
  BY NoneApart, Places0
<1>3. \A state : Sound(Result(state, None, phase["nord"], task), s.well)
  BY <1>2, SoundAsIs, Zenon
<1>4. CASE starting["nord"] \/ s.unit = "active"
  BY <1>3, <1>4 DEF Decision
<1>5. CASE ~(starting["nord"] \/ s.unit = "active") /\ s.well
  BY <1>5, InstalledSound, Zenon DEF Decision
<1>6. CASE ~(starting["nord"] \/ s.unit = "active") /\ ~s.well
  <2>1. \A p : Sound(Result("failed", RetryOf(p), phase["nord"], task), s.well)
    BY <1>1, <1>6, SoundAsIs, Zenon
  <2>2. CASE s.phase.failed
    BY <1>6, <2>1, <2>2 DEF Decision
  <2>3. CASE ~s.phase.failed /\ s.unit = "failed"
    BY <1>6, <2>1, <2>3 DEF Decision
  <2>4. CASE ~s.phase.failed /\ s.unit # "failed"
    BY <1>3, <1>6, <2>4 DEF Decision
  <2>5. QED
    BY <2>2, <2>3, <2>4
<1>7. QED
  BY <1>4, <1>5, <1>6

\* A status call answers.
LEMMA AnswerStep ==
  ASSUME InstallInv, InstallConstants, NEW c \in Callers, StatusAnswer(c)
  PROVE  InstallInv'
<1> DEFINE r == call["nord"][c]
<1>1. r \in Calls /\ Carried(r)
  BY AsTheyAre, Zenon DEF InstallInv, Typed, Configured
<1>2. r.well \in BOOLEAN
  BY <1>1, Zenon DEF Calls
<1>3. PICK d : d = Decision(r)
  BY Zenon
<1>4. Sound(d, r.well)
  <2>1. ASSUME NEW s, s = r PROVE Sound(Decision(s), s.well)
    BY <1>1, <1>2, <2>1, DecisionSound
  <2>2. QED
    BY <1>3, <2>1
<1>5. PICK a : a = [Idle EXCEPT !.pc = "act", !.retry = d.retry, !.well = r.well]
  BY Zenon
<1>6. "act" \in Places /\ d.retry \in Retries
  BY <1>4 DEF Places, Sound
<1>7. a \in Calls /\ a.pc = "act" /\ a.well = r.well /\ a.phase = Idle.phase /\ a.retry = d.retry
  BY <1>2, <1>5, <1>6, IdleFacts, Zenon DEF Calls
<1>8. Carried(a)
  <2>1. a.phase \notin Told /\ a.pc # "health"
    BY <1>7, IdleFacts
  <2>2. a.well => present["nord"]
    BY <1>1, <1>7, Zenon DEF Carried
  <2>3. a.retry = "revalidate" /\ a.well => settings
    BY <1>4, <1>7, Zenon DEF Sound
  <2>4. QED
    BY <2>1, <2>2, <2>3, Zenon DEF Carried
<1>9. Carried(Idle) /\ Idle \in Calls
  BY IdleFacts, IdleCarried, Zenon
<1>10. PICK v \in Calls : Carried(v) /\ Sets("nord", c, v)
  <2>1. Sets("nord", c, IF c = "poll" \/ d.state = "installing" \/ starting["nord"] THEN Idle ELSE a)
    BY <1>3, <1>5, Zenon DEF StatusAnswer
  <2>2. QED
    BY <1>7, <1>8, <1>9, <2>1
<1>11. phase' = [phase EXCEPT !["nord"] = d.file] /\ task' = d.task /\ UNCHANGED <<host, starting>>
  BY <1>3, Zenon DEF StatusAnswer
<1>12. phase' \in [Tools -> Files] /\ phase'["nord"] = d.file
  BY <1>4, <1>11, AsTheyAre, OneSet, Zenon DEF Sound
<1>13. UNCHANGED <<unit, daemon, run, held, present, settings, starting>>
  BY <1>11, Zenon DEF host
<1>14. /\ phase'["nord"] \in Told => settings
       /\ task' \in Tasks /\ (task' # None => present["nord"]) /\ (task' = "good" => settings)
  BY <1>4, <1>11, <1>12, Zenon DEF Sound
<1>15. QED
  BY <1>10, <1>12, <1>13, <1>14, AsTheyAre, CallStep, Zenon

\* A start goes on after its status call: with a retry, or with the script.
LEMMA RetryStep ==
  ASSUME InstallInv, InstallConstants, StartRetries
  PROVE  InstallInv'
<1> DEFINE s == call["nord"]["start"]
           reapply == s.retry = "reapply" /\ s.well
           revalidate == s.retry = "revalidate" /\ s.well
           recheck == s.retry = "recheck" /\ present["nord"]
           f == CASE reapply -> File("gateway")
                  [] revalidate -> File("validating")
                  [] recheck -> File("waiting")
                  [] OTHER -> File(None)
           p == IF recheck THEN "enable" ELSE "reset"
<1>1. s \in Calls /\ Carried(s)
  BY AsTheyAre, Zenon DEF InstallInv, Typed, Configured
<1>2. PICK a : a = [s EXCEPT !.pc = p]
  BY Zenon
<1>3. p \in Places /\ p # "health"
  BY DEF Places
<1>4. a \in Calls /\ a.pc = p /\ a.well = s.well /\ a.phase = s.phase /\ a.retry = s.retry
  <2> HIDE DEF p
  <2>1. QED
    BY <1>1, <1>2, <1>3, Zenon DEF Calls
<1>5. Carried(a)
  <2> HIDE DEF p
  <2>1. QED
    BY <1>1, <1>3, <1>4, Zenon DEF Carried
<1>6. Carried(Idle) /\ Idle \in Calls
  BY IdleFacts, IdleCarried, Zenon
<1>7. PICK v \in Calls : Carried(v) /\ Sets("nord", "start", v)
  <2>1. Sets("nord", "start", IF reapply \/ revalidate THEN Idle ELSE a)
    BY <1>2, Zenon DEF StartRetries
  <2>2. QED
    BY <1>4, <1>5, <1>6, <2>1
<1>8. /\ phase' = [phase EXCEPT !["nord"] = f] /\ task' = (IF reapply THEN "running" ELSE task)
      /\ starting' = [starting EXCEPT !["nord"] = ~(reapply \/ revalidate)]
      /\ UNCHANGED host
  BY Zenon DEF StartRetries
<1>9. f \in Files /\ (f \in Told => settings)
  <2>1. /\ File("gateway") \in Files /\ File("validating") \in Files /\ File("waiting") \in Files
        /\ File(None) \in Files /\ File("gateway") \notin Told /\ File("waiting") \notin Told
        /\ File(None) \notin Told
    BY FileTypes, ToldFiles, Places0, NoneApart
  <2>2. CASE reapply
    <3>1. f = File("gateway")
      BY <2>2
    <3>2. QED
      BY <2>1, <3>1
  <2>3. CASE revalidate
    <3>1. f = File("validating") /\ settings
      BY <1>1, <2>3 DEF Carried
    <3>2. QED
      BY <2>1, <3>1
  <2>4. CASE ~reapply /\ ~revalidate
    <3>1. f = File("waiting") \/ f = File(None)
      BY <2>4
    <3>2. QED
      BY <2>1, <3>1
  <2>5. QED
    BY <2>2, <2>3, <2>4
<1>10. phase' \in [Tools -> Files] /\ phase'["nord"] = f
  <2> HIDE DEF f
  <2>1. QED
    BY <1>8, <1>9, AsTheyAre, OneSet, Zenon
<1>11. phase'["nord"] \in Told => settings
  <2> HIDE DEF f
  <2>1. QED
    BY <1>9, <1>10, Zenon
<1>12. task' \in Tasks /\ (task' # None => present["nord"]) /\ (task' = "good" => settings)
  <2>1. "running" \in Tasks /\ "running" # "good"
    BY DEF Tasks
  <2>2. reapply => present["nord"]
    BY <1>1, Zenon DEF Carried
  <2>3. CASE reapply
    BY <1>8, <2>1, <2>2, <2>3
  <2>4. CASE ~reapply
    BY <1>8, <2>4, AsTheyAre
  <2>5. QED
    BY <2>3, <2>4
<1>13. starting' \in [Tools -> BOOLEAN]
  BY <1>8, AsTheyAre
<1>14. UNCHANGED <<unit, daemon, run, held, present, settings>>
  BY <1>8, Zenon DEF host
<1>15. QED
  BY <1>7, <1>10, <1>11, <1>12, <1>13, <1>14, AsTheyAre, CallStep, Zenon

\* A call that is set to a place, or to rest, with what else a start or a poll changes.
LEMMA PlaceStep ==
  ASSUME InstallInv, InstallConstants, NEW t \in Tools, NEW c \in Callers, NEW v,
         v = Idle \/ \E p \in Places : v = [Idle EXCEPT !.pc = p], Sets(t, c, v),
         phase' \in [Tools -> Files], phase'["nord"] = phase["nord"], task' = task,
         starting' \in [Tools -> BOOLEAN], unit' \in [Tools -> Units], daemon' \in BOOLEAN,
         UNCHANGED <<run, held, present, settings>>
  PROVE  InstallInv'
<1>1. v \in Calls /\ Carried(v)
  BY IdleFacts, IdleAt, IdleCarried, Zenon
<1>2. /\ phase'["nord"] \in Told => settings
      /\ task' \in Tasks /\ (task' # None => present["nord"]) /\ (task' = "good" => settings)
  BY AsTheyAre, Zenon
<1>3. QED
  BY <1>1, <1>2, CallStep, Zenon

\* A start is requested, enables the daemon, resets the unit and enqueues it.
LEMMA StartSteps ==
  ASSUME InstallInv, InstallConstants, NEW t \in Tools,
         StartEnables \/ ResetFailed(t) \/ Enqueue(t) \/ Request(t) \/ EnqueueFails(t)
  PROVE  InstallInv'
<1>1. "enqueue" \in Places /\ "begin" \in Places
  BY DEF Places
<1>2. CASE StartEnables
  <2>1. daemon' \in BOOLEAN /\ starting' \in [Tools -> BOOLEAN]
    BY <1>2, AsTheyAre, Zenon DEF StartEnables
  <2>2. QED
    BY <1>2, <2>1, AsTheyAre, PlaceStep, Zenon DEF StartEnables
<1>3. CASE ResetFailed(t)
  <2>1. unit' \in [Tools -> Units]
    BY <1>3, AsTheyAre DEF ResetFailed, Units
  <2>2. QED
    BY <1>1, <1>3, <2>1, AsTheyAre, PlaceStep, Zenon DEF ResetFailed
<1>4. CASE Enqueue(t)
  <2>1. unit' \in [Tools -> Units] /\ starting' \in [Tools -> BOOLEAN]
    BY <1>4, AsTheyAre DEF Enqueue, Units
  <2>2. QED
    BY <1>4, <2>1, AsTheyAre, PlaceStep, Zenon DEF Enqueue
<1>5. CASE Request(t)
  BY <1>1, <1>5, AsTheyAre, PlaceStep, Zenon DEF Request, host
<1>6. CASE EnqueueFails(t)
  <2>1. starting' \in [Tools -> BOOLEAN]
    BY <1>6, AsTheyAre DEF EnqueueFails
  <2>2. QED
    BY <1>6, <2>1, AsTheyAre, PlaceStep, Zenon DEF EnqueueFails, host
<1>7. QED
  BY <1>2, <1>3, <1>4, <1>5, <1>6, Zenon

\* The speed test's own calls.
LEMMA SpeedSteps ==
  ASSUME InstallInv, InstallConstants, NEW c \in Callers, Speed(c)
  PROVE  InstallInv'
<1>1. "decide" \in Places /\ "reset" \in Places /\ "speed" # "nord"
  BY DEF Places
<1>2. CASE SpeedProgram(c)
  <2>1. starting' \in [Tools -> BOOLEAN]
    BY <1>2, AsTheyAre, Zenon DEF SpeedProgram, OfficialCli, InstallInv, Typed
  <2>2. PICK v : Sets("speed", c, v) /\ (v = Idle \/ v = [Idle EXCEPT !.pc = "decide"])
    BY <1>2, Zenon DEF SpeedProgram
  <2>3. QED
    BY <1>1, <1>2, <2>1, <2>2, AsTheyAre, PlaceStep, Zenon DEF SpeedProgram, host
<1>3. CASE SpeedAnswer(c)
  <2>1. starting' \in [Tools -> BOOLEAN]
    BY <1>3, AsTheyAre DEF SpeedAnswer
  <2>2. PICK f : /\ phase' = [phase EXCEPT !["speed"] = f]
                 /\ f = phase["speed"] \/ f = ClearStale(phase["speed"])
    BY <1>3, Zenon DEF SpeedAnswer
  <2>3. f \in Files
    BY <2>2, FileTypes, Places0, AsTheyAre DEF ClearStale
  <2>4. phase' \in [Tools -> Files] /\ phase'["nord"] = phase["nord"]
    BY <1>1, <2>2, <2>3, AsTheyAre, Zenon
  <2>5. PICK v : Sets("speed", c, v) /\ (v = Idle \/ v = [Idle EXCEPT !.pc = "reset"])
    BY <1>3, Zenon DEF SpeedAnswer
  <2>6. QED
    BY <1>1, <1>3, <2>1, <2>4, <2>5, AsTheyAre, PlaceStep, Zenon DEF SpeedAnswer, host
<1>4. QED
  BY <1>2, <1>3 DEF Speed

\* A restart of the application forgets its calls and its task.
LEMMA RestartStep ==
  ASSUME InstallInv, InstallConstants, AppRestarts
  PROVE  InstallInv'
<1>1. /\ UNCHANGED <<unit, run, held, present, daemon, settings, phase>> /\ task' = None
      /\ call' = [t \in Tools |-> [c \in Callers |-> Idle]] /\ starting' = [t \in Tools |-> FALSE]
  BY Zenon DEF AppRestarts, host
<1>2. call' \in [Tools -> [Callers -> Calls]] /\ \A c \in Callers : call'["nord"][c] = Idle
  BY <1>1, IdleFacts, AsTheyAre, Zenon
<1>3. None \in Tasks /\ starting' \in [Tools -> BOOLEAN]
  BY <1>1 DEF Tasks
<1>4. Typed'
  BY <1>1, <1>2, <1>3, Zenon DEF InstallInv, Typed
<1>5. \A c \in Callers : Carried(call["nord"][c])'
  BY <1>1, <1>2, IdleFacts, NoneApart, Zenon DEF Carried
<1>6. Configured'
  BY <1>1, <1>5, NoneApart, Zenon DEF InstallInv, Configured, Grounded
<1>7. QED
  BY <1>4, <1>6 DEF InstallInv

-----------------------------------------------------------------------------
LEMMA InstallStart ==
  ASSUME Init, InstallConstants
  PROVE  InstallInv
<1>1. "nord" \in Tools /\ "inactive" \in Units /\ None \in Tasks /\ File(None) \in Files
  BY FileTypes, Places0 DEF Tools, Units, Tasks
<1>2. /\ call \in [Tools -> [Callers -> Calls]] /\ phase \in [Tools -> Files]
      /\ unit \in [Tools -> Units] /\ run \in [Tools -> Phases \cup {None}]
      /\ starting \in [Tools -> BOOLEAN]
  BY <1>1, IdleFacts, Zenon DEF Init
<1>3. Typed
  BY <1>1, <1>2, Zenon DEF Init, Typed
<1>4. \A c \in Callers : call["nord"][c] = Idle
  BY <1>1, Zenon DEF Init
<1>5. run["nord"] = None /\ phase["nord"] = File(None) /\ File(None) \notin Told
  BY <1>1, IdleFacts, Zenon DEF Init
<1>6. Configured
  BY <1>4, <1>5, NoneApart, IdleFacts, IdleCarried, Zenon DEF Init, Configured, Grounded
<1>7. QED
  BY <1>3, <1>6 DEF InstallInv

LEMMA InstallNext ==
  ASSUME InstallInv, InstallConstants, [Next]_vars
  PROVE  InstallInv'
<1>1. CASE UNCHANGED vars
  <2>1. UNCHANGED <<unit, run, phase, held, present, daemon, settings, starting, task, call>>
    BY <1>1, Zenon DEF vars
  <2>2. Typed'
    BY <2>1, Zenon DEF InstallInv, Typed
  <2>3. Configured'
    BY <2>1, Zenon DEF InstallInv, Configured, Grounded, Carried
  <2>4. QED
    BY <2>2, <2>3 DEF InstallInv
<1>2. ASSUME NEW t \in Tools, Helper(t) PROVE InstallInv'
  BY <1>2, LockSteps, EndSteps, InstallStep, Zenon DEF Helper
<1>3. ASSUME NEW t \in Tools, HelperFails(t) \/ HelperKilled(t) PROVE InstallInv'
  BY <1>3, FailSteps, Zenon
<1>4. CASE DaemonFlaps \/ Defaults
  BY <1>4, TaskSteps, Zenon
<1>5. ASSUME NEW c \in Callers, Status(c) PROVE InstallInv'
  BY <1>5, ReadStep, HealthStep, AnswerStep, Zenon DEF Status
<1>6. ASSUME NEW c \in Callers, Speed(c) PROVE InstallInv'
  BY <1>6, SpeedSteps, Zenon
<1>7. CASE Starting
  BY <1>7, AsTheyAre, RetryStep, StartSteps, Zenon DEF Starting
<1>8. ASSUME NEW t \in Tools, Request(t) \/ EnqueueFails(t) PROVE InstallInv'
  BY <1>8, StartSteps, Zenon
<1>9. CASE AppRestarts
  BY <1>9, RestartStep, Zenon
<1>10. QED
  BY <1>1, <1>2, <1>3, <1>4, <1>5, <1>6, <1>7, <1>8, <1>9, Zenon DEF Next

\* What the runs check follows from the invariant.
LEMMA InstallSays ==
  ASSUME InstallInv
  PROVE  TypeOK /\ CompletedIsConfigured
<1>1. TypeOK
  BY Zenon DEF InstallInv, Typed, TypeOK, Units, Files, Ats, Tasks
<1>2. CompletedIsConfigured
  BY Zenon DEF InstallInv, Configured, Grounded, CompletedIsConfigured, Told
<1>3. QED
  BY <1>1, <1>2

\* The states a phase file, a unit and a task can be in are the
\* ones the application knows, in every installation.
THEOREM TypeCorrect ==
  ASSUME InstallConstants
  PROVE  Spec => []TypeOK
<1>1. Init => InstallInv
  BY InstallStart
<1>2. InstallInv /\ [Next]_vars => InstallInv'
  BY InstallNext
<1>3. InstallInv => TypeOK
  BY InstallSays
<1>4. QED
  BY <1>1, <1>2, <1>3, PTL DEF Spec

\* NordVPN counts as installed (its phase file says validating or completed)
\* only with the client there and its gateway settings read back: for any
\* number of starts, retries, concurrent polls, failures of script, daemon and
\* task, and restarts of the application.
THEOREM CompletionIsConfigured ==
  ASSUME InstallConstants
  PROVE  Spec => []CompletedIsConfigured
<1>1. Init => InstallInv
  BY InstallStart
<1>2. InstallInv /\ [Next]_vars => InstallInv'
  BY InstallNext
<1>3. InstallInv => CompletedIsConfigured
  BY InstallSays
<1>4. QED
  BY <1>1, <1>2, <1>3, PTL DEF Spec

-----------------------------------------------------------------------------
(* The release of the image, an instance with variables of its own: it       *)
(* shares nothing with the installations.                                    *)

CONSTANTS Commits, MaxRuns, MaxAttempts, MaxBuilds, MaxMirrors

VARIABLES reviewed, main, tagged, images, stored, ghcr, hub, receipt, attested, job, mirror,
          mirrors, failed

R == INSTANCE ImageRelease WITH faults <- failed

\* None is no digest (digests are numbered from 1), no commit and no flaw.
ReleaseConstants == None \notin Nat /\ None \notin {"contents", "finding"}

-----------------------------------------------------------------------------
(* The version tags.                                                         *)

\* A version in a registry is never replaced (push_ghcr_image.py,
\* dockerhub_release.py).
THEOREM VersionsNeverChange == R!Spec => [][R!KeepsVersions]_(R!vars)
<1>1. [R!Next]_(R!vars) => R!KeepsVersions \/ UNCHANGED R!vars
  <2> SUFFICES ASSUME R!Next PROVE R!KeepsVersions
    BY Zenon
  <2>1. CASE UNCHANGED <<ghcr, hub>>
    BY <2>1, Zenon DEF R!KeepsVersions
  <2>2. ASSUME NEW r, R!Push(r) PROVE R!KeepsVersions
    BY <2>2, Zenon DEF R!Push, R!Unpublished, R!Elsewhere, R!KeepsVersions
  <2>3. CASE R!MirrorCopy
    BY <2>3, Zenon DEF R!MirrorCopy, R!Manifest, R!Release, R!KeepsVersions
  <2>4. ASSUME NEW r, R!RunStep(r), ~R!Push(r) PROVE UNCHANGED <<ghcr, hub>>
    BY <2>4, Zenon DEF R!RunStep, R!Validate, R!Approve, R!Build, R!Bind, R!PullExisting, R!Qualify, R!PushRefused,
       R!VerifyPulled, R!Attest, R!Verify, R!StepFails, R!Rerun, R!Elsewhere
  <2>5. CASE R!Dispatch \/ (R!MirrorStep /\ ~R!MirrorCopy) \/ R!Merge \/ R!MoveTag \/ R!WriteReceipt
    BY <2>1, <2>5, Zenon DEF R!Dispatch, R!MirrorStep, R!MirrorDispatch, R!MirrorPrepare, R!MirrorEvidence,
       R!MirrorSign, R!MirrorVerify, R!Merge, R!MoveTag, R!WriteReceipt, R!Elsewhere, R!Release
  <2> QED BY <2>1, <2>2, <2>3, <2>4, <2>5, Zenon DEF R!Next
<1> QED BY <1>1, PTL DEF R!Spec

-----------------------------------------------------------------------------
(* The runs. From the push on a run holds the digest under the version tag,  *)
(* built from its source and free of flaws; the tag never changes, so the    *)
(* runs need not exclude each other for it.                                  *)

JobPlaces == R!Publishing \cup {"validate", "queued", "failed", "done"}
Failures == {"validate", "attest", "other", None}
JobSet ==
  [pc: JobPlaces, src: Nat, head: Nat, want: Nat \cup {None}, origin: Nat \cup {None},
   digest: Nat \cup {None}, attempt: Nat, failed: Failures]
ImageSet == [src: Nat, flaw: {None, "contents", "finding"}]

ReleaseTyped ==
  /\ job \in Seq(JobSet) /\ images \in Seq(ImageSet)
  /\ main \in Nat /\ tagged \in Nat
  /\ stored \subseteq DOMAIN images /\ ghcr \in stored \cup {None}

Settled == {"pull", "attest", "sbom", "check"}
Built(d, s) == d \in DOMAIN images /\ images[d].src = s

\* What holds of a run at pc that builds source s, wants digest w and has d.
SoundImage(pc, s, w, d) ==
  /\ pc \in {"bind", "existing"} => w # None
  /\ pc = "build" => w = None
  /\ pc \in {"qualify", "push"} \cup Settled => Built(d, s)
  /\ pc = "qualify" /\ w # None => d = ghcr
  /\ pc \in {"push"} \cup Settled => images[d].flaw = None
  /\ pc \in Settled => d = ghcr

SoundRun(r) == SoundImage(job[r].pc, job[r].src, job[r].want, job[r].digest)

Statements ==
  \A a \in attested : a.name = "ghcr" =>
    Built(a.digest, a.src) /\ a.digest = ghcr /\ images[a.digest].flaw = None

ReleaseInv == ReleaseTyped /\ (\A r \in R!Runs : SoundRun(r)) /\ Statements

\* The digest under the tag, when there is one, is that of an image.
LEMMA TagIsImage == ReleaseConstants /\ ReleaseTyped => None \notin DOMAIN images
BY DEF ReleaseConstants, ReleaseTyped

\* Images are only added, and the tag is set once.
Grows ==
  /\ DOMAIN images \subseteq DOMAIN images' /\ \A d \in DOMAIN images : images'[d] = images[d]
  /\ ghcr' = ghcr \/ ghcr = None

\* What is sound stays sound.
LEMMA SoundStays ==
  ASSUME ReleaseConstants, ReleaseTyped, Grows, NEW p, NEW s, NEW w, NEW d, SoundImage(p, s, w, d)
  PROVE SoundImage(p, s, w, d)'
<1>1. None \notin DOMAIN images
  BY TagIsImage, Zenon
<1>2. p \in {"qualify", "push"} \cup Settled => Built(d, s)'
  BY Zenon DEF Grows, SoundImage, Built
<1>3. p \in {"push"} \cup Settled => images'[d].flaw = None
  BY Zenon DEF Grows, SoundImage, Built
<1>4. p \in Settled \/ (p = "qualify" /\ w # None) => ghcr # None
  BY <1>1, Zenon DEF SoundImage, Built
<1> QED BY <1>2, <1>3, <1>4, Zenon DEF Grows, SoundImage

-----------------------------------------------------------------------------
(* The ways a run's record changes.                                          *)

Becomes(g, h, p, d) ==
  g \in JobSet /\ g.pc = p /\ g.src = h.src /\ g.want = h.want /\ g.digest = d

\* Each field by itself.
LEMMA SetPc ==
  ASSUME NEW h \in JobSet, NEW p \in JobPlaces
  PROVE Becomes([h EXCEPT !.pc = p], h, p, h.digest)
BY Zenon DEF JobSet, Becomes

LEMMA SetDigest ==
  ASSUME NEW h \in JobSet, NEW d \in Nat \cup {None}
  PROVE Becomes([h EXCEPT !.digest = d], h, h.pc, d)
BY Zenon DEF JobSet, Becomes

LEMMA SetFailed ==
  ASSUME NEW h \in JobSet, NEW f \in Failures
  PROVE Becomes([h EXCEPT !.failed = f], h, h.pc, h.digest)
BY Zenon DEF JobSet, Becomes

LEMMA SetAttempt ==
  ASSUME NEW h \in JobSet, NEW n \in Nat
  PROVE Becomes([h EXCEPT !.attempt = n], h, h.pc, h.digest)
BY Zenon DEF JobSet, Becomes

\* One run changes, the others do not.
Turns(r, p, d) ==
  /\ job' \in Seq(JobSet) /\ R!Runs' = R!Runs /\ Becomes(job'[r], job[r], p, d)
  /\ \A o \in R!Runs \ {r} : job'[o] = job[o]

\* A new record for one run.
LEMMA OneRun ==
  ASSUME job \in Seq(JobSet), NEW r \in R!Runs, NEW p, NEW d, NEW g, Becomes(g, job[r], p, d),
         job' = [job EXCEPT ![r] = g]
  PROVE Turns(r, p, d)
BY DEF Turns, R!Runs, Becomes

\* A run that goes on.
LEMMA AdvanceTurns ==
  ASSUME job \in Seq(JobSet), NEW r \in R!Runs, NEW p \in JobPlaces, R!Advance(r, p)
  PROVE Turns(r, p, job[r].digest)
<1>1. job[r] \in JobSet
  BY DEF R!Runs
<1>2. job' = [job EXCEPT ![r] = [job[r] EXCEPT !.pc = p]]
  BY Zenon DEF R!Advance
<1> QED BY <1>1, <1>2, SetPc, OneRun, Zenon

\* A run that gets a digest, at a build or from the registry.
LEMMA DigestTurns ==
  ASSUME job \in Seq(JobSet), NEW r \in R!Runs, NEW p \in JobPlaces, NEW d \in Nat \cup {None},
         job' = [job EXCEPT ![r].pc = p, ![r].digest = d]
  PROVE Turns(r, p, d)
<1> DEFINE a == [job[r] EXCEPT !.pc = p]
           b == [a EXCEPT !.digest = d]
<1>1. job' = [job EXCEPT ![r] = b]
  BY Zenon
<1>2. Becomes(a, job[r], p, job[r].digest)
  BY SetPc DEF R!Runs
<1> HIDE DEF a
<1>3. Becomes(b, job[r], p, d)
  BY <1>2, SetDigest, Zenon DEF Becomes
<1> HIDE DEF b
<1> QED BY <1>1, <1>3, OneRun, Zenon

\* A run that fails.
LEMMA FailsTurns ==
  ASSUME job \in Seq(JobSet), NEW r \in R!Runs, R!Fails(r)
  PROVE \E d : Turns(r, "failed", d)
<1> DEFINE h == job[r]
           f == IF h.pc \in {"validate", "attest"} THEN h.pc ELSE "other"
           d == IF h.pc = "attest" THEN h.digest ELSE None
           a == [h EXCEPT !.pc = "failed"]
           b == [a EXCEPT !.failed = f]
           c == [b EXCEPT !.digest = d]
<1>1. job' = [job EXCEPT ![r] = c]
  BY Zenon DEF R!Fails
<1>2. h \in JobSet
  BY DEF R!Runs
<1>3. f \in Failures /\ d \in Nat \cup {None}
  BY <1>2, Zenon DEF JobSet, Failures
<1>4. Becomes(a, h, "failed", h.digest)
  BY <1>2, SetPc, Zenon DEF JobPlaces
<1> HIDE DEF f, d, a
<1>5. Becomes(b, h, "failed", h.digest)
  BY <1>3, <1>4, SetFailed, Zenon DEF Becomes
<1> HIDE DEF b
<1>6. Becomes(c, h, "failed", d)
  BY <1>3, <1>5, SetDigest, Zenon DEF Becomes
<1> HIDE DEF c
<1> QED BY <1>1, <1>6, OneRun, Zenon

\* A run that is repeated.
LEMMA RerunTurns ==
  ASSUME job \in Seq(JobSet), NEW r \in R!Runs, R!Rerun(r)
  PROVE \E p \in {"validate", "queued"} : Turns(r, p, None)
<1> DEFINE h == job[r]
           p == IF h.failed = "validate" THEN "validate" ELSE "queued"
           n == h.attempt + 1
           a == [h EXCEPT !.pc = p]
           b == [a EXCEPT !.attempt = n]
           c == [b EXCEPT !.digest = None]
           e == [c EXCEPT !.failed = None]
<1>1. job' = [job EXCEPT ![r] = e]
  BY Zenon DEF R!Rerun
<1>2. h \in JobSet
  BY DEF R!Runs
<1>3. p \in {"validate", "queued"} /\ n \in Nat
  BY <1>2, SMTT(30) DEF JobSet
<1>4. Becomes(a, h, p, h.digest)
  BY <1>2, <1>3, SetPc, Zenon DEF JobPlaces
<1> HIDE DEF p, n, a
<1>5. Becomes(b, h, p, h.digest)
  BY <1>3, <1>4, SetAttempt, Zenon DEF Becomes
<1> HIDE DEF b
<1>6. Becomes(c, h, p, None)
  BY <1>5, SetDigest, Zenon DEF Becomes
<1> HIDE DEF c
<1>7. Becomes(e, h, p, None)
  BY <1>6, SetFailed, Zenon DEF Becomes, Failures
<1> HIDE DEF e
<1>8. Turns(r, p, None)
  BY <1>1, <1>7, OneRun, Zenon
<1> QED BY <1>3, <1>8, Zenon

-----------------------------------------------------------------------------
(* The steps keep the invariant.                                             *)

\* A step of one run that adds no statement.
LEMMA TurnKeeps ==
  ASSUME ReleaseConstants, ReleaseInv, Grows, ReleaseTyped', UNCHANGED attested,
         NEW r \in R!Runs, NEW p, NEW d, Turns(r, p, d),
         SoundImage(p, job[r].src, job[r].want, d)'
  PROVE ReleaseInv'
<1>1. ASSUME NEW o \in R!Runs PROVE SoundRun(o)'
  <2>1. CASE o = r
    BY <2>1, Zenon DEF Turns, Becomes, SoundRun, SoundImage
  <2>2. CASE o # r
    <3>1. job'[o] = job[o] /\ SoundRun(o)
      BY <2>2, Zenon DEF Turns, ReleaseInv
    <3>2. SoundImage(job[o].pc, job[o].src, job[o].want, job[o].digest)
      BY <3>1, Zenon DEF SoundRun
    <3> DEFINE hp == job[o].pc
               hs == job[o].src
               hw == job[o].want
               hd == job[o].digest
    <3>3. job'[o].pc = hp /\ job'[o].src = hs /\ job'[o].want = hw /\ job'[o].digest = hd
      BY <3>1, Zenon
    <3>4. ReleaseTyped
      BY Zenon DEF ReleaseInv
    <3>5. /\ hp \in {"bind", "existing"} => hw # None
          /\ hp = "build" => hw = None
          /\ hp \in {"qualify", "push"} \cup Settled =>
               hd \in DOMAIN images' /\ images'[hd].src = hs
          /\ hp = "qualify" /\ hw # None => hd = ghcr'
          /\ hp \in {"push"} \cup Settled => images'[hd].flaw = None
          /\ hp \in Settled => hd = ghcr'
      BY <3>2, <3>4, TagIsImage, Zenon DEF SoundImage, Built, Grows
    <3> HIDE DEF hp, hs, hw, hd
    <3> QED BY <3>3, <3>5, Zenon DEF SoundRun, SoundImage, Built
  <2> QED BY <2>1, <2>2, Zenon
<1>2. Statements'
  BY TagIsImage, Zenon DEF ReleaseInv, Statements, Grows, Built
<1> QED BY <1>1, <1>2, Zenon DEF ReleaseInv, Turns

Quiet == UNCHANGED <<images, stored, ghcr, attested, main, tagged>>

\* A step of one run that changes nothing else.
LEMMA QuietTurn ==
  ASSUME ReleaseConstants, ReleaseInv, Quiet, NEW r \in R!Runs, NEW p, NEW d, Turns(r, p, d),
         SoundImage(p, job[r].src, job[r].want, d)
  PROVE ReleaseInv'
<1>1. Grows /\ ReleaseTyped' /\ UNCHANGED attested
  BY Zenon DEF Quiet, Grows, ReleaseInv, ReleaseTyped, Turns
<1>2. SoundImage(p, job[r].src, job[r].want, d)'
  <2>1. Turns(r, p, d)
    BY Zenon
  <2>2. job'[r].src = job[r].src /\ job'[r].want = job[r].want
    BY <2>1, Zenon DEF Turns, Becomes
  <2> QED BY <2>2, Zenon DEF SoundImage, Built, Quiet
<1> QED BY <1>1, <1>2, TurnKeeps, Zenon

\* ... that fails,
LEMMA QuietFails ==
  ASSUME ReleaseConstants, ReleaseInv, Quiet, NEW r \in R!Runs, R!Fails(r)
  PROVE ReleaseInv'
<1>1. PICK d : Turns(r, "failed", d)
  BY FailsTurns, Zenon DEF ReleaseInv, ReleaseTyped
<1>2. SoundImage("failed", job[r].src, job[r].want, d)
  BY Zenon DEF SoundImage, Settled
<1> QED BY <1>1, <1>2, QuietTurn, Zenon

\* ... and that goes on.
LEMMA QuietAdvance ==
  ASSUME ReleaseConstants, ReleaseInv, Quiet, NEW r \in R!Runs, NEW p \in JobPlaces, R!Advance(r, p),
         SoundImage(p, job[r].src, job[r].want, job[r].digest)
  PROVE ReleaseInv'
<1>1. Turns(r, p, job[r].digest)
  BY AdvanceTurns, Zenon DEF ReleaseInv, ReleaseTyped
<1> QED BY <1>1, QuietTurn, Zenon

\* The steps that only check.
LEMMA ChecksKeep ==
  ASSUME ReleaseConstants, ReleaseInv, NEW r,
         \/ R!Validate(r) \/ R!Approve(r) \/ R!Bind(r) \/ R!Qualify(r) \/ R!VerifyPulled(r) \/ R!Verify(r)
         \/ R!PushRefused(r) \/ R!StepFails(r) \/ R!Rerun(r)
  PROVE ReleaseInv'
<1>1. Quiet /\ r \in R!Runs
  BY Zenon DEF R!Validate, R!Approve, R!Bind, R!Qualify, R!VerifyPulled, R!Verify, R!PushRefused, R!StepFails, R!Rerun,
     R!At, Quiet, R!Elsewhere
<1>2. SoundRun(r) /\ job[r] \in JobSet
  BY <1>1 DEF ReleaseInv, ReleaseTyped, R!Runs
<1>3. ASSUME R!Fails(r) PROVE ReleaseInv'
  BY <1>1, <1>3, QuietFails, Zenon
<1>4. CASE R!Validate(r)
  BY <1>1, <1>3, <1>4, QuietAdvance, Zenon DEF R!Validate, R!Checked, SoundImage, Settled, JobPlaces
<1>5. CASE R!Approve(r)
  <2>1. CASE job[r].want = None
    BY <1>1, <1>5, <2>1, QuietAdvance, Zenon DEF R!Approve, SoundImage, Settled, JobPlaces, R!Publishing
  <2>2. CASE job[r].want # None
    BY <1>1, <1>5, <2>2, QuietAdvance, Zenon DEF R!Approve, SoundImage, Settled, JobPlaces, R!Publishing
  <2> QED BY <2>1, <2>2, Zenon
<1>6. CASE R!Bind(r)
  <2>1. SoundImage("existing", job[r].src, job[r].want, job[r].digest)
    BY <1>2, <1>6, Zenon DEF R!Bind, R!At, SoundRun, SoundImage, Settled
  <2> QED BY <1>1, <1>3, <1>6, <2>1, QuietAdvance, Zenon DEF R!Bind, R!Checked, JobPlaces, R!Publishing
<1>7. CASE R!Qualify(r)
  <2> DEFINE d == job[r].digest
  <2>1. CASE R!Contents(d) /\ R!Scanned(d)
    <3>1. Built(d, job[r].src) /\ (job[r].want # None => d = ghcr)
      BY <1>2, <1>7, Zenon DEF R!Qualify, R!At, SoundRun, SoundImage
    <3>2. images[d].flaw = None
      <4>1. images[d] \in ImageSet
        BY <3>1 DEF Built, ReleaseInv, ReleaseTyped
      <4>2. images[d].flaw \in {None, "contents", "finding"}
        BY <4>1, Zenon DEF ImageSet
      <4> QED BY <2>1, <4>2, Zenon DEF R!Contents, R!Scanned
    <3>3. CASE job[r].want = None
      <4>1. R!Advance(r, "push") /\ SoundImage("push", job[r].src, job[r].want, d)
        BY <1>7, <2>1, <3>1, <3>2, <3>3, Zenon DEF R!Qualify, R!Checked, SoundImage, Settled
      <4> QED BY <1>1, <4>1, QuietAdvance, Zenon DEF JobPlaces, R!Publishing
    <3>4. CASE job[r].want # None
      <4>1. R!Advance(r, "pull") /\ SoundImage("pull", job[r].src, job[r].want, d)
        BY <1>7, <2>1, <3>1, <3>2, <3>4, Zenon DEF R!Qualify, R!Checked, SoundImage, Settled
      <4> QED BY <1>1, <4>1, QuietAdvance, Zenon DEF JobPlaces, R!Publishing
    <3> QED BY <3>3, <3>4, Zenon
  <2>2. CASE ~(R!Contents(d) /\ R!Scanned(d))
    BY <1>3, <1>7, <2>2, Zenon DEF R!Qualify, R!Checked
  <2> QED BY <2>1, <2>2, Zenon
<1>8. CASE R!VerifyPulled(r)
  <2>1. SoundImage("attest", job[r].src, job[r].want, job[r].digest)
    BY <1>2, <1>8, Zenon DEF R!VerifyPulled, R!At, SoundRun, SoundImage, Settled
  <2> QED BY <1>1, <1>3, <1>8, <2>1, QuietAdvance, Zenon DEF R!VerifyPulled, R!Checked, JobPlaces, R!Publishing
<1>9. CASE R!Verify(r)
  BY <1>1, <1>3, <1>9, QuietAdvance, Zenon DEF R!Verify, R!Checked, SoundImage, Settled, JobPlaces
<1>10. CASE R!PushRefused(r) \/ R!StepFails(r)
  BY <1>3, <1>10, Zenon DEF R!PushRefused, R!StepFails
<1>11. CASE R!Rerun(r)
  <2>1. PICK p \in {"validate", "queued"} : Turns(r, p, None)
    BY <1>1, <1>11, RerunTurns, Zenon DEF ReleaseInv, ReleaseTyped
  <2>2. SoundImage(p, job[r].src, job[r].want, None)
    BY Zenon DEF SoundImage, Settled
  <2> QED BY <1>1, <2>1, <2>2, QuietTurn, Zenon
<1> QED BY <1>4, <1>5, <1>6, <1>7, <1>8, <1>9, <1>10, <1>11, Zenon

\* A build adds an image of the run's own source.
LEMMA BuildKeeps ==
  ASSUME ReleaseConstants, ReleaseInv, NEW r, R!Build(r)
  PROVE ReleaseInv'
<1>0. PICK d : d = Len(images) + 1
  BY Zenon
<1>1. /\ r \in R!Runs /\ job[r] \in JobSet
      /\ UNCHANGED <<stored, ghcr, attested, main, tagged>>
      /\ job' = [job EXCEPT ![r].pc = "qualify", ![r].digest = d]
  BY <1>0 DEF R!Build, R!At, R!Elsewhere, ReleaseInv, ReleaseTyped, R!Runs
<1>2. PICK flaw \in {None, "contents", "finding"} :
        images' = Append(images, [src |-> job[r].src, flaw |-> flaw])
  BY Zenon DEF R!Build
<1>3. images \in Seq(ImageSet) /\ Len(images) \in Nat /\ DOMAIN images = 1..Len(images)
  BY DEF ReleaseInv, ReleaseTyped
<1>4. [src |-> job[r].src, flaw |-> flaw] \in ImageSet
  BY <1>1, Zenon DEF ImageSet, JobSet
<1>5. /\ images' \in Seq(ImageSet) /\ DOMAIN images' = 1..d
      /\ \A e \in DOMAIN images : images'[e] = images[e]
      /\ images'[d] = [src |-> job[r].src, flaw |-> flaw]
  BY <1>0, <1>2, <1>3, <1>4
<1>6. d \in Nat /\ d \in 1..d /\ DOMAIN images \subseteq 1..d
  BY <1>0, <1>3
<1>7. Turns(r, "qualify", d)
  BY <1>1, <1>6, DigestTurns, Zenon DEF ReleaseInv, ReleaseTyped, JobPlaces, R!Publishing
<1>8. Grows /\ ReleaseTyped'
  BY <1>1, <1>5, <1>6, <1>7, Zenon DEF Grows, ReleaseInv, ReleaseTyped, Turns
<1>9. job[r].want = None
  BY <1>1, Zenon DEF R!Build, R!At, ReleaseInv, SoundRun, SoundImage
<1>10. SoundImage("qualify", job[r].src, job[r].want, d)'
  <2>1. job'[r].src = job[r].src /\ job'[r].want = None
    BY <1>7, <1>9, Zenon DEF Turns, Becomes
  <2>2. d \in DOMAIN images' /\ images'[d].src = job[r].src
    BY <1>5, <1>6
  <2> QED BY <2>1, <2>2, Zenon DEF SoundImage, Built, Settled
<1> QED BY <1>1, <1>7, <1>8, <1>10, TurnKeeps, Zenon

\* A resumed run takes the digest under the tag, with its source checked.
LEMMA PullExistingKeeps ==
  ASSUME ReleaseConstants, ReleaseInv, NEW r, R!PullExisting(r)
  PROVE ReleaseInv'
<1>1. Quiet /\ r \in R!Runs /\ job[r] \in JobSet /\ job[r].want # None
  BY DEF R!PullExisting, R!At, Quiet, R!Elsewhere, ReleaseInv, SoundRun, SoundImage, ReleaseTyped, R!Runs
<1>2. CASE ghcr = job[r].want /\ R!Labelled(job[r].want, job[r].src)
  <2>1. job' = [job EXCEPT ![r].pc = "qualify", ![r].digest = job[r].want]
    BY <1>2, Zenon DEF R!PullExisting
  <2>2. job[r].want \in Nat \cup {None}
    BY <1>1, Zenon DEF JobSet
  <2>3. Turns(r, "qualify", job[r].want)
    BY <1>1, <2>1, <2>2, DigestTurns, Zenon DEF ReleaseInv, ReleaseTyped, JobPlaces, R!Publishing
  <2>4. Built(job[r].want, job[r].src)
    BY <1>1, <1>2, Zenon DEF R!Labelled, Built, ReleaseInv, ReleaseTyped
  <2>5. SoundImage("qualify", job[r].src, job[r].want, job[r].want)
    BY <1>2, <2>4, Zenon DEF SoundImage, Settled
  <2> QED BY <1>1, <2>3, <2>5, QuietTurn, Zenon
<1>3. CASE ~(ghcr = job[r].want /\ R!Labelled(job[r].want, job[r].src))
  BY <1>1, <1>3, QuietFails, Zenon DEF R!PullExisting
<1> QED BY <1>2, <1>3, Zenon

\* The push sets the tag to a digest that is sound.
LEMMA PushKeeps ==
  ASSUME ReleaseConstants, ReleaseInv, NEW r, R!Push(r)
  PROVE ReleaseInv'
<1>0. PICK d : d = job[r].digest
  BY Zenon
<1>1. /\ r \in R!Runs /\ job \in Seq(JobSet) /\ ghcr = None /\ ghcr' = d
      /\ stored' = stored \cup {d} /\ UNCHANGED <<images, attested, main, tagged>>
  BY <1>0, Zenon DEF R!Push, R!Unpublished, R!At, R!Elsewhere, ReleaseInv, ReleaseTyped
<1>2. Built(d, job[r].src) /\ images[d].flaw = None
  BY <1>0, <1>1, Zenon DEF R!Push, R!At, ReleaseInv, SoundRun, SoundImage
<1>3. Grows
  BY <1>1, Zenon DEF Grows
<1>4. ASSUME NEW p, NEW e, Turns(r, p, e) PROVE ReleaseTyped'
  BY <1>1, <1>2, <1>4, Zenon DEF ReleaseInv, ReleaseTyped, Built, Turns
<1>5. CASE R!Advance(r, "pull")
  <2>1. Turns(r, "pull", d)
    BY <1>0, <1>1, <1>5, AdvanceTurns, Zenon DEF JobPlaces, R!Publishing
  <2>2. job'[r].src = job[r].src /\ job'[r].want = job[r].want
    BY <2>1, Zenon DEF Turns, Becomes
  <2>3. SoundImage("pull", job[r].src, job[r].want, d)'
    BY <1>1, <1>2, <2>2, Zenon DEF SoundImage, Built, Settled
  <2> QED BY <1>1, <1>3, <1>4, <2>1, <2>3, TurnKeeps, Zenon
<1>6. CASE R!Fails(r)
  <2>1. PICK e : Turns(r, "failed", e)
    BY <1>1, <1>6, FailsTurns, Zenon
  <2>2. SoundImage("failed", job[r].src, job[r].want, e)'
    BY Zenon DEF SoundImage, Settled
  <2> QED BY <1>1, <1>3, <1>4, <2>1, <2>2, TurnKeeps, Zenon
<1> QED BY <1>5, <1>6, Zenon DEF R!Push

\* A statement names what the run built.
LEMMA StatementFields ==
  ASSUME NEW r
  PROVE \A a \in {R!Statement(r), R!Sbom(r)} :
          a.name = "ghcr" /\ a.digest = job[r].digest /\ a.src = job[r].src
BY DEF R!Statement, R!Sbom

\* A statement is about a settled run.
LEMMA AttestKeeps ==
  ASSUME ReleaseConstants, ReleaseInv, NEW r, R!Attest(r)
  PROVE ReleaseInv'
<1>1. /\ r \in R!Runs /\ job \in Seq(JobSet) /\ job[r].pc \in {"attest", "sbom"}
      /\ UNCHANGED <<images, stored, ghcr, main, tagged>>
  BY Zenon DEF R!Attest, R!At, R!Elsewhere, ReleaseInv, ReleaseTyped
<1>2. PICK a \in {R!Statement(r), R!Sbom(r)} : attested' = attested \cup {a}
  BY Zenon DEF R!Attest
<1>3. SoundRun(r)
  BY <1>1, Zenon DEF ReleaseInv
<1>4. /\ Built(job[r].digest, job[r].src) /\ job[r].digest = ghcr
      /\ images[job[r].digest].flaw = None
  BY <1>1, <1>3, Zenon DEF SoundRun, SoundImage, Settled
<1>5. Statements'
  BY <1>1, <1>2, <1>4, StatementFields DEF ReleaseInv, Statements, Built
<1>6. ASSUME NEW p, NEW d, Turns(r, p, d), SoundImage(p, job[r].src, job[r].want, d)
      PROVE ReleaseInv'
  <2>1. ReleaseTyped'
    BY <1>1, <1>6, Zenon DEF ReleaseInv, ReleaseTyped, Turns
  <2>2. ASSUME NEW o \in R!Runs PROVE SoundRun(o)'
    <3>1. CASE o = r
      BY <1>1, <1>6, <3>1, Zenon DEF Turns, Becomes, SoundRun, SoundImage, Built
    <3>2. CASE o # r
      BY <1>1, <1>6, <3>2, Zenon DEF Turns, ReleaseInv, SoundRun, SoundImage, Built
    <3> QED BY <3>1, <3>2, Zenon
  <2> QED BY <1>5, <1>6, <2>1, <2>2, Zenon DEF ReleaseInv, Turns
<1>7. ASSUME NEW p \in {"sbom", "check"}, R!Advance(r, p) PROVE ReleaseInv'
  <2>1. Turns(r, p, job[r].digest)
    BY <1>1, <1>7, AdvanceTurns, Zenon DEF JobPlaces, R!Publishing
  <2>2. SoundImage(p, job[r].src, job[r].want, job[r].digest)
    BY <1>4, Zenon DEF SoundImage, Settled
  <2> QED BY <1>6, <2>1, <2>2, Zenon
<1>8. ASSUME R!Fails(r) PROVE ReleaseInv'
  <2>1. PICK d : Turns(r, "failed", d)
    BY <1>1, <1>8, FailsTurns, Zenon
  <2>2. SoundImage("failed", job[r].src, job[r].want, d)
    BY Zenon DEF SoundImage, Settled
  <2> QED BY <1>6, <2>1, <2>2, Zenon
<1> QED BY <1>7, <1>8, Zenon DEF R!Attest

\* A new run has done nothing.
LEMMA DispatchKeeps ==
  ASSUME ReleaseConstants, ReleaseInv, R!Dispatch
  PROVE ReleaseInv'
<1>1. Quiet
  BY Zenon DEF R!Dispatch, R!Elsewhere, Quiet
<1>2. PICK want \in stored \cup {None}, o \in R!Runs \cup {None} :
        job' = Append(job, [pc |-> "validate", src |-> tagged, head |-> main, want |-> want,
                            origin |-> o, digest |-> None, attempt |-> 1, failed |-> None])
  BY Zenon DEF R!Dispatch
<1> DEFINE h == [pc |-> "validate", src |-> tagged, head |-> main, want |-> want,
                 origin |-> o, digest |-> None, attempt |-> 1, failed |-> None]
<1>3. /\ job \in Seq(JobSet) /\ Len(job) \in Nat /\ R!Runs = 1..Len(job)
      /\ images \in Seq(ImageSet) /\ DOMAIN images \subseteq Nat
      /\ stored \subseteq DOMAIN images /\ tagged \in Nat /\ main \in Nat
  BY DEF ReleaseInv, ReleaseTyped, R!Runs
<1>4. h \in JobSet
  <2>1. want \in Nat \cup {None} /\ o \in Nat \cup {None}
    BY <1>3
  <2> QED BY <1>3, <2>1, Zenon DEF JobSet, JobPlaces, Failures
<1>5. h.pc = "validate"
  BY Zenon
<1> HIDE DEF h
<1>6. /\ job' \in Seq(JobSet) /\ R!Runs' = 1..(Len(job) + 1) /\ job'[Len(job) + 1] = h
      /\ \A r \in R!Runs : job'[r] = job[r]
  BY <1>2, <1>3, <1>4 DEF R!Runs, h
<1>7. ASSUME NEW r \in R!Runs' PROVE SoundRun(r)'
  <2>1. CASE r \in R!Runs
    BY <1>1, <1>6, <2>1, Zenon DEF Quiet, ReleaseInv, SoundRun, SoundImage, Built
  <2>2. CASE r = Len(job) + 1
    BY <1>5, <1>6, <2>2, Zenon DEF SoundRun, SoundImage, Settled
  <2> QED BY <1>3, <1>6, <2>1, <2>2
<1>8. ReleaseTyped' /\ Statements'
  BY <1>1, <1>6, Zenon DEF Quiet, ReleaseInv, ReleaseTyped, Statements, Built
<1> QED BY <1>7, <1>8, Zenon DEF ReleaseInv

\* A step outside the runs: no image, no tag of the registry, and no statement
\* about what a run built.
LEMMA OutsideKeeps ==
  ASSUME ReleaseInv, UNCHANGED <<images, stored, ghcr, job>>, main' \in Nat, tagged' \in Nat,
         \A a \in attested' : a \in attested \/ a.name = "hub"
  PROVE ReleaseInv'
<1>1. ReleaseTyped'
  BY Zenon DEF ReleaseInv, ReleaseTyped
<1>2. \A r \in R!Runs' : SoundRun(r)'
  BY Zenon DEF ReleaseInv, SoundRun, SoundImage, Built, R!Runs
<1>3. Statements'
  BY Zenon DEF ReleaseInv, Statements, Built
<1> QED BY <1>1, <1>2, <1>3, Zenon DEF ReleaseInv

\* The mirror, the repository and the maintainer.
LEMMA MirrorStepKeeps ==
  ASSUME ReleaseInv, R!MirrorStep \/ R!Merge \/ R!MoveTag \/ R!WriteReceipt
  PROVE ReleaseInv'
<1>1. main \in Nat /\ tagged \in Nat
  BY Zenon DEF ReleaseInv, ReleaseTyped
<1>2. CASE R!MirrorDispatch \/ R!MirrorPrepare \/ R!MirrorEvidence \/ R!MirrorCopy \/ R!MirrorVerify
  BY <1>1, <1>2, OutsideKeeps, Zenon DEF R!MirrorDispatch, R!MirrorPrepare, R!MirrorEvidence, R!MirrorCopy,
     R!MirrorVerify, R!Release
<1>3. CASE R!MirrorSign
  <2>1. R!MirrorStatement.name = "hub" /\ R!MirrorBill.name = "hub"
    BY Zenon DEF R!MirrorStatement, R!MirrorBill
  <2> QED BY <1>1, <1>3, <2>1, OutsideKeeps, Zenon DEF R!MirrorSign, R!Release
<1>4. CASE R!Merge
  BY <1>1, <1>4, OutsideKeeps DEF R!Merge
<1>5. CASE R!MoveTag
  BY <1>1, <1>5, OutsideKeeps DEF R!MoveTag
<1>6. CASE R!WriteReceipt
  BY <1>1, <1>6, OutsideKeeps, Zenon DEF R!WriteReceipt
<1> QED BY <1>2, <1>3, <1>4, <1>5, <1>6, Zenon DEF R!MirrorStep

\* Every step keeps the invariant of the runs.
LEMMA ReleaseInvStep ==
  ASSUME ReleaseConstants, ReleaseInv, [R!Next]_(R!vars)
  PROVE ReleaseInv'
<1>1. CASE UNCHANGED R!vars
  BY <1>1, OutsideKeeps, Zenon DEF R!vars, ReleaseInv, ReleaseTyped
<1>2. ASSUME NEW r, R!RunStep(r) PROVE ReleaseInv'
  BY <1>2, ChecksKeep, BuildKeeps, PullExistingKeeps, PushKeeps, AttestKeeps, Zenon DEF R!RunStep
<1> QED BY <1>1, <1>2, DispatchKeeps, MirrorStepKeeps, Zenon DEF R!Next

\* The invariant of the runs.
LEMMA ReleaseInvHolds ==
  ASSUME ReleaseConstants
  PROVE R!Spec => []ReleaseInv
<1>1. R!Init => ReleaseInv
  BY DEF R!Init, ReleaseInv, ReleaseTyped, Statements, R!Runs
<1>2. ReleaseInv /\ [R!Next]_(R!vars) => ReleaseInv'
  BY ReleaseInvStep, Zenon
<1> QED BY <1>1, <1>2, PTL DEF R!Spec

\* Signed provenance is about the image under the version tag, names the source
\* it was built from, and the image passed the checks, for runs that build and
\* for runs that resume (docker_release_provenance.py, resume_docker_release.py,
\* check_container_image.py, check_release_scan.py).
THEOREM ProvenanceIsTrue ==
  ASSUME ReleaseConstants
  PROVE R!Spec => []R!AttestedAsBuilt
<1>1. ReleaseInv => R!AttestedAsBuilt
  BY Zenon DEF ReleaseInv, Statements, R!AttestedAsBuilt, Built
<1> QED BY <1>1, ReleaseInvHolds, PTL

-----------------------------------------------------------------------------
(* The mirror. A statement once signed and a tag once set stay, so what a    *)
(* mirror run found before the approval still holds when it copies.          *)

MirrorRecord ==
  mirror = [pc |-> mirror.pc, src |-> mirror.src, digest |-> mirror.digest, head |-> mirror.head]

MirrorInv ==
  /\ mirror.pc \in {"idle", "done", "failed"} \/ MirrorRecord
  /\ mirror.pc \in {"approved", "copy"} => R!SourceVerified(mirror.digest, mirror.src)
  /\ mirror.pc = "copy" => mirror.digest = ghcr
  /\ R!MirrorIsVerified

\* Signed evidence stays.
LEMMA VerifiedStays ==
  ASSUME attested \subseteq attested', NEW d, NEW s, R!SourceVerified(d, s)
  PROVE R!SourceVerified(d, s)'
BY Zenon DEF R!SourceVerified, R!Signed

\* A step that leaves the mirror run and Docker Hub alone.
LEMMA AsideKeeps ==
  ASSUME ReleaseConstants, ReleaseInv, MirrorInv, Grows, attested \subseteq attested',
         stored \subseteq stored', UNCHANGED <<mirror, hub>>
  PROVE MirrorInv'
<1>1. None \notin DOMAIN images /\ ReleaseTyped
  BY TagIsImage, Zenon DEF ReleaseInv
<1>2. mirror.pc \in {"approved", "copy"} => R!SourceVerified(mirror.digest, mirror.src)'
  BY VerifiedStays, ZenonT(60) DEF MirrorInv, R!SourceVerified, R!Signed
<1>3. ASSUME mirror.pc = "copy" PROVE mirror.digest = ghcr'
  <2>1. PICK a \in attested : a.name = "ghcr" /\ a.digest = mirror.digest
    BY <1>3, Zenon DEF MirrorInv, R!SourceVerified, R!Signed
  <2>2. mirror.digest \in DOMAIN images
    BY <2>1, Zenon DEF ReleaseInv, Statements, Built
  <2> QED BY <1>1, <1>3, <2>2, Zenon DEF MirrorInv, Grows
<1>4. ASSUME hub \notin {None, R!Foreign}
      PROVE hub = ghcr' /\ R!SourceVerified(hub, images[hub].src)'
  <2>1. hub = ghcr /\ R!SourceVerified(hub, images[hub].src)
    BY <1>4, Zenon DEF MirrorInv, R!MirrorIsVerified
  <2>2. hub \in DOMAIN images
    BY <1>1, <1>4, <2>1, Zenon DEF ReleaseTyped
  <2>3. ghcr' = ghcr /\ images'[hub] = images[hub]
    BY <1>1, <2>1, <2>2, Zenon DEF Grows
  <2> QED BY <2>1, <2>3, Zenon DEF R!SourceVerified, R!Signed
<1> QED BY <1>2, <1>3, <1>4, Zenon DEF MirrorInv, MirrorRecord, R!MirrorIsVerified

\* The mirror run moves on with its record, or ends.
LEMMA MirrorMoves ==
  ASSUME MirrorInv, NEW p, R!Mirrors(p), mirror.pc \notin {"idle", "done", "failed"}
  PROVE /\ mirror'.pc = p
        /\ p \notin {"done", "failed"} =>
             MirrorRecord' /\ mirror'.digest = mirror.digest /\ mirror'.src = mirror.src
<1>1. MirrorRecord
  BY Zenon DEF MirrorInv
<1>2. CASE p \in {"done", "failed"}
  BY <1>2, Zenon DEF R!Mirrors
<1>3. CASE p \notin {"done", "failed"}
  <2>1. mirror' = [mirror EXCEPT !.pc = p]
    BY <1>3, Zenon DEF R!Mirrors
  <2> DEFINE s == mirror.src
             d == mirror.digest
             h == mirror.head
             q == mirror.pc
  <2>2. mirror = [pc |-> q, src |-> s, digest |-> d, head |-> h]
    BY <1>1, Zenon DEF MirrorRecord
  <2> HIDE DEF s, d, h, q
  <2>3. [[pc |-> q, src |-> s, digest |-> d, head |-> h] EXCEPT !.pc = p]
          = [pc |-> p, src |-> s, digest |-> d, head |-> h]
    OBVIOUS
  <2>4. mirror' = [pc |-> p, src |-> s, digest |-> d, head |-> h]
    BY <2>1, <2>2, <2>3, Zenon
  <2>5. MirrorRecord' /\ mirror'.pc = p /\ mirror'.digest = d /\ mirror'.src = s
    BY <2>4, Zenon DEF MirrorRecord
  <2> QED BY <2>5, Zenon DEF d, s
<1> QED BY <1>2, <1>3, Zenon

\* The steps of the mirror run.
LEMMA MirrorKeeps ==
  ASSUME ReleaseConstants, ReleaseInv, MirrorInv, R!MirrorStep
  PROVE MirrorInv'
<1>1. /\ UNCHANGED <<images, stored, ghcr>> /\ attested \subseteq attested'
  BY Zenon DEF R!MirrorStep, R!MirrorDispatch, R!MirrorPrepare, R!MirrorEvidence, R!MirrorCopy, R!MirrorSign,
     R!MirrorVerify, R!Release
<1>2. ASSUME UNCHANGED hub PROVE R!MirrorIsVerified'
  BY <1>1, <1>2, Zenon DEF MirrorInv, R!MirrorIsVerified, R!SourceVerified, R!Signed
<1>3. ASSUME NEW p \in {"done", "failed", "evidence", "sign", "verify"}, R!Mirrors(p),
             mirror.pc \notin {"idle", "done", "failed"}, R!MirrorIsVerified'
      PROVE MirrorInv'
  BY <1>3, MirrorMoves, Zenon DEF MirrorInv
<1>4. CASE R!MirrorDispatch
  <2>1. mirror'.pc = "prepare" /\ MirrorRecord' /\ UNCHANGED hub
    BY <1>4 DEF R!MirrorDispatch, MirrorRecord
  <2> QED BY <1>2, <2>1, Zenon DEF MirrorInv
<1>5. CASE R!MirrorPrepare
  <2>1. mirror.pc \in {"prepare", "approved"} /\ UNCHANGED <<hub, attested>>
    BY <1>5, Zenon DEF R!MirrorPrepare
  <2>2. CASE ~R!Prepared
    BY <1>2, <1>3, <1>5, <2>1, <2>2, Zenon DEF R!MirrorPrepare
  <2>3. CASE R!Prepared /\ mirror.pc = "prepare"
    BY <1>2, <1>3, <1>5, <2>1, <2>3, Zenon DEF R!MirrorPrepare
  <2>4. CASE R!Prepared /\ mirror.pc = "approved"
    <3>1. R!Mirrors("copy") /\ mirror.digest = ghcr
      BY <1>5, <2>4, Zenon DEF R!MirrorPrepare, R!Prepared, R!Manifest
    <3>2. /\ mirror'.pc = "copy" /\ MirrorRecord' /\ mirror'.digest = mirror.digest
          /\ mirror'.src = mirror.src
      BY <2>4, <3>1, MirrorMoves
    <3>3. R!SourceVerified(mirror.digest, mirror.src)
      BY <2>4, Zenon DEF MirrorInv
    <3>4. R!SourceVerified(mirror.digest, mirror.src)'
      BY <2>1, <3>2, <3>3 DEF R!SourceVerified, R!Signed
    <3> QED BY <1>1, <1>2, <2>1, <3>1, <3>2, <3>4, Zenon DEF MirrorInv
  <2> QED BY <2>1, <2>2, <2>3, <2>4, Zenon
<1>6. CASE R!MirrorEvidence
  <2>1. mirror.pc = "evidence" /\ UNCHANGED <<hub, attested>>
    BY <1>6, Zenon DEF R!MirrorEvidence
  <2>2. CASE R!SourceVerified(mirror.digest, mirror.src)
    <3>1. R!Mirrors("approved")
      BY <1>6, <2>2, Zenon DEF R!MirrorEvidence
    <3>2. /\ mirror'.pc = "approved" /\ MirrorRecord' /\ mirror'.digest = mirror.digest
          /\ mirror'.src = mirror.src
      BY <2>1, <3>1, MirrorMoves
    <3>3. R!SourceVerified(mirror.digest, mirror.src)'
      BY <2>1, <2>2, <3>2 DEF R!SourceVerified, R!Signed
    <3> QED BY <1>2, <2>1, <3>2, <3>3, Zenon DEF MirrorInv
  <2>3. CASE ~R!SourceVerified(mirror.digest, mirror.src)
    BY <1>2, <1>3, <1>6, <2>1, <2>3, Zenon DEF R!MirrorEvidence
  <2> QED BY <2>2, <2>3, Zenon
<1>7. CASE R!MirrorCopy
  <2>1. mirror.pc = "copy" /\ UNCHANGED attested
    BY <1>7, Zenon DEF R!MirrorCopy
  <2>2. CASE /\ hub' = mirror.digest /\ mirror.digest \in stored
             /\ R!Labelled(mirror.digest, mirror.src)
             /\ R!Mirrors("sign") \/ R!Mirrors("failed")
    <3>1. mirror.digest = ghcr /\ R!SourceVerified(mirror.digest, mirror.src)
      BY <2>1, Zenon DEF MirrorInv
    <3>2. images[mirror.digest].src = mirror.src
      BY <2>2, Zenon DEF R!Labelled
    <3>3. R!MirrorIsVerified'
      BY <1>1, <2>1, <2>2, <3>1, <3>2, Zenon DEF R!MirrorIsVerified, R!SourceVerified, R!Signed
    <3> QED BY <1>3, <2>1, <2>2, <3>3, Zenon
  <2>3. CASE UNCHANGED hub /\ R!Mirrors("failed")
    BY <1>2, <1>3, <2>1, <2>3, Zenon
  <2> QED BY <1>7, <2>2, <2>3, Zenon DEF R!MirrorCopy
<1>8. CASE R!MirrorSign
  BY <1>2, <1>3, <1>8, Zenon DEF R!MirrorSign
<1>9. CASE R!MirrorVerify
  BY <1>2, <1>3, <1>9, Zenon DEF R!MirrorVerify
<1> QED BY <1>4, <1>5, <1>6, <1>7, <1>8, <1>9, Zenon DEF R!MirrorStep

\* Every step keeps the invariant of the mirror.
LEMMA MirrorInvStep ==
  ASSUME ReleaseConstants, ReleaseInv, MirrorInv, [R!Next]_(R!vars)
  PROVE MirrorInv'
<1>1. ASSUME UNCHANGED <<images, stored, ghcr, attested, mirror, hub>> PROVE MirrorInv'
  BY <1>1, AsideKeeps, Zenon DEF Grows
<1>2. CASE UNCHANGED R!vars
  BY <1>1, <1>2, Zenon DEF R!vars
<1>3. CASE R!Dispatch \/ R!Merge \/ R!MoveTag \/ R!WriteReceipt
  BY <1>1, <1>3, Zenon DEF R!Dispatch, R!Merge, R!MoveTag, R!WriteReceipt, R!Elsewhere
<1>4. ASSUME NEW r,
             \/ R!Validate(r) \/ R!Approve(r) \/ R!Bind(r) \/ R!PullExisting(r) \/ R!Qualify(r)
             \/ R!PushRefused(r) \/ R!VerifyPulled(r) \/ R!Verify(r) \/ R!StepFails(r) \/ R!Rerun(r)
      PROVE MirrorInv'
  BY <1>1, <1>4, Zenon DEF R!Validate, R!Approve, R!Bind, R!PullExisting, R!Qualify, R!PushRefused, R!VerifyPulled,
     R!Verify, R!StepFails, R!Rerun, R!Elsewhere
<1>5. ASSUME NEW r, R!Build(r) PROVE MirrorInv'
  <2>1. \E h : images' = Append(images, h)
    BY <1>5, Zenon DEF R!Build
  <2>2. images \in Seq(ImageSet)
    BY Zenon DEF ReleaseInv, ReleaseTyped
  <2>3. DOMAIN images \subseteq DOMAIN images' /\ \A d \in DOMAIN images : images'[d] = images[d]
    BY <2>1, <2>2
  <2> QED BY <1>5, <2>3, AsideKeeps, Zenon DEF R!Build, R!Elsewhere, Grows
<1>6. ASSUME NEW r, R!Push(r) PROVE MirrorInv'
  BY <1>6, AsideKeeps, Zenon DEF R!Push, R!Unpublished, R!Elsewhere, Grows
<1>7. ASSUME NEW r, R!Attest(r) PROVE MirrorInv'
  BY <1>7, AsideKeeps, Zenon DEF R!Attest, R!Elsewhere, Grows
<1>8. ASSUME NEW r, R!RunStep(r) PROVE MirrorInv'
  BY <1>4, <1>5, <1>6, <1>7, <1>8, Zenon DEF R!RunStep
<1> QED BY <1>2, <1>3, <1>8, MirrorKeeps, Zenon DEF R!Next

\* What Docker Hub serves under the version, unless it was there before, is what
\* the GitHub registry serves, with signed provenance for its source
\* (dockerhub_release.py).
THEOREM MirrorServesVerified ==
  ASSUME ReleaseConstants
  PROVE R!Spec => []R!MirrorIsVerified
<1>1. R!Init => MirrorInv
  BY DEF R!Init, MirrorInv, R!MirrorIsVerified
<1>2. ReleaseInv /\ MirrorInv /\ [R!Next]_(R!vars) => MirrorInv'
  BY MirrorInvStep, Zenon
<1>3. MirrorInv => R!MirrorIsVerified
  BY Zenon DEF MirrorInv
<1> QED BY <1>1, <1>2, <1>3, ReleaseInvHolds, PTL DEF R!Spec
===============================================================================
