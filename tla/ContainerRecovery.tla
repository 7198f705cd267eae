------------------------- MODULE ContainerRecovery -------------------------
(***************************************************************************)
(* The container recovery coordinator (container_recovery.py) with the     *)
(* hooks its entrypoint installs (container_entrypoint.py): first start,   *)
(* restart and restore of the durable pair under a journal, with a crash   *)
(* possible before every durable step and an exception possible in every   *)
(* step.  A generation stands for the content of one coherent volume; each *)
(* component of the live volume records the generation it was taken from.  *)
(***************************************************************************)
EXTENDS Naturals, Sequences

CONSTANTS Generation,  \* contents a coherent volume can have
          Fresh,       \* the staged empty pair of a first start
          Configured,  \* the generations with a configured ingress
          Absent,      \* no such file or directory
          Torn,        \* a directory some of whose entries were written
          Faults,      \* the kinds of fault that can happen
          MaxFaults    \* bound on the number of faults

FaultKinds == {"crash", "raise", "late_raise", "torn_snapshot", "hot_database", "worker"}

ASSUME GenerationAssumption ==
    /\ Fresh \in Generation /\ Configured \subseteq Generation \ {Fresh}
    /\ Absent \notin Generation /\ Torn \notin Generation /\ Absent # Torn
ASSUME FaultAssumption == Faults \subseteq FaultKinds /\ MaxFaults \in Nat

VARIABLES
    pc,         \* the next step of the running call, "idle", "raised", "required" or "off"
    caller,     \* the call being run, and whether its exception handler runs
    journal,    \* the phase in transaction.json, or "none"
    candidate,  \* content of <transaction>/candidate
    previous,   \* content of <transaction>/previous
    skeleton,   \* the volume's root directory has entries
    live,       \* component -> generation it was taken from
    stale,      \* the live database holds sessions of a restored archive
    hot,        \* the live database has a hot rollback journal
    index,      \* the component _publish replaces next
    guard,      \* the maintenance table is in the kernel
    ingress,    \* the ingress interface exists
    worker,     \* the application worker runs
    ready,      \* ContainerEntrypoint.ready
    restarts,   \* restarts of the worker this process has made
    outcome,    \* what the last restore or startup reported
    origin, target, shown,  \* history: content before the transaction, the
                            \* content it installs, the content last reopened
    faults      \* faults so far

disk    == <<journal, candidate, previous, skeleton, live, stale, hot>>
network == <<guard, ingress, worker, ready>>
history == <<origin, target, shown>>
vars == <<pc, caller, disk, index, network, restarts, outcome, history, faults>>

InitPhases == {"init_preparing", "init_ready"}
RestorePhases == {"prepared", "snapshot_ready", "publishing", "installed", "validated",
                  "committed", "rollback_required"}
Phases == InitPhases \cup RestorePhases

\* The order in which _publish replaces the components; the last two are directories.
PublishOrder == <<"database", "master_key", "manifest", "wireguard", "provider_egress">>
Component == {"database", "master_key", "manifest", "wireguard", "provider_egress"}
Directories == {"wireguard", "provider_egress"}

Content == Generation \cup {Absent, Torn}

\* _record runs at these steps, with these phases.
Recorded == [rec_preparing |-> "init_preparing", rec_ready |-> "init_ready",
             rec_prepared |-> "prepared", rec_snapshot |-> "snapshot_ready",
             rec_publishing |-> "publishing", rec_installed |-> "installed",
             rec_validated |-> "validated", rec_committed |-> "committed",
             rec_rollback |-> "rollback_required"]

Steps == {"startup", "stage", "prepare", "guard", "quiesce", "reset", "snapshot", "dispatch",
          "publish", "revoke", "validate", "reconcile", "health", "reopen", "unlink", "rmtree"}
         \cup DOMAIN Recorded
Callers == {"none", "startup", "prepare", "restore", "rollback", "failed"}

\* The part of validate that compares the pair: the manifest names the key.
Validates == /\ ~hot
             /\ live["master_key"] = live["manifest"]
             /\ live["database"] \in Generation /\ live["master_key"] \in Generation

Coherent == \E g \in Generation :
                /\ \A c \in Component \ {"provider_egress"} : live[c] = g
                /\ live["provider_egress"] \in {g, Absent}

\* The content the database says is installed, and the content a user can see.
Installed == live["database"]
Visible == IF Coherent THEN Installed ELSE Torn
----------------------------------------------------------------------------
Init == /\ pc = "off" /\ caller = "none"
        /\ journal = "none" /\ candidate = Absent /\ previous = Absent
        /\ \/ skeleton = FALSE /\ live = [c \in Component |-> Absent] /\ shown = Fresh
           \/ /\ skeleton = TRUE
              /\ \E g \in Generation : live = [c \in Component |-> g] /\ shown = g
        /\ stale = FALSE /\ hot = FALSE /\ index = 1
        /\ guard = FALSE /\ ingress = FALSE /\ worker = FALSE /\ ready = FALSE
        /\ restarts = 0 /\ outcome = "none"
        /\ origin = shown /\ target = shown /\ faults = 0

\* The supervisor process ends.  Its network namespace ends with it, and so do
\* the interface, the tables and every process; the volume stays.  Without a
\* journal nothing refers to the transaction's directory any more.
ProcessEnds ==
    /\ pc' = "off" /\ caller' = "none" /\ index' = 1 /\ restarts' = 0
    /\ guard' = FALSE /\ ingress' = FALSE /\ worker' = FALSE /\ ready' = FALSE
    /\ UNCHANGED <<journal, skeleton, live, stale, history>>
    /\ IF journal = "none" THEN candidate' = Absent /\ previous' = Absent
                           ELSE UNCHANGED <<candidate, previous>>

\* Where the call goes when the step named by pc has succeeded.
After ==
    CASE pc = "rec_preparing" -> "stage"
      [] pc = "stage"         -> "rec_ready"
      [] pc = "rec_ready"     -> IF caller = "startup" /\ ~guard THEN "guard" ELSE "publish"
      [] pc = "prepare"       -> "rec_prepared"
      [] pc = "rec_prepared"  -> "guard"
      [] pc = "guard"         -> "quiesce"
      [] pc = "quiesce"       -> CASE caller = "restore" -> "snapshot"
                                   [] caller = "failed"  -> "required"
                                   [] OTHER              -> "reset"
      [] pc = "snapshot"      -> "rec_snapshot"
      [] pc = "rec_snapshot"  -> "reset"
      [] pc = "reset"         -> CASE caller = "restore"  -> "rec_publishing"
                                   [] caller = "rollback" ->
                                        IF previous = Absent THEN "validate" ELSE "rec_rollback"
                                   [] OTHER -> "dispatch"
      [] pc \in {"rec_publishing", "rec_rollback"} -> "publish"
      [] pc = "rec_installed" -> "revoke"
      [] pc = "revoke"        -> "validate"
      [] pc = "validate"      -> "reconcile"
      [] pc = "reconcile"     -> "health"
      [] pc = "health"        -> IF caller = "restore" THEN "rec_validated" ELSE "reopen"
      [] pc = "rec_validated" -> "rec_committed"
      [] pc = "rec_committed" -> "reopen"
      [] pc = "reopen"        -> IF journal = "none" THEN "idle" ELSE "unlink"
      [] pc = "unlink"        -> "rmtree"
      [] OTHER                -> "idle"

Continue == /\ pc' = After
            /\ UNCHANGED <<restarts, faults>>

\* The call is over: the lease goes back and its result is reported.
Finish == /\ caller' = IF After \in {"idle", "required"} THEN "none" ELSE caller
          /\ outcome' = IF After = "required" THEN "required"
                        ELSE IF After # "idle" THEN outcome
                        ELSE IF caller = "restore" THEN "restored"
                        ELSE IF caller = "rollback" THEN "rolled_back" ELSE "none"
----------------------------------------------------------------------------
(* Startup. *)

\* run(): the container starts, or starts again under restart: unless-stopped.
BootProcess == /\ pc = "off"
        /\ pc' = "startup" /\ caller' = "startup"
        /\ UNCHANGED <<disk, index, network, restarts, outcome, history, faults>>

\* run(): the worker has ended; startup runs again in this process, at most twice.
RestartWorker ==
    /\ pc = "idle" /\ ~worker
    /\ IF restarts < 2
       THEN /\ pc' = "startup" /\ caller' = "startup" /\ restarts' = restarts + 1
            /\ UNCHANGED <<disk, index, network>>
       ELSE ProcessEnds /\ UNCHANGED hot
    /\ UNCHANGED <<outcome, history, faults>>

\* _startup up to its first hook: create the skeleton of an empty root, follow
\* a journal, recover a hot database (guard, quiesce, SQLite's own recovery), or
\* refuse a volume that does not validate.
Startup ==
    /\ pc = "startup"
    /\ UNCHANGED <<candidate, previous, journal, live, stale, history, faults>>
    /\ CASE ~skeleton ->
               /\ skeleton' = TRUE /\ pc' = "rec_preparing"
               /\ UNCHANGED <<hot, caller, index, network, restarts, outcome>>
         [] skeleton /\ journal # "none" ->
               /\ pc' = "guard"
               /\ UNCHANGED <<hot, caller, index, network, restarts, outcome, skeleton>>
         [] skeleton /\ journal = "none" /\ hot ->
               /\ guard' = TRUE /\ ready' = FALSE /\ worker' = FALSE /\ ingress' = FALSE
               /\ hot' = FALSE
               /\ UNCHANGED <<pc, caller, index, restarts, outcome, skeleton>>
         [] OTHER ->
               /\ UNCHANGED <<hot, skeleton>>
               /\ \/ /\ Validates /\ pc' = "guard"
                     /\ UNCHANGED <<caller, index, network, restarts, outcome>>
                  \/ /\ ~Validates \/ ~Coherent
                     /\ outcome' = "refused" /\ ProcessEnds

\* stage_empty into the candidate directory, removing what an interrupted attempt left.
Stage == /\ pc = "stage"
         /\ \/ candidate # Torn /\ candidate' = Torn /\ UNCHANGED pc
            \/ candidate = Torn /\ candidate' = Fresh /\ pc' = After
         /\ UNCHANGED <<journal, previous, skeleton, live, stale, hot, caller, index, network,
                        restarts, outcome, history, faults>>

\* Mutant: a prepared receipt is rolled back although no snapshot exists yet.
BugRollBackPrepared ==
    /\ pc = "dispatch"
    /\ pc' = CASE journal = "none"           -> "validate"
               [] journal = "init_preparing" -> "stage"
               [] journal = "committed"      -> "validate"
               [] OTHER -> "publish"
    /\ UNCHANGED <<caller, disk, index, network, restarts, outcome, history, faults>>

\* _startup after reset_egress: the phase decides what is published.
Dispatch ==
    /\ pc = "dispatch"
    /\ pc' = CASE journal = "none"           -> "validate"
               [] journal = "init_preparing" -> "stage"
               [] journal \in {"prepared", "committed"} -> "validate"
               [] OTHER -> "publish"
    /\ UNCHANGED <<caller, disk, index, network, restarts, outcome, history, faults>>
----------------------------------------------------------------------------
(* Restore, up to its first durable effect. *)

\* restore: confirmation, live validation and the refusal of a pending journal,
\* then the archive is decrypted, validated and staged.
Restore(g) ==
    /\ pc = "idle" /\ Validates /\ journal = "none"
    /\ pc' = "prepare" /\ caller' = "prepare" /\ outcome' = "none"
    /\ candidate' = g /\ previous' = Absent
    /\ origin' = Installed /\ target' = g
    /\ UNCHANGED <<journal, skeleton, live, stale, hot, index, network, restarts, shown, faults>>

\* A volume that does not validate rejects the restore; a pending journal makes
\* ContainerRecoveryService poison the authority.
RestoreRefused ==
    /\ pc = "idle" /\ (~Validates \/ journal # "none")
    /\ IF Validates THEN pc' = "required" /\ outcome' = "required"
                    ELSE pc' = pc /\ outcome' = "rejected"
    /\ origin' = Installed
    /\ UNCHANGED <<caller, disk, index, network, restarts, target, shown, faults>>

Prepare == /\ pc = "prepare" /\ Continue
           /\ UNCHANGED <<caller, disk, index, network, outcome, history>>

\* Mutant: a request is served as soon as the worker answers its health check.
BugMutate(g) ==
    /\ worker /\ journal = "none"
    /\ g \in Configured \/ Installed \notin Configured
    /\ live' = [c \in Component |-> g] /\ shown' = g /\ outcome' = "none"
    /\ ingress' = (g \in Configured)
    /\ guard' = IF g \in Configured THEN FALSE ELSE guard
    /\ UNCHANGED <<pc, caller, journal, candidate, previous, skeleton, stale, hot, index, worker,
                   ready, restarts, origin, target, faults>>

\* A leased application request commits one change of the volume's content.
Mutate(g) ==
    /\ pc = "idle" /\ worker /\ journal = "none" /\ ready
    /\ g \in Configured \/ Installed \notin Configured
    /\ live' = [c \in Component |-> g] /\ shown' = g /\ outcome' = "none"
    /\ ingress' = (g \in Configured)
    /\ guard' = IF g \in Configured THEN FALSE ELSE guard
    /\ UNCHANGED <<pc, caller, journal, candidate, previous, skeleton, stale, hot, index, worker,
                   ready, restarts, origin, target, faults>>
----------------------------------------------------------------------------
(* The steps that startup, restore and rollback share. *)

Record ==
    /\ pc \in DOMAIN Recorded /\ Continue
    /\ journal' = Recorded[pc]
    /\ caller' = IF pc = "rec_prepared" THEN "restore" ELSE caller
    /\ UNCHANGED <<candidate, previous, skeleton, live, stale, hot, index, network, outcome, history>>

\* ContainerEntrypoint.guard.  The handler of a failed rollback reads the
\* identities from the journal: without one its guard is skipped.
Guard ==
    /\ pc = "guard" /\ Continue
    /\ IF caller = "failed" /\ journal = "none"
       THEN UNCHANGED network
       ELSE guard' = TRUE /\ ready' = FALSE /\ UNCHANGED <<ingress, worker>>
    /\ UNCHANGED <<caller, disk, index, outcome, history>>

\* ContainerEntrypoint.quiesce: reap the worker, then delete the owned interface.
Quiesce ==
    /\ pc = "quiesce" /\ Continue /\ Finish
    /\ worker' = FALSE /\ ingress' = FALSE
    /\ UNCHANGED <<disk, index, guard, ready, history>>

\* ContainerEntrypoint.reset: the maintenance table must be observed.
Reset == /\ pc = "reset" /\ guard /\ Continue
         /\ UNCHANGED <<caller, disk, index, network, outcome, history>>

\* Mutant: the receipt may be written before the copy is complete.
BugSnapshot == /\ pc = "snapshot" /\ Continue
               /\ previous' = Torn
               /\ UNCHANGED <<caller, journal, candidate, skeleton, live, stale, hot, index, network,
                              outcome, history>>

\* _snapshot copies every component and validates the copy.
Snapshot == /\ pc = "snapshot" /\ Validates /\ Continue
            /\ previous' = Installed
            /\ UNCHANGED <<caller, journal, candidate, skeleton, live, stale, hot, index, network,
                           outcome, history>>

\* The layout that _publish copies.
FromCandidate == caller = "restore" \/ journal \in InitPhases
Source == IF FromCandidate THEN candidate ELSE previous

\* _publish: the source validates; known sidecars go; three files are replaced
\* one by one; each directory is emptied and then filled.
Publish ==
    /\ pc = "publish" /\ Source \in Generation
    /\ LET c == PublishOrder[index] IN
       /\ hot' = FALSE
       /\ \/ /\ c \in Directories /\ live[c] # Torn
             /\ live' = [live EXCEPT ![c] = Torn]
             /\ UNCHANGED <<pc, index>>
          \/ /\ c \notin Directories \/ live[c] = Torn
             /\ live' = [live EXCEPT ![c] =
                            IF c = "provider_egress" /\ FromCandidate THEN Absent ELSE Source]
             /\ index' = IF index = Len(PublishOrder) THEN 1 ELSE index + 1
             /\ pc' = IF index < Len(PublishOrder) THEN pc
                      ELSE IF caller = "restore" THEN "rec_installed" ELSE "validate"
       /\ stale' = IF c = "database" THEN caller = "restore" ELSE stale
    /\ UNCHANGED <<caller, journal, candidate, previous, skeleton, network, restarts, outcome,
                   history, faults>>

\* Mutant: restored sessions survive.
BugRevoke == /\ pc = "revoke" /\ Continue
             /\ UNCHANGED <<caller, disk, index, network, outcome, history>>

\* The restored sessions, MFA challenges and enrollments are deleted.
Revoke == /\ pc = "revoke" /\ Continue
          /\ stale' = FALSE
          /\ UNCHANGED <<caller, journal, candidate, previous, skeleton, live, hot, index, network,
                         outcome, history>>

Validate == /\ pc = "validate" /\ Validates /\ Continue
            /\ UNCHANGED <<caller, disk, index, network, outcome, history>>

\* ContainerController.reconcile: projections are rebuilt under the observed
\* guard, then a configured ingress is activated.
Reconcile ==
    /\ pc = "reconcile" /\ guard /\ Continue
    /\ live' = [live EXCEPT !["provider_egress"] = Installed]
    /\ ingress' = (Installed \in Configured)
    /\ UNCHANGED <<caller, journal, candidate, previous, skeleton, stale, hot, index, guard, worker,
                   ready, outcome, history>>

Health == /\ pc = "health" /\ Validates /\ Continue
          /\ worker' = TRUE
          /\ UNCHANGED <<caller, disk, index, guard, ingress, ready, outcome, history>>

\* ContainerEntrypoint.reopen: a first run without ingress keeps its table.
Reopen ==
    /\ pc = "reopen" /\ Continue /\ Finish
    /\ guard' = IF ingress THEN FALSE ELSE guard
    /\ ready' = TRUE /\ shown' = Visible
    /\ UNCHANGED <<disk, index, ingress, worker, origin, target>>

\* _cleanup removes the receipt first, so that no receipt names deleted files.
Unlink == /\ pc = "unlink" /\ candidate # Absent /\ Continue
          /\ journal' = "none"
          /\ UNCHANGED <<caller, candidate, previous, skeleton, live, stale, hot, index, network,
                         outcome, history>>

RemoveTree == /\ pc = "rmtree" /\ Continue /\ Finish
              /\ candidate' = Absent /\ previous' = Absent
              /\ UNCHANGED <<journal, skeleton, live, stale, hot, index, network, history>>
----------------------------------------------------------------------------
(* Faults. *)

\* What a step that raises may already have done.
PartialEffect ==
    CASE pc = "guard" ->
            /\ ready' = FALSE /\ guard' \in {guard, TRUE}
            /\ UNCHANGED <<disk, ingress, worker>>
      [] pc = "quiesce" ->
            /\ worker' \in {worker, FALSE}
            /\ ingress' \in {ingress} \cup (IF worker' THEN {} ELSE {FALSE})
            /\ UNCHANGED <<disk, guard, ready>>
      [] pc = "snapshot" ->
            /\ previous' \in {Absent} \cup (IF "torn_snapshot" \in Faults THEN {Torn} ELSE {})
            /\ UNCHANGED <<journal, candidate, skeleton, live, stale, hot, network>>
      [] pc \in DOMAIN Recorded ->
            /\ journal' \in {journal}
                            \cup (IF "late_raise" \in Faults THEN {Recorded[pc]} ELSE {})
            /\ UNCHANGED <<candidate, previous, skeleton, live, stale, hot, network>>
      [] pc = "revoke" ->
            /\ stale' \in {stale, FALSE}
            /\ UNCHANGED <<journal, candidate, previous, skeleton, live, hot, network>>
      [] pc = "reconcile" ->
            /\ ingress' \in {ingress, (Installed \in Configured)}
            /\ UNCHANGED <<disk, guard, worker, ready>>
      [] pc = "health" ->
            /\ worker' \in BOOLEAN
            /\ hot' \in {hot} \cup (IF "hot_database" \in Faults THEN {TRUE} ELSE {})
            /\ UNCHANGED <<journal, candidate, previous, skeleton, live, stale, guard, ingress, ready>>
      [] pc = "reopen" ->
            /\ guard' \in {guard, IF ingress THEN FALSE ELSE guard}
            /\ UNCHANGED <<disk, ingress, worker, ready>>
      [] pc = "unlink" ->
            /\ journal' \in {journal} \cup (IF "late_raise" \in Faults THEN {"none"} ELSE {})
            /\ UNCHANGED <<candidate, previous, skeleton, live, stale, hot, network>>
      [] OTHER -> UNCHANGED <<disk, network>>

\* An exception leaves a step: a hook fails, a command times out, the disk is
\* full.  After a failed rollback, guard and quiesce run under suppress(Exception).
Raise ==
    /\ "raise" \in Faults /\ faults < MaxFaults
    /\ pc \in Steps \ {"startup", "dispatch"}
    /\ pc = "rmtree" => "late_raise" \in Faults
    /\ PartialEffect
    /\ pc' = IF caller = "failed" THEN After ELSE "raised"
    /\ IF caller = "failed" THEN Finish ELSE UNCHANGED <<caller, outcome>>
    /\ faults' = faults + 1
    /\ UNCHANGED <<index, restarts, history>>

\* Validation refuses what it reads, a layout that is not complete is not
\* published, and _cleanup expects the transaction's directory.
Refuse ==
    /\ \/ pc \in {"validate", "health", "snapshot"} /\ (~Validates \/ ~Coherent)
       \/ pc = "publish" /\ Source \notin Generation
       \/ pc = "unlink" /\ candidate = Absent
    /\ pc' = "raised"
    /\ outcome' = IF caller = "startup" THEN "refused" ELSE outcome
    /\ UNCHANGED <<caller, disk, index, network, restarts, history, faults>>

\* The except clauses of restore; an exception in startup ends the process.
Handle ==
    /\ pc = "raised" /\ index' = 1
    /\ UNCHANGED <<history, faults>>
    /\ \/ /\ caller = "startup"
          /\ ProcessEnds /\ UNCHANGED <<hot, outcome>>
       \/ /\ caller = "prepare"  \* not journalled: remove the directory, report the refusal
          /\ pc' = "idle" /\ caller' = "none" /\ outcome' = "rejected"
          /\ candidate' = Absent /\ previous' = Absent
          /\ UNCHANGED <<journal, skeleton, live, stale, hot, network, restarts>>
       \/ /\ caller \in {"restore", "rollback"}
          /\ pc' = "guard"
          /\ caller' = IF caller = "restore" /\ journal # "none" THEN "rollback" ELSE "failed"
          /\ UNCHANGED <<disk, network, restarts, outcome>>

\* A poisoned authority refuses run() its restart lease once the worker has ended.
GiveUp == /\ pc = "required" /\ ~worker
          /\ ProcessEnds /\ UNCHANGED <<hot, outcome, faults>>

\* Otherwise the operator restarts the container.
OperatorRestart == /\ pc = "required" /\ worker
                   /\ ProcessEnds /\ UNCHANGED <<hot, outcome, faults>>

\* The container is killed; a writer may leave a hot rollback journal behind.
Crash ==
    /\ "crash" \in Faults /\ faults < MaxFaults /\ pc # "off"
    /\ ProcessEnds
    /\ hot' \in {hot} \cup (IF "hot_database" \in Faults /\ pc \in {"idle", "health"}
                            THEN {TRUE} ELSE {})
    /\ faults' = faults + 1 /\ UNCHANGED outcome

\* The worker ends by itself.
WorkerEnds ==
    /\ "worker" \in Faults /\ faults < MaxFaults /\ worker
    /\ worker' = FALSE
    /\ hot' \in {hot} \cup (IF "hot_database" \in Faults /\ pc = "idle" THEN {TRUE} ELSE {})
    /\ faults' = faults + 1
    /\ UNCHANGED <<pc, caller, journal, candidate, previous, skeleton, live, stale, index, guard,
                   ingress, ready, restarts, outcome, history>>
----------------------------------------------------------------------------
\* Steps the supervisor takes by itself, as soon as it can.
Progress ==
    \/ BootProcess \/ RestartWorker \/ Startup \/ Stage \/ Dispatch \/ Prepare \/ Record \/ Guard
    \/ Quiesce \/ Reset \/ Snapshot \/ Publish \/ Revoke \/ Validate \/ Reconcile \/ Health
    \/ Reopen \/ Unlink \/ RemoveTree \/ Refuse \/ Handle \/ GiveUp

Next == \/ Progress
        \/ \E g \in Generation : Restore(g) \/ Mutate(g)
        \/ RestoreRefused \/ OperatorRestart \/ Raise \/ Crash \/ WorkerEnds

Spec == Init /\ [][Next]_vars
FairSpec == Spec /\ WF_vars(Progress)
----------------------------------------------------------------------------
TypeOK ==
    /\ pc \in Steps \cup {"off", "idle", "raised", "required"} /\ caller \in Callers
    /\ journal \in Phases \cup {"none"} /\ candidate \in Content /\ previous \in Content
    /\ live \in [Component -> Content] /\ index \in 1..Len(PublishOrder)
    /\ skeleton \in BOOLEAN /\ stale \in BOOLEAN /\ hot \in BOOLEAN
    /\ guard \in BOOLEAN /\ ingress \in BOOLEAN /\ worker \in BOOLEAN /\ ready \in BOOLEAN
    /\ restarts \in 0..2 /\ faults \in 0..MaxFaults
    /\ outcome \in {"none", "restored", "rolled_back", "rejected", "required", "refused"}
    /\ origin \in Content /\ target \in Content /\ shown \in Content

\* Traffic can leave an ingress client only through an interface that no
\* maintenance table covers.
Forwarding == ingress /\ ~guard

\* Forwarding never runs on a mixed volume or on restored sessions: publication
\* lies between guard/quiesce and health/reopen, whatever step fails or is cut.
ForwardsCoherentState == Forwarding => Coherent /\ ~stale

\* _publish writes only while every writer is reaped, the interface is gone and
\* the maintenance table is armed ("Only called after every writer has been reaped").
PublishIsQuiesced == pc = "publish" => guard /\ ~worker /\ ~ingress

\* The receipt always names a layout that startup can publish: an interrupted
\* publication finds a complete previous pair, a first start its staged pair.
ReceiptIsRecoverable ==
    /\ journal = "init_ready" => candidate = Fresh
    /\ journal \in {"snapshot_ready", "publishing", "installed", "validated",
                    "rollback_required"} => previous = origin
    /\ journal \in {"prepared", "committed"} /\ caller \notin {"restore", "rollback"}
          => Coherent /\ ~stale

\* restore installs the archive or leaves what it found, and reports which: the
\* result it returned last still describes the whole volume.
ReportedOutcome ==
    pc = "idle" /\ outcome \in {"restored", "rolled_back", "rejected"} =>
        /\ Coherent /\ ~stale /\ journal = "none"
        /\ Installed = IF outcome = "restored" THEN target ELSE origin

\* A volume whose first durable receipt was never written is left for inspection.
Skeleton == skeleton /\ journal = "none" /\ live["database"] = Absent

\* After the last fault the appliance serves again, whatever the faults cut.
Serving == pc = "idle" /\ worker /\ ready /\ Coherent
Recovers == []<>(Serving \/ Skeleton \/ (pc = "required" /\ worker))

\* The contents that startup may reopen: the receipt leaves two, none leaves one.
Choices == IF journal = "none" THEN {shown} ELSE {origin, target}
Volume == INSTANCE AtomicVolume WITH content <- shown, choices <- Choices, serving <- ready

\* Journal, snapshots and component-wise publication implement the atomic
\* volume: whatever is cut or fails, a reopening serves the whole old or the
\* whole new content, and a leased write is lost only to a restore.
ImplementsAtomicVolume == Volume!Spec

\* A hot rollback journal alone never makes startup refuse the volume.
HotJournalRecovers == ~(outcome = "refused" /\ hot /\ Coherent)
=============================================================================
