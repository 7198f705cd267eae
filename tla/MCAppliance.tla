----------------------------- MODULE MCAppliance -----------------------------
(* The life of the appliance around its data plane, for TLC: the recovery of  *)
(* the container's volume, and with it the accounts, the first setup, the     *)
(* native restore and upgrade, the creation of the guest, the settings, the   *)
(* wizard and the release of an image.  They share no state that two of them  *)
(* change at a time, so a behaviour moves the part that its first state       *)
(* chooses, and a property is about the behaviours of its part.               *)
EXTENDS MCContainerRecovery, Sequences, TLC

CONSTANTS Clients, None

VARIABLES part,
          now, user, codes, sessions, challenge, enrollment, cookie, request, loop, tokens,
          accepted, reused, failed, used,
          runtime, file, ingressRows, configured, enabled, up, setupPc, by, tried, answer, cuts,
          gen, rev, revoked, restoreSnap, running, forwarding, blocked, net, lock, state, restorePc,
          back, bad, result, archive, bpc, begun,
          installed, db, zone, service, upgradeSnap, whole, upgradePc, at, before, damaged, runs,
          upgradeFaults,
          guests, active, local, args, commands, confirmed, fetch, round, creationPc, changes,
          host, stored, task, noted, appUp, settingFaults, conf, env, cli, asked, edits,
          reviewed, main, tagged, images, pushed, ghcr, hub, receipt, attested, job, mirror,
          mirrors, releaseFaults,
          ids, skipped, deferred, chosenActive, vpn, systemStep, adminStep, readyStep, done, auth,
          handlers, failures, chosen, calls

accessVars == <<now, user, codes, sessions, challenge, enrollment, cookie, request, loop,
                tokens, accepted, reused, failed, used>>
setupVars == <<runtime, file, ingressRows, configured, enabled, up, setupPc, by, tried, answer,
               cuts>>
restoreVars == <<gen, rev, revoked, restoreSnap, running, forwarding, blocked, net, lock, state,
                 restorePc, back, bad, result, archive, bpc, begun>>
upgradeVars == <<installed, db, zone, service, upgradeSnap, whole, upgradePc, at, before, damaged,
                 runs, upgradeFaults>>
creationVars == <<guests, active, local, args, commands, confirmed, fetch, round, creationPc,
                  changes>>
settingVars == <<host, stored, task, noted, appUp, settingFaults, conf, env, cli, asked, edits>>
releaseVars == <<reviewed, main, tagged, images, pushed, ghcr, hub, receipt, attested, job, mirror,
                 mirrors, releaseFaults>>
wizardVars == <<ids, skipped, deferred, chosenActive, vpn, systemStep, adminStep, readyStep, done,
                auth, handlers, failures, chosen, calls>>

\* Two browsers and a scaled clock.
Accounts == INSTANCE Access WITH issued <- tokens,
    MaxAttempts <- 2, Window <- 2, ChallengeLife <- 2, EnrollmentLife <- 2, MaxAge <- 2,
    IdleTimeout <- 2, Refresh <- 1, Step <- 2, Codes <- {1}, MaxTime <- 3, MaxIssued <- 3
Setup == INSTANCE InitialSetup WITH rows <- ingressRows, pc <- setupPc, MaxCuts <- 3
Restoring == INSTANCE NativeRestore WITH snap <- restoreSnap, pc <- restorePc,
    ingress <- forwarding, guard <- blocked, backup <- archive, MaxRuns <- 2
Upgrading == INSTANCE NativeUpgrade WITH disk <- installed, snap <- upgradeSnap, pc <- upgradePc,
    faults <- upgradeFaults, MaxWrites <- 2, MaxFaults <- 2, MaxRuns <- 2
Creation == INSTANCE ApplianceCreation WITH pc <- creationPc, shown <- confirmed,
    Ids <- 1..2, Stores <- 1..2, Templates <- 1..2, MaxChanges <- 2
Settings == INSTANCE ApplianceSettings WITH up <- appUp, faults <- settingFaults,
    Zones <- {"utc", "local"}, MaxFaults <- 3, MaxEdits <- 2
Release == INSTANCE ImageRelease WITH stored <- pushed, faults <- releaseFaults,
    Commits <- 1..2, MaxRuns <- 2, MaxAttempts <- 2, MaxBuilds <- 2, MaxMirrors <- 1,
    MaxFaults <- 1
Wizard == INSTANCE SetupWizard WITH confirmed <- chosenActive, active <- vpn,
    system <- systemStep, admin <- adminStep, ready <- readyStep, req <- handlers,
    Providers <- {"a", "b"}, Default <- "a", Requests <- 1..2, Limit <- 1, MaxCalls <- 3

Parts == {"volume", "access", "setup", "restore", "upgrade", "creation", "zone",
          "deployment", "release", "wizard"}

ApplianceInit ==
  /\ part \in Parts
  /\ Init /\ Accounts!Init /\ Setup!Init /\ Restoring!Init /\ Upgrading!Init
  /\ Creation!Init /\ Settings!Init /\ Release!Init /\ Wizard!Init
  /\ part # "volume" => skeleton = FALSE
  /\ part # "setup" => runtime = "native"
  /\ part # "upgrade" => service = "old"
  /\ part # "creation" => local = {}
  /\ part # "zone" => host = "utc"
  /\ part # "deployment" => env = [f \in Settings!Fields |-> None]
  /\ part # "release" => hub = None /\ reviewed

VolumeStep == part = "volume"
  /\ UNCHANGED <<part, accessVars, setupVars, restoreVars, upgradeVars, creationVars,
                 settingVars, releaseVars, wizardVars>>
  /\ Next
AccessStep == part = "access"
  /\ UNCHANGED <<part, vars, setupVars, restoreVars, upgradeVars, creationVars, settingVars,
                 releaseVars, wizardVars>>
  /\ Accounts!Next
SetupStep == part = "setup"
  /\ UNCHANGED <<part, vars, accessVars, restoreVars, upgradeVars, creationVars, settingVars,
                 releaseVars, wizardVars>>
  /\ Setup!Next
RestoreStep == part = "restore"
  /\ UNCHANGED <<part, vars, accessVars, setupVars, upgradeVars, creationVars, settingVars,
                 releaseVars, wizardVars>>
  /\ Restoring!Next
UpgradeStep == part = "upgrade"
  /\ UNCHANGED <<part, vars, accessVars, setupVars, restoreVars, creationVars, settingVars,
                 releaseVars, wizardVars>>
  /\ Upgrading!Next
CreationStep == part = "creation"
  /\ UNCHANGED <<part, vars, accessVars, setupVars, restoreVars, upgradeVars, settingVars,
                 releaseVars, wizardVars>>
  /\ Creation!Next
SettingStep ==
  /\ UNCHANGED <<part, vars, accessVars, setupVars, restoreVars, upgradeVars, creationVars,
                 releaseVars, wizardVars>>
  /\ \/ part = "zone" /\ Settings!Timezone
     \/ part = "deployment" /\ Settings!Deployment
ReleaseStep == part = "release"
  /\ UNCHANGED <<part, vars, accessVars, setupVars, restoreVars, upgradeVars, creationVars,
                 settingVars, wizardVars>>
  /\ Release!Next
WizardStep == part = "wizard"
  /\ UNCHANGED <<part, vars, accessVars, setupVars, restoreVars, upgradeVars, creationVars,
                 settingVars, releaseVars>>
  /\ Wizard!Next

ApplianceNext ==
  \/ VolumeStep \/ AccessStep \/ SetupStep \/ RestoreStep \/ UpgradeStep
  \/ CreationStep \/ SettingStep \/ ReleaseStep \/ WizardStep

ApplianceSpec ==
  ApplianceInit /\ [][ApplianceNext]_<<part, vars, accessVars, setupVars, restoreVars, upgradeVars,
                                      creationVars, settingVars, releaseVars, wizardVars>>

Symmetry == Permutations(Clients)

-----------------------------------------------------------------------------
\* The state of each part has the shape its module gives it: the volume, the accounts, the
\* setup, the restore, the upgrade, the release and the wizard.
PartsTypeOK ==
  /\ part = "volume" => TypeOK
  /\ part = "access" => Accounts!TypeOK
  /\ part = "setup" => Setup!TypeOK
  /\ part = "restore" => Restoring!TypeOK
  /\ part = "upgrade" => Upgrading!TypeOK
  /\ part = "release" => Release!ReleaseTypeOK
  /\ part = "wizard" => Wizard!TypeOK

\* auth_security: a TOTP code or recovery code is accepted once, the refused second factors in
\* one window are bounded over all challenges and clients, and a session in use is not lost to
\* the idle timeout because its row is renewed only once a minute.
SignInHolds ==
  part = "access" =>
    Accounts!OneTimeUse /\ Accounts!AttemptsBounded /\ Accounts!ActiveStaysSignedIn

\* wireguard_initial: after every cut of a first setup, its rollback and its recovery, the
\* ingress is there entirely or not at all, the database claims it only with files that survive
\* a power loss, an interface that is up is one some record intends, and a setup that was
\* answered as done is never rolled back.
IngressIsWhole ==
  part = "setup" =>
    /\ Setup!AllOrNothing /\ Setup!ClaimsHaveFiles
    /\ Setup!InterfaceIsIntended /\ Setup!DoneStaysDone

\* lifecycle: whichever step of a native restore or of its recovery fails, the application runs
\* on one generation without restored sessions, clients are forwarded only behind the guards of
\* the database in place, everything needed to go back stays on the disk, and a backup taken
\* beside it is of one moment.
RestoreIsWhole ==
  part = "restore" =>
    /\ Restoring!RunsOneGeneration /\ Restoring!ForwardingGuarded
    /\ Restoring!SnapshotKept /\ Restoring!BackupIsOneState

\* install-debian.sh: once the snapshot is complete every path of the previous installation is
\* in place or whole in the recovery directory, a rollback without errors restores all of them,
\* and no release runs on the database of another one.
UpgradeIsReversible ==
  part = "upgrade" =>
    Upgrading!PreviousKept /\ Upgrading!RollbackRestores /\ Upgrading!SchemaMatches

\* create-proxmox-lxc.py: what is created on a host that others change is the plan the operator
\* confirmed, and no guest of somebody else is touched.
CreatedAsConfirmed ==
  /\ [](part = "creation" => Creation!CreatedAsConfirmed)
  /\ [][Creation!KeepsForeignGuests]_<<part, creationVars>>

\* timezone, settings: host and stored timezone differ only when that was reported, and each
\* deployment field is the one last asked for, by the page or by the command line.
SettingsAsAsked ==
  /\ part = "zone" => Settings!NoSilentMismatch
  /\ part = "deployment" => Settings!LastRequestHolds

\* The release scripts: whatever failed, ran again or was resumed, a version in a registry is
\* never replaced, signed provenance names the source the image was built from, and Docker Hub
\* serves what was verified.
ReleaseIsVerified ==
  /\ [][Release!KeepsVersions]_<<part, releaseVars>>
  /\ [](part = "release" => Release!AttestedAsBuilt /\ Release!MirrorIsVerified)

\* main: whatever two handlers interleave at their awaits, a setup that is complete has passed
\* its steps, the confirmed active provider is a selected or an activated one, and failed
\* sign-outs stay within the limit and the handlers past it.
WizardIsConsistent ==
  part = "wizard" =>
    Wizard!StepsEarned /\ Wizard!ConfirmedIsSelected /\ Wizard!SignOutsBounded
=============================================================================
