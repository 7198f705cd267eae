------------------------- MODULE ApplianceSettings -------------------------
(***************************************************************************)
(* Two groups of settings that more than one program writes.               *)
(*                                                                         *)
(* The timezone (settings.update_settings, services/timezone.py): the      *)
(* stored zone is authoritative, and an update first changes the host with *)
(* timedatectl, verifies it, and stores it last.                           *)
(*                                                                         *)
(* The deployment settings (services/network_security.py): the public URL, *)
(* the trusted proxies, the cookie policy and the management prefixes,     *)
(* written by the web handler, by the command `proxy set`, a process of    *)
(* its own, and by the command `proxy reset`; a field may be overridden by *)
(* the environment of the service.                                         *)
(***************************************************************************)
EXTENDS Integers

CONSTANTS
    Zones,          \* timezones
    MaxFaults,      \* failing commands, failing writes and changes of the host by others
    MaxEdits,       \* requests that change deployment settings
    None

VARIABLES
    host,       \* the timezone of the host
    stored,     \* the timezone in the database, None when none was ever chosen
    task,       \* the update that holds _SETTINGS_UPDATE_LOCK, or None
    noted,      \* a difference of host and stored was reported to someone
    up,         \* the application runs
    faults,
    conf,       \* deployment field -> stored value, None when not stored
    env,        \* deployment field -> value of the environment, None when it is not set
    cli,        \* a running `proxy set`, or None
    asked,      \* deployment field -> the value last asked for and accepted
    edits

zoneVars == <<host, stored, task, noted, up, faults>>
confVars == <<conf, env, cli, asked, edits>>
vars == <<zoneVars, confVars>>

Fields == {"url", "proxies", "cookie", "prefixes"}

\* url: none, http or https; the other fields are empty or default (0), or set (1).
Values(f) == IF f = "url" THEN 0..2 ELSE 0..1
ProxyFields == Fields \ {"prefixes"}

Init ==
    /\ host \in Zones /\ stored = None /\ task = None /\ noted = FALSE /\ up = TRUE
    /\ faults = 0
    /\ conf = [f \in Fields |-> None] /\ asked = conf /\ cli = None /\ edits = 0
    /\ \E f \in Fields : \E v \in Values(f) \cup {None} :
          env = [g \in Fields |-> IF g = f THEN v ELSE None]

----------------------------------------------------------------------------
(* The timezone                                                             *)

Fault == faults < MaxFaults /\ faults' = faults + 1

At(step) == task # None /\ task.pc = step
Step(step) == task' = [task EXCEPT !.pc = step]

\* The update ends.  An error is answered or logged as an event, so a difference that is left is known;
\* a success tells nobody of one.
Differ == stored' # None /\ host' # stored'
Fails == task' = None /\ noted' = Differ
Succeeds == task' = None /\ noted' = (noted /\ Differ)

\* update_settings takes the lock and calls set_system_timezone.
Update(z) ==
    /\ up /\ task = None
    /\ task' = [pc |-> IF host = z THEN "store" ELSE "set", zone |-> z, previous |-> host,
                changed |-> host # z, startup |-> FALSE]
    /\ UNCHANGED <<host, stored, noted, up, faults>>

\* timedatectl set-timezone: done, or failed; one that was killed at its timeout may have been
\* carried out, and one that reports success may not have been.
SetZone ==
    /\ At("set") /\ UNCHANGED <<stored, up>>
    /\ \/ host' = task.zone /\ Step("verify") /\ UNCHANGED <<noted, faults>>
       \/ Fault /\ host' = host /\ Step("verify") /\ noted' = noted
       \/ Fault /\ host' \in {host, task.zone} /\ Fails

\* The host is read again; another value is replaced by the previous one, and the update is
\* refused.
Verify ==
    /\ At("verify") /\ UNCHANGED <<stored, up>>
    /\ \/ /\ host = task.zone /\ host' = host
          /\ IF task.startup THEN Succeeds ELSE Step("store") /\ noted' = noted
          /\ faults' = faults
       \/ host # task.zone /\ host' = task.previous /\ Fails /\ faults' = faults
       \/ host # task.zone /\ Fault /\ host' = host /\ Fails

\* set_settings, one transaction; on a failure the host gets its previous zone back.
Store ==
    /\ At("store") /\ UNCHANGED <<host, up>>
    /\ \/ stored' = task.zone /\ Succeeds /\ faults' = faults
       \/ /\ Fault /\ stored' = stored
          /\ IF task.changed THEN Step("undo") /\ noted' = noted ELSE Fails

Undo ==
    /\ At("undo") /\ UNCHANGED <<stored, up>>
    /\ \/ host' = task.previous /\ faults' = faults
       \/ Fault /\ host' = host
    /\ Fails

\* An administrator of the host changes its timezone.
OtherZone(z) ==
    /\ Fault /\ host' = z /\ noted' = TRUE
    /\ UNCHANGED <<stored, task, up>>

\* The application is stopped; a command that was running may still be carried out.
Crash ==
    /\ up /\ Fault /\ up' = FALSE /\ task' = None /\ noted' = FALSE
    /\ host' \in {host} \cup (IF At("set") THEN {task.zone} ELSE {})
                     \cup (IF At("verify") \/ At("undo") THEN {task.previous} ELSE {})
    /\ UNCHANGED stored

\* reconcile_timezone, before the first request: the host gets the stored zone.
Restart ==
    /\ ~up /\ up' = TRUE
    /\ task' = IF stored = None \/ stored = host THEN None
               ELSE [pc |-> "set", zone |-> stored, previous |-> host, changed |-> TRUE,
                     startup |-> TRUE]
    /\ UNCHANGED <<host, stored, noted, faults>>

Timezone ==
    /\ \/ \E z \in Zones : Update(z) \/ OtherZone(z)
       \/ SetZone \/ Verify \/ Store \/ Undo \/ Crash \/ Restart
    /\ UNCHANGED confVars

----------------------------------------------------------------------------
(* The deployment settings                                                  *)

\* current_config: the environment before the database before the default.
Effective(f) == IF env[f] # None THEN env[f] ELSE IF conf[f] # None THEN conf[f] ELSE 0

Overridden == {f \in Fields : env[f] # None}

\* validate_configuration: https needs a trusted proxy.
Coherent(v) == v["url"] = 2 => v["proxies"] # 0

\* validate_update: an overridden field keeps its value, and the whole is coherent.
Accepted(v) == (\A f \in Overridden : v[f] = Effective(f)) /\ Coherent(v)

\* Mutant: the configuration that was validated is stored as a whole.
SavedWhole(v, fields) == [f \in Fields |-> IF f \notin Overridden THEN v[f] ELSE conf[f]]

\* core.set_settings for the selected fields that are not overridden.
Saved(v, fields) == [f \in Fields |-> IF f \in fields \ Overridden THEN v[f] ELSE conf[f]]
Asked(v, fields) == [f \in Fields |-> IF f \in fields \ Overridden THEN v[f] ELSE asked[f]]

Edit == edits < MaxEdits /\ edits' = edits + 1

\* update_deployment_security: authenticated, validated and stored without a pause.
WebUpdate(v) ==
    /\ Edit /\ Accepted(v)
    /\ conf' = Saved(v, Fields) /\ asked' = Asked(v, Fields)
    /\ UNCHANGED <<env, cli>>

\* `proxy set` reads the configuration and validates its fields together with the rest of it.
ProxySet(v, fields) ==
    /\ Edit /\ cli = None
    /\ LET all == [f \in Fields |-> IF f \in fields \ Overridden THEN v[f] ELSE Effective(f)] IN
       /\ Accepted(all)
       /\ cli' = [values |-> all, fields |-> fields]
    /\ UNCHANGED <<conf, env, asked>>

ProxyStore ==
    /\ cli # None /\ cli' = None
    /\ conf' = Saved(cli.values, cli.fields) /\ asked' = Asked(cli.values, cli.fields)
    /\ UNCHANGED <<env, edits>>

\* `proxy reset` deletes the rows of the proxy fields, overridden or not, and no prefix.
ProxyReset ==
    /\ Edit
    /\ conf' = [f \in Fields |-> IF f \in ProxyFields THEN None ELSE conf[f]]
    /\ asked' = [f \in Fields |-> IF f \in ProxyFields THEN None ELSE asked[f]]
    /\ UNCHANGED <<env, cli>>

Deployment ==
    /\ \/ \E url \in 0..2, proxies, cookie, prefixes \in 0..1 :
             LET v == [f \in Fields |-> IF f = "url" THEN url ELSE IF f = "proxies" THEN proxies
                                        ELSE IF f = "cookie" THEN cookie ELSE prefixes]
             IN WebUpdate(v) \/ \E fields \in SUBSET ProxyFields \ {{}} : ProxySet(v, fields)
       \/ ProxyStore \/ ProxyReset
    /\ UNCHANGED zoneVars

Next == Timezone \/ Deployment

Spec == Init /\ [][Next]_vars

----------------------------------------------------------------------------
(* Properties                                                               *)

\* When no update runs, the host has the stored timezone unless the difference was reported:
\* a failed, cancelled or interrupted update, also one that fails while it undoes itself,
\* never leaves the two apart behind an answer that says they agree.
NoSilentMismatch == up /\ task = None /\ stored # None /\ host # stored => noted

\* Every stored deployment setting is the one that was last asked for: `proxy set`, which
\* validates against a configuration it read earlier, does not put back a field the web
\* handler stored in between, and a field the environment overrides is never written.
LastRequestHolds == conf = asked

=============================================================================
