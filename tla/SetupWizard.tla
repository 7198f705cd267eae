----------------------------- MODULE SetupWizard -----------------------------
(***************************************************************************)
(* The first-run wizard and the provider sessions it collects (main.py):   *)
(* which providers the administrator wants, which of them are signed in or *)
(* skipped, which one is active, and when the setup is complete.           *)
(*                                                                         *)
(* A handler reads the settings, awaits the state of the providers, and    *)
(* writes the settings.  Between its two steps the handlers of other       *)
(* browser tabs run, so it may write back what it read before them.        *)
(* setup_current_step is left out: every read of the state recomputes it.  *)
(***************************************************************************)
EXTENDS FiniteSets, Naturals

CONSTANTS
  Providers, Default,
  Requests,  \* bound: handlers that run at the same time
  Limit,     \* PROVIDER_SIGN_OUT_ATTEMPTS, scaled
  MaxCalls,  \* bound: handlers started
  None

VARIABLES
  ids, skipped, deferred, confirmed,  \* setup_provider_ids, ..., setup_active_provider_confirmed
  active,                             \* vpn.provider_id
  system, admin, ready, done,         \* the other steps and setup_complete
  auth,                               \* the providers that are signed in
  req,                                \* the handlers that wait
  failures,                           \* failed sign-outs in the window
  chosen,                             \* the provider whose activation was answered last
  calls

choice == <<ids, skipped, deferred, confirmed>>
progress == <<system, admin, ready, done>>
vars == <<choice, active, progress, auth, req, failures, chosen, calls>>

Idle == [op |-> "idle"]

Init ==
  /\ ids = None /\ skipped = {} /\ deferred = FALSE /\ confirmed = FALSE
  /\ active = Default
  /\ system = FALSE /\ admin = FALSE /\ ready = FALSE /\ done = FALSE
  /\ auth = {}
  /\ req = [r \in Requests |-> Idle]
  /\ failures = 0
  /\ chosen = None
  /\ calls = 0

Begins(r, h) ==
  /\ req[r] = Idle
  /\ calls < MaxCalls /\ calls' = calls + 1
  /\ req' = [req EXCEPT ![r] = h]
Ends(r) == req' = [req EXCEPT ![r] = Idle]

\* _observed_provider_statuses: a provider that a handler sees signed in was so
\* when it began or is so now; one whose status fails counts as signed out.
Seen(r) == SUBSET (req[r].seen \union auth)

Stored(default) == IF ids = None THEN default ELSE ids

-----------------------------------------------------------------------------
(* The choice of the providers. *)

\* Mutant: an earlier confirmation of the active provider is kept.
ProgressKeepsConfirmed(selected, skips, seen) ==
  LET signed == selected \intersect seen
      single == selected \subseteq signed \union skips /\ Cardinality(signed) = 1
  IN  /\ ids' = selected /\ skipped' = skips \intersect selected
      /\ deferred' = (selected = {})
      /\ confirmed' = (confirmed \/ single)
      /\ active' = IF single THEN CHOOSE p \in signed : TRUE ELSE active
      /\ chosen' = None

\* _setup_provider_progress_values and the transaction that stores them: the
\* only provider that is signed in becomes the active one.
Progress(selected, skips, seen) ==
  LET signed == selected \intersect seen
      single == selected \subseteq signed \union skips /\ Cardinality(signed) = 1
  IN  /\ ids' = selected /\ skipped' = skips \intersect selected
      /\ deferred' = (selected = {})
      /\ confirmed' = single
      /\ active' = IF single THEN CHOOSE p \in signed : TRUE ELSE active
      /\ chosen' = None

Select(r) ==
  /\ admin /\ ~done
  /\ \E wanted \in SUBSET Providers :
       Begins(r, [op |-> "select", wanted |-> wanted, skips |-> {}, seen |-> auth])
  /\ UNCHANGED <<choice, active, progress, auth, failures, chosen>>

Skip(r) ==
  /\ admin /\ ~done
  /\ \E p \in Stored({}) :
       Begins(r, [op |-> "skip", wanted |-> ids, skips |-> skipped \union {p}, seen |-> auth])
  /\ UNCHANGED <<choice, active, progress, auth, failures, chosen>>

\* To want no provider is refused when one is signed in.
Chosen(r) ==
  /\ req[r].op \in {"select", "skip"}
  /\ Ends(r)
  /\ \E seen \in Seen(r) :
       IF req[r].wanted = {} /\ seen # {}
         THEN UNCHANGED <<choice, active, chosen>>
         ELSE Progress(req[r].wanted, req[r].skips, seen)
  /\ UNCHANGED <<progress, auth, failures, calls>>

Defer(r) ==
  /\ admin /\ system /\ ~done
  /\ Begins(r, [op |-> "defer", seen |-> auth])
  /\ UNCHANGED <<choice, active, progress, auth, failures, chosen>>

Deferred(r) ==
  /\ req[r].op = "defer"
  /\ Ends(r)
  /\ \E seen \in Seen(r) :
       IF seen = {}
         THEN /\ ids' = {} /\ skipped' = {} /\ deferred' = TRUE /\ confirmed' = FALSE
              /\ chosen' = None
         ELSE UNCHANGED <<choice, chosen>>
  /\ UNCHANGED <<active, progress, auth, failures, calls>>

-----------------------------------------------------------------------------
(* The sessions of the providers. *)

\* _authenticate_provider: refused for a provider that is signed in.
Authenticate(r) ==
  /\ admin
  /\ \E p \in Providers \ auth : Begins(r, [op |-> "authenticate", p |-> p])
  /\ UNCHANGED <<choice, active, progress, auth, failures, chosen>>

\* login_callback: the answer of the browser sign-in goes to the client at once.
Callback(r) ==
  /\ admin
  /\ Begins(r, [op |-> "authenticate", p |-> Default])
  /\ UNCHANGED <<choice, active, progress, auth, failures, chosen>>

\* The provider refuses, or does what it is asked and its answer is lost.
AuthenticationFails(r) ==
  /\ req[r].op = "authenticate"
  /\ Ends(r)
  /\ auth' \in {auth, auth \union {req[r].p}}
  /\ UNCHANGED <<choice, active, progress, failures, chosen, calls>>

\* _after_provider_authenticated, up to its read of the providers: the provider
\* joins the selection at once.
Authenticated(r) ==
  LET p == req[r].p
      wanted == Stored({Default}) \union {p}
  IN  /\ req[r].op = "authenticate"
      /\ auth' = auth \union {p}
      /\ IF done
           THEN Ends(r) /\ UNCHANGED ids
           ELSE /\ ids' = (IF p \in Stored({Default}) THEN ids ELSE wanted)
                /\ req' = [req EXCEPT ![r] = [op |-> "adopt", wanted |-> wanted, p |-> p,
                                              skips |-> skipped \ {p}, seen |-> auth]]
      /\ UNCHANGED <<skipped, deferred, confirmed, active, progress, failures, chosen, calls>>

Adopted(r) ==
  /\ req[r].op = "adopt"
  /\ Ends(r)
  /\ \E seen \in Seen(r) : Progress(req[r].wanted, req[r].skips, seen \union {req[r].p})
  /\ UNCHANGED <<progress, auth, failures, calls>>

\* _end_provider_session: too many failed sign-outs are refused before the
\* provider is asked.
SignOut(r) ==
  /\ admin
  /\ failures < Limit
  /\ \E p \in Providers : Begins(r, [op |-> "sign_out", p |-> p, counted |-> TRUE])
  /\ UNCHANGED <<choice, active, progress, auth, failures, chosen>>

\* status, _provider_authentication_state: what a provider shows of its session;
\* one that cannot be asked shows nothing.
Shown(p, sessions) == {IF p \in sessions THEN "signed_in" ELSE "signed_out", "unknown"}

\* sign_out: done, or refused, or done and reported as an error.
LoggedOut(p) == {auth, auth \ {p}}

\* A success forgets the failures; a handler that waits then counts into the
\* forgotten list.
ForgetFailures(r) ==
  /\ failures' = 0
  /\ req' = [q \in Requests |->
       IF q = r THEN Idle
       ELSE IF req[q].op = "sign_out" THEN [req[q] EXCEPT !.counted = FALSE]
       ELSE req[q]]

CountFailure(r) ==
  /\ failures' = failures + (IF req[r].counted THEN 1 ELSE 0)
  /\ Ends(r)

\* A provider that shows itself signed in is asked, and the answer is what it
\* shows afterwards.
SignedOut(r) ==
  LET p == req[r].p
  IN  /\ req[r].op = "sign_out"
      /\ \/ "unknown" \in Shown(p, auth) /\ Ends(r) /\ UNCHANGED <<auth, failures>>
         \/ "signed_out" \in Shown(p, auth) /\ ForgetFailures(r) /\ UNCHANGED auth
         \/ /\ "signed_in" \in Shown(p, auth)
            /\ auth' \in LoggedOut(p)
            /\ \/ "signed_out" \in Shown(p, auth') /\ ForgetFailures(r)
               \/ Shown(p, auth') \ {"signed_out"} # {} /\ CountFailure(r)
      /\ UNCHANGED <<choice, active, progress, chosen, calls>>

WindowPasses ==
  /\ \E n \in 0..Limit + Cardinality(Requests) : n < failures /\ failures' = n
  /\ UNCHANGED <<choice, active, progress, auth, req, chosen, calls>>

\* The session ends at the provider.
SessionEnds ==
  /\ auth # {}
  /\ \E p \in auth : auth' = auth \ {p}
  /\ UNCHANGED <<choice, active, progress, req, failures, chosen, calls>>

-----------------------------------------------------------------------------
(* The steps of the wizard. *)

\* setup_state before it awaits the providers; complete_setup begins with it.
Read(r) ==
  /\ LET selected == Stored(IF deferred THEN {} ELSE {active})
     IN  \E op \in {"state"} \union (IF admin THEN {"complete"} ELSE {}) :
           Begins(r, [op |-> op, wanted |-> selected, skips |-> skipped \intersect selected,
                      active |-> active, seen |-> auth])
  /\ UNCHANGED <<choice, active, progress, auth, failures, chosen>>

\* provider_step_complete, from the selection read before and the flags read now.
ProviderStep(h, seen, put) ==
  LET signed == h.wanted \intersect seen
  IN  \/ put
      \/ /\ h.wanted # {} /\ h.wanted \subseteq signed \union h.skips
         /\ Cardinality(signed) < 2 \/ (confirmed /\ h.active \in signed)

Complete(r) ==
  /\ req[r].op = "complete"
  /\ \E seen \in Seen(r) :
       LET put == deferred /\ req[r].wanted \intersect seen = {}
       IN  /\ deferred' = put
           /\ done' = (done \/ (system /\ admin /\ ready /\ ProviderStep(req[r], seen, put)))
  /\ Ends(r)
  /\ UNCHANGED <<ids, skipped, confirmed, active, system, admin, ready, auth, failures, chosen,
                 calls>>

\* A deferral ends when a selected provider turns out to be signed in.
State(r) ==
  /\ req[r].op = "state"
  /\ \E seen \in Seen(r) : deferred' = (deferred /\ req[r].wanted \intersect seen = {})
  /\ Ends(r)
  /\ UNCHANGED <<ids, skipped, confirmed, active, progress, auth, failures, chosen, calls>>

Diagnostics ==
  /\ ~system
  /\ system' = TRUE
  /\ UNCHANGED <<choice, active, admin, ready, done, auth, req, failures, chosen, calls>>

CreateAdmin ==
  /\ ~admin
  /\ admin' = TRUE
  /\ UNCHANGED <<choice, active, system, ready, done, auth, req, failures, chosen, calls>>

\* InitialSetup ends.
ConfigureWireGuard ==
  /\ admin /\ ~ready
  /\ ready' = TRUE
  /\ UNCHANGED <<choice, active, system, admin, done, auth, req, failures, chosen, calls>>

\* activate_vpn_provider, as far as it touches the setup: a provider that is
\* active already is answered without writing.
Activate ==
  /\ admin
  /\ \E p \in auth \union {active} :
       /\ chosen' = p
       /\ active' = p
       /\ confirmed' = (confirmed \/ (active # p /\ ~done))
  /\ UNCHANGED <<ids, skipped, deferred, progress, auth, req, failures, calls>>

\* The handlers that wait are lost with the application.
Restart ==
  /\ \E r \in Requests : req[r] # Idle
  /\ req' = [r \in Requests |-> Idle]
  /\ failures' = 0
  /\ UNCHANGED <<choice, active, progress, auth, chosen, calls>>

Handler(r) ==
  \/ Select(r) \/ Skip(r) \/ Chosen(r) \/ Defer(r) \/ Deferred(r)
  \/ Authenticate(r) \/ Callback(r) \/ AuthenticationFails(r) \/ Authenticated(r) \/ Adopted(r)
  \/ SignOut(r) \/ SignedOut(r) \/ Read(r) \/ State(r) \/ Complete(r)

Next ==
  \/ \E r \in Requests : Handler(r)
  \/ WindowPasses \/ SessionEnds \/ Diagnostics \/ CreateAdmin \/ ConfigureWireGuard
  \/ Activate \/ Restart

Spec == Init /\ [][Next]_vars

-----------------------------------------------------------------------------
\* The settings have the values their readers expect.
TypeOK ==
  /\ ids = None \/ ids \subseteq Providers
  /\ skipped \subseteq Providers /\ auth \subseteq Providers
  /\ active \in Providers
  /\ {deferred, confirmed, system, admin, ready, done} \subseteq BOOLEAN

\* A setup that is complete has passed its diagnostics, has an administrator and
\* a WireGuard ingress, whatever ran between the read of the steps and the write.
StepsEarned == done => system /\ admin /\ ready

\* During setup a confirmed active provider is one of the selected ones or was
\* activated since: no handler that writes back an old selection leaves the
\* confirmation of another one behind.
ConfirmedIsSelected == confirmed => active \in Stored({}) \union {chosen}

\* Failed sign-outs in a window stay below the limit, except for the handlers
\* that had passed the limit already.
SignOutsBounded ==
  failures + Cardinality({r \in Requests : req[r].op = "sign_out" /\ req[r].counted})
    <= Limit - 1 + Cardinality(Requests)
=============================================================================
