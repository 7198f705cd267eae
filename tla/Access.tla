------------------------------- MODULE Access -------------------------------
(***************************************************************************)
(* Signing in to the appliance: services/auth_security.py,                 *)
(* services/credentials.py, the routes of main.py that use them and the    *)
(* local commands of cli.py.                                               *)
(*                                                                         *)
(* A request is admitted by the middleware and handled later. A handler    *)
(* owns the event loop from its first transaction to its last; a local     *)
(* command is another process and runs between any two transactions.       *)
(***************************************************************************)
EXTENDS Integers, FiniteSets

CONSTANTS
  Clients,          \* browsers, each with its own address and cookies
  None,
  MaxAttempts,      \* MFA_MAX_ATTEMPTS
  Window,           \* MFA_FAILURE_WINDOW_SECONDS
  ChallengeLife,    \* MFA_CHALLENGE_SECONDS
  EnrollmentLife,   \* MFA_ENROLLMENT_SECONDS
  MaxAge,           \* SESSION_MAX_AGE_SECONDS
  IdleTimeout,      \* SESSION_IDLE_TIMEOUT_SECONDS
  Refresh,          \* the 60 seconds between two updates of last_seen_at
  Step,             \* the 30 seconds of a TOTP counter
  Codes,            \* recovery codes of a batch
  MaxTime, MaxIssued   \* bounds on the clock and on the tokens and secrets issued

VARIABLES
  now,
  user,        \* the administrator's row: mfa, secret, last, failures, window
  codes,       \* unused recovery codes, <<batch, code>>
  sessions,    \* live rows by token: expires, idle, seen
  challenge,   \* the administrator's challenge row
  enrollment,  \* the administrator's enrollment row
  cookie,      \* per client: session token and challenge token
  request,     \* per client: the request in flight
  loop,        \* the client whose handler owns the event loop
  issued,      \* tokens, secrets and batches issued so far
  accepted,    \* codes accepted so far of the secret and the batch in use
  reused,      \* some credential was accepted twice
  failed,      \* the failed second factors of the last Window, since one succeeded
  used         \* when each session was last used

vars == <<now, user, codes, sessions, challenge, enrollment, cookie, request, loop,
          issued, accepted, reused, failed, used>>

Nothing == [t \in {} |-> 0]
NoMfa == [mfa |-> FALSE, secret |-> None, last |-> None, failures |-> 0, window |-> None]

Init ==
  /\ now = 0
  /\ user = NoMfa /\ codes = {}
  /\ sessions = Nothing /\ challenge = None /\ enrollment = None
  /\ cookie = [c \in Clients |-> [session |-> None, challenge |-> None]]
  /\ request = [c \in Clients |-> None] /\ loop = None
  /\ issued = 0 /\ accepted = {} /\ reused = FALSE /\ failed = {} /\ used = Nothing

Put(f, k, v) == [t \in DOMAIN f \cup {k} |-> IF t = k THEN v ELSE f[t]]
Keep(f, s) == [t \in DOMAIN f \cap s |-> f[t]]

Idle(c) == request[c] = None /\ loop = None
(* Which route was asked for matters only once its handler runs.             *)
Admitted(c) == request[c] # None /\ loop = None
(* The second transaction of a handler.                                      *)
Half(c, op) == loop = c /\ request[c].op = op
Proceed(c, op) == request' = [request EXCEPT ![c].op = op] /\ loop' = c
Return(c) == request' = [request EXCEPT ![c] = None] /\ loop' = None

-----------------------------------------------------------------------------
(* session_user: expired rows go, an old last_seen_at is renewed.            *)
Live(t) == t \in DOMAIN sessions /\ sessions[t].expires > now /\ sessions[t].idle > now

SessionUser(t) ==
  LET kept == Keep(sessions, {x \in DOMAIN sessions : Live(x)})
  IN sessions' = IF Live(t) /\ sessions[t].seen =< now - Refresh
                 THEN [kept EXCEPT ![t].seen = now, ![t].idle = now + IdleTimeout]
                 ELSE kept

(* require_authentication, then the body is read: others run meanwhile.      *)
Admit(c) ==
  LET t == cookie[c].session IN
  /\ Idle(c) /\ t # None
  /\ SessionUser(t)
  /\ request' = [request EXCEPT ![c] = IF Live(t) THEN [op |-> "any", session |-> t] ELSE None]
  /\ used' = Keep(IF Live(t) THEN Put(used, t, now) ELSE used, DOMAIN sessions')
  /\ UNCHANGED <<now, user, codes, challenge, enrollment, cookie, loop, issued, accepted,
                 reused, failed>>

(* create_session.                                                           *)
CreateSession(c) ==
  /\ issued < MaxIssued /\ issued' = issued + 1
  /\ sessions' = Put(sessions, issued, [expires |-> now + MaxAge, idle |-> now + IdleTimeout,
                                        seen |-> now])
  /\ cookie' = [cookie EXCEPT ![c] = [session |-> issued, challenge |-> None]]
  /\ used' = Keep(Put(used, issued, now), DOMAIN sessions')

(* login: the row is read and the password verified, then a challenge or a   *)
(* session is inserted, by what the row said.                                *)
Login(c) ==
  /\ Idle(c)
  /\ request' = [request EXCEPT ![c] =
                   [op |-> IF user.mfa THEN "challenge" ELSE "session", session |-> None]]
  /\ loop' = c
  /\ UNCHANGED <<now, user, codes, sessions, challenge, enrollment, cookie, issued, accepted,
                 reused, failed, used>>

LoginSession(c) ==
  /\ Half(c, "session") /\ CreateSession(c) /\ Return(c)
  /\ UNCHANGED <<now, user, codes, challenge, enrollment, accepted, reused, failed>>

StartChallenge(c) ==
  /\ Half(c, "challenge") /\ issued < MaxIssued /\ issued' = issued + 1
  /\ challenge' = [token |-> issued, expires |-> now + ChallengeLife, attempts |-> 0,
                   client |-> c]
  /\ cookie' = [cookie EXCEPT ![c].challenge = issued]
  /\ Return(c)
  /\ UNCHANGED <<now, user, codes, sessions, enrollment, accepted, reused, failed, used>>

CancelChallenge(c) ==
  /\ Idle(c) /\ cookie[c].challenge # None
  /\ challenge' = IF challenge # None /\ challenge.token = cookie[c].challenge
                  THEN None ELSE challenge
  /\ cookie' = [cookie EXCEPT ![c].challenge = None]
  /\ UNCHANGED <<now, user, codes, sessions, enrollment, request, loop, issued, accepted,
                 reused, failed, used>>

-----------------------------------------------------------------------------
(* totp_counter: a code is the code of one counter, in the window of three,  *)
(* newer than the last one used.                                             *)
Counters == {now \div Step + d : d \in -2..2}
InWindow(k) == k \in {now \div Step + d : d \in -1..1}
(* A bug to be caught: the last counter is not compared.                     *)
NewerIgnored(k, last) == TRUE

Newer(k, last) == last = None \/ k > last

(* A secret and a batch are never issued again: only those in use matter.    *)
Accept(credential) ==
  /\ reused' = (reused \/ credential \in accepted)
  /\ accepted' = {a \in accepted : a[1] = user'.secret \/ \E r \in codes : r[1] = a[1]}
                   \cup {credential}

(* _verify_totp and _verify_recovery, inside the caller's transaction.       *)
TotpValid(k) == user.mfa /\ InWindow(k) /\ Newer(k, user.last)
RecoveryValid(r) == r \in codes

(* consume_challenge with a TOTP counter or a recovery code.                 *)
Usable(c) ==
  /\ challenge # None /\ challenge.token = cookie[c].challenge
  /\ challenge.expires > now /\ challenge.attempts < MaxAttempts /\ challenge.client = c

WindowOver == user.window = None \/ now >= user.window + Window
Failures == IF WindowOver THEN 0 ELSE user.failures
Started == IF WindowOver THEN now ELSE user.window

DropChallenge(c) ==
  challenge' = IF challenge # None /\ challenge.token = cookie[c].challenge THEN None
               ELSE challenge

ChallengeRefused(c) ==
  /\ Idle(c) /\ cookie[c].challenge # None
  /\ Usable(c) => Failures >= MaxAttempts
  /\ DropChallenge(c)
  /\ cookie' = [cookie EXCEPT ![c].challenge = None]
  /\ UNCHANGED <<now, user, codes, sessions, enrollment, request, loop, issued, accepted,
                 reused, failed, used>>

ChallengeWrong(c) ==
  /\ Idle(c) /\ cookie[c].challenge # None /\ Usable(c) /\ Failures < MaxAttempts
  /\ user' = [user EXCEPT !.failures = Failures + 1, !.window = Started]
  /\ IF Failures + 1 >= MaxAttempts
     THEN challenge' = None /\ cookie' = [cookie EXCEPT ![c].challenge = None]
     ELSE challenge' = [challenge EXCEPT !.attempts = @ + 1] /\ UNCHANGED cookie
  /\ failed' = failed \cup {<<now, Cardinality({t \in failed : t[1] = now})>>}
  /\ UNCHANGED <<now, codes, sessions, enrollment, request, loop, issued, accepted, reused, used>>

Passed(c) ==
  /\ Idle(c) /\ cookie[c].challenge # None /\ Usable(c) /\ Failures < MaxAttempts
  /\ challenge' = None /\ failed' = {}
  /\ request' = [request EXCEPT ![c] = [op |-> "session", session |-> None]]
  /\ loop' = c
  /\ UNCHANGED <<now, sessions, enrollment, cookie, issued, used>>

ChallengeTotp(c, k) ==
  /\ TotpValid(k) /\ Passed(c)
  /\ user' = [user EXCEPT !.failures = 0, !.window = None, !.last = k]
  /\ Accept(<<user.secret, k>>)
  /\ UNCHANGED codes

ChallengeRecovery(c, r) ==
  /\ RecoveryValid(r) /\ Passed(c)
  /\ user' = [user EXCEPT !.failures = 0, !.window = None]
  /\ codes' = codes \ {r} /\ Accept(r)

-----------------------------------------------------------------------------
(* The authenticated routes. Their session may be gone when they run.        *)
NewCodes(batch) == {<<batch, n>> : n \in Codes}

(* change_password, reset_administrator_password: every session ends with    *)
(* the old password.                                                         *)
PasswordReplaced == sessions' = Nothing

ChangePassword(c) ==
  /\ Admitted(c)
  /\ PasswordReplaced
  /\ cookie' = [cookie EXCEPT ![c].session = None]
  /\ Return(c)
  /\ UNCHANGED <<now, user, codes, challenge, enrollment, issued, accepted, reused, failed, used>>

StartEnrollment(c) ==
  /\ Admitted(c) /\ issued < MaxIssued /\ issued' = issued + 1
  /\ enrollment' = [secret |-> issued, session |-> request[c].session,
                    expires |-> now + EnrollmentLife]
  /\ Return(c)
  /\ UNCHANGED <<now, user, codes, sessions, challenge, cookie, accepted, reused, failed, used>>

CancelEnrollment(c) ==
  /\ Admitted(c) /\ enrollment' = None /\ Return(c)
  /\ UNCHANGED <<now, user, codes, sessions, challenge, cookie, issued, accepted, reused,
                 failed, used>>

(* confirm_enrollment: bound to the session that started it; every other     *)
(* session goes.                                                             *)
ConfirmEnrollment(c, k) ==
  /\ Admitted(c) /\ issued < MaxIssued
  /\ enrollment # None /\ enrollment.session = request[c].session /\ enrollment.expires > now
  /\ InWindow(k)
  /\ user' = [user EXCEPT !.mfa = TRUE, !.secret = enrollment.secret, !.last = k]
  /\ Accept(<<enrollment.secret, k>>)
  /\ codes' = NewCodes(issued) /\ issued' = issued + 1
  /\ enrollment' = None
  /\ sessions' = Keep(sessions, {request[c].session})
  /\ Return(c)
  /\ UNCHANGED <<now, challenge, cookie, failed, used>>

(* Routes that ask for a code again: verified and spent in a transaction of  *)
(* its own, then acted on in another.                                        *)
VerifyAgain(c, k, op) ==
  /\ Admitted(c) /\ op \in {"regenerate", "disable"}
  /\ TotpValid(k)
  /\ user' = [user EXCEPT !.last = k] /\ Accept(<<user.secret, k>>)
  /\ Proceed(c, op)
  /\ UNCHANGED <<now, codes, sessions, challenge, enrollment, cookie, issued, failed, used>>

Regenerate(c) ==
  /\ Half(c, "regenerate") /\ issued < MaxIssued
  /\ codes' = NewCodes(issued) /\ issued' = issued + 1
  /\ sessions' = Keep(sessions, {request[c].session})
  /\ Return(c)
  /\ UNCHANGED <<now, user, challenge, enrollment, cookie, accepted, reused, failed, used>>

(* A bug to be caught: the secret stays in the row.                          *)
MfaGoneKeepsSecret ==
  /\ user' = [NoMfa EXCEPT !.secret = user.secret]
  /\ codes' = {} /\ enrollment' = None /\ challenge' = None
  /\ sessions' = Nothing /\ failed' = {}

MfaGone ==
  /\ user' = NoMfa /\ codes' = {} /\ enrollment' = None /\ challenge' = None
  /\ sessions' = Nothing /\ failed' = {}

DisableMfa(c) ==
  /\ Half(c, "disable") /\ MfaGone
  /\ cookie' = [cookie EXCEPT ![c].session = None]
  /\ Return(c)
  /\ UNCHANGED <<now, issued, accepted, reused, used>>

RevokeOthers(c) ==
  /\ Admitted(c)
  /\ LET others == DOMAIN sessions \ {request[c].session} IN
       \E gone \in {others} \cup {{t} : t \in others} :
         sessions' = Keep(sessions, DOMAIN sessions \ gone)
  /\ Return(c)
  /\ UNCHANGED <<now, user, codes, challenge, enrollment, cookie, issued, accepted, reused,
                 failed, used>>

(* Wrong password, wrong or spent code, expired enrollment.                  *)
Reject(c) ==
  /\ Admitted(c)
  /\ Return(c)
  /\ UNCHANGED <<now, user, codes, sessions, challenge, enrollment, cookie, issued, accepted,
                 reused, failed, used>>

Logout(c) ==
  /\ Idle(c) /\ cookie[c].session # None
  /\ sessions' = Keep(sessions, DOMAIN sessions \ {cookie[c].session})
  /\ cookie' = [cookie EXCEPT ![c].session = None]
  /\ UNCHANGED <<now, user, codes, challenge, enrollment, request, loop, issued, accepted,
                 reused, failed, used>>

-----------------------------------------------------------------------------
(* The local commands: reset-password and reset-network-security revoke      *)
(* every session, disable-mfa also removes the second factor.                *)
CliRevoke ==
  /\ PasswordReplaced
  /\ UNCHANGED <<now, user, codes, challenge, enrollment, cookie, request, loop, issued,
                 accepted, reused, failed, used>>

CliDisableMfa ==
  /\ MfaGone
  /\ UNCHANGED <<now, cookie, request, loop, issued, accepted, reused, used>>

Tick ==
  /\ now < MaxTime /\ now' = now + 1
  /\ failed' = {t \in failed : t[1] > now' - Window}
  /\ UNCHANGED <<user, codes, sessions, challenge, enrollment, cookie, request, loop, issued,
                 accepted, reused, used>>

Next ==
  \/ \E c \in Clients :
       \/ Admit(c) \/ Login(c) \/ LoginSession(c) \/ StartChallenge(c) \/ CancelChallenge(c)
       \/ ChallengeRefused(c) \/ ChallengeWrong(c)
       \/ (\E k \in Counters : ChallengeTotp(c, k) \/ ConfirmEnrollment(c, k)
              \/ VerifyAgain(c, k, "regenerate") \/ VerifyAgain(c, k, "disable"))
       \/ (\E r \in codes : ChallengeRecovery(c, r))
       \/ ChangePassword(c) \/ StartEnrollment(c) \/ CancelEnrollment(c)
       \/ Regenerate(c) \/ DisableMfa(c) \/ RevokeOthers(c) \/ Reject(c) \/ Logout(c)
  \/ CliRevoke \/ CliDisableMfa \/ Tick

Spec == Init /\ [][Next]_vars

-----------------------------------------------------------------------------
(* The second factor is on exactly while the row holds a secret.             *)
TypeOK ==
  /\ now \in 0..MaxTime /\ issued \in 0..MaxIssued
  /\ user.mfa \in BOOLEAN /\ user.failures \in 0..MaxAttempts
  /\ user.mfa <=> user.secret # None
  /\ DOMAIN sessions \subseteq 0..MaxIssued /\ DOMAIN used \subseteq 0..MaxIssued
  /\ loop \in Clients \cup {None} /\ reused \in BOOLEAN

(* A TOTP code and a recovery code are accepted once, in whichever of the    *)
(* routes that take one, and whatever a local command does in between.       *)
OneTimeUse == ~reused

(* Across all challenges and clients, fewer than twice MFA_MAX_ATTEMPTS      *)
(* second factors are refused in any MFA_FAILURE_WINDOW_SECONDS between two  *)
(* that are accepted.                                                        *)
AttemptsBounded == Cardinality(failed) < 2 * MaxAttempts

(* A session in use is not lost to the idle timeout: the row is renewed only *)
(* once a minute, and still outlives the last request by the timeout less    *)
(* that minute.                                                              *)
ActiveStaysSignedIn ==
  \A t \in DOMAIN sessions : sessions[t].idle > used[t] + IdleTimeout - Refresh
=============================================================================
