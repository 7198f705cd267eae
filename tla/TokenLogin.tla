------------------------------ MODULE TokenLogin ------------------------------
(***************************************************************************)
(* The sign-in with a NordVPN access token (providers/nordvpn.py): the     *)
(* application runs `nordvpn login --token` on a pseudo-terminal, answers  *)
(* its questions and reads what it prints, while the client runs at its    *)
(* own pace.  A text is abstracted to what it is for.                      *)
(***************************************************************************)
EXTENDS Naturals

CONSTANT None

VARIABLES
  client,  \* the process: where it is, whether its terminal echoes, how it ended
  out,     \* printed on the terminal and not read yet
  in,      \* written to the terminal and not read by the client yet
  pc,      \* where _login_token_via_pty is
  prompt,  \* the texts in its buffer
  sink,    \* output_sink, which the caller classifies and may log
  asked,   \* consent_answered
  result   \* the code that login_token answers

vars == <<client, out, in, pc, prompt, sink, asked, result>>

Running == client.at \notin {"none", "killed", "exited"}

Init ==
  /\ client = [at |-> "none", echo |-> TRUE, rc |-> None]
  /\ out = {} /\ in = {}
  /\ pc = "start"
  /\ prompt = {} /\ sink = {} /\ asked = FALSE
  /\ result = None

-----------------------------------------------------------------------------
(* The client, and the terminal between the two. *)

\* The first question, the token prompt, or an error before either.
ClientAsks ==
  /\ \/ client.at = "started" /\ client' = [client EXCEPT !.at = "consent"]
        /\ out' = out \union {"consent"}
     \/ client.at \in {"started", "answered"} /\ client' = [client EXCEPT !.at = "prompted"]
        /\ out' = out \union {"token"}
     \/ client.at \in {"started", "answered"}
        /\ client' = [client EXCEPT !.at = "hidden", !.echo = FALSE]
        /\ out' = out
  /\ UNCHANGED <<in, pc, prompt, sink, asked, result>>

\* Prompt and echo change in either order.
ClientReady ==
  /\ \/ /\ client.at = "prompted"
        /\ client' = [client EXCEPT !.at = "token", !.echo = FALSE]
        /\ out' = out
     \/ /\ client.at = "hidden"
        /\ client' = [client EXCEPT !.at = "token"]
        /\ out' = out \union {"token"}
  /\ UNCHANGED <<in, pc, prompt, sink, asked, result>>

ClientReads ==
  /\ \/ /\ client.at = "consent" /\ "n" \in in
        /\ client' = [client EXCEPT !.at = "answered"]
        /\ in' = in \ {"n"}
     \/ /\ client.at = "token" /\ "secret" \in in
        /\ client' = [client EXCEPT !.at = "working", !.echo = TRUE]
        /\ in' = in \ {"secret"}
  /\ UNCHANGED <<out, pc, prompt, sink, asked, result>>

\* It ends with a success, or prints why not; at any time it may give up.
ClientEnds ==
  /\ Running
  /\ \E rc \in (IF client.at = "working" THEN {0, 1} ELSE {1}) :
       /\ client' = [at |-> "exited", echo |-> TRUE, rc |-> rc]
       /\ out' = out \union (IF rc = 1 THEN {"reason"} ELSE {})
  /\ UNCHANGED <<in, pc, prompt, sink, asked, result>>

ClientDies ==
  /\ client.at = "killed"
  /\ client' = [at |-> "exited", echo |-> TRUE, rc |-> 137]
  /\ UNCHANGED <<out, in, pc, prompt, sink, asked, result>>

-----------------------------------------------------------------------------
(* login_token and _login_token_via_pty. *)

\* classify_token_login_failure: the timeout and the missing client by their
\* codes, the other failures by a text that names the reason.
Classified(rc, texts) ==
  CASE rc = 0 -> "ok"
    [] rc = 124 -> "timeout"
    [] rc = 127 -> "command_unavailable"
    [] OTHER -> IF "reason" \in texts THEN "reason" ELSE "provider_error"

Return(rc) == pc' = "done" /\ result' = Classified(rc, sink')

\* A token of another form never reaches the client.
Start ==
  /\ pc = "start"
  /\ \/ /\ pc' = "done" /\ result' = "invalid_token_format"
        /\ UNCHANGED <<client, sink>>
     \/ /\ UNCHANGED <<client, sink>>
        /\ Return(127)
     \/ /\ client' = [client EXCEPT !.at = "started"]
        /\ pc' = "loop"
        /\ UNCHANGED <<sink, result>>
  /\ UNCHANGED <<out, in, prompt, asked>>

\* One turn of the loop up to the decision: all that was printed is read.  The
\* terminal of a client that ended fails to be read once it is empty.
Turn ==
  LET closed == client.at = "exited" /\ out = {}
      consent == "consent" \in prompt \union out /\ ~asked
      ready == "token" \in prompt \union out /\ ~client.echo
  IN  /\ pc = "loop"
      /\ prompt' = prompt \union out /\ sink' = sink \union out
      /\ out' = {}
      /\ \/ closed /\ pc' = "wait" /\ UNCHANGED result
         \/ ~closed /\ consent /\ pc' = "consent" /\ UNCHANGED result
         \/ ~closed /\ ~consent /\ ready /\ pc' = "type" /\ UNCHANGED result
         \/ /\ ~closed /\ ~consent /\ ~ready
            /\ \/ pc' = "loop" /\ UNCHANGED result
               \/ client.at = "exited" /\ Return(client.rc)
      /\ UNCHANGED <<client, in, asked>>

Echoed(text) == IF client.echo THEN {text} ELSE {}

AnswerConsent ==
  /\ pc = "consent"
  /\ in' = in \union {"n"} /\ out' = out \union Echoed("n")
  /\ asked' = TRUE /\ prompt' = {}
  /\ pc' = "loop"
  /\ UNCHANGED <<client, sink, result>>

\* Mutant: what the client prints after the token is read, for its reason.
TypeAndRead ==
  /\ pc = "type"
  /\ in' = in \union {"secret"} /\ out' = out \union Echoed("secret")
  /\ prompt' = {}
  /\ pc' = "loop"
  /\ UNCHANGED <<client, sink, asked, result>>

\* The token is written, and the terminal is not read again.
Type ==
  /\ pc = "type"
  /\ in' = in \union {"secret"} /\ out' = out \union Echoed("secret")
  /\ prompt' = prompt
  /\ pc' = "wait"
  /\ UNCHANGED <<client, sink, asked, result>>

Waited ==
  /\ pc = "wait" /\ client.at = "exited"
  /\ UNCHANGED <<client, out, in, prompt, sink, asked>>
  /\ Return(client.rc)

Kill == client' = IF Running THEN [client EXCEPT !.at = "killed"] ELSE client

\* The deadline ends the loop or the wait: the client is killed and waited for.
Deadline ==
  /\ pc \in {"loop", "wait"}
  /\ Kill
  /\ pc' = "reap"
  /\ UNCHANGED <<out, in, prompt, sink, asked, result>>

Reaped ==
  /\ pc = "reap" /\ client.at = "exited"
  /\ UNCHANGED <<client, out, in, prompt, sink, asked>>
  /\ Return(124)

\* The request is cancelled at an await: the client is killed and waited for; a
\* second cancellation does not wait.
Cancelled ==
  /\ pc \in {"loop", "wait", "reap", "cancelled"}
  /\ Kill
  /\ pc' = IF pc = "cancelled" THEN "raised" ELSE "cancelled"
  /\ UNCHANGED <<out, in, prompt, sink, asked, result>>

Raises ==
  /\ pc = "cancelled" /\ client.at = "exited"
  /\ pc' = "raised"
  /\ UNCHANGED <<client, out, in, prompt, sink, asked, result>>

Next ==
  \/ ClientAsks \/ ClientReady \/ ClientReads \/ ClientEnds \/ ClientDies
  \/ Start \/ Turn \/ AnswerConsent \/ Type \/ Waited \/ Deadline \/ Reaped
  \/ Cancelled \/ Raises

Spec == Init /\ [][Next]_vars

-----------------------------------------------------------------------------
\* The texts are the ones the two sides exchange.
TypeOK ==
  /\ out \subseteq {"consent", "token", "reason", "n", "secret"}
  /\ in \subseteq {"n", "secret"}
  /\ pc \in {"start", "loop", "consent", "type", "wait", "reap", "cancelled", "done", "raised"}

\* What login_token keeps for its classification never holds the token, also when
\* the client ends between the look at the echo and the write of the token.
TokenUnread == "secret" \notin sink

\* A sign-in that ended leaves no client behind on its terminal.
NoClientLeft == pc \in {"done", "raised"} => ~Running
=============================================================================
