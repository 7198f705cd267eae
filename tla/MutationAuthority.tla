-------------------------- MODULE MutationAuthority --------------------------
(***************************************************************************)
(* The supervisor's exclusive right to change state (container_control.py, *)
(* runtime_mutation.py) and the users of it: requests of the worker and    *)
(* command-line processes, which hold it over a socket; backup and restore *)
(* callbacks and the supervisor's own startup, which run under it; and the *)
(* ingress calls that borrow it.  Every await is a step boundary.  The     *)
(* lock's waiters are served in any order, which includes asyncio's        *)
(* first come first served.                                                *)
(***************************************************************************)
EXTENDS Naturals

CONSTANTS
    Request,   \* requests of the worker process (RuntimeMutationMiddleware, the monitors)
    Command,   \* command-line processes other than backup and restore (cli.main)
    Call,      \* backup and restore requests, run by the supervisor (UnixControlServer)
    Boot,      \* the supervisor's startup and restart (ContainerEntrypoint.run)
    Borrower,  \* ingress calls of the worker
    None

Remote == Request \cup Command      \* hold the lease over a connection
Session == Remote \cup Call \cup Boot

ASSUME SessionAssumption ==
    /\ Request \cap (Command \cup Call \cup Boot) = {}
    /\ Command \cap (Call \cup Boot) = {}
    /\ Call \cap Boot = {}
    /\ None \notin Session

VARIABLES
    lock,      \* the session that holds MutationAuthority._lock
    poisoned,  \* MutationAuthority._poisoned
    revoking,  \* MutationAuthority.revoking
    failed,    \* MutationAuthority._subordinate_failed
    pc,        \* session -> where its handler is
    writer,    \* session -> what changes state on its behalf: off, run, ok or err
    token,     \* remote sessions whose grant is on the way to the client
    sub,       \* borrower -> off, run or clean
    by,        \* borrower -> the session it borrowed from
    worker,    \* the worker process runs
    stopping,  \* ContainerEntrypoint.stopping
    reply,     \* session -> the answer its handler gave
    dirty      \* an interrupted writer has acted since the last completed quiesce

authority == <<lock, poisoned, revoking, failed>>
vars == <<authority, pc, writer, token, sub, by, worker, stopping, reply, dirty>>

TypeOK ==
    /\ lock \in Session \cup {None}
    /\ poisoned \in BOOLEAN /\ revoking \in BOOLEAN /\ failed \in BOOLEAN
    /\ pc \in [Session -> {"idle", "wait", "held", "interrupted", "joining", "loss",
                           "closing", "final"}]
    /\ writer \in [Session -> {"off", "run", "ok", "err"}]
    /\ token \subseteq Remote
    /\ sub \in [Borrower -> {"off", "run", "clean"}]
    /\ by \in [Borrower -> Session \cup {None}]
    /\ worker \in BOOLEAN /\ stopping \in BOOLEAN /\ dirty \in BOOLEAN
    /\ reply \in [Session -> {"none", "ok", "error"}]

Init ==
    /\ lock = None /\ poisoned = FALSE /\ revoking = FALSE /\ failed = FALSE
    /\ pc = [s \in Session |-> "idle"]
    /\ writer = [s \in Session |-> "off"]
    /\ token = {}
    /\ sub = [b \in Borrower |-> "off"]
    /\ by = [b \in Borrower |-> None]
    /\ worker = FALSE /\ stopping = FALSE /\ dirty = FALSE
    /\ reply = [s \in Session |-> "none"]

Borrowed(s) == {b \in Borrower : sub[b] # "off" /\ by[b] = s}

-----------------------------------------------------------------------------
(* What happens to the worker's requests when its process ends: a request  *)
(* loses its connection; a release it has sent is still read.              *)

Reaped(s) ==
    IF s \in Request /\ (writer[s] = "run" \/ (pc[s] # "idle" /\ writer[s] = "off"))
    THEN "err" ELSE writer[s]

KillWorker ==
    /\ worker' = FALSE
    /\ writer' = [s \in Session |-> Reaped(s)]
    /\ token' = token \ Request

\* A failed quiesce taken for a successful one.
BugPoisons ==
    /\ KillWorker \/ UNCHANGED <<worker, writer, token>>
    /\ dirty' = FALSE
    /\ UNCHANGED <<poisoned, stopping>>

\* MutationAuthority._abandon with ContainerEntrypoint.abandon as quiesce: networking is
\* guarded and the worker's process group reaped, or the authority refuses every later writer.
\* A quiesce that fails may have reaped the worker; only one that raises, not one that runs
\* into its deadline, also asks the supervisor to stop.
Quiesced == KillWorker /\ dirty' = FALSE /\ UNCHANGED <<poisoned, stopping>>
Poisons ==
    /\ poisoned' = TRUE
    /\ stopping' \in {stopping, TRUE}
    /\ KillWorker \/ UNCHANGED <<worker, writer, token>>
    /\ UNCHANGED dirty
Abandon == Quiesced \/ Poisons

-----------------------------------------------------------------------------
(* Taking the lease. *)

\* A connection's handler, or the supervisor itself, starts to wait for the lock.  Requests come
\* from a running worker; the supervisor restarts a worker that has ended.
Ask(s) ==
    /\ pc[s] = "idle" /\ writer[s] # "run" /\ s \notin token /\ ~stopping
    /\ s \in Request => worker
    /\ s \in Boot => ~worker
    /\ pc' = [pc EXCEPT ![s] = "wait"]
    /\ writer' = [writer EXCEPT ![s] = "off"]
    /\ reply' = [reply EXCEPT ![s] = "none"]
    /\ UNCHANGED <<authority, token, sub, by, worker, stopping, dirty>>

\* The wait times out (control_busy), or server.stop cancels it.  The supervisor's own
\* failure to get the lease ends its loop.
Busy(s) ==
    /\ pc[s] = "wait"
    /\ pc' = [pc EXCEPT ![s] = "idle"]
    /\ reply' = [reply EXCEPT ![s] = "error"]
    /\ stopping' = (stopping \/ s \in Boot)
    /\ UNCHANGED <<authority, writer, token, sub, by, worker, dirty>>

\* exclusive refuses a poisoned authority, or makes the session the owner and runs its body: the
\* token goes out to a client, a callback or the startup runs here.
Refuse(s) ==
    /\ pc[s] = "wait" /\ lock = None /\ poisoned
    /\ pc' = [pc EXCEPT ![s] = "idle"]
    /\ reply' = [reply EXCEPT ![s] = "error"]
    /\ stopping' = (stopping \/ s \in Boot)
    /\ UNCHANGED <<authority, writer, token, sub, by, worker, dirty>>
Grant(s) ==
    /\ pc[s] = "wait" /\ lock = None /\ ~poisoned
    /\ lock' = s /\ revoking' = FALSE /\ failed' = FALSE
    /\ pc' = [pc EXCEPT ![s] = "held"]
    /\ IF s \in Remote
       THEN token' = (IF writer[s] = "off" THEN token \cup {s} ELSE token) /\ UNCHANGED writer
       ELSE writer' = [writer EXCEPT ![s] = "run"] /\ UNCHANGED token
    /\ UNCHANGED <<poisoned, sub, by, worker, stopping, reply, dirty>>

-----------------------------------------------------------------------------
(* The writers. *)

\* UnixControlClient.mutation reads its token and runs its body.
Begin(s) ==
    /\ s \in token /\ writer[s] = "off"
    /\ writer' = [writer EXCEPT ![s] = "run"]
    /\ token' = token \ {s}
    /\ UNCHANGED <<authority, pc, sub, by, worker, stopping, reply, dirty>>

\* The client's body ends and sends its release, or fails and closes the connection; finish_writer
\* keeps it from closing the connection earlier.  A client can also give up before its grant.
RemoteEnd(s) ==
    /\ s \in Remote
    /\ \/ writer[s] = "run" /\ writer' \in {[writer EXCEPT ![s] = r] : r \in {"ok", "err"}}
       \/ pc[s] # "idle" /\ writer[s] = "off" /\ writer' = [writer EXCEPT ![s] = "err"]
    /\ token' = token \ {s}
    /\ UNCHANGED <<authority, pc, sub, by, worker, stopping, reply, dirty>>

\* A backup or restore callback returns or raises; a restore may have reaped the worker and started
\* another, and calls require_recovery when it could neither finish nor roll back.  What
\* it does after the interruption's quiesce is not covered by that quiesce.
CallEnd(s) ==
    /\ s \in Call /\ writer[s] = "run"
    /\ \E r \in {"ok", "err"} :
         \/ /\ writer' = [writer EXCEPT ![s] = r]
            /\ UNCHANGED <<poisoned, worker, token>>
         \/ /\ writer' = [t \in Session |-> IF t = s THEN r ELSE Reaped(t)]
            /\ token' = token \ Request
            /\ worker' \in BOOLEAN
            /\ poisoned' \in {poisoned, poisoned \/ r = "ok"}
    /\ dirty' = (dirty \/ pc[s] = "joining")
    /\ UNCHANGED <<lock, revoking, failed, pc, sub, by, stopping, reply>>

\* The coordinator's startup ends with a running worker or raises.
BootEnd(s) ==
    /\ s \in Boot /\ writer[s] = "run"
    /\ \/ writer' = [writer EXCEPT ![s] = "ok"] /\ worker' = TRUE
       \/ writer' = [writer EXCEPT ![s] = "err"] /\ worker' \in {worker, TRUE}
    /\ UNCHANGED <<authority, pc, token, sub, by, stopping, reply, dirty>>

WorkerDies ==
    /\ worker /\ KillWorker
    /\ UNCHANGED <<authority, pc, sub, by, stopping, reply, dirty>>

-----------------------------------------------------------------------------
(* The end of a lease. *)

\* The body ended well: the handler read the release, the callback returned, the startup is done.
Release(s) ==
    /\ pc[s] = "held" /\ writer[s] = "ok"
    /\ pc' = [pc EXCEPT ![s] = "final"]
    /\ revoking' = TRUE
    /\ UNCHANGED <<lock, poisoned, failed, writer, token, sub, by, worker, stopping, reply, dirty>>

\* The body is lost: the connection closed, the callback raised or its caller left, the deadline
\* passed or server.stop cancelled the handler.  A callback keeps running; the
\* startup is cancelled with its body.
Lose(s) ==
    /\ pc' = [pc EXCEPT ![s] = IF s \in Call THEN "interrupted" ELSE "loss"]
    /\ revoking' = (revoking \/ s \notin Call)
    /\ writer' = [writer EXCEPT ![s] = IF s \in Boot THEN "err" ELSE @]
    /\ dirty' = TRUE
    /\ UNCHANGED <<lock, poisoned, failed, token, sub, by, worker, stopping, reply>>
\* A deadline that only the supervisor's own operations have.
BugExpire(s) == pc[s] = "held" /\ s \notin Remote /\ Lose(s)
Broken(s) == pc[s] = "held" /\ writer[s] = "err" /\ Lose(s)
Expire(s) == pc[s] = "held" /\ Lose(s)

\* _finish_interrupted: quiesce beside the running callback, then wait for it.
Interrupt(s) ==
    /\ pc[s] = "interrupted" /\ Abandon
    /\ pc' = [pc EXCEPT ![s] = "joining"]
    /\ UNCHANGED <<lock, revoking, failed, sub, by, reply>>
Join(s) ==
    /\ pc[s] = "joining" /\ writer[s] # "run"
    /\ pc' = [pc EXCEPT ![s] = "loss"]
    /\ revoking' = TRUE
    /\ UNCHANGED <<lock, poisoned, failed, writer, token, sub, by, worker, stopping, reply, dirty>>

\* finish_loss: wait for the borrowed calls, then quiesce.
Loss(s) ==
    /\ pc[s] = "loss" /\ Borrowed(s) = {} /\ Abandon
    /\ pc' = [pc EXCEPT ![s] = "closing"]
    /\ UNCHANGED <<lock, revoking, failed, sub, by, reply>>

\* The outer finally: wait for the borrowed calls, quiesce again if one of them failed, release
\* the lock and answer.  A failure of the supervisor's own session ends its loop.
Unlock(s, answer) ==
    /\ lock' = None
    /\ pc' = [pc EXCEPT ![s] = "idle"]
    /\ reply' = [reply EXCEPT ![s] = answer]
    /\ UNCHANGED <<revoking, failed, sub, by>>

\* The final quiesce left out.
BugFinal(s) ==
    /\ pc[s] \in {"final", "closing"} /\ Borrowed(s) = {}
    /\ UNCHANGED <<poisoned, writer, token, worker, dirty>>
    /\ Unlock(s, IF pc[s] = "final" THEN "ok" ELSE "error")
    /\ stopping' = (stopping \/ (s \in Boot /\ pc[s] = "closing"))
Final(s) ==
    /\ pc[s] \in {"final", "closing"} /\ Borrowed(s) = {}
    /\ \/ ~failed /\ UNCHANGED <<poisoned, writer, token, worker, dirty>>
          /\ Unlock(s, IF pc[s] = "final" THEN "ok" ELSE "error")
          /\ stopping' = (stopping \/ (s \in Boot /\ pc[s] = "closing"))
       \/ failed /\ Quiesced /\ Unlock(s, IF pc[s] = "final" THEN "ok" ELSE "error")
       \/ failed /\ Poisons /\ Unlock(s, "error")

-----------------------------------------------------------------------------
(* Borrowed ingress calls: the handler's checks, MutationAuthority.        *)
(* subordinate and guarded_operation.                                      *)
Borrow(b) ==
    /\ sub[b] = "off"
    /\ worker /\ lock \in Request /\ ~poisoned /\ ~revoking
    /\ sub' = [sub EXCEPT ![b] = "run"]
    /\ by' = [by EXCEPT ![b] = lock]
    /\ UNCHANGED <<authority, pc, writer, token, worker, stopping, reply, dirty>>

\* The call returns; what it did after a sibling's failure is not covered by that one's quiesce.
BorrowEnd(b) ==
    /\ sub[b] = "run"
    /\ sub' = [sub EXCEPT ![b] = "off"]
    /\ dirty' = (dirty \/ failed)
    /\ UNCHANGED <<authority, pc, writer, token, by, worker, stopping, reply>>

\* The call raises: it revokes the lease and quiesces before anybody hears of it.
BorrowFail(b) ==
    /\ sub[b] = "run"
    /\ sub' = [sub EXCEPT ![b] = "clean"]
    /\ revoking' = TRUE /\ failed' = TRUE /\ dirty' = TRUE
    /\ UNCHANGED <<lock, poisoned, pc, writer, token, by, worker, stopping, reply>>
BorrowClean(b) ==
    /\ sub[b] = "clean" /\ Abandon
    /\ sub' = [sub EXCEPT ![b] = "off"]
    /\ UNCHANGED <<lock, revoking, failed, pc, by, reply>>

-----------------------------------------------------------------------------
(* The supervisor's end: a signal, then server.stop, which cancels and     *)
(* joins every handler, then the container's restart, which ends every     *)
(* process in it.                                                          *)
Stop == ~stopping /\ stopping' = TRUE
        /\ UNCHANGED <<authority, pc, writer, token, sub, by, worker, reply, dirty>>
Restart ==
    /\ stopping
    /\ \A s \in Session : pc[s] = "idle"
    /\ \A b \in Borrower : sub[b] = "off"
    /\ lock' = None /\ poisoned' = FALSE /\ revoking' = FALSE /\ failed' = FALSE
    /\ pc' = [s \in Session |-> "idle"]
    /\ writer' = [s \in Session |-> "off"]
    /\ token' = {}
    /\ sub' = [b \in Borrower |-> "off"]
    /\ by' = [b \in Borrower |-> None]
    /\ worker' = FALSE /\ stopping' = FALSE /\ dirty' = FALSE
    /\ reply' = [s \in Session |-> "none"]

SessionStep(s) ==
    \/ Ask(s) \/ Busy(s) \/ Refuse(s) \/ Grant(s)
    \/ Begin(s) \/ RemoteEnd(s) \/ CallEnd(s) \/ BootEnd(s)
    \/ Release(s) \/ Broken(s) \/ Expire(s)
    \/ Interrupt(s) \/ Join(s) \/ Loss(s) \/ Final(s)
BorrowStep(b) == Borrow(b) \/ BorrowEnd(b) \/ BorrowFail(b) \/ BorrowClean(b)
Next ==
    \/ \E s \in Session : SessionStep(s)
    \/ \E b \in Borrower : BorrowStep(b)
    \/ WorkerDies \/ Stop \/ Restart

Spec == Init /\ [][Next]_vars

\* Callbacks, ingress calls and quiesces end: each runs commands with timeouts of seconds, and
\* quiesce has a deadline of its own.  Deadlines fire.  Clients may hang.
Fairness ==
    /\ \A s \in Session : WF_vars(CallEnd(s)) /\ WF_vars(BootEnd(s)) /\ WF_vars(Expire(s))
                          /\ WF_vars(Interrupt(s)) /\ WF_vars(Join(s))
                          /\ WF_vars(Loss(s)) /\ WF_vars(Final(s))
    /\ \A b \in Borrower : WF_vars(BorrowEnd(b) \/ BorrowFail(b)) /\ WF_vars(BorrowClean(b))
FairSpec == Spec /\ Fairness

-----------------------------------------------------------------------------
(* Properties. *)

\* At any time at most one session changes state, whatever was lost, cancelled or timed out before.
OneWriter == \A s, t \in Session : writer[s] = "run" /\ writer[t] = "run" => s = t

\* A borrowed ingress call, its failure's quiesce included, runs inside the lease it borrowed.
BorrowedInsideLease == \A b \in Borrower : sub[b] # "off" => by[b] = lock

\* The lease is free for the next session only after what an interrupted one did was quiesced, or
\* never again.
GuardedHandover == lock = None /\ dirty => poisoned

\* A client hears that its lease ended well only after every call it borrowed is over and the
\* quiesce that a failed one asked for has succeeded.
AckedLeaseIsOver ==
    [][\A s \in Session : reply[s] # "ok" /\ reply'[s] = "ok" =>
            /\ \A b \in Borrower : by[b] = s => sub'[b] = "off"
            /\ ~dirty' /\ lock' = None]_vars

\* container_control: the lease is free for the next session only quiesced or poisoned, a call
\* borrowed from it and its cleanup stay inside it, and its end is acknowledged only when
\* nothing borrowed runs and nothing is left to quiesce.
HandoverIsClean == [](GuardedHandover /\ BorrowedInsideLease) /\ AckedLeaseIsOver

\* Every lease ends, also one whose client hangs and one that others borrow from.
LeaseEnds == \A s \in Session : lock = s ~> lock # s
=============================================================================
