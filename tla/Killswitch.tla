----------------------------- MODULE Killswitch -----------------------------
(***************************************************************************)
(* The ExitLane killswitch (services/killswitch.py): two persisted flags   *)
(* and one nftables table, changed by five operations that one asyncio     *)
(* lock serialises in the order of their calls.  The head of the queue is  *)
(* the operation that holds the lock.  A ruleset is abstracted to where it *)
(* lets protected clients go: nowhere, or out through one provider.        *)
(***************************************************************************)
EXTENDS Naturals, Sequences

CONSTANTS Provider,  \* the registered VPN providers
          Client     \* the tasks that call the killswitch

VARIABLES
    configured,  \* the operator's setting
    transition,  \* the provider-transition setting
    table,       \* the table in the kernel
    queue,       \* calls waiting for the lock, its holder first
    stage,       \* how far the holder is
    reply        \* client -> the result of its last call

ksVars == <<configured, transition, table, queue, stage, reply>>

Operation == {"enable", "disable", "reconcile", "arm", "complete"}
\* What network_facts can say: a proven interface, or why there is none.
Facts == Provider \cup {"down", "conflict", "transition"}
Table == Provider \cup {"none", "closed"}
Call == [by : Client, op : Operation, facts : Facts]

KsTypeOK ==
    /\ configured \in BOOLEAN /\ transition \in BOOLEAN
    /\ table \in Table /\ queue \in Seq(Call)
    /\ stage \in {"entry", "apply", "settle", "status"}
    /\ reply \in [Client -> {"none", "ok", "error"}]

KsInit == /\ configured \in BOOLEAN /\ transition = FALSE
          /\ table = IF configured THEN "closed" ELSE "none"
          /\ queue = <<>> /\ stage = "entry"
          /\ reply = [c \in Client |-> "none"]

\* Mutant: unproven egress is let through.
BugRuleset(facts) == facts

\* generate_ruleset: only proven egress is let through.
Ruleset(facts) == IF facts \in Provider THEN facts ELSE "closed"

Holder == Head(queue)

\* Mutant: a reconciliation does not look for a transition.
BugGoal(call) ==
    CASE call.op \in {"disable"} -> "none"
      [] call.op = "arm" -> "closed"
      [] call.op = "enable" -> IF transition THEN "closed" ELSE Ruleset(call.facts)
      [] call.op = "reconcile" -> IF configured THEN Ruleset(call.facts) ELSE table
      [] call.op = "complete" -> IF configured THEN Ruleset(call.facts) ELSE "none"

\* The table an operation wants, by the settings it finds under the lock.
Goal(call) ==
    CASE call.op \in {"disable"} -> "none"
      [] call.op = "arm" -> "closed"
      [] call.op = "enable" -> IF transition THEN "closed" ELSE Ruleset(call.facts)
      [] call.op = "reconcile" -> IF transition THEN "closed"
                                  ELSE IF configured THEN Ruleset(call.facts) ELSE table
      [] call.op = "complete" -> IF configured THEN Ruleset(call.facts) ELSE "none"

\* Whether it runs nft to get there.
Loads(call) == IF call.op = "reconcile" THEN configured \/ transition
               ELSE Goal(call) = "none" => table # "none"
----------------------------------------------------------------------------
\* A task calls an operation: it takes the lock if nobody waits, else it waits.
Request(c, op, facts) ==
    /\ queue' = Append(queue, [by |-> c, op |-> op, facts |-> facts])
    /\ reply' = [reply EXCEPT ![c] = "none"]
    /\ UNCHANGED <<configured, transition, table, stage>>

Pending(c) == \E i \in 1..Len(queue) : queue[i].by = c

\* The calling task goes on with the result.
Take(c) == /\ ~Pending(c) /\ reply' = [reply EXCEPT ![c] = "none"]
           /\ UNCHANGED <<configured, transition, table, queue, stage>>

Answer(result) ==
    /\ queue' = Tail(queue) /\ stage' = "entry"
    /\ reply' = [reply EXCEPT ![Holder.by] = result]

\* arm_provider_transition persists the flag before it touches the table.
Enter == /\ queue # <<>> /\ stage = "entry" /\ Holder.op = "arm"
         /\ transition' = TRUE /\ stage' = "apply"
         /\ UNCHANGED <<configured, table, queue, reply>>

AtTable == queue # <<>> /\ (stage = "apply" \/ (stage = "entry" /\ Holder.op # "arm"))

\* NftBackend.apply or remove succeeds.  Arming and reconciling end here, but
\* for an observation of the status.
Apply == /\ AtTable /\ table' = Goal(Holder)
         /\ UNCHANGED <<configured, transition>>
         /\ IF Holder.op \in {"arm", "reconcile"} THEN Answer("ok")
            ELSE stage' = "settle" /\ UNCHANGED <<queue, reply>>

\* It raises.  nft loads a file as a whole and apply then loads the snapshot
\* again, so the old table is there, unless a load took effect that nft (killed
\* by its timeout) did not report.
ApplyFails(outcomes) ==
    /\ AtTable /\ Loads(Holder)
    /\ table' \in outcomes
    /\ Answer("error")
    /\ UNCHANGED <<configured, transition>>

\* The settings are written once the table is in place.  The completion still
\* awaits its status before it returns to its caller.
Settle == /\ queue # <<>> /\ stage = "settle"
          /\ configured' = (Holder.op = "enable" \/ (configured /\ Holder.op # "disable"))
          /\ transition' = (transition /\ Holder.op \notin {"disable", "complete"})
          /\ UNCHANGED table
          /\ IF Holder.op = "complete" THEN stage' = "status" /\ UNCHANGED <<queue, reply>>
                                       ELSE Answer("ok")

Return == /\ queue # <<>> /\ stage = "status"
          /\ Answer("ok")
          /\ UNCHANGED <<configured, transition, table>>

\* The calls that wait, but for the one at place i.
Without(i) == SubSeq(queue, 1, i - 1) \o SubSeq(queue, i + 1, Len(queue))

\* The calling task is cancelled, which only an await lets happen.  A holder
\* stopped while nft runs cannot tell whether the load happened.
Cancelled(c) ==
    /\ (queue # <<>> /\ Holder.by = c /\ stage = "settle") => Holder.op = "enable"
    /\ \/ ~Pending(c) /\ UNCHANGED queue
       \/ \E i \in 1..Len(queue) : queue[i].by = c /\ queue' = Without(i)
    /\ LET holds == queue # <<>> /\ Holder.by = c
       IN  /\ stage' = IF holds THEN "entry" ELSE stage
           /\ table' \in IF holds /\ AtTable THEN {table, Goal(Holder)} ELSE {table}
    /\ reply' = [reply EXCEPT ![c] = "none"]
    /\ UNCHANGED <<configured, transition>>

\* The process ends; the settings and the kernel's table stay.
KsRestart == /\ queue' = <<>> /\ stage' = "entry"
             /\ reply' = [c \in Client |-> "none"]
             /\ UNCHANGED <<configured, transition, table>>

\* restore_killswitch, before the network is up after a reboot: start closed.
KsReboot == /\ queue' = <<>> /\ stage' = "entry"
            /\ reply' = [c \in Client |-> "none"]
            /\ table' = IF configured \/ transition THEN "closed" ELSE "none"
            /\ UNCHANGED <<configured, transition>>
=============================================================================
