---------------------------- MODULE MCSupervisor ----------------------------
(* The container's supervisor, for TLC: the lease under which one writer at a *)
(* time changes the volume, and the recovery of that volume.  Recovery runs   *)
(* inside one lease or before the first, so a behaviour moves the part that   *)
(* its first state chooses.                                                   *)
EXTENDS MutationAuthority

CONSTANTS g0, g1, g2, Absent, Torn

VARIABLES part,
          step, caller, journal, candidate, previous, skeleton, live, stale, hot, index, guard,
          ingress, process, ready, restarts, outcome, origin, target, shown, faults

volumeVars == <<step, caller, journal, candidate, previous, skeleton, live, stale, hot, index,
                guard, ingress, process, ready, restarts, outcome, origin, target, shown, faults>>
all == <<part, vars, volumeVars>>

Volume == INSTANCE ContainerRecovery WITH pc <- step, worker <- process,
    Generation <- {g0, g1, g2}, Configured <- {g1, g2}, Fresh <- g0,
    Faults <- {"crash", "raise", "worker"}, MaxFaults <- 3

SupervisorInit ==
  /\ part \in {"lease", "volume"}
  /\ Init /\ Volume!Init
  /\ part # "volume" => skeleton = FALSE

\* The steps of one part leave the other alone.
Leased(A) == part = "lease" /\ A /\ UNCHANGED <<part, volumeVars>>
Recovering(A) == part = "volume" /\ A /\ UNCHANGED <<part, vars>>

SupervisorNext == Leased(Next) \/ Recovering(Volume!Next)

\* The fairness of MutationAuthority and of ContainerRecovery, each for its part.
SupervisorFairness ==
  /\ \A s \in Session :
        /\ WF_all(Leased(CallEnd(s))) /\ WF_all(Leased(BootEnd(s)))
        /\ WF_all(Leased(Expire(s))) /\ WF_all(Leased(Interrupt(s)))
        /\ WF_all(Leased(Join(s))) /\ WF_all(Leased(Loss(s))) /\ WF_all(Leased(Final(s)))
  /\ \A b \in Borrower :
        /\ WF_all(Leased(BorrowEnd(b) \/ BorrowFail(b))) /\ WF_all(Leased(BorrowClean(b)))
  /\ WF_all(Recovering(Volume!Progress))

SupervisorSpec == SupervisorInit /\ [][SupervisorNext]_all /\ SupervisorFairness

-----------------------------------------------------------------------------
\* container_recovery: a receipt on disk names what its recovery needs, publication runs only
\* with every writer reaped, and the reported outcome is what is on the volume.
VolumeIsRecoverable ==
  part = "volume" =>
    Volume!ReceiptIsRecoverable /\ Volume!PublishIsQuiesced /\ Volume!ReportedOutcome

\* ContainerRecovery: after the last fault the appliance serves again, or waits
\* for the operator with a volume that was never initialised or must be repaired.
Recovers ==
  []<>(\/ part # "volume"
       \/ Volume!Serving \/ Volume!Skeleton \/ (step = "required" /\ process))
=============================================================================
