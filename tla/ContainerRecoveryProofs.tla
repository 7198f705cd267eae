---------------------- MODULE ContainerRecoveryProofs ----------------------
(***************************************************************************)
(* ContainerRecovery for any set of generations and any number of faults:  *)
(* types, quiesced publication, forwarding on a coherent volume only, the  *)
(* atomic volume that journal and snapshots implement, and what a receipt  *)
(* and a report promise.                                                   *)
(***************************************************************************)
EXTENDS ContainerRecovery, TLAPS

Empty == live = [c \in Component |-> Absent]
Clean == (Coherent \/ Empty) /\ ~stale
Whole == Coherent /\ ~stale

\* The steps between quiesce and the activation of the new ingress.
Quieted == {"snapshot", "rec_snapshot", "reset", "dispatch", "rec_publishing", "rec_rollback",
            "publish", "rec_installed", "revoke", "validate", "reconcile"}

\* First start: nothing runs before the skeleton exists, nor while it is staged.
IFirst == /\ ~skeleton => pc \in {"off", "startup"} /\ ~worker /\ ~ingress
          /\ pc \in {"rec_preparing", "stage", "rec_ready"} => ~worker /\ ~ingress
          /\ pc \in {"startup", "rec_preparing", "stage", "rec_ready", "dispatch"}
                => caller = "startup"
          /\ pc \in {"snapshot", "rec_snapshot"} => caller = "restore"
          /\ pc \in {"guard", "quiesce", "reset"}
                => caller \in {"startup", "restore", "rollback", "failed"}

\* Guard and quiesce hold from where they ran to where forwarding is reopened.
IQuiet == /\ pc \in Quieted => guard /\ ~worker /\ ~ingress
          /\ pc \in {"health", "rec_validated", "rec_committed", "reopen"} => guard
          /\ pc = "quiesce" /\ caller # "failed" => guard
          /\ caller = "failed" => pc \in {"guard", "quiesce"}

\* Without a receipt, or with one that keeps the live pair, the live pair is clean.
ISettled == /\ journal \in {"none", "prepared", "committed"} => Clean
            /\ pc = "publish" => journal \notin {"none", "prepared", "committed"}
            /\ pc \in {"prepare", "rec_prepared", "snapshot", "validate"} => Clean
            /\ pc \in {"guard", "quiesce"} /\ caller = "restore" => Clean
            /\ caller \in {"restore", "rollback"} /\ previous = Absent => Clean

\* A call that publishes over the live pair has a snapshot of it.
ISnapshot == /\ pc \in {"rec_snapshot", "rec_publishing", "rec_rollback", "publish",
                         "rec_installed",
                        "revoke"} /\ caller # "startup" => previous # Absent
             /\ pc = "reset" /\ caller = "restore" => previous # Absent

\* _publish has replaced the components before index by those of its source.
IPublish == /\ pc \notin {"publish", "raised"} => index = 1
            /\ pc = "publish" =>
                 /\ \A j \in 1..4 : j < index => live[PublishOrder[j]] = Source
                 /\ index > 1 => (stale <=> caller = "restore")

\* What was published, and validated, is coherent.
IPublished == /\ pc \in {"rec_installed", "revoke"} => Coherent
              /\ pc \in {"reconcile", "health", "rec_validated", "rec_committed", "reopen",
                         "unlink", "rmtree"} => Whole

\* The inductive invariant.
IInv == IFirst /\ IQuiet /\ ISettled /\ ISnapshot /\ IPublish /\ IPublished /\ ForwardsCoherentState
Inv == TypeOK /\ IInv
----------------------------------------------------------------------------
\* The order of publication and the phases of the receipts, entry by entry.
LEMMA OrderFacts ==
    /\ Len(PublishOrder) = 5
    /\ PublishOrder[1] = "database" /\ PublishOrder[2] = "master_key"
    /\ PublishOrder[3] = "manifest" /\ PublishOrder[4] = "wireguard"
    /\ PublishOrder[5] = "provider_egress"
  BY Zenon DEF PublishOrder

LEMMA RecordedFacts ==
    /\ DOMAIN Recorded = {"rec_preparing", "rec_ready", "rec_prepared", "rec_snapshot",
                          "rec_publishing", "rec_installed", "rec_validated", "rec_committed",
                          "rec_rollback"}
    /\ Recorded["rec_preparing"] = "init_preparing" /\ Recorded["rec_ready"] = "init_ready"
    /\ Recorded["rec_prepared"] = "prepared" /\ Recorded["rec_snapshot"] = "snapshot_ready"
    /\ Recorded["rec_publishing"] = "publishing" /\ Recorded["rec_installed"] = "installed"
    /\ Recorded["rec_validated"] = "validated" /\ Recorded["rec_committed"] = "committed"
    /\ Recorded["rec_rollback"] = "rollback_required"
  BY Zenon DEF Recorded

\* Where a step may lead.
LEMMA RecordedPhases == \A p \in DOMAIN Recorded : Recorded[p] \in Phases
  BY RecordedFacts, Zenon DEF Phases, InitPhases, RestorePhases

LEMMA AfterType == After \in Steps \cup {"idle", "required"}
  BY RecordedFacts DEF After, Steps

\* Coherence depends on the live pair only.
LEMMA CoherentStable == ASSUME live' = live PROVE (Coherent' <=> Coherent) /\ (Empty' <=> Empty)
  BY Zenon DEF Coherent, Empty

\* The initial states satisfy the invariant.
LEMMA InitInv == Init => Inv
<1> SUFFICES ASSUME Init PROVE Inv
  BY Zenon
<1> USE GenerationAssumption, FaultAssumption
<1>a. live \in [Component -> Content] 
  BY Zenon DEF Init, Content
<1>b. shown \in Content
  BY Zenon DEF Init, Content
<1>c. faults \in 0..MaxFaults /\ restarts \in 0..2
  BY DEF Init
<1>d. index \in 1..Len(PublishOrder)
  BY OrderFacts DEF Init
<1>e. pc \in {"off"} /\ caller \in Callers /\ journal \in {"none"} /\ outcome = "none"
  BY Zenon DEF Init, Callers
<1>f. candidate \in Content /\ previous \in Content /\ origin \in Content /\ target \in Content
  BY <1>b, Zenon DEF Init, Content
<1>1. TypeOK
  BY ZenonT(30), <1>a, <1>b, <1>c, <1>d, <1>e, <1>f DEF Init, TypeOK
<1>2. Clean
  BY Zenon DEF Init, Clean, Coherent, Empty, Component
<1>3. IFirst /\ IQuiet /\ ISettled /\ ISnapshot /\ IPublish /\ IPublished
  BY <1>2, Zenon DEF Init, IFirst, IQuiet, ISettled, ISnapshot, IPublish, IPublished, Quieted
<1>4. ForwardsCoherentState
  BY Zenon DEF Init, ForwardsCoherentState, Forwarding
<1>5. QED
  BY <1>1, <1>3, <1>4, Zenon DEF Inv, IInv
----------------------------------------------------------------------------
\* The two halves of TypeOK: the flags, and everything else.
Flags == /\ skeleton \in BOOLEAN /\ stale \in BOOLEAN /\ hot \in BOOLEAN
         /\ guard \in BOOLEAN /\ ingress \in BOOLEAN /\ worker \in BOOLEAN /\ ready \in BOOLEAN

Data == /\ pc \in Steps \cup {"off", "idle", "raised", "required"} /\ caller \in Callers
        /\ journal \in Phases \cup {"none"} /\ candidate \in Content /\ previous \in Content
        /\ live \in [Component -> Content] /\ index \in 1..5
        /\ restarts \in 0..2 /\ faults \in 0..MaxFaults
        /\ outcome \in {"none", "restored", "rolled_back", "rejected", "required", "refused"}
        /\ origin \in Content /\ target \in Content /\ shown \in Content

LEMMA TypeHalves == TypeOK <=> Flags /\ Data
  BY OrderFacts, Zenon DEF TypeOK, Flags, Data

\* Every step keeps the flags Boolean.
LEMMA FlagsStep == ASSUME Flags, [Next]_vars PROVE Flags'
<1> USE DEF Flags, disk, network, history
<1>1. CASE BootProcess
  BY <1>1, Zenon DEF BootProcess
<1>2. CASE RestartWorker
  BY <1>2, Zenon DEF RestartWorker, ProcessEnds
<1>3. CASE Startup
  BY <1>3, Zenon DEF Startup, ProcessEnds
<1>4. CASE Stage
  BY <1>4, Zenon DEF Stage
<1>5. CASE Dispatch
  BY <1>5, Zenon DEF Dispatch
<1>6. CASE Prepare
  BY <1>6, Zenon DEF Prepare
<1>7. CASE Record
  BY <1>7, Zenon DEF Record
<1>8. CASE Guard
  BY <1>8, Zenon DEF Guard
<1>9. CASE Quiesce
  BY <1>9, Zenon DEF Quiesce
<1>10. CASE Reset
  BY <1>10, Zenon DEF Reset
<1>11. CASE Snapshot
  BY <1>11, Zenon DEF Snapshot
<1>12. CASE Publish
  BY <1>12, Zenon DEF Publish
<1>13. CASE Revoke
  BY <1>13, Zenon DEF Revoke
<1>14. CASE Validate
  BY <1>14, Zenon DEF Validate
<1>15. CASE Reconcile
  <2>1. ingress' \in BOOLEAN
    BY <1>15 DEF Reconcile
  <2>2. QED
    BY <1>15, <2>1, Zenon DEF Reconcile
<1>16. CASE Health
  BY <1>16, Zenon DEF Health
<1>17. CASE Reopen
  BY <1>17, Zenon DEF Reopen
<1>18. CASE Unlink
  BY <1>18, Zenon DEF Unlink
<1>19. CASE RemoveTree
  BY <1>19, Zenon DEF RemoveTree
<1>20. CASE Refuse
  BY <1>20, Zenon DEF Refuse
<1>21. CASE Handle
  BY <1>21, Zenon DEF Handle, ProcessEnds
<1>22. CASE GiveUp
  BY <1>22, Zenon DEF GiveUp, ProcessEnds
<1>23. CASE RestoreRefused
  BY <1>23, Zenon DEF RestoreRefused
<1>24. CASE OperatorRestart
  BY <1>24, Zenon DEF OperatorRestart, ProcessEnds
<1>25. CASE Crash
  BY <1>25, Zenon DEF Crash, ProcessEnds
<1>26. CASE WorkerEnds
  BY <1>26, Zenon DEF WorkerEnds
<1>27. CASE \E g \in Generation : Restore(g)
  BY <1>27, Zenon DEF Restore
<1>28. CASE \E g \in Generation : Mutate(g)
  <2>1. ingress' \in BOOLEAN
    BY <1>28 DEF Mutate
  <2>2. QED
    BY <1>28, <2>1, Zenon DEF Mutate
<1>29. CASE Raise
  <2>1. CASE pc = "guard"
    BY <1>29, <2>1, RecordedFacts, Zenon DEF Raise, PartialEffect
  <2>2. CASE pc = "quiesce"
    BY <1>29, <2>2, RecordedFacts, Zenon DEF Raise, PartialEffect
  <2>3. CASE pc = "snapshot"
    BY <1>29, <2>3, RecordedFacts, Zenon DEF Raise, PartialEffect
  <2>4. CASE pc \in DOMAIN Recorded
    BY <1>29, <2>4, RecordedFacts, ZenonT(30) DEF Raise, PartialEffect
  <2>5. CASE pc = "revoke"
    BY <1>29, <2>5, RecordedFacts, Zenon DEF Raise, PartialEffect
  <2>6. CASE pc = "reconcile"
    <3>1. (Installed \in Configured) \in BOOLEAN
      OBVIOUS
    <3>2. QED
      BY <1>29, <2>6, <3>1, RecordedFacts, Zenon DEF Raise, PartialEffect
  <2>7. CASE pc = "health"
    BY <1>29, <2>7, RecordedFacts, Zenon DEF Raise, PartialEffect
  <2>8. CASE pc = "reopen"
    BY <1>29, <2>8, RecordedFacts, Zenon DEF Raise, PartialEffect
  <2>9. CASE pc = "unlink"
    BY <1>29, <2>9, RecordedFacts, Zenon DEF Raise, PartialEffect
  <2>10. CASE UNCHANGED <<disk, network>>
    BY <1>29, <2>10, Zenon DEF Raise
  <2>11. QED
    BY <1>29, <2>1, <2>2, <2>3, <2>4, <2>5, <2>6, <2>7, <2>8, <2>9, <2>10, Zenon DEF Raise,
       PartialEffect
<1>30. CASE UNCHANGED vars
  BY SMTT(30), <1>30 DEF vars
<1>31. QED
  BY <1>1, <1>2, <1>3, <1>4, <1>5, <1>6, <1>7, <1>8, <1>9, <1>10, <1>11, <1>12, <1>13, <1>14,
     <1>15, <1>16, <1>17, <1>18, <1>19, <1>20, <1>21, <1>22, <1>23, <1>24, <1>25, <1>26, <1>27,
     <1>28, <1>29, <1>30, Zenon DEF Next, Progress

\* Every step keeps the other types.
LEMMA DataStep == ASSUME Data, [Next]_vars PROVE Data'
<1> USE GenerationAssumption, FaultAssumption, AfterType, OrderFacts
<1> USE DEF Data, disk, network, history, Content, Steps, Callers
<1>1. CASE BootProcess
  BY <1>1 DEF BootProcess
<1>2. CASE RestartWorker
  BY <1>2 DEF RestartWorker, ProcessEnds
<1>3. CASE Startup
  <2>1. CASE ~skeleton
    <3>1. pc' = "rec_preparing"
      BY <1>3, <2>1, Zenon DEF Startup
    <3>2. QED
      BY <1>3, <2>1, <3>1, RecordedFacts DEF Startup
  <2>2. CASE skeleton /\ journal # "none"
    <3>1. pc' = "guard"
      BY <1>3, <2>2, Zenon DEF Startup
    <3>2. UNCHANGED <<caller, disk, index, network, restarts, outcome, history, faults>>
      BY <1>3, <2>2, Zenon DEF Startup
    <3>3. QED
      BY <3>1, <3>2
  <2>3. CASE skeleton /\ journal = "none" /\ hot
    BY <1>3, <2>3 DEF Startup
  <2>4. CASE skeleton /\ journal = "none" /\ ~hot
    BY <1>3, <2>4 DEF Startup, ProcessEnds
  <2>5. QED
    BY <2>1, <2>2, <2>3, <2>4, Zenon
<1>4. CASE Stage
  BY <1>4 DEF Stage
<1>5. CASE Dispatch
  BY <1>5 DEF Dispatch
<1>6. CASE Prepare
  BY <1>6 DEF Prepare, Continue
<1>7. CASE Record
  BY <1>7, RecordedFacts DEF Record, Continue, Phases, InitPhases, RestorePhases
<1>8. CASE Guard
  BY <1>8 DEF Guard, Continue
<1>9. CASE Quiesce
  BY <1>9 DEF Quiesce, Continue, Finish
<1>10. CASE Reset
  BY <1>10 DEF Reset, Continue
<1>11. CASE Snapshot
  BY <1>11 DEF Snapshot, Continue, Installed, Component
<1>12. CASE Publish
  <2>1. Source \in Content /\ PublishOrder[index] \in Component
    BY <1>12 DEF Publish, Source, Component
  <2>2. live' \in [Component -> Content]
    BY <1>12, <2>1, Zenon DEF Publish
  <2>3. index' \in 1..5
    BY <1>12 DEF Publish
  <2>4. pc' \in {pc, "rec_installed", "validate"}
    BY <1>12, Zenon DEF Publish
  <2>5. QED
    BY <1>12, <2>2, <2>3, <2>4, RecordedFacts DEF Publish
<1>13. CASE Revoke
  BY <1>13 DEF Revoke, Continue
<1>14. CASE Validate
  BY <1>14 DEF Validate, Continue
<1>15. CASE Reconcile
  BY <1>15 DEF Reconcile, Continue, Installed, Component
<1>16. CASE Health
  BY <1>16 DEF Health, Continue
<1>17. CASE Reopen
  BY <1>17 DEF Reopen, Continue, Finish, Visible, Installed, Component
<1>18. CASE Unlink
  BY <1>18 DEF Unlink, Continue
<1>19. CASE RemoveTree
  BY <1>19 DEF RemoveTree, Continue, Finish
<1>20. CASE Refuse
  BY <1>20 DEF Refuse
<1>21. CASE Handle
  BY <1>21 DEF Handle, ProcessEnds
<1>22. CASE GiveUp
  BY <1>22 DEF GiveUp, ProcessEnds
<1>23. CASE RestoreRefused
  BY <1>23, ZenonT(60) DEF RestoreRefused, Installed, Component
<1>24. CASE OperatorRestart
  BY <1>24 DEF OperatorRestart, ProcessEnds
<1>25. CASE Crash
  BY <1>25 DEF Crash, ProcessEnds
<1>26. CASE WorkerEnds
  BY <1>26 DEF WorkerEnds
<1>27. CASE \E g \in Generation : Restore(g)
  BY <1>27, Zenon DEF Restore, Installed, Component
<1>28. CASE \E g \in Generation : Mutate(g)
  BY <1>28 DEF Mutate, Installed, Component
<1>29. CASE Raise
  <2>1. journal' \in Phases \cup {"none"}
    <3>1. CASE pc \in DOMAIN Recorded
      <4>1. pc \notin {"guard", "quiesce", "snapshot", "revoke", "reconcile", "health", "reopen",
                       "unlink"}
        BY <3>1, RecordedFacts, Zenon
      <4>2. journal' \in {journal, Recorded[pc]}
        BY <1>29, <3>1, <4>1, Zenon DEF Raise, PartialEffect
      <4>3. QED
        BY <3>1, <4>2, RecordedPhases, Zenon
    <3>2. CASE pc \notin DOMAIN Recorded
      BY ZenonT(30), <1>29, <3>2 DEF Raise, PartialEffect
    <3>3. QED
      BY <3>1, <3>2, Zenon
  <2>2. candidate' = candidate /\ live' = live
    BY ZenonT(30), <1>29, RecordedFacts DEF Raise, PartialEffect
  <2>3. previous' \in Content
    BY ZenonT(30), <1>29, RecordedFacts DEF Raise, PartialEffect
  <2>4. QED
    BY <1>29, <2>1, <2>2, <2>3 DEF Raise, Finish
<1>30. CASE UNCHANGED vars
  BY <1>30 DEF vars
<1>31. QED
  BY ZenonT(30), <1>1, <1>2, <1>3, <1>4, <1>5, <1>6, <1>7, <1>8, <1>9, <1>10, <1>11, <1>12, <1>13,
     <1>14, <1>15, <1>16, <1>17, <1>18, <1>19, <1>20, <1>21, <1>22, <1>23, <1>24, <1>25, <1>26,
     <1>27, <1>28, <1>29, <1>30 DEF Next, Progress
----------------------------------------------------------------------------
\* Where each step leads, one by one.
LEMMA AfterFacts ==
    /\ pc = "rec_preparing" => After = "stage"
    /\ pc = "stage" => After = "rec_ready"
    /\ pc = "rec_ready" => After = IF caller = "startup" /\ ~guard THEN "guard" ELSE "publish"
    /\ pc = "prepare" => After = "rec_prepared"
    /\ pc = "rec_prepared" => After = "guard"
    /\ pc = "guard" => After = "quiesce"
    /\ pc = "quiesce" => /\ caller = "restore" => After = "snapshot"
                         /\ caller = "failed" => After = "required"
                         /\ caller \notin {"restore", "failed"} => After = "reset"
    /\ pc = "snapshot" => After = "rec_snapshot"
    /\ pc = "rec_snapshot" => After = "reset"
    /\ pc = "reset" => /\ caller = "restore" => After = "rec_publishing"
                       /\ caller = "rollback" =>
                            After = IF previous = Absent THEN "validate" ELSE "rec_rollback"
                       /\ caller \notin {"restore", "rollback"} => After = "dispatch"
    /\ pc \in {"rec_publishing", "rec_rollback"} => After = "publish"
    /\ pc = "rec_installed" => After = "revoke"
    /\ pc = "revoke" => After = "validate"
    /\ pc = "validate" => After = "reconcile"
    /\ pc = "reconcile" => After = "health"
    /\ pc = "health" => After = IF caller = "restore" THEN "rec_validated" ELSE "reopen"
    /\ pc = "rec_validated" => After = "rec_committed"
    /\ pc = "rec_committed" => After = "reopen"
    /\ pc = "reopen" => After = IF journal = "none" THEN "idle" ELSE "unlink"
    /\ pc = "unlink" => After = "rmtree"
    /\ pc = "rmtree" => After = "idle"
  BY Zenon DEF After

\* A component is published.
LEMMA IPublishStep == ASSUME Data, IInv, Publish PROVE IInv'
<1> USE GenerationAssumption, AfterFacts, CoherentStable
<1> USE DEF Data, IInv, IFirst, IQuiet, ISettled, ISnapshot, IPublish, IPublished,
            ForwardsCoherentState, Forwarding, Quieted, Clean, Whole, disk, network, history
<1>1. CASE Publish
  <2>1. Source' = Source
    BY SMTT(30), <1>1 DEF Publish, Source, FromCandidate
  <2>2. CASE /\ PublishOrder[index] \in Directories /\ live[PublishOrder[index]] # Torn
             /\ live' = [live EXCEPT ![PublishOrder[index]] = Torn]
             /\ UNCHANGED <<pc, index>>
    <3>1. index \in {4, 5}
      BY SMTT(30), <2>2, OrderFacts DEF Directories
    <3>2. \A k \in 1..4 : k < index => live'[PublishOrder[k]] = live[PublishOrder[k]]
      BY SMTT(30), <2>2, <3>1, OrderFacts DEF Component
    <3>3. stale' = stale
      BY SMTT(30), <1>1, <3>1, OrderFacts DEF Publish
    <3>4. QED
      BY <1>1, <2>1, <2>2, <3>2, <3>3 DEF Publish
  <2>3. CASE index < 5 /\ live' = [live EXCEPT ![PublishOrder[index]] = Source]
             /\ index' = index + 1 /\ pc' = pc
    <3>1. \A k \in 1..4 : k < index + 1 => live'[PublishOrder[k]] = Source
      BY SMTT(30), <1>1, <2>3, OrderFacts DEF Publish, Component
    <3>2. stale' <=> caller = "restore"
      <4>1. CASE index = 1
        BY ZenonT(30), <1>1, <4>1, OrderFacts DEF Publish
      <4>2. CASE index > 1
        <5>1. stale' = stale
          BY <1>1, <2>3, <4>2, OrderFacts DEF Publish
        <5>2. QED
          BY <1>1, <4>2, <5>1 DEF Publish
      <4>3. QED
        BY SMTT(30), <4>1, <4>2
    <3>3. QED
      BY SMTT(30), <1>1, <2>1, <2>3, <3>1, <3>2 DEF Publish
  <2>4. CASE /\ index = 5 /\ index' = 1
             /\ \/ live' = [live EXCEPT !["provider_egress"] = Source]
                \/ live' = [live EXCEPT !["provider_egress"] = Absent]
             /\ pc' = IF caller = "restore" THEN "rec_installed" ELSE "validate"
    <3>1. Coherent'
      BY SMTT(30), <1>1, <2>4, OrderFacts DEF Publish, Coherent, Component
    <3>2. stale' <=> caller = "restore"
      BY SMTT(30), <1>1, <2>4, OrderFacts DEF Publish
    <3>3. QED
      BY <1>1, <2>4, <3>1, <3>2 DEF Publish
  <2>5. CASE /\ live' = [live EXCEPT ![PublishOrder[index]] =
                           IF PublishOrder[index] = "provider_egress" /\ FromCandidate
                           THEN Absent ELSE Source]
             /\ index' = IF index = Len(PublishOrder) THEN 1 ELSE index + 1
             /\ pc' = IF index < Len(PublishOrder) THEN pc
                      ELSE IF caller = "restore" THEN "rec_installed" ELSE "validate"
    <3>1. CASE index < 5
      <4>1. PublishOrder[index] # "provider_egress"
        BY SMTT(30), <3>1, OrderFacts
      <4>2. QED
        BY SMTT(30), <2>3, <2>5, <3>1, <4>1, OrderFacts
    <3>2. CASE index = 5
      <4>1. \/ live' = [live EXCEPT !["provider_egress"] = Source]
            \/ live' = [live EXCEPT !["provider_egress"] = Absent]
        BY ZenonT(30), <2>5, <3>2, OrderFacts
      <4>2. QED
        BY SMTT(30), <2>4, <2>5, <3>2, <4>1, OrderFacts
    <3>3. QED
      BY SMTT(90), <3>1, <3>2
  <2>6. QED
    BY <1>1, <2>2, <2>5, ZenonT(30) DEF Publish
<1>2. QED
  BY <1>1, Zenon

\* A leased write replaces the content.
LEMMA IMutateStep == ASSUME Data, IInv, \E g \in Generation : Mutate(g) PROVE IInv'
<1> USE GenerationAssumption, AfterFacts, CoherentStable
<1> USE DEF Data, IInv, IFirst, IQuiet, ISettled, ISnapshot, IPublish, IPublished,
            ForwardsCoherentState, Forwarding, Quieted, Clean, Whole, disk, network, history
<1>1. CASE \E g \in Generation : Mutate(g)
  <2>1. Coherent'
    BY SMTT(30), <1>1 DEF Mutate, Coherent, Component
  <2>2. ~stale'
    BY SMTT(30), <1>1 DEF Mutate
  <2>3. QED
    BY SMTT(30), <1>1, <2>1, <2>2 DEF Mutate
<1>2. QED
  BY <1>1, Zenon

\* A step raises.
LEMMA IRaiseStep == ASSUME Data, IInv, Raise PROVE IInv'
<1> USE GenerationAssumption, AfterFacts, CoherentStable
<1> USE DEF Data, IInv, IFirst, IQuiet, ISettled, ISnapshot, IPublish, IPublished,
            ForwardsCoherentState, Forwarding, Quieted, Clean, Whole, disk, network, history
<1>1. CASE Raise
  <2>1. live' = live /\ (skeleton' <=> skeleton) /\ (stale' => stale)
    BY ZenonT(30), <1>1 DEF Raise, PartialEffect
  <2>2. Clean => Clean'
    BY <2>1, Zenon
  <2>3. journal' \in {"none", "prepared", "committed"} => Clean
    <3>1. CASE pc \in DOMAIN Recorded
      <4>1. pc \notin {"guard", "quiesce", "snapshot", "revoke", "reconcile", "health", "reopen",
                      "unlink"}
        BY <3>1, RecordedFacts, Zenon
      <4>2. journal' \in {journal, Recorded[pc]}
        BY <1>1, <3>1, <4>1, ZenonT(30) DEF Raise, PartialEffect
      <4>3. QED
        BY <3>1, <4>2, RecordedFacts, ZenonT(60)
    <3>2. CASE pc = "unlink"
      BY SMTT(30), <3>2
    <3>3. CASE pc \notin DOMAIN Recorded /\ pc # "unlink"
      <4>1. journal' = journal
        BY ZenonT(30), <1>1, <3>3 DEF Raise, PartialEffect
      <4>2. QED
        BY SMTT(30), <4>1
    <3>4. QED
      BY <3>1, <3>2, <3>3, Zenon
  <2>4. caller \in {"restore", "rollback"} /\ previous' = Absent => Clean
    <3>1. CASE pc = "snapshot"
      BY <3>1, Zenon
    <3>2. CASE pc # "snapshot"
      <4>1. previous' = previous
        BY ZenonT(30), <1>1, <3>2 DEF Raise, PartialEffect
      <4>2. QED
        BY <4>1, Zenon
    <3>3. QED
      BY <3>1, <3>2, Zenon
  <2>5. ingress' /\ ~guard' => Whole
    BY ZenonT(30), <1>1 DEF Raise, PartialEffect
  <2>6. CASE caller = "failed"
    BY <1>1, <2>1, <2>2, <2>3, <2>4, <2>5, <2>6, Zenon DEF Raise, Finish
  <2>7. CASE caller # "failed"
    <3>a. pc' = "raised" /\ caller' = caller /\ skeleton
      BY SMTT(30), <1>1, <2>7, RecordedFacts DEF Raise, Steps
    <3>1. IFirst'
      BY SMTT(30), <2>1, <2>2, <2>3, <2>4, <2>5, <2>7, <3>a
    <3>2. IQuiet'
      BY SMTT(30), <2>1, <2>2, <2>3, <2>4, <2>5, <2>7, <3>a
    <3>3. ISettled'
      BY SMTT(30), <2>1, <2>2, <2>3, <2>4, <2>5, <2>7, <3>a
    <3>4. ISnapshot'
      BY SMTT(30), <2>1, <2>2, <2>3, <2>4, <2>5, <2>7, <3>a
    <3>5. IPublish'
      BY SMTT(30), <2>1, <2>2, <2>3, <2>4, <2>5, <2>7, <3>a
    <3>6. IPublished'
      BY SMTT(30), <2>1, <2>2, <2>3, <2>4, <2>5, <2>7, <3>a
    <3>7. ForwardsCoherentState'
      BY SMTT(30), <2>1, <2>2, <2>3, <2>4, <2>5, <2>7, <3>a
    <3>8. QED
      BY <3>1, <3>2, <3>3, <3>4, <3>5, <3>6, <3>7, ZenonT(60)
  <2>8. QED
    BY <2>6, <2>7, Zenon
<1>2. QED
  BY <1>1, Zenon

\* Every step keeps the invariant.
LEMMA InvStep == ASSUME Data, IInv, [Next]_vars PROVE IInv'
<1> USE GenerationAssumption, AfterFacts, CoherentStable
<1> USE DEF Data, IInv, IFirst, IQuiet, ISettled, ISnapshot, IPublish, IPublished,
            ForwardsCoherentState, Forwarding, Quieted, Clean, Whole, disk, network, history
<1>1. CASE BootProcess
  BY <1>1, Zenon DEF BootProcess
<1>2. CASE RestartWorker
  BY <1>2, Zenon DEF RestartWorker, ProcessEnds
<1>3. CASE Startup
  BY <1>3, Zenon DEF Startup, ProcessEnds
<1>4. CASE Stage
  BY <1>4, Zenon DEF Stage
<1>5. CASE Dispatch
  <2>1. /\ pc' \in {"validate", "stage", "publish"}
        /\ pc' = "validate" => journal \in {"none", "prepared", "committed"}
    BY <1>5, Zenon DEF Dispatch
  <2>2. QED
    BY <1>5, <2>1 DEF Dispatch
<1>6. CASE Prepare
  BY SMTT(30), <1>6 DEF Prepare, Continue
<1>7. CASE Record
  <2>1. IFirst'
    BY <1>7, RecordedFacts, Zenon DEF Record, Continue
  <2>2. IQuiet'
    BY <1>7, RecordedFacts, Zenon DEF Record, Continue
  <2>3. ISettled'
    BY <1>7, RecordedFacts, ZenonT(60) DEF Record, Continue
  <2>4. ISnapshot'
    BY SMTT(30), <1>7, RecordedFacts DEF Record, Continue
  <2>5. IPublish'
    BY <1>7, RecordedFacts DEF Record, Continue
  <2>6. IPublished'
    BY <1>7, RecordedFacts, Zenon DEF Record, Continue
  <2>7. ForwardsCoherentState'
    BY SMTT(30), <1>7, RecordedFacts DEF Record, Continue
  <2>8. QED
    BY <2>1, <2>2, <2>3, <2>4, <2>5, <2>6, <2>7, Zenon
<1>8. CASE Guard
  BY SMTT(30), <1>8 DEF Guard, Continue
<1>9. CASE Quiesce
  <2>1. CASE caller = "failed"
    BY SMTT(30), <1>9, <2>1 DEF Quiesce, Continue, Finish
  <2>2. CASE caller # "failed"
    <3>1. pc' \in {"snapshot", "reset"} /\ caller' = caller
      BY <1>9, <2>2, Zenon DEF Quiesce, Continue, Finish
    <3>2. pc' = "snapshot" <=> caller = "restore"
      BY SMTT(30), <1>9, <2>2 DEF Quiesce, Continue
    <3>3. QED
      BY <1>9, <2>2, <3>1, <3>2, Zenon DEF Quiesce
  <2>3. QED
    BY <2>1, <2>2, Zenon
<1>10. CASE Reset
  BY SMTT(30), <1>10 DEF Reset, Continue
<1>11. CASE Snapshot
  <2>1. previous' # Absent
    BY <1>11, Zenon DEF Snapshot, Validates, Installed
  <2>2. QED
    BY <1>11, <2>1, Zenon DEF Snapshot, Continue
<1>12. CASE Publish
  BY <1>12, IPublishStep, Zenon
<1>13. CASE Revoke
  BY <1>13, Zenon DEF Revoke, Continue
<1>14. CASE Validate
  <2>1. ~Empty
    BY <1>14, ZenonT(60) DEF Validate, Validates, Empty, Component
  <2>2. QED
    BY <1>14, <2>1, Zenon DEF Validate, Continue
<1>15. CASE Reconcile
  <2>1. Coherent'
    BY SMTT(30), <1>15 DEF Reconcile, Installed, Coherent, Component
  <2>2. QED
    BY SMTT(30), <1>15, <2>1 DEF Reconcile, Continue
<1>16. CASE Health
  BY <1>16, Zenon DEF Health, Continue
<1>17. CASE Reopen
  BY SMTT(30), <1>17 DEF Reopen, Continue, Finish
<1>18. CASE Unlink
  BY <1>18, Zenon DEF Unlink, Continue
<1>19. CASE RemoveTree
  BY SMTT(30), <1>19 DEF RemoveTree, Continue, Finish
<1>20. CASE Refuse
  BY SMTT(30), <1>20 DEF Refuse
<1>21. CASE Handle
  BY SMTT(30), <1>21 DEF Handle, ProcessEnds
<1>22. CASE GiveUp
  BY SMTT(30), <1>22 DEF GiveUp, ProcessEnds
<1>23. CASE RestoreRefused
  BY SMTT(30), <1>23 DEF RestoreRefused
<1>24. CASE OperatorRestart
  BY SMTT(30), <1>24 DEF OperatorRestart, ProcessEnds
<1>25. CASE Crash
  BY SMTT(30), <1>25 DEF Crash, ProcessEnds
<1>26. CASE WorkerEnds
  BY SMTT(30), <1>26 DEF WorkerEnds
<1>27. CASE \E g \in Generation : Restore(g)
  BY SMTT(30), <1>27 DEF Restore
<1>28. CASE \E g \in Generation : Mutate(g)
  BY <1>28, IMutateStep, Zenon
<1>29. CASE Raise
  BY <1>29, IRaiseStep, Zenon
<1>30. CASE UNCHANGED vars
  BY SMTT(60), <1>30 DEF vars, Source, FromCandidate
<1>31. QED
  BY ZenonT(30), <1>1, <1>2, <1>3, <1>4, <1>5, <1>6, <1>7, <1>8, <1>9, <1>10, <1>11, <1>12, <1>13,
     <1>14, <1>15, <1>16, <1>17, <1>18, <1>19, <1>20, <1>21, <1>22, <1>23, <1>24, <1>25, <1>26,
     <1>27, <1>28, <1>29, <1>30 DEF Next, Progress
----------------------------------------------------------------------------
LEMMA Invariance == Spec => []Inv
<1>1. Init => Inv
  BY InitInv, Zenon
<1>2. Inv /\ [Next]_vars => Inv'
  <2> SUFFICES ASSUME Inv, [Next]_vars PROVE Inv'
    BY Zenon
  <2>1. Flags' /\ Data'
    BY TypeHalves, FlagsStep, DataStep, Zenon DEF Inv
  <2>2. TypeOK'
    BY <2>1, OrderFacts, Zenon DEF TypeOK, Flags, Data
  <2>3. IInv'
    BY TypeHalves, InvStep, Zenon DEF Inv
  <2>4. QED
    BY <2>2, <2>3, Zenon DEF Inv
<1>3. QED
  BY <1>1, <1>2, PTL DEF Spec

\* Every variable of the coordinator keeps its type, whatever fails or is cut.
THEOREM TypeCorrect == Spec => []TypeOK
<1>1. Inv => TypeOK
  BY Zenon DEF Inv
<1>2. QED
  BY <1>1, Invariance, PTL

\* Whatever fails or is cut, _publish replaces components of the live pair only
\* while the worker is reaped, the interface is gone and the table is armed.
THEOREM PublicationIsQuiesced == Spec => []PublishIsQuiesced
<1>1. Inv => PublishIsQuiesced
  BY Zenon DEF Inv, IInv, IQuiet, Quieted, PublishIsQuiesced
<1>2. QED
  BY <1>1, Invariance, PTL

\* Whatever fails or is cut, an ingress that no maintenance table covers serves a
\* coherent pair from which the restored sessions are gone.
THEOREM ForwardingIsCoherent == Spec => []ForwardsCoherentState
<1>1. Inv => ForwardsCoherentState
  BY Zenon DEF Inv, IInv
<1>2. QED
  BY <1>1, Invariance, PTL
----------------------------------------------------------------------------
(* What the receipts say of the volume's contents. *)

FreshOnly == origin = Fresh /\ target = Fresh /\ shown = Fresh

\* A first start works on the staged empty pair, before and under its receipt.
RFirst ==
    /\ ~skeleton => journal = "none" /\ FreshOnly
    /\ pc = "rec_preparing" => journal = "none" /\ FreshOnly
    /\ journal \in InitPhases => FreshOnly /\ caller \in {"none", "startup"}
    /\ pc \in {"stage", "rec_ready"} => journal = "init_preparing"
    /\ pc = "rec_ready" \/ journal = "init_ready" => candidate = Fresh
    /\ pc = "publish" => journal # "init_preparing"

\* A receipt that keeps the live pair says which content that is, and every later
\* one has a snapshot, complete or torn, of the content before the restore.
RSettled ==
    /\ journal = "none" => Empty \/ Installed = shown
    /\ journal = "prepared" => Installed = origin
    /\ journal = "committed" => Installed = target
    /\ journal \in RestorePhases => /\ previous \in {Absent, Torn, origin}
                                    /\ origin \in Generation /\ target \in Generation
    /\ journal \in RestorePhases \ {"prepared"} => previous # Absent

\* The receipts that each call can meet.
RPrepare ==
    /\ pc = "idle" => journal \in {"none", "prepared"} /\ Whole /\ caller = "none"
    /\ pc \in {"prepare", "rec_prepared"} => caller = "prepare" /\ journal = "none"
    /\ caller = "prepare" =>
         /\ pc \in {"prepare", "rec_prepared", "raised"} /\ Whole
         /\ journal \in {"none", "prepared"} /\ previous = Absent
         /\ Installed = origin /\ (journal = "none" => origin = shown)
         /\ origin \in Generation /\ target \in Generation
    /\ caller \in {"prepare", "restore"} => candidate = target

\* The steps from the validation of the live pair to its reopening.
Opening == {"validate", "reconcile", "health", "rec_validated", "rec_committed", "reopen"}

RCalls ==
    /\ caller \in {"restore", "rollback"} /\ pc \notin {"rmtree", "raised"}
          => journal \in RestorePhases
    /\ caller = "restore" /\ pc \in {"guard", "quiesce", "snapshot", "rec_snapshot"}
          => journal = "prepared"
    /\ pc \in {"rec_publishing", "rec_installed", "revoke", "rec_validated", "rec_committed"}
          => caller = "restore"
    /\ pc = "rec_rollback" => caller = "rollback"
    /\ pc = "publish" => caller \in {"startup", "restore", "rollback"}
    /\ caller = "restore" /\ pc \in Opening => previous # Absent

\* What is about to be reopened, and what was, is one of the contents the receipt allows.
RServes ==
    /\ pc \in Opening \cup {"unlink", "rmtree"} =>
         /\ caller \in {"startup", "restore", "rollback"}
         /\ caller = "restore" => Installed = target
         /\ caller = "rollback" => Installed = origin
    /\ pc \in {"rec_installed", "revoke"} => Installed = target
    /\ pc \in Opening => Empty \/ Installed \in Choices
    /\ pc = "unlink" => ready /\ shown = Installed
    /\ pc = "rmtree" => journal = "none"

RInv == RFirst /\ RSettled /\ RPrepare /\ RCalls /\ RServes

\* A content that is whole is that of a generation.
LEMMA WholeInstalled == Coherent => Installed \in Generation /\ ~Empty
  BY GenerationAssumption, Zenon DEF Coherent, Installed, Empty, Component

LEMMA InstalledStable ==
    ASSUME live' = live
    PROVE  Installed' = Installed /\ (Coherent' <=> Coherent) /\ (Empty' <=> Empty)
  BY CoherentStable, Zenon DEF Installed

LEMMA RInit == Init => RInv
<1> SUFFICES ASSUME Init PROVE RInv
  BY Zenon
<1> USE DEF Init
<1>1. RFirst
  BY Zenon DEF RFirst, FreshOnly, InitPhases
<1>2. RSettled
  BY Zenon DEF RSettled, Empty, Installed, RestorePhases, Component
<1>3. RPrepare /\ RCalls
  BY Zenon DEF RPrepare, RCalls
<1>4. RServes
  BY Zenon DEF RServes, Opening
<1>5. QED
  BY <1>1, <1>2, <1>3, <1>4, Zenon DEF RInv

\* What a step that raises leaves alone, and what it may have done already.
LEMMA RaiseFacts ==
    ASSUME Raise
    PROVE  /\ live' = live /\ candidate' = candidate /\ (skeleton' <=> skeleton)
           /\ (stale' => stale) /\ UNCHANGED history /\ (ready' = ready \/ ready' = FALSE)
           /\ journal' = journal
              \/ /\ "late_raise" \in Faults
                 /\ \/ pc \in DOMAIN Recorded /\ journal' = Recorded[pc]
                    \/ pc = "unlink" /\ journal' = "none"
           /\ previous' = previous
              \/ /\ pc = "snapshot"
                 /\ previous' = Absent \/ (previous' = Torn /\ "torn_snapshot" \in Faults)
           /\ caller # "failed" => pc' = "raised" /\ caller' = caller /\ outcome' = outcome
           /\ caller = "failed" => pc' = After /\ Finish
<1> USE DEF Raise, disk, network, history
<1>1. live' = live /\ candidate' = candidate /\ (skeleton' <=> skeleton) /\ (stale' => stale)
  BY ZenonT(30), RecordedFacts DEF PartialEffect
<1>2. ready' = ready \/ ready' = FALSE
  BY ZenonT(30), RecordedFacts DEF PartialEffect
<1>3. journal' = journal
      \/ /\ "late_raise" \in Faults
         /\ \/ pc \in DOMAIN Recorded /\ journal' = Recorded[pc]
            \/ pc = "unlink" /\ journal' = "none"
  BY ZenonT(30), RecordedFacts DEF PartialEffect
<1>4. previous' = previous
      \/ /\ pc = "snapshot"
         /\ previous' = Absent \/ (previous' = Torn /\ "torn_snapshot" \in Faults)
  BY ZenonT(30), RecordedFacts DEF PartialEffect
<1>5. QED
  BY <1>1, <1>2, <1>3, <1>4, Zenon

\* How startup begins keeps what the receipts say.
LEMMA RStartSteps ==
    ASSUME Data, IInv, RInv, BootProcess \/ RestartWorker \/ Startup \/ Stage \/ Dispatch \/ Prepare
    PROVE  RInv'
<1>1. CASE BootProcess
  <2>1. RFirst'
    BY <1>1, InstalledStable, Zenon DEF BootProcess, RInv, RFirst, FreshOnly, InitPhases, disk,
       network, history
  <2>2. RSettled'
    BY <1>1, InstalledStable, Zenon DEF BootProcess, RInv, RSettled, RestorePhases, disk,
       network, history
  <2>3. RPrepare'
    BY <1>1, InstalledStable, Zenon DEF BootProcess, RPrepare, Whole, disk, network, history
  <2>4. RCalls'
    BY <1>1, InstalledStable, Zenon DEF BootProcess, RCalls, Opening, RestorePhases, disk,
       network, history
  <2>5. RServes'
    BY <1>1, InstalledStable, Zenon DEF BootProcess, RServes, Opening, Choices, disk, network,
       history
  <2>6. QED
    BY <2>1, <2>2, <2>3, <2>4, <2>5, Zenon DEF RInv
<1>2. CASE RestartWorker
  <2>1. RFirst'
    BY <1>2, InstalledStable, Zenon DEF RestartWorker, ProcessEnds, RInv, RFirst, FreshOnly,
       InitPhases, disk, network, history
  <2>2. RSettled'
    BY <1>2, InstalledStable, Zenon DEF RestartWorker, ProcessEnds, RInv, RSettled,
       RestorePhases, disk, network, history
  <2>3. RPrepare'
    BY <1>2, InstalledStable, Zenon DEF RestartWorker, ProcessEnds, RPrepare, Whole, disk,
       network, history
  <2>4. RCalls'
    BY <1>2, InstalledStable, Zenon DEF RestartWorker, ProcessEnds, RCalls, Opening,
       RestorePhases, disk, network, history
  <2>5. RServes'
    BY <1>2, InstalledStable, Zenon DEF RestartWorker, ProcessEnds, RServes, Opening, Choices,
       disk, network, history
  <2>6. QED
    BY <2>1, <2>2, <2>3, <2>4, <2>5, Zenon DEF RInv
<1>3. CASE Startup
  <2>1. RFirst'
    BY <1>3, InstalledStable, Zenon DEF Startup, ProcessEnds, RInv, RFirst, FreshOnly,
       InitPhases, disk, network, history
  <2>2. RSettled'
    BY <1>3, InstalledStable, Zenon DEF Startup, RInv, RSettled, RestorePhases, disk, network,
       history
  <2>3. RPrepare'
    BY <1>3, InstalledStable, Zenon DEF Startup, ProcessEnds, RInv, RPrepare, Whole, disk,
       network, history
  <2>4. RCalls'
    BY <1>3, Zenon DEF Startup, ProcessEnds, RCalls, IInv, IFirst
  <2>5. RServes'
    BY <1>3, InstalledStable, Zenon DEF Startup, ProcessEnds, RServes, Opening, Choices, disk,
       network, history
  <2>6. QED
    BY <2>1, <2>2, <2>3, <2>4, <2>5, Zenon DEF RInv
<1>4. CASE Stage
  <2>1. RFirst'
    BY <1>4, InstalledStable, AfterFacts, Zenon DEF Stage, RInv, RFirst, FreshOnly, InitPhases,
       Opening, RestorePhases, disk, network, history
  <2>2. RSettled'
    BY <1>4, InstalledStable, Zenon DEF Stage, RInv, RSettled, RestorePhases, disk, network,
       history
  <2>3. RPrepare'
    BY <1>4, AfterFacts, Zenon DEF Stage, RInv, RFirst, RPrepare, InitPhases
  <2>4. RCalls'
    BY <1>4, InstalledStable, AfterFacts, Zenon DEF Stage, RInv, RCalls, Opening, RestorePhases,
       disk, network, history
  <2>5. RServes'
    BY <1>4, InstalledStable, AfterFacts, Zenon DEF Stage, RServes, Opening, Choices,
       RestorePhases, disk, network, history
  <2>6. QED
    BY <2>1, <2>2, <2>3, <2>4, <2>5, Zenon DEF RInv
<1>5. CASE Dispatch
  <2>1. RFirst'
    BY <1>5, InstalledStable, Zenon DEF Dispatch, RInv, RFirst, FreshOnly, InitPhases, disk,
       network, history
  <2>2. RSettled'
    BY <1>5, InstalledStable, Zenon DEF Dispatch, RInv, RSettled, RestorePhases, disk, network,
       history
  <2>3. RPrepare'
    BY <1>5, InstalledStable, Zenon DEF Dispatch, RInv, RPrepare, Whole, disk, network, history
  <2>4. RCalls'
    BY <1>5, Zenon DEF Dispatch, RCalls, IInv, IFirst
  <2>5. RServes'
    BY <1>5, InstalledStable, Zenon DEF Dispatch, IInv, IFirst, RInv, RSettled, RServes,
       Opening, Choices, disk, history
  <2>6. QED
    BY <2>1, <2>2, <2>3, <2>4, <2>5, Zenon DEF RInv
<1>6. CASE Prepare
  <2>1. RFirst'
    BY <1>6, AfterFacts, Zenon DEF Prepare, Continue, RInv, RFirst, FreshOnly, disk, history
  <2>2. RSettled'
    BY <1>6, InstalledStable, Zenon DEF Prepare, RInv, RSettled, RestorePhases, disk, network,
       history
  <2>3. RPrepare'
    BY <1>6, InstalledStable, AfterFacts, Zenon DEF Prepare, Continue, RInv, RPrepare, Whole,
       Opening, RestorePhases, disk, network, history
  <2>4. RCalls'
    BY <1>6, InstalledStable, AfterFacts, Zenon DEF Prepare, Continue, RInv, RCalls, Opening,
       RestorePhases, disk, network, history
  <2>5. RServes'
    BY <1>6, InstalledStable, AfterFacts, Zenon DEF Prepare, Continue, RServes, Opening,
       Choices, RestorePhases, disk, network, history
  <2>6. QED
    BY <2>1, <2>2, <2>3, <2>4, <2>5, Zenon DEF RInv
<1>7. QED
  BY <1>1, <1>2, <1>3, <1>4, <1>5, <1>6, Zenon

\* A receipt is recorded.
LEMMA RRecordStep ==
    ASSUME Data, IInv, RInv, Record
    PROVE  RInv'
<1>1. CASE Record
  <2>1. RFirst'
    BY <1>1, RecordedFacts, AfterFacts DEF Record, Continue, IInv, IFirst, RInv, RFirst,
       FreshOnly, history, InitPhases
  <2>2. RSettled'
    BY <1>1, RecordedFacts, InstalledStable DEF Record, IInv, IFirst, ISnapshot, RInv, RSettled,
       RPrepare, RCalls, RServes, Opening, history, RestorePhases
  <2>3. RPrepare'
    BY <1>1, RecordedFacts, AfterFacts DEF Record, Continue, RInv, RPrepare, history
  <2>4. RCalls'
    BY <1>1, RecordedFacts, AfterFacts DEF Record, Continue, IInv, IFirst, RInv, RCalls,
       Opening, RestorePhases
  <2>5. RServes'
    BY <1>1, RecordedFacts, AfterFacts, InstalledStable DEF Record, Continue, RInv, RCalls,
       RServes, Opening, Choices, history
  <2>6. QED
    BY <2>1, <2>2, <2>3, <2>4, <2>5, Zenon DEF RInv
<1>2. QED
  BY <1>1, Zenon

\* The live pair is made quiet and copied.
LEMMA RQuietSteps ==
    ASSUME Data, IInv, RInv, Guard \/ Quiesce \/ Reset \/ Snapshot
    PROVE  RInv'
<1>1. CASE Guard
  <2>1. RFirst'
    BY <1>1, AfterFacts, Zenon DEF Guard, Continue, RInv, RFirst, FreshOnly, disk, history
  <2>2. RSettled'
    BY <1>1, InstalledStable, Zenon DEF Guard, RInv, RSettled, RestorePhases, disk, network,
       history
  <2>3. RPrepare'
    BY <1>1, InstalledStable, AfterFacts, Zenon DEF Guard, Continue, RInv, RPrepare, Whole,
       Opening, RestorePhases, disk, network, history
  <2>4. RCalls'
    BY <1>1, InstalledStable, AfterFacts, Zenon DEF Guard, Continue, RInv, RCalls, Opening,
       RestorePhases, disk, network, history
  <2>5. RServes'
    BY <1>1, InstalledStable, AfterFacts, Zenon DEF Guard, Continue, RServes, Opening, Choices,
       RestorePhases, disk, network, history
  <2>6. QED
    BY <2>1, <2>2, <2>3, <2>4, <2>5, Zenon DEF RInv
<1>2. CASE Quiesce
  <2>1. RFirst'
    BY <1>2, AfterFacts, Zenon DEF Quiesce, Continue, Finish, RInv, RFirst, FreshOnly, disk,
       history
  <2>2. RSettled'
    BY <1>2, InstalledStable, Zenon DEF Quiesce, RInv, RSettled, RestorePhases, disk, network,
       history
  <2>3. RPrepare'
    BY <1>2, AfterFacts, Zenon DEF Quiesce, Continue, Finish, RInv, RPrepare, disk, history
  <2>4. RCalls'
    BY <1>2, InstalledStable, AfterFacts, Zenon DEF Quiesce, Continue, Finish, RInv, RCalls,
       Opening, RestorePhases, disk, network, history
  <2>5. RServes'
    BY <1>2, InstalledStable, AfterFacts, Zenon DEF Quiesce, Continue, RInv, RServes, Opening,
       Choices, RestorePhases, disk, network, history
  <2>6. QED
    BY <2>1, <2>2, <2>3, <2>4, <2>5, Zenon DEF RInv
<1>3. CASE Reset
  <2>1. RFirst'
    BY <1>3, AfterFacts, Zenon DEF Reset, Continue, RInv, RFirst, FreshOnly, disk, history
  <2>2. RSettled'
    BY <1>3, InstalledStable, Zenon DEF Reset, RInv, RSettled, RestorePhases, disk, network,
       history
  <2>3. RPrepare'
    BY <1>3, InstalledStable, AfterFacts, Zenon DEF Reset, Continue, RInv, RPrepare, Whole,
       Opening, RestorePhases, disk, network, history
  <2>4. RCalls'
    BY <1>3, InstalledStable, AfterFacts, Zenon DEF Reset, Continue, RInv, RCalls, Opening,
       RestorePhases, disk, network, history
  <2>5. RServes'
    BY <1>3, InstalledStable, AfterFacts, Zenon DEF Reset, Continue, RInv, RSettled, RCalls,
       RServes, Opening, Choices, disk, history
  <2>6. QED
    BY <2>1, <2>2, <2>3, <2>4, <2>5, Zenon DEF RInv
<1>4. CASE Snapshot
  <2>1. RFirst'
    BY <1>4, AfterFacts, Zenon DEF Snapshot, Continue, RInv, RFirst, FreshOnly, history
  <2>2. RSettled'
    BY <1>4, InstalledStable, Zenon DEF Snapshot, IInv, IFirst, RInv, RSettled, RCalls, history
  <2>3. RPrepare'
    BY <1>4, InstalledStable, AfterFacts, Zenon DEF Snapshot, Continue, RInv, RPrepare, Whole,
       Opening, RestorePhases, disk, network, history
  <2>4. RCalls'
    BY <1>4, InstalledStable, AfterFacts, Zenon DEF Snapshot, Continue, RInv, RCalls, Opening,
       RestorePhases, disk, network, history
  <2>5. RServes'
    BY <1>4, InstalledStable, AfterFacts, Zenon DEF Snapshot, Continue, RServes, Opening,
       Choices, RestorePhases, disk, network, history
  <2>6. QED
    BY <2>1, <2>2, <2>3, <2>4, <2>5, Zenon DEF RInv
<1>5. QED
  BY <1>1, <1>2, <1>3, <1>4, Zenon

\* A component is published.
LEMMA RPublishStep ==
    ASSUME Data, IInv, RInv, Publish
    PROVE  RInv'
<1>1. CASE Publish
  <2>1. ASSUME pc' # "publish" PROVE Installed' = Source /\ pc' \in {"rec_installed", "validate"}
                                     /\ (caller = "restore" <=> pc' = "rec_installed")
    <3>1. index = 5 /\ PublishOrder[index] = "provider_egress"
      BY <1>1, <2>1, OrderFacts DEF Publish, Data
    <3>2. live["database"] = Source
      BY <1>1, <3>1, OrderFacts DEF Publish, IInv, IPublish
    <3>3. live'["database"] = live["database"]
      BY <1>1, <3>1, Zenon DEF Publish, Component, Data, disk, network, history
    <3>4. QED
      BY <1>1, <2>1, <3>1, <3>2, <3>3, OrderFacts, Zenon DEF Publish, Installed, network,
         history
  <2>2. RFirst'
    BY <1>1, <2>1 DEF Publish, RInv, RFirst, FreshOnly, history
  <2>3. RSettled'
    BY <1>1, <2>1, Zenon DEF Publish, RInv, RSettled, IInv, ISettled, history
  <2>4. RPrepare'
    BY <1>1, <2>1, InstalledStable, Zenon DEF Publish, RInv, RPrepare, Whole, disk, network,
       history
  <2>5. RCalls'
    BY <1>1, <2>1, InstalledStable, Zenon DEF Publish, RInv, RCalls, Opening, RestorePhases,
       disk, network, history
  <2>6. RServes'
    <3>1. CASE pc' = "publish"
      BY <3>1, InstalledStable, AfterFacts, Zenon DEF RPrepare, RCalls, RServes, Opening,
         RestorePhases, InitPhases, Whole, disk, network, history
    <3>2. CASE pc' # "publish"
      <4>1. caller = "restore" => Source = target
        BY <1>1, Zenon DEF Source, FromCandidate, RInv, RPrepare
      <4>2. caller # "restore" => Source = origin
        BY <1>1, GenerationAssumption, Zenon DEF Publish, Source, FromCandidate, Data, Phases,
           IInv, ISettled, RInv, RFirst, RSettled, FreshOnly, InitPhases
      <4>3. QED
        BY <1>1, <2>1, <3>2, <4>1, <4>2, Zenon DEF Publish, IInv, ISettled, RInv, RCalls,
           RServes, Choices, history
    <3>3. QED
      BY <3>1, <3>2, Zenon
  <2>7. QED
    BY <2>2, <2>3, <2>4, <2>5, <2>6, Zenon DEF RInv
<1>2. QED
  BY <1>1, Zenon

\* The live pair is validated.
LEMMA ROpenSteps ==
    ASSUME Data, IInv, RInv, Revoke \/ Validate \/ Reconcile \/ Health
    PROVE  RInv'
<1>1. CASE Revoke
  <2>1. RFirst'
    BY <1>1, AfterFacts, Zenon DEF Revoke, Continue, RInv, RFirst, FreshOnly, history
  <2>2. RSettled'
    BY <1>1, InstalledStable, Zenon DEF Revoke, RInv, RSettled, RestorePhases, disk, network,
       history
  <2>3. RPrepare'
    BY <1>1, InstalledStable, AfterFacts, Zenon DEF Revoke, Continue, RInv, RPrepare, Whole,
       Opening, RestorePhases, disk, network, history
  <2>4. RCalls'
    BY <1>1, AfterFacts, Zenon DEF Revoke, Continue, IInv, ISnapshot, RInv, RCalls
  <2>5. RServes'
    BY <1>1, InstalledStable, AfterFacts, Zenon DEF Revoke, Continue, RInv, RCalls, RServes,
       Choices, RestorePhases, history
  <2>6. QED
    BY <2>1, <2>2, <2>3, <2>4, <2>5, Zenon DEF RInv
<1>2. CASE Validate
  <2>1. RFirst'
    BY <1>2, AfterFacts, Zenon DEF Validate, Continue, RInv, RFirst, FreshOnly, disk, history
  <2>2. RSettled'
    BY <1>2, InstalledStable, Zenon DEF Validate, RInv, RSettled, RestorePhases, disk, network,
       history
  <2>3. RPrepare'
    BY <1>2, InstalledStable, AfterFacts, Zenon DEF Validate, Continue, RInv, RPrepare, Whole,
       Opening, RestorePhases, disk, network, history
  <2>4. RCalls'
    BY <1>2, InstalledStable, AfterFacts, Zenon DEF Validate, Continue, RInv, RCalls, Opening,
       RestorePhases, disk, network, history
  <2>5. RServes'
    BY <1>2, InstalledStable, AfterFacts, Zenon DEF Validate, Continue, RInv, RServes, Opening,
       Choices, RestorePhases, disk, network, history
  <2>6. QED
    BY <2>1, <2>2, <2>3, <2>4, <2>5, Zenon DEF RInv
<1>3. CASE Reconcile
  <2>1. Whole /\ guard
    BY <1>3, Zenon DEF Reconcile, IInv, IPublished, disk, network, history
  <2>2. Coherent' /\ Installed' = Installed
    BY <1>3 DEF Reconcile, Installed, Coherent, Component, IInv, IPublished, Whole
  <2>3. RFirst'
    BY <1>3, <2>1, <2>2, AfterFacts, Zenon DEF Reconcile, Continue, RInv, RFirst, FreshOnly,
       history
  <2>4. RSettled'
    BY <1>3, <2>1, <2>2, WholeInstalled, Zenon DEF Reconcile, RInv, RSettled, Whole, history
  <2>5. RPrepare'
    BY <1>3, <2>1, <2>2, AfterFacts, Zenon DEF Reconcile, Continue, RInv, RPrepare, history
  <2>6. RCalls'
    BY <1>3, <2>1, <2>2, AfterFacts, Zenon DEF Reconcile, Continue, RInv, RCalls, Opening
  <2>7. RServes'
    BY <1>3, <2>1, <2>2, AfterFacts, WholeInstalled, Zenon DEF Reconcile, Continue, RInv,
       RServes, Opening, Choices, Whole, history
  <2>8. QED
    BY <2>3, <2>4, <2>5, <2>6, <2>7, Zenon DEF RInv
<1>4. CASE Health
  <2>1. RFirst'
    BY <1>4, AfterFacts, Zenon DEF Health, Continue, RInv, RFirst, FreshOnly, disk, history
  <2>2. RSettled'
    BY <1>4, InstalledStable, Zenon DEF Health, RInv, RSettled, RestorePhases, disk, network,
       history
  <2>3. RPrepare'
    BY <1>4, InstalledStable, AfterFacts, Zenon DEF Health, Continue, RInv, RPrepare, Whole,
       Opening, RestorePhases, disk, network, history
  <2>4. RCalls'
    BY <1>4, InstalledStable, AfterFacts, Zenon DEF Health, Continue, RInv, RCalls, Opening,
       RestorePhases, disk, network, history
  <2>5. RServes'
    BY <1>4, InstalledStable, AfterFacts, Zenon DEF Health, Continue, RInv, RServes, Opening,
       Choices, RestorePhases, disk, network, history
  <2>6. QED
    BY <2>1, <2>2, <2>3, <2>4, <2>5, Zenon DEF RInv
<1>5. QED
  BY <1>1, <1>2, <1>3, <1>4, Zenon

\* The call ends.
LEMMA REndSteps ==
    ASSUME Data, IInv, RInv, Reopen \/ Unlink \/ RemoveTree
    PROVE  RInv'
<1>1. CASE Reopen
  <2>1. Whole /\ shown' = Installed
    BY <1>1, Zenon DEF Reopen, Visible, IInv, IPublished, Whole
  <2>2. RFirst'
    BY <1>1, <2>1, AfterFacts, WholeInstalled, Zenon DEF Reopen, Continue, Finish, RInv, RFirst,
       RServes, FreshOnly, Opening, Choices, Whole, disk
  <2>3. RSettled'
    BY <1>1, <2>1, InstalledStable, Zenon DEF Reopen, RInv, RSettled, RestorePhases, disk,
       network, history
  <2>4. RPrepare'
    BY <1>1, <2>1, InstalledStable, AfterFacts, Zenon DEF Reopen, Continue, Finish, RInv,
       RPrepare, Whole, disk
  <2>5. RCalls'
    BY <1>1, <2>1, AfterFacts, Zenon DEF Reopen, Continue, Finish, RInv, RCalls, Opening, disk
  <2>6. RServes'
    BY <1>1, <2>1, InstalledStable, AfterFacts, Zenon DEF Reopen, Continue, Finish, RInv,
       RServes, Opening, disk
  <2>7. QED
    BY <2>2, <2>3, <2>4, <2>5, <2>6, Zenon DEF RInv
<1>2. CASE Unlink
  <2>1. RFirst'
    BY <1>2, AfterFacts, Zenon DEF Unlink, Continue, RInv, RFirst, FreshOnly, InitPhases,
       history
  <2>2. RSettled'
    BY <1>2, InstalledStable, Zenon DEF Unlink, RInv, RSettled, RServes, RestorePhases, history
  <2>3. RPrepare'
    BY <1>2, InstalledStable, AfterFacts, Zenon DEF Unlink, Continue, RInv, RPrepare, Whole,
       Opening, RestorePhases, disk, network, history
  <2>4. RCalls'
    BY <1>2, InstalledStable, AfterFacts, Zenon DEF Unlink, Continue, RCalls, Opening,
       RestorePhases, disk, network, history
  <2>5. RServes'
    BY <1>2, InstalledStable, AfterFacts, Zenon DEF Unlink, Continue, RInv, RServes, Opening,
       Choices, RestorePhases, disk, network, history
  <2>6. QED
    BY <2>1, <2>2, <2>3, <2>4, <2>5, Zenon DEF RInv
<1>3. CASE RemoveTree
  <2>1. RFirst'
    BY <1>3, AfterFacts, Zenon DEF RemoveTree, Continue, RInv, RFirst, RServes, FreshOnly,
       InitPhases, history
  <2>2. RSettled'
    BY <1>3, InstalledStable, Zenon DEF RemoveTree, RInv, RSettled, RServes, RestorePhases,
       history
  <2>3. RPrepare'
    BY <1>3, InstalledStable, AfterFacts, Zenon DEF RemoveTree, Continue, Finish, IInv,
       IPublished, RInv, RPrepare, RServes, Whole
  <2>4. RCalls'
    BY <1>3, InstalledStable, AfterFacts, Zenon DEF RemoveTree, Continue, Finish, RInv, RCalls,
       Opening, RestorePhases, disk, network, history
  <2>5. RServes'
    BY <1>3, InstalledStable, AfterFacts, Zenon DEF RemoveTree, Continue, RInv, RServes,
       Opening, Choices, RestorePhases, disk, network, history
  <2>6. QED
    BY <2>1, <2>2, <2>3, <2>4, <2>5, Zenon DEF RInv
<1>4. QED
  BY <1>1, <1>2, <1>3, Zenon

\* The process ends, or an error is handled.
LEMMA RHandleSteps ==
    ASSUME Data, IInv, RInv, Refuse \/ Handle \/ GiveUp \/ RestoreRefused \/ OperatorRestart \/ Crash
    PROVE  RInv'
<1>1. CASE Refuse
  <2>1. RFirst'
    BY <1>1, InstalledStable, Zenon DEF Refuse, RInv, RFirst, FreshOnly, InitPhases, disk,
       network, history
  <2>2. RSettled'
    BY <1>1, InstalledStable, Zenon DEF Refuse, RInv, RSettled, RestorePhases, disk, network,
       history
  <2>3. RPrepare'
    BY <1>1, InstalledStable, Zenon DEF Refuse, RInv, RPrepare, Whole, disk, network, history
  <2>4. RCalls'
    BY <1>1, InstalledStable, Zenon DEF Refuse, RCalls, Opening, RestorePhases, disk, network,
       history
  <2>5. RServes'
    BY <1>1, InstalledStable, Zenon DEF Refuse, RServes, Opening, Choices, disk, network,
       history
  <2>6. QED
    BY <2>1, <2>2, <2>3, <2>4, <2>5, Zenon DEF RInv
<1>2. CASE Handle
  <2>1. RFirst'
    BY <1>2, InstalledStable, Zenon DEF Handle, ProcessEnds, RInv, RFirst, FreshOnly,
       InitPhases, disk, network, history
  <2>2. RSettled'
    BY <1>2, InstalledStable, Zenon DEF Handle, ProcessEnds, RInv, RSettled, RPrepare,
       RestorePhases, disk, history
  <2>3. RPrepare'
    BY <1>2, InstalledStable DEF Handle, ProcessEnds, RInv, RPrepare, Whole
  <2>4. RCalls'
    BY <1>2, Zenon DEF Handle, ProcessEnds, Data, Phases, RInv, RFirst, RCalls, disk
  <2>5. RServes'
    BY <1>2, InstalledStable, Zenon DEF Handle, ProcessEnds, RServes, Opening, Choices, disk,
       network, history
  <2>6. QED
    BY <2>1, <2>2, <2>3, <2>4, <2>5, Zenon DEF RInv
<1>3. CASE GiveUp
  <2>1. RFirst'
    BY <1>3, InstalledStable, Zenon DEF GiveUp, ProcessEnds, RInv, RFirst, FreshOnly,
       InitPhases, disk, network, history
  <2>2. RSettled'
    BY <1>3, InstalledStable, Zenon DEF GiveUp, ProcessEnds, RInv, RSettled, RestorePhases,
       disk, network, history
  <2>3. RPrepare'
    BY <1>3, InstalledStable, Zenon DEF GiveUp, ProcessEnds, RPrepare, Whole, disk, network,
       history
  <2>4. RCalls'
    BY <1>3, InstalledStable, Zenon DEF GiveUp, ProcessEnds, RCalls, Opening, RestorePhases,
       disk, network, history
  <2>5. RServes'
    BY <1>3, InstalledStable, Zenon DEF GiveUp, ProcessEnds, RServes, Opening, Choices, disk,
       network, history
  <2>6. QED
    BY <2>1, <2>2, <2>3, <2>4, <2>5, Zenon DEF RInv
<1>4. CASE RestoreRefused
  <2>1. RFirst'
    BY <1>4, WholeInstalled, Zenon DEF RestoreRefused, RInv, RFirst, RSettled, RPrepare,
       FreshOnly, Whole, disk
  <2>2. RSettled'
    BY <1>4, InstalledStable, Zenon DEF RestoreRefused, RInv, RSettled, RPrepare, RestorePhases,
       disk
  <2>3. RPrepare'
    BY <1>4, InstalledStable, Zenon DEF RestoreRefused, RInv, RPrepare, Whole, disk, network,
       history
  <2>4. RCalls'
    BY <1>4, InstalledStable, Zenon DEF RestoreRefused, RInv, RCalls, Opening, RestorePhases,
       disk, network, history
  <2>5. RServes'
    BY <1>4, InstalledStable, Zenon DEF RestoreRefused, RServes, Opening, Choices, disk,
       network, history
  <2>6. QED
    BY <2>1, <2>2, <2>3, <2>4, <2>5, Zenon DEF RInv
<1>5. CASE OperatorRestart
  <2>1. RFirst'
    BY <1>5, InstalledStable, Zenon DEF OperatorRestart, ProcessEnds, RInv, RFirst, FreshOnly,
       InitPhases, disk, network, history
  <2>2. RSettled'
    BY <1>5, InstalledStable, Zenon DEF OperatorRestart, ProcessEnds, RInv, RSettled,
       RestorePhases, disk, network, history
  <2>3. RPrepare'
    BY <1>5, InstalledStable, Zenon DEF OperatorRestart, ProcessEnds, RPrepare, Whole, disk,
       network, history
  <2>4. RCalls'
    BY <1>5, InstalledStable, Zenon DEF OperatorRestart, ProcessEnds, RCalls, Opening,
       RestorePhases, disk, network, history
  <2>5. RServes'
    BY <1>5, InstalledStable, Zenon DEF OperatorRestart, ProcessEnds, RServes, Opening, Choices,
       disk, network, history
  <2>6. QED
    BY <2>1, <2>2, <2>3, <2>4, <2>5, Zenon DEF RInv
<1>6. CASE Crash
  <2>1. RFirst'
    BY <1>6, InstalledStable, Zenon DEF Crash, ProcessEnds, RInv, RFirst, FreshOnly, InitPhases,
       disk, network, history
  <2>2. RSettled'
    BY <1>6, InstalledStable, Zenon DEF Crash, ProcessEnds, RInv, RSettled, RestorePhases, disk,
       network, history
  <2>3. RPrepare'
    BY <1>6, InstalledStable, Zenon DEF Crash, ProcessEnds, RPrepare, Whole, disk, network,
       history
  <2>4. RCalls'
    BY <1>6, InstalledStable, Zenon DEF Crash, ProcessEnds, RCalls, Opening, RestorePhases,
       disk, network, history
  <2>5. RServes'
    BY <1>6, InstalledStable, Zenon DEF Crash, ProcessEnds, RServes, Opening, Choices, disk,
       network, history
  <2>6. QED
    BY <2>1, <2>2, <2>3, <2>4, <2>5, Zenon DEF RInv
<1>7. QED
  BY <1>1, <1>2, <1>3, <1>4, <1>5, <1>6, Zenon

\* Nothing but the worker or a caller moves.
LEMMA RWorkSteps ==
    ASSUME Data, IInv, RInv, WorkerEnds \/ (\E g \in Generation : Restore(g)) \/ (\E g \in Generation : Mutate(g)) \/ UNCHANGED vars
    PROVE  RInv'
<1>1. CASE WorkerEnds
  <2>1. RFirst'
    BY <1>1, InstalledStable, Zenon DEF WorkerEnds, RInv, RFirst, FreshOnly, InitPhases, disk,
       network, history
  <2>2. RSettled'
    BY <1>1, InstalledStable, Zenon DEF WorkerEnds, RInv, RSettled, RestorePhases, disk,
       network, history
  <2>3. RPrepare'
    BY <1>1, InstalledStable, Zenon DEF WorkerEnds, RInv, RPrepare, Whole, disk, network,
       history
  <2>4. RCalls'
    BY <1>1, InstalledStable, Zenon DEF WorkerEnds, RInv, RCalls, Opening, RestorePhases, disk,
       network, history
  <2>5. RServes'
    BY <1>1, InstalledStable, Zenon DEF WorkerEnds, RInv, RServes, Opening, Choices, disk,
       network, history
  <2>6. QED
    BY <2>1, <2>2, <2>3, <2>4, <2>5, Zenon DEF RInv
<1>2. CASE \E g \in Generation : Restore(g)
  <2>1. RFirst'
    BY <1>2 DEF Restore, IInv, IFirst, RFirst, InitPhases
  <2>2. RSettled'
    BY <1>2, InstalledStable, Zenon DEF Restore, RInv, RSettled, RestorePhases, disk, network,
       history
  <2>3. RPrepare'
    BY <1>2, InstalledStable, WholeInstalled DEF Restore, RInv, RSettled, RPrepare, Whole
  <2>4. RCalls'
    BY <1>2, InstalledStable, Zenon DEF Restore, RCalls, Opening, RestorePhases, disk, network,
       history
  <2>5. RServes'
    BY <1>2, InstalledStable, Zenon DEF Restore, RServes, Opening, Choices, disk, network,
       history
  <2>6. QED
    BY <2>1, <2>2, <2>3, <2>4, <2>5, Zenon DEF RInv
<1>3. CASE \E g \in Generation : Mutate(g)
  <2>1. Coherent' /\ Installed' = shown'
    BY <1>3, Zenon DEF Mutate, Coherent, Component, Installed, disk, network, history
  <2>2. Whole /\ ~stale'
    BY <1>3 DEF Mutate, RInv, RPrepare, Whole
  <2>3. RFirst'
    BY <1>3, <2>1, <2>2 DEF Mutate, IInv, IFirst, RFirst, InitPhases
  <2>4. RSettled'
    BY <1>3, <2>1, <2>2, InstalledStable, Zenon DEF Mutate, RSettled, RestorePhases, disk,
       network, history
  <2>5. RPrepare'
    BY <1>3, <2>1, <2>2, InstalledStable, Zenon DEF Mutate, RInv, RPrepare, Whole, disk,
       network, history
  <2>6. RCalls'
    BY <1>3, <2>1, <2>2, InstalledStable, Zenon DEF Mutate, RInv, RCalls, Opening,
       RestorePhases, disk, network, history
  <2>7. RServes'
    BY <1>3, <2>1, <2>2, InstalledStable, Zenon DEF Mutate, RServes, Opening, Choices, disk,
       network, history
  <2>8. QED
    BY <2>3, <2>4, <2>5, <2>6, <2>7, Zenon DEF RInv
<1>4. CASE UNCHANGED vars
  <2>1. RFirst'
    BY <1>4, InstalledStable, Zenon DEF vars, RInv, RFirst, FreshOnly, InitPhases, disk,
       network, history
  <2>2. RSettled'
    BY <1>4, InstalledStable, Zenon DEF vars, RInv, RSettled, RestorePhases, disk, network,
       history
  <2>3. RPrepare'
    BY <1>4, InstalledStable, Zenon DEF vars, RInv, RPrepare, Whole, disk, network, history
  <2>4. RCalls'
    BY <1>4, InstalledStable, Zenon DEF vars, RInv, RCalls, Opening, RestorePhases, disk,
       network, history
  <2>5. RServes'
    BY <1>4, InstalledStable, Zenon DEF vars, RInv, RServes, Opening, Choices, disk, network,
       history
  <2>6. QED
    BY <2>1, <2>2, <2>3, <2>4, <2>5, Zenon DEF RInv
<1>5. QED
  BY <1>1, <1>2, <1>3, <1>4, Zenon

\* A step raises.
LEMMA RRaiseStep ==
    ASSUME Data, IInv, RInv, Raise
    PROVE  RInv'
<1>1. CASE Raise
  <2>1. CASE caller = "failed"
    <3>1. pc \in {"guard", "quiesce"} /\ journal' = journal /\ previous' = previous
      BY <1>1, <2>1, RaiseFacts, RecordedFacts, Zenon DEF IInv, IQuiet, network, history
    <3>2. pc' \in {"quiesce", "required"} /\ caller' \in {"failed", "none"}
      BY <1>1, <2>1, <3>1, RaiseFacts, AfterFacts, Zenon DEF Finish
    <3>3. QED
      BY <1>1, <2>1, <3>1, <3>2, RaiseFacts, InstalledStable DEF RInv, RFirst, RSettled,
         RPrepare, RCalls, RServes, FreshOnly, Opening, history
  <2>2. CASE caller # "failed"
    <3>0. pc' = "raised" /\ caller' = caller
      BY <1>1, <2>2, RaiseFacts, Zenon
    <3>1. RFirst'
      BY <1>1, <3>0, RaiseFacts, RecordedFacts, Zenon DEF IInv, IFirst, RInv, RFirst, FreshOnly,
         history, InitPhases
    <3>2. RSettled'
      BY <1>1, <3>0, RaiseFacts, RecordedFacts, InstalledStable DEF IInv, IFirst, ISnapshot,
         RInv, RSettled, RPrepare, RCalls, RServes, Opening, history, RestorePhases
    <3>3. RPrepare'
      BY <1>1, <3>0, RaiseFacts, RecordedFacts, InstalledStable DEF RInv, RPrepare, Whole,
         history
    <3>4. RCalls'
      BY <1>1, <3>0, RaiseFacts, RecordedFacts, InstalledStable, Zenon DEF RCalls, Opening,
         RestorePhases, disk, network, history
    <3>5. RServes'
      BY <1>1, <3>0, RaiseFacts, RecordedFacts, InstalledStable, Zenon DEF RServes, Opening,
         Choices, disk, network, history
    <3>6. QED
      BY <3>1, <3>2, <3>3, <3>4, <3>5, Zenon DEF RInv
  <2>3. QED
    BY <2>1, <2>2, Zenon DEF RInv
<1>2. QED
  BY <1>1, Zenon

\* Every step keeps what the receipts say.
LEMMA RStep == ASSUME Data, IInv, RInv, [Next]_vars PROVE RInv'
  BY RStartSteps, RRecordStep, RQuietSteps, RPublishStep,
     ROpenSteps, REndSteps, RHandleSteps, RWorkSteps, RRaiseStep, Zenon DEF Next, Progress
----------------------------------------------------------------------------
(* The refinement of AtomicVolume. *)

LEMMA VolumeInit == Init => Volume!Init
  BY GenerationAssumption, Zenon DEF Init, Volume!Init, Choices

\* A step that keeps the receipt and the history, and opens nothing, closes the volume or
\* is none of its steps.
Silent == UNCHANGED <<journal, history>> /\ (ready' = ready \/ ready' = FALSE)

LEMMA SilentStep == ASSUME Silent PROVE [Volume!Next]_(Volume!vars)
  BY Zenon DEF Silent, history, Volume!Next, Volume!Close, Volume!vars, Choices

\* The steps that are silent.
LEMMA SilentSteps ==
    ASSUME Progress \/ OperatorRestart \/ Crash \/ WorkerEnds,
           ~Record, ~Reopen, ~Unlink
    PROVE  Silent
<1> USE DEF Silent, disk, network, history
<1>1. CASE BootProcess
  BY <1>1, Zenon DEF BootProcess
<1>2. CASE RestartWorker
  BY <1>2, Zenon DEF RestartWorker, ProcessEnds
<1>3. CASE Startup
  BY <1>3, Zenon DEF Startup, ProcessEnds
<1>4. CASE Stage
  BY <1>4, Zenon DEF Stage
<1>5. CASE Dispatch
  BY <1>5, Zenon DEF Dispatch
<1>6. CASE Prepare
  BY <1>6, Zenon DEF Prepare
<1>7. CASE Guard
  BY <1>7, Zenon DEF Guard
<1>8. CASE Quiesce
  BY <1>8, Zenon DEF Quiesce
<1>9. CASE Reset
  BY <1>9, Zenon DEF Reset
<1>10. CASE Snapshot
  BY <1>10, Zenon DEF Snapshot
<1>11. CASE Publish
  BY <1>11, Zenon DEF Publish
<1>12. CASE Revoke
  BY <1>12, Zenon DEF Revoke
<1>13. CASE Validate
  BY <1>13, Zenon DEF Validate
<1>14. CASE Reconcile
  BY <1>14, Zenon DEF Reconcile
<1>15. CASE Health
  BY <1>15, Zenon DEF Health
<1>16. CASE RemoveTree
  BY <1>16, Zenon DEF RemoveTree
<1>17. CASE Refuse
  BY <1>17, Zenon DEF Refuse
<1>18. CASE Handle
  BY <1>18, Zenon DEF Handle, ProcessEnds
<1>19. CASE GiveUp
  BY <1>19, Zenon DEF GiveUp, ProcessEnds
<1>20. CASE OperatorRestart
  BY <1>20, Zenon DEF OperatorRestart, ProcessEnds
<1>21. CASE Crash
  BY <1>21, Zenon DEF Crash, ProcessEnds
<1>22. CASE WorkerEnds
  BY <1>22, Zenon DEF WorkerEnds
<1>23. QED
  BY <1>1, <1>2, <1>3, <1>4, <1>5, <1>6, <1>7, <1>8, <1>9, <1>10, <1>11, <1>12, <1>13, <1>14, <1>15, <1>16, <1>17, <1>18, <1>19, <1>20, <1>21, <1>22, Zenon DEF Progress

\* A receipt that becomes durable leaves the old content and the new one to choose from.
LEMMA ReceiptStep ==
    ASSUME RInv, IInv, UNCHANGED <<history, ready>>, pc \in DOMAIN Recorded, journal' = Recorded[pc]
    PROVE  [Volume!Next]_(Volume!vars)
<1> USE DEF RInv, RFirst, RPrepare, RCalls, RestorePhases, InitPhases, history
<1>1. CASE pc = "rec_preparing"
  <2>1. Choices' = Choices
    BY <1>1, RecordedFacts DEF Choices, FreshOnly
  <2>2. QED
    BY <2>1, Zenon DEF Volume!vars
<1>2. CASE pc = "rec_prepared"
  <2>1. Choices = {shown} /\ Choices' = {shown, target} /\ target \in Generation
    BY <1>2, RecordedFacts, Zenon DEF Choices
  <2>2. Volume!Begin(target)
    BY <2>1, Zenon DEF Volume!Begin
  <2>3. QED
    BY <2>1, <2>2, Zenon DEF Volume!Next
<1>3. CASE pc \notin {"rec_preparing", "rec_prepared"}
  <2>1. journal # "none" /\ journal' # "none"
    BY <1>3, RecordedFacts DEF IInv, IFirst
  <2>2. QED
    BY <2>1, Zenon DEF Choices, Volume!vars
<1>4. QED
  BY <1>1, <1>2, <1>3, Zenon

\* The receipt goes, after the reopening, and with it the choice.
LEMMA SettleStep ==
    ASSUME RInv, UNCHANGED <<history, ready>>, pc = "unlink", journal' = "none"
    PROVE  [Volume!Next]_(Volume!vars)
<1>1. ready /\ Choices' = {shown}
  BY Zenon DEF RInv, RServes, Choices, history
<1>2. QED
  BY <1>1, Zenon DEF Volume!Next, Volume!Settle, history

\* Every step is a step of the atomic volume, or none.
LEMMA VolumeStep == ASSUME Data, IInv, RInv, [Next]_vars PROVE [Volume!Next]_(Volume!vars)
<1>1. CASE Record
  BY <1>1, ReceiptStep, Zenon DEF Record, network, history
<1>2. CASE Unlink
  BY <1>2, SettleStep, Zenon DEF Unlink, network, history
<1>3. CASE Reopen
  <2>1. shown' \in Choices /\ ready' = TRUE /\ UNCHANGED <<journal, origin, target>>
    BY <1>3, WholeInstalled, Zenon
       DEF Reopen, Visible, RInv, RServes, Opening, IInv, IPublished, Whole, disk
  <2>2. Choices' = Choices
    BY <2>1, Zenon DEF Choices
  <2>3. QED
    BY <2>1, <2>2, Zenon DEF Volume!Next, Volume!Open
<1>4. CASE \E g \in Generation : Restore(g)
  <2>1. Choices = {shown} /\ Choices' = {shown} /\ UNCHANGED <<shown, ready>>
    BY <1>4, Zenon DEF Restore, Choices, network
  <2>2. QED
    BY <2>1, Zenon DEF Volume!vars
<1>5. CASE \E g \in Generation : Mutate(g)
  <2>1. PICK g \in Generation : Mutate(g)
    BY <1>5, Zenon
  <2>2. /\ Choices = {shown} /\ Choices' = {g} /\ shown' = g
        /\ ready /\ ready' = ready
    BY <2>1, Zenon DEF Mutate, Choices
  <2>3. QED
    BY <2>2, Zenon DEF Volume!Next, Volume!Write
<1>6. CASE RestoreRefused
  <2>1. journal' = journal /\ journal \in {"none", "prepared"} /\ UNCHANGED <<shown, ready, target>>
        /\ origin' = Installed
    BY <1>6, Zenon DEF RestoreRefused, RInv, RPrepare, disk, network
  <2>2. Choices' = Choices
    BY <2>1, Zenon DEF RInv, RSettled, Choices
  <2>3. QED
    BY <2>1, <2>2, Zenon DEF Volume!vars
<1>7. CASE Raise
  <2>1. CASE journal' = journal
    BY <1>7, <2>1, RaiseFacts, SilentStep, Zenon DEF Silent, history
  <2>2. CASE journal' # journal
    <3>1. ready' = ready
      BY <1>7, <2>2, RaiseFacts, RecordedFacts, ZenonT(30) DEF Raise, PartialEffect, network
    <3>2. QED
      BY <1>7, <2>2, <3>1, RaiseFacts, ReceiptStep, SettleStep, Zenon DEF history
  <2>3. QED
    BY <2>1, <2>2, Zenon
<1>8. CASE UNCHANGED vars
  BY <1>8, SilentStep, Zenon DEF Silent, vars, disk, network, history
<1>9. QED
  BY <1>1, <1>2, <1>3, <1>4, <1>5, <1>6, <1>7, <1>8, SilentSteps, SilentStep, Zenon DEF Next

LEMMA ReceiptsAlways == Spec => [](Inv /\ RInv)
<1>1. Init => RInv
  BY RInit
<1>2. Inv /\ RInv /\ [Next]_vars => RInv'
  BY TypeHalves, RStep, Zenon DEF Inv
<1>3. QED
  BY <1>1, <1>2, Invariance, PTL DEF Spec

\* Journal, snapshots and component-wise publication implement the atomic volume, for any
\* contents and any number of faults of every kind: a reopening serves the whole old or the
\* whole new content, and a leased write is lost only to a restore.
THEOREM VolumeIsAtomic == Spec => ImplementsAtomicVolume
<1>1. Init => Volume!Init
  BY VolumeInit
<1>2. Inv /\ RInv /\ [Next]_vars => [Volume!Next]_(Volume!vars)
  BY TypeHalves, VolumeStep, Zenon DEF Inv
<1>3. QED
  BY <1>1, <1>2, ReceiptsAlways, PTL DEF Spec, ImplementsAtomicVolume, Volume!Spec
----------------------------------------------------------------------------
(* What a receipt and a report promise. *)

\* Only a copy that was cut short leaves a torn snapshot.
Untorn == previous # Torn

LEMMA UntornStep ==
    ASSUME "torn_snapshot" \notin Faults, Untorn, [Next]_vars PROVE Untorn'
<1> USE GenerationAssumption DEF disk, Untorn
<1>1. previous' = previous \/ previous' = Absent \/ previous' \in Generation
  <2>1. CASE Snapshot
    BY <2>1, Zenon DEF Snapshot, Validates, Installed
  <2>2. CASE Raise
    BY <2>2, RaiseFacts, Zenon
  <2>3. CASE RemoveTree \/ Handle \/ RestartWorker \/ Startup \/ GiveUp
    BY <2>3, Zenon DEF RemoveTree, Handle, RestartWorker, Startup, GiveUp, ProcessEnds
  <2>4. CASE OperatorRestart \/ Crash \/ WorkerEnds \/ RestoreRefused \/ UNCHANGED vars
    BY <2>4, Zenon DEF OperatorRestart, Crash, WorkerEnds, RestoreRefused, ProcessEnds, vars
  <2>5. CASE \E g \in Generation : Restore(g) \/ Mutate(g)
    BY <2>5, Zenon DEF Restore, Mutate
  <2>6. CASE BootProcess \/ Stage \/ Dispatch \/ Prepare \/ Record \/ Guard \/ Quiesce \/ Reset
    BY <2>6, Zenon DEF BootProcess, Stage, Dispatch, Prepare, Record, Guard, Quiesce, Reset
  <2>7. CASE Publish \/ Revoke \/ Validate \/ Reconcile \/ Health \/ Reopen \/ Unlink \/ Refuse
    BY <2>7, Zenon DEF Publish, Revoke, Validate, Reconcile, Health, Reopen, Unlink, Refuse
  <2>8. QED
    BY <2>1, <2>2, <2>3, <2>4, <2>5, <2>6, <2>7, Zenon DEF Next, Progress
<1>2. QED
  BY <1>1, Zenon

\* Unless a copy can be cut short, and whatever else fails or is cut, the receipt names a
\* layout that startup can publish, for any contents and any number of faults.
THEOREM ReceiptsAreRecoverable ==
    ASSUME "torn_snapshot" \notin Faults PROVE Spec => []ReceiptIsRecoverable
<1>1. Init => Untorn
  BY GenerationAssumption, Zenon DEF Init, Untorn
<1>2. Untorn /\ [Next]_vars => Untorn'
  BY UntornStep, Zenon
<1>3. Inv /\ RInv /\ Untorn => ReceiptIsRecoverable
  <2> SUFFICES ASSUME Inv, RInv, previous # Torn PROVE ReceiptIsRecoverable
    BY Zenon DEF Untorn
  <2>1. journal = "init_ready" => candidate = Fresh
    BY Zenon DEF RInv, RFirst
  <2>2. journal \in {"snapshot_ready", "publishing", "installed", "validated",
                     "rollback_required"} => previous = origin
    BY Zenon DEF RInv, RSettled, RestorePhases
  <2>3. journal \in {"prepared", "committed"} => Coherent /\ ~stale
    <3>1. journal \in {"prepared", "committed"} => Installed \in Generation
      BY Zenon DEF RInv, RSettled, RestorePhases
    <3>2. Installed \in Generation => ~Empty
      BY GenerationAssumption, Zenon DEF Installed, Empty, Component
    <3>3. QED
      BY <3>1, <3>2, Zenon DEF Inv, IInv, ISettled, Clean
  <2>4. QED
    BY <2>1, <2>2, <2>3, Zenon DEF ReceiptIsRecoverable
<1>4. QED
  BY <1>1, <1>2, <1>3, ReceiptsAlways, PTL DEF Spec

\* Between the calls, and before the first receipt of one, there is no receipt.
Reported == (pc = "idle" \/ caller = "prepare" => journal = "none") /\ ReportedOutcome

LEMMA ReportedStep ==
    ASSUME "late_raise" \notin Faults, Data, IInv, RInv, Reported, [Next]_vars PROVE Reported'
<1> USE InstalledStable, AfterFacts
<1> USE DEF Reported, ReportedOutcome, disk, network, history
<1>1. CASE Reopen
  <2>1. /\ pc = "reopen" /\ pc' = After /\ journal' = journal
        /\ caller' = IF After \in {"idle", "required"} THEN "none" ELSE caller
        /\ After = IF journal = "none" THEN "idle" ELSE "unlink"
    BY <1>1, Zenon DEF Reopen, Continue, Finish
  <2>2. caller = "startup" \/ journal # "none"
    BY <2>1, Zenon DEF RInv, RServes, RCalls, Opening, RestorePhases
  <2>3. caller # "prepare" /\ caller' # "prepare"
    BY <2>1, Zenon DEF RInv, RServes, Opening
  <2>4. pc' = "idle" => journal' = "none" /\ outcome' = "none"
    BY <1>1, <2>1, <2>2 DEF Reopen, Finish
  <2>5. QED
    BY <2>3, <2>4, Zenon
<1>2. CASE RemoveTree
  <2>1. /\ pc = "rmtree" /\ journal' = "none" /\ journal = "none" /\ live' = live /\ stale' = stale
        /\ target' = target /\ origin' = origin
    BY <1>2, Zenon DEF RemoveTree, RInv, RServes
  <2>2. Coherent /\ ~stale
    BY <2>1, Zenon DEF IInv, IPublished, Whole, Clean
  <2>3. /\ outcome' = "restored" => caller = "restore" \/ After # "idle"
        /\ outcome' \in {"rolled_back", "rejected"} => caller = "rollback" \/ After # "idle"
        /\ pc' = After
    BY <1>2 DEF RemoveTree, Finish, Continue
  <2>4. pc' = "idle" /\ outcome' = "restored" => Installed = target
    BY <2>1, <2>3, Zenon DEF RInv, RServes
  <2>5. pc' = "idle" /\ outcome' \in {"rolled_back", "rejected"} => Installed = origin
    BY <2>1, <2>3, Zenon DEF RInv, RServes
  <2>6. Coherent' /\ ~stale' /\ Installed' = Installed
    BY <2>1, <2>2, Zenon
  <2>7. QED
    BY <2>1, <2>4, <2>5, <2>6
<1>3. CASE Handle
  BY <1>3 DEF Handle, ProcessEnds, RInv, RPrepare, Whole
<1>4. CASE RestoreRefused
  BY <1>4 DEF RestoreRefused, RInv, RPrepare, Whole
<1>5. CASE WorkerEnds \/ UNCHANGED vars
  <2>1. /\ pc' = pc /\ caller' = caller /\ journal' = journal /\ live' = live /\ stale' = stale
        /\ outcome' = outcome /\ target' = target /\ origin' = origin
    BY <1>5, Zenon DEF WorkerEnds, vars
  <2>2. QED
    BY <2>1
<1>6. CASE \E g \in Generation : Restore(g) \/ Mutate(g)
  BY <1>6, Zenon DEF Restore, Mutate, RInv, RPrepare
<1>7. CASE Raise
  BY <1>7, RaiseFacts, Zenon DEF Finish, IInv, IQuiet
<1>8. CASE RestartWorker \/ Startup \/ GiveUp \/ OperatorRestart \/ Crash
  BY <1>8, Zenon DEF RestartWorker, Startup, GiveUp, OperatorRestart, Crash, ProcessEnds,
     IInv, IFirst
<1>9. CASE BootProcess \/ Stage \/ Dispatch \/ Prepare \/ Guard \/ Quiesce \/ Reset \/ Snapshot
  BY <1>9, Zenon DEF BootProcess, Stage, Dispatch, Prepare, Guard, Quiesce, Reset, Snapshot,
     Continue, Finish, RInv, RPrepare, IInv, IFirst
<1>10. CASE Publish \/ Revoke \/ Validate \/ Reconcile \/ Health \/ Unlink \/ Refuse
  BY <1>10, Zenon DEF Publish, Revoke, Validate, Reconcile, Health, Unlink, Refuse, Continue,
     RInv, RPrepare
<1>11. CASE Record
  BY <1>11, RecordedFacts, Zenon DEF Record, Continue, RInv, RPrepare
<1>12. QED
  BY <1>1, <1>3, <1>4, <1>5, <1>6, <1>7, <1>8, <1>9, <1>10, <1>11, <1>2, Zenon DEF Next, Progress

\* Unless an error can be raised after its step took effect, and whatever else fails or is cut,
\* restore reports as installed only an archive that is wholly there, and as rolled back or
\* rejected only a volume that is as it was.
THEOREM RestoresAreReported ==
    ASSUME "late_raise" \notin Faults PROVE Spec => []ReportedOutcome
<1>1. Init => Reported
  BY Zenon DEF Init, Reported, ReportedOutcome
<1>2. Inv /\ RInv /\ Reported /\ [Next]_vars => Reported'
  BY TypeHalves, ReportedStep, Zenon DEF Inv
<1>3. Reported => ReportedOutcome
  BY Zenon DEF Reported
<1>4. QED
  BY <1>1, <1>2, <1>3, ReceiptsAlways, PTL DEF Spec
=============================================================================
