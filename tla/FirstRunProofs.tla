---------------------------- MODULE FirstRunProofs ----------------------------
(***************************************************************************)
(* The first run: the wizard for any providers, any number of handlers     *)
(* that run at the same time and any number of calls; and the setup of the *)
(* ingress that it asks for, after any number of crashes and power losses. *)
(***************************************************************************)
EXTENDS SetupWizard, FiniteSetTheorems, TLAPS


-----------------------------------------------------------------------------
(* Earned steps: only Complete sets done, and no step is taken back.         *)

\* A setup that is complete has its diagnostics, its administrator and its
\* ingress, however the handlers of main.py interleave.
THEOREM CompletionIsEarned == Spec => []StepsEarned
<1>1. Init => StepsEarned
  BY Zenon DEF Init, StepsEarned
<1>2. StepsEarned /\ [Next]_vars => StepsEarned'
  <2> SUFFICES ASSUME StepsEarned, [Next]_vars PROVE StepsEarned'
    BY Zenon
  <2> USE DEF StepsEarned, progress
  <2>1. CASE UNCHANGED vars
    BY <2>1, Zenon DEF vars
  <2>2. ASSUME NEW r \in Requests, Complete(r) PROVE StepsEarned'
    BY <2>2, Zenon DEF Complete
  <2>3. ASSUME NEW r \in Requests, Handler(r), ~Complete(r) PROVE UNCHANGED progress
    BY <2>3, Zenon DEF Handler, Select, Skip, Chosen, Defer, Deferred, Authenticate, Callback,
         AuthenticationFails, Authenticated, Adopted, SignOut, SignedOut, Read, State
  <2>4. CASE WindowPasses \/ SessionEnds \/ Activate \/ Restart
    BY <2>4, Zenon DEF WindowPasses, SessionEnds, Activate, Restart
  <2>5. CASE Diagnostics \/ CreateAdmin \/ ConfigureWireGuard
    BY <2>5, Zenon DEF Diagnostics, CreateAdmin, ConfigureWireGuard
  <2> QED BY <2>1, <2>2, <2>3, <2>4, <2>5, Zenon DEF Next
<1> QED BY <1>1, <1>2, PTL DEF Spec

-----------------------------------------------------------------------------
(* The confirmed provider: a handler writes the selection it carries, so the *)
(* selections that wait are part of the invariant.                           *)

Table == req = [r \in Requests |-> req[r]]

Carried(h) ==
  /\ h.op \in {"select", "skip", "adopt"} => h.wanted \subseteq Providers
  /\ h.op \in {"authenticate", "adopt"} => h.p \in Providers

Selection ==
  /\ Table
  /\ ids = None \/ ids \subseteq Providers
  /\ \A r \in Requests : Carried(req[r])

SelectionInv == Selection /\ ConfirmedIsSelected

\* The constants as the code has them: the default provider is one of the
\* providers, and an absent selection differs from every selection.
SelectionConstants == Default \in Providers /\ None \notin SUBSET Providers

\* A handler that begins, and one that ends, touch no other.
LEMMA OneHandler ==
  ASSUME Table, NEW r \in Requests, NEW h, req' = [req EXCEPT ![r] = h]
  PROVE Table' /\ req'[r] = h /\ \A q \in Requests \ {r} : req'[q] = req[q]
BY Zenon DEF Table

\* What is carried stays carried when one handler is replaced.
LEMMA CarriedKept ==
  ASSUME Table, \A q \in Requests : Carried(req[q]), NEW r \in Requests, NEW h, Carried(h),
         req' = [req EXCEPT ![r] = h]
  PROVE Table' /\ \A q \in Requests : Carried(req[q])'
<1>1. Table' /\ req'[r] = h /\ \A q \in Requests \ {r} : req'[q] = req[q]
  BY OneHandler, Zenon
<1> QED BY <1>1, Zenon DEF Carried

\* The transaction that stores a selection leaves a confirmation only for the
\* one provider of that selection that is signed in.
LEMMA ProgressSelects ==
  ASSUME None \notin SUBSET Providers, NEW selected \in SUBSET Providers, NEW skips, NEW seen,
         Progress(selected, skips, seen)
  PROVE ids' \subseteq Providers /\ ConfirmedIsSelected'
<1> DEFINE signed == selected \intersect seen
           single == selected \subseteq signed \union skips /\ Cardinality(signed) = 1
<1>1. ids' = selected /\ confirmed' = single
      /\ active' = (IF single THEN CHOOSE p \in signed : TRUE ELSE active)
  BY Zenon DEF Progress
<1>2. single => signed # {}
  BY FS_EmptySet
<1>3. single => active' \in selected
  BY <1>1, <1>2, Zenon
<1>4. ids' # None
  BY <1>1, Zenon
<1> QED BY <1>1, <1>3, <1>4, Zenon DEF ConfirmedIsSelected, Stored

\* Every step keeps the invariant of the selections.
LEMMA SelectionStep ==
  ASSUME SelectionConstants, SelectionInv, [Next]_vars
  PROVE SelectionInv'
<1> USE DEF SelectionConstants
<1>0. /\ Table /\ \A q \in Requests : Carried(req[q])
      /\ ids = None \/ ids \subseteq Providers
      /\ ConfirmedIsSelected
  BY Zenon DEF SelectionInv, Selection
<1> DEFINE Kept == Table' /\ \A q \in Requests : Carried(req[q])'
           Same == UNCHANGED <<ids, confirmed, active, chosen>>
<1>a. Same => ConfirmedIsSelected' /\ (ids = None \/ ids \subseteq Providers)'
  BY <1>0 DEF ConfirmedIsSelected, Stored
<1>b. (Kept /\ Same) => SelectionInv'
  BY <1>a, Zenon DEF SelectionInv, Selection
<1>c. Carried(Idle)
  BY Zenon DEF Carried, Idle
<1>d. ASSUME NEW r \in Requests, Ends(r) PROVE Kept
  BY <1>0, <1>c, <1>d, CarriedKept, Zenon DEF Ends
<1>e. ASSUME NEW r \in Requests, NEW h, Begins(r, h), Carried(h) PROVE Kept
  BY <1>0, <1>e, CarriedKept, Zenon DEF Begins
<1>1. CASE UNCHANGED vars
  <2>1. Kept /\ Same
    BY <1>0, <1>1, Zenon DEF vars, choice, Table, Carried
  <2> QED BY <2>1, <1>b, Zenon
<1>2. ASSUME NEW r \in Requests, Select(r) PROVE SelectionInv'
  <2>1. PICK w \in SUBSET Providers :
          Begins(r, [op |-> "select", wanted |-> w, skips |-> {}, seen |-> auth])
    BY <1>2, Zenon DEF Select
  <2>2. Carried([op |-> "select", wanted |-> w, skips |-> {}, seen |-> auth])
    BY Zenon DEF Carried
  <2>3. Same
    BY <1>2, Zenon DEF Select, choice
  <2> QED BY <2>1, <2>2, <2>3, <1>e, <1>b, Zenon
<1>3. ASSUME NEW r \in Requests, Skip(r) PROVE SelectionInv'
  <2>1. PICK p \in Stored({}) :
          Begins(r, [op |-> "skip", wanted |-> ids, skips |-> skipped \union {p}, seen |-> auth])
    BY <1>3, Zenon DEF Skip
  <2>2. ids \subseteq Providers
    BY <1>0, <2>1, Zenon DEF Stored
  <2>3. Carried([op |-> "skip", wanted |-> ids, skips |-> skipped \union {p}, seen |-> auth])
    BY <2>2, Zenon DEF Carried
  <2>4. Same
    BY <1>3, Zenon DEF Skip, choice
  <2> QED BY <2>1, <2>3, <2>4, <1>e, <1>b, Zenon
<1>4. ASSUME NEW r \in Requests, Chosen(r) PROVE SelectionInv'
  <2>1. Kept
    BY <1>4, <1>d, Zenon DEF Chosen
  <2>2. req[r].wanted \in SUBSET Providers
    BY <1>0, <1>4, Zenon DEF Carried, Chosen
  <2>3. Same \/ \E seen \in Seen(r) : Progress(req[r].wanted, req[r].skips, seen)
    BY <1>4, Zenon DEF Chosen, choice
  <2>4. ASSUME NEW seen, Progress(req[r].wanted, req[r].skips, seen)
        PROVE ids' \subseteq Providers /\ ConfirmedIsSelected'
    BY <2>2, <2>4, ProgressSelects, Zenon
  <2> QED BY <2>1, <2>3, <2>4, <1>b, Zenon DEF SelectionInv, Selection
<1>5. ASSUME NEW r \in Requests, Defer(r) PROVE SelectionInv'
  <2>1. Begins(r, [op |-> "defer", seen |-> auth]) /\ Same
    BY <1>5, Zenon DEF Defer, choice
  <2>2. Carried([op |-> "defer", seen |-> auth])
    BY Zenon DEF Carried
  <2> QED BY <2>1, <2>2, <1>e, <1>b, Zenon
<1>6. ASSUME NEW r \in Requests, Deferred(r) PROVE SelectionInv'
  <2>1. Kept
    BY <1>6, <1>d, Zenon DEF Deferred
  <2>2. Same \/ (ids' = {} /\ confirmed' = FALSE)
    BY <1>6, Zenon DEF Deferred, choice
  <2> QED BY <2>1, <2>2, <1>b, Zenon DEF SelectionInv, Selection, ConfirmedIsSelected
<1>7. ASSUME NEW r \in Requests, Authenticate(r) \/ Callback(r) PROVE SelectionInv'
  <2>1. PICK p \in Providers : Begins(r, [op |-> "authenticate", p |-> p])
    BY <1>7, Zenon DEF Authenticate, Callback
  <2>2. Carried([op |-> "authenticate", p |-> p])
    BY Zenon DEF Carried
  <2>3. Same
    BY <1>7, Zenon DEF Authenticate, Callback, choice
  <2> QED BY <2>1, <2>2, <2>3, <1>e, <1>b, Zenon
<1>8. ASSUME NEW r \in Requests, AuthenticationFails(r) \/ State(r) \/ Complete(r)
      PROVE SelectionInv'
  <2>1. Ends(r)
    BY <1>8, Zenon DEF AuthenticationFails, State, Complete
  <2>2. Same
    BY <1>8, Zenon DEF AuthenticationFails, State, Complete, choice
  <2> QED BY <2>1, <2>2, <1>d, <1>b, Zenon
<1>9. ASSUME NEW r \in Requests, Authenticated(r) PROVE SelectionInv'
  <2> DEFINE p == req[r].p
             wanted == Stored({Default}) \union {p}
             adopt == [op |-> "adopt", wanted |-> wanted, p |-> p, skips |-> skipped \ {p},
                       seen |-> auth]
  <2>1. p \in Providers /\ wanted \subseteq Providers
    BY <1>0, <1>9, Zenon DEF Authenticated, Carried, Stored
  <2>2. Carried(adopt)
    BY <2>1, Zenon DEF Carried
  <2>3. UNCHANGED <<confirmed, active, chosen>>
        /\ \/ Ends(r) /\ UNCHANGED ids
           \/ /\ ids' = (IF p \in Stored({Default}) THEN ids ELSE wanted)
              /\ req' = [req EXCEPT ![r] = adopt]
    BY <1>9, Zenon DEF Authenticated
  <2>4. Kept
    BY <2>2, <2>3, <1>0, <1>d, CarriedKept, Zenon
  <2>5. (ids = None \/ ids \subseteq Providers)' /\ ConfirmedIsSelected'
    BY <2>1, <2>3, <1>0, Zenon DEF ConfirmedIsSelected, Stored
  <2> QED BY <2>4, <2>5, Zenon DEF SelectionInv, Selection
<1>10. ASSUME NEW r \in Requests, Adopted(r) PROVE SelectionInv'
  <2>1. Kept
    BY <1>10, <1>d, Zenon DEF Adopted
  <2>2. req[r].wanted \in SUBSET Providers
    BY <1>0, <1>10, Zenon DEF Carried, Adopted
  <2>3. PICK seen : Progress(req[r].wanted, req[r].skips, seen)
    BY <1>10, Zenon DEF Adopted
  <2>4. ids' \subseteq Providers /\ ConfirmedIsSelected'
    BY <2>2, <2>3, ProgressSelects, Zenon
  <2> QED BY <2>1, <2>4, Zenon DEF SelectionInv, Selection
<1>11. ASSUME NEW r \in Requests, SignOut(r) PROVE SelectionInv'
  <2>1. PICK p \in Providers : Begins(r, [op |-> "sign_out", p |-> p, counted |-> TRUE])
    BY <1>11, Zenon DEF SignOut
  <2>2. Carried([op |-> "sign_out", p |-> p, counted |-> TRUE])
    BY Zenon DEF Carried
  <2>3. Same
    BY <1>11, Zenon DEF SignOut, choice
  <2> QED BY <2>1, <2>2, <2>3, <1>e, <1>b, Zenon
<1>12. ASSUME NEW r \in Requests, SignedOut(r) PROVE SelectionInv'
  <2>1. Same
    BY <1>12, Zenon DEF SignedOut, choice
  <2>2. CASE Ends(r)
    BY <2>1, <2>2, <1>d, <1>b, Zenon
  <2>3. CASE ForgetFailures(r)
    <3>1. \A q \in Requests : req'[q] \in {Idle, req[q], [req[q] EXCEPT !.counted = FALSE]}
          /\ (req[q].op # "sign_out" => req'[q] \in {Idle, req[q]})
      BY <2>3, Zenon DEF ForgetFailures
    <3>2. Table'
      BY <2>3, Zenon DEF ForgetFailures, Table
    <3>3. ASSUME NEW q \in Requests PROVE Carried(req[q])'
      <4>1. CASE req'[q] \in {Idle, req[q]}
        BY <4>1, <1>0, <1>c, Zenon DEF Carried
      <4>2. CASE req[q].op = "sign_out" /\ req'[q] = [req[q] EXCEPT !.counted = FALSE]
        <5>1. req'[q].op = "sign_out"
          BY <4>2
        <5> QED BY <5>1, Zenon DEF Carried
      <4> QED BY <3>1, <4>1, <4>2, Zenon
    <3> QED BY <2>1, <3>2, <3>3, <1>b, Zenon
  <2> QED BY <1>12, <2>2, <2>3, Zenon DEF SignedOut, CountFailure
<1>13. ASSUME NEW r \in Requests, Read(r) PROVE SelectionInv'
  <2> DEFINE h(op, w) == [op |-> op, wanted |-> w, skips |-> skipped \intersect w,
                          active |-> active, seen |-> auth]
  <2>0. PICK op \in {"state", "complete"} : \E w : Begins(r, h(op, w))
    BY <1>13, Zenon DEF Read
  <2>1. PICK w : Begins(r, h(op, w))
    BY <2>0, Zenon
  <2>2. Carried(h(op, w))
    BY <2>1, Zenon DEF Carried
  <2>3. Same
    BY <1>13, Zenon DEF Read, choice
  <2> HIDE DEF h
  <2> QED BY <2>1, <2>2, <2>3, <1>e, <1>b, Zenon
<1>14. CASE WindowPasses \/ SessionEnds \/ Diagnostics \/ CreateAdmin \/ ConfigureWireGuard
  <2>1. Same /\ UNCHANGED req
    BY <1>14, Zenon DEF WindowPasses, SessionEnds, Diagnostics, CreateAdmin, ConfigureWireGuard, choice
  <2>2. Kept
    BY <2>1, <1>0, Zenon DEF Table, Carried
  <2> QED BY <2>1, <2>2, <1>b, Zenon
<1>15. CASE Activate
  <2>1. active' = chosen' /\ UNCHANGED <<ids, req>>
    BY <1>15, Zenon DEF Activate
  <2> QED BY <2>1, <1>0, Zenon DEF SelectionInv, Selection, Table, Carried, ConfirmedIsSelected, Stored
<1>16. CASE Restart
  <2>1. Same /\ req' = [q \in Requests |-> Idle]
    BY <1>16, Zenon DEF Restart, choice
  <2>2. Kept
    BY <2>1, <1>c, Zenon DEF Table, Carried
  <2> QED BY <2>1, <2>2, <1>b, Zenon
<1>17. ASSUME NEW r \in Requests, Handler(r) PROVE SelectionInv'
  BY <1>17, <1>2, <1>3, <1>4, <1>5, <1>6, <1>7, <1>8, <1>9, <1>10, <1>11, <1>12, <1>13, Zenon
  DEF Handler
<1> QED BY <1>1, <1>14, <1>15, <1>16, <1>17, Zenon DEF Next

\* For any providers and any number of tabs: a confirmation never outlives the
\* selection it was made for, though handlers write back what they read before.
THEOREM ConfirmationIsCurrent ==
  ASSUME SelectionConstants
  PROVE Spec => []ConfirmedIsSelected
<1>1. Init => SelectionInv
  BY DEF Init, SelectionInv, Selection, Table, Carried, ConfirmedIsSelected, Idle
<1>2. SelectionInv /\ [Next]_vars => SelectionInv'
  BY SelectionStep, Zenon
<1>3. SelectionInv => ConfirmedIsSelected
  BY Zenon DEF SelectionInv
<1> QED BY <1>1, <1>2, <1>3, PTL DEF Spec

-----------------------------------------------------------------------------
(* Failed sign-outs: a handler that waits and will count is as good as a     *)
(* failure, and it began while the limit was not reached.                    *)

Waits(h) == h.op = "sign_out" /\ h.counted
Waiting == {r \in Requests : Waits(req[r])}
BoundInv == Table /\ failures \in Nat /\ SignOutsBounded

\* The limit is positive, and finitely many handlers run at a time.
BoundConstants == Limit \in Nat \ {0} /\ IsFiniteSet(Requests)

\* Fewer handlers that wait, and no more failures, keep the bound.
LEMMA FewerWait ==
  ASSUME BoundConstants, BoundInv, Table', failures' \in Nat, failures' =< failures,
         Waiting' \subseteq Waiting
  PROVE BoundInv'
<1>1. IsFiniteSet(Waiting) /\ Cardinality(Waiting) \in Nat
      /\ Cardinality(Requests) \in Nat
  BY FS_Subset, FS_CardinalityType, Zenon DEF BoundConstants, Waiting
<1>2. Cardinality(Waiting') =< Cardinality(Waiting) /\ Cardinality(Waiting') \in Nat
  BY <1>1, FS_Subset, FS_CardinalityType, Zenon
<1>3. failures + Cardinality(Waiting) =< Limit - 1 + Cardinality(Requests)
  BY Zenon DEF BoundInv, SignOutsBounded, Waiting, Waits
<1>4. failures' + Cardinality(Waiting') =< Limit - 1 + Cardinality(Requests)
  BY <1>1, <1>2, <1>3 DEF BoundConstants, BoundInv
<1> QED BY <1>4, Zenon DEF BoundInv, SignOutsBounded, Waiting, Waits

\* A handler that does not count replaces another.
LEMMA OtherHandler ==
  ASSUME BoundConstants, BoundInv, NEW r \in Requests, NEW h, ~Waits(h), UNCHANGED failures,
         req' = [req EXCEPT ![r] = h]
  PROVE BoundInv'
<1>1. Table' /\ req'[r] = h /\ \A q \in Requests \ {r} : req'[q] = req[q]
  BY OneHandler, Zenon DEF BoundInv
<1>2. Waiting' \subseteq Waiting
  BY <1>1, Zenon DEF Waiting, Waits
<1> QED BY <1>1, <1>2, FewerWait DEF BoundInv

\* Every step keeps the bound.
LEMMA BoundStep ==
  ASSUME BoundConstants, BoundInv, [Next]_vars
  PROVE BoundInv'
<1>0. Table /\ failures \in Nat
  BY Zenon DEF BoundInv
<1>a. ~Waits(Idle)
  BY Zenon DEF Waits, Idle
<1>b. ASSUME NEW r \in Requests, Ends(r), UNCHANGED failures PROVE BoundInv'
  BY <1>a, <1>b, OtherHandler, Zenon DEF Ends
<1>1. CASE UNCHANGED <<req, failures>>
  BY <1>1, FewerWait DEF BoundInv, Table, Waiting, Waits
<1>2. ASSUME NEW r \in Requests, Select(r) \/ Skip(r) \/ Defer(r) \/ Authenticate(r)
                                 \/ Callback(r) \/ Read(r)
      PROVE BoundInv'
  <2>1. UNCHANGED failures
    BY <1>2, Zenon DEF Select, Skip, Defer, Authenticate, Callback, Read
  <2>2. ASSUME NEW h, Begins(r, h), h.op # "sign_out" PROVE BoundInv'
    BY <2>1, <2>2, OtherHandler, Zenon DEF Begins, Waits
  <2>3. CASE Select(r)
    BY <2>2, <2>3, Zenon DEF Select
  <2>4. CASE Skip(r)
    BY <2>2, <2>4, Zenon DEF Skip
  <2>5. CASE Defer(r)
    BY <2>2, <2>5, Zenon DEF Defer
  <2>6. CASE Authenticate(r) \/ Callback(r)
    BY <2>2, <2>6, Zenon DEF Authenticate, Callback
  <2>7. CASE Read(r)
    BY <2>2, <2>7, Zenon DEF Read
  <2> QED BY <1>2, <2>3, <2>4, <2>5, <2>6, <2>7, Zenon
<1>3. ASSUME NEW r \in Requests, Chosen(r) \/ Deferred(r) \/ AuthenticationFails(r)
                                 \/ Adopted(r) \/ State(r) \/ Complete(r)
      PROVE BoundInv'
  BY <1>3, <1>b, Zenon DEF Chosen, Deferred, AuthenticationFails, Adopted, State, Complete
<1>4. ASSUME NEW r \in Requests, Authenticated(r) PROVE BoundInv'
  <2>1. UNCHANGED failures
    BY <1>4, Zenon DEF Authenticated
  <2>2. CASE Ends(r)
    BY <2>1, <2>2, <1>b, Zenon
  <2>3. ASSUME NEW h, h.op = "adopt", req' = [req EXCEPT ![r] = h] PROVE BoundInv'
    BY <2>1, <2>3, OtherHandler, Zenon DEF Waits
  <2> QED BY <1>4, <2>2, <2>3, Zenon DEF Authenticated
<1>5. ASSUME NEW r \in Requests, SignOut(r) PROVE BoundInv'
  <2>1. failures < Limit /\ UNCHANGED failures
    BY <1>5, Zenon DEF SignOut
  <2>2. Table'
    BY <1>5, <1>0, OneHandler, Zenon DEF SignOut, Begins
  <2>3. Waiting' \subseteq Requests
    BY Zenon DEF Waiting
  <2>4. Cardinality(Waiting') =< Cardinality(Requests) /\ Cardinality(Waiting') \in Nat
        /\ Cardinality(Requests) \in Nat
    BY <2>3, FS_Subset, FS_CardinalityType, Zenon DEF BoundConstants
  <2>5. failures' + Cardinality(Waiting') =< Limit - 1 + Cardinality(Requests)
    BY <1>0, <2>1, <2>4 DEF BoundConstants
  <2> QED BY <1>0, <2>1, <2>2, <2>5, Zenon DEF BoundInv, SignOutsBounded, Waiting, Waits
<1>6. ASSUME NEW r \in Requests, ForgetFailures(r) PROVE BoundInv'
  <2>1. Table' /\ failures' = 0
    BY <1>6, Zenon DEF ForgetFailures, Table
  <2>2. ASSUME NEW q \in Requests PROVE ~Waits(req'[q])
    <3>1. CASE req'[q] = Idle
      BY <3>1, <1>a, Zenon
    <3>2. CASE req[q].op = "sign_out" /\ req'[q] = [req[q] EXCEPT !.counted = FALSE]
      <4>1. ~req'[q].counted
        BY <3>2
      <4> QED BY <4>1, Zenon DEF Waits
    <3>3. CASE req[q].op # "sign_out" /\ req'[q] = req[q]
      BY <3>3, Zenon DEF Waits
    <3> QED BY <1>6, <3>1, <3>2, <3>3, Zenon DEF ForgetFailures
  <2>3. Waiting' = {}
    BY <2>2, Zenon DEF Waiting, Waits
  <2> QED BY <2>1, <2>3, <1>0, FewerWait
<1>7. ASSUME NEW r \in Requests, req[r].op = "sign_out", CountFailure(r) PROVE BoundInv'
  <2>1. CASE ~req[r].counted
    BY <1>0, <1>7, <2>1, <1>b DEF CountFailure
  <2>2. CASE req[r].counted
    <3>1. failures' = failures + 1 /\ Table' /\ req'[r] = Idle
          /\ \A q \in Requests \ {r} : req'[q] = req[q]
      BY <1>0, <1>7, <2>2, OneHandler, Zenon DEF CountFailure, Ends
    <3>2. Waiting' = Waiting \ {r} /\ r \in Waiting
      BY <1>7, <1>a, <2>2, <3>1, Zenon DEF Waiting, Waits
    <3>3. IsFiniteSet(Waiting) /\ Cardinality(Waiting) \in Nat
      BY FS_Subset, FS_CardinalityType, Zenon DEF BoundConstants, Waiting
    <3>4. Cardinality(Waiting') = Cardinality(Waiting) - 1
      BY <3>2, <3>3, FS_RemoveElement, Zenon
    <3>5. failures + Cardinality(Waiting) =< Limit - 1 + Cardinality(Requests)
      BY Zenon DEF BoundInv, SignOutsBounded, Waiting, Waits
    <3>6. failures' + Cardinality(Waiting') =< Limit - 1 + Cardinality(Requests)
      BY <1>0, <3>1, <3>3, <3>4, <3>5
    <3> QED BY <1>0, <3>1, <3>6 DEF BoundInv, SignOutsBounded, Waiting, Waits
  <2> QED BY <2>1, <2>2, Zenon
<1>8. ASSUME NEW r \in Requests, SignedOut(r) PROVE BoundInv'
  BY <1>8, <1>b, <1>6, <1>7, Zenon DEF SignedOut
<1>9. CASE WindowPasses
  <2>1. failures' \in Nat /\ failures' =< failures /\ UNCHANGED req
    BY <1>9, <1>0, FS_CardinalityType DEF WindowPasses, BoundConstants
  <2> QED BY <1>0, <2>1, FewerWait, Zenon DEF Table, Waiting, Waits
<1>10. CASE Restart
  <2>1. failures' = 0 /\ req' = [q \in Requests |-> Idle]
    BY <1>10, Zenon DEF Restart
  <2>2. Table' /\ Waiting' = {}
    BY <2>1, <1>a, Zenon DEF Table, Waiting, Waits
  <2> QED BY <1>0, <2>1, <2>2, FewerWait
<1>11. ASSUME NEW r \in Requests, Handler(r) PROVE BoundInv'
  BY <1>11, <1>2, <1>3, <1>4, <1>5, <1>8, Zenon DEF Handler
<1>12. CASE SessionEnds \/ Diagnostics \/ CreateAdmin \/ ConfigureWireGuard \/ Activate
  BY <1>12, <1>1, Zenon DEF SessionEnds, Diagnostics, CreateAdmin, ConfigureWireGuard, Activate
<1>13. CASE UNCHANGED vars
  BY <1>13, <1>1, Zenon DEF vars
<1> QED BY <1>9, <1>10, <1>11, <1>12, <1>13, Zenon DEF Next

\* For any number of handlers: the limit on failed sign-outs is passed by no
\* more than the handlers that were under way when it was reached.
THEOREM SignOutsLimited ==
  ASSUME BoundConstants
  PROVE Spec => []SignOutsBounded
<1>1. Init => BoundInv
  <2> SUFFICES ASSUME Init PROVE BoundInv
    BY Zenon
  <2>1. Table /\ failures = 0 /\ Waiting = {}
    BY Zenon DEF Init, Table, Waiting, Waits, Idle
  <2>2. Cardinality(Waiting) = 0 /\ Cardinality(Requests) \in Nat
    BY <2>1, FS_EmptySet, FS_CardinalityType, Zenon DEF BoundConstants
  <2>3. failures + Cardinality(Waiting) =< Limit - 1 + Cardinality(Requests)
    BY <2>1, <2>2 DEF BoundConstants
  <2> QED BY <2>1, <2>3, Zenon DEF BoundInv, SignOutsBounded, Waiting, Waits
<1>2. BoundInv /\ [Next]_vars => BoundInv'
  BY BoundStep, Zenon
<1>3. BoundInv => SignOutsBounded
  BY Zenon DEF BoundInv
<1> QED BY <1>1, <1>2, <1>3, PTL DEF Spec

-----------------------------------------------------------------------------
(* The setup of the ingress, main.py's configure_wireguard in full.  The     *)
(* wizard sees one step of it, so that it is an instance with variables of   *)
(* its own.                                                                  *)

CONSTANT MaxCuts

VARIABLES runtime, file, rows, configured, enabled, up, pc, by, tried, answer, cuts

I == INSTANCE InitialSetup

-----------------------------------------------------------------------------
(* The inductive invariant. A power loss replaces what a reader sees by what *)
(* is on the disk, so it speaks of the journal's two contents together.      *)

Phases == {"absent", "pending", "attempted", "committed"}
Keys == {"absent", "key"}

Jn == file["journal"].now
Jd == file["journal"].disk
Sn == file["server"].now
Sd == file["server"].disk
Cn == file["client"].now
Cd == file["client"].disk

Typed ==
  /\ file = [n \in I!Names |-> [now |-> file[n].now, disk |-> file[n].disk]]
  /\ Jn \in Phases /\ Jd \in Phases
  /\ Sn \in Keys /\ Sd \in Keys /\ Cn \in Keys /\ Cd \in Keys
  /\ runtime \in {"native", "container"}
  /\ rows \in BOOLEAN /\ configured \in BOOLEAN /\ enabled \in BOOLEAN
  /\ up \in BOOLEAN /\ tried \in BOOLEAN

Dark == ~up /\ ~enabled
Unclaimed == ~rows /\ ~configured

\* Nothing of an ingress, and nothing that a power loss could bring back.
Nothing ==
  /\ Sn = "absent" /\ Sd = "absent" /\ Cn = "absent" /\ Cd = "absent"
  /\ Unclaimed /\ Dark

KeysOnDisk == Sn = "key" /\ Sd = "key" /\ Cn = "key" /\ Cd = "key"

\* All of an ingress, and nothing of it that a power loss could take away.
Everything == KeysOnDisk /\ rows /\ configured /\ (runtime = "native" => enabled)

\* What holds wherever the setup, its rollback or its recovery is.
Always ==
  /\ rows => KeysOnDisk
  /\ configured => rows
  /\ runtime = "container" => ~enabled
  /\ "pending" \in {Jn, Jd} => Dark
  /\ (up \/ enabled) /\ ~configured => Jn = "attempted" /\ Jd = "attempted"
  /\ "committed" \in {Jn, Jd} => Everything
  /\ Jn = "committed" => Jd \in {"committed", "attempted"}
  /\ Jd = "committed" => Jn \in {"committed", "absent"}
  /\ Jn = "absent" => Nothing \/ (Everything /\ Jd # "pending")
  /\ Jd = "absent" => Jn \in {"absent", "pending"}
  /\ Jd = "absent" /\ Jn = "pending" => Nothing
  /\ answer = "ok" => Jn = "absent" /\ Jd = "absent" /\ Everything

\* What holds in addition while a step is between two others.
Writing == Jn = "pending" /\ Jd = "pending" /\ Unclaimed /\ ~tried
Activating == Jn = "attempted" /\ Jd = "attempted" /\ tried /\ Sn = "key" /\ Cn = "key"
Active == Activating /\ up /\ (runtime = "native" => enabled)
Undoing == Jn \in {"pending", "attempted"} /\ Dark
Cleared == Undoing /\ Unclaimed

Places ==
  /\ pc = "server" => Writing
  /\ pc = "client" => Writing /\ Sn = "key"
  /\ pc = "intend" => Writing /\ Sn = "key" /\ Cn = "key"
  /\ pc = "activate" => Activating /\ Unclaimed /\ Dark
  /\ pc = "sync" => Active /\ Unclaimed
  /\ pc = "migrate" => Active /\ Unclaimed /\ KeysOnDisk
  /\ pc = "settings" => Active /\ rows /\ ~configured
  /\ pc \in {"routes", "commit"} => Active /\ rows /\ configured
  /\ pc = "clear" => Jn = "committed" /\ Jd = "committed"
  /\ pc = "inner" => Unclaimed /\ {Jn, Jd} \subseteq {"pending", "attempted"}
                     /\ (~tried => Dark)
  /\ pc = "innerfiles" => Cleared /\ Jd \in {"pending", "attempted"}
  /\ pc = "undo" => Jn \in {"pending", "attempted"} /\ (~tried => Dark)
  /\ pc = "undorows" => Undoing
  /\ pc = "undoserver" => Cleared
  /\ pc = "undoclient" => Cleared /\ Sn = "absent"
  /\ pc = "undojournal" => Cleared /\ Nothing

SetupInv == Typed /\ Always /\ Places

-----------------------------------------------------------------------------
(* What the ways to write a file leave in the six contents.                  *)

Others(n) == \A m \in I!Names \ {n} : file'[m] = file[m]
Shape == file = [n \in I!Names |-> [now |-> file[n].now, disk |-> file[n].disk]]

\* A synced write.
LEMMA SyncedWrite ==
  ASSUME Shape, NEW n \in I!Names, NEW v, file' = I!WrittenSynced(n, v)
  PROVE Shape' /\ Others(n) /\ file'[n].now = v /\ file'[n].disk = v
BY Zenon DEF Shape, I!WrittenSynced, I!Same, Others

\* A write that is not synced.
LEMMA LooseWrite ==
  ASSUME Shape, NEW n \in I!Names, NEW v, file' = [file EXCEPT ![n].now = v]
  PROVE Shape' /\ Others(n) /\ file'[n].now = v /\ file'[n].disk = file[n].disk
BY DEF Shape, Others

\* A write that may have failed anywhere.
LEMMA AnyWrite ==
  ASSUME Shape, NEW n \in I!Names, NEW v, file' \in I!Written(n, v)
  PROVE /\ Shape' /\ Others(n)
        /\ \/ file'[n].now = file[n].now /\ file'[n].disk = file[n].disk
           \/ file'[n].now = v /\ file'[n].disk \in {file[n].disk, v}
<1>1. CASE file' = file
  BY <1>1, Zenon DEF Shape, Others
<1>2. CASE file' = [file EXCEPT ![n].now = v]
  BY <1>2, LooseWrite, Zenon
<1>3. CASE file' = I!WrittenSynced(n, v)
  BY <1>3, SyncedWrite, Zenon
<1> QED BY <1>1, <1>2, <1>3, Zenon DEF I!Written, I!WrittenSynced

\* The contents by name, as the invariant speaks of them.
LEMMA Named ==
  /\ I!Names = {"journal", "server", "client"}
  /\ Others("journal") => UNCHANGED <<Sn, Sd, Cn, Cd>>
  /\ Others("server") => UNCHANGED <<Jn, Jd, Cn, Cd>>
  /\ Others("client") => UNCHANGED <<Jn, Jd, Sn, Sd>>
BY Zenon DEF I!Names, Others, Jn, Jd, Sn, Sd, Cn, Cd

\* An untouched file system.
LEMMA Untouched ==
  Shape /\ UNCHANGED file => Shape' /\ UNCHANGED <<Jn, Jd, Sn, Sd, Cn, Cd>>
BY Zenon DEF Shape, Jn, Jd, Sn, Sd, Cn, Cd

\* A write of the journal, of the server file and of the client file.
LEMMA JournalWrite ==
  ASSUME Shape, NEW v, file' \in I!Written("journal", v)
  PROVE /\ Shape' /\ UNCHANGED <<Sn, Sd, Cn, Cd>>
        /\ \/ UNCHANGED <<Jn, Jd>>
           \/ Jn' = v /\ Jd' \in {Jd, v}
BY AnyWrite, Named, Zenon DEF Jn, Jd

LEMMA JournalSynced ==
  ASSUME Shape, NEW v, file' = I!WrittenSynced("journal", v)
  PROVE Shape' /\ UNCHANGED <<Sn, Sd, Cn, Cd>> /\ Jn' = v /\ Jd' = v
BY SyncedWrite, Named, Zenon DEF Jn, Jd

LEMMA KeyWrite ==
  ASSUME Shape, NEW v
  PROVE /\ file' \in I!Written("server", v) =>
             /\ Shape' /\ UNCHANGED <<Jn, Jd, Cn, Cd>>
             /\ UNCHANGED <<Sn, Sd>> \/ (Sn' = v /\ Sd' \in {Sd, v})
        /\ file' \in I!Written("client", v) =>
             /\ Shape' /\ UNCHANGED <<Jn, Jd, Sn, Sd>>
             /\ UNCHANGED <<Cn, Cd>> \/ (Cn' = v /\ Cd' \in {Cd, v})
        /\ file' = [file EXCEPT !["server"].now = v] =>
             Shape' /\ UNCHANGED <<Jn, Jd, Cn, Cd, Sd>> /\ Sn' = v
        /\ file' = [file EXCEPT !["client"].now = v] =>
             Shape' /\ UNCHANGED <<Jn, Jd, Sn, Sd, Cd>> /\ Cn' = v
<1>1. ASSUME file' \in I!Written("server", v)
      PROVE /\ Shape' /\ UNCHANGED <<Jn, Jd, Cn, Cd>>
            /\ UNCHANGED <<Sn, Sd>> \/ (Sn' = v /\ Sd' \in {Sd, v})
  BY <1>1, AnyWrite, Named, Zenon DEF Sn, Sd
<1>2. ASSUME file' \in I!Written("client", v)
      PROVE /\ Shape' /\ UNCHANGED <<Jn, Jd, Sn, Sd>>
            /\ UNCHANGED <<Cn, Cd>> \/ (Cn' = v /\ Cd' \in {Cd, v})
  BY <1>2, AnyWrite, Named, Zenon DEF Cn, Cd
<1>3. ASSUME file' = [file EXCEPT !["server"].now = v]
      PROVE Shape' /\ UNCHANGED <<Jn, Jd, Cn, Cd, Sd>> /\ Sn' = v
  BY <1>3, LooseWrite, Named, Zenon DEF Sn, Sd
<1>4. ASSUME file' = [file EXCEPT !["client"].now = v]
      PROVE Shape' /\ UNCHANGED <<Jn, Jd, Sn, Sd, Cd>> /\ Cn' = v
  BY <1>4, LooseWrite, Named, Zenon DEF Cn, Cd
<1> QED BY <1>1, <1>2, <1>3, <1>4, Zenon

\* The invariant's first part has the shape of the files in it.
LEMMA Shaped == SetupInv => Shape /\ Typed /\ Always /\ Places
BY Zenon DEF SetupInv, Typed, Shape

-----------------------------------------------------------------------------
(* The recovery.                                                             *)

\* A committed intent is dropped or stays.
LEMMA RecoverCommittedKeeps == SetupInv /\ I!RecoverCommitted => SetupInv'
<1> SUFFICES ASSUME SetupInv, I!RecoverCommitted PROVE SetupInv'
  BY Zenon
<1>1. Shape /\ Typed /\ Always /\ Places
  BY Shaped, Zenon
<1>2. /\ Jn = "committed" /\ Shape' /\ UNCHANGED <<Sn, Sd, Cn, Cd>>
      /\ \/ Jn' = "absent" /\ Jd' = "absent"
         \/ Jn' \in {Jn, "absent"} /\ Jd' = Jd /\ answer' \in {answer, "error"}
  <2>1. CASE file' = I!WrittenSynced("journal", "absent")
    BY <1>1, <2>1, JournalSynced, Zenon DEF I!RecoverCommitted, I!Intent, I!Now, Jn
  <2>2. CASE file' = file /\ I!Answer("error")
    BY <1>1, <2>2, Untouched, Zenon DEF I!RecoverCommitted, I!Intent, I!Now, Jn, I!Answer
  <2>3. CASE file' = [file EXCEPT !["journal"].now = "absent"] /\ I!Answer("error")
    BY <1>1, <2>3, LooseWrite, Named, Zenon DEF I!RecoverCommitted, I!Intent, I!Now, Jn, Jd, I!Answer
  <2> QED BY <2>1, <2>2, <2>3, Zenon DEF I!RecoverCommitted
<1>3. /\ UNCHANGED <<runtime, rows, configured, enabled, up, tried>>
      /\ pc' \in {"idle", "down"} /\ answer' \in {answer, "ok", "error"}
  BY <1>1, Zenon DEF I!RecoverCommitted, I!Persistent, I!Ingress, I!Answer, I!Over
<1>4. Typed'
  BY <1>1, <1>2, <1>3 DEF Typed, Shape, Phases, Keys
<1>5. Always'
  BY <1>1, <1>2, <1>3, Zenon DEF Typed, Places, Writing, Activating, Active, Undoing,
    Cleared, Always, Everything, KeysOnDisk, Nothing, Dark, Unclaimed
<1>6. Places'
  BY <1>1, <1>2, <1>3, Zenon DEF Typed, Places, Writing, Activating, Active, Undoing,
    Cleared, Always, Everything, KeysOnDisk, Nothing, Dark, Unclaimed
<1> QED BY <1>4, <1>5, <1>6, Zenon DEF SetupInv

\* A pending one is on its way back, and the memory agrees with it.
LEMMA RecoverPendingKeeps == SetupInv /\ I!RecoverPending => SetupInv'
<1> SUFFICES ASSUME SetupInv, I!RecoverPending PROVE SetupInv'
  BY Zenon
<1>1. Shape /\ Typed /\ Always /\ Places
  BY Shaped, Zenon
<1>2. Shape' /\ UNCHANGED <<Jn, Jd, Sn, Sd, Cn, Cd>>
  BY <1>1, Untouched, Zenon DEF I!RecoverPending
<1>3. /\ UNCHANGED <<runtime, rows, configured, enabled, up, answer>> /\ pc' = "undo"
      /\ Jn \in {"pending", "attempted"} /\ tried' = (Jn = "attempted")
  BY <1>1, Zenon DEF I!RecoverPending, I!Persistent, I!Ingress, I!Intent, I!Now, Jn
<1>4. Typed'
  BY <1>1, <1>2, <1>3 DEF Typed, Shape, Phases, Keys
<1>5. Always'
  BY <1>1, <1>2, <1>3, Zenon DEF Typed, Places, Writing, Activating, Active, Undoing,
    Cleared, Always, Everything, KeysOnDisk, Nothing, Dark, Unclaimed
<1>6. Places'
  BY <1>1, <1>2, <1>3, Zenon DEF Typed, Places, Writing, Activating, Active, Undoing,
    Cleared, Always, Everything, KeysOnDisk, Nothing, Dark, Unclaimed
<1> QED BY <1>4, <1>5, <1>6, Zenon DEF SetupInv

\* There is nothing to recover.
LEMMA RecoverNothingKeeps == SetupInv /\ I!RecoverNothing => SetupInv'
<1> SUFFICES ASSUME SetupInv, I!RecoverNothing PROVE SetupInv'
  BY Zenon
<1>1. Shape /\ Typed /\ Always /\ Places
  BY Shaped, Zenon
<1>2. Shape' /\ UNCHANGED <<Jn, Jd, Sn, Sd, Cn, Cd>>
  BY <1>1, Untouched, Zenon DEF I!RecoverNothing
<1>3. UNCHANGED <<runtime, rows, configured, enabled, up, tried, answer>> /\ pc' = "idle"
  BY <1>1, Zenon DEF I!RecoverNothing, I!Persistent, I!Ingress
<1>4. Typed'
  BY <1>1, <1>2, <1>3 DEF Typed, Shape, Phases, Keys
<1>5. Always'
  BY <1>1, <1>2, <1>3, Zenon DEF Typed, Places, Writing, Activating, Active, Undoing,
    Cleared, Always, Everything, KeysOnDisk, Nothing, Dark, Unclaimed
<1>6. Places'
  BY <1>1, <1>2, <1>3, Zenon DEF Typed, Places, Writing, Activating, Active, Undoing,
    Cleared, Always, Everything, KeysOnDisk, Nothing, Dark, Unclaimed
<1> QED BY <1>4, <1>5, <1>6, Zenon DEF SetupInv

\* A container's parent takes the interface down first.
LEMMA ParentRecoverKeeps == SetupInv /\ I!ParentRecover => SetupInv'
<1> SUFFICES ASSUME SetupInv, I!ParentRecover PROVE SetupInv'
  BY Zenon
<1>1. Shape /\ Typed /\ Always /\ Places
  BY Shaped, Zenon
<1>2. Shape' /\ UNCHANGED <<Jn, Jd, Sn, Sd, Cn, Cd>>
  BY <1>1, Untouched, Zenon DEF I!ParentRecover
<1>3. /\ UNCHANGED <<runtime, rows, configured, enabled, answer>>
      /\ pc' \in {"undorows", "down"}
      /\ runtime = "container" /\ Jn \in {"pending", "attempted"} /\ up' = FALSE /\ tried' = FALSE
  BY <1>1, Zenon DEF I!ParentRecover, I!Persistent, I!Intent, I!Now, Jn
<1>4. Typed'
  BY <1>1, <1>2, <1>3, ZenonT(60) DEF Typed, Shape, Phases, Keys
<1>5. Always'
  BY <1>1, <1>2, <1>3, Zenon DEF Typed, Places, Writing, Activating, Active, Undoing,
    Cleared, Always, Everything, KeysOnDisk, Nothing, Dark, Unclaimed
<1>6. Places'
  BY <1>1, <1>2, <1>3, Zenon DEF Typed, Places, Writing, Activating, Active, Undoing,
    Cleared, Always, Everything, KeysOnDisk, Nothing, Dark, Unclaimed
<1> QED BY <1>4, <1>5, <1>6, Zenon DEF SetupInv

\* The service starts, in a container with the interface of the settings.
LEMMA StartKeeps == SetupInv /\ I!Start => SetupInv'
<1> SUFFICES ASSUME SetupInv, I!Start PROVE SetupInv'
  BY Zenon
<1>1. Shape /\ Typed /\ Always /\ Places
  BY Shaped, Zenon
<1>2. Shape' /\ UNCHANGED <<Jn, Jd, Sn, Sd, Cn, Cd>>
  BY <1>1, Untouched, Zenon DEF I!Start
<1>3. /\ UNCHANGED <<runtime, rows, configured, enabled, tried, answer>>
      /\ pc' = "recover" /\ up' \in BOOLEAN
      /\ runtime = "container" => Jn \in {"absent", "committed"} /\ up' = configured
      /\ runtime # "container" => up' = up
  BY <1>1, Zenon DEF I!Start, I!Persistent, I!Intent, I!Now, Jn, Typed
<1>4. Typed'
  BY <1>1, <1>2, <1>3 DEF Typed, Shape, Phases, Keys
<1>5. Always'
  BY <1>1, <1>2, <1>3, Zenon DEF Typed, Places, Writing, Activating, Active, Undoing,
    Cleared, Always, Everything, KeysOnDisk, Nothing, Dark, Unclaimed
<1>6. Places'
  BY <1>1, <1>2, <1>3, Zenon DEF Typed, Places, Writing, Activating, Active, Undoing,
    Cleared, Always, Everything, KeysOnDisk, Nothing, Dark, Unclaimed
<1> QED BY <1>4, <1>5, <1>6, Zenon DEF SetupInv

\* A request finds an intent.
LEMMA RetryKeeps == SetupInv /\ I!Retry => SetupInv'
<1> SUFFICES ASSUME SetupInv, I!Retry PROVE SetupInv'
  BY Zenon
<1>1. Shape /\ Typed /\ Always /\ Places
  BY Shaped, Zenon
<1>2. Shape' /\ UNCHANGED <<Jn, Jd, Sn, Sd, Cn, Cd>>
  BY <1>1, Untouched, Zenon DEF I!Retry
<1>3. UNCHANGED <<runtime, rows, configured, enabled, up, tried, answer>> /\ pc' = "recover"
  BY <1>1, Zenon DEF I!Retry, I!Persistent, I!Ingress
<1>4. Typed'
  BY <1>1, <1>2, <1>3 DEF Typed, Shape, Phases, Keys
<1>5. Always'
  BY <1>1, <1>2, <1>3, Zenon DEF Typed, Places, Writing, Activating, Active, Undoing,
    Cleared, Always, Everything, KeysOnDisk, Nothing, Dark, Unclaimed
<1>6. Places'
  BY <1>1, <1>2, <1>3, Zenon DEF Typed, Places, Writing, Activating, Active, Undoing,
    Cleared, Always, Everything, KeysOnDisk, Nothing, Dark, Unclaimed
<1> QED BY <1>4, <1>5, <1>6, Zenon DEF SetupInv

-----------------------------------------------------------------------------
(* The setup.                                                                *)

\* The intent is written where there is nothing, or the request ends.
LEMMA RequestKeeps == SetupInv /\ I!Request => SetupInv'
<1> SUFFICES ASSUME SetupInv, I!Request PROVE SetupInv'
  BY Zenon
<1>1. Shape /\ Typed /\ Always /\ Places
  BY Shaped, Zenon
<1>2. /\ Shape' /\ UNCHANGED <<Sn, Sd, Cn, Cd>>
      /\ \/ Jn' = "pending" /\ Jd' = "pending" /\ pc' = "server"
         \/ UNCHANGED <<Jn, Jd>> /\ pc' = "idle"
         \/ Jn' = "pending" /\ Jd' \in {Jd, "pending"} /\ pc' = "idle"
  BY <1>1, JournalSynced, JournalWrite, Zenon DEF I!Request
<1>3. /\ UNCHANGED <<runtime, rows, configured, enabled, up>> /\ tried' = FALSE
      /\ answer' \in {"none", "error"}
      /\ Jn = "absent" /\ ~configured /\ ~rows /\ Sn = "absent" /\ Cn = "absent"
  BY <1>1, Zenon DEF I!Request, I!Persistent, I!Ingress, I!Intent, I!Occupied, I!Now, Jn, Sn, Cn
<1>4. Typed'
  BY <1>1, <1>2, <1>3, Zenon DEF Typed, Shape, Phases, Keys
<1>5. Always'
  BY <1>1, <1>2, <1>3, Zenon DEF Typed, Places, Writing, Activating, Active, Undoing,
    Cleared, Always, Everything, KeysOnDisk, Nothing, Dark, Unclaimed
<1>6. Places'
  BY <1>1, <1>2, <1>3, Zenon DEF Typed, Places, Writing, Activating, Active, Undoing,
    Cleared, Always, Everything, KeysOnDisk, Nothing, Dark, Unclaimed
<1> QED BY <1>4, <1>5, <1>6, Zenon DEF SetupInv

\* A request that is refused is rolled back.
LEMMA InvalidRequestKeeps == SetupInv /\ I!InvalidRequest => SetupInv'
<1> SUFFICES ASSUME SetupInv, I!InvalidRequest PROVE SetupInv'
  BY Zenon
<1>1. Shape /\ Typed /\ Always /\ Places
  BY Shaped, Zenon
<1>2. Shape' /\ UNCHANGED <<Jn, Jd, Sn, Sd, Cn, Cd>>
  BY <1>1, Untouched, Zenon DEF I!InvalidRequest
<1>3. /\ UNCHANGED <<runtime, rows, configured, enabled, up, tried, answer>>
      /\ pc = "server" /\ pc' \in {"inner", "undo"}
  BY <1>1, Zenon DEF I!InvalidRequest, I!Persistent, I!Ingress, I!Fails
<1>4. Typed'
  BY <1>1, <1>2, <1>3 DEF Typed, Shape, Phases, Keys
<1>5. Always'
  BY <1>1, <1>2, <1>3, Zenon DEF Typed, Places, Writing, Activating, Active, Undoing,
    Cleared, Always, Everything, KeysOnDisk, Nothing, Dark, Unclaimed
<1>6. Places'
  BY <1>1, <1>2, <1>3, Zenon DEF Typed, Places, Writing, Activating, Active, Undoing,
    Cleared, Always, Everything, KeysOnDisk, Nothing, Dark, Unclaimed
<1> QED BY <1>4, <1>5, <1>6, Zenon DEF SetupInv

\* The server file is written, or its write fails.
LEMMA WriteServerKeeps == SetupInv /\ I!WriteServer => SetupInv'
<1> SUFFICES ASSUME SetupInv, I!WriteServer PROVE SetupInv'
  BY Zenon
<1>1. Shape /\ Typed /\ Always /\ Places
  BY Shaped, Zenon
<1>2. /\ Shape' /\ UNCHANGED <<Jn, Jd, Cn, Cd>>
      /\ \/ Sn' = "key" /\ Sd' = Sd /\ pc' = "client"
         \/ UNCHANGED <<Sn, Sd>> /\ pc' \in {"inner", "undo"}
         \/ Sn' = "key" /\ Sd' \in {Sd, "key"} /\ pc' \in {"inner", "undo"}
  BY <1>1, KeyWrite, Zenon DEF I!WriteServer, I!Fails
<1>3. UNCHANGED <<runtime, rows, configured, enabled, up, tried, answer>> /\ pc = "server"
  BY <1>1, Zenon DEF I!WriteServer, I!Persistent, I!Ingress
<1>4. Typed'
  BY <1>1, <1>2, <1>3 DEF Typed, Shape, Phases, Keys
<1>5. Always'
  BY <1>1, <1>2, <1>3, Zenon DEF Typed, Places, Writing, Activating, Active, Undoing,
    Cleared, Always, Everything, KeysOnDisk, Nothing, Dark, Unclaimed
<1>6. Places'
  BY <1>1, <1>2, <1>3, Zenon DEF Typed, Places, Writing, Activating, Active, Undoing,
    Cleared, Always, Everything, KeysOnDisk, Nothing, Dark, Unclaimed
<1> QED BY <1>4, <1>5, <1>6, Zenon DEF SetupInv

\* The client file is written, or its write fails.
LEMMA WriteClientKeeps == SetupInv /\ I!WriteClient => SetupInv'
<1> SUFFICES ASSUME SetupInv, I!WriteClient PROVE SetupInv'
  BY Zenon
<1>1. Shape /\ Typed /\ Always /\ Places
  BY Shaped, Zenon
<1>2. /\ Shape' /\ UNCHANGED <<Jn, Jd, Sn, Sd>>
      /\ \/ Cn' = "key" /\ Cd' = Cd /\ pc' = "intend"
         \/ UNCHANGED <<Cn, Cd>> /\ pc' \in {"inner", "undo"}
         \/ Cn' = "key" /\ Cd' \in {Cd, "key"} /\ pc' \in {"inner", "undo"}
  BY <1>1, KeyWrite, Zenon DEF I!WriteClient, I!Fails
<1>3. UNCHANGED <<runtime, rows, configured, enabled, up, tried, answer>> /\ pc = "client"
  BY <1>1, Zenon DEF I!WriteClient, I!Persistent, I!Ingress
<1>4. Typed'
  BY <1>1, <1>2, <1>3 DEF Typed, Shape, Phases, Keys
<1>5. Always'
  BY <1>1, <1>2, <1>3, Zenon DEF Typed, Places, Writing, Activating, Active, Undoing,
    Cleared, Always, Everything, KeysOnDisk, Nothing, Dark, Unclaimed
<1>6. Places'
  BY <1>1, <1>2, <1>3, Zenon DEF Typed, Places, Writing, Activating, Active, Undoing,
    Cleared, Always, Everything, KeysOnDisk, Nothing, Dark, Unclaimed
<1> QED BY <1>4, <1>5, <1>6, Zenon DEF SetupInv

\* The attempt is on the disk before the interface is touched.
LEMMA IntendKeeps == SetupInv /\ I!Intend => SetupInv'
<1> SUFFICES ASSUME SetupInv, I!Intend PROVE SetupInv'
  BY Zenon
<1>1. Shape /\ Typed /\ Always /\ Places
  BY Shaped, Zenon
<1>2. /\ Shape' /\ UNCHANGED <<Sn, Sd, Cn, Cd>>
      /\ \/ Jn' = "attempted" /\ Jd' = "attempted" /\ pc' = "activate"
         \/ UNCHANGED <<Jn, Jd>> /\ pc' \in {"inner", "undo"}
         \/ Jn' = "attempted" /\ Jd' \in {Jd, "attempted"} /\ pc' \in {"inner", "undo"}
  BY <1>1, JournalSynced, JournalWrite DEF I!Intend, I!Fails
<1>3. /\ UNCHANGED <<runtime, rows, configured, enabled, up, answer>> /\ tried' = TRUE
      /\ pc = "intend"
  BY <1>1, Zenon DEF I!Intend, I!Persistent, I!Ingress
<1>4. Typed'
  BY <1>1, <1>2, <1>3, ZenonT(60) DEF Typed, Shape, Phases, Keys
<1>5. Always'
  BY <1>1, <1>2, <1>3, Zenon DEF Typed, Places, Writing, Activating, Active, Undoing,
    Cleared, Always, Everything, KeysOnDisk, Nothing, Dark, Unclaimed
<1>6. Places'
  BY <1>1, <1>2, <1>3, Zenon DEF Typed, Places, Writing, Activating, Active, Undoing,
    Cleared, Always, Everything, KeysOnDisk, Nothing, Dark, Unclaimed
<1> QED BY <1>4, <1>5, <1>6, Zenon DEF SetupInv

\* The unit and the interface come up, or some of it.
LEMMA ActivateNativeKeeps == SetupInv /\ I!ActivateNative => SetupInv'
<1> SUFFICES ASSUME SetupInv, I!ActivateNative PROVE SetupInv'
  BY Zenon
<1>1. Shape /\ Typed /\ Always /\ Places
  BY Shaped, Zenon
<1>2. Shape' /\ UNCHANGED <<Jn, Jd, Sn, Sd, Cn, Cd>>
  BY <1>1, Untouched, Zenon DEF I!ActivateNative
<1>3. /\ UNCHANGED <<runtime, rows, configured, tried, answer>> /\ pc = "activate"
      /\ runtime = "native"
      /\ enabled' \in BOOLEAN /\ up' \in BOOLEAN
      /\ pc' \in {"inner", "undo"} \/ (pc' = "sync" /\ enabled' = TRUE /\ up' = TRUE)
  BY <1>1, Zenon DEF I!ActivateNative, I!Persistent, I!Fails
<1>4. Typed'
  BY <1>1, <1>2, <1>3, ZenonT(60) DEF Typed, Shape, Phases, Keys
<1>5. Always'
  BY <1>1, <1>2, <1>3, Zenon DEF Typed, Places, Writing, Activating, Active, Undoing,
    Cleared, Always, Everything, KeysOnDisk, Nothing, Dark, Unclaimed
<1>6. Places'
  BY <1>1, <1>2, <1>3, Zenon DEF Typed, Places, Writing, Activating, Active, Undoing,
    Cleared, Always, Everything, KeysOnDisk, Nothing, Dark, Unclaimed
<1> QED BY <1>4, <1>5, <1>6, Zenon DEF SetupInv

\* The interface comes up, or not.
LEMMA ActivateContainerKeeps == SetupInv /\ I!ActivateContainer => SetupInv'
<1> SUFFICES ASSUME SetupInv, I!ActivateContainer PROVE SetupInv'
  BY Zenon
<1>1. Shape /\ Typed /\ Always /\ Places
  BY Shaped, Zenon
<1>2. Shape' /\ UNCHANGED <<Jn, Jd, Sn, Sd, Cn, Cd>>
  BY <1>1, Untouched, Zenon DEF I!ActivateContainer
<1>3. /\ UNCHANGED <<runtime, rows, configured, enabled, tried, answer>>
      /\ pc = "activate" /\ runtime = "container" /\ up' \in BOOLEAN
      /\ pc' \in {"inner", "undo"} \/ (pc' = "sync" /\ up' = TRUE)
  BY <1>1, Zenon DEF I!ActivateContainer, I!Persistent, I!Fails
<1>4. Typed'
  BY <1>1, <1>2, <1>3 DEF Typed, Shape, Phases, Keys
<1>5. Always'
  BY <1>1, <1>2, <1>3, Zenon DEF Typed, Places, Writing, Activating, Active, Undoing,
    Cleared, Always, Everything, KeysOnDisk, Nothing, Dark, Unclaimed
<1>6. Places'
  BY <1>1, <1>2, <1>3, Zenon DEF Typed, Places, Writing, Activating, Active, Undoing,
    Cleared, Always, Everything, KeysOnDisk, Nothing, Dark, Unclaimed
<1> QED BY <1>4, <1>5, <1>6, Zenon DEF SetupInv

\* The two files are on the disk.
LEMMA SyncKeeps == SetupInv /\ I!Sync => SetupInv'
<1> SUFFICES ASSUME SetupInv, I!Sync PROVE SetupInv'
  BY Zenon
<1>1. Shape /\ Typed /\ Always /\ Places
  BY Shaped, Zenon
<1>2. /\ Shape' /\ UNCHANGED <<Jn, Jd, Sn, Cn>>
      /\ \/ Sd' = Sn /\ Cd' = Cn /\ pc' = "migrate"
         \/ UNCHANGED <<Sd, Cd>> /\ pc' = "undo"
  <2>1. CASE file' = I!Synced /\ pc' = "migrate"
    BY <1>1, <2>1, Named, Zenon DEF Shape, I!Synced, I!Same, Jn, Jd, Sn, Sd, Cn, Cd
  <2>2. CASE UNCHANGED file /\ pc' = "undo"
    BY <1>1, <2>2, Untouched, Zenon
  <2> QED BY <2>1, <2>2, Zenon DEF I!Sync
<1>3. UNCHANGED <<runtime, rows, configured, enabled, up, tried, answer>> /\ pc = "sync"
  BY <1>1, Zenon DEF I!Sync, I!Persistent, I!Ingress
<1>4. Typed'
  BY <1>1, <1>2, <1>3 DEF Typed, Shape, Phases, Keys
<1>5. Always'
  BY <1>1, <1>2, <1>3, Zenon DEF Typed, Places, Writing, Activating, Active, Undoing,
    Cleared, Always, Everything, KeysOnDisk, Nothing, Dark, Unclaimed
<1>6. Places'
  BY <1>1, <1>2, <1>3, Zenon DEF Typed, Places, Writing, Activating, Active, Undoing,
    Cleared, Always, Everything, KeysOnDisk, Nothing, Dark, Unclaimed
<1> QED BY <1>4, <1>5, <1>6, Zenon DEF SetupInv

\* The rows are saved.
LEMMA MigrateKeeps == SetupInv /\ I!Migrate => SetupInv'
<1> SUFFICES ASSUME SetupInv, I!Migrate PROVE SetupInv'
  BY Zenon
<1>1. Shape /\ Typed /\ Always /\ Places
  BY Shaped, Zenon
<1>2. Shape' /\ UNCHANGED <<Jn, Jd, Sn, Sd, Cn, Cd>>
  BY <1>1, Untouched, Zenon DEF I!Migrate
<1>3. /\ UNCHANGED <<runtime, configured, enabled, up, tried, answer>>
      /\ pc = "migrate" /\ rows' \in BOOLEAN
      /\ (rows' = TRUE /\ pc' = "settings") \/ (rows' = rows /\ pc' = "undo")
  BY <1>1, Zenon DEF I!Migrate, I!Ingress, Typed
<1>4. Typed'
  BY <1>1, <1>2, <1>3 DEF Typed, Shape, Phases, Keys
<1>5. Always'
  BY <1>1, <1>2, <1>3, Zenon DEF Typed, Places, Writing, Activating, Active, Undoing,
    Cleared, Always, Everything, KeysOnDisk, Nothing, Dark, Unclaimed
<1>6. Places'
  BY <1>1, <1>2, <1>3, Zenon DEF Typed, Places, Writing, Activating, Active, Undoing,
    Cleared, Always, Everything, KeysOnDisk, Nothing, Dark, Unclaimed
<1> QED BY <1>4, <1>5, <1>6, Zenon DEF SetupInv

\* The settings are saved.
LEMMA SaveSettingsKeeps == SetupInv /\ I!SaveSettings => SetupInv'
<1> SUFFICES ASSUME SetupInv, I!SaveSettings PROVE SetupInv'
  BY Zenon
<1>1. Shape /\ Typed /\ Always /\ Places
  BY Shaped, Zenon
<1>2. Shape' /\ UNCHANGED <<Jn, Jd, Sn, Sd, Cn, Cd>>
  BY <1>1, Untouched, Zenon DEF I!SaveSettings
<1>3. /\ UNCHANGED <<runtime, rows, enabled, up, tried, answer>> /\ pc = "settings"
      /\ configured' \in BOOLEAN
      /\ (configured' = TRUE /\ pc' = "routes") \/ (configured' = configured /\ pc' = "undo")
  BY <1>1, Zenon DEF I!SaveSettings, I!Ingress, Typed
<1>4. Typed'
  BY <1>1, <1>2, <1>3 DEF Typed, Shape, Phases, Keys
<1>5. Always'
  BY <1>1, <1>2, <1>3, Zenon DEF Typed, Places, Writing, Activating, Active, Undoing,
    Cleared, Always, Everything, KeysOnDisk, Nothing, Dark, Unclaimed
<1>6. Places'
  BY <1>1, <1>2, <1>3, Zenon DEF Typed, Places, Writing, Activating, Active, Undoing,
    Cleared, Always, Everything, KeysOnDisk, Nothing, Dark, Unclaimed
<1> QED BY <1>4, <1>5, <1>6, Zenon DEF SetupInv

\* The routes are reconciled, or not.
LEMMA RoutesKeeps == SetupInv /\ I!Routes => SetupInv'
<1> SUFFICES ASSUME SetupInv, I!Routes PROVE SetupInv'
  BY Zenon
<1>1. Shape /\ Typed /\ Always /\ Places
  BY Shaped, Zenon
<1>2. Shape' /\ UNCHANGED <<Jn, Jd, Sn, Sd, Cn, Cd>>
  BY <1>1, Untouched, Zenon DEF I!Routes
<1>3. /\ UNCHANGED <<runtime, rows, configured, enabled, up, tried, answer>>
      /\ pc = "routes" /\ pc' \in {"commit", "undo"}
  BY <1>1, Zenon DEF I!Routes, I!Persistent, I!Ingress
<1>4. Typed'
  BY <1>1, <1>2, <1>3 DEF Typed, Shape, Phases, Keys
<1>5. Always'
  BY <1>1, <1>2, <1>3, Zenon DEF Typed, Places, Writing, Activating, Active, Undoing,
    Cleared, Always, Everything, KeysOnDisk, Nothing, Dark, Unclaimed
<1>6. Places'
  BY <1>1, <1>2, <1>3, Zenon DEF Typed, Places, Writing, Activating, Active, Undoing,
    Cleared, Always, Everything, KeysOnDisk, Nothing, Dark, Unclaimed
<1> QED BY <1>4, <1>5, <1>6, Zenon DEF SetupInv

\* The commit marker is written, or nobody knows.
LEMMA CommitKeeps == SetupInv /\ I!Commit => SetupInv'
<1> SUFFICES ASSUME SetupInv, I!Commit PROVE SetupInv'
  BY Zenon
<1>1. Shape /\ Typed /\ Always /\ Places
  BY Shaped, Zenon
<1>2. /\ Shape' /\ UNCHANGED <<Sn, Sd, Cn, Cd>>
      /\ \/ Jn' = "committed" /\ Jd' = "committed" /\ pc' = "clear"
         \/ UNCHANGED <<Jn, Jd>> /\ pc' = "recover"
         \/ Jn' = "committed" /\ Jd' \in {Jd, "committed"} /\ pc' = "recover"
  BY <1>1, JournalSynced, JournalWrite DEF I!Commit
<1>3. UNCHANGED <<runtime, rows, configured, enabled, up, tried, answer>> /\ pc = "commit"
  BY <1>1, Zenon DEF I!Commit, I!Persistent, I!Ingress
<1>4. Typed'
  BY <1>1, <1>2, <1>3 DEF Typed, Shape, Phases, Keys
<1>5. Always'
  BY <1>1, <1>2, <1>3, Zenon DEF Typed, Places, Writing, Activating, Active, Undoing,
    Cleared, Always, Everything, KeysOnDisk, Nothing, Dark, Unclaimed
<1>6. Places'
  BY <1>1, <1>2, <1>3, Zenon DEF Typed, Places, Writing, Activating, Active, Undoing,
    Cleared, Always, Everything, KeysOnDisk, Nothing, Dark, Unclaimed
<1> QED BY <1>4, <1>5, <1>6, Zenon DEF SetupInv

\* The intent goes.
LEMMA ClearKeeps == SetupInv /\ I!Clear => SetupInv'
<1> SUFFICES ASSUME SetupInv, I!Clear PROVE SetupInv'
  BY Zenon
<1>1. Shape /\ Typed /\ Always /\ Places
  BY Shaped, Zenon
<1>2. /\ Shape' /\ UNCHANGED <<Sn, Sd, Cn, Cd>>
      /\ \/ Jn' = "absent" /\ Jd' = "absent"
         \/ UNCHANGED <<Jn, Jd>> /\ answer' \in {answer, "error"}
         \/ Jn' = "absent" /\ Jd' \in {Jd, "absent"} /\ answer' \in {answer, "error"}
  BY <1>1, JournalSynced, JournalWrite DEF I!Clear, I!Answer
<1>3. /\ UNCHANGED <<runtime, rows, configured, enabled, up, tried>> /\ pc = "clear"
      /\ pc' \in {"idle", "down"} /\ answer' \in {answer, "ok", "error"}
  BY <1>1, Zenon DEF I!Clear, I!Persistent, I!Ingress, I!Answer, I!Over
<1>4. Typed'
  BY <1>1, <1>2, <1>3 DEF Typed, Shape, Phases, Keys
<1>5. Always'
  BY <1>1, <1>2, <1>3, Zenon DEF Typed, Places, Writing, Activating, Active, Undoing,
    Cleared, Always, Everything, KeysOnDisk, Nothing, Dark, Unclaimed
<1>6. Places'
  BY <1>1, <1>2, <1>3, Zenon DEF Typed, Places, Writing, Activating, Active, Undoing,
    Cleared, Always, Everything, KeysOnDisk, Nothing, Dark, Unclaimed
<1> QED BY <1>4, <1>5, <1>6, Zenon DEF SetupInv

-----------------------------------------------------------------------------
(* The rollback.                                                             *)

\* A file that is removed.
LEMMA Removed ==
  ASSUME NEW f, f = [now |-> f.now, disk |-> f.disk]
  PROVE [f EXCEPT !.now = "absent"] = [now |-> "absent", disk |-> f.disk]
<1> DEFINE a == f.now
           b == f.disk
<1>1. f = [now |-> a, disk |-> b]
  BY Zenon
<1> HIDE DEF a, b
<1>2. [[now |-> a, disk |-> b] EXCEPT !.now = "absent"] = [now |-> "absent", disk |-> b]
  OBVIOUS
<1>3. [f EXCEPT !.now = "absent"] = [now |-> "absent", disk |-> b]
  BY <1>1, <1>2, Zenon
<1> QED BY <1>3, Zenon DEF b

\* What taking the runtime down leaves, whole and in part.
Down ==
  /\ Shape' /\ UNCHANGED <<Sn, Sd, Cn, Cd>>
  /\ \/ ~tried /\ UNCHANGED <<enabled, up, tried, Jn, Jd>>
     \/ /\ tried
        /\ enabled' = FALSE \/ (enabled' = enabled /\ runtime # "native")
        /\ up' = FALSE /\ tried' = FALSE /\ Jn' = "pending" /\ Jd' = "pending"

PartlyDown ==
  /\ Shape' /\ UNCHANGED <<Sn, Sd, Cn, Cd>> /\ tried
  /\ \/ /\ enabled' = enabled \/ enabled' = FALSE
        /\ up' = up \/ up' = FALSE
        /\ UNCHANGED <<tried, Jn, Jd>>
     \/ /\ enabled' = FALSE /\ up' = FALSE /\ tried' = FALSE
        /\ UNCHANGED <<Jn, Jd>> \/ (Jn' = "pending" /\ Jd' \in {Jd, "pending"})

\* Taking the runtime down does one or the other.
LEMMA DeactivationLeaves ==
  ASSUME Shape
  PROVE (I!Deactivated => Down) /\ (I!DeactivationFails => PartlyDown)
<1>1. ASSUME I!Deactivated PROVE Down
  <2>1. CASE tried
    <3>1. /\ file' = I!WrittenSynced("journal", "pending") /\ tried' = FALSE /\ up' = FALSE
          /\ enabled' = FALSE \/ (enabled' = enabled /\ runtime # "native")
      BY <1>1, <2>1, Zenon DEF I!Deactivated, I!UnitDown, I!ContainerDown
    <3>2. Shape' /\ UNCHANGED <<Sn, Sd, Cn, Cd>> /\ Jn' = "pending" /\ Jd' = "pending"
      BY <3>1, JournalSynced, Zenon
    <3> QED BY <2>1, <3>1, <3>2, Zenon DEF Down
  <2>2. CASE ~tried
    BY <1>1, <2>2, Untouched, Zenon DEF I!Deactivated, Down
  <2> QED BY <2>1, <2>2, Zenon
<1>2. ASSUME I!DeactivationFails PROVE PartlyDown
  <2>1. CASE /\ enabled' \in {enabled, FALSE} /\ up' \in {up, FALSE}
             /\ UNCHANGED <<tried, file>>
    BY <1>2, <2>1, Untouched, Zenon DEF I!DeactivationFails, PartlyDown
  <2>2. CASE /\ enabled' = FALSE /\ up' = FALSE /\ tried' = FALSE
             /\ file' \in I!Written("journal", "pending")
    BY <1>2, <2>2, JournalWrite, Zenon DEF I!DeactivationFails, PartlyDown
  <2> QED BY <1>2, <2>1, <2>2, Zenon DEF I!DeactivationFails
<1> QED BY <1>1, <1>2, Zenon

\* provision's rollback of the runtime.
LEMMA InnerUndoKeeps == SetupInv /\ I!InnerUndo => SetupInv'
<1> SUFFICES ASSUME SetupInv, I!InnerUndo PROVE SetupInv'
  BY Zenon
<1>1. Shape /\ Typed /\ Always /\ Places
  BY Shaped, Zenon
<1>2. (Down /\ pc' = "innerfiles") \/ (PartlyDown /\ pc' = "undo")
  BY <1>1, DeactivationLeaves, Zenon DEF I!InnerUndo
<1>3. UNCHANGED <<runtime, rows, configured, answer>> /\ pc = "inner"
  BY <1>1, Zenon DEF I!InnerUndo, I!Persistent
<1>4. Typed'
  BY <1>1, <1>2, <1>3, Zenon DEF Typed, Shape, Phases, Keys, Down, PartlyDown
<1>5. Always'
  BY <1>1, <1>2, <1>3 DEF Down, PartlyDown, Typed, Places, Writing, Activating, Active,
    Undoing, Cleared, Always, Everything, KeysOnDisk, Nothing, Dark, Unclaimed
<1>6. Places'
  BY <1>1, <1>2, <1>3 DEF Down, PartlyDown, Typed, Places, Writing, Activating, Active,
    Undoing, Cleared, Always, Everything, KeysOnDisk, Nothing, Dark, Unclaimed
<1> QED BY <1>4, <1>5, <1>6, Zenon DEF SetupInv

\* provision's rollback of the files.
LEMMA InnerFilesKeeps == SetupInv /\ I!InnerFiles => SetupInv'
<1> SUFFICES ASSUME SetupInv, I!InnerFiles PROVE SetupInv'
  BY Zenon
<1>1. Shape /\ Typed /\ Always /\ Places
  BY Shaped, Zenon
<1>2. /\ Shape' /\ UNCHANGED <<Jn, Jd, Sd, Cd>>
      /\ Sn' \in {Sn, "absent"} /\ Cn' \in {Cn, "absent"}
  <2>1. PICK gone \in SUBSET {"server", "client"} :
               file' = [n \in I!Names |-> IF n \in gone THEN [file[n] EXCEPT !.now = "absent"]
                                        ELSE file[n]]
    BY Zenon DEF I!InnerFiles
  <2>2. \A n \in I!Names : file[n] = [now |-> file[n].now, disk |-> file[n].disk]
    BY <1>1, Zenon DEF Shape
  <2>3. \A n \in I!Names : [file[n] EXCEPT !.now = "absent"] = [now |-> "absent", disk |-> file[n].disk]
    BY <2>2, Removed, Zenon
  <2>4. file' = [n \in I!Names |-> [now |-> IF n \in gone THEN "absent" ELSE file[n].now,
                                  disk |-> file[n].disk]]
    BY <2>1, <2>2, <2>3, Zenon
  <2> QED BY <2>4, Named, Zenon DEF Shape, Jn, Jd, Sn, Sd, Cn, Cd
<1>3. /\ UNCHANGED <<runtime, rows, configured, enabled, up, tried, answer>>
      /\ pc = "innerfiles" /\ pc' = "undo"
  BY <1>1, Zenon DEF I!InnerFiles, I!Persistent, I!Ingress
<1>4. Typed'
  BY <1>1, <1>2, <1>3 DEF Typed, Shape, Phases, Keys
<1>5. Always'
  BY <1>1, <1>2, <1>3, Zenon DEF Typed, Places, Writing, Activating, Active, Undoing,
    Cleared, Always, Everything, KeysOnDisk, Nothing, Dark, Unclaimed
<1>6. Places'
  BY <1>1, <1>2, <1>3, Zenon DEF Typed, Places, Writing, Activating, Active, Undoing,
    Cleared, Always, Everything, KeysOnDisk, Nothing, Dark, Unclaimed
<1> QED BY <1>4, <1>5, <1>6, Zenon DEF SetupInv

\* The rollback of the runtime.
LEMMA UndoRuntimeKeeps == SetupInv /\ I!UndoRuntime => SetupInv'
<1> SUFFICES ASSUME SetupInv, I!UndoRuntime PROVE SetupInv'
  BY Zenon
<1>1. Shape /\ Typed /\ Always /\ Places
  BY Shaped, Zenon
<1>2. (Down /\ pc' = "undorows") \/ (PartlyDown /\ pc' \in {"idle", "down"})
  BY <1>1, DeactivationLeaves, Zenon DEF I!UndoRuntime, I!Answer, I!Over
<1>3. /\ UNCHANGED <<runtime, rows, configured>> /\ pc = "undo"
      /\ answer' \in {answer, "error"}
  BY <1>1, Zenon DEF I!UndoRuntime, I!Persistent, I!Answer
<1>4. Typed'
  BY <1>1, <1>2, <1>3, Zenon DEF Typed, Shape, Phases, Keys, Down, PartlyDown
<1>5. Always'
  BY <1>1, <1>2, <1>3 DEF Down, PartlyDown, Typed, Places, Writing, Activating, Active,
    Undoing, Cleared, Always, Everything, KeysOnDisk, Nothing, Dark, Unclaimed
<1>6. Places'
  BY <1>1, <1>2, <1>3 DEF Down, PartlyDown, Typed, Places, Writing, Activating, Active,
    Undoing, Cleared, Always, Everything, KeysOnDisk, Nothing, Dark, Unclaimed
<1> QED BY <1>4, <1>5, <1>6, Zenon DEF SetupInv

\* The rollback of the database.
LEMMA UndoRowsKeeps == SetupInv /\ I!UndoRows => SetupInv'
<1> SUFFICES ASSUME SetupInv, I!UndoRows PROVE SetupInv'
  BY Zenon
<1>1. Shape /\ Typed /\ Always /\ Places
  BY Shaped, Zenon
<1>2. Shape' /\ UNCHANGED <<Jn, Jd, Sn, Sd, Cn, Cd>>
  BY <1>1, Untouched, Zenon DEF I!UndoRows
<1>3. /\ UNCHANGED <<runtime, enabled, up, tried>> /\ pc = "undorows"
      /\ answer' \in {answer, "error"} /\ rows' \in BOOLEAN /\ configured' \in BOOLEAN
      /\ \/ rows' = FALSE /\ configured' = FALSE /\ pc' = "undoserver"
         \/ UNCHANGED <<rows, configured>> /\ pc' \in {"idle", "down"}
  BY <1>1, Zenon DEF I!UndoRows, I!Persistent, I!Ingress, I!Answer, I!Over, Typed
<1>4. Typed'
  BY <1>1, <1>2, <1>3, ZenonT(60) DEF Typed, Shape, Phases, Keys
<1>5. Always'
  BY <1>1, <1>2, <1>3 DEF Typed, Places, Writing, Activating, Active, Undoing,
    Cleared, Always, Everything, KeysOnDisk, Nothing, Dark, Unclaimed
<1>6. Places'
  BY <1>1, <1>2, <1>3, Zenon DEF Typed, Places, Writing, Activating, Active, Undoing,
    Cleared, Always, Everything, KeysOnDisk, Nothing, Dark, Unclaimed
<1> QED BY <1>4, <1>5, <1>6, Zenon DEF SetupInv

\* The rollback of the server file.
LEMMA UndoServerKeeps == SetupInv /\ I!UndoServer => SetupInv'
<1> SUFFICES ASSUME SetupInv, I!UndoServer PROVE SetupInv'
  BY Zenon
<1>1. Shape /\ Typed /\ Always /\ Places
  BY Shaped, Zenon
<1>2. /\ Shape' /\ UNCHANGED <<Jn, Jd, Sd, Cn, Cd>>
      /\ (Sn' = "absent" /\ pc' = "undoclient") \/ (Sn' = Sn /\ pc' \in {"idle", "down"})
  BY <1>1, KeyWrite, Untouched, Zenon DEF I!UndoServer, I!Answer, I!Over
<1>3. /\ UNCHANGED <<runtime, rows, configured, enabled, up, tried>>
      /\ pc = "undoserver" /\ answer' \in {answer, "error"}
  BY <1>1, Zenon DEF I!UndoServer, I!Persistent, I!Ingress, I!Answer
<1>4. Typed'
  BY <1>1, <1>2, <1>3 DEF Typed, Shape, Phases, Keys
<1>5. Always'
  BY <1>1, <1>2, <1>3, Zenon DEF Typed, Places, Writing, Activating, Active, Undoing,
    Cleared, Always, Everything, KeysOnDisk, Nothing, Dark, Unclaimed
<1>6. Places'
  BY <1>1, <1>2, <1>3, Zenon DEF Typed, Places, Writing, Activating, Active, Undoing,
    Cleared, Always, Everything, KeysOnDisk, Nothing, Dark, Unclaimed
<1> QED BY <1>4, <1>5, <1>6, Zenon DEF SetupInv

\* The rollback of the client file, and the directory's sync.
LEMMA UndoClientKeeps == SetupInv /\ I!UndoClient => SetupInv'
<1> SUFFICES ASSUME SetupInv, I!UndoClient PROVE SetupInv'
  BY Zenon
<1>1. Shape /\ Typed /\ Always /\ Places
  BY Shaped, Zenon
<1>2. /\ Shape' /\ UNCHANGED <<Jn, Jd, Sn>>
      /\ \/ Sd' = Sn /\ Cn' = "absent" /\ Cd' = "absent" /\ pc' = "undojournal"
         \/ UNCHANGED <<Sd, Cn, Cd>> /\ pc' \in {"idle", "down"}
         \/ Sd' = Sd /\ Cn' = "absent" /\ Cd' \in {Cd, "absent"} /\ pc' \in {"idle", "down"}
  <2>1. CASE /\ file' = [n \in I!Names |-> IF n = "client" THEN I!Same("absent") ELSE
                               IF n = "server" THEN I!Same(file[n].now) ELSE file[n]]
             /\ pc' = "undojournal"
    BY <1>1, <2>1, Named, Zenon DEF Shape, I!Same, Jn, Jd, Sn, Sd, Cn, Cd
  <2>2. CASE file' \in I!Written("client", "absent") /\ I!Answer("error")
    BY <1>1, <2>2, KeyWrite, Zenon DEF I!Answer, I!Over
  <2> QED BY <2>1, <2>2, Zenon DEF I!UndoClient
<1>3. /\ UNCHANGED <<runtime, rows, configured, enabled, up, tried>>
      /\ pc = "undoclient" /\ answer' \in {answer, "error"}
  BY <1>1, Zenon DEF I!UndoClient, I!Persistent, I!Ingress, I!Answer
<1>4. Typed'
  BY <1>1, <1>2, <1>3 DEF Typed, Shape, Phases, Keys
<1>5. Always'
  BY <1>1, <1>2, <1>3, Zenon DEF Typed, Places, Writing, Activating, Active, Undoing,
    Cleared, Always, Everything, KeysOnDisk, Nothing, Dark, Unclaimed
<1>6. Places'
  BY <1>1, <1>2, <1>3, Zenon DEF Typed, Places, Writing, Activating, Active, Undoing,
    Cleared, Always, Everything, KeysOnDisk, Nothing, Dark, Unclaimed
<1> QED BY <1>4, <1>5, <1>6, Zenon DEF SetupInv

\* The intent goes last.
LEMMA UndoJournalKeeps == SetupInv /\ I!UndoJournal => SetupInv'
<1> SUFFICES ASSUME SetupInv, I!UndoJournal PROVE SetupInv'
  BY Zenon
<1>1. Shape /\ Typed /\ Always /\ Places
  BY Shaped, Zenon
<1>2. /\ Shape' /\ UNCHANGED <<Sn, Sd, Cn, Cd>>
      /\ \/ UNCHANGED <<Jn, Jd>>
         \/ Jn' = "absent" /\ Jd' \in {Jd, "absent"}
  BY <1>1, JournalSynced, JournalWrite DEF I!UndoJournal
<1>3. /\ UNCHANGED <<runtime, rows, configured, enabled, up, tried>> /\ pc = "undojournal"
      /\ answer' \in {answer, "error"} /\ pc' \in {"idle", "down"}
  BY <1>1, Zenon DEF I!UndoJournal, I!Persistent, I!Ingress, I!Answer, I!RolledBack, I!Over
<1>4. Typed'
  BY <1>1, <1>2, <1>3, ZenonT(60) DEF Typed, Shape, Phases, Keys
<1>5. Always'
  BY <1>1, <1>2, <1>3, Zenon DEF Typed, Places, Writing, Activating, Active, Undoing,
    Cleared, Always, Everything, KeysOnDisk, Nothing, Dark, Unclaimed
<1>6. Places'
  BY <1>1, <1>2, <1>3, Zenon DEF Typed, Places, Writing, Activating, Active, Undoing,
    Cleared, Always, Everything, KeysOnDisk, Nothing, Dark, Unclaimed
<1> QED BY <1>4, <1>5, <1>6, Zenon DEF SetupInv

\* In a container it goes with the parent's proof of the policy.
LEMMA ParentFinishKeeps == SetupInv /\ I!ParentFinish => SetupInv'
<1> SUFFICES ASSUME SetupInv, I!ParentFinish PROVE SetupInv'
  BY Zenon
<1>1. Shape /\ Typed /\ Always /\ Places
  BY Shaped, Zenon
<1>2. /\ Shape' /\ UNCHANGED <<Sn, Sd, Cn, Cd>>
      /\ \/ UNCHANGED <<Jn, Jd>>
         \/ Jn' = "absent" /\ Jd' \in {Jd, "absent"}
  BY <1>1, JournalSynced, JournalWrite DEF I!ParentFinish
<1>3. /\ UNCHANGED <<runtime, rows, configured, enabled, up, tried, answer>>
      /\ pc = "undojournal" /\ pc' \in {"idle", "down"}
  BY <1>1, Zenon DEF I!ParentFinish, I!Persistent, I!Ingress, I!Over
<1>4. Typed'
  BY <1>1, <1>2, <1>3 DEF Typed, Shape, Phases, Keys
<1>5. Always'
  BY <1>1, <1>2, <1>3, Zenon DEF Typed, Places, Writing, Activating, Active, Undoing,
    Cleared, Always, Everything, KeysOnDisk, Nothing, Dark, Unclaimed
<1>6. Places'
  BY <1>1, <1>2, <1>3, Zenon DEF Typed, Places, Writing, Activating, Active, Undoing,
    Cleared, Always, Everything, KeysOnDisk, Nothing, Dark, Unclaimed
<1> QED BY <1>4, <1>5, <1>6, Zenon DEF SetupInv

-----------------------------------------------------------------------------
(* The cuts.                                                                 *)

\* The process ends.
LEMMA CrashKeeps == SetupInv /\ I!Crash => SetupInv'
<1> SUFFICES ASSUME SetupInv, I!Crash PROVE SetupInv'
  BY Zenon
<1>1. Shape /\ Typed /\ Always /\ Places
  BY Shaped, Zenon
<1>2. Shape' /\ UNCHANGED <<Jn, Jd, Sn, Sd, Cn, Cd>>
  BY <1>1, Untouched, Zenon DEF I!Crash
<1>3. /\ UNCHANGED <<runtime, rows, configured, enabled, tried, answer>>
      /\ pc' = "down" /\ up' \in BOOLEAN
      /\ (runtime # "container" /\ up' = up) \/ (runtime = "container" /\ up' = FALSE)
  BY <1>1, Zenon DEF I!Crash, I!Persistent, Typed
<1>4. Typed'
  BY <1>1, <1>2, <1>3 DEF Typed, Shape, Phases, Keys
<1>5. Always'
  BY <1>1, <1>2, <1>3, Zenon DEF Typed, Places, Writing, Activating, Active, Undoing,
    Cleared, Always, Everything, KeysOnDisk, Nothing, Dark, Unclaimed
<1>6. Places'
  BY <1>1, <1>2, <1>3, Zenon DEF Typed, Places, Writing, Activating, Active, Undoing,
    Cleared, Always, Everything, KeysOnDisk, Nothing, Dark, Unclaimed
<1> QED BY <1>4, <1>5, <1>6, Zenon DEF SetupInv

\* The machine loses what is not on the disk.
LEMMA PowerLossKeeps == SetupInv /\ I!PowerLoss => SetupInv'
<1> SUFFICES ASSUME SetupInv, I!PowerLoss PROVE SetupInv'
  BY Zenon
<1>1. Shape /\ Typed /\ Always /\ Places
  BY Shaped, Zenon
<1>2. /\ Shape' /\ Jn' = Jd' /\ Sn' = Sd' /\ Cn' = Cd'
      /\ Jn' \in {Jn, Jd} /\ Sn' \in {Sn, Sd} /\ Cn' \in {Cn, Cd}
  <2>1. PICK lost \in SUBSET I!Names :
               file' = [n \in I!Names |-> I!Same(IF n \in lost THEN file[n].disk ELSE file[n].now)]
    BY Zenon DEF I!PowerLoss
  <2> QED BY <2>1, Named, Zenon DEF Shape, I!Same, Jn, Jd, Sn, Sd, Cn, Cd
<1>3. /\ UNCHANGED <<runtime, rows, configured, enabled, tried, answer>>
      /\ pc' = "down" /\ up' \in BOOLEAN
      /\ up' = (runtime = "native" /\ enabled /\ Sn' = "key")
  BY <1>1, Zenon DEF I!PowerLoss, I!Persistent, I!Now, Sn
<1>4. Typed'
  BY <1>1, <1>2, <1>3 DEF Typed, Shape, Phases, Keys
<1>5. Always'
  BY <1>1, <1>2, <1>3, Zenon DEF Typed, Places, Writing, Activating, Active, Undoing,
    Cleared, Always, Everything, KeysOnDisk, Nothing, Dark, Unclaimed
<1>6. Places'
  BY <1>1, <1>2, <1>3, Zenon DEF Typed, Places, Writing, Activating, Active, Undoing,
    Cleared, Always, Everything, KeysOnDisk, Nothing, Dark, Unclaimed
<1> QED BY <1>4, <1>5, <1>6, Zenon DEF SetupInv

-----------------------------------------------------------------------------
(* The theorems.                                                             *)

\* The first state.
LEMMA InitHolds == I!Init => SetupInv
<1> SUFFICES ASSUME I!Init PROVE SetupInv
  BY Zenon
<1>1. Shape /\ Jn = "absent" /\ Jd = "absent" /\ Sn = "absent" /\ Sd = "absent"
      /\ Cn = "absent" /\ Cd = "absent"
  BY Named, Zenon DEF I!Init, I!Same, Shape, Jn, Jd, Sn, Sd, Cn, Cd
<1>2. Typed
  BY <1>1, Zenon DEF I!Init, Typed, Shape, Phases, Keys
<1>3. Always /\ Places
  BY <1>1, Zenon DEF I!Init, Always, Places, Nothing, Unclaimed, Dark, Everything, KeysOnDisk
<1> QED BY <1>2, <1>3, Zenon DEF SetupInv

\* Every step.
LEMMA NextKeeps == SetupInv /\ [I!Next]_(I!vars) => SetupInv'
<1> SUFFICES ASSUME SetupInv, [I!Next]_(I!vars) PROVE SetupInv'
  BY Zenon
<1>1. CASE UNCHANGED I!vars
  <2>1. Shape' /\ UNCHANGED <<Jn, Jd, Sn, Sd, Cn, Cd>>
    BY <1>1, Shaped, Untouched, Zenon DEF I!vars
  <2>2. UNCHANGED <<runtime, rows, configured, enabled, up, tried, answer, pc>>
    BY <1>1, Zenon DEF I!vars
  <2>3. Typed'
    BY <2>1, <2>2, Shaped, Zenon DEF Typed, Shape
  <2>4. Always' /\ Places'
    BY <2>1, <2>2, Shaped, ZenonT(60) DEF Always, Places, Writing, Activating, Active, Undoing, Cleared,
       Nothing, Unclaimed, Dark, Everything, KeysOnDisk
  <2> QED BY <2>3, <2>4, Zenon DEF SetupInv
<1>2. CASE I!Next
  BY <1>2, RecoverCommittedKeeps, RecoverPendingKeeps, RecoverNothingKeeps,
     ParentRecoverKeeps, StartKeeps, RetryKeeps, RequestKeeps, InvalidRequestKeeps,
     WriteServerKeeps, WriteClientKeeps, IntendKeeps, ActivateNativeKeeps,
     ActivateContainerKeeps, SyncKeeps, MigrateKeeps, SaveSettingsKeeps, RoutesKeeps,
     CommitKeeps, ClearKeeps, InnerUndoKeeps, InnerFilesKeeps, UndoRuntimeKeeps,
     UndoRowsKeeps, UndoServerKeeps, UndoClientKeeps, UndoJournalKeeps,
     ParentFinishKeeps, CrashKeeps, PowerLossKeeps, Zenon DEF I!Next
<1> QED BY <1>1, <1>2, Zenon

\* The inductive invariant.
LEMMA SetupInvHolds == I!Spec => []SetupInv
BY InitHolds, NextKeeps, PTL DEF I!Spec

\* Without an intent on the disk the ingress is all there or not there at all,
\* after any number of crashes and power losses of the setup, its rollback and
\* its recovery (wireguard_initial.py, main.py, container_entrypoint.py).
THEOREM SetupIsAtomic == I!Spec => []I!AllOrNothing
<1>1. SetupInv => I!AllOrNothing
  BY Zenon DEF SetupInv, Always, I!AllOrNothing, I!Complete, I!NothingThere, Everything, KeysOnDisk,
     Nothing, Unclaimed, Dark, I!Now, Jn, Sn, Sd, Cn, Cd
<1> QED BY <1>1, SetupInvHolds, PTL

\* The database never claims an ingress whose files a power loss could take
\* away: rows come after the sync and go before the files.
THEOREM ClaimsAreDurable == I!Spec => []I!ClaimsHaveFiles
<1>1. SetupInv => I!ClaimsHaveFiles
  <2> SUFFICES ASSUME SetupInv, rows PROVE \A n \in {"server", "client"} : file[n] = I!Same("key")
    BY Zenon DEF I!ClaimsHaveFiles
  <2>1. Shape /\ KeysOnDisk
    BY Shaped, Zenon DEF SetupInv, Always
  <2> QED BY <2>1, Named DEF Shape, KeysOnDisk, I!Same, Sn, Sd, Cn, Cd
<1> QED BY <1>1, SetupInvHolds, PTL

\* An interface the database does not know is one that the intent on the disk
\* knows of, so that the next recovery takes it down.
THEOREM InterfacesAreIntended == I!Spec => []I!InterfaceIsIntended
<1>1. SetupInv => I!InterfaceIsIntended
  BY Zenon DEF SetupInv, Always, I!InterfaceIsIntended, Jn
<1> QED BY <1>1, SetupInvHolds, PTL

\* A setup reported as done is whole in every later state.
THEOREM DoneIsDurable == I!Spec => []I!DoneStaysDone
<1>1. SetupInv => I!DoneStaysDone
  BY Zenon DEF SetupInv, Always, I!DoneStaysDone, I!Complete, Everything, KeysOnDisk, I!Now, Sn,
       Sd, Cn, Cd
<1> QED BY <1>1, SetupInvHolds, PTL
===============================================================================
