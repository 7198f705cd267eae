--------------------------- MODULE AuthorityProofs ---------------------------
(***************************************************************************)
(* Who may act on the appliance.  Exclusion, the borrowed calls'           *)
(* confinement to their lease and the guarded handover of the mutation     *)
(* authority, for any number of sessions and borrowed calls; and signing   *)
(* in, for any clients, codes and number of tokens: a credential is        *)
(* accepted once, refused second factors are bounded, and a session in use *)
(* is not lost.                                                            *)
(***************************************************************************)
EXTENDS MutationAuthority, FiniteSetTheorems, TLAPS


Holding == {"held", "interrupted", "joining", "loss", "closing", "final"}
Supervised == Request \cup Call \cup Boot

\* A session that changes state, or that will when its grant arrives.
Active(s) == writer[s] = "run" \/ s \in token

Flags == /\ poisoned \in BOOLEAN /\ revoking \in BOOLEAN /\ failed \in BOOLEAN
         /\ worker \in BOOLEAN /\ stopping \in BOOLEAN /\ dirty \in BOOLEAN
Data == /\ lock \in Session \cup {None}
        /\ pc \in [Session -> {"idle", "wait", "held", "interrupted", "joining", "loss",
                               "closing", "final"}]
        /\ writer \in [Session -> {"off", "run", "ok", "err"}]
        /\ token \subseteq Remote
        /\ sub \in [Borrower -> {"off", "run", "clean"}]
        /\ by \in [Borrower -> Session \cup {None}]
        /\ reply \in [Session -> {"none", "ok", "error"}]

\* The lock is held by the one session whose handler is inside exclusive.
ILock == \A s \in Session : pc[s] \in Holding <=> lock = s

\* The supervisor's own writers run only before the handler has joined them; a request whose writer
\* outlives its lease has poisoned the authority.
IWriter ==
    /\ \A s \in Call \cup Boot : writer[s] = "run" => pc[s] \in {"held", "interrupted", "joining"}
    /\ \A s \in Request : Active(s) => poisoned \/ pc[s] \in {"held", "loss"}
    /\ \A s \in token : writer[s] = "off"

\* At most one supervised session is active.
ISole == \A s, t \in Supervised : Active(s) /\ Active(t) => s = t

\* A borrowed call belongs to the owner.
IBorrow == \A b \in Borrower : sub[b] # "off" => by[b] = lock /\ lock # None

\* Whatever an interrupted writer left is still to be quiesced by the owner, or the authority is
\* poisoned and free.
IDirty == dirty => \/ lock = None /\ poisoned
                   \/ lock # None /\ failed
                   \/ lock # None /\ pc[lock] \in {"interrupted", "joining", "loss"}
                   \/ lock # None /\ pc[lock] = "closing" /\ poisoned

IInv == Data /\ ILock /\ IWriter /\ ISole /\ IBorrow /\ IDirty
-----------------------------------------------------------------------------
\* The flags keep their type.
LEMMA FlagStep == Flags /\ [Next]_vars => Flags'
<1> SUFFICES ASSUME Flags, [Next]_vars PROVE Flags'
  BY Zenon
<1> USE DEF Flags, authority
<1>1. ASSUME NEW s \in Session, Ask(s) PROVE Flags'
  BY <1>1, Zenon DEF Ask
<1>2. ASSUME NEW s \in Session, Busy(s) PROVE Flags'
  BY <1>2, Zenon DEF Busy
<1>3. ASSUME NEW s \in Session, Refuse(s) PROVE Flags'
  BY <1>3, Zenon DEF Refuse
<1>4. ASSUME NEW s \in Session, Grant(s) PROVE Flags'
  BY <1>4, Zenon DEF Grant
<1>5. ASSUME NEW s \in Session, Begin(s) PROVE Flags'
  BY <1>5, Zenon DEF Begin
<1>6. ASSUME NEW s \in Session, RemoteEnd(s) PROVE Flags'
  BY <1>6, Zenon DEF RemoteEnd
<1>7. ASSUME NEW s \in Session, CallEnd(s) PROVE Flags'
  BY <1>7, Zenon DEF CallEnd, Reaped
<1>8. ASSUME NEW s \in Session, BootEnd(s) PROVE Flags'
  BY <1>8, Zenon DEF BootEnd
<1>9. ASSUME NEW s \in Session, Release(s) PROVE Flags'
  BY <1>9, Zenon DEF Release
<1>10. ASSUME NEW s \in Session, Broken(s) PROVE Flags'
  BY <1>10, Zenon DEF Broken, Lose
<1>11. ASSUME NEW s \in Session, Expire(s) PROVE Flags'
  BY <1>11, Zenon DEF Expire, Lose
<1>12. ASSUME NEW s \in Session, Interrupt(s) PROVE Flags'
  BY <1>12, Zenon DEF Interrupt, Abandon, Quiesced, Poisons, KillWorker, Reaped
<1>13. ASSUME NEW s \in Session, Join(s) PROVE Flags'
  BY <1>13, Zenon DEF Join
<1>14. ASSUME NEW s \in Session, Loss(s) PROVE Flags'
  BY <1>14, Zenon DEF Loss, Abandon, Quiesced, Poisons, KillWorker, Reaped
<1>15. ASSUME NEW s \in Session, Final(s) PROVE Flags'
  BY <1>15, Zenon DEF Final, Unlock, Quiesced, Poisons, KillWorker, Reaped, Borrowed
<1>16. ASSUME NEW b \in Borrower, Borrow(b) PROVE Flags'
  BY <1>16, Zenon DEF Borrow
<1>17. ASSUME NEW b \in Borrower, BorrowEnd(b) PROVE Flags'
  BY <1>17, Zenon DEF BorrowEnd
<1>18. ASSUME NEW b \in Borrower, BorrowFail(b) PROVE Flags'
  BY <1>18, Zenon DEF BorrowFail
<1>19. ASSUME NEW b \in Borrower, BorrowClean(b) PROVE Flags'
  BY <1>19, Zenon DEF BorrowClean, Abandon, Quiesced, Poisons, KillWorker, Reaped
<1>20. CASE WorkerDies
  BY <1>20, Zenon DEF WorkerDies, KillWorker, Reaped
<1>21. CASE Stop
  BY <1>21, Zenon DEF Stop
<1>22. CASE Restart
  BY <1>22, Zenon DEF Restart
<1>23. CASE UNCHANGED vars
  BY <1>23, Zenon DEF vars
<1> QED
  BY <1>1, <1>2, <1>3, <1>4, <1>5, <1>6, <1>7, <1>8, <1>9, <1>10, <1>11, <1>12, <1>13, <1>14,
     <1>15, <1>16, <1>17, <1>18, <1>19, <1>20, <1>21, <1>22, <1>23, Zenon DEF Next, SessionStep, BorrowStep

\* What _abandon leaves, whether it succeeds or poisons the authority: no writer starts, and
\* no request writes on behind an authority that is not poisoned.
LEMMA AbandonFacts ==
    ASSUME Data, Abandon
    PROVE  /\ writer' \in [Session -> {"off", "run", "ok", "err"}]
           /\ token' \subseteq token
           /\ \A s \in Session : writer'[s] = "run" => writer[s] = "run"
           /\ \A s \in token' : writer'[s] = writer[s]
           /\ poisoned => poisoned'
           /\ dirty' => dirty /\ poisoned'
           /\ ~poisoned' => \A s \in Request : writer'[s] # "run" /\ s \notin token'
<1> USE SessionAssumption DEF Data, Session, Remote, Reaped
<1>1. CASE KillWorker
  <2>1. /\ writer' \in [Session -> {"off", "run", "ok", "err"}]
        /\ token' \subseteq token
        /\ \A s \in Session : writer'[s] = "run" => writer[s] = "run"
        /\ \A s \in token' : writer'[s] = writer[s]
        /\ \A s \in Request : writer'[s] # "run" /\ s \notin token'
    BY <1>1, Zenon DEF KillWorker
  <2>2. CASE Quiesced
    BY <2>1, <2>2, Zenon DEF Quiesced
  <2>3. CASE Poisons
    BY <2>1, <2>3, Zenon DEF Poisons
  <2> QED
    BY <2>2, <2>3, Zenon DEF Abandon
<1>2. CASE UNCHANGED <<worker, writer, token>> /\ poisoned' /\ UNCHANGED dirty
  BY SMTT(30), <1>2
<1> QED
  BY <1>1, <1>2, Zenon DEF Abandon, Quiesced, Poisons

\* Every step preserves the inductive invariant.
LEMMA InvStep == Flags /\ IInv /\ [Next]_vars => IInv'
<1> SUFFICES ASSUME Flags, IInv, [Next]_vars PROVE IInv'
  BY Zenon
<1> USE SessionAssumption DEF IInv, Flags, authority
<1>1. ASSUME NEW s \in Session, Ask(s) PROVE IInv'
  <2>1. Data'
    BY <1>1, Zenon DEF Ask, Data, Remote, Session
  <2>2. ILock'
    BY <1>1, <2>1, Zenon DEF Ask, ILock, Holding, Data, Session, Remote
  <2>3. IWriter'
    BY <1>1, <2>1, Zenon DEF Ask, IWriter, Active, ILock, Holding, Data, Remote, Session
  <2>4. ISole'
    BY <1>1, <2>1, ZenonT(60) DEF Ask, ISole, Active, Supervised, IWriter, ILock, Holding, Data, Remote, Session
  <2>5. IBorrow'
    BY <1>1, <2>1, Zenon DEF Ask, IBorrow, ILock, Holding, Data, Session, Remote
  <2>6. IDirty'
    BY <1>1, <2>1, Zenon DEF Ask, IDirty, IBorrow, ILock, Holding, Data, Session, Remote
  <2> QED
    BY <2>1, <2>2, <2>3, <2>4, <2>5, <2>6, Zenon
<1>2. ASSUME NEW s \in Session, Busy(s) PROVE IInv'
  <2>1. Data'
    BY <1>2, Zenon DEF Busy, Data, Remote, Session
  <2>2. ILock'
    BY <1>2, <2>1, Zenon DEF Busy, ILock, Holding, Data, Session, Remote
  <2>3. IWriter'
    BY <1>2, <2>1, Zenon DEF Busy, IWriter, Active, ILock, Holding, Data, Remote, Session
  <2>4. ISole'
    BY <1>2, <2>1, Zenon DEF Busy, ISole, Active, Supervised, IWriter, ILock, Holding, Data, Remote,
       Session
  <2>5. IBorrow'
    BY <1>2, <2>1, Zenon DEF Busy, IBorrow, ILock, Holding, Data, Session, Remote
  <2>6. IDirty'
    BY <1>2, <2>1, Zenon DEF Busy, IDirty, IBorrow, ILock, Holding, Data, Session, Remote
  <2> QED
    BY <2>1, <2>2, <2>3, <2>4, <2>5, <2>6, Zenon
<1>3. ASSUME NEW s \in Session, Refuse(s) PROVE IInv'
  <2>1. Data'
    BY <1>3, Zenon DEF Refuse, Data, Remote, Session
  <2>2. ILock'
    BY <1>3, <2>1, Zenon DEF Refuse, ILock, Holding, Data, Session, Remote
  <2>3. IWriter'
    BY <1>3, <2>1, Zenon DEF Refuse, IWriter, Active, ILock, Holding, Data, Remote, Session
  <2>4. ISole'
    BY <1>3, <2>1, Zenon DEF Refuse, ISole, Active, Supervised, IWriter, ILock, Holding, Data, Remote,
       Session
  <2>5. IBorrow'
    BY <1>3, <2>1, Zenon DEF Refuse, IBorrow, ILock, Holding, Data, Session, Remote
  <2>6. IDirty'
    BY <1>3, <2>1, Zenon DEF Refuse, IDirty, IBorrow, ILock, Holding, Data, Session, Remote
  <2> QED
    BY <2>1, <2>2, <2>3, <2>4, <2>5, <2>6, Zenon
<1>4. ASSUME NEW s \in Session, Grant(s) PROVE IInv'
  <2>1. Data'
    BY <1>4 DEF Grant, Data, Remote, Session
  <2>2. ILock'
    BY <1>4, <2>1 DEF Grant, ILock, Holding, Data, Session, Remote
  <2>3. IWriter'
    BY <1>4, <2>1 DEF Grant, IWriter, Active, ILock, Holding, Data, Remote, Session
  <2>4. ISole'
    BY <1>4, <2>1 DEF Grant, ISole, Active, Supervised, IWriter, ILock, Holding, Data, Remote,
       Session
  <2>5. IBorrow'
    BY <1>4, <2>1, Zenon DEF Grant, IBorrow, ILock, Holding, Data, Session, Remote
  <2>6. IDirty'
    BY <1>4, <2>1, Zenon DEF Grant, IDirty, IBorrow, ILock, Holding, Data, Session, Remote
  <2> QED
    BY <2>1, <2>2, <2>3, <2>4, <2>5, <2>6, Zenon
<1>5. ASSUME NEW s \in Session, Begin(s) PROVE IInv'
  <2>1. Data'
    BY <1>5, Zenon DEF Begin, Data, Remote, Session
  <2>2. ILock'
    BY <1>5, <2>1, Zenon DEF Begin, ILock, Holding, Data, Session, Remote
  <2>3. IWriter'
    BY <1>5, <2>1 DEF Begin, IWriter, Active, ILock, Holding, Data, Remote, Session
  <2>4. ISole'
    BY <1>5, <2>1 DEF Begin, ISole, Active, Supervised, IWriter, ILock, Holding, Data, Remote,
       Session
  <2>5. IBorrow'
    BY <1>5, <2>1, Zenon DEF Begin, IBorrow, ILock, Holding, Data, Session, Remote
  <2>6. IDirty'
    BY <1>5, <2>1, Zenon DEF Begin, IDirty, IBorrow, ILock, Holding, Data, Session, Remote
  <2> QED
    BY <2>1, <2>2, <2>3, <2>4, <2>5, <2>6, Zenon
<1>6. ASSUME NEW s \in Session, RemoteEnd(s) PROVE IInv'
  <2>1. Data'
    BY <1>6 DEF RemoteEnd, Data, Remote, Session
  <2>2. ILock'
    BY <1>6, <2>1, Zenon DEF RemoteEnd, ILock, Holding, Data, Session, Remote
  <2>3. IWriter'
    BY <1>6, <2>1 DEF RemoteEnd, IWriter, Active, ILock, Holding, Data, Remote, Session
  <2>4. ISole'
    BY <1>6, <2>1 DEF RemoteEnd, ISole, Active, Supervised, IWriter, ILock, Holding, Data, Remote,
       Session
  <2>5. IBorrow'
    BY <1>6, <2>1, Zenon DEF RemoteEnd, IBorrow, ILock, Holding, Data, Session, Remote
  <2>6. IDirty'
    BY <1>6, <2>1, Zenon DEF RemoteEnd, IDirty, IBorrow, ILock, Holding, Data, Session, Remote
  <2> QED
    BY <2>1, <2>2, <2>3, <2>4, <2>5, <2>6, Zenon
<1>7. ASSUME NEW s \in Session, CallEnd(s) PROVE IInv'
  <2>1. Data'
    BY <1>7 DEF CallEnd, Reaped, Data, Remote, Session
  <2>2. ILock'
    BY <1>7, <2>1, Zenon DEF CallEnd, Reaped, ILock, Holding, Data, Session, Remote
  <2>3. IWriter'
    BY <1>7, <2>1 DEF CallEnd, Reaped, IWriter, Active, ILock, Holding, Data, Remote, Session
  <2>4. ISole'
    BY <1>7, <2>1 DEF CallEnd, Reaped, ISole, Active, Supervised, IWriter, ILock, Holding, Data,
       Remote, Session
  <2>5. IBorrow'
    BY <1>7, <2>1, Zenon DEF CallEnd, Reaped, IBorrow, ILock, Holding, Data, Session, Remote
  <2>6. IDirty'
    BY <1>7, <2>1 DEF CallEnd, Reaped, IDirty, IBorrow, ILock, Holding, Data, Session, Remote
  <2> QED
    BY <2>1, <2>2, <2>3, <2>4, <2>5, <2>6, Zenon
<1>8. ASSUME NEW s \in Session, BootEnd(s) PROVE IInv'
  <2>0. /\ s \in Boot /\ \E r \in {"ok", "err"} : writer' = [writer EXCEPT ![s] = r]
        /\ UNCHANGED <<authority, pc, token, sub, by, reply, dirty>>
    BY <1>8, Zenon DEF BootEnd
  <2>1. Data'
    BY <2>0 DEF Data, Remote, Session
  <2>2. ILock'
    BY <2>0, <2>1, Zenon DEF ILock, Holding, Data, Session, Remote
  <2>3. IWriter'
    BY <2>0, <2>1 DEF IWriter, Active, ILock, Holding, Data, Remote, Session
  <2>4. ISole'
    BY <2>0, <2>1 DEF ISole, Active, Supervised, IWriter, ILock, Holding, Data, Remote, Session
  <2>5. IBorrow'
    BY <2>0, <2>1, Zenon DEF IBorrow, ILock, Holding, Data, Session, Remote
  <2>6. IDirty'
    BY <2>0, <2>1, Zenon DEF IDirty, IBorrow, ILock, Holding, Data, Session, Remote
  <2> QED
    BY <2>1, <2>2, <2>3, <2>4, <2>5, <2>6, Zenon
<1>9. ASSUME NEW s \in Session, Release(s) PROVE IInv'
  <2>1. Data'
    BY <1>9, Zenon DEF Release, Data, Remote, Session
  <2>2. ILock'
    BY <1>9, <2>1, Zenon DEF Release, ILock, Holding, Data, Session, Remote
  <2>3. IWriter'
    BY <1>9, <2>1, Zenon DEF Release, IWriter, Active, ILock, Holding, Data, Remote, Session
  <2>4. ISole'
    BY <1>9, <2>1, Zenon DEF Release, ISole, Active, Supervised, IWriter, ILock, Holding, Data, Remote,
       Session
  <2>5. IBorrow'
    BY <1>9, <2>1, Zenon DEF Release, IBorrow, ILock, Holding, Data, Session, Remote
  <2>6. IDirty'
    BY <1>9, <2>1, Zenon DEF Release, IDirty, IBorrow, ILock, Holding, Data, Session, Remote
  <2> QED
    BY <2>1, <2>2, <2>3, <2>4, <2>5, <2>6, Zenon
<1>10. ASSUME NEW s \in Session, Broken(s) PROVE IInv'
  <2>1. Data'
    BY <1>10, Zenon DEF Broken, Lose, Data, Remote, Session
  <2>2. ILock'
    BY <1>10, <2>1, Zenon DEF Broken, Lose, ILock, Holding, Data, Session, Remote
  <2>3. IWriter'
    BY <1>10, <2>1, Zenon DEF Broken, Lose, IWriter, Active, ILock, Holding, Data, Remote, Session
  <2>4. ISole'
    BY <1>10, <2>1, ZenonT(60) DEF Broken, Lose, ISole, Active, Supervised, IWriter, ILock, Holding, Data,
       Remote, Session
  <2>5. IBorrow'
    BY <1>10, <2>1, Zenon DEF Broken, Lose, IBorrow, ILock, Holding, Data, Session, Remote
  <2>6. IDirty'
    BY <1>10, <2>1, Zenon DEF Broken, Lose, IDirty, IBorrow, ILock, Holding, Data, Session, Remote
  <2> QED
    BY <2>1, <2>2, <2>3, <2>4, <2>5, <2>6, Zenon
<1>11. ASSUME NEW s \in Session, Expire(s) PROVE IInv'
  <2>1. Data'
    BY <1>11, Zenon DEF Expire, Lose, Data, Remote, Session
  <2>2. ILock'
    BY <1>11, <2>1, Zenon DEF Expire, Lose, ILock, Holding, Data, Session, Remote
  <2>3. IWriter'
    BY <1>11, <2>1 DEF Expire, Lose, IWriter, Active, ILock, Holding, Data, Remote, Session
  <2>4. ISole'
    BY <1>11, <2>1 DEF Expire, Lose, ISole, Active, Supervised, IWriter, ILock, Holding, Data,
       Remote, Session
  <2>5. IBorrow'
    BY <1>11, <2>1, Zenon DEF Expire, Lose, IBorrow, ILock, Holding, Data, Session, Remote
  <2>6. IDirty'
    BY <1>11, <2>1, Zenon DEF Expire, Lose, IDirty, IBorrow, ILock, Holding, Data, Session, Remote
  <2> QED
    BY <2>1, <2>2, <2>3, <2>4, <2>5, <2>6, Zenon
<1>12. ASSUME NEW s \in Session, Interrupt(s) PROVE IInv'
  <2>0. Abandon
    BY <1>12, Zenon DEF Interrupt
  <2>1. Data'
    BY <1>12, <2>0, AbandonFacts, Zenon DEF Interrupt, Data, Remote, Session
  <2>2. ILock'
    BY <1>12, <2>0, <2>1, AbandonFacts, Zenon DEF Interrupt, ILock, Holding, Data, Session, Remote
  <2>3. IWriter'
    BY SMTT(30), <1>12, <2>0, <2>1, AbandonFacts DEF Interrupt, IWriter, Active, ILock, Holding,
       Data, Remote, Session
  <2>4. ISole'
    BY <1>12, <2>0, <2>1, AbandonFacts, Zenon DEF Interrupt, ISole, Active, Supervised, IWriter, ILock,
       Holding, Data, Remote, Session
  <2>5. IBorrow'
    BY <1>12, <2>0, <2>1, AbandonFacts, Zenon DEF Interrupt, IBorrow, ILock, Holding, Data, Session, Remote
  <2>6. IDirty'
    BY <1>12, <2>0, <2>1, AbandonFacts, Zenon DEF Interrupt, IDirty, IBorrow, ILock, Holding, Data,
       Session, Remote
  <2> QED
    BY <2>1, <2>2, <2>3, <2>4, <2>5, <2>6, Zenon
<1>13. ASSUME NEW s \in Session, Join(s) PROVE IInv'
  <2>1. Data'
    BY <1>13, Zenon DEF Join, Data, Remote, Session
  <2>2. ILock'
    BY <1>13, <2>1, Zenon DEF Join, ILock, Holding, Data, Session, Remote
  <2>3. IWriter'
    BY <1>13, <2>1, Zenon DEF Join, IWriter, Active, ILock, Holding, Data, Remote, Session
  <2>4. ISole'
    BY <1>13, <2>1, Zenon DEF Join, ISole, Active, Supervised, IWriter, ILock, Holding, Data, Remote,
       Session
  <2>5. IBorrow'
    BY <1>13, <2>1, Zenon DEF Join, IBorrow, ILock, Holding, Data, Session, Remote
  <2>6. IDirty'
    BY <1>13, <2>1, Zenon DEF Join, IDirty, IBorrow, ILock, Holding, Data, Session, Remote
  <2> QED
    BY <2>1, <2>2, <2>3, <2>4, <2>5, <2>6, Zenon
<1>14. ASSUME NEW s \in Session, Loss(s) PROVE IInv'
  <2>0. Abandon
    BY <1>14, Zenon DEF Loss
  <2>1. Data'
    BY <1>14, <2>0, AbandonFacts, Zenon DEF Loss, Data, Remote, Session
  <2>2. ILock'
    BY <1>14, <2>0, <2>1, AbandonFacts, Zenon DEF Loss, ILock, Holding, Data, Session, Remote
  <2>3. IWriter'
    BY SMTT(30), <1>14, <2>0, <2>1, AbandonFacts DEF Loss, IWriter, Active, ILock, Holding, Data,
       Remote, Session
  <2>4. ISole'
    BY <1>14, <2>0, <2>1, AbandonFacts, Zenon DEF Loss, ISole, Active, Supervised, IWriter, ILock,
       Holding, Data, Remote, Session
  <2>5. IBorrow'
    BY <1>14, <2>0, <2>1, AbandonFacts, Zenon DEF Loss, IBorrow, ILock, Holding, Data, Session, Remote
  <2>6. IDirty'
    BY <1>14, <2>0, <2>1, AbandonFacts, Zenon DEF Loss, IDirty, IBorrow, ILock, Holding, Data, Session,
       Remote
  <2> QED
    BY <2>1, <2>2, <2>3, <2>4, <2>5, <2>6, Zenon
<1>15. ASSUME NEW s \in Session, Final(s) PROVE IInv'
  <2>0. /\ pc[s] \in {"final", "closing"} /\ Borrowed(s) = {} /\ lock = s
        /\ \E a \in {"none", "ok", "error"} : Unlock(s, a)
    BY <1>15, Zenon DEF Final, ILock, Holding
  <2>a. CASE ~failed /\ UNCHANGED <<poisoned, writer, token, worker, dirty>>
    <3>1. Data'
      BY <2>0, <2>a DEF Unlock, Borrowed, Data, Remote, Session
    <3>2. ILock'
      BY <2>0, <2>a, <3>1 DEF Unlock, Borrowed, ILock, Holding, Data, Session, Remote
    <3>3. IWriter'
      BY <2>0, <2>a, <3>1, Zenon DEF Unlock, Borrowed, IWriter, Active, ILock, Holding, Data, Remote,
         Session
    <3>4. ISole'
      BY <2>0, <2>a, <3>1, Zenon DEF Unlock, Borrowed, ISole, Active, Supervised, IWriter, ILock,
         Holding, Data, Remote, Session
    <3>5. IBorrow'
      BY <2>0, <2>a, <3>1, Zenon DEF Unlock, Borrowed, IBorrow, ILock, Holding, Data, Session, Remote
    <3>6. IDirty'
      BY <2>0, <2>a, <3>1, Zenon DEF Unlock, Borrowed, IDirty, IBorrow, ILock, Holding, Data, Session,
         Remote
    <3> QED
      BY <3>1, <3>2, <3>3, <3>4, <3>5, <3>6, Zenon
  <2>b. CASE failed /\ Abandon
    <3>1. Data'
      BY SMTT(30), <2>0, <2>b, AbandonFacts DEF Unlock, Borrowed, Data, Remote, Session
    <3>2. ILock'
      BY SMTT(30), <2>0, <2>b, <3>1, AbandonFacts DEF Unlock, Borrowed, ILock, Holding, Data,
         Session, Remote
    <3>3. IWriter'
      BY SMTT(30), <2>0, <2>b, <3>1, AbandonFacts DEF Unlock, Borrowed, IWriter, Active, ILock,
         Holding, Data, Remote, Session
    <3>4. ISole'
      BY SMTT(30), <2>0, <2>b, <3>1, AbandonFacts DEF Unlock, Borrowed, ISole, Active, Supervised,
         IWriter, ILock, Holding, Data, Remote, Session
    <3>5. IBorrow'
      BY SMTT(30), <2>0, <2>b, <3>1, AbandonFacts DEF Unlock, Borrowed, IBorrow, ILock, Holding,
         Data, Session, Remote
    <3>6. IDirty'
      BY <2>0, <2>b, <3>1, AbandonFacts, Zenon DEF Unlock, Borrowed, IDirty, IBorrow, ILock, Holding,
         Data, Session, Remote
    <3> QED
      BY <3>1, <3>2, <3>3, <3>4, <3>5, <3>6, Zenon
  <2> QED
    BY <1>15, <2>a, <2>b, ZenonT(30) DEF Final, Abandon
<1>16. ASSUME NEW b \in Borrower, Borrow(b) PROVE IInv'
  <2>1. Data'
    BY <1>16, Zenon DEF Borrow, Data, Remote, Session
  <2>2. ILock'
    BY <1>16, <2>1, Zenon DEF Borrow, ILock, Holding, Data, Session, Remote
  <2>3. IWriter'
    BY <1>16, <2>1, Zenon DEF Borrow, IWriter, Active, ILock, Holding, Data, Remote, Session
  <2>4. ISole'
    BY <1>16, <2>1, Zenon DEF Borrow, ISole, Active, Supervised, IWriter, ILock, Holding, Data, Remote,
       Session
  <2>5. IBorrow'
    BY <1>16, <2>1 DEF Borrow, IBorrow, ILock, Holding, Data, Session, Remote
  <2>6. IDirty'
    BY <1>16, <2>1, Zenon DEF Borrow, IDirty, IBorrow, ILock, Holding, Data, Session, Remote
  <2> QED
    BY <2>1, <2>2, <2>3, <2>4, <2>5, <2>6, Zenon
<1>17. ASSUME NEW b \in Borrower, BorrowEnd(b) PROVE IInv'
  <2>1. Data'
    BY <1>17, Zenon DEF BorrowEnd, Data, Remote, Session
  <2>2. ILock'
    BY SMTT(30), <1>17, <2>1 DEF BorrowEnd, ILock, Holding, Data, Session, Remote
  <2>3. IWriter'
    BY <1>17, <2>1, Zenon DEF BorrowEnd, IWriter, Active, ILock, Holding, Data, Remote, Session
  <2>4. ISole'
    BY <1>17, <2>1, Zenon DEF BorrowEnd, ISole, Active, Supervised, IWriter, ILock, Holding, Data,
       Remote, Session
  <2>5. IBorrow'
    BY <1>17, <2>1 DEF BorrowEnd, IBorrow, ILock, Holding, Data, Session, Remote
  <2>6. IDirty'
    BY <1>17, <2>1, Zenon DEF BorrowEnd, IDirty, IBorrow, ILock, Holding, Data, Session, Remote
  <2> QED
    BY <2>1, <2>2, <2>3, <2>4, <2>5, <2>6, Zenon
<1>18. ASSUME NEW b \in Borrower, BorrowFail(b) PROVE IInv'
  <2>1. Data'
    BY <1>18, Zenon DEF BorrowFail, Data, Remote, Session
  <2>2. ILock'
    BY <1>18, <2>1, Zenon DEF BorrowFail, ILock, Holding, Data, Session, Remote
  <2>3. IWriter'
    BY <1>18, <2>1, Zenon DEF BorrowFail, IWriter, Active, ILock, Holding, Data, Remote, Session
  <2>4. ISole'
    BY <1>18, <2>1, Zenon DEF BorrowFail, ISole, Active, Supervised, IWriter, ILock, Holding, Data,
       Remote, Session
  <2>5. IBorrow'
    BY <1>18, <2>1 DEF BorrowFail, IBorrow, ILock, Holding, Data, Session, Remote
  <2>6. IDirty'
    BY <1>18, <2>1, Zenon DEF BorrowFail, IDirty, IBorrow, ILock, Holding, Data, Session, Remote
  <2> QED
    BY <2>1, <2>2, <2>3, <2>4, <2>5, <2>6, Zenon
<1>19. ASSUME NEW b \in Borrower, BorrowClean(b) PROVE IInv'
  <2>0. Abandon
    BY <1>19, Zenon DEF BorrowClean
  <2>1. Data'
    BY SMTT(30), <1>19, <2>0, AbandonFacts DEF BorrowClean, Data, Remote, Session
  <2>2. ILock'
    BY SMTT(30), <1>19, <2>0, <2>1, AbandonFacts DEF BorrowClean, ILock, Holding, Data, Session,
       Remote
  <2>3. IWriter'
    BY SMTT(30), <1>19, <2>0, <2>1, AbandonFacts DEF BorrowClean, IWriter, Active, ILock, Holding,
       Data, Remote, Session
  <2>4. ISole'
    BY SMTT(30), <1>19, <2>0, <2>1, AbandonFacts DEF BorrowClean, ISole, Active, Supervised,
       IWriter, ILock, Holding, Data, Remote, Session
  <2>5. IBorrow'
    BY SMTT(30), <1>19, <2>0, <2>1, AbandonFacts DEF BorrowClean, IBorrow, ILock, Holding, Data,
       Session, Remote
  <2>6. IDirty'
    BY <1>19, <2>0, <2>1, AbandonFacts, Zenon DEF BorrowClean, IDirty, IBorrow, ILock, Holding, Data,
       Session, Remote
  <2> QED
    BY <2>1, <2>2, <2>3, <2>4, <2>5, <2>6, Zenon
<1>20. CASE WorkerDies
  <2>1. Data'
    BY <1>20, Zenon DEF WorkerDies, KillWorker, Reaped, Data, Remote, Session
  <2>2. ILock'
    BY SMTT(30), <1>20, <2>1 DEF WorkerDies, KillWorker, Reaped, ILock, Holding, Data, Session,
       Remote
  <2>3. IWriter'
    BY SMTT(30), <1>20, <2>1 DEF WorkerDies, KillWorker, Reaped, IWriter, Active, ILock, Holding,
       Data, Remote, Session
  <2>4. ISole'
    BY <1>20, <2>1, Zenon DEF WorkerDies, KillWorker, Reaped, ISole, Active, Supervised, IWriter, ILock,
       Holding, Data, Remote, Session
  <2>5. IBorrow'
    BY <1>20, <2>1, Zenon DEF WorkerDies, KillWorker, Reaped, IBorrow, ILock, Holding, Data, Session,
       Remote
  <2>6. IDirty'
    BY <1>20, <2>1, Zenon DEF WorkerDies, KillWorker, Reaped, IDirty, IBorrow, ILock, Holding, Data,
       Session, Remote
  <2> QED
    BY <2>1, <2>2, <2>3, <2>4, <2>5, <2>6, Zenon
<1>21. CASE Stop
  <2>1. Data'
    BY <1>21, Zenon DEF Stop, Data, Remote, Session
  <2>2. ILock'
    BY <1>21, <2>1, Zenon DEF Stop, ILock, Holding, Data, Session, Remote
  <2>3. IWriter'
    BY <1>21, <2>1, Zenon DEF Stop, IWriter, Active, ILock, Holding, Data, Remote, Session
  <2>4. ISole'
    BY <1>21, <2>1, Zenon DEF Stop, ISole, Active, Supervised, IWriter, ILock, Holding, Data, Remote,
       Session
  <2>5. IBorrow'
    BY <1>21, <2>1, Zenon DEF Stop, IBorrow, ILock, Holding, Data, Session, Remote
  <2>6. IDirty'
    BY <1>21, <2>1, Zenon DEF Stop, IDirty, IBorrow, ILock, Holding, Data, Session, Remote
  <2> QED
    BY <2>1, <2>2, <2>3, <2>4, <2>5, <2>6, Zenon
<1>22. CASE Restart
  <2>1. Data'
    BY <1>22, Zenon DEF Restart, Data, Remote, Session
  <2>2. ILock'
    BY <1>22, <2>1, Zenon DEF Restart, ILock, Holding, Data, Session, Remote
  <2>3. IWriter'
    BY <1>22, <2>1, Zenon DEF Restart, IWriter, Active, ILock, Holding, Data, Remote, Session
  <2>4. ISole'
    BY <1>22, <2>1, Zenon DEF Restart, ISole, Active, Supervised, IWriter, ILock, Holding, Data, Remote,
       Session
  <2>5. IBorrow'
    BY <1>22, <2>1, Zenon DEF Restart, IBorrow, ILock, Holding, Data, Session, Remote
  <2>6. IDirty'
    BY <1>22, <2>1, Zenon DEF Restart, IDirty, IBorrow, ILock, Holding, Data, Session, Remote
  <2> QED
    BY <2>1, <2>2, <2>3, <2>4, <2>5, <2>6, Zenon
<1>23. CASE UNCHANGED vars
  BY <1>23, ZenonT(60) DEF vars, Data, ILock, IWriter, ISole, IBorrow, IDirty, Active, Holding
<1> QED
  BY <1>1, <1>2, <1>3, <1>4, <1>5, <1>6, <1>7, <1>8, <1>9, <1>10, <1>11, <1>12, <1>13, <1>14,
     <1>15, <1>16, <1>17, <1>18, <1>19, <1>20, <1>21, <1>22, <1>23, Zenon DEF Next, SessionStep, BorrowStep

\* Init establishes the invariant.
LEMMA InvInit == Init => Flags /\ IInv
<1> SUFFICES ASSUME Init PROVE Flags /\ IInv
  BY Zenon
<1>1. Flags
  BY ZenonT(30) DEF Init, Flags
<1>2. Data
  BY Zenon DEF Init, Data
<1>3. ILock
  BY SessionAssumption, Zenon DEF Init, ILock, Holding
<1>4. IWriter /\ ISole
  BY Zenon DEF Init, IWriter, ISole, Active, Supervised, Session, Remote
<1>5. IBorrow /\ IDirty
  BY Zenon DEF Init, IBorrow, IDirty
<1> QED
  BY <1>1, <1>2, <1>3, <1>4, <1>5, Zenon DEF IInv

LEMMA InvAlways == Spec => [](Flags /\ IInv)
  BY InvInit, FlagStep, InvStep, PTL DEF Spec

\* Every variable of the authority keeps its type.
THEOREM TypeCorrect == Spec => []TypeOK
<1>1. Flags /\ IInv => TypeOK
  BY Zenon DEF Flags, IInv, Data, TypeOK
<1> QED
  BY <1>1, InvAlways, PTL

\* Where every writer is the worker's or the supervisor's own, two never run together: a lost,
\* cancelled or expired lease passes on only after its writer was reaped, or never.
THEOREM ExclusiveWriters == ASSUME Command = {} PROVE Spec => []OneWriter
<1>1. Flags /\ IInv => OneWriter
  BY Zenon DEF IInv, ISole, Active, Supervised, OneWriter, Session, Remote
<1> QED
  BY <1>1, InvAlways, PTL

\* Borrowed ingress calls never outlive the lease they borrowed.
THEOREM BorrowConfined == Spec => []BorrowedInsideLease
<1>1. Flags /\ IInv => BorrowedInsideLease
  BY Zenon DEF IInv, IBorrow, BorrowedInsideLease
<1> QED
  BY <1>1, InvAlways, PTL

\* The lease is handed over quiesced or not at all.
THEOREM HandoverGuarded == Spec => []GuardedHandover
<1>1. Flags /\ IInv => GuardedHandover
  BY Zenon DEF IInv, IDirty, GuardedHandover
<1> QED
  BY <1>1, InvAlways, PTL

\* What an acknowledgement promises, for one session.
Acked(t) == reply[t] # "ok" /\ reply'[t] = "ok" =>
                /\ \A b \in Borrower : by[b] = t => sub'[b] = "off"
                /\ ~dirty' /\ lock' = None

\* Only the end of exclusive acknowledges, after its drain and its final quiesce.
LEMMA AckStep == IInv /\ [Next]_vars => \A t \in Session : Acked(t)
<1> SUFFICES ASSUME IInv, [Next]_vars, NEW t \in Session PROVE Acked(t)
  BY SMTT(30)
<1> USE DEF Acked
<1>1. ASSUME NEW s \in Session, Final(s) PROVE Acked(t)
  <2>1. /\ pc[s] \in {"final", "closing"} /\ Borrowed(s) = {} /\ lock = s /\ lock # None
        /\ \E a \in {"none", "ok", "error"} : Unlock(s, a)
    BY <1>1, SessionAssumption, Zenon DEF Final, IInv, ILock, Holding
  <2>2. reply'[t] = "ok" /\ reply[t] # "ok" => t = s
    BY <2>1, Zenon DEF Unlock, IInv, Data
  <2>3. \A b \in Borrower : by[b] = s => sub'[b] = "off"
    BY <2>1, Zenon DEF Unlock, Borrowed
  <2>4. CASE ~failed /\ UNCHANGED dirty /\ Unlock(s, IF pc[s] = "final" THEN "ok" ELSE "error")
    BY SMTT(30), <2>1, <2>2, <2>3, <2>4 DEF Unlock, IInv, Data, IDirty
  <2>5. CASE Quiesced
    BY <2>1, <2>2, <2>3, <2>5, Zenon DEF Unlock, Quiesced
  <2>6. CASE Unlock(s, "error")
    BY <2>1, <2>2, <2>6, Zenon DEF Unlock, IInv, Data
  <2> QED
    BY ZenonT(30), <1>1, <2>4, <2>5, <2>6 DEF Final
<1>2. ASSUME NEW s \in Session, Ask(s) \/ Busy(s) \/ Refuse(s) PROVE Acked(t)
  BY <1>2, Zenon DEF Ask, Busy, Refuse, IInv, Data
<1>3. ASSUME NEW s \in Session, \/ Grant(s) \/ Begin(s) \/ RemoteEnd(s) \/ CallEnd(s) \/ BootEnd(s)
                               \/ Release(s) \/ Broken(s) \/ Expire(s) \/ Interrupt(s)
                               \/ Join(s) \/ Loss(s)
      PROVE Acked(t)
  BY <1>3, Zenon DEF Grant, Begin, RemoteEnd, CallEnd, BootEnd, Release, Broken, Expire, Lose,
     Interrupt,
     Join, Loss
<1>4. ASSUME NEW b \in Borrower, BorrowStep(b) PROVE Acked(t)
  BY <1>4, Zenon DEF BorrowStep, Borrow, BorrowEnd, BorrowFail, BorrowClean
<1>5. CASE WorkerDies \/ Stop \/ UNCHANGED vars
  BY <1>5, ZenonT(30) DEF WorkerDies, Stop, vars
<1>6. CASE Restart
  BY <1>6, Zenon DEF Restart
<1> QED
  BY ZenonT(30), <1>1, <1>2, <1>3, <1>4, <1>5, <1>6 DEF Next, SessionStep

\* A lease that is acknowledged is over: nothing borrowed from it runs and nothing is left to quiesce.
THEOREM AckIsFinal == Spec => AckedLeaseIsOver
<1>1. IInv /\ [Next]_vars =>
        [\A s \in Session : reply[s] # "ok" /\ reply'[s] = "ok" =>
            /\ \A b \in Borrower : by[b] = s => sub'[b] = "off"
            /\ ~dirty' /\ lock' = None]_vars
  BY AckStep, Zenon DEF Acked
<1> QED
  BY <1>1, InvAlways, PTL DEF Spec, AckedLeaseIsOver

\* What the supervisor promises of a lease's end: it is handed over quiesced or not at all, nothing
\* borrowed outlives it, and its acknowledgement is the last word on it.
THEOREM LeaseEndsCleanly == Spec => HandoverIsClean
BY HandoverGuarded, BorrowConfined, AckIsFinal, PTL DEF HandoverIsClean

-----------------------------------------------------------------------------
(* Signing in, an instance with variables of its own: it shares nothing with *)
(* the mutation authority.                                                   *)

CONSTANTS Clients, MaxAttempts, Window, ChallengeLife, EnrollmentLife, MaxAge, IdleTimeout,
          Refresh, Step, Codes, MaxTime, MaxIssued

VARIABLES now, user, codes, sessions, challenge, enrollment, cookie, request, loop, issued,
          accepted, reused, refused, used

A == INSTANCE Access WITH failed <- refused

\* None is no number; the periods are positive.
AccessConstants ==
  /\ None \notin Int
  /\ MaxAttempts \in Nat \ {0} /\ Window \in Nat \ {0} /\ Refresh \in Nat \ {0}
  /\ Step \in Nat \ {0}
  /\ IdleTimeout \in Nat /\ MaxAge \in Nat
  /\ MaxTime \in Nat /\ MaxIssued \in Nat

Secrets == Int \cup {None}
Failing == 0..MaxAttempts
Users == [mfa: BOOLEAN, secret: Secrets, last: Secrets, failures: Failing, window: Secrets]
Rows == [expires: Int, idle: Int, seen: Int]

Typed ==
  /\ now \in 0..MaxTime /\ issued \in 0..MaxIssued
  /\ user \in Users /\ (user.mfa <=> user.secret # None)
  /\ DOMAIN sessions \subseteq 0..MaxIssued /\ DOMAIN used \subseteq 0..MaxIssued
  /\ loop \in Clients \cup {None} /\ reused \in BOOLEAN

\* Numbers of secrets and batches are given out in order.
Given(n, m) == n \in 0..(m - 1)

\* What was accepted of the secret in use is not newer than the last counter, a
\* code that was accepted is gone, and the secrets and batches are all different.
OneTime ==
  /\ ~reused
  /\ \A a \in accepted : Given(a[1], issued)
  /\ \A a \in accepted : a[1] = user.secret => a[2] \in Int /\ user.last \in Int /\ a[2] =< user.last
  /\ \A r \in codes : r \notin accepted /\ Given(r[1], issued) /\ r[1] # user.secret
  /\ user.secret # None => Given(user.secret, issued)
  /\ enrollment # None =>
       /\ Given(enrollment.secret, issued) /\ enrollment.secret # user.secret
       /\ \A a \in accepted : a[1] # enrollment.secret
       /\ \A r \in codes : r[1] # enrollment.secret

\* A row is renewed in time for its next use.
Renewed ==
  \A t \in DOMAIN sessions :
    /\ t \in DOMAIN used /\ used[t] \in Int
    /\ sessions[t] \in Rows /\ sessions[t].idle = sessions[t].seen + IdleTimeout
    /\ used[t] < sessions[t].seen + Refresh

\* The refused factors of the last Window: those of this window, and those of
\* the one before it, whose first is too old to count.
Counted ==
  /\ IsFiniteSet(refused)
  /\ \A t \in refused : t[1] \in Int /\ t[1] =< now /\ t[1] > now - Window
  /\ user.window = None => refused = {} /\ user.failures = 0
  /\ user.window # None =>
       /\ user.window =< now /\ user.failures >= 1
       /\ Cardinality({t \in refused : t[1] > user.window}) < user.failures
       /\ Cardinality(refused) < user.failures + MaxAttempts

AccessInv == Typed /\ OneTime /\ Renewed /\ Counted

LEMMA UsersAre ==
  Users = [mfa: BOOLEAN, secret: Secrets, last: Secrets, failures: Failing, window: Secrets]
  BY DEF Users

LEMMA UserFields ==
  ASSUME Typed
  PROVE  /\ user \in Users /\ user.mfa \in BOOLEAN /\ user.secret \in Secrets
         /\ user.last \in Secrets /\ user.failures \in Failing /\ user.window \in Secrets
         /\ user.mfa <=> user.secret # None
  BY UsersAre DEF Typed

LEMMA Numbers ==
  ASSUME AccessConstants, Typed
  PROVE  /\ now \in Int /\ issued \in Int /\ issued >= 0 /\ now >= 0
         /\ \A k \in A!Counters : k \in Int
  <1>1. now \in Int /\ issued \in Int /\ issued >= 0 /\ now >= 0
    BY DEF AccessConstants, Typed
  <1>2. now \div Step \in Int
    BY <1>1 DEF AccessConstants
  <1>3. QED
    BY <1>1, <1>2 DEF A!Counters

\* The four changes of the administrator's row.
LEMMA Spent ==
  ASSUME AccessConstants, Typed, NEW k \in Int, user.mfa
  PROVE  /\ [user EXCEPT !.last = k] \in Users
         /\ [user EXCEPT !.failures = 0, !.window = None, !.last = k] \in Users
         /\ [user EXCEPT !.failures = 0, !.window = None] \in Users
<1>1. k \in Secrets /\ None \in Secrets /\ 0 \in Failing
  BY DEF Secrets, Failing, AccessConstants
<1>2. QED
  BY <1>1, UserFields, UsersAre, Zenon

LEMMA NoMfaIs == AccessConstants => A!NoMfa \in Users
<1> SUFFICES ASSUME AccessConstants PROVE A!NoMfa \in Users
  OBVIOUS
<1>1. None \in Secrets /\ 0 \in Failing
  BY DEF Secrets, Failing, AccessConstants
<1>2. QED
  BY <1>1, UsersAre DEF A!NoMfa

-----------------------------------------------------------------------------
(* A credential is accepted once.                                            *)

LEMMA GivenGrows ==
  ASSUME NEW m \in Int, NEW l \in Int, m =< l, NEW n, Given(n, m)
  PROVE  Given(n, l)
  BY DEF Given

\* A step that accepts nothing and gives nothing out, or only a token.
LEMMA NothingAccepted ==
  ASSUME AccessConstants, Typed, OneTime, codes' = codes, enrollment' \in {enrollment, None},
         accepted' = accepted, reused' = reused, user'.secret = user.secret,
         user'.last = user.last, issued' \in {issued, issued + 1}
  PROVE  OneTime'
<1>1. issued \in Int /\ issued >= 0
  BY Numbers
<1>2. issued' \in Int /\ issued =< issued'
  BY <1>1
<1>3. \A n : Given(n, issued) => Given(n, issued')
  BY <1>1, <1>2, GivenGrows, Zenon
<1>4. QED
  BY <1>3 DEF OneTime

\* A counter of the secret in use, newer than the last one.
LEMMA CounterOnce ==
  ASSUME AccessConstants, Typed, OneTime, NEW k \in A!Counters, A!TotpValid(k),
         A!Accept(<<user.secret, k>>), user'.secret = user.secret, user'.last = k,
         codes' = codes, enrollment' = enrollment, issued' = issued
  PROVE  OneTime'
<1>1. k \in Int /\ user.secret # None
  BY Numbers, UserFields DEF A!TotpValid
<1>2. ASSUME NEW a \in accepted, a[1] = user.secret
      PROVE  a[2] \in Int /\ a[2] < k
  <2>1. a[2] \in Int /\ user.last \in Int /\ a[2] =< user.last
    BY <1>2 DEF OneTime
  <2>2. user.last # None
    BY <2>1 DEF AccessConstants
  <2>3. QED
    BY <1>1, <2>1, <2>2 DEF A!TotpValid, A!Newer
<1>3. <<user.secret, k>> \notin accepted
  BY <1>1, <1>2
<1>4. ~reused'
  BY <1>3, Zenon DEF A!Accept, OneTime
<1>5. \A a \in accepted' : a \in accepted \/ a = <<user.secret, k>>
  BY DEF A!Accept
<1>6. <<user.secret, k>>[1] = user.secret /\ <<user.secret, k>>[2] = k
  OBVIOUS
<1>7. Given(user.secret, issued) /\ \A n : Given(n, issued') <=> Given(n, issued)
  BY <1>1 DEF OneTime, Given
<1>8. \A a \in accepted' : Given(a[1], issued')
  BY <1>5, <1>6, <1>7, Zenon DEF OneTime
<1>9. \A a \in accepted' : a[1] = user'.secret =>
        a[2] \in Int /\ user'.last \in Int /\ a[2] =< user'.last
  BY <1>1, <1>2, <1>5, <1>6
<1>10. \A r \in codes' : r \notin accepted' /\ Given(r[1], issued') /\ r[1] # user'.secret
  BY <1>5, <1>6, <1>7, Zenon DEF OneTime
<1>11. enrollment' # None =>
         /\ Given(enrollment'.secret, issued') /\ enrollment'.secret # user'.secret
         /\ \A a \in accepted' : a[1] # enrollment'.secret
         /\ \A r \in codes' : r[1] # enrollment'.secret
  BY <1>5, <1>6, <1>7, Zenon DEF OneTime
<1>12. QED
  BY <1>4, <1>7, <1>8, <1>9, <1>10, <1>11, Zenon DEF OneTime

\* A recovery code, which is gone with its use.
LEMMA CodeOnce ==
  ASSUME AccessConstants, Typed, OneTime, NEW r \in codes, A!Accept(r), codes' = codes \ {r},
         user'.secret = user.secret, user'.last = user.last, enrollment' = enrollment,
         issued' = issued
  PROVE  OneTime'
<1>1. ~reused'
  BY Zenon DEF A!Accept, OneTime
<1>2. \A a \in accepted' : a \in accepted \/ a = r
  BY DEF A!Accept
<1>3. \A n : Given(n, issued') <=> Given(n, issued)
  BY DEF Given
<1>4. \A a \in accepted' : Given(a[1], issued')
  BY <1>2, <1>3, Zenon DEF OneTime
<1>5. \A a \in accepted' : a[1] = user'.secret =>
        a[2] \in Int /\ user'.last \in Int /\ a[2] =< user'.last
  BY <1>2, Zenon DEF OneTime
<1>6. \A s \in codes' : s \notin accepted' /\ Given(s[1], issued') /\ s[1] # user'.secret
  BY <1>2, <1>3 DEF OneTime
<1>7. enrollment' # None =>
         /\ Given(enrollment'.secret, issued') /\ enrollment'.secret # user'.secret
         /\ \A a \in accepted' : a[1] # enrollment'.secret
         /\ \A s \in codes' : s[1] # enrollment'.secret
  BY <1>2, <1>3 DEF OneTime
<1>8. QED
  BY <1>1, <1>3, <1>4, <1>5, <1>6, <1>7, Zenon DEF OneTime

\* A new batch of codes has a number nothing else has.
LEMMA NewBatch ==
  ASSUME AccessConstants, Typed, OneTime, codes' = A!NewCodes(issued), issued' = issued + 1
  PROVE  /\ \A n : Given(n, issued) => Given(n, issued')
         /\ \A r \in codes' : r \notin accepted /\ r[1] = issued /\ Given(r[1], issued')
         /\ ~Given(issued, issued)
<1>1. issued \in Int /\ issued >= 0
  BY Numbers
<1>2. \A n : Given(n, issued) => Given(n, issued')
  BY <1>1 DEF Given
<1>3. ~Given(issued, issued) /\ Given(issued, issued')
  BY <1>1 DEF Given
<1>4. \A r \in codes' : r[1] = issued
  BY DEF A!NewCodes
<1>5. \A r \in codes' : r \notin accepted
  BY <1>3, <1>4, Zenon DEF OneTime
<1>6. QED
  BY <1>2, <1>3, <1>4, <1>5, Zenon

LEMMA EnrollmentOnce ==
  ASSUME AccessConstants, Typed, OneTime, NEW c \in Clients, A!StartEnrollment(c)
  PROVE  OneTime'
<1>1. issued \in Int /\ issued >= 0
  BY Numbers
<1>2. /\ issued' = issued + 1 /\ enrollment'.secret = issued
      /\ UNCHANGED <<user, codes, accepted, reused>>
  BY DEF A!StartEnrollment
<1>3. /\ \A n : Given(n, issued) => Given(n, issued')
      /\ ~Given(issued, issued) /\ Given(issued, issued')
  BY <1>1, <1>2 DEF Given
<1>4. user.secret # issued
  <2>1. issued # None
    BY <1>1 DEF AccessConstants
  <2>2. QED
    BY <1>3, <2>1, Zenon DEF OneTime
<1>5. QED
  BY <1>2, <1>3, <1>4, Zenon DEF OneTime

\* A secret confirmed by its first code, with a new batch of codes.
LEMMA ConfirmOnce ==
  ASSUME AccessConstants, Typed, OneTime, NEW c \in Clients, NEW k \in A!Counters,
         A!ConfirmEnrollment(c, k)
  PROVE  OneTime'
<1> DEFINE s == enrollment.secret
<1>1. /\ Given(s, issued) /\ \A a \in accepted : a[1] # s
      /\ codes' = A!NewCodes(issued) /\ issued' = issued + 1 /\ enrollment' = None
      /\ user' = [user EXCEPT !.mfa = TRUE, !.secret = s, !.last = k]
      /\ A!Accept(<<s, k>>)
  BY DEF A!ConfirmEnrollment, OneTime
<1>2. /\ \A n : Given(n, issued) => Given(n, issued')
      /\ \A r \in codes' : r \notin accepted /\ r[1] = issued /\ Given(r[1], issued')
      /\ ~Given(issued, issued)
  BY <1>1, NewBatch, Zenon
<1>3. user'.secret = s /\ user'.last = k /\ k \in Int
  BY <1>1, UserFields, UsersAre, Numbers
<1> HIDE DEF s
<1>4. <<s, k>>[1] = s /\ <<s, k>>[2] = k
  OBVIOUS
<1>5. ~reused' /\ \A a \in accepted' : a \in accepted \/ a = <<s, k>>
  BY <1>1, <1>4, Zenon DEF A!Accept, OneTime
<1>6. s # issued
  BY <1>1, <1>2
<1>7. \A a \in accepted' : Given(a[1], issued')
  BY <1>1, <1>2, <1>4, <1>5, Zenon DEF OneTime
<1>8. \A a \in accepted' : a[1] = user'.secret =>
        a[2] \in Int /\ user'.last \in Int /\ a[2] =< user'.last
  BY <1>1, <1>3, <1>4, <1>5
<1>9. \A r \in codes' : r \notin accepted' /\ Given(r[1], issued') /\ r[1] # user'.secret
  BY <1>2, <1>3, <1>4, <1>5, <1>6, Zenon
<1>10. QED
  BY <1>1, <1>2, <1>3, <1>5, <1>7, <1>8, <1>9, Zenon DEF OneTime

LEMMA RegenerateOnce ==
  ASSUME AccessConstants, Typed, OneTime, NEW c \in Clients, A!Regenerate(c)
  PROVE  OneTime'
<1>1. /\ codes' = A!NewCodes(issued) /\ issued' = issued + 1
      /\ UNCHANGED <<user, enrollment, accepted, reused>>
  BY DEF A!Regenerate
<1>2. /\ \A n : Given(n, issued) => Given(n, issued')
      /\ \A r \in codes' : r \notin accepted /\ r[1] = issued /\ Given(r[1], issued')
      /\ ~Given(issued, issued)
  BY <1>1, NewBatch, Zenon
<1>3. user.secret # issued
  <2>1. issued # None
    BY Numbers DEF AccessConstants
  <2>2. QED
    BY <1>2, <2>1, Zenon DEF OneTime
<1>4. QED
  BY <1>1, <1>2, <1>3, Zenon DEF OneTime

LEMMA MfaGoneOnce ==
  ASSUME AccessConstants, Typed, OneTime, A!MfaGone, UNCHANGED <<issued, accepted, reused>>
  PROVE  OneTime'
<1>1. user'.secret = None /\ codes' = {} /\ enrollment' = None
  BY DEF A!MfaGone, A!NoMfa
<1>2. \A a \in accepted : a[1] # None
  BY Numbers DEF OneTime, Given, AccessConstants
<1>3. QED
  BY <1>1, <1>2 DEF OneTime

LEMMA OneTimeStep ==
  ASSUME AccessConstants, Typed, OneTime, [A!Next]_(A!vars)
  PROVE  OneTime'
<1>1. CASE UNCHANGED A!vars
  BY <1>1, NothingAccepted DEF A!vars
<1>2. ASSUME NEW c \in Clients,
             \/ A!Admit(c) \/ A!Login(c) \/ A!LoginSession(c) \/ A!StartChallenge(c) \/ A!CancelChallenge(c)
             \/ A!ChallengeRefused(c) \/ A!ChangePassword(c) \/ A!CancelEnrollment(c)
             \/ A!RevokeOthers(c) \/ A!Reject(c) \/ A!Logout(c)
      PROVE  OneTime'
  <2>1. /\ UNCHANGED <<codes, accepted, reused, user>> /\ enrollment' \in {enrollment, None}
        /\ issued' \in {issued, issued + 1}
    BY <1>2, Zenon DEF A!Admit, A!Login, A!LoginSession, A!StartChallenge, A!CancelChallenge, A!ChallengeRefused,
       A!ChangePassword, A!CancelEnrollment, A!RevokeOthers, A!Reject, A!Logout, A!CreateSession
  <2>2. QED
    BY <2>1, NothingAccepted, SMTT(20)
<1>3. ASSUME NEW c \in Clients, A!ChallengeWrong(c) PROVE OneTime'
  <2>1. /\ UNCHANGED <<codes, accepted, reused, enrollment, issued>>
        /\ user' = [user EXCEPT !.failures = A!Failures + 1, !.window = A!Started]
    BY <1>3 DEF A!ChallengeWrong
  <2>2. user'.secret = user.secret /\ user'.last = user.last
    BY <2>1, UserFields, UsersAre
  <2>3. QED
    BY <2>1, <2>2, NothingAccepted
<1>4. ASSUME NEW c \in Clients, NEW k \in A!Counters,
             \/ A!ChallengeTotp(c, k) \/ A!VerifyAgain(c, k, "regenerate")
             \/ A!VerifyAgain(c, k, "disable")
      PROVE  OneTime'
  <2>1. /\ A!TotpValid(k) /\ A!Accept(<<user.secret, k>>) /\ UNCHANGED <<codes, enrollment, issued>>
        /\ \/ user' = [user EXCEPT !.failures = 0, !.window = None, !.last = k]
           \/ user' = [user EXCEPT !.last = k]
    BY <1>4, Zenon DEF A!ChallengeTotp, A!VerifyAgain, A!Passed
  <2>2. user'.secret = user.secret /\ user'.last = k
    BY <2>1, UserFields, UsersAre, Zenon
  <2>3. QED
    BY <2>1, <2>2, CounterOnce
<1>5. ASSUME NEW c \in Clients, NEW r \in codes, A!ChallengeRecovery(c, r) PROVE OneTime'
  <2>1. /\ codes' = codes \ {r} /\ A!Accept(r) /\ UNCHANGED <<enrollment, issued>>
        /\ user' = [user EXCEPT !.failures = 0, !.window = None]
    BY <1>5, Zenon DEF A!ChallengeRecovery, A!Passed
  <2>2. user'.secret = user.secret /\ user'.last = user.last
    BY <2>1, UserFields, UsersAre, Zenon
  <2>3. QED
    BY <2>1, <2>2, CodeOnce
<1>6. ASSUME NEW c \in Clients, A!DisableMfa(c) PROVE OneTime'
  BY <1>6, MfaGoneOnce DEF A!DisableMfa
<1>7. CASE A!CliDisableMfa
  BY <1>7, MfaGoneOnce DEF A!CliDisableMfa
<1>8. CASE A!CliRevoke \/ A!Tick
  BY <1>8, NothingAccepted DEF A!CliRevoke, A!Tick
<1>9. QED
  BY <1>1, <1>2, <1>3, <1>4, <1>5, <1>6, <1>7, <1>8, EnrollmentOnce, ConfirmOnce,
     RegenerateOnce, Zenon DEF A!Next

-----------------------------------------------------------------------------
(* A session in use stays.                                                   *)

LEMMA RowsKept ==
  ASSUME Renewed, NEW S, sessions' = A!Keep(sessions, S), used' = used
  PROVE  Renewed'
<1>1. /\ DOMAIN sessions' \subseteq DOMAIN sessions
      /\ \A t \in DOMAIN sessions' : sessions'[t] = sessions[t]
  BY DEF A!Keep
<1>2. QED
  BY <1>1 DEF Renewed

LEMMA AdmitRenews ==
  ASSUME AccessConstants, Typed, Renewed, NEW c \in Clients, A!Admit(c)
  PROVE  Renewed'
<1> DEFINE s == cookie[c].session
           kept == A!Keep(sessions, {x \in DOMAIN sessions : A!Live(x)})
           renew == A!Live(s) /\ sessions[s].seen =< now - Refresh
<1>1. /\ sessions' = IF renew THEN [kept EXCEPT ![s].seen = now, ![s].idle = now + IdleTimeout]
                     ELSE kept
      /\ used' = A!Keep(IF A!Live(s) THEN A!Put(used, s, now) ELSE used, DOMAIN sessions')
  BY DEF A!Admit, A!SessionUser
<1>2. /\ DOMAIN kept = {x \in DOMAIN sessions : A!Live(x)}
      /\ \A t \in DOMAIN kept : kept[t] = sessions[t]
  BY Zenon DEF A!Keep, A!Live
<1>3. DOMAIN sessions' = DOMAIN kept
  BY <1>1 DEF A!Keep
<1> HIDE DEF kept, renew
<1>4. now \in Int /\ IdleTimeout \in Int /\ Refresh \in Int /\ Refresh > 0
  BY Numbers DEF AccessConstants
<1>5. ASSUME NEW t \in DOMAIN sessions', A!Live(s), t = s
      PROVE  /\ t \in DOMAIN used' /\ used'[t] \in Int
             /\ sessions'[t] \in Rows /\ sessions'[t].idle = sessions'[t].seen + IdleTimeout
             /\ used'[t] < sessions'[t].seen + Refresh
  <2>1. t \in DOMAIN used' /\ used'[t] = now
    BY <1>1, <1>5 DEF A!Keep, A!Put
  <2>2. /\ sessions[t] \in Rows /\ sessions[t].seen \in Int
        /\ sessions[t].idle = sessions[t].seen + IdleTimeout
    BY <1>2, <1>3, <1>5 DEF Renewed, Rows
  <2>3. CASE renew
    <3>1. s \in DOMAIN kept /\ kept[s] = sessions[s]
      BY <1>2, <1>3, <1>5
    <3>2. sessions' = [kept EXCEPT ![s].seen = now, ![s].idle = now + IdleTimeout]
      BY <1>1, <2>3
    <3>3. sessions'[t] = [sessions[t] EXCEPT !.seen = now, !.idle = now + IdleTimeout]
      BY <1>5, <3>1, <3>2
    <3>4. now + IdleTimeout \in Int
      BY <1>4
    <3>5. /\ sessions'[t] \in Rows /\ sessions'[t].seen = now
          /\ sessions'[t].idle = now + IdleTimeout
      BY <1>4, <2>2, <3>3, <3>4, Zenon DEF Rows
    <3>6. QED
      BY <1>4, <2>1, <3>5
  <2>4. CASE ~renew
    <3>1. sessions'[t] = sessions[t]
      BY <1>1, <1>2, <1>3, <2>4
    <3>2. sessions[t].seen > now - Refresh
      BY <1>4, <1>5, <2>2, <2>4 DEF renew
    <3>3. QED
      BY <1>4, <2>1, <2>2, <3>1, <3>2
  <2>5. QED
    BY <2>3, <2>4
<1>6. ASSUME NEW t \in DOMAIN sessions', ~(A!Live(s) /\ t = s)
      PROVE  /\ t \in DOMAIN used' /\ used'[t] \in Int
             /\ sessions'[t] \in Rows /\ sessions'[t].idle = sessions'[t].seen + IdleTimeout
             /\ used'[t] < sessions'[t].seen + Refresh
  <2>1. t \in DOMAIN sessions /\ sessions'[t] = sessions[t]
    BY <1>1, <1>2, <1>3, <1>6
  <2>2. t \in DOMAIN used' /\ used'[t] = used[t]
    BY <1>1, <1>6, <2>1, Zenon DEF A!Keep, A!Put, Renewed
  <2>3. QED
    BY <2>1, <2>2 DEF Renewed
<1>7. QED
  BY <1>5, <1>6, Zenon DEF Renewed

LEMMA CreateRenews ==
  ASSUME AccessConstants, Typed, Renewed, NEW c \in Clients, A!CreateSession(c)
  PROVE  Renewed'
<1> DEFINE row == [expires |-> now + MaxAge, idle |-> now + IdleTimeout, seen |-> now]
<1>1. sessions' = A!Put(sessions, issued, row)
      /\ used' = A!Keep(A!Put(used, issued, now), DOMAIN sessions')
  BY DEF A!CreateSession
<1>2. now \in Int /\ IdleTimeout \in Int /\ Refresh \in Int /\ Refresh > 0
  BY Numbers DEF AccessConstants
<1>3. row.seen = now /\ row.idle = now + IdleTimeout /\ row \in Rows
  <2>1. MaxAge \in Int
    BY DEF AccessConstants
  <2>2. QED
    BY <1>2, <2>1 DEF Rows
<1> HIDE DEF row
<1>4. ASSUME NEW t \in DOMAIN sessions'
      PROVE  /\ t \in DOMAIN used' /\ used'[t] \in Int
             /\ sessions'[t] \in Rows /\ sessions'[t].idle = sessions'[t].seen + IdleTimeout
             /\ used'[t] < sessions'[t].seen + Refresh
  <2>1. CASE t = issued
    <3>1. sessions'[t] = row /\ t \in DOMAIN used' /\ used'[t] = now
      BY <1>1, <2>1 DEF A!Put, A!Keep
    <3>2. QED
      BY <1>2, <1>3, <3>1
  <2>2. CASE t # issued
    <3>1. t \in DOMAIN sessions /\ sessions'[t] = sessions[t]
      BY <1>1, <2>2 DEF A!Put
    <3>2. t \in DOMAIN used' /\ used'[t] = used[t]
      BY <1>1, <2>2, <3>1 DEF A!Put, A!Keep, Renewed
    <3>3. QED
      BY <3>1, <3>2 DEF Renewed
  <2>3. QED
    BY <2>1, <2>2
<1>5. QED
  BY <1>4, Zenon DEF Renewed

LEMMA RenewedStep ==
  ASSUME AccessConstants, Typed, Renewed, [A!Next]_(A!vars)
  PROVE  Renewed'
<1>1. CASE sessions' = sessions /\ used' = used
  BY <1>1 DEF Renewed
<1>2. CASE (\E S : sessions' = A!Keep(sessions, S)) /\ used' = used
  BY <1>2, RowsKept, Zenon
<1>3. CASE sessions' = A!Nothing
  BY <1>3 DEF Renewed, A!Nothing
<1>4. ASSUME NEW c \in Clients, A!LoginSession(c) PROVE Renewed'
  BY <1>4, CreateRenews, Zenon DEF A!LoginSession
<1>5. ASSUME NEW c \in Clients,
             A!Regenerate(c) \/ A!RevokeOthers(c) \/ A!Logout(c)
      PROVE  (\E S : sessions' = A!Keep(sessions, S)) /\ used' = used
  BY <1>5, Zenon DEF A!Regenerate, A!RevokeOthers, A!Logout
<1>6. ASSUME NEW c \in Clients, NEW k, A!ConfirmEnrollment(c, k)
      PROVE  (\E S : sessions' = A!Keep(sessions, S)) /\ used' = used
  BY <1>6, Zenon DEF A!ConfirmEnrollment
<1>7. ASSUME NEW c \in Clients, A!ChangePassword(c) \/ A!DisableMfa(c) PROVE sessions' = A!Nothing
  BY <1>7, Zenon DEF A!ChangePassword, A!DisableMfa, A!MfaGone, A!PasswordReplaced
<1>8. CASE A!CliRevoke \/ A!CliDisableMfa
  BY <1>3, <1>8, Zenon DEF A!CliRevoke, A!CliDisableMfa, A!MfaGone, A!PasswordReplaced
<1>9. CASE A!Tick \/ UNCHANGED A!vars
  BY <1>1, <1>9 DEF A!Tick, A!vars
<1>10. ASSUME NEW c \in Clients,
              \/ A!Login(c) \/ A!StartChallenge(c) \/ A!CancelChallenge(c) \/ A!ChallengeRefused(c)
              \/ A!ChallengeWrong(c) \/ A!StartEnrollment(c) \/ A!CancelEnrollment(c) \/ A!Reject(c)
              \/ \E k \in A!Counters : A!ChallengeTotp(c, k) \/ A!VerifyAgain(c, k, "regenerate")
                                       \/ A!VerifyAgain(c, k, "disable")
              \/ \E r \in codes : A!ChallengeRecovery(c, r)
       PROVE  sessions' = sessions /\ used' = used
  BY <1>10, Zenon DEF A!Login, A!StartChallenge, A!CancelChallenge, A!ChallengeRefused, A!ChallengeWrong,
     A!StartEnrollment, A!CancelEnrollment, A!Reject, A!ChallengeTotp, A!VerifyAgain, A!ChallengeRecovery,
     A!Passed
<1>11. QED
  BY <1>1, <1>2, <1>3, <1>4, <1>5, <1>6, <1>7, <1>8, <1>9, <1>10, AdmitRenews, Zenon DEF A!Next

-----------------------------------------------------------------------------
(* The shapes.                                                               *)

LEMMA TypedStep ==
  ASSUME AccessConstants, Typed, Renewed, OneTime, [A!Next]_(A!vars)
  PROVE  Typed'
<1>1. CASE UNCHANGED A!vars
  BY <1>1 DEF A!vars, Typed
<1>2. ASSUME NEW c \in Clients, A!Admit(c) PROVE Typed'
  <2>1. DOMAIN sessions' \subseteq DOMAIN sessions
    BY <1>2 DEF A!Admit, A!SessionUser, A!Keep
  <2>2. DOMAIN used' \subseteq DOMAIN sessions'
    BY <1>2 DEF A!Admit, A!Keep
  <2>3. UNCHANGED <<now, user, issued, loop, reused>>
    BY <1>2 DEF A!Admit
  <2>4. QED
    BY <2>1, <2>2, <2>3, SMTT(20) DEF Typed
<1>3. ASSUME NEW c \in Clients, A!LoginSession(c) PROVE Typed'
  <2>1. /\ issued' = issued + 1 /\ issued < MaxIssued /\ UNCHANGED <<now, user, reused>>
        /\ loop' = None
    BY <1>3 DEF A!LoginSession, A!CreateSession, A!Return
  <2>2. DOMAIN sessions' = DOMAIN sessions \cup {issued} /\ DOMAIN used' \subseteq DOMAIN sessions'
    BY <1>3 DEF A!LoginSession, A!CreateSession, A!Put, A!Keep
  <2>3. issued \in 0..MaxIssued /\ issued + 1 \in 0..MaxIssued
    BY <2>1 DEF Typed, AccessConstants
  <2>4. QED
    BY <2>1, <2>2, <2>3, SMTT(20) DEF Typed
<1>4. ASSUME NEW c \in Clients,
             \/ A!Login(c) \/ A!StartChallenge(c) \/ A!CancelChallenge(c) \/ A!ChallengeRefused(c)
             \/ A!StartEnrollment(c) \/ A!CancelEnrollment(c) \/ A!Reject(c)
             \/ A!ChangePassword(c) \/ A!Regenerate(c) \/ A!RevokeOthers(c) \/ A!Logout(c)
      PROVE  Typed'
  <2>1. UNCHANGED <<now, user, reused, used>> /\ loop' \in {loop, c, None}
    BY <1>4 DEF A!Login, A!StartChallenge, A!CancelChallenge, A!ChallengeRefused, A!StartEnrollment,
       A!CancelEnrollment, A!Reject, A!ChangePassword, A!Regenerate, A!RevokeOthers, A!Logout, A!Return
  <2>2. DOMAIN sessions' \subseteq DOMAIN sessions
    BY <1>4, Zenon DEF A!Login, A!StartChallenge, A!CancelChallenge, A!ChallengeRefused, A!StartEnrollment,
       A!CancelEnrollment, A!Reject, A!ChangePassword, A!PasswordReplaced, A!Nothing, A!Regenerate,
       A!RevokeOthers, A!Logout, A!Keep
  <2>3. issued' = issued \/ (issued < MaxIssued /\ issued' = issued + 1)
    BY <1>4 DEF A!Login, A!StartChallenge, A!CancelChallenge, A!ChallengeRefused, A!StartEnrollment,
       A!CancelEnrollment, A!Reject, A!ChangePassword, A!Regenerate, A!RevokeOthers, A!Logout
  <2>4. issued' \in 0..MaxIssued
    BY <2>3 DEF Typed, AccessConstants
  <2>5. QED
    BY <2>1, <2>2, <2>4, SMTT(20) DEF Typed
<1>5. ASSUME NEW c \in Clients, A!ChallengeWrong(c) PROVE Typed'
  <2>1. /\ UNCHANGED <<now, sessions, loop, issued, reused, used>> /\ A!Failures < MaxAttempts
        /\ user' = [user EXCEPT !.failures = A!Failures + 1, !.window = A!Started]
    BY <1>5 DEF A!ChallengeWrong
  <2>2. A!Failures + 1 \in Failing /\ A!Started \in Secrets
    BY <2>1, UserFields, Numbers DEF A!Failures, A!Started, Failing, Secrets, AccessConstants
  <2>3. user' \in Users /\ user'.mfa = user.mfa /\ user'.secret = user.secret
    BY <2>1, <2>2, UserFields, UsersAre, Zenon
  <2>4. QED
    BY <2>1, <2>3 DEF Typed
<1>6. ASSUME NEW c \in Clients, NEW k \in A!Counters,
             \/ A!ChallengeTotp(c, k) \/ A!VerifyAgain(c, k, "regenerate")
             \/ A!VerifyAgain(c, k, "disable")
      PROVE  Typed'
  <2>1. /\ UNCHANGED <<now, sessions, issued, used>> /\ loop' = c /\ user.mfa
        /\ \/ user' = [user EXCEPT !.failures = 0, !.window = None, !.last = k]
           \/ user' = [user EXCEPT !.last = k]
    BY <1>6, Zenon DEF A!ChallengeTotp, A!VerifyAgain, A!Passed, A!TotpValid, A!Proceed
  <2>2. reused' \in BOOLEAN
    BY <1>6, Zenon DEF A!ChallengeTotp, A!VerifyAgain, A!Accept
  <2>3. user' \in Users /\ user'.mfa = user.mfa /\ user'.secret = user.secret
    <3>1. k \in Int
      BY Numbers
    <3>2. user' \in Users
      BY <2>1, <3>1, Spent, Zenon
    <3>3. QED
      BY <2>1, <3>2, UserFields, UsersAre, Zenon
  <2>4. QED
    BY <2>1, <2>2, <2>3 DEF Typed
<1>7. ASSUME NEW c \in Clients, NEW r \in codes, A!ChallengeRecovery(c, r) PROVE Typed'
  <2>1. /\ UNCHANGED <<now, sessions, issued, used>> /\ loop' = c
        /\ user' = [user EXCEPT !.failures = 0, !.window = None]
    BY <1>7, Zenon DEF A!ChallengeRecovery, A!Passed
  <2>2. reused' \in BOOLEAN
    BY <1>7 DEF A!ChallengeRecovery, A!Accept
  <2>3. user' \in Users /\ user'.mfa = user.mfa /\ user'.secret = user.secret
    <3>1. None \in Secrets /\ 0 \in Failing
      BY DEF Secrets, Failing, AccessConstants
    <3>2. QED
      BY <2>1, <3>1, UserFields, UsersAre, Zenon
  <2>4. QED
    BY <2>1, <2>2, <2>3 DEF Typed
<1>8. ASSUME NEW c \in Clients, NEW k \in A!Counters, A!ConfirmEnrollment(c, k) PROVE Typed'
  <2>1. /\ UNCHANGED <<now, used>> /\ issued < MaxIssued /\ issued' = issued + 1 /\ loop' = None
        /\ enrollment # None
        /\ user' = [user EXCEPT !.mfa = TRUE, !.secret = enrollment.secret, !.last = k]
    BY <1>8 DEF A!ConfirmEnrollment, A!Return
  <2>2. reused' \in BOOLEAN /\ DOMAIN sessions' \subseteq DOMAIN sessions
    BY <1>8 DEF A!ConfirmEnrollment, A!Accept, A!Keep
  <2>3. enrollment.secret \in Int /\ k \in Int
    BY <2>1, Numbers DEF OneTime, Given
  <2>4. enrollment.secret \in Secrets /\ k \in Secrets /\ enrollment.secret # None
    BY <2>3 DEF Secrets, AccessConstants
  <2>5. user' \in Users /\ user'.mfa = TRUE /\ user'.secret = enrollment.secret
    BY <2>1, <2>4, UserFields, UsersAre, Zenon
  <2>6. issued' \in 0..MaxIssued
    BY <2>1 DEF Typed, AccessConstants
  <2>7. QED
    BY <2>1, <2>2, <2>4, <2>5, <2>6 DEF Typed
<1>9. ASSUME A!MfaGone, UNCHANGED <<now, issued, reused, used>>, loop' \in {loop, None}
      PROVE  Typed'
  <2>1. user' \in Users /\ user'.mfa = FALSE /\ user'.secret = None
    BY <1>9, NoMfaIs DEF A!MfaGone, A!NoMfa
  <2>2. DOMAIN sessions' = {}
    BY <1>9 DEF A!MfaGone, A!Nothing
  <2>3. QED
    BY <1>9, <2>1, <2>2 DEF Typed
<1>10. ASSUME NEW c \in Clients, A!DisableMfa(c) PROVE Typed'
  BY <1>9, <1>10 DEF A!DisableMfa, A!Return
<1>11. CASE A!CliDisableMfa
  BY <1>9, <1>11 DEF A!CliDisableMfa
<1>12. CASE A!CliRevoke
  BY <1>12 DEF A!CliRevoke, A!PasswordReplaced, A!Nothing, Typed
<1>13. CASE A!Tick
  BY <1>13 DEF A!Tick, Typed, AccessConstants
<1>14. QED
  BY <1>1, <1>2, <1>3, <1>4, <1>5, <1>6, <1>7, <1>8, <1>10, <1>11, <1>12, <1>13, Zenon DEF A!Next

-----------------------------------------------------------------------------
(* The refused second factors are bounded.                                   *)

Later(S, w) == {t \in S : t[1] > w}

LEMMA CardinalityIs ==
  ASSUME NEW S
  PROVE  A!Cardinality(S) = Cardinality(S)
  BY DEF A!Cardinality, Cardinality

LEMMA Sizes ==
  ASSUME NEW S, IsFiniteSet(S), NEW T, T \subseteq S
  PROVE  /\ IsFiniteSet(T) /\ Cardinality(T) \in Nat /\ Cardinality(S) \in Nat
         /\ Cardinality(T) =< Cardinality(S)
<1>1. T \in SUBSET S
  OBVIOUS
<1>2. IsFiniteSet(T) /\ Cardinality(T) =< Cardinality(S)
  BY <1>1, FS_Subset
<1>3. Cardinality(T) \in Nat /\ Cardinality(S) \in Nat
  BY <1>2, FS_CardinalityType
<1>4. QED
  BY <1>2, <1>3

LEMMA OneMore ==
  ASSUME NEW S, IsFiniteSet(S), NEW x
  PROVE  /\ IsFiniteSet(S \cup {x}) /\ Cardinality(S \cup {x}) \in Nat /\ Cardinality(S) \in Nat
         /\ Cardinality(S \cup {x}) =< Cardinality(S) + 1
<1>1. /\ IsFiniteSet(S \cup {x})
      /\ Cardinality(S \cup {x}) = IF x \in S THEN Cardinality(S) ELSE Cardinality(S) + 1
  BY FS_AddElement
<1>2. Cardinality(S \cup {x}) \in Nat /\ Cardinality(S) \in Nat
  BY <1>1, FS_CardinalityType
<1>3. QED
  BY <1>1, <1>2

\* Nothing refused, or the same as before with time going on.
LEMMA CountedFewer ==
  ASSUME AccessConstants, Typed, Counted, Typed', refused' \subseteq refused,
         now' >= now, \A t \in refused' : t[1] > now' - Window,
         user'.window = user.window, user'.failures = user.failures
  PROVE  Counted'
<1>1. now \in Int /\ now' \in Int /\ user.failures \in Int /\ MaxAttempts \in Int
  BY Numbers, UserFields DEF AccessConstants, Typed, Failing
<1>2. /\ IsFiniteSet(refused') /\ Cardinality(refused') =< Cardinality(refused)
      /\ Cardinality(refused') \in Nat /\ Cardinality(refused) \in Nat
  BY Sizes DEF Counted
<1>3. \A t \in refused' : t[1] \in Int /\ t[1] =< now' /\ t[1] > now' - Window
  BY <1>1 DEF Counted
<1>4. user.window = None => refused' = {} /\ user'.failures = 0
  BY DEF Counted
<1>5. ASSUME user.window # None
      PROVE  /\ user'.window =< now' /\ user'.failures >= 1
             /\ Cardinality(Later(refused', user.window)) < user'.failures
             /\ Cardinality(refused') < user'.failures + MaxAttempts
  <2>1. /\ user.window =< now /\ user.failures >= 1
        /\ Cardinality(Later(refused, user.window)) < user.failures
        /\ Cardinality(refused) < user.failures + MaxAttempts
    BY <1>5 DEF Counted, Later
  <2>2. user.window \in Int
    BY <1>5, UserFields DEF Secrets
  <2>3. IsFiniteSet(Later(refused, user.window))
    BY Sizes DEF Counted, Later
  <2>4. Later(refused', user.window) \subseteq Later(refused, user.window)
    BY DEF Later
  <2>5. /\ Cardinality(Later(refused', user.window)) \in Nat
        /\ Cardinality(Later(refused, user.window)) \in Nat
        /\ Cardinality(Later(refused', user.window)) =< Cardinality(Later(refused, user.window))
    BY <2>3, <2>4, Sizes
  <2>6. QED
    BY <1>1, <1>2, <2>1, <2>2, <2>5
<1>6. QED
  BY <1>2, <1>3, <1>4, <1>5 DEF Counted, Later

LEMMA CountedNone ==
  ASSUME refused' = {}, user'.window = None, user'.failures = 0
  PROVE  Counted'
  BY FS_EmptySet DEF Counted

\* One more refused factor, in this window or as the first of a new one.
LEMMA CountedWrong ==
  ASSUME AccessConstants, Typed, Counted, NEW c \in Clients, A!ChallengeWrong(c)
  PROVE  Counted'
<1> DEFINE x == <<now, A!Cardinality({t \in refused : t[1] = now})>>
<1>1. now \in Int /\ user.failures \in 0..MaxAttempts /\ MaxAttempts \in Nat /\ Window \in Nat \ {0}
  BY Numbers, UserFields DEF AccessConstants, Failing
<1>2. /\ now' = now /\ refused' = refused \cup {x} /\ x[1] = now /\ A!Failures < MaxAttempts
      /\ user' = [user EXCEPT !.failures = A!Failures + 1, !.window = A!Started]
  BY DEF A!ChallengeWrong
<1> HIDE DEF x
<1>3. user'.failures = A!Failures + 1 /\ user'.window = A!Started
  BY <1>2, UserFields, UsersAre
<1>4. IsFiniteSet(refused)
  BY DEF Counted
<1>5. /\ IsFiniteSet(refused') /\ Cardinality(refused') \in Nat /\ Cardinality(refused) \in Nat
      /\ Cardinality(refused') =< Cardinality(refused) + 1
  BY <1>2, <1>4, OneMore
<1>6. \A t \in refused' : t[1] \in Int /\ t[1] =< now' /\ t[1] > now' - Window
  BY <1>1, <1>2 DEF Counted
<1>7. /\ A!Started \in Int /\ A!Started # None /\ A!Started =< now /\ A!Failures \in 0..MaxAttempts
      /\ Cardinality(Later(refused', A!Started)) < A!Failures + 1
      /\ Cardinality(refused') < A!Failures + 1 + MaxAttempts
  <2>1. CASE A!WindowOver
    <3>1. A!Started = now /\ A!Failures = 0
      BY <2>1 DEF A!Started, A!Failures
    <3>2. Later(refused', now) = {}
      BY <1>1, <1>2, <1>6 DEF Later
    <3>3. Cardinality(refused) < MaxAttempts
      <4>1. CASE user.window = None
        <5>1. Cardinality(refused) = 0
          BY <4>1, FS_EmptySet DEF Counted
        <5>2. QED
          BY <1>1, <5>1 DEF AccessConstants
      <4>2. CASE user.window # None
        <5>1. user.window \in Int /\ now >= user.window + Window
          BY <2>1, <4>2, UserFields DEF A!WindowOver, Secrets
        <5>2. refused = {t \in refused : t[1] > user.window}
          BY <1>1, <5>1 DEF Counted
        <5>3. Cardinality(refused) < user.failures
          BY <4>2, <5>2, Zenon DEF Counted
        <5>4. QED
          BY <1>1, <1>5, <5>3
      <4>3. QED
        BY <4>1, <4>2
    <3>4. Cardinality(Later(refused', now)) = 0
      BY <3>2, FS_EmptySet
    <3>5. None \notin Int
      BY DEF AccessConstants
    <3>6. QED
      BY <1>1, <1>5, <3>1, <3>3, <3>4, <3>5
  <2>2. CASE ~A!WindowOver
    <3>1. A!Started = user.window /\ A!Failures = user.failures /\ user.window # None
      BY <2>2 DEF A!Started, A!Failures, A!WindowOver
    <3>2. user.window \in Int
      BY <3>1, UserFields DEF Secrets
    <3>3. /\ user.window =< now /\ Cardinality(Later(refused, user.window)) < user.failures
          /\ Cardinality(refused) < user.failures + MaxAttempts
      BY <3>1 DEF Counted, Later
    <3>4. IsFiniteSet(Later(refused, user.window))
      BY <1>4, Sizes DEF Later
    <3>5. /\ IsFiniteSet(Later(refused, user.window) \cup {x})
          /\ Cardinality(Later(refused, user.window) \cup {x}) \in Nat
          /\ Cardinality(Later(refused, user.window)) \in Nat
          /\ Cardinality(Later(refused, user.window) \cup {x})
               =< Cardinality(Later(refused, user.window)) + 1
      BY <3>4, OneMore, Zenon
    <3>6. Later(refused', user.window) \subseteq Later(refused, user.window) \cup {x}
      BY <1>2 DEF Later
    <3>7. /\ Cardinality(Later(refused', user.window)) \in Nat
          /\ Cardinality(Later(refused', user.window))
               =< Cardinality(Later(refused, user.window) \cup {x})
      BY <3>5, <3>6, Sizes
    <3>8. QED
      BY <1>1, <1>5, <3>1, <3>2, <3>3, <3>5, <3>7
  <2>3. QED
    BY <2>1, <2>2
<1>8. QED
  BY <1>2, <1>3, <1>5, <1>6, <1>7 DEF Counted, Later

LEMMA CountedStep ==
  ASSUME AccessConstants, Typed, Counted, Typed', [A!Next]_(A!vars)
  PROVE  Counted'
<1>1. ASSUME now' = now, refused' = refused, user'.window = user.window,
             user'.failures = user.failures
      PROVE  Counted'
  <2>1. now \in Int
    BY Numbers
  <2>2. now' >= now /\ \A t \in refused' : t[1] > now' - Window
    BY <1>1, <2>1 DEF Counted
  <2>3. QED
    BY <1>1, <2>2, CountedFewer
<1>2. ASSUME NEW c \in Clients,
             \/ A!Admit(c) \/ A!Login(c) \/ A!LoginSession(c) \/ A!StartChallenge(c) \/ A!CancelChallenge(c)
             \/ A!ChallengeRefused(c) \/ A!ChangePassword(c) \/ A!StartEnrollment(c)
             \/ A!CancelEnrollment(c) \/ A!Regenerate(c) \/ A!RevokeOthers(c) \/ A!Reject(c) \/ A!Logout(c)
      PROVE  Counted'
  <2>1. now' = now /\ refused' = refused /\ user' = user
    BY <1>2, Zenon DEF A!Admit, A!Login, A!LoginSession, A!StartChallenge, A!CancelChallenge, A!ChallengeRefused,
       A!ChangePassword, A!StartEnrollment, A!CancelEnrollment, A!Regenerate, A!RevokeOthers, A!Reject, A!Logout
  <2>2. user'.window = user.window /\ user'.failures = user.failures
    BY <2>1
  <2>3. QED
    BY <1>1, <2>1, <2>2, Zenon
<1>3. ASSUME NEW c \in Clients, NEW k \in A!Counters,
             \/ A!ConfirmEnrollment(c, k) \/ A!VerifyAgain(c, k, "regenerate")
             \/ A!VerifyAgain(c, k, "disable")
      PROVE  Counted'
  <2>1. /\ now' = now /\ refused' = refused
        /\ \/ user' = [user EXCEPT !.last = k]
           \/ user' = [user EXCEPT !.mfa = TRUE, !.secret = enrollment.secret, !.last = k]
    BY <1>3, Zenon DEF A!ConfirmEnrollment, A!VerifyAgain
  <2>2. user'.window = user.window /\ user'.failures = user.failures
    BY <2>1, UserFields, UsersAre, Zenon
  <2>3. QED
    BY <1>1, <2>1, <2>2, Zenon
<1>4. ASSUME NEW c \in Clients,
             \/ \E k \in A!Counters : A!ChallengeTotp(c, k)
             \/ \E r \in codes : A!ChallengeRecovery(c, r)
      PROVE  Counted'
  <2>1. /\ refused' = {}
        /\ \/ \E k : user' = [user EXCEPT !.failures = 0, !.window = None, !.last = k]
           \/ user' = [user EXCEPT !.failures = 0, !.window = None]
    BY <1>4, Zenon DEF A!ChallengeTotp, A!ChallengeRecovery, A!Passed
  <2>2. user'.window = None /\ user'.failures = 0
    BY <2>1, UserFields, UsersAre, Zenon
  <2>3. QED
    BY <2>1, <2>2, CountedNone, Zenon
<1>5. ASSUME A!MfaGone PROVE Counted'
  BY <1>5, CountedNone DEF A!MfaGone, A!NoMfa
<1>6. ASSUME NEW c \in Clients, A!DisableMfa(c) PROVE Counted'
  BY <1>5, <1>6, Zenon DEF A!DisableMfa
<1>7. CASE A!CliRevoke \/ A!CliDisableMfa \/ UNCHANGED A!vars
  BY <1>1, <1>5, <1>7, Zenon DEF A!CliRevoke, A!CliDisableMfa, A!vars
<1>8. CASE A!Tick
  <2>1. now \in Int /\ now' = now + 1 /\ user' = user /\ refused' \subseteq refused
        /\ \A t \in refused' : t[1] > now' - Window
    BY <1>8, Numbers DEF A!Tick
  <2>2. now' >= now
    BY <2>1
  <2>3. QED
    BY <2>1, <2>2, CountedFewer
<1>9. QED
  BY <1>2, <1>3, <1>4, <1>6, <1>7, <1>8, CountedWrong, Zenon DEF A!Next

-----------------------------------------------------------------------------
LEMMA AccessInit ==
  ASSUME AccessConstants, A!Init
  PROVE  AccessInv
<1>1. Typed
  <2>1. user \in Users /\ (user.mfa <=> user.secret # None)
    BY NoMfaIs DEF A!Init, A!NoMfa
  <2>2. DOMAIN sessions = {} /\ DOMAIN used = {}
    BY DEF A!Init, A!Nothing
  <2>3. now \in 0..MaxTime /\ issued \in 0..MaxIssued /\ loop = None /\ reused = FALSE
    BY DEF A!Init, AccessConstants
  <2>4. QED
    BY <2>1, <2>2, <2>3, Zenon DEF Typed
<1>2. OneTime
  BY DEF OneTime, A!Init, A!NoMfa
<1>3. Renewed
  BY DEF Renewed, A!Init, A!Nothing
<1>4. Counted
  BY FS_EmptySet DEF Counted, A!Init, A!NoMfa
<1>5. QED
  BY <1>1, <1>2, <1>3, <1>4 DEF AccessInv

LEMMA AccessInvariant ==
  ASSUME AccessConstants
  PROVE  A!Spec => []AccessInv
<1>1. A!Init => AccessInv
  BY AccessInit
<1>2. AccessInv /\ [A!Next]_(A!vars) => AccessInv'
  <2> SUFFICES ASSUME AccessInv, [A!Next]_(A!vars) PROVE AccessInv'
    OBVIOUS
  <2>1. Typed /\ OneTime /\ Renewed /\ Counted
    BY DEF AccessInv
  <2>2. Typed'
    BY <2>1, TypedStep
  <2>3. OneTime' /\ Renewed' /\ Counted'
    BY <2>1, <2>2, OneTimeStep, RenewedStep, CountedStep, Zenon
  <2>4. QED
    BY <2>2, <2>3 DEF AccessInv
<1>3. QED
  BY <1>1, <1>2, PTL DEF A!Spec

(* The administrator's row, the sessions and the clock keep their shapes,    *)
(* and the second factor is on exactly while the row holds a secret.         *)
THEOREM AccessTypes ==
  ASSUME AccessConstants
  PROVE  A!Spec => []A!TypeOK
<1>1. AccessInv => A!TypeOK
  BY UserFields DEF AccessInv, A!TypeOK, Typed, Failing
<1>2. QED
  BY <1>1, AccessInvariant, PTL

(* auth_security consume_challenge, confirm_enrollment, verify_mfa: a TOTP   *)
(* code and a recovery code are accepted once, by whichever route and after  *)
(* whichever local command, for any clients and any number of secrets and    *)
(* batches of codes.                                                         *)
THEOREM CredentialsWorkOnce ==
  ASSUME AccessConstants
  PROVE  A!Spec => []A!OneTimeUse
<1>1. AccessInv => A!OneTimeUse
  BY DEF AccessInv, OneTime, A!OneTimeUse
<1>2. QED
  BY <1>1, AccessInvariant, PTL

(* auth_security's failure window: over all challenges and clients, fewer    *)
(* than twice MFA_MAX_ATTEMPTS second factors are refused in any window      *)
(* between two that are accepted, for every limit and every window.          *)
THEOREM RefusalsAreBounded ==
  ASSUME AccessConstants
  PROVE  A!Spec => []A!AttemptsBounded
<1>1. AccessInv => A!AttemptsBounded
  <2> SUFFICES ASSUME AccessInv PROVE Cardinality(refused) < 2 * MaxAttempts
    BY CardinalityIs DEF A!AttemptsBounded
  <2>1. MaxAttempts \in Nat \ {0} /\ user.failures \in 0..MaxAttempts
    BY UserFields DEF AccessConstants, AccessInv, Failing
  <2>2. IsFiniteSet(refused) /\ Cardinality(refused) \in Nat
    BY FS_CardinalityType DEF AccessInv, Counted
  <2>3. CASE user.window = None
    <3>1. Cardinality(refused) = 0
      BY <2>3, FS_EmptySet DEF AccessInv, Counted
    <3>2. QED
      BY <2>1, <3>1
  <2>4. CASE user.window # None
    <3>1. Cardinality(refused) < user.failures + MaxAttempts
      BY <2>4 DEF AccessInv, Counted
    <3>2. QED
      BY <2>1, <2>2, <3>1
  <2>5. QED
    BY <2>3, <2>4
<1>2. QED
  BY <1>1, AccessInvariant, PTL

(* session_user renews a row at most once per Refresh, and still a session   *)
(* outlives its last use by the idle timeout less that time.                 *)
THEOREM SessionsInUseStay ==
  ASSUME AccessConstants
  PROVE  A!Spec => []A!ActiveStaysSignedIn
<1>1. AccessInv => A!ActiveStaysSignedIn
  <2> SUFFICES ASSUME AccessInv, NEW t \in DOMAIN sessions
               PROVE  sessions[t].idle > used[t] + IdleTimeout - Refresh
    BY DEF A!ActiveStaysSignedIn
  <2>1. /\ used[t] \in Int /\ sessions[t] \in Rows
        /\ sessions[t].idle = sessions[t].seen + IdleTimeout
        /\ used[t] < sessions[t].seen + Refresh
    BY DEF AccessInv, Renewed
  <2>2. sessions[t].seen \in Int /\ IdleTimeout \in Int /\ Refresh \in Int
    BY <2>1 DEF Rows, AccessConstants
  <2>3. QED
    BY <2>1, <2>2
<1>2. QED
  BY <1>1, AccessInvariant, PTL
===============================================================================
