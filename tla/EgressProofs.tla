----------------------------- MODULE EgressProofs -----------------------------
(***************************************************************************)
(* The guard of a provider's egress, for any configurations.  The native   *)
(* host's routing holds it at every command, whichever commands fail; and  *)
(* the container's forwarding policy holds it for any tasks and epochs.    *)
(***************************************************************************)
EXTENDS ProviderEgress, TLAPS

-----------------------------------------------------------------------------
(* The native host: the shape of its state, and lists of commands.           *)

HostUnreachable == SUBSET Families
HostRules == SUBSET (Ingress \X Families)
HostOif == SUBSET Interfaces
HostSources == SUBSET Addresses
Owner == Interfaces \cup {None}
Config == Configs \cup {None}
PerInterface == [Interfaces -> Config]
Foreign == {"none", "guard", "source"}

Hosts == [unreachable: HostUnreachable, iif: HostRules, oif: HostOif, sources: HostSources,
          route: Owner, up: PerInterface, file: PerInterface, foreign: Foreign]

Kinds == {"idle", "start", "rollback", "broken", "arm", "stop", "disarm"}
Todos == Seq(Steps)
Ops == [kind: Kinds, config: Config, iface: Owner, todo: Todos, previous: Config]

Dels == {"del_iif4", "del_iif6"}
OfIface == {"oif", "down", "unroute", "write", "up", "route", "restore", "del_oif"}
OfConfig == {"source", "write"}

\* The commands of a list, and that every command a of it is preceded by a b.
Elems(s) == {s[n] : n \in 1..Len(s)}
Before(s, a, b) == \A n \in 1..Len(s) : s[n] = a => \E m \in 1..(n - 1) : s[m] = b

LEMMA HostsAre ==
  Hosts = [unreachable: HostUnreachable, iif: HostRules, oif: HostOif, sources: HostSources,
           route: Owner, up: PerInterface, file: PerInterface, foreign: Foreign]
  BY DEF Hosts

LEMMA OpsAre ==
  Ops = [kind: Kinds, config: Config, iface: Owner, todo: Todos, previous: Config]
  BY DEF Ops

LEMMA TailSteps ==
  ASSUME NEW s \in Todos, s # <<>>
  PROVE  /\ Tail(s) \in Todos /\ Head(s) \in Steps /\ Head(s) = s[1]
         /\ Len(Tail(s)) = Len(s) - 1 /\ Len(s) \in Nat \ {0}
         /\ \A n \in 1..Len(Tail(s)) : Tail(s)[n] = s[n + 1]
  BY DEF Todos

\* What precedes still precedes, unless it was the command that is over.
LEMMA TailBefore ==
  ASSUME NEW s \in Todos, s # <<>>, NEW a, NEW b, Before(s, a, b)
  PROVE  Head(s) # a /\ (Head(s) # b => Before(Tail(s), a, b))
<1>1. Head(s) # a
  <2>1. 1 \in 1..Len(s) /\ ~(\E m \in 1..(1 - 1) : TRUE)
    BY TailSteps
  <2>2. QED
    BY <2>1, TailSteps DEF Before
<1>2. ASSUME Head(s) # b, NEW n \in 1..Len(Tail(s)), Tail(s)[n] = a
      PROVE  \E m \in 1..(n - 1) : Tail(s)[m] = b
  <2>1. n + 1 \in 1..Len(s) /\ s[n + 1] = a
    BY <1>2, TailSteps
  <2>2. PICK m \in 1..((n + 1) - 1) : s[m] = b
    BY <2>1 DEF Before
  <2>3. m # 1
    BY <1>2, <2>2, TailSteps
  <2>4. m - 1 \in 1..(n - 1) /\ m - 1 \in 1..Len(Tail(s)) /\ (m - 1) + 1 = m
    BY <2>2, <2>3, TailSteps
  <2>5. Tail(s)[m - 1] = b
    BY <2>2, <2>4, TailSteps
  <2>6. QED
    BY <2>4, <2>5
<1>3. QED
  BY <1>1, <1>2 DEF Before

LEMMA TailElems ==
  ASSUME NEW s \in Todos, s # <<>>
  PROVE  Elems(s) = {Head(s)} \cup Elems(Tail(s))
<1>1. ASSUME NEW e \in Elems(s) PROVE e \in {Head(s)} \cup Elems(Tail(s))
  <2>1. PICK n \in 1..Len(s) : e = s[n]
    BY <1>1 DEF Elems
  <2>2. CASE n = 1
    BY <2>1, <2>2, TailSteps
  <2>3. CASE n # 1
    <3>1. n - 1 \in 1..Len(Tail(s)) /\ (n - 1) + 1 = n
      BY <2>1, <2>3, TailSteps
    <3>2. Tail(s)[n - 1] = e
      BY <2>1, <3>1, TailSteps
    <3>3. QED
      BY <3>1, <3>2, Zenon DEF Elems
  <2>4. QED
    BY <2>2, <2>3
<1>2. ASSUME NEW e \in Elems(Tail(s)) PROVE e \in Elems(s)
  <2>1. PICK n \in 1..Len(Tail(s)) : e = Tail(s)[n]
    BY <1>2, Zenon DEF Elems
  <2>2. n + 1 \in 1..Len(s) /\ e = s[n + 1]
    BY <2>1, TailSteps
  <2>3. QED
    BY <2>2 DEF Elems
<1>3. Head(s) \in Elems(s)
  <2>1. 1 \in 1..Len(s) /\ Head(s) = s[1]
    BY TailSteps
  <2>2. QED
    BY <2>1 DEF Elems
<1>4. QED
  BY <1>1, <1>2, <1>3

LEMMA AbsentBefore ==
  ASSUME NEW s, NEW a, NEW b, a \notin Elems(s)
  PROVE  Before(s, a, b)
  BY DEF Elems, Before

\* Two lists of commands, one after the other.
LEMMA Joined ==
  ASSUME NEW s \in Todos, NEW t \in Todos
  PROVE  /\ s \o t \in Todos /\ Len(s \o t) = Len(s) + Len(t)
         /\ Len(s) \in Nat /\ Len(t) \in Nat
         /\ \A n \in 1..Len(s) : (s \o t)[n] = s[n]
         /\ \A n \in 1..Len(t) : (s \o t)[Len(s) + n] = t[n]
  BY DEF Todos

\* A place in the joined list is a place in one of the two.
LEMMA Places ==
  ASSUME NEW s \in Todos, NEW t \in Todos
  PROVE  /\ \A n \in 1..Len(s \o t) : n \in 1..Len(s) \/ \E k \in 1..Len(t) : n = Len(s) + k
         /\ \A n \in 1..Len(s) : n \in 1..Len(s \o t)
         /\ \A k \in 1..Len(t) : Len(s) + k \in 1..Len(s \o t)
<1>1. ASSUME NEW n \in 1..Len(s \o t), n \notin 1..Len(s)
      PROVE  \E k \in 1..Len(t) : n = Len(s) + k
  <2>1. n - Len(s) \in 1..Len(t) /\ n = Len(s) + (n - Len(s))
    BY <1>1, Joined
  <2>2. QED
    BY <2>1
<1>2. \A n \in 1..Len(s) : n \in 1..Len(s \o t)
  BY Joined
<1>3. \A k \in 1..Len(t) : Len(s) + k \in 1..Len(s \o t)
  BY Joined
<1>4. QED
  BY <1>1, <1>2, <1>3

LEMMA JoinElems ==
  ASSUME NEW s \in Todos, NEW t \in Todos
  PROVE  Elems(s \o t) = Elems(s) \cup Elems(t)
<1>1. ASSUME NEW e \in Elems(s \o t) PROVE e \in Elems(s) \cup Elems(t)
  <2>1. PICK n \in 1..Len(s \o t) : e = (s \o t)[n]
    BY <1>1 DEF Elems
  <2>2. CASE n \in 1..Len(s)
    BY <2>1, <2>2, Joined, Zenon DEF Elems
  <2>3. CASE \E k \in 1..Len(t) : n = Len(s) + k
    <3>1. PICK k \in 1..Len(t) : n = Len(s) + k
      BY <2>3
    <3>2. e = t[k]
      BY <2>1, <3>1, Joined, Zenon
    <3>3. QED
      BY <3>1, <3>2, Zenon DEF Elems
  <2>4. QED
    BY <2>1, <2>2, <2>3, Places, Zenon
<1>2. ASSUME NEW e \in Elems(s) PROVE e \in Elems(s \o t)
  BY <1>2, Joined, Places, Zenon DEF Elems
<1>3. ASSUME NEW e \in Elems(t) PROVE e \in Elems(s \o t)
  <2>1. PICK k \in 1..Len(t) : e = t[k]
    BY <1>3, Zenon DEF Elems
  <2>2. Len(s) + k \in 1..Len(s \o t) /\ (s \o t)[Len(s) + k] = e
    BY <2>1, Joined, Places, Zenon
  <2>3. QED
    BY <2>2, Zenon DEF Elems
<1>4. QED
  BY <1>1, <1>2, <1>3, Zenon

\* In the second list a may also be preceded by a b of the first.
LEMMA JoinBefore ==
  ASSUME NEW s \in Todos, NEW t \in Todos, NEW a, NEW b, Before(s, a, b),
         Before(t, a, b) \/ b \in Elems(s)
  PROVE  Before(s \o t, a, b)
<1>1. ASSUME NEW n \in 1..Len(s \o t), (s \o t)[n] = a
      PROVE  \E m \in 1..(n - 1) : (s \o t)[m] = b
  <2>1. CASE n \in 1..Len(s)
    <3>1. PICK m \in 1..(n - 1) : s[m] = b
      BY <1>1, <2>1, Joined, Zenon DEF Before
    <3>2. m \in 1..Len(s)
      BY <2>1, <3>1, Joined
    <3>3. QED
      BY <3>1, <3>2, Joined, Zenon
  <2>2. ASSUME NEW k \in 1..Len(t), n = Len(s) + k, b \in Elems(s)
        PROVE  \E m \in 1..(n - 1) : (s \o t)[m] = b
    <3>1. PICK m \in 1..Len(s) : s[m] = b
      BY <2>2, Zenon DEF Elems
    <3>2. m \in 1..(n - 1)
      BY <2>2, <3>1, Joined
    <3>3. QED
      BY <3>1, <3>2, Joined, Zenon
  <2>3. ASSUME NEW k \in 1..Len(t), n = Len(s) + k, Before(t, a, b)
        PROVE  \E m \in 1..(n - 1) : (s \o t)[m] = b
    <3>1. t[k] = a
      BY <1>1, <2>3, Joined, Zenon
    <3>2. PICK m \in 1..(k - 1) : t[m] = b
      BY <2>3, <3>1, Zenon DEF Before
    <3>3. Len(s) \in Nat /\ Len(t) \in Nat
      BY Joined, Zenon
    <3>4. m \in 1..Len(t) /\ Len(s) + m \in 1..(n - 1)
      BY <2>3, <3>2, <3>3
    <3>5. QED
      BY <3>2, <3>4, Joined, Zenon
  <2>4. n \in 1..Len(s) \/ \E k \in 1..Len(t) : n = Len(s) + k
    BY Places, Zenon
  <2>5. QED
    BY <2>1, <2>2, <2>3, <2>4, Zenon
<1>2. QED
  BY <1>1 DEF Before

\* Lists of one, two and four commands.
LEMMA One ==
  ASSUME NEW a \in Steps
  PROVE  <<a>> \in Todos /\ Elems(<<a>>) = {a}
  BY DEF Todos, Elems

LEMMA Two ==
  ASSUME NEW a \in Steps, NEW b \in Steps, a # b
  PROVE  <<a, b>> \in Todos /\ Elems(<<a, b>>) = {a, b} /\ Before(<<a, b>>, b, a)
<1>1. <<a, b>> \in Todos
  BY DEF Todos
<1>2. Len(<<a, b>>) = 2 /\ <<a, b>>[1] = a /\ <<a, b>>[2] = b
  OBVIOUS
<1>3. 1..2 = {1, 2} /\ 1 \in 1..(2 - 1)
  OBVIOUS
<1>4. Elems(<<a, b>>) = {a, b}
  BY <1>2, <1>3, Zenon DEF Elems
<1>5. Before(<<a, b>>, b, a)
  BY <1>2, <1>3, Zenon DEF Before
<1>6. QED
  BY <1>1, <1>4, <1>5

LEMMA Four ==
  ASSUME NEW a \in Steps, NEW b \in Steps, NEW c \in Steps, NEW d \in Steps,
         b \notin {a, c, d}
  PROVE  /\ <<a, b, c, d>> \in Todos /\ Elems(<<a, b, c, d>>) = {a, b, c, d}
         /\ Before(<<a, b, c, d>>, b, a)
<1> DEFINE s == <<a, b, c, d>>
<1>1. s \in Todos
  BY DEF Todos
<1>2. Len(s) = 4 /\ s[1] = a /\ s[2] = b /\ s[3] = c /\ s[4] = d
  OBVIOUS
<1> HIDE DEF s
<1>3. 1..4 = {1, 2, 3, 4} /\ 1 \in 1..(2 - 1)
  OBVIOUS
<1>4. Elems(s) = {a, b, c, d}
  BY <1>2, <1>3 DEF Elems
<1>5. Before(s, b, a)
  BY <1>2, <1>3 DEF Before
<1>6. QED
  BY <1>1, <1>4, <1>5 DEF s

\* What every list of commands keeps to: the unreachable default before the rule
\* of its family, one family's rules before the other's, and the address and the
\* file before the tunnel.
Ordered(s) ==
  /\ Before(s, "iif4", "unreachable4") /\ Before(s, "iif6", "unreachable6")
  /\ Before(s, "iif6", "iif4")
  /\ Before(s, "up", "source") /\ Before(s, "up", "write")

LEMMA GuardList ==
  /\ GuardSteps \in Todos /\ Elems(GuardSteps) = {"unreachable4", "unreachable6"}
  /\ RuleSteps \in Todos /\ Elems(RuleSteps) = {"iif4", "iif6"}
  /\ Before(RuleSteps, "iif6", "iif4")
  /\ StopSteps \in Todos /\ Elems(StopSteps) = {"down", "unroute"}
  BY Two DEF GuardSteps, RuleSteps, StopSteps, Steps

\* A list with no rules and no tunnel keeps to it.
LEMMA PlainOrdered ==
  ASSUME NEW s, Elems(s) \cap {"iif4", "iif6", "up"} = {}
  PROVE  Ordered(s)
<1>1. "iif4" \notin Elems(s) /\ "iif6" \notin Elems(s) /\ "up" \notin Elems(s)
  OBVIOUS
<1>2. QED
  BY <1>1, AbsentBefore, Zenon DEF Ordered

LEMMA JoinOrdered ==
  ASSUME NEW s \in Todos, NEW t \in Todos, Ordered(s), Ordered(t)
  PROVE  Ordered(s \o t)
  BY JoinBefore, Zenon DEF Ordered

\* The ingress rules may follow any list that has both unreachable defaults.
LEMMA RulesOrdered ==
  ASSUME NEW s \in Todos, Ordered(s), {"unreachable4", "unreachable6"} \subseteq Elems(s)
  PROVE  Ordered(s \o RuleSteps)
<1>1. "unreachable4" \in Elems(s) /\ "unreachable6" \in Elems(s)
  OBVIOUS
<1>2. "up" \notin Elems(RuleSteps)
  BY GuardList
<1>3. Before(RuleSteps, "up", "source") /\ Before(RuleSteps, "up", "write")
  BY <1>2, AbsentBefore, Zenon
<1>4. QED
  BY <1>1, <1>3, GuardList, JoinBefore, Zenon DEF Ordered

LEMMA ApplyList ==
  /\ ApplyGuard \in Todos /\ Ordered(ApplyGuard)
  /\ Elems(ApplyGuard) = {"unreachable4", "unreachable6", "source", "iif4", "iif6", "oif"}
<1> DEFINE a == GuardSteps \o <<"source">>
           b == a \o RuleSteps
<1>1. <<"source">> \in Todos /\ Elems(<<"source">>) = {"source"}
  BY One DEF Steps
<1>2. <<"oif">> \in Todos /\ Elems(<<"oif">>) = {"oif"}
  BY One DEF Steps
<1>3. a \in Todos /\ Elems(a) = {"unreachable4", "unreachable6", "source"}
  <2>1. a \in Todos
    BY <1>1, GuardList, Joined, Zenon
  <2>2. Elems(a) = Elems(GuardSteps) \cup Elems(<<"source">>)
    BY <1>1, GuardList, JoinElems, Zenon
  <2>3. QED
    BY <1>1, <2>1, <2>2, GuardList
<1>4. Ordered(a)
  <2>1. Elems(a) \cap {"iif4", "iif6", "up"} = {}
    BY <1>3
  <2>2. QED
    BY <2>1, PlainOrdered, Zenon
<1>5. b \in Todos /\ Elems(b) = {"unreachable4", "unreachable6", "source", "iif4", "iif6"}
  <2>1. b \in Todos
    BY <1>3, GuardList, Joined, Zenon
  <2>2. Elems(b) = Elems(a) \cup Elems(RuleSteps)
    BY <1>3, GuardList, JoinElems, Zenon
  <2>3. QED
    BY <1>3, <2>1, <2>2, GuardList
<1>6. Ordered(b)
  <2>1. {"unreachable4", "unreachable6"} \subseteq Elems(a)
    BY <1>3
  <2>2. QED
    BY <1>3, <1>4, <2>1, RulesOrdered, Zenon
<1>7. Ordered(<<"oif">>)
  <2>1. Elems(<<"oif">>) \cap {"iif4", "iif6", "up"} = {}
    BY <1>2
  <2>2. QED
    BY <2>1, PlainOrdered, Zenon
<1>8. ApplyGuard = b \o <<"oif">>
  BY DEF ApplyGuard
<1>9. ApplyGuard \in Todos /\ Ordered(ApplyGuard)
  BY <1>2, <1>5, <1>6, <1>7, <1>8, Joined, JoinOrdered, Zenon
<1>10. Elems(ApplyGuard) = Elems(b) \cup Elems(<<"oif">>)
  BY <1>2, <1>5, <1>8, JoinElems, Zenon
<1>11. QED
  BY <1>2, <1>5, <1>9, <1>10

LEMMA StartList ==
  /\ StartSteps \in Todos /\ Ordered(StartSteps)
  /\ Elems(StartSteps) \cap Dels = {} /\ "restore" \notin Elems(StartSteps)
<1> DEFINE a == ApplyGuard \o StopSteps
           w == <<"write", "up", "route", "verify">>
<1>1. w \in Todos /\ Elems(w) = {"write", "up", "route", "verify"} /\ Before(w, "up", "write")
  <2>1. /\ "write" \in Steps /\ "up" \in Steps /\ "route" \in Steps /\ "verify" \in Steps
        /\ "up" \notin {"write", "route", "verify"}
    BY DEF Steps
  <2>2. QED
    BY <2>1, Four, Zenon
<1>2. Elems(StopSteps) \cap {"iif4", "iif6", "up"} = {}
  BY GuardList
<1>3. Ordered(StopSteps)
  BY <1>2, PlainOrdered, Zenon
<1>4. a \in Todos /\ Ordered(a) /\ Elems(a) = Elems(ApplyGuard) \cup Elems(StopSteps)
  BY <1>3, ApplyList, GuardList, Joined, JoinOrdered, JoinElems, Zenon
<1>5. "source" \in Elems(a)
  BY <1>4, ApplyList
<1>6. "iif4" \notin Elems(w) /\ "iif6" \notin Elems(w)
  BY <1>1
<1>7. /\ Before(w, "iif4", "unreachable4") /\ Before(w, "iif6", "unreachable6")
      /\ Before(w, "iif6", "iif4")
  BY <1>6, AbsentBefore, Zenon
<1>8. StartSteps = a \o w
  BY DEF StartSteps
<1>9. StartSteps \in Todos
  BY <1>1, <1>4, <1>8, Joined, Zenon
<1>10. Ordered(StartSteps)
  BY <1>1, <1>4, <1>5, <1>7, <1>8, JoinBefore, Zenon DEF Ordered
<1>11. Elems(StartSteps) = (Elems(ApplyGuard) \cup Elems(StopSteps)) \cup Elems(w)
  BY <1>1, <1>4, <1>8, JoinElems, Zenon
<1>12. Elems(StartSteps) \cap Dels = {} /\ "restore" \notin Elems(StartSteps)
  BY <1>1, <1>11, ApplyList, GuardList DEF Dels
<1>13. QED
  BY <1>9, <1>10, <1>12

LEMMA IngressList ==
  /\ GuardSteps \o RuleSteps \in Todos /\ Ordered(GuardSteps \o RuleSteps)
  /\ Elems(GuardSteps \o RuleSteps) = {"unreachable4", "unreachable6", "iif4", "iif6"}
<1>1. Elems(GuardSteps) \cap {"iif4", "iif6", "up"} = {}
  BY GuardList
<1>2. {"unreachable4", "unreachable6"} \subseteq Elems(GuardSteps)
  BY GuardList
<1>3. Ordered(GuardSteps \o RuleSteps)
  BY <1>1, <1>2, GuardList, PlainOrdered, RulesOrdered, Zenon
<1>4. GuardSteps \o RuleSteps \in Todos
  BY GuardList, Joined, Zenon
<1>5. Elems(GuardSteps \o RuleSteps) = Elems(GuardSteps) \cup Elems(RuleSteps)
  BY GuardList, JoinElems, Zenon
<1>6. QED
  BY <1>3, <1>4, <1>5, GuardList

LEMMA DisarmList ==
  ASSUME NEW ingress \in BOOLEAN
  PROVE  /\ DisarmSteps(ingress) \in Todos
         /\ Elems(DisarmSteps(ingress)) \cap {"iif4", "iif6", "up", "write", "route",
                                              "source"} = {}
         /\ ~ingress => Elems(DisarmSteps(ingress)) \cap Dels = {}
<1> DEFINE d == IF ingress THEN <<"del_iif4", "del_iif6">> ELSE <<>>
           a == d \o <<"del_oif">>
           b == a \o GuardSteps
<1>1. d \in Todos /\ Elems(d) \subseteq Dels /\ (~ingress => Elems(d) = {})
  <2>1. CASE ingress
    BY <2>1, Two DEF Dels, Steps
  <2>2. CASE ~ingress
    <3>1. <<>> \in Todos /\ Elems(<<>>) = {}
      BY DEF Todos, Elems
    <3>2. QED
      BY <2>2, <3>1
  <2>3. QED
    BY <2>1, <2>2, Zenon
<1>2. <<"del_oif">> \in Todos /\ Elems(<<"del_oif">>) = {"del_oif"}
  BY One DEF Steps
<1>3. <<"unroute">> \in Todos /\ Elems(<<"unroute">>) = {"unroute"}
  BY One DEF Steps
<1> HIDE DEF d
<1>4. a \in Todos /\ Elems(a) = Elems(d) \cup Elems(<<"del_oif">>)
  BY <1>1, <1>2, Joined, JoinElems, Zenon
<1> HIDE DEF a
<1>5. b \in Todos /\ Elems(b) = Elems(a) \cup Elems(GuardSteps)
  BY <1>4, GuardList, Joined, JoinElems, Zenon
<1> HIDE DEF b
<1>6. DisarmSteps(ingress) = b \o <<"unroute">>
  BY DEF DisarmSteps, a, b, d
<1>7. /\ DisarmSteps(ingress) \in Todos
      /\ Elems(DisarmSteps(ingress)) = Elems(b) \cup Elems(<<"unroute">>)
  <2>1. b \o <<"unroute">> \in Todos
    BY <1>3, <1>5, Joined, Zenon
  <2>2. Elems(b \o <<"unroute">>) = Elems(b) \cup Elems(<<"unroute">>)
    BY <1>3, <1>5, JoinElems, Zenon
  <2>3. QED
    BY <1>6, <2>1, <2>2, Zenon
<1>8. QED
  BY <1>1, <1>2, <1>3, <1>4, <1>5, <1>7, GuardList DEF Dels

LEMMA RollbackList ==
  /\ StopSteps \o <<"restore">> \in Todos
  /\ Elems(StopSteps \o <<"restore">>) = {"down", "unroute", "restore"}
  /\ <<"restore">> \in Todos /\ Elems(<<"restore">>) = {"restore"}
  /\ <<>> \in Todos /\ Elems(<<>>) = {}
<1>1. <<"restore">> \in Todos /\ Elems(<<"restore">>) = {"restore"}
  BY One DEF Steps
<1>2. <<>> \in Todos /\ Elems(<<>>) = {}
  BY DEF Todos, Elems
<1>3. StopSteps \o <<"restore">> \in Todos
  BY <1>1, GuardList, Joined, Zenon
<1>4. Elems(StopSteps \o <<"restore">>) = Elems(StopSteps) \cup Elems(<<"restore">>)
  BY <1>1, GuardList, JoinElems, Zenon
<1>5. QED
  BY <1>1, <1>2, <1>3, <1>4, GuardList

-----------------------------------------------------------------------------
Typed ==
  host \in Hosts /\ op \in Ops /\ armed \in SUBSET Ingress

\* What the host holds at every command: whoever was armed has its rules.
Held ==
  /\ RuleHasGuard /\ SourceGuarded
  /\ \A n \in armed, f \in Families : <<n, f>> \in host.iif

\* The guard a command relies on is written, or to be written before it.
Guarding ==
  /\ 4 \in host.unreachable \/ Before(op.todo, "iif4", "unreachable4")
  /\ 6 \in host.unreachable \/ Before(op.todo, "iif6", "unreachable6")
  /\ Ingress \X {4} \subseteq host.iif \/ Before(op.todo, "iif6", "iif4")

\* Only a disarm takes rules away, with the default its own, and after it began
\* nobody counts as armed.
Removing ==
  /\ op.kind = "disarm" =>
       Elems(op.todo) \cap {"iif4", "iif6"} = {} /\ host.route \in {None, op.iface}
  /\ op.kind # "disarm" => Elems(op.todo) \cap Dels = {}
  /\ armed = {} \/ Elems(op.todo) \cap Dels = {}

\* Only a start brings a tunnel up, from its own file and with its address guarded.
Starting ==
  /\ op.kind # "start" => Elems(op.todo) \cap {"up", "write", "route"} = {}
  /\ op.kind = "start" =>
       /\ op.config \in Configs /\ op.iface = op.config.iface /\ "restore" \notin Elems(op.todo)
       /\ op.config.addr \in host.sources \/ Before(op.todo, "up", "source")
       /\ host.file[op.iface] = op.config \/ Before(op.todo, "up", "write")

\* A rollback has done, or will do, both things it is for.
RollingBack ==
  op.kind = "rollback" =>
    /\ op.iface \in Interfaces
    /\ host.up[op.iface] = None \/ "down" \in Elems(op.todo)
    /\ host.file[op.iface] = op.previous \/ "restore" \in Elems(op.todo)

\* A command about an interface, or a configuration, has one.
Arguments ==
  /\ op.iface \in Interfaces \/ Elems(op.todo) \cap OfIface = {}
  /\ op.config \in Configs \/ Elems(op.todo) \cap OfConfig = {}

EgressInv ==
  Typed /\ Held /\ Guarding /\ Removing /\ Starting /\ RollingBack /\ Arguments

-----------------------------------------------------------------------------
\* One field of the host changed: the others are as they were.
LEMMA HostFields ==
  ASSUME NEW h \in Hosts
  PROVE  /\ h.unreachable \in HostUnreachable /\ h.iif \in HostRules /\ h.oif \in HostOif
         /\ h.sources \in HostSources /\ h.route \in Owner
         /\ h.up \in PerInterface /\ h.file \in PerInterface
  BY HostsAre

\* What a command does to the parts of the host the guard is about.
Does(h, g, step, c, i, previous) ==
  /\ g.unreachable = h.unreachable \cup (CASE step = "unreachable4" -> {4}
                                           [] step = "unreachable6" -> {6}
                                           [] OTHER -> {})
  /\ step = "iif4" => g.iif = h.iif \cup (Ingress \X {4})
  /\ step = "iif6" => g.iif = h.iif \cup (Ingress \X {6})
  /\ step \in Dels => g.iif \subseteq h.iif
  /\ step \notin {"iif4", "iif6"} \cup Dels => g.iif = h.iif
  /\ g.sources = IF step = "source" THEN h.sources \cup {c.addr} ELSE h.sources
  /\ g.up = IF step = "up" THEN [h.up EXCEPT ![i] = h.file[i]]
            ELSE IF step = "down" THEN [h.up EXCEPT ![i] = None] ELSE h.up
  /\ g.file = IF step = "write" THEN [h.file EXCEPT ![i] = c]
              ELSE IF step = "restore" THEN [h.file EXCEPT ![i] = previous] ELSE h.file
  /\ step = "route" \/ g.route \in {h.route, None}

LEMMA Effects ==
  ASSUME NEW h \in Hosts, NEW step \in Steps, NEW c \in Config, NEW i \in Owner,
         NEW previous \in Config, NEW g, g = Effect(h, step, c, i, previous),
         step \in OfIface => i \in Interfaces, step \in OfConfig => c \in Configs
  PROVE  g \in Hosts /\ Does(h, g, step, c, i, previous)
<1>1. CASE step = "unreachable4"
  <2>1. g = [h EXCEPT !.unreachable = @ \cup {4}]
    BY <1>1 DEF Effect, Unreachable
  <2>2. h.unreachable \cup {4} \in HostUnreachable
    BY HostFields DEF HostUnreachable, Families
  <2>3. g \in Hosts
    BY <2>1, <2>2, HostsAre, Zenon
  <2>4. QED
    BY <1>1, <2>1, <2>3, HostsAre DEF Does, Dels
<1>2. CASE step = "unreachable6"
  <2>1. g = [h EXCEPT !.unreachable = @ \cup {6}]
    BY <1>2 DEF Effect, Unreachable
  <2>2. h.unreachable \cup {6} \in HostUnreachable
    BY HostFields DEF HostUnreachable, Families
  <2>3. g \in Hosts
    BY <2>1, <2>2, HostsAre
  <2>4. QED
    BY <1>2, <2>1, <2>3, HostsAre DEF Does, Dels
<1>3. CASE step = "source"
  <2>1. g = [h EXCEPT !.sources = @ \cup {c.addr}]
    BY <1>3 DEF Effect, AddSource
  <2>2. c \in Configs
    BY <1>3 DEF OfConfig
  <2>3. h.sources \cup {c.addr} \in HostSources
    BY <2>2, HostFields DEF HostSources, Addresses
  <2>4. g \in Hosts
    BY <2>1, <2>3, HostsAre
  <2>5. QED
    BY <1>3, <2>1, <2>4, HostsAre DEF Does, Dels
<1>4. CASE step \in {"iif4", "iif6", "del_iif4", "del_iif6"}
  <2>1. PICK f \in Families : g \in {AddIif(h, f), DelIif(h, f)}
    BY <1>4 DEF Effect, Families
  <2>2. g.iif \in HostRules /\ g = [h EXCEPT !.iif = g.iif]
    <3>1. h.iif \cup (Ingress \X {f}) \in HostRules /\ h.iif \ (Ingress \X {f}) \in HostRules
      BY HostFields DEF HostRules
    <3>2. QED
      BY <2>1, <3>1, HostsAre, Zenon DEF AddIif, DelIif
  <2>3. g \in Hosts
    BY <2>2, HostsAre
  <2>4. CASE step = "iif4"
    <3>1. g = [h EXCEPT !.iif = @ \cup (Ingress \X {4})]
      BY <2>4 DEF Effect, AddIif
    <3>2. QED
      BY <2>3, <2>4, <3>1, HostsAre DEF Does, Dels
  <2>5. CASE step = "iif6"
    <3>1. g = [h EXCEPT !.iif = @ \cup (Ingress \X {6})]
      BY <2>5 DEF Effect, AddIif
    <3>2. QED
      BY <2>3, <2>5, <3>1, HostsAre DEF Does, Dels
  <2>6. CASE step \in Dels
    <3>1. g.iif \subseteq h.iif
      BY <2>3, <2>6, HostsAre DEF Effect, DelIif, Dels
    <3>2. QED
      BY <2>2, <2>6, <3>1, HostsAre DEF Does, Dels
  <2>7. QED
    BY <1>4, <2>3, <2>4, <2>5, <2>6 DEF Dels
<1>5. CASE step \in {"oif", "del_oif"}
  <2>1. i \in Interfaces
    BY <1>5 DEF OfIface
  <2>2. h.oif \cup {i} \in HostOif /\ h.oif \ {i} \in HostOif
    BY <2>1, HostFields DEF HostOif
  <2>3. g = [h EXCEPT !.oif = g.oif] /\ g.oif \in HostOif
    BY <1>5, <2>2, HostsAre DEF Effect
  <2>4. g \in Hosts
    BY <2>3, HostsAre
  <2>5. QED
    BY <1>5, <2>3, <2>4, HostsAre DEF Does, Dels
<1>6. CASE step = "down"
  <2>1. g = [h EXCEPT !.up[i] = None, !.route = IF @ = i THEN None ELSE @]
    BY <1>6 DEF Effect, Down
  <2>2. [h.up EXCEPT ![i] = None] \in PerInterface
    BY HostFields, Zenon DEF PerInterface, Config
  <2>3. (IF h.route = i THEN None ELSE h.route) \in Owner
    BY HostFields DEF Owner
  <2>4. g \in Hosts
    BY <2>1, <2>2, <2>3, HostsAre, Zenon
  <2>5. QED
    BY <1>6, <2>1, <2>4, HostsAre, Zenon DEF Does, Dels
<1>7. CASE step \in {"unroute", "route"}
  <2>1. g = [h EXCEPT !.route = g.route] /\ g.route \in {h.route, None, i}
    BY <1>7, HostsAre DEF Effect
  <2>2. g.route \in Owner
    BY <2>1, HostFields DEF Owner
  <2>3. g \in Hosts
    BY <2>1, <2>2, HostsAre
  <2>4. step = "unroute" => g.route \in {h.route, None}
    BY HostsAre DEF Effect
  <2>5. QED
    BY <1>7, <2>1, <2>3, <2>4, HostsAre DEF Does, Dels
<1>8. CASE step \in {"write", "restore"}
  <2>1. PICK x \in Config : g = [h EXCEPT !.file[i] = x] /\ x = (IF step = "write" THEN c ELSE previous)
    BY <1>8 DEF Effect, WriteFile
  <2>2. [h.file EXCEPT ![i] = x] \in PerInterface
    BY HostFields, Zenon DEF PerInterface
  <2>3. g \in Hosts
    BY <2>1, <2>2, HostsAre
  <2>4. QED
    BY <1>8, <2>1, <2>3, HostsAre DEF Does, Dels
<1>9. CASE step = "up"
  <2>1. g = [h EXCEPT !.up[i] = h.file[i]]
    BY <1>9 DEF Effect
  <2>2. i \in Interfaces
    BY <1>9 DEF OfIface
  <2>3. [h.up EXCEPT ![i] = h.file[i]] \in PerInterface
    BY <2>2, HostFields DEF PerInterface
  <2>4. g \in Hosts
    BY <2>1, <2>3, HostsAre
  <2>5. QED
    BY <1>9, <2>1, <2>4, HostsAre DEF Does, Dels
<1>10. CASE step = "verify"
  <2>1. g = h
    BY <1>10 DEF Effect
  <2>2. QED
    BY <1>10, <2>1 DEF Does, Dels
<1>11. QED
  BY <1>1, <1>2, <1>3, <1>4, <1>5, <1>6, <1>7, <1>8, <1>9, <1>10 DEF Steps

\* What the invariant says of the command that comes next.
LEMMA Ready ==
  ASSUME EgressInv, op.todo # <<>>
  PROVE  /\ op.todo \in Todos /\ Current \in Steps /\ Tail(op.todo) \in Todos
         /\ Elems(op.todo) = {Current} \cup Elems(Tail(op.todo))
         /\ Current = "iif4" => 4 \in host.unreachable
         /\ Current = "iif6" => 6 \in host.unreachable /\ Ingress \X {4} \subseteq host.iif
         /\ Current \in Dels => op.kind = "disarm" /\ armed = {}
         /\ Current \in {"up", "write", "route"} => op.kind = "start"
         /\ Current = "up" => /\ op.kind = "start" /\ op.config \in Configs
                              /\ host.file[op.iface] = op.config
                              /\ op.config.addr \in host.sources
         /\ Current \in OfIface => op.iface \in Interfaces
         /\ Current \in OfConfig => op.config \in Configs
<1>1. op.todo \in Todos
  BY OpsAre DEF EgressInv, Typed
<1>2. /\ Current \in Steps /\ Tail(op.todo) \in Todos
      /\ Elems(op.todo) = {Current} \cup Elems(Tail(op.todo))
  BY <1>1, TailSteps, TailElems, Zenon DEF Current
<1>3. Current \in Elems(op.todo)
  BY <1>2
<1>4. ASSUME NEW a, NEW b, Before(op.todo, a, b) PROVE Current # a
  BY <1>1, <1>4, TailBefore, Zenon DEF Current
<1>5. Current = "iif4" => 4 \in host.unreachable
  BY <1>4, Zenon DEF EgressInv, Guarding
<1>6. Current = "iif6" => 6 \in host.unreachable /\ Ingress \X {4} \subseteq host.iif
  BY <1>4, Zenon DEF EgressInv, Guarding
<1>7. Current \in Dels => op.kind = "disarm" /\ armed = {}
  BY <1>3 DEF EgressInv, Removing
<1>8. Current \in {"up", "write", "route"} => op.kind = "start"
  BY <1>3 DEF EgressInv, Starting
<1>9. Current = "up" => /\ op.kind = "start" /\ op.config \in Configs
                        /\ host.file[op.iface] = op.config /\ op.config.addr \in host.sources
  <2>1. Current = "up" => op.kind = "start"
    BY <1>8
  <2>2. QED
    BY <1>4, <2>1, Zenon DEF EgressInv, Starting
<1>10. Current \in OfIface => op.iface \in Interfaces
  BY <1>3 DEF EgressInv, Arguments
<1>11. Current \in OfConfig => op.config \in Configs
  BY <1>3 DEF EgressInv, Arguments
<1>12. QED
  BY <1>1, <1>2, <1>5, <1>6, <1>7, <1>8, <1>9, <1>10, <1>11, Zenon

\* The effect of the next command keeps what the host holds, whether the command
\* is reported as done or as failed.
LEMMA Command ==
  ASSUME EgressInv, op.todo # <<>>,
         host' = Effect(host, Current, op.config, op.iface, op.previous)
  PROVE  /\ host' \in Hosts /\ Does(host, host', Current, op.config, op.iface, op.previous)
         /\ RuleHasGuard' /\ SourceGuarded'
         /\ \A n \in armed, f \in Families : <<n, f>> \in host'.iif
         /\ Current = "iif6" => \A n \in Ingress, f \in Families : <<n, f>> \in host'.iif
<1>1. host \in Hosts /\ op.config \in Config /\ op.iface \in Owner /\ op.previous \in Config
  BY OpsAre DEF EgressInv, Typed
<1>2. host' \in Hosts /\ Does(host, host', Current, op.config, op.iface, op.previous)
  BY <1>1, Ready, Effects, Zenon
<1>3. host.unreachable \subseteq host'.unreachable
  BY <1>2, Zenon DEF Does
<1>4. RuleHasGuard'
  <2>1. ASSUME NEW r \in host'.iif PROVE r[2] \in host'.unreachable
    <3>1. CASE r \in host.iif
      BY <1>3, <3>1 DEF EgressInv, Held, RuleHasGuard
    <3>2. CASE r \in Ingress \X {4} /\ Current = "iif4"
      BY <1>3, <3>2, Ready
    <3>3. CASE r \in Ingress \X {6} /\ Current = "iif6"
      BY <1>3, <3>3, Ready
    <3>4. QED
      BY <1>2, <2>1, <3>1, <3>2, <3>3, Zenon DEF Does
  <2>2. QED
    BY <2>1 DEF RuleHasGuard
<1>5. SourceGuarded'
  <2>1. ASSUME NEW i \in Interfaces, host'.up[i] # None
        PROVE  host'.up[i].addr \in host'.sources
    <3>1. host.sources \subseteq host'.sources
      BY <1>2, Zenon DEF Does
    <3>2. CASE host'.up[i] = host.up[i]
      BY <2>1, <3>1, <3>2 DEF EgressInv, Held, SourceGuarded
    <3>3. CASE host'.up[i] # host.up[i]
      <4>1. host.up \in PerInterface
        BY <1>1, HostFields, Zenon
      <4>2. Current = "up" /\ i = op.iface /\ host'.up[i] = host.file[i]
        BY <1>2, <2>1, <3>3, <4>1 DEF Does, PerInterface
      <4>3. QED
        BY <3>1, <4>2, Ready
    <3>4. QED
      BY <3>2, <3>3
  <2>2. QED
    BY <2>1 DEF SourceGuarded
<1>6. ASSUME NEW n \in armed, NEW f \in Families PROVE <<n, f>> \in host'.iif
  <2>1. <<n, f>> \in host.iif
    BY <1>6, Zenon DEF EgressInv, Held
  <2>2. Current \notin Dels
    BY <1>6, Ready
  <2>3. host.iif \subseteq host'.iif
    BY <1>2, <2>2 DEF Does
  <2>4. QED
    BY <2>1, <2>3
<1>7. ASSUME Current = "iif6", NEW n \in Ingress, NEW f \in Families
      PROVE  <<n, f>> \in host'.iif
  <2>1. host'.iif = host.iif \cup (Ingress \X {6}) /\ Ingress \X {4} \subseteq host.iif
    BY <1>2, <1>7, Ready, Zenon DEF Does
  <2>2. QED
    BY <2>1 DEF Families
<1>8. QED
  BY <1>2, <1>4, <1>5, <1>6, <1>7, Zenon

\* The command succeeds: what was to come before the rest is done.
LEMMA DoInv ==
  ASSUME EgressInv, Do
  PROVE  EgressInv'
<1> DEFINE rest == Tail(op.todo)
<1>1. /\ op.todo # <<>> /\ op.todo \in Todos /\ rest \in Todos /\ host \in Hosts /\ op \in Ops
      /\ host' = Effect(host, Current, op.config, op.iface, op.previous)
      /\ Current \in Steps /\ Elems(op.todo) = {Current} \cup Elems(rest)
  BY Ready, Zenon DEF Do, EgressInv, Typed
<1>2. /\ op'.kind = op.kind /\ op'.config = op.config /\ op'.iface = op.iface
      /\ op'.previous = op.previous /\ op'.todo = rest /\ op' \in Ops
  <2>1. op' = [op EXCEPT !.todo = rest]
    BY Zenon DEF Do
  <2>2. QED
    BY <1>1, <2>1, OpsAre, Zenon
<1>3. armed' = armed \/ (Current = "iif6" /\ armed' = Ingress)
  BY Zenon DEF Do
<1>4. /\ host' \in Hosts /\ Does(host, host', Current, op.config, op.iface, op.previous)
      /\ RuleHasGuard' /\ SourceGuarded'
      /\ \A n \in armed, f \in Families : <<n, f>> \in host'.iif
      /\ Current = "iif6" => \A n \in Ingress, f \in Families : <<n, f>> \in host'.iif
  BY <1>1, Command, Zenon
<1>5. ASSUME NEW a, NEW b, Before(op.todo, a, b), Current # b
      PROVE  Before(rest, a, b)
  BY <1>1, <1>5, TailBefore, Zenon DEF Current
<1>6. Typed'
  BY <1>2, <1>3, <1>4 DEF EgressInv, Typed
<1>7. Held'
  BY <1>3, <1>4, Zenon DEF Held
<1>8. Guarding'
  <2>1. host.unreachable \subseteq host'.unreachable
    BY <1>4, Zenon DEF Does
  <2>2. 4 \in host'.unreachable \/ Before(rest, "iif4", "unreachable4")
    <3>1. CASE Current = "unreachable4"
      BY <1>4, <3>1 DEF Does
    <3>2. CASE Current # "unreachable4"
      BY <1>5, <2>1, <3>2, Zenon DEF EgressInv, Guarding
    <3>3. QED
      BY <3>1, <3>2
  <2>3. 6 \in host'.unreachable \/ Before(rest, "iif6", "unreachable6")
    <3>1. CASE Current = "unreachable6"
      BY <1>4, <3>1 DEF Does
    <3>2. CASE Current # "unreachable6"
      BY <1>5, <2>1, <3>2, Zenon DEF EgressInv, Guarding
    <3>3. QED
      BY <3>1, <3>2
  <2>4. Ingress \X {4} \subseteq host'.iif \/ Before(rest, "iif6", "iif4")
    <3>1. CASE Current = "iif4"
      BY <1>4, <3>1 DEF Does
    <3>2. CASE Current \in Dels
      <4>1. "iif6" \notin Elems(rest)
        BY <1>1, <3>2, Ready DEF EgressInv, Removing
      <4>2. QED
        BY <4>1, AbsentBefore, Zenon
    <3>3. CASE Current # "iif4" /\ Current \notin Dels
      <4>1. host.iif \subseteq host'.iif
        BY <1>4, <3>3 DEF Does
      <4>2. QED
        BY <1>5, <3>3, <4>1, Zenon DEF EgressInv, Guarding
    <3>4. QED
      BY <3>1, <3>2, <3>3
  <2>5. QED
    BY <1>2, <2>2, <2>3, <2>4 DEF Guarding
<1>9. Removing'
  <2>1. op.kind = "disarm" => host'.route \in {None, op.iface}
    <3>1. op.kind = "disarm" => Current # "route"
      BY <1>1, Ready
    <3>2. QED
      BY <1>4, <3>1 DEF Does, EgressInv, Removing
  <2>2. armed' = {} \/ Elems(rest) \cap Dels = {}
    <3>1. CASE armed' = armed
      BY <1>1, <3>1 DEF EgressInv, Removing
    <3>2. CASE Current = "iif6"
      <4>1. op.kind # "disarm"
        BY <1>1, <3>2 DEF EgressInv, Removing
      <4>2. QED
        BY <1>1, <4>1 DEF EgressInv, Removing
    <3>3. QED
      BY <1>3, <3>1, <3>2
  <2>3. QED
    BY <1>1, <1>2, <2>1, <2>2 DEF EgressInv, Removing
<1>10. Starting'
  <2>1. op.kind # "start" => Elems(rest) \cap {"up", "write", "route"} = {}
    BY <1>1 DEF EgressInv, Starting
  <2>2. ASSUME op.kind = "start"
        PROVE  /\ op.config \in Configs /\ op.iface = op.config.iface
               /\ "restore" \notin Elems(rest)
               /\ op.config.addr \in host'.sources \/ Before(rest, "up", "source")
               /\ host'.file[op.iface] = op.config \/ Before(rest, "up", "write")
    <3>1. /\ op.config \in Configs /\ op.iface = op.config.iface
          /\ "restore" \notin Elems(op.todo)
          /\ op.config.addr \in host.sources \/ Before(op.todo, "up", "source")
          /\ host.file[op.iface] = op.config \/ Before(op.todo, "up", "write")
      BY <2>2, Zenon DEF EgressInv, Starting
    <3>2. op.config.addr \in host'.sources \/ Before(rest, "up", "source")
      <4>1. CASE Current = "source"
        BY <1>4, <4>1 DEF Does
      <4>2. CASE Current # "source"
        <5>1. host'.sources = host.sources
          BY <1>4, <4>2 DEF Does
        <5>2. QED
          BY <1>5, <3>1, <4>2, <5>1, Zenon
      <4>3. QED
        BY <4>1, <4>2
    <3>3. host'.file[op.iface] = op.config \/ Before(rest, "up", "write")
      <4>1. op.iface \in Interfaces /\ host.file \in PerInterface
        BY <1>1, <3>1, HostFields DEF Interfaces
      <4>2. CASE Current = "write"
        BY <1>4, <4>1, <4>2 DEF Does, PerInterface
      <4>3. CASE Current = "restore"
        BY <1>1, <3>1, <4>3
      <4>4. CASE Current \notin {"write", "restore"}
        <5>1. host'.file = host.file
          BY <1>4, <4>4 DEF Does
        <5>2. QED
          BY <1>5, <3>1, <4>4, <5>1
      <4>5. QED
        BY <4>2, <4>3, <4>4
    <3>4. QED
      BY <1>1, <3>1, <3>2, <3>3
  <2>3. QED
    BY <1>2, <2>1, <2>2, Zenon DEF Starting
<1>11. RollingBack'
  <2>1. ASSUME op.kind = "rollback"
        PROVE  /\ op.iface \in Interfaces
               /\ host'.up[op.iface] = None \/ "down" \in Elems(rest)
               /\ host'.file[op.iface] = op.previous \/ "restore" \in Elems(rest)
    <3>1. /\ op.iface \in Interfaces /\ Current \notin {"up", "write"}
          /\ host.up[op.iface] = None \/ "down" \in Elems(op.todo)
          /\ host.file[op.iface] = op.previous \/ "restore" \in Elems(op.todo)
      BY <1>1, <2>1, Ready DEF EgressInv, RollingBack
    <3>2. host.up \in PerInterface /\ host.file \in PerInterface
      BY <1>1, HostFields, Zenon
    <3>3. host'.up[op.iface] = None \/ "down" \in Elems(rest)
      BY <1>1, <1>4, <3>1, <3>2 DEF Does, PerInterface
    <3>4. host'.file[op.iface] = op.previous \/ "restore" \in Elems(rest)
      BY <1>1, <1>4, <3>1, <3>2 DEF Does, PerInterface
    <3>5. QED
      BY <3>1, <3>3, <3>4
  <2>2. QED
    BY <1>2, <2>1, Zenon DEF RollingBack
<1>12. Arguments'
  BY <1>1, <1>2 DEF EgressInv, Arguments
<1>13. QED
  BY <1>6, <1>7, <1>8, <1>9, <1>10, <1>11, <1>12 DEF EgressInv

\* The command fails: a start is rolled back, its file and its tunnel with it.
LEMMA FailInv ==
  ASSUME EgressInv, Fail
  PROVE  EgressInv'
<1> DEFINE kind1 == CASE op.kind = "start" -> "rollback" [] op.kind = "rollback" -> "broken"
                      [] OTHER -> op.kind
<1>1. op.todo # <<>> /\ op.todo \in Todos /\ host \in Hosts /\ op \in Ops
  BY Ready, Zenon DEF Fail, EgressInv, Typed
<1>2. /\ Undo \in Todos /\ Elems(Undo) \subseteq {"down", "unroute", "restore"}
      /\ op.kind = "start" => Elems(Undo) = {"down", "unroute", "restore"}
      /\ op.kind \notin {"start", "rollback"} => Elems(Undo) = {}
  BY RollbackList DEF Undo
<1>3. kind1 \in Kinds \ {"start"} /\ (kind1 = "rollback" => op.kind = "start")
      /\ (kind1 = "disarm" => op.kind = "disarm")
  BY <1>1, OpsAre DEF Kinds
<1>4. /\ op'.kind = kind1 /\ op'.config = op.config /\ op'.iface = op.iface
      /\ op'.previous = op.previous /\ op'.todo = Undo /\ op' \in Ops
  <2>1. op' = [op EXCEPT !.todo = Undo, !.kind = kind1]
    BY <1>1, OpsAre, Zenon DEF Fail
  <2>2. kind1 \in Kinds
    BY <1>3
  <2> HIDE DEF kind1
  <2>3. QED
    BY <1>1, <1>2, <2>1, <2>2, OpsAre, Zenon
<1> HIDE DEF kind1
<1>5. armed' = armed
  BY Zenon DEF Fail
<1>6. host' \in Hosts /\ Held' /\ (host'.route \in {host.route, None} \/ Current = "route")
  <2>1. CASE host' = host
    BY <1>1, <1>5, <2>1, Zenon DEF EgressInv, Held, RuleHasGuard, SourceGuarded
  <2>2. CASE host' = Effect(host, Current, op.config, op.iface, op.previous)
    <3>1. /\ host' \in Hosts /\ Does(host, host', Current, op.config, op.iface, op.previous)
          /\ RuleHasGuard' /\ SourceGuarded'
          /\ \A n \in armed, f \in Families : <<n, f>> \in host'.iif
      BY <1>1, <2>2, Command, Zenon
    <3>2. QED
      BY <1>5, <3>1, Zenon DEF Held, Does
  <2>3. QED
    BY <2>1, <2>2, Zenon DEF Fail
<1>7. Typed'
  BY <1>4, <1>5, <1>6 DEF EgressInv, Typed
<1>8. Guarding'
  <2>1. Elems(Undo) \cap {"iif4", "iif6", "up"} = {}
    BY <1>2
  <2>2. Ordered(Undo)
    BY <2>1, PlainOrdered, Zenon
  <2>3. QED
    BY <1>4, <2>2 DEF Guarding, Ordered
<1>9. Removing'
  <2>1. Elems(Undo) \cap Dels = {} /\ Elems(Undo) \cap {"iif4", "iif6"} = {}
    BY <1>2 DEF Dels
  <2>2. kind1 = "disarm" => host'.route \in {None, op.iface}
    <3>1. op.kind = "disarm" => Current # "route"
      BY <1>1, Ready
    <3>2. QED
      BY <1>3, <1>6, <3>1 DEF EgressInv, Removing
  <2>3. QED
    BY <1>4, <2>1, <2>2, Zenon DEF Removing
<1>10. Starting'
  BY <1>2, <1>3, <1>4 DEF Starting
<1>11. RollingBack'
  <2>1. kind1 = "rollback" => op.iface \in Interfaces
    BY <1>3 DEF EgressInv, Starting, Interfaces
  <2>2. QED
    BY <1>2, <1>3, <1>4, <2>1 DEF RollingBack
<1>12. Arguments'
  <2>1. op.iface \in Interfaces \/ Elems(Undo) \cap OfIface = {}
    <3>1. op.kind \in {"start", "rollback"} => op.iface \in Interfaces
      BY DEF EgressInv, Starting, RollingBack, Interfaces
    <3>2. QED
      BY <1>2, <3>1
  <2>2. Elems(Undo) \cap OfConfig = {}
    BY <1>2 DEF OfConfig
  <2>3. QED
    BY <1>4, <2>1, <2>2 DEF Arguments
<1>13. QED
  BY <1>6, <1>7, <1>8, <1>9, <1>10, <1>11, <1>12 DEF EgressInv

\* With nothing to do, the host alone matters.
LEMMA IdleInv ==
  ASSUME host' \in Hosts, armed' \in SUBSET Ingress, op' = Idle, Held'
  PROVE  EgressInv'
<1>1. /\ op'.kind = "idle" /\ op'.config = None /\ op'.iface = None /\ op'.previous = None
      /\ op'.todo = <<>>
  BY DEF Idle
<1>2. "idle" \in Kinds /\ None \in Config /\ None \in Owner
  BY DEF Kinds, Config, Owner
<1>3. op' \in Ops
  BY <1>2, RollbackList, OpsAre DEF Idle
<1>4. Typed'
  BY <1>3 DEF Typed
<1>5. Elems(op'.todo) = {}
  BY <1>1, RollbackList
<1>6. Ordered(op'.todo)
  <2>1. Elems(op'.todo) \cap {"iif4", "iif6", "up"} = {}
    BY <1>5
  <2>2. QED
    BY <2>1, PlainOrdered, Zenon
<1>7. Guarding'
  BY <1>6 DEF Guarding, Ordered
<1>8. Removing' /\ Starting' /\ RollingBack' /\ Arguments'
  BY <1>1, <1>5 DEF Removing, Starting, RollingBack, Arguments
<1>9. QED
  BY <1>4, <1>7, <1>8 DEF EgressInv

\* An operation begins: its list is in order and its checks have passed.
LEMMA BeginInv ==
  ASSUME EgressInv, NEW kind \in {"start", "arm", "stop", "disarm"}, NEW c \in Config,
         NEW i \in Owner, NEW steps \in Todos, Begin(kind, c, i, steps), Ordered(steps),
         armed' \in {armed, {}}, armed' = {} \/ Elems(steps) \cap Dels = {},
         kind = "disarm" => Elems(steps) \cap {"iif4", "iif6"} = {} /\ host.route \in {None, i},
         kind # "disarm" => Elems(steps) \cap Dels = {},
         kind # "start" => Elems(steps) \cap {"up", "write", "route"} = {},
         kind = "start" => /\ c \in Configs /\ i = c.iface /\ "restore" \notin Elems(steps),
         i \in Interfaces \/ Elems(steps) \cap OfIface = {},
         c \in Configs \/ Elems(steps) \cap OfConfig = {}
  PROVE  EgressInv'
<1> DEFINE p == IF i = None THEN None ELSE host.file[i]
<1>1. host' = host /\ host \in Hosts
  BY DEF Begin, EgressInv, Typed
<1>2. p \in Config
  <2>1. host.file \in PerInterface
    BY <1>1, HostFields, Zenon
  <2>2. QED
    BY <2>1 DEF PerInterface, Config, Owner
<1>3. op' = [kind |-> kind, config |-> c, iface |-> i, todo |-> steps, previous |-> p]
  BY Zenon DEF Begin
<1> HIDE DEF p
<1>4. /\ op'.kind = kind /\ op'.config = c /\ op'.iface = i /\ op'.todo = steps
      /\ op'.previous = p
  BY <1>3
<1>5. kind \in Kinds /\ kind # "rollback"
  BY DEF Kinds
<1>6. op' \in Ops
  BY <1>2, <1>3, <1>5, OpsAre, Zenon
<1>7. Typed'
  BY <1>1, <1>6 DEF EgressInv, Typed
<1>8. Held'
  BY <1>1 DEF EgressInv, Held, RuleHasGuard, SourceGuarded
<1>9. Guarding' /\ Starting'
  BY <1>1, <1>4, Zenon DEF Guarding, Starting, Ordered
<1>10. Removing'
  BY <1>1, <1>4, Zenon DEF Removing
<1>11. RollingBack' /\ Arguments'
  BY <1>4, <1>5, Zenon DEF RollingBack, Arguments
<1>12. QED
  BY <1>7, <1>8, <1>9, <1>10, <1>11 DEF EgressInv

LEMMA StartInv ==
  ASSUME EgressInv, NEW c \in Configs, Start(c)
  PROVE  EgressInv'
<1>1. c \in Config /\ c.iface \in Owner /\ c.iface \in Interfaces
  BY DEF Config, Owner, Interfaces
<1>2. Begin("start", c, c.iface, StartSteps) /\ armed' = armed
  BY Zenon DEF Start
<1>3. QED
  BY <1>1, <1>2, StartList, BeginInv

LEMMA ArmInv ==
  ASSUME EgressInv, NEW c \in Configs, Arm(c) \/ ArmForRestore(c)
  PROVE  EgressInv'
<1>1. c \in Config /\ c.iface \in Owner /\ c.iface \in Interfaces
  BY DEF Config, Owner, Interfaces
<1>2. Begin("arm", c, c.iface, ApplyGuard) /\ armed' = armed
  BY Zenon DEF Arm, ArmForRestore
<1>3. Elems(ApplyGuard) \cap Dels = {} /\ Elems(ApplyGuard) \cap {"up", "write", "route"} = {}
  BY ApplyList DEF Dels
<1>4. QED
  BY <1>1, <1>2, <1>3, ApplyList, BeginInv

LEMMA ArmSourceInv ==
  ASSUME EgressInv, NEW c \in Configs, ArmSource(c)
  PROVE  EgressInv'
<1> DEFINE s == <<"unreachable4", "source">>
<1>1. c \in Config /\ c.iface \in Owner /\ c.iface \in Interfaces
  BY DEF Config, Owner, Interfaces
<1>2. Begin("arm", c, c.iface, s) /\ armed' = armed
  BY Zenon DEF ArmSource
<1>3. s \in Todos /\ Elems(s) = {"unreachable4", "source"}
  <2>1. "unreachable4" \in Steps /\ "source" \in Steps /\ "unreachable4" # "source"
    BY DEF Steps
  <2>2. QED
    BY <2>1, Two, Zenon
<1> HIDE DEF s
<1>4. /\ Elems(s) \cap Dels = {} /\ Elems(s) \cap {"up", "write", "route"} = {}
      /\ Elems(s) \cap {"iif4", "iif6", "up"} = {}
  BY <1>3 DEF Dels
<1>5. Ordered(s)
  BY <1>4, PlainOrdered, Zenon
<1>6. QED
  BY <1>1, <1>2, <1>3, <1>4, <1>5, BeginInv

LEMMA ArmIngressInv ==
  ASSUME EgressInv, ArmIngress
  PROVE  EgressInv'
<1> DEFINE s == GuardSteps \o RuleSteps
<1>1. None \in Config /\ None \in Owner
  BY DEF Config, Owner
<1>2. Begin("arm", None, None, s) /\ armed' = armed
  BY Zenon DEF ArmIngress
<1>3. s \in Todos /\ Ordered(s) /\ Elems(s) = {"unreachable4", "unreachable6", "iif4", "iif6"}
  BY IngressList, Zenon
<1> HIDE DEF s
<1>4. /\ Elems(s) \cap Dels = {} /\ Elems(s) \cap {"up", "write", "route"} = {}
      /\ Elems(s) \cap OfIface = {} /\ Elems(s) \cap OfConfig = {}
  BY <1>3 DEF Dels, OfIface, OfConfig
<1>5. QED
  BY <1>1, <1>2, <1>3, <1>4, BeginInv

LEMMA StopInv ==
  ASSUME EgressInv, NEW i \in Interfaces, Stop(i)
  PROVE  EgressInv'
<1>1. None \in Config /\ i \in Owner
  BY DEF Config, Owner
<1>2. Begin("stop", None, i, StopSteps) /\ armed' = armed
  BY Zenon DEF Stop
<1>3. /\ Elems(StopSteps) \cap Dels = {} /\ Elems(StopSteps) \cap {"up", "write", "route"} = {}
      /\ Elems(StopSteps) \cap {"iif4", "iif6", "up"} = {} /\ Elems(StopSteps) \cap OfConfig = {}
  BY GuardList DEF Dels, OfConfig
<1>4. Ordered(StopSteps)
  BY <1>3, PlainOrdered, Zenon
<1>5. QED
  BY <1>1, <1>2, <1>3, <1>4, GuardList, BeginInv

LEMMA DisarmInv ==
  ASSUME EgressInv, NEW i \in Interfaces, NEW ingress \in BOOLEAN, Disarm(i, ingress)
  PROVE  EgressInv'
<1> DEFINE s == DisarmSteps(ingress)
<1>1. None \in Config /\ i \in Owner
  BY DEF Config, Owner
<1>2. Begin("disarm", None, i, s) /\ host.route \in {None, i}
  BY Zenon DEF Disarm, RemovalOwned, TableOwned
<1>3. armed' \in {armed, {}} /\ (armed' = {} \/ ~ingress)
  BY DEF Disarm
<1>4. /\ s \in Todos /\ (~ingress => Elems(s) \cap Dels = {})
      /\ Elems(s) \cap {"iif4", "iif6", "up", "write", "route", "source"} = {}
  BY DisarmList, Zenon
<1> HIDE DEF s
<1>5. /\ Elems(s) \cap {"iif4", "iif6", "up"} = {} /\ Elems(s) \cap {"iif4", "iif6"} = {}
      /\ Elems(s) \cap {"up", "write", "route"} = {} /\ Elems(s) \cap OfConfig = {}
  BY <1>4 DEF OfConfig
<1>6. Ordered(s)
  BY <1>5, PlainOrdered, Zenon
<1>7. QED
  BY <1>1, <1>2, <1>3, <1>4, <1>5, <1>6, BeginInv

\* A tunnel that is lost leaves the rules, the guard and the files alone.
LEMMA LinkLostInv ==
  ASSUME EgressInv, LinkLost
  PROVE  EgressInv'
<1>1. PICK i \in Interfaces : host' = Down(host, i)
  BY Zenon DEF LinkLost
<1>2. host \in Hosts /\ op' = op /\ armed' = armed
  BY DEF EgressInv, Typed, LinkLost
<1>3. host.up \in PerInterface
  BY <1>2, HostFields, Zenon
<1>4. host' = [host EXCEPT !.up[i] = None, !.route = IF @ = i THEN None ELSE @]
  BY <1>1, Zenon DEF Down
<1>5. [host.up EXCEPT ![i] = None] \in PerInterface
  BY <1>3 DEF PerInterface, Config
<1>6. (IF host.route = i THEN None ELSE host.route) \in Owner
  BY <1>2, HostFields DEF Owner
<1>7. host' \in Hosts
  BY <1>2, <1>4, <1>5, <1>6, HostsAre, Zenon
<1>8. /\ host'.unreachable = host.unreachable /\ host'.iif = host.iif
      /\ host'.sources = host.sources /\ host'.file = host.file
      /\ host'.up = [host.up EXCEPT ![i] = None] /\ host'.route \in {host.route, None}
  BY <1>2, <1>4, HostsAre, Zenon
<1>9. \A j \in Interfaces : host'.up[j] \in {host.up[j], None}
  BY <1>3, <1>8 DEF PerInterface
<1>10. Typed'
  BY <1>2, <1>7 DEF EgressInv, Typed
<1>11. Held'
  BY <1>2, <1>8, <1>9 DEF EgressInv, Held, RuleHasGuard, SourceGuarded
<1>12. Guarding' /\ Starting'
  BY <1>2, <1>8, Zenon DEF EgressInv, Guarding, Starting
<1>13. Removing'
  BY <1>2, <1>8 DEF EgressInv, Removing
<1>14. RollingBack' /\ Arguments'
  BY <1>2, <1>8, <1>9 DEF EgressInv, RollingBack, Arguments
<1>15. QED
  BY <1>10, <1>11, <1>12, <1>13, <1>14 DEF EgressInv

LEMMA RemoveConfigInv ==
  ASSUME EgressInv, NEW i \in Interfaces, RemoveConfig(i)
  PROVE  EgressInv'
<1>1. host \in Hosts /\ host' = [host EXCEPT !.file[i] = None] /\ op' = Idle /\ armed' = armed
  BY DEF EgressInv, Typed, RemoveConfig
<1>2. [host.file EXCEPT ![i] = None] \in PerInterface
  <2>1. host.file \in PerInterface
    BY <1>1, HostFields, Zenon
  <2>2. QED
    BY <2>1 DEF PerInterface, Config
<1>3. /\ host' \in Hosts /\ host'.iif = host.iif /\ host'.unreachable = host.unreachable
      /\ host'.up = host.up /\ host'.sources = host.sources
  BY <1>1, <1>2, HostsAre, Zenon
<1>4. Held'
  BY <1>1, <1>3 DEF EgressInv, Held, RuleHasGuard, SourceGuarded
<1>5. QED
  BY <1>1, <1>3, <1>4, IdleInv DEF EgressInv, Typed

\* A host without rules, tunnels and armed ingress holds what it has to.
NoTunnels == [i \in Interfaces |-> None]
BareWith(file, f) ==
  [unreachable |-> {}, iif |-> {}, oif |-> {}, sources |-> {}, route |-> None,
   up |-> NoTunnels, file |-> file, foreign |-> f]

LEMMA BareIs == Bare = BareWith(NoTunnels, "none")
  BY Zenon DEF Bare, BareWith, NoTunnels

LEMMA BareHost ==
  ASSUME NEW file \in PerInterface, NEW f \in Foreign
  PROVE  /\ BareWith(file, f) \in Hosts /\ BareWith(file, f).iif = {}
         /\ \A i \in Interfaces : BareWith(file, f).up[i] = None
<1>1. NoTunnels \in PerInterface /\ \A i \in Interfaces : NoTunnels[i] = None
  BY DEF PerInterface, Config, NoTunnels
<1>2. /\ {} \in HostUnreachable /\ {} \in HostRules /\ {} \in HostOif /\ {} \in HostSources
      /\ None \in Owner
  BY DEF HostUnreachable, HostRules, HostOif, HostSources, Owner
<1>3. BareWith(file, f) \in Hosts
  BY <1>1, <1>2, HostsAre DEF BareWith
<1>4. BareWith(file, f).iif = {} /\ BareWith(file, f).up = NoTunnels
  BY DEF BareWith
<1>5. QED
  BY <1>1, <1>3, <1>4

LEMMA RebootInv ==
  ASSUME EgressInv, Reboot
  PROVE  EgressInv'
<1>1. host \in Hosts /\ op' = Idle /\ armed' = {}
  BY DEF EgressInv, Typed, Reboot
<1>2. host.file \in PerInterface /\ host.foreign \in Foreign
  BY <1>1, HostsAre
<1>3. host' = BareWith(host.file, host.foreign)
  BY BareIs, Zenon DEF Reboot, BareWith
<1>4. host' \in Hosts /\ host'.iif = {} /\ \A i \in Interfaces : host'.up[i] = None
  BY <1>2, <1>3, BareHost
<1>5. Held'
  BY <1>1, <1>4 DEF Held, RuleHasGuard, SourceGuarded
<1>6. QED
  BY <1>1, <1>4, <1>5, IdleInv

LEMMA CrashInv ==
  ASSUME EgressInv, Crash
  PROVE  EgressInv'
<1>1. op' = Idle /\ host' = host /\ armed' = armed
  BY DEF Crash
<1>2. Held'
  BY <1>1 DEF EgressInv, Held, RuleHasGuard, SourceGuarded
<1>3. QED
  BY <1>1, <1>2, IdleInv DEF EgressInv, Typed

LEMMA InitInv ==
  Init => EgressInv
<1> SUFFICES ASSUME Init PROVE EgressInv
  OBVIOUS
<1>1. PICK f \in Foreign : host = [Bare EXCEPT !.foreign = f]
  BY DEF Init, Foreign
<1>2. NoTunnels \in PerInterface
  BY DEF PerInterface, Config, NoTunnels
<1>3. host = BareWith(NoTunnels, f)
  BY <1>1, BareIs DEF BareWith
<1>4. host \in Hosts /\ host.iif = {} /\ \A i \in Interfaces : host.up[i] = None
  BY <1>2, <1>3, BareHost
<1>5. op = Idle /\ armed = {}
  BY DEF Init
<1>6. /\ op.kind = "idle" /\ op.config = None /\ op.iface = None /\ op.previous = None
      /\ op.todo = <<>>
  BY <1>5 DEF Idle
<1>7. "idle" \in Kinds /\ None \in Config /\ None \in Owner
  BY DEF Kinds, Config, Owner
<1>8. op \in Ops
  BY <1>5, <1>7, RollbackList, OpsAre DEF Idle
<1>9. Typed
  BY <1>4, <1>5, <1>8 DEF Typed
<1>10. Held
  BY <1>4, <1>5 DEF Held, RuleHasGuard, SourceGuarded
<1>11. Elems(op.todo) = {}
  BY <1>6, RollbackList
<1>12. Ordered(op.todo)
  <2>1. Elems(op.todo) \cap {"iif4", "iif6", "up"} = {}
    BY <1>11
  <2>2. QED
    BY <2>1, PlainOrdered, Zenon
<1>13. Guarding
  BY <1>12 DEF Guarding, Ordered
<1>14. Removing /\ Starting /\ RollingBack /\ Arguments
  BY <1>6, <1>11 DEF Removing, Starting, RollingBack, Arguments
<1>15. QED
  BY <1>9, <1>10, <1>13, <1>14 DEF EgressInv

LEMMA StepInv ==
  EgressInv /\ [Next]_vars => EgressInv'
<1> SUFFICES ASSUME EgressInv, [Next]_vars PROVE EgressInv'
  OBVIOUS
<1>1. CASE UNCHANGED vars
  <2>1. host' = host /\ op' = op /\ armed' = armed
    BY <1>1 DEF vars
  <2>2. Typed' /\ Held' /\ Guarding'
    BY <2>1, Zenon DEF EgressInv, Typed, Held, Guarding, RuleHasGuard, SourceGuarded
  <2>3. Removing' /\ Starting'
    BY <2>1, Zenon DEF EgressInv, Removing, Starting
  <2>4. RollingBack' /\ Arguments'
    BY <2>1, Zenon DEF EgressInv, RollingBack, Arguments
  <2>5. QED
    BY <2>2, <2>3, <2>4, Zenon DEF EgressInv
<1>2. ASSUME NEW c \in Configs, Start(c) \/ Arm(c) \/ ArmForRestore(c) \/ ArmSource(c)
      PROVE  EgressInv'
  BY <1>2, StartInv, ArmInv, ArmSourceInv, Zenon
<1>3. ASSUME NEW i \in Interfaces, NEW ingress \in BOOLEAN, Disarm(i, ingress)
      PROVE  EgressInv'
  BY <1>3, DisarmInv, Zenon
<1>4. ASSUME NEW i \in Interfaces, Stop(i) \/ RemoveConfig(i)
      PROVE  EgressInv'
  BY <1>4, StopInv, RemoveConfigInv, Zenon
<1>5. CASE ArmIngress \/ Do \/ Fail \/ Crash \/ Reboot \/ LinkLost
  BY <1>5, ArmIngressInv, DoInv, FailInv, CrashInv, RebootInv, LinkLostInv, Zenon
<1>6. QED
  BY <1>1, <1>2, <1>3, <1>4, <1>5, Zenon DEF Next

LEMMA EgressInvariant == Spec => []EgressInv
  BY InitInv, StepInv, PTL DEF Spec

-----------------------------------------------------------------------------
(* Every part of the routing state the native host keeps for a provider has  *)
(* its shape, whatever commands failed and wherever the service ended.       *)
THEOREM EgressTypes == Spec => []TypeOK
<1>1. EgressInv => TypeOK
  <2> SUFFICES ASSUME EgressInv PROVE TypeOK
    OBVIOUS
  <2>1. host \in Hosts /\ op \in Ops /\ armed \in SUBSET Ingress
    BY DEF EgressInv, Typed
  <2>2. op.kind \in Kinds /\ op.todo \in Todos
    BY <2>1, OpsAre
  <2>3. \A n \in DOMAIN op.todo : op.todo[n] \in Steps
    BY <2>2 DEF Todos
  <2>4. QED
    BY <2>1, <2>2, <2>3, HostFields DEF TypeOK, Kinds, HostUnreachable, HostRules, HostOif,
       HostSources, Owner, PerInterface, Config
<1>2. QED
  BY <1>1, EgressInvariant, PTL

(* provider_wireguard.start, arm, stop, disarm and their rollback: at every  *)
(* command, also one that failed or was the last before a crash, armed       *)
(* ingress traffic stays off the host's own route, no rule leads into a      *)
(* table without its unreachable default, a tunnel that is up has its source *)
(* rule, and a start that was rolled back leaves the file it found and no    *)
(* tunnel.                                                                   *)
THEOREM GuardAlwaysHolds ==
  Spec => [](ArmedNeverLeaks /\ RuleHasGuard /\ SourceGuarded /\ FailedStartRestores)
<1>1. EgressInv => ArmedNeverLeaks /\ RuleHasGuard /\ SourceGuarded /\ FailedStartRestores
  <2> SUFFICES ASSUME EgressInv
               PROVE  ArmedNeverLeaks /\ RuleHasGuard /\ SourceGuarded /\ FailedStartRestores
    OBVIOUS
  <2>1. ASSUME NEW n \in armed, NEW f \in Families PROVE Lookup(n, f) # "main"
    <3>1. <<n, f>> \in host.iif
      BY Zenon DEF EgressInv, Held
    <3>2. f \in host.unreachable
      <4>1. <<n, f>>[2] \in host.unreachable
        BY <3>1, Zenon DEF EgressInv, Held, RuleHasGuard
      <4>2. QED
        BY <4>1
    <3>3. QED
      BY <3>1, <3>2 DEF Lookup
  <2>2. FailedStartRestores
    <3>1. op.todo = <<>> => Elems(op.todo) = {}
      BY RollbackList
    <3>2. QED
      BY <3>1 DEF FailedStartRestores, EgressInv, RollingBack
  <2>3. QED
    BY <2>1, <2>2 DEF ArmedNeverLeaks, EgressInv, Held
<1>2. QED
  BY <1>1, EgressInvariant, PTL

(* provider_wireguard.disarm: the ingress rules are taken away under a       *)
(* default route only by the provider whose tunnel has that default.         *)
THEOREM OthersAreSpared == Spec => [][SparesOthers]_vars
<1>1. EgressInv /\ [Next]_vars => [SparesOthers]_vars
  <2> SUFFICES ASSUME EgressInv, Next, host.route # None, ~(host.iif \subseteq host'.iif), ~Reboot
               PROVE  op.kind = "disarm" /\ host.route = op.iface
    BY Zenon DEF SparesOthers
  <2>1. host \in Hosts
    BY DEF EgressInv, Typed
  <2>2. host' # host
    OBVIOUS
  <2>3. ASSUME op.todo # <<>>, host' = Effect(host, Current, op.config, op.iface, op.previous)
        PROVE  op.kind = "disarm" /\ host.route = op.iface
    <3>1. Does(host, host', Current, op.config, op.iface, op.previous)
      BY <2>3, Command, Zenon
    <3>2. Current \in Dels
      BY <3>1 DEF Does
    <3>3. op.kind = "disarm"
      BY <2>3, <3>2, Ready, Zenon
    <3>4. QED
      BY <3>3 DEF EgressInv, Removing
  <2>4. CASE Do \/ Fail
    BY <2>2, <2>3, <2>4, Zenon DEF Do, Fail
  <2>5. ASSUME NEW i \in Interfaces, RemoveConfig(i) PROVE FALSE
    BY <2>1, <2>5, HostsAre DEF RemoveConfig
  <2>6. CASE LinkLost
    BY <2>1, <2>6, HostsAre DEF LinkLost, Down
  <2>7. QED
    BY <2>2, <2>4, <2>5, <2>6, Zenon DEF Next, Start, Arm, ArmForRestore, ArmSource, ArmIngress,
       Stop, Disarm, Begin, Crash
<1>2. QED
  BY <1>1, EgressInvariant, PTL DEF Spec

-----------------------------------------------------------------------------
(* The container's policy, an instance with variables of its own: a system   *)
(* has the one or the other.                                                 *)

CONSTANTS Tasks, MaxSources, MaxEpoch

VARIABLES table, net, epoch, candidate, proof, committed, owned, link, alive, lock, task,
          granted, sealed

P == INSTANCE ContainerPolicy

\* None is no configuration and no interface.
PolicyConstants == None \notin Configs /\ None \notin P!Interfaces

-----------------------------------------------------------------------------
(* What a rewrite of the table comes to.                                     *)

\* Nothing happened.
Kept(t, n, r) == r.table = t /\ r.net = n /\ r.ok = FALSE /\ r.sealed = TRUE

\* A recognised table was replaced by one that forwards nothing, or it may have
\* been and the copy says so.
Closed(t, n, r) ==
  /\ t = n /\ r.net.forward = None
  /\ r.ok = FALSE \/ (r.ok = TRUE /\ r.sealed = TRUE)
  /\ r.sealed = FALSE \/ (r.sealed = TRUE /\ r.table = r.net)

Blocking(t, n, r) ==
  /\ Kept(t, n, r) \/ Closed(t, n, r)
  /\ t.sources \subseteq r.table.sources

\* The outcomes of a rewrite, without the sets they are written with.
LEMMA RewriteOutcomes ==
  ASSUME NEW t, NEW n, NEW g, NEW r \in P!Rewrites(t, n, g)
  PROVE \/ Kept(t, n, r)
        \/ t = n /\ r.table = g /\ r.net = g /\ r.ok = TRUE /\ r.sealed = TRUE
        \/ /\ t = n /\ r.net = P!Blocked(g.sources) /\ r.ok = FALSE
           /\ \/ r.table = P!Blocked(g.sources) /\ r.sealed = TRUE
              \/ r.table \in {t, g, P!Blocked(g.sources)} /\ r.sealed = FALSE
BY DEF P!Rewrites, Kept, P!Recognised

\* A rewrite to a table that does not forward and keeps the sources.
LEMMA RewriteBlocks ==
  ASSUME NEW t, NEW n, NEW g, NEW r \in P!Rewrites(t, n, g),
         g.forward = None, n.sources \subseteq g.sources
  PROVE Blocking(t, n, r)
<1>1. P!Blocked(g.sources).forward = None /\ P!Blocked(g.sources).sources = g.sources
  BY Zenon DEF P!Blocked
<1>2. CASE Kept(t, n, r)
  BY <1>2, Zenon DEF Blocking, Kept
<1>3. CASE t = n /\ r.table = g /\ r.net = g /\ r.ok = TRUE /\ r.sealed = TRUE
  BY <1>3, Zenon DEF Blocking, Closed
<1>4. CASE /\ t = n /\ r.net = P!Blocked(g.sources) /\ r.ok = FALSE
           /\ \/ r.table = P!Blocked(g.sources) /\ r.sealed = TRUE
              \/ r.table \in {t, g, P!Blocked(g.sources)} /\ r.sealed = FALSE
  BY <1>1, <1>4, Zenon DEF Blocking, Closed
<1> QED BY <1>2, <1>3, <1>4, RewriteOutcomes, ZenonT(60)

\* restrict_provider(None) blocks.
LEMMA RestrictBlocks ==
  ASSUME NEW t, NEW n, NEW keep, NEW r \in P!Restrict(t, n, keep)
  PROVE Blocking(t, n, r)
<1> DEFINE p == IF keep THEN n.probe ELSE None
           g == [P!Blocked(n.sources) EXCEPT !.probe = p]
<1>1. g.forward = None /\ g.sources = n.sources
  BY Zenon DEF P!Blocked
<1>2. r \in P!Rewrites(t, n, g)
  BY Zenon DEF P!Restrict
<1> HIDE DEF g
<1> QED BY <1>1, <1>2, RewriteBlocks, Zenon

\* The source of the configuration is guarded when the start goes on.
LEMMA RegisterBlocks ==
  ASSUME NEW t, NEW n, NEW c, NEW r \in P!RegisterSource(t, n, c)
  PROVE Blocking(t, n, r) /\ (r.ok = TRUE => c.addr \in r.table.sources)
<1> DEFINE s == n.sources \cup {c.addr}
           g == [forward |-> None, probe |-> c.iface, sources |-> s]
<1>1. /\ g.forward = None /\ g.sources = s /\ n.sources \subseteq g.sources
      /\ c.addr \in s
  BY Zenon
<1> DEFINE full == [table |-> t, net |-> n, ok |-> FALSE, sealed |-> TRUE]
<1>2. r = full \/ r \in P!Rewrites(t, n, g)
  BY Zenon DEF P!RegisterSource
<1>3. CASE r = full
  BY <1>3, Zenon DEF Blocking, Kept
<1>4. CASE r \in P!Rewrites(t, n, g)
  <2>1. r \in P!Rewrites(t, n, g)
    BY <1>4
  <2> HIDE DEF g, s
  <2>2. Blocking(t, n, r) /\ (r.ok = TRUE => r.table.sources = g.sources)
    <3>1. g.forward = None /\ n.sources \subseteq g.sources
      BY <1>1, Zenon
    <3>2. Blocking(t, n, r)
      BY <2>1, <3>1, RewriteBlocks, Zenon
    <3>3. ASSUME r.ok = TRUE PROVE r.table.sources = g.sources
      BY <2>1, <3>3, RewriteOutcomes, Zenon DEF Kept
    <3> QED BY <3>2, <3>3, Zenon
  <2> QED BY <1>1, <2>2, Zenon
<1> QED BY <1>2, <1>3, <1>4, Zenon

\* Both rewrites of a start block, and the second guards the address.
LEMMA StartBlocks ==
  ASSUME NEW c, NEW r \in P!BlockThenRegister(c)
  PROVE Blocking(table, net, r) /\ (r.ok = TRUE => c.addr \in r.table.sources)
<1>1. PICK b \in P!Restrict(table, net, FALSE) :
           r \in IF b.ok THEN P!RegisterSource(b.table, b.net, c) ELSE {b}
  BY Zenon DEF P!BlockThenRegister
<1>2. Blocking(table, net, b)
  BY <1>1, RestrictBlocks, Zenon
<1>3. CASE b.ok = TRUE
  <2>1. Closed(table, net, b) /\ b.table = b.net /\ table.sources \subseteq b.table.sources
    BY <1>2, <1>3, Zenon DEF Blocking, Kept, Closed
  <2>2. Blocking(b.table, b.net, r) /\ (r.ok = TRUE => c.addr \in r.table.sources)
    BY <1>1, <1>3, RegisterBlocks, Zenon
  <2>3. CASE Kept(b.table, b.net, r)
    BY <2>1, <2>2, <2>3, Zenon DEF Blocking, Kept, Closed
  <2>4. CASE Closed(b.table, b.net, r)
    BY <2>1, <2>2, <2>4, Zenon DEF Blocking, Closed
  <2> QED BY <2>2, <2>3, <2>4, Zenon DEF Blocking
<1>4. CASE b.ok = FALSE
  <2>1. r = b
    BY <1>1, <1>4, Zenon
  <2> QED BY <1>2, <1>4, <2>1, Zenon
<1> QED BY <1>2, <1>3, <1>4, Zenon DEF Blocking, Kept, Closed

-----------------------------------------------------------------------------
(* The forwarding verdict. As long as no rewrite failed twice the worker's   *)
(* copy is the kernel's table; once one did, nothing is recognised, or the   *)
(* copy forwards nothing.                                                    *)

PolicyInv ==
  /\ candidate \in Configs \cup {None}
  /\ sealed \in BOOLEAN /\ alive \in BOOLEAN
  /\ alive /\ sealed => table = net
  /\ alive => net.forward = None \/ table = net \/ candidate = None
  /\ P!ForwardingIsCurrent

\* What a section leaves to the invariant when it blocks: its verdict is gone,
\* or nothing changed, and then it is the caller's part to keep the epoch.
LEMMA BlockedSection ==
  ASSUME PolicyInv, alive, NEW r, Blocking(table, net, r), P!Load(r)
  PROVE /\ sealed' \in BOOLEAN
        /\ sealed' => table' = net'
        /\ net'.forward = None \/ (table' = table /\ net' = net)
        /\ sealed' => table'.forward = None \/ (sealed /\ table' = table)
        /\ r.ok = TRUE => net'.forward = None
        /\ r.ok = TRUE \/ r.ok = FALSE
<1>1. CASE Kept(table, net, r)
  BY <1>1, Zenon DEF Kept, P!Load, PolicyInv
<1>2. CASE Closed(table, net, r)
  BY <1>2, Zenon DEF Closed, P!Load, PolicyInv
<1> QED BY <1>1, <1>2, Zenon DEF Blocking

\* A section that blocks and withdraws the candidate, or changes nothing else.
LEMMA WithdrawKeeps ==
  ASSUME PolicyInv, alive, alive' = alive, granted' = granted,
         NEW r, Blocking(table, net, r), P!Load(r),
         \/ UNCHANGED <<epoch, candidate>>
         \/ r.ok = TRUE /\ candidate' \in Configs \cup {None}
  PROVE PolicyInv'
<1>1. /\ sealed' \in BOOLEAN
      /\ sealed' => table' = net'
      /\ net'.forward = None \/ (table' = table /\ net' = net)
      /\ sealed' => table'.forward = None \/ (sealed /\ table' = table)
      /\ r.ok = TRUE => net'.forward = None
  BY BlockedSection, Zenon
<1>2. candidate' \in Configs \cup {None} /\ alive' \in BOOLEAN
  BY Zenon DEF PolicyInv
<1>3. alive' => net'.forward = None \/ table' = net' \/ candidate' = None
  BY <1>1, Zenon DEF PolicyInv
<1>4. P!ForwardingIsCurrent'
  BY <1>1, Zenon DEF PolicyInv, P!ForwardingIsCurrent
<1> QED BY <1>1, <1>2, <1>3, <1>4, Zenon DEF PolicyInv

\* A step that leaves the table, the copy, the candidate and the epoch alone.
LEMMA ElsewhereKeeps ==
  ASSUME PolicyInv, UNCHANGED <<table, net, epoch, candidate, alive, granted, sealed>>
  PROVE PolicyInv'
BY Zenon DEF PolicyInv, P!ForwardingIsCurrent

\* A start.
LEMMA StartKeeps ==
  ASSUME PolicyInv, NEW t \in Tasks, NEW c \in Configs, P!StartBegin(t, c)
  PROVE PolicyInv'
<1>1. PICK r \in P!BlockThenRegister(c) :
        /\ P!Load(r)
        /\ \/ r.ok = TRUE /\ candidate' = c
           \/ UNCHANGED <<epoch, candidate>>
  BY StartBlocks, Zenon DEF P!StartBegin, Blocking, Kept, Closed
<1>2. alive /\ alive' = alive /\ granted' = granted
  BY Zenon DEF P!StartBegin
<1> QED BY <1>1, <1>2, StartBlocks, WithdrawKeeps, Zenon

\* A start that failed.
LEMMA StartFailedKeeps ==
  ASSUME PolicyInv, NEW t \in Tasks, P!StartFailed(t)
  PROVE PolicyInv'
<1>1. alive /\ alive' = alive /\ granted' = granted
  BY Zenon DEF P!StartFailed
<1>2. CASE task[t].epoch = epoch
  <2>1. PICK r \in P!Restrict(table, net, FALSE) :
          /\ P!Load(r)
          /\ (r.ok /\ candidate' = None) \/ (~r.ok /\ UNCHANGED <<epoch, candidate>>)
    BY <1>2, Zenon DEF P!StartFailed
  <2>2. Blocking(table, net, r)
    BY <2>1, RestrictBlocks, Zenon
  <2>3. (r.ok = TRUE /\ candidate' = None) \/ UNCHANGED <<epoch, candidate>>
    BY <2>1, <2>2, Zenon DEF Blocking, Kept, Closed
  <2> QED BY <1>1, <2>1, <2>2, <2>3, WithdrawKeeps, Zenon
<1>3. CASE task[t].epoch # epoch
  BY <1>3, ElsewhereKeeps, Zenon DEF P!StartFailed
<1> QED BY <1>2, <1>3, Zenon

\* A stop or a disarm.
LEMMA StopKeeps ==
  ASSUME PolicyInv, NEW t \in Tasks, NEW i \in P!Interfaces, NEW teardown \in BOOLEAN,
         P!StopBlock(t, i, teardown)
  PROVE PolicyInv'
<1>1. alive /\ alive' = alive /\ granted' = granted
  BY Zenon DEF P!StopBlock
<1>2. CASE candidate # None /\ candidate.iface # i
  BY <1>2, ElsewhereKeeps, Zenon DEF P!StopBlock
<1>3. CASE ~(candidate # None /\ candidate.iface # i)
  <2>1. PICK r \in P!Restrict(table, net, FALSE) :
          /\ P!Load(r)
          /\ (r.ok /\ candidate' = None) \/ (~r.ok /\ UNCHANGED <<epoch, candidate>>)
    BY <1>3, Zenon DEF P!StopBlock
  <2>2. Blocking(table, net, r)
    BY <2>1, RestrictBlocks, Zenon
  <2>3. (r.ok = TRUE /\ candidate' = None) \/ UNCHANGED <<epoch, candidate>>
    BY <2>1, <2>2, Zenon DEF Blocking, Kept, Closed
  <2> QED BY <1>1, <2>1, <2>2, <2>3, WithdrawKeeps, Zenon
<1> QED BY <1>2, <1>3, Zenon

\* The end of a probe, or its cancellation.
LEMMA ProbeKeeps ==
  ASSUME PolicyInv, NEW t \in Tasks, P!ProbeApply(t) \/ P!ProbeCancel(t)
  PROVE PolicyInv'
<1>1. /\ alive /\ alive' = alive /\ granted' = granted /\ UNCHANGED <<epoch, candidate>>
      /\ \/ UNCHANGED <<table, net, sealed>>
         \/ \E r \in P!Restrict(table, net, TRUE) : P!Load(r)
  BY Zenon DEF P!ProbeApply, P!ProbeCancel
<1>2. CASE UNCHANGED <<table, net, sealed>>
  BY <1>1, <1>2, ElsewhereKeeps, Zenon
<1>3. ASSUME NEW r \in P!Restrict(table, net, TRUE), P!Load(r) PROVE PolicyInv'
  BY <1>1, <1>3, RestrictBlocks, WithdrawKeeps, Zenon
<1> QED BY <1>1, <1>2, <1>3, Zenon

\* Opening for a configuration: the table forwards for it, or it is blocked, or
\* nothing happened.
Opened(t, n, c, r) ==
  /\ \/ r.table = t /\ r.net = n /\ r.sealed = TRUE
     \/ t = n /\ r.table = r.net /\ r.table.forward \in {c.iface, None} /\ r.sealed = TRUE
     \/ r.sealed = FALSE
  /\ \/ r.table = t /\ r.net = n
     \/ r.net = r.table
     \/ r.net.forward = None
  /\ t.sources \subseteq r.table.sources

\* restrict_provider(config).
LEMMA OpenOutcomes ==
  ASSUME NEW t, NEW n, NEW c, NEW r \in P!Open(t, n, c)
  PROVE Opened(t, n, c, r) /\ (r.ok = TRUE => r.table = r.net /\ r.table.forward = c.iface)
<1> DEFINE g == [forward |-> c.iface, probe |-> c.iface, sources |-> n.sources]
<1>1. g.forward = c.iface /\ g.sources = n.sources
  BY Zenon
<1>2. r \in P!Rewrites(t, n, g)
  BY Zenon DEF P!Open
<1> HIDE DEF g
<1>3. P!Blocked(g.sources).forward = None /\ P!Blocked(g.sources).sources = g.sources
  BY Zenon DEF P!Blocked
<1>4. CASE Kept(t, n, r)
  BY <1>4, Zenon DEF Opened, Kept
<1>5. CASE t = n /\ r.table = g /\ r.net = g /\ r.ok = TRUE /\ r.sealed = TRUE
  BY <1>1, <1>5, Zenon DEF Opened
<1>6. CASE /\ t = n /\ r.net = P!Blocked(g.sources) /\ r.ok = FALSE
           /\ \/ r.table = P!Blocked(g.sources) /\ r.sealed = TRUE
              \/ r.table \in {t, g, P!Blocked(g.sources)} /\ r.sealed = FALSE
  BY <1>1, <1>3, <1>6, Zenon DEF Opened
<1>7. \/ Kept(t, n, r)
      \/ t = n /\ r.table = g /\ r.net = g /\ r.ok = TRUE /\ r.sealed = TRUE
      \/ /\ t = n /\ r.net = P!Blocked(g.sources) /\ r.ok = FALSE
         /\ \/ r.table = P!Blocked(g.sources) /\ r.sealed = TRUE
            \/ r.table \in {t, g, P!Blocked(g.sources)} /\ r.sealed = FALSE
  BY <1>2, RewriteOutcomes, Zenon
<1> QED BY <1>4, <1>5, <1>6, <1>7, Zenon

\* A commit forwards for the candidate in the current epoch, whether it ends
\* well, fails, or is cancelled after it ended.
LEMMA CommitKeeps ==
  ASSUME PolicyInv, PolicyConstants, NEW t \in Tasks, NEW c \in Configs, P!Commit(t, c)
  PROVE PolicyInv'
<1> DEFINE now == [epoch |-> epoch, config |-> c]
<1>1. /\ alive /\ alive' = alive /\ UNCHANGED <<epoch, candidate>> /\ candidate = c
      /\ c.iface # None /\ c # None
  BY Zenon DEF P!Commit, P!Proven, PolicyConstants, P!Interfaces
<1>2. candidate' \in Configs \cup {None} /\ alive' \in BOOLEAN
  BY <1>1, Zenon DEF PolicyInv
<1>3. ASSUME NEW r \in P!Open(table, net, c), r.ok, P!Load(r), granted' = now
      PROVE PolicyInv'
  <2>1. Opened(table, net, c, r) /\ (r.ok = TRUE => r.table = r.net /\ r.table.forward = c.iface)
    BY OpenOutcomes, Zenon
  <2>2. r.ok = TRUE
    BY <1>3, RewriteOutcomes, Zenon DEF P!Open, Kept
  <2>3. table' = net' /\ table'.forward = c.iface /\ sealed' \in BOOLEAN
    BY <1>3, <2>1, <2>2, Zenon DEF P!Load, PolicyInv
  <2>4. P!ForwardingIsCurrent'
    BY <1>1, <1>3, <2>3, Zenon DEF P!ForwardingIsCurrent
  <2> QED BY <1>2, <2>3, <2>4, Zenon DEF PolicyInv
<1>4. ASSUME NEW o, Opened(table, net, c, o), NEW r \in P!Restrict(o.table, o.net, FALSE),
             table' = r.table, net' = r.net, sealed' = (sealed /\ o.sealed /\ r.sealed),
             granted' = IF r.table.forward = c.iface THEN now ELSE granted
      PROVE PolicyInv'
  <2>1. Blocking(o.table, o.net, r)
    BY RestrictBlocks, Zenon
  <2>2. sealed' \in BOOLEAN /\ (sealed' => sealed /\ o.sealed = TRUE /\ r.sealed = TRUE)
    BY <1>4, <2>1, Zenon DEF PolicyInv, Opened, Blocking, Kept, Closed
  <2>3. \/ r.table = o.table /\ r.net = o.net
        \/ o.table = o.net /\ r.net.forward = None /\ (r.sealed = TRUE => r.table = r.net)
    BY <2>1, Zenon DEF Blocking, Kept, Closed
  <2>4. sealed' => table' = net'
    BY <1>1, <1>4, <2>2, <2>3, Zenon DEF PolicyInv, Opened
  <2>5. alive' => net'.forward = None \/ table' = net' \/ candidate' = None
    BY <1>1, <1>4, <2>3, Zenon DEF PolicyInv, Opened
  <2>6. sealed' => \/ r.table.forward \in {c.iface, None}
                   \/ r.table = table
    BY <1>4, <2>2, <2>3, Zenon DEF Opened
  <2>7. P!ForwardingIsCurrent'
    BY <1>1, <1>4, <2>2, <2>6, Zenon DEF P!ForwardingIsCurrent, PolicyInv
  <2> QED BY <1>2, <2>2, <2>4, <2>5, <2>7, Zenon DEF PolicyInv
<1>5. Opened(table, net, c, [table |-> table, net |-> net, sealed |-> TRUE])
  BY Zenon DEF Opened
<1> HIDE DEF now
<1>6. \/ \E r \in P!Open(table, net, c) : r.ok /\ P!Load(r) /\ granted' = now
      \/ \E o \in {[table |-> table, net |-> net, sealed |-> TRUE]} \cup P!Open(table, net, c) :
         \E r \in P!Restrict(o.table, o.net, FALSE) :
            /\ table' = r.table /\ net' = r.net
            /\ sealed' = (sealed /\ o.sealed /\ r.sealed)
            /\ granted' = IF r.table.forward = c.iface THEN now ELSE granted
  BY Zenon DEF P!Commit, now
<1> QED BY <1>3, <1>4, <1>5, <1>6, OpenOutcomes, Zenon

\* A new ingress.
LEMMA RebindKeeps ==
  ASSUME PolicyInv, P!Rebind
  PROVE PolicyInv'
<1>1. P!Blocked(net.sources).forward = None
  BY Zenon DEF P!Blocked
<1>2. alive' = alive /\ candidate' = None
  BY Zenon DEF P!Rebind
<1>3. CASE table' = P!Blocked(net.sources) /\ net' = P!Blocked(net.sources) /\ UNCHANGED sealed
  BY <1>1, <1>2, <1>3, Zenon DEF PolicyInv, P!ForwardingIsCurrent
<1>4. CASE sealed' = FALSE
  BY <1>2, <1>4, Zenon DEF PolicyInv, P!ForwardingIsCurrent
<1> QED BY <1>3, <1>4, Zenon DEF P!Rebind

\* A worker starts or ends, or its parent resets.
LEMMA WorkerKeeps ==
  ASSUME PolicyInv, P!WorkerStarts \/ P!WorkerEnds \/ P!ParentReset \/ P!NamespaceEnds
  PROVE PolicyInv'
<1>1. CASE P!WorkerStarts
  <2>1. /\ table' = net' /\ table'.forward = None /\ candidate' = None
        /\ sealed' = TRUE /\ alive' = TRUE
    BY <1>1, Zenon DEF P!WorkerStarts, P!ArmGuard, P!Blocked
  <2> QED BY <2>1, Zenon DEF PolicyInv, P!ForwardingIsCurrent
<1>2. CASE P!WorkerEnds
  BY <1>2, Zenon DEF P!WorkerEnds, PolicyInv, P!ForwardingIsCurrent
<1>3. CASE P!ParentReset \/ P!NamespaceEnds
  BY <1>3 DEF P!ParentReset, P!NamespaceEnds, P!policy, PolicyInv, P!ForwardingIsCurrent
<1> QED BY <1>1, <1>2, <1>3, Zenon

\* The invariant of the forwarding verdict.
LEMMA PolicyInvHolds ==
  ASSUME PolicyConstants
  PROVE P!Spec => []PolicyInv
<1>1. P!Init => PolicyInv
  BY Zenon DEF P!Init, PolicyInv, P!ForwardingIsCurrent
<1>2. PolicyInv /\ [P!Next]_(P!vars) => PolicyInv'
  <2> SUFFICES ASSUME PolicyInv, [P!Next]_(P!vars) PROVE PolicyInv'
    BY Zenon
  <2>1. CASE UNCHANGED P!vars
    BY <2>1, ElsewhereKeeps, Zenon DEF P!vars, P!policy
  <2>2. ASSUME NEW t \in Tasks, NEW c \in Configs, P!StartBegin(t, c) \/ P!Commit(t, c)
        PROVE PolicyInv'
    BY <2>2, StartKeeps, CommitKeeps, Zenon
  <2>3. ASSUME NEW t \in Tasks, NEW c \in Configs, P!ProbeBegin(t, c) PROVE PolicyInv'
    BY <2>3, ElsewhereKeeps, Zenon DEF P!ProbeBegin, P!policy
  <2>4. ASSUME NEW t \in Tasks, P!StartTunnel(t) \/ P!StopTunnel(t) \/ P!ProbeObserve(t)
        PROVE PolicyInv'
    BY <2>4, ElsewhereKeeps, Zenon DEF P!StartTunnel, P!StopTunnel, P!ProbeObserve, P!policy
  <2>5. ASSUME NEW t \in Tasks, P!StartFailed(t) \/ P!ProbeApply(t) \/ P!ProbeCancel(t)
        PROVE PolicyInv'
    BY <2>5, StartFailedKeeps, ProbeKeeps, Zenon
  <2>6. ASSUME NEW t \in Tasks, NEW i \in P!Interfaces, NEW teardown \in BOOLEAN,
               P!StopBlock(t, i, teardown)
        PROVE PolicyInv'
    BY <2>6, StopKeeps, Zenon
  <2>7. CASE P!ProofAges
    BY <2>7, ElsewhereKeeps, Zenon DEF P!ProofAges
  <2>8. CASE P!Rebind \/ P!WorkerStarts \/ P!WorkerEnds \/ P!ParentReset \/ P!NamespaceEnds
    BY <2>8, RebindKeeps, WorkerKeeps, Zenon
  <2> QED BY <2>1, <2>2, <2>3, <2>4, <2>5, <2>6, <2>7, <2>8, Zenon DEF P!Next
<1> QED BY <1>1, <1>2, PTL DEF P!Spec

\* While no rewrite failed twice, the kernel forwards only for the candidate of
\* the current epoch (container_egress.py _start, probe, _committed, stop;
\* container_runtime.py restrict_provider).
THEOREM ForwardingStaysCurrent ==
  ASSUME PolicyConstants
  PROVE P!Spec => []P!ForwardingIsCurrent
<1>1. PolicyInv => P!ForwardingIsCurrent
  BY Zenon DEF PolicyInv
<1> QED BY <1>1, PolicyInvHolds, PTL

\* A connection that observe reports is forwarded by the kernel, also after
\* rewrites that failed twice.
THEOREM ConnectionsAreForwarded ==
  ASSUME PolicyConstants
  PROVE P!Spec => []P!ConnectedForwards
<1>1. PolicyInv => P!ConnectedForwards
  BY Zenon DEF PolicyInv, P!ConnectedForwards, PolicyConstants, P!Interfaces
<1> QED BY <1>1, PolicyInvHolds, PTL

-----------------------------------------------------------------------------
(* The guarded sources: every section keeps them, and a tunnel is started    *)
(* only after the section that guards its address.                           *)

Record(h) == h = [pc |-> h.pc, config |-> h.config, iface |-> h.iface, epoch |-> h.epoch]

SourceInv ==
  /\ link = [i \in P!Interfaces |-> link[i]]
  /\ task = [t \in Tasks |-> task[t]] /\ \A t \in Tasks : Record(task[t])
  /\ P!SourceGuarded
  /\ \A t \in Tasks : task[t].pc = "starting" =>
       /\ alive /\ task[t].config \in Configs
       /\ task[t].config.addr \in table.sources

\* No section takes a source from the table.
LEMMA SectionsKeepSources == [P!Next]_(P!vars) => P!KeepsSources \/ UNCHANGED P!vars
<1> SUFFICES ASSUME P!Next PROVE P!KeepsSources
  BY Zenon DEF P!KeepsSources
<1>1. ASSUME NEW r, Blocking(table, net, r), P!Load(r) PROVE P!KeepsSources
  BY <1>1, Zenon DEF Blocking, P!Load, P!KeepsSources
<1>2. ASSUME UNCHANGED table PROVE P!KeepsSources
  BY <1>2, Zenon DEF P!KeepsSources
<1>3. ASSUME NEW t \in Tasks, NEW c \in Configs, P!StartBegin(t, c) PROVE P!KeepsSources
  BY <1>1, <1>3, StartBlocks, Zenon DEF P!StartBegin
<1>4. ASSUME NEW t \in Tasks, NEW c \in Configs, P!Commit(t, c) PROVE P!KeepsSources
  <2>1. ASSUME NEW r \in P!Open(table, net, c), P!Load(r) PROVE P!KeepsSources
    BY <2>1, OpenOutcomes, Zenon DEF Opened, P!Load, P!KeepsSources
  <2>2. ASSUME NEW o, table.sources \subseteq o.table.sources,
               NEW r \in P!Restrict(o.table, o.net, FALSE), table' = r.table
        PROVE P!KeepsSources
    BY <2>2, RestrictBlocks, Zenon DEF Blocking, P!KeepsSources
  <2>3. \A o \in {[table |-> table, net |-> net, sealed |-> TRUE]} \cup P!Open(table, net, c) :
          table.sources \subseteq o.table.sources
    <3>1. ASSUME NEW o \in P!Open(table, net, c) PROVE table.sources \subseteq o.table.sources
      BY OpenOutcomes, Zenon DEF Opened
    <3>2. [table |-> table, net |-> net, sealed |-> TRUE].table = table
      BY Zenon
    <3> QED BY <3>1, <3>2, Zenon
  <2> QED BY <1>4, <2>1, <2>2, <2>3, Zenon DEF P!Commit
<1>5. ASSUME NEW t \in Tasks, P!StartFailed(t) \/ P!ProbeApply(t) \/ P!ProbeCancel(t)
      PROVE P!KeepsSources
  BY <1>1, <1>2, <1>5, RestrictBlocks, Zenon DEF P!StartFailed, P!ProbeApply, P!ProbeCancel
<1>6. ASSUME NEW t \in Tasks, NEW i \in P!Interfaces, NEW teardown \in BOOLEAN,
             P!StopBlock(t, i, teardown)
      PROVE P!KeepsSources
  BY <1>1, <1>2, <1>6, RestrictBlocks, Zenon DEF P!StopBlock
<1>7. CASE P!Rebind \/ P!WorkerStarts \/ P!ParentReset
  BY <1>7 DEF P!Rebind, P!WorkerStarts, P!ParentReset, P!ArmGuard, P!PreviousSources, P!Blocked,
     P!KeepsSources
<1>8. CASE P!NamespaceEnds
  BY <1>8, Zenon DEF P!KeepsSources
<1>9. ASSUME NEW t \in Tasks, NEW c \in Configs, P!ProbeBegin(t, c) PROVE P!KeepsSources
  BY <1>2, <1>9, Zenon DEF P!ProbeBegin
<1>10. CASE P!ProofAges \/ P!WorkerEnds
  BY <1>2, <1>10, Zenon DEF P!ProofAges, P!WorkerEnds
<1>11. ASSUME NEW t \in Tasks, P!StartTunnel(t) \/ P!StopTunnel(t) \/ P!ProbeObserve(t)
       PROVE P!KeepsSources
  BY <1>2, <1>11, Zenon DEF P!StartTunnel, P!StopTunnel, P!ProbeObserve
<1> QED BY <1>3, <1>4, <1>5, <1>6, <1>7, <1>8, <1>9, <1>10, <1>11, Zenon DEF P!Next

\* A step of one task.
LEMMA OneTask ==
  ASSUME SourceInv, NEW t \in Tasks, NEW v, task' = [task EXCEPT ![t] = v]
  PROVE task' = [u \in Tasks |-> task'[u]] /\ task'[t] = v
        /\ \A u \in Tasks \ {t} : task'[u] = task[u]
BY Zenon DEF SourceInv

\* A step of one task that keeps what it captured.
LEMMA OtherPlace ==
  ASSUME SourceInv, NEW t \in Tasks, NEW p \in {"failed", "ready", "unready"},
         task' = [task EXCEPT ![t].pc = p]
  PROVE /\ task' = [u \in Tasks |-> task'[u]] /\ Record(task'[t])
        /\ task'[t].pc # "starting"
        /\ \A u \in Tasks \ {t} : task'[u] = task[u]
<1> DEFINE h == [pc |-> p, config |-> task[t].config, iface |-> task[t].iface,
                 epoch |-> task[t].epoch]
<1>0. task[t] = [pc |-> task[t].pc, config |-> task[t].config, iface |-> task[t].iface,
                 epoch |-> task[t].epoch]
  BY Zenon DEF SourceInv, Record
<1>1. task' = [task EXCEPT ![t] = h]
  <2>1. [task[t] EXCEPT !.pc = p] = h
    BY <1>0
  <2>2. task' = [task EXCEPT ![t] = [task[t] EXCEPT !.pc = p]]
    BY Zenon
  <2> HIDE DEF h
  <2> QED BY <2>1, <2>2, Zenon
<1>2. h.pc # "starting" /\ Record(h)
  BY Zenon DEF Record
<1> HIDE DEF h
<1> QED BY <1>1, <1>2, OneTask, Zenon

\* Nothing is started and no interface comes up.
LEMMA QuietKeeps ==
  ASSUME SourceInv, P!KeepsSources, ~P!NamespaceEnds, alive' \/ ~alive,
         UNCHANGED link, task' = [u \in Tasks |-> task'[u]], \A u \in Tasks : Record(task'[u]),
         \A u \in Tasks : task'[u].pc = "starting" => task'[u] = task[u]
  PROVE SourceInv'
<1>1. table.sources \subseteq table'.sources
  BY Zenon DEF P!KeepsSources
<1>2. P!SourceGuarded'
  BY <1>1, Zenon DEF SourceInv, P!SourceGuarded
<1> QED BY <1>1, <1>2, Zenon DEF SourceInv

\* A start guards the address before the tunnel is brought up.
LEMMA StartKeepsGuard ==
  ASSUME SourceInv, P!KeepsSources, NEW t \in Tasks, NEW c \in Configs, P!StartBegin(t, c)
  PROVE SourceInv'
<1>1. PICK r \in P!BlockThenRegister(c) :
        /\ P!Load(r)
        /\ \/ /\ r.ok
              /\ task' = [task EXCEPT ![t] = [pc |-> "starting", config |-> c,
                                              iface |-> c.iface, epoch |-> epoch + 1]]
           \/ UNCHANGED task
  BY Zenon DEF P!StartBegin
<1>2. alive /\ alive' = alive /\ UNCHANGED link /\ ~P!NamespaceEnds
  BY Zenon DEF P!StartBegin, P!NamespaceEnds
<1>3. CASE UNCHANGED task
  BY <1>2, <1>3, QuietKeeps, Zenon DEF SourceInv
<1>4. CASE /\ r.ok
           /\ task' = [task EXCEPT ![t] = [pc |-> "starting", config |-> c,
                                           iface |-> c.iface, epoch |-> epoch + 1]]
  <2>1. c.addr \in table'.sources
    BY <1>1, <1>4, StartBlocks, Zenon DEF P!Load, Blocking, Kept, Closed
  <2>2. /\ task' = [u \in Tasks |-> task'[u]] /\ task'[t].config = c
        /\ \A u \in Tasks \ {t} : task'[u] = task[u]
        /\ Record(task'[t])
    BY <1>4, OneTask, Zenon DEF Record
  <2>3. table.sources \subseteq table'.sources
    BY <1>2, Zenon DEF P!KeepsSources
  <2>4. P!SourceGuarded'
    BY <1>2, <2>3, Zenon DEF SourceInv, P!SourceGuarded
  <2>5. ASSUME NEW u \in Tasks, task'[u].pc = "starting"
        PROVE alive' /\ task'[u].config \in Configs /\ task'[u].config.addr \in table'.sources
    BY <1>2, <2>1, <2>2, <2>3, <2>5, Zenon DEF SourceInv
  <2> QED BY <1>2, <2>2, <2>4, <2>5, Zenon DEF SourceInv
<1> QED BY <1>1, <1>3, <1>4, Zenon

\* The tunnel comes up with a guarded address, or goes.
LEMMA TunnelKeepsGuard ==
  ASSUME SourceInv, NEW t \in Tasks, P!StartTunnel(t) \/ P!StopTunnel(t)
  PROVE SourceInv'
<1>1. /\ UNCHANGED <<table, alive>> /\ task' = [u \in Tasks |-> task'[u]]
      /\ \A u \in Tasks \ {t} : task'[u] = task[u]
      /\ task'[t].pc # "starting" /\ Record(task'[t])
  <2>1. CASE task' = [task EXCEPT ![t] = P!Idle]
    BY <2>1, OneTask, Zenon DEF P!Idle, Record, P!StartTunnel, P!StopTunnel
  <2>2. CASE task' = [task EXCEPT ![t].pc = "failed"]
    BY <2>2, OtherPlace, Zenon DEF P!StartTunnel, P!StopTunnel
  <2> QED BY <2>1, <2>2, Zenon DEF P!StartTunnel, P!StopTunnel, P!Ends
<1>2. ASSUME NEW j, NEW v, link' = [link EXCEPT ![j] = v],
             v = None \/ (j \in P!Interfaces /\ v = link[j]) \/ v.addr \in table.sources
      PROVE SourceInv'
  <2>1. link' = [i \in P!Interfaces |-> link'[i]]
        /\ \A i \in P!Interfaces : link'[i] = link[i] \/ (i = j /\ link'[i] = v)
    BY <1>2, Zenon DEF SourceInv
  <2>2. P!SourceGuarded'
    BY <1>1, <1>2, <2>1, Zenon DEF SourceInv, P!SourceGuarded
  <2> QED BY <1>1, <2>1, <2>2, Zenon DEF SourceInv
<1>3. CASE P!StartTunnel(t)
  <2>1. task[t].config \in Configs /\ task[t].config.addr \in table.sources
        /\ task[t].config.iface \in P!Interfaces
    BY <1>3, Zenon DEF SourceInv, P!StartTunnel, P!Interfaces
  <2>2. \E v \in {None, link[task[t].config.iface], task[t].config} :
          link' = [link EXCEPT ![task[t].config.iface] = v]
    BY <1>3, Zenon DEF P!StartTunnel
  <2> QED BY <1>2, <2>1, <2>2, Zenon
<1>4. CASE P!StopTunnel(t)
  <2>1. \E v \in {None, link[task[t].iface]} : link' = [link EXCEPT ![task[t].iface] = v]
    BY <1>4, Zenon DEF P!StopTunnel, P!TeardownOutcomes
  <2>2. CASE task[t].iface \in P!Interfaces
    BY <1>2, <2>1, <2>2, Zenon
  <2>3. CASE task[t].iface \notin P!Interfaces
    <3>1. link' = link
      BY <2>1, <2>3, Zenon DEF SourceInv
    <3> QED BY <1>1, <3>1, Zenon DEF SourceInv, P!SourceGuarded
  <2> QED BY <2>2, <2>3, Zenon
<1> QED BY <1>3, <1>4, Zenon

\* Every step keeps the invariant of the sources.
LEMMA SourceInvStep ==
  ASSUME SourceInv, [P!Next]_(P!vars)
  PROVE SourceInv'
<1>1. CASE UNCHANGED P!vars
  BY <1>1, Zenon DEF P!vars, SourceInv, P!SourceGuarded, P!policy
<1> SUFFICES ASSUME P!Next PROVE SourceInv'
  BY <1>1, Zenon
<1>2. P!KeepsSources
  BY SectionsKeepSources, Zenon DEF P!KeepsSources, P!vars
<1>3. ASSUME NEW t \in Tasks, NEW c \in Configs, P!StartBegin(t, c) PROVE SourceInv'
  BY <1>2, <1>3, StartKeepsGuard, Zenon
<1>4. ASSUME NEW t \in Tasks, P!StartTunnel(t) \/ P!StopTunnel(t) PROVE SourceInv'
  BY <1>4, TunnelKeepsGuard, Zenon
<1>5. ASSUME NEW t \in Tasks, NEW h, Record(h), h.pc # "starting",
             task' = [task EXCEPT ![t] = h], UNCHANGED <<link, alive>>, alive
      PROVE SourceInv'
  <2>1. /\ task' = [u \in Tasks |-> task'[u]] /\ task'[t] = h
        /\ \A u \in Tasks \ {t} : task'[u] = task[u]
    BY <1>5, OneTask, Zenon
  <2>2. ~P!NamespaceEnds
    BY <1>5, Zenon DEF P!NamespaceEnds
  <2>3. \A u \in Tasks : Record(task'[u]) /\ (task'[u].pc = "starting" => task'[u] = task[u])
    BY <1>5, <2>1, Zenon DEF SourceInv
  <2> QED BY <1>2, <1>5, <2>1, <2>2, <2>3, QuietKeeps, Zenon
<1>6. Record(P!Idle) /\ P!Idle.pc # "starting"
  BY Zenon DEF P!Idle, Record
<1>7. ASSUME NEW t \in Tasks, P!StartFailed(t) \/ P!ProbeApply(t) \/ P!ProbeCancel(t)
      PROVE SourceInv'
  BY <1>5, <1>6, <1>7, Zenon DEF P!StartFailed, P!ProbeApply, P!ProbeCancel, P!Ends
<1>8. ASSUME NEW t \in Tasks, NEW c \in Configs, P!ProbeBegin(t, c) PROVE SourceInv'
  <2> DEFINE h == [pc |-> "probing", config |-> c, iface |-> c.iface, epoch |-> epoch]
  <2>1. Record(h) /\ h.pc # "starting"
    BY Zenon DEF Record
  <2>2. task' = [task EXCEPT ![t] = h] /\ UNCHANGED <<link, alive>> /\ alive
    BY <1>8, Zenon DEF P!ProbeBegin
  <2> HIDE DEF h
  <2> QED BY <1>5, <2>1, <2>2, Zenon
<1>9. ASSUME NEW t \in Tasks, P!ProbeObserve(t) PROVE SourceInv'
  <2>1. PICK p \in {"ready", "unready"} : task' = [task EXCEPT ![t].pc = p]
    BY <1>9, Zenon DEF P!ProbeObserve
  <2>2. UNCHANGED <<link, alive>> /\ alive /\ ~P!NamespaceEnds
    BY <1>9, Zenon DEF P!ProbeObserve, P!NamespaceEnds
  <2>3. /\ task' = [u \in Tasks |-> task'[u]] /\ Record(task'[t])
        /\ task'[t].pc # "starting"
        /\ \A u \in Tasks \ {t} : task'[u] = task[u]
    BY <2>1, OtherPlace, Zenon
  <2>4. \A u \in Tasks : Record(task'[u]) /\ (task'[u].pc = "starting" => task'[u] = task[u])
    BY <2>3, Zenon DEF SourceInv
  <2> QED BY <1>2, <2>2, <2>3, <2>4, QuietKeeps, Zenon
<1>10. ASSUME UNCHANGED <<task, link>>, ~P!NamespaceEnds, alive' \/ ~alive PROVE SourceInv'
  BY <1>2, <1>10, QuietKeeps, Zenon DEF SourceInv
<1>11. ASSUME NEW t \in Tasks, NEW i \in P!Interfaces, NEW teardown \in BOOLEAN,
              P!StopBlock(t, i, teardown)
       PROVE SourceInv'
  <2> DEFINE h == IF teardown THEN [P!Idle EXCEPT !.pc = "stopping", !.iface = i] ELSE P!Idle
  <2>1. Record(h) /\ h.pc # "starting"
    BY <1>6, Zenon DEF P!Idle, Record
  <2>2. alive /\ UNCHANGED <<link, alive>> /\ ~P!NamespaceEnds
        /\ (task' = [task EXCEPT ![t] = h] \/ UNCHANGED task)
    BY <1>11, Zenon DEF P!StopBlock, P!NamespaceEnds
  <2> HIDE DEF h
  <2> QED BY <1>5, <1>10, <2>1, <2>2, Zenon
<1>12. CASE P!Rebind \/ P!ProofAges \/ \E t \in Tasks, c \in Configs : P!Commit(t, c)
  BY <1>10, <1>12, Zenon DEF P!Rebind, P!ProofAges, P!Commit, P!NamespaceEnds
<1>13. CASE P!WorkerStarts
  BY <1>10, <1>13, Zenon DEF P!WorkerStarts, P!NamespaceEnds
<1>14. CASE P!WorkerEnds
  <2>1. /\ task' = [t \in Tasks |-> P!Idle] /\ UNCHANGED <<table, link>>
    BY <1>14, Zenon DEF P!WorkerEnds
  <2> QED BY <1>6, <2>1, Zenon DEF SourceInv, P!SourceGuarded
<1>15. CASE P!ParentReset \/ P!NamespaceEnds
  <2>1. ~alive /\ UNCHANGED <<task, alive>> /\ \A t \in Tasks : task[t].pc # "starting"
    BY <1>15, Zenon DEF P!ParentReset, P!NamespaceEnds, SourceInv
  <2>2. /\ link' = [i \in P!Interfaces |-> link'[i]]
        /\ \A i \in P!Interfaces : link'[i] = link[i] \/ link'[i] = None
    BY <1>15, Zenon DEF P!ParentReset, P!NamespaceEnds, SourceInv
  <2>3. \/ \A i \in P!Interfaces : link'[i] = None
        \/ table.sources \subseteq table'.sources
    BY <1>2, <1>15, <2>2, Zenon DEF P!KeepsSources, P!NamespaceEnds
  <2>4. P!SourceGuarded'
    BY <2>2, <2>3, Zenon DEF SourceInv, P!SourceGuarded
  <2> QED BY <2>1, <2>2, <2>4, Zenon DEF SourceInv
<1> QED BY <1>3, <1>4, <1>7, <1>8, <1>9, <1>11, <1>12, <1>13, <1>14, <1>15, Zenon DEF P!Next

\* A provider interface that is up has its address guarded, whatever failed on
\* the way there (register_source runs before the address is assigned).
THEOREM SourcesAreGuarded == P!Spec => []P!SourceGuarded
<1>1. P!Init => SourceInv
  BY DEF P!Init, SourceInv, P!SourceGuarded, Record, P!Idle
<1>2. SourceInv /\ [P!Next]_(P!vars) => SourceInv'
  BY SourceInvStep, Zenon
<1>3. SourceInv => P!SourceGuarded
  BY Zenon DEF SourceInv
<1> QED BY <1>1, <1>2, <1>3, PTL DEF P!Spec

\* A guarded source stays guarded through failed rewrites, worker deaths and
\* resets, until the namespace ends.
THEOREM SourcesStay == P!Spec => [][P!KeepsSources]_(P!vars)
BY SectionsKeepSources, PTL DEF P!Spec
===============================================================================
