----------------------------- MODULE ProgressProofs -----------------------------
(***************************************************************************)
(* How far a conversion has come, for the proofs that compare the graph at *)
(* the end with what the input calls for.  Such a property says nothing    *)
(* before the end: the invariant behind it says the same of the part of    *)
(* the input whose turn is over, that is of the rules that have begun and  *)
(* of the annotations that have been handled, in whatever order, for each  *)
(* of them.                                                                *)
(*                                                                         *)
(* Every handler of a provider adds its own annotation, for the current    *)
(* rule, to the handled ones and nothing else; the steps of the engine add *)
(* nothing; and at the end nothing is missing.                             *)
(*                                                                         *)
(* Then what the two providers share about the rules of routes: the        *)
(* backends of an Ingress, rule by rule, in the list of its route; where   *)
(* in the graph that route is; and the services its rules send traffic to. *)
(***************************************************************************)
EXTENDS OutcomeProofs, SequenceTheorems, WellFoundedInduction

HostOf(nn, i) == Ingress(nn).rules[i].host

(* Rule i of nn has begun.                                                  *)
Begun(nn, i) ==
  /\ nn \in Ingresses \ todo
  /\ InTurn /\ nn = cur => i < rule \/ (i = rule /\ phase = "annotations")

(* The turn of annotation k of nn for its rule i is over.                   *)
Over(nn, i, k) ==
  /\ nn \in Ingresses \ todo
  /\ InTurn /\ nn = cur => i < rule \/ (i = rule /\ phase = "annotations" /\ k \notin pending)

(* The Ingresses whose annotation k has been handled for the route of name  *)
(* n, and the values they gave.                                             *)
Askers(n, k) ==
  {nn \in Ingresses : /\ HasAnnotation(nn, k)
                      /\ \E i \in ActiveRules(nn) : Over(nn, i, k) /\ n = RouteNN(nn, HostOf(nn, i))}

Asked(n, k) == {AnnotationOf(nn, k) : nn \in Askers(n, k)}

(* The names of the routes of the Ingresses.                                *)
RouteNNs == {PairNN(p) : p \in ActivePairs}

(* Annotations are handled for rules with an HTTP section; Convert does not *)
(* return early; the Ingresses come in the order of their names; and the    *)
(* routes are those of the rules that have begun, each under its name.      *)
ProgressInv ==
  /\ phase = "annotations" => rule \in ActiveRules(cur)
  /\ phase = "done" => todo = {}
  /\ InTurn => cur \notin todo
  /\ \A m \in Ingresses \ todo : /\ \A nn \in todo : NNLess(m, nn)
                                 /\ InTurn /\ m # cur => NNLess(m, cur)
  /\ \A id \in DOMAIN routes : id.ing \in Ingresses =>
       /\ routes[id].nn = RouteNN(id.ing, id.host)
       /\ \E i \in DOMAIN Ingress(id.ing).rules :
            Begun(id.ing, i) /\ id = RouteId(id.ing, HostOf(id.ing, i))
  /\ \A nn \in Ingresses : \A i \in DOMAIN Ingress(nn).rules :
       Begun(nn, i) => RouteId(nn, HostOf(nn, i)) \in DOMAIN routes
-----------------------------------------------------------------------------
(* Lists, and the backends of a host.                                        *)

(* A set of numbers that is not empty has a least one: what induction rests *)
(* on.                                                                      *)
LEMMA LeastNumber ==
  ASSUME NEW T \in SUBSET Nat, T # {}
  PROVE  \E n \in T : \A m \in T : n <= m
<1>1. PICK n \in T : \A m \in T : <<m, n>> \notin OpToRel(<, Nat)
  BY NatLessThanWellFounded, WFMin
<1>2. \A m \in T : ~(m < n)
  BY <1>1 DEF OpToRel
<1> QED
  BY <1>2

(* A list is numbered from one.                                             *)
LEMMA ListDomain ==
  ASSUME NEW s, IsList(s)
  PROVE  Len(s) \in Nat /\ DOMAIN s = 1 .. Len(s)
BY LenProperties DEF IsList

(* A function on the first numbers is a list.                               *)
LEMMA ListMade ==
  ASSUME NEW n \in Nat, NEW s, DOMAIN s = 1 .. n, s = [i \in 1 .. n |-> s[i]]
  PROVE  IsList(s) /\ Len(s) = n
BY DEF IsList
(* One list behind another is a list, with the entries of both.             *)
LEMMA ListConcat ==
  ASSUME NEW s, NEW t, IsList(s), IsList(t)
  PROVE  /\ IsList(s \o t)
         /\ Len(s \o t) = Len(s) + Len(t)
         /\ DOMAIN (s \o t) = 1 .. Len(s) + Len(t)
         /\ \A i \in 1 .. Len(s) : (s \o t)[i] = s[i]
         /\ \A i \in 1 .. Len(t) : (s \o t)[Len(s) + i] = t[i]
         /\ \A i \in DOMAIN (s \o t) :
              i \in DOMAIN s \/ (~(i <= Len(s)) /\ i - Len(s) \in DOMAIN t)
<1> DEFINE A == {s[i] : i \in DOMAIN s} \union {t[i] : i \in DOMAIN t}
           u == s \o t
<1>1. s \in Seq(A) /\ t \in Seq(A)
  <2>1. s \in Seq({s[i] : i \in DOMAIN s}) /\ t \in Seq({t[i] : i \in DOMAIN t})
    BY DEF IsList
  <2> QED
    BY <2>1
<1>2. Len(s) \in Nat /\ DOMAIN s = 1 .. Len(s) /\ Len(t) \in Nat /\ DOMAIN t = 1 .. Len(t)
  BY ListDomain
<1> HIDE DEF A
<1>3. /\ u \in Seq(A) /\ Len(u) = Len(s) + Len(t)
      /\ \A i \in 1 .. Len(s) + Len(t) : u[i] = IF i <= Len(s) THEN s[i] ELSE t[i - Len(s)]
  BY <1>1, ConcatProperties
<1>4. DOMAIN u = 1 .. Len(s) + Len(t)
  BY <1>3, LenProperties
<1> HIDE DEF u
<1>5. IsList(u)
  <2>1. u = [i \in DOMAIN u |-> u[i]]
    BY <1>3
  <2> QED
    BY <1>2, <1>4, <2>1, ListMade
<1> QED
  BY <1>2, <1>3, <1>4, <1>5 DEF u


(* A finite set of numbers can be counted off: every position in its order  *)
(* is taken by exactly one of them.                                         *)
LEMMA CountedOff ==
  ASSUME NEW S, IsFiniteSet(S), S \subseteq Nat
  PROVE  /\ \A h \in S : Cardinality({g \in S : g <= h}) \in 1 .. Cardinality(S)
         /\ \A h, g \in S : Cardinality({x \in S : x <= h}) = Cardinality({x \in S : x <= g})
                             => h = g
         /\ \A i \in 1 .. Cardinality(S) : \E h \in S : Cardinality({g \in S : g <= h}) = i
<1> DEFINE upTo(h) == {g \in S : g <= h}
           n == Cardinality(S)
           f == [h \in S |-> Cardinality(upTo(h))]
<1>1. n \in Nat
  BY FS_CardinalityType
<1>2. ASSUME NEW h \in S
      PROVE  /\ IsFiniteSet(upTo(h)) /\ Cardinality(upTo(h)) \in 1 .. n
    <2>1. IsFiniteSet(upTo(h)) /\ Cardinality(upTo(h)) <= n
      BY FS_Subset
    <2>2. Cardinality(upTo(h)) \in Nat
      BY <2>1, FS_CardinalityType
    <2>3. h \in upTo(h)
      OBVIOUS
    <2>4. Cardinality(upTo(h)) # 0
      BY <2>1, <2>3, FS_EmptySet
    <2> HIDE DEF upTo, n
    <2> QED
      BY <1>1, <2>1, <2>2, <2>4
<1>3. ASSUME NEW h \in S, NEW g \in S, h < g
      PROVE  Cardinality(upTo(h)) # Cardinality(upTo(g))
  <2>1. upTo(h) \in SUBSET upTo(g) /\ g \in upTo(g) /\ g \notin upTo(h)
    <3>1. h \in Nat /\ g \in Nat /\ ~(g <= h)
      BY <1>3
    <3>2. \A x \in S : x <= h => x <= g
      BY <1>3, <3>1
    <3>3. g <= g
      BY <3>1
    <3>4. upTo(h) \subseteq upTo(g)
      BY <3>2
    <3>5. g \in upTo(g)
      BY <3>3
    <3>6. g \notin upTo(h)
      BY <3>1
    <3> HIDE DEF upTo
    <3> QED
      BY <3>4, <3>5, <3>6
  <2>2. upTo(h) # upTo(g)
    BY <2>1
  <2> HIDE DEF upTo
  <2> QED
    BY <1>2, <2>1, <2>2, FS_Subset
<1>4. \A h, g \in S : Cardinality(upTo(h)) = Cardinality(upTo(g)) => h = g
  <2>1. \A h, g \in S : h < g \/ g < h \/ h = g
    OBVIOUS
  <2> HIDE DEF upTo
  <2> QED
    BY <1>3, <2>1
<1>5. \A i \in 1 .. n : \E h \in S : Cardinality(upTo(h)) = i
  <2> HIDE DEF upTo, n
  <2>1. f \in Injection(S, 1 .. n)
    BY <1>2, <1>4 DEF Injection, IsInjective
  <2>2. IsFiniteSet(1 .. n) /\ Cardinality(1 .. n) = n
    BY <1>1, FS_Interval
  <2>3. Cardinality(S) = Cardinality(1 .. n)
    BY <2>2 DEF n
  <2>4. f \in Surjection(S, 1 .. n)
    BY <2>1, <2>2, <2>3, FS_Injection
  <2> QED
    BY <2>4 DEF Surjection
<1> QED
  BY <1>2, <1>4, <1>5

(* What a loop collects from a list, in terms of the positions kept.        *)
LEMMA SubListMade ==
  ASSUME NEW list, IsList(list), NEW kept, kept \subseteq DOMAIN list
  PROVE  LET s == SubList(list, kept)
         IN  /\ IsList(s)
             /\ \A i \in DOMAIN s : \E j \in kept : s[i] = list[j]
<1> DEFINE s == SubList(list, kept)
           n == Cardinality(kept)
<1>1. kept \subseteq Nat /\ IsFiniteSet(kept) /\ n \in Nat
  <2>1. PICK m \in Nat : DOMAIN list = 1 .. m
    BY ListDomain
  <2>2. IsFiniteSet(1 .. m)
    BY <2>1, FS_Interval
  <2>3. kept \subseteq Nat
    BY <2>1
  <2> QED
    BY <2>1, <2>2, <2>3, FS_Subset, FS_CardinalityType
<1>2. \A i \in 1 .. n : Nth(kept, i) \in kept
  BY <1>1, CountedOff DEF Nth
<1>3. DOMAIN s = 1 .. n /\ s = [i \in 1 .. n |-> s[i]]
      /\ \A i \in 1 .. n : s[i] = list[Nth(kept, i)]
  BY DEF SubList
<1> HIDE DEF s, n
<1> QED
  BY <1>1, <1>2, <1>3, ListMade DEF s

(* The recursion over the parts of a list has a solution.                   *)
LEMMA ConcatenationsExist ==
  ASSUME NEW L \in Nat, NEW b
  PROVE  \E f : f = [n \in 0 .. L |-> IF n = 0 THEN <<>> ELSE f[n - 1] \o b[n]]
<1> DEFINE solves(f, l) == f = [n \in 0 .. l |-> IF n = 0 THEN <<>> ELSE f[n - 1] \o b[n]]
           bad == {l \in Nat : \A f : ~solves(f, l)}
<1>1. ASSUME bad # {}
      PROVE  FALSE
  <2>1. PICK l \in bad : \A m \in bad : l <= m
    <3>1. bad \in SUBSET Nat
      OBVIOUS
    <3> HIDE DEF bad
    <3> QED
      BY <1>1, <3>1, LeastNumber
  <2>2. CASE l = 0
    <3> DEFINE f == [n \in 0 .. 0 |-> <<>>]
    <3>1. f = [n \in 0 .. 0 |-> IF n = 0 THEN <<>> ELSE f[n - 1] \o b[n]]
      OBVIOUS
    <3>2. solves(f, l)
      BY <2>2, <3>1
    <3> QED
      BY <2>1, <3>2
  <2>3. CASE l # 0
    <3>1. l \in Nat /\ l - 1 \in Nat /\ ~(l <= l - 1)
      BY <2>3
    <3>2. l - 1 \notin bad
      BY <2>1, <3>1
    <3>3. PICK f : solves(f, l - 1)
      BY <3>1, <3>2
    <3> DEFINE g == [n \in 0 .. l |-> IF n = l THEN f[l - 1] \o b[l] ELSE f[n]]
    <3>4. ASSUME NEW n \in 0 .. l
          PROVE  g[n] = IF n = 0 THEN <<>> ELSE g[n - 1] \o b[n]
      <4>1. CASE n = l
        <5>1. g[n] = f[l - 1] \o b[l] /\ g[n - 1] = f[n - 1]
          BY <3>1, <4>1
        <5> QED
          BY <2>3, <4>1, <5>1
      <4>2. CASE n # l
        <5>1. n \in 0 .. (l - 1) /\ g[n] = f[n]
          BY <3>1, <4>2
        <5>2. n # 0 => n - 1 \in 0 .. l /\ n - 1 # l
          BY <3>1, <5>1
        <5>3. n # 0 => g[n - 1] = f[n - 1]
          BY <5>2
        <5>4. f[n] = IF n = 0 THEN <<>> ELSE f[n - 1] \o b[n]
          BY <3>3, <5>1
        <5> QED
          BY <5>1, <5>3, <5>4
      <4> QED
        BY <4>1, <4>2
    <3>5. g = [n \in 0 .. l |-> g[n]]
      OBVIOUS
    <3> HIDE DEF g
    <3>6. solves(g, l)
      BY <3>4, <3>5
    <3> QED
      BY <2>1, <3>6
  <2> QED
    BY <2>2, <2>3
<1> QED
  BY <1>1

(* What the recursive definition of the backends of a host computes, step   *)
(* by step.                                                                 *)
LEMMA BackendsStep ==
  ASSUME NEW nn, NEW host, Len(Ingress(nn).rules) \in Nat
  PROVE  LET f == BackendsUpTo(nn, host)
         IN  /\ f[0] = <<>>
             /\ \A n \in 1 .. Len(Ingress(nn).rules) : f[n] = f[n - 1] \o BackendsOf(nn, host, n)
<1> DEFINE L == Len(Ingress(nn).rules)
           b == [n \in 1 .. L |-> BackendsOf(nn, host, n)]
           f == BackendsUpTo(nn, host)
<1>1. PICK g : g = [n \in 0 .. L |-> IF n = 0 THEN <<>> ELSE g[n - 1] \o b[n]]
  BY ConcatenationsExist
<1>2. g = [n \in 0 .. L |-> IF n = 0 THEN <<>> ELSE g[n - 1] \o BackendsOf(nn, host, n)]
  <2>1. \A n \in 0 .. L : n # 0 => b[n] = BackendsOf(nn, host, n)
    OBVIOUS
  <2> HIDE DEF b
  <2> QED
    BY <1>1, <2>1
<1>3. f = CHOOSE u : u = [n \in 0 .. L |-> IF n = 0 THEN <<>> ELSE u[n - 1] \o BackendsOf(nn, host, n)]
  BY Zenon DEF BackendsUpTo
<1>4. f = [n \in 0 .. L |-> IF n = 0 THEN <<>> ELSE f[n - 1] \o BackendsOf(nn, host, n)]
  <2> HIDE DEF f, L
  <2> QED
    BY <1>2, <1>3, Zenon
<1> HIDE DEF f
<1>5. \A n \in 0 .. L : f[n] = IF n = 0 THEN <<>> ELSE f[n - 1] \o BackendsOf(nn, host, n)
  BY <1>4
<1>6. f[0] = <<>>
  BY <1>5
<1>7. ASSUME NEW n \in 1 .. L
      PROVE  f[n] = f[n - 1] \o BackendsOf(nn, host, n)
  <2>1. n \in 0 .. L /\ n # 0
    OBVIOUS
  <2> QED
    BY <1>5, <2>1
<1> QED
  BY <1>6, <1>7 DEF f


(* The rules of an Ingress that the tool may be given are numbered from one.*)
LEMMA RulesNumbered ==
  ASSUME input \in Inputs, NEW nn \in Ingresses
  PROVE  /\ Len(Ingress(nn).rules) \in Nat
         /\ DOMAIN Ingress(nn).rules = 1 .. Len(Ingress(nn).rules)
         /\ ActiveRules(nn) \subseteq DOMAIN Ingress(nn).rules
<1>1. PICK S : Ingress(nn).rules \in Seq(S)
  BY RulesAssumption DEF Ingresses, Ingress, IsList
<1> QED
  BY <1>1, LenProperties DEF ActiveRules

(* The backends of a rule are paths of it with a service.                   *)
LEMMA BackendsOfRule ==
  ASSUME input \in Inputs, NEW nn \in Ingresses, NEW host,
         NEW n \in DOMAIN Ingress(nn).rules
  PROVE  LET part  == BackendsOf(nn, host, n)
             paths == Ingress(nn).rules[n].paths
         IN  /\ IsList(part)
             /\ \A i \in DOMAIN part : \E j \in DOMAIN paths :
                  part[i] = paths[j] /\ paths[j].kind = "service"
             /\ DOMAIN part # {} => n \in ActiveRules(nn) /\ Ingress(nn).rules[n].host = host
<1> DEFINE paths == Ingress(nn).rules[n].paths
           kept  == {i \in DOMAIN paths : HasService(paths[i])}
           part  == BackendsOf(nn, host, n)
<1>1. CASE n \in ActiveRules(nn) /\ Ingress(nn).rules[n].host = host
  <2>1. part = SubList(paths, kept)
    BY <1>1 DEF BackendsOf
  <2>2. IsList(paths)
    BY RulesAssumption DEF Ingresses, Ingress
  <2>3. kept \subseteq DOMAIN paths /\ \A j \in kept : paths[j].kind = "service"
    BY DEF HasService
  <2> HIDE DEF paths, kept, part
  <2>4. IsList(part) /\ \A i \in DOMAIN part : \E j \in kept : part[i] = paths[j]
    BY <2>1, <2>2, <2>3, SubListMade
  <2> QED
    BY <1>1, <2>3, <2>4 DEF paths, part
<1>2. CASE ~(n \in ActiveRules(nn) /\ Ingress(nn).rules[n].host = host)
  <2>1. part = <<>>
    BY <1>2 DEF BackendsOf
  <2>2. IsList(part) /\ DOMAIN part = {}
    BY <2>1 DEF IsList
  <2> HIDE DEF part
  <2> QED
    BY <2>2 DEF part
<1> QED
  BY <1>1, <1>2

(* Lists with the same positions are of the same length.                    *)
LEMMA SameLength ==
  ASSUME NEW n \in Nat, NEW m \in Nat, 1 .. n = 1 .. m
  PROVE  n = m
<1>1. \A k \in Int : k \in 1 .. n <=> k \in 1 .. m
  OBVIOUS
<1>2. (1 <= n => n <= m) /\ (1 <= m => m <= n)
  BY <1>1
<1> QED
  BY <1>2

(* One rule more makes the list longer, and changes nothing of it.          *)
LEMMA ListGrows ==
  ASSUME NEW s, NEW t, IsList(s), IsList(t), NEW u, u = s \o t
  PROVE  /\ IsList(u)
         /\ \A i \in DOMAIN s : i \in DOMAIN u /\ u[i] = s[i]
         /\ \A i \in DOMAIN u : i \notin DOMAIN s =>
              i - Len(s) \in DOMAIN t /\ u[i] = t[i - Len(s)]
<1>1. /\ Len(s) \in Nat /\ DOMAIN s = 1 .. Len(s) /\ Len(t) \in Nat /\ DOMAIN t = 1 .. Len(t)
  BY ListDomain
<1>2. /\ IsList(u) /\ DOMAIN u = 1 .. Len(s) + Len(t)
      /\ \A i \in 1 .. Len(s) : u[i] = s[i]
      /\ \A i \in 1 .. Len(t) : u[Len(s) + i] = t[i]
      /\ \A i \in DOMAIN u : i \in DOMAIN s \/ (~(i <= Len(s)) /\ i - Len(s) \in DOMAIN t)
  BY ListConcat
<1>3. ASSUME NEW i \in DOMAIN u, i \notin DOMAIN s
      PROVE  i - Len(s) \in DOMAIN t /\ u[i] = t[i - Len(s)]
  <2>1. i \in Int /\ i - Len(s) \in DOMAIN t
    BY <1>1, <1>2, <1>3
  <2>2. Len(s) + (i - Len(s)) = i
    BY <1>1, <2>1
  <2> QED
    BY <1>1, <1>2, <2>1, <2>2
<1>4. \A i \in DOMAIN s : i \in DOMAIN u /\ u[i] = s[i]
  BY <1>1, <1>2
<1> QED
  BY <1>2, <1>3, <1>4

(* The backends of a host, rule by rule, are a list.                        *)
LEMMA BackendsList ==
  ASSUME input \in Inputs, NEW nn \in Ingresses, NEW host
  PROVE  \A n \in 0 .. Len(Ingress(nn).rules) : IsList(BackendsUpTo(nn, host)[n])
<1> DEFINE L == Len(Ingress(nn).rules)
           f == BackendsUpTo(nn, host)
           bad == {n \in 0 .. L : ~IsList(f[n])}
<1>1. /\ L \in Nat /\ DOMAIN Ingress(nn).rules = 1 .. L
      /\ f[0] = <<>> /\ \A n \in 1 .. L : f[n] = f[n - 1] \o BackendsOf(nn, host, n)
  BY RulesNumbered, BackendsStep
<1> HIDE DEF L, f
<1>2. ASSUME bad # {}
      PROVE  FALSE
  <2>1. PICK n \in bad : \A m \in bad : n <= m
    <3>1. bad \in SUBSET Nat
      BY <1>1
    <3> HIDE DEF bad
    <3> QED
      BY <1>2, <3>1, LeastNumber
  <2>2. n \in 0 .. L /\ ~IsList(f[n])
    BY <2>1
  <2>3. n # 0
    <3>1. IsList(<<>>)
      BY DEF IsList
    <3> QED
      BY <1>1, <2>2, <3>1
  <2>4. n \in 1 .. L /\ n - 1 \in 0 .. L /\ ~(n <= n - 1)
    BY <1>1, <2>2, <2>3
  <2>5. IsList(f[n - 1])
    BY <2>1, <2>4
  <2>6. IsList(BackendsOf(nn, host, n))
    BY <1>1, <2>4, BackendsOfRule
  <2>7. f[n] = f[n - 1] \o BackendsOf(nn, host, n)
    BY <1>1, <2>4
  <2>8. PICK s, t : s = f[n - 1] /\ t = BackendsOf(nn, host, n)
    OBVIOUS
  <2>9. IsList(s \o t)
    BY <2>5, <2>6, <2>8, ListConcat
  <2> QED
    BY <2>2, <2>7, <2>8, <2>9
<1> QED
  BY <1>2 DEF L, f

(* It only grows.                                                           *)
LEMMA BackendsGrow ==
  ASSUME input \in Inputs, NEW nn \in Ingresses, NEW host
  PROVE  LET f == BackendsUpTo(nn, host)
         IN  \A n \in 0 .. Len(Ingress(nn).rules) : \A m \in 0 .. n : \A i \in DOMAIN f[m] :
               i \in DOMAIN f[n] /\ f[n][i] = f[m][i]
<1> DEFINE L == Len(Ingress(nn).rules)
           f == BackendsUpTo(nn, host)
           good(n) == \A m \in 0 .. n : \A i \in DOMAIN f[m] : i \in DOMAIN f[n] /\ f[n][i] = f[m][i]
           bad == {n \in 0 .. L : ~good(n)}
<1>1. /\ L \in Nat /\ DOMAIN Ingress(nn).rules = 1 .. L
      /\ \A n \in 1 .. L : f[n] = f[n - 1] \o BackendsOf(nn, host, n)
      /\ \A n \in 0 .. L : IsList(f[n])
  BY RulesNumbered, BackendsStep, BackendsList
<1> HIDE DEF L, f
<1>2. ASSUME bad # {}
      PROVE  FALSE
  <2>1. PICK n \in bad : \A m \in bad : n <= m
    <3>1. bad \in SUBSET Nat
      BY <1>1
    <3> HIDE DEF bad
    <3> QED
      BY <1>2, <3>1, LeastNumber
  <2>2. n \in 0 .. L /\ ~good(n)
    BY <2>1
  <2>3. n # 0
    <3>1. good(0)
      OBVIOUS
    <3> HIDE DEF good
    <3> QED
      BY <2>2, <3>1
  <2>4. n \in 1 .. L /\ n - 1 \in 0 .. L /\ ~(n <= n - 1) /\ 0 .. n = 0 .. (n - 1) \union {n}
    BY <1>1, <2>2, <2>3
  <2>5. good(n - 1)
    <3> HIDE DEF good
    <3> QED
      BY <2>1, <2>4
  <2>6. \A i \in DOMAIN f[n - 1] : i \in DOMAIN f[n] /\ f[n][i] = f[n - 1][i]
    <3>1. IsList(BackendsOf(nn, host, n))
      BY <1>1, <2>4, BackendsOfRule
    <3>2. f[n] = f[n - 1] \o BackendsOf(nn, host, n) /\ IsList(f[n - 1])
      BY <1>1, <2>4
    <3> QED
      BY <3>1, <3>2, ListGrows
  <2>7. good(n)
    BY <2>4, <2>5, <2>6
  <2> HIDE DEF good
  <2> QED
    BY <2>2, <2>7
<1> QED
  BY <1>2 DEF L, f

(* Each of its entries is there since a rule of the host with an HTTP       *)
(* section, and is a path of that rule with a service.                      *)
LEMMA BackendsDeclared ==
  ASSUME input \in Inputs, NEW nn \in Ingresses, NEW host,
         NEW n \in 0 .. Len(Ingress(nn).rules), NEW i \in DOMAIN BackendsUpTo(nn, host)[n]
  PROVE  LET f == BackendsUpTo(nn, host)
         IN  \E m \in ActiveRules(nn) :
               /\ m \in 1 .. n /\ HostOf(nn, m) = host /\ i \in DOMAIN f[m]
               /\ \E j \in DOMAIN Ingress(nn).rules[m].paths :
                    /\ f[n][i] = Ingress(nn).rules[m].paths[j]
                    /\ Ingress(nn).rules[m].paths[j].kind = "service"
<1> DEFINE L == Len(Ingress(nn).rules)
           f == BackendsUpTo(nn, host)
           b(m) == BackendsOf(nn, host, m)
           has == {m \in 0 .. n : i \in DOMAIN f[m]}
<1>1. /\ L \in Nat /\ DOMAIN Ingress(nn).rules = 1 .. L
      /\ f[0] = <<>> /\ \A m \in 1 .. L : f[m] = f[m - 1] \o b(m)
      /\ \A m \in 0 .. L : IsList(f[m])
      /\ \A m \in 0 .. n : \A x \in DOMAIN f[m] : x \in DOMAIN f[n] /\ f[n][x] = f[m][x]
      /\ \A m \in 1 .. L : /\ IsList(b(m))
                           /\ \A x \in DOMAIN b(m) : \E j \in DOMAIN Ingress(nn).rules[m].paths :
                                /\ b(m)[x] = Ingress(nn).rules[m].paths[j]
                                /\ Ingress(nn).rules[m].paths[j].kind = "service"
                           /\ DOMAIN b(m) # {} => m \in ActiveRules(nn) /\ HostOf(nn, m) = host
  BY RulesNumbered, BackendsStep, BackendsList, BackendsGrow, BackendsOfRule DEF HostOf
<1>2. n \in 0 .. L /\ n \in Nat /\ i \in DOMAIN f[n]
  BY <1>1
<1> HIDE DEF L, f, b
<1>3. PICK m \in has : \A x \in has : m <= x
  <2>1. has \in SUBSET Nat /\ n \in has
    BY <1>2
  <2> HIDE DEF has
  <2> QED
    BY <2>1, LeastNumber
<1>4. m \in 0 .. n /\ i \in DOMAIN f[m]
  BY <1>3
<1>5. m # 0
  BY <1>1, <1>4
<1>6. m \in 1 .. n /\ m \in 1 .. L /\ m - 1 \in 0 .. n /\ m - 1 \in 0 .. L /\ ~(m <= m - 1)
  BY <1>1, <1>2, <1>4, <1>5
<1>7. i \notin DOMAIN f[m - 1]
  BY <1>3, <1>6
<1>8. i - Len(f[m - 1]) \in DOMAIN b(m) /\ f[m][i] = b(m)[i - Len(f[m - 1])]
  <2>1. f[m] = f[m - 1] \o b(m) /\ IsList(f[m - 1]) /\ IsList(b(m))
    BY <1>1, <1>6
  <2> QED
    BY <1>4, <1>7, <2>1, ListGrows
<1>9. f[n][i] = f[m][i]
  BY <1>1, <1>4
<1>10. m \in ActiveRules(nn) /\ HostOf(nn, m) = host
  BY <1>1, <1>6, <1>8
<1>11. \E j \in DOMAIN Ingress(nn).rules[m].paths :
         /\ f[n][i] = Ingress(nn).rules[m].paths[j]
         /\ Ingress(nn).rules[m].paths[j].kind = "service"
  BY <1>1, <1>6, <1>8, <1>9
<1> QED
  BY <1>4, <1>6, <1>10, <1>11 DEF f

-----------------------------------------------------------------------------
(* Handlers.                                                                 *)

(* No handler renames a route or allocates another one than the redirect    *)
(* route.                                                                   *)
RoutesKept ==
  /\ NamesKept
  /\ \A id \in DOMAIN routes' : id \in DOMAIN routes \/ id = RedirectId

(* The redirect route is nobody's own.                                      *)
LEMMA RedirectIsNobodys ==
  ASSUME IInv
  PROVE  RedirectId.ing \notin Ingresses
<1>1. NoIngress \notin Ingresses
  BY InputsAssumption DEF IInv, TypeOK, ProgressOK, Ingresses, NoIngress
<1> QED
  BY <1>1 DEF RedirectId, RouteId

(* The current route has the name of the current rule.                      *)
LEMMA CurrentRoute ==
  ASSUME IInv, ProgressInv, phase = "annotations"
  PROVE  /\ cur \in Ingresses /\ rule \in ActiveRules(cur) /\ ThisRouteId \in DOMAIN routes
         /\ ThisRouteId = RouteId(cur, HostOf(cur, rule))
         /\ ThisRoute.nn = RouteNN(cur, HostOf(cur, rule))
         /\ ThisRoute.nn \in RouteNNs
<1>1. cur \in Ingresses /\ rule \in ActiveRules(cur) /\ ThisRouteId \in DOMAIN routes
  BY DEF IInv, TypeOK, ProgressOK, ProgressInv
<1>2. ThisRouteId = RouteId(cur, HostOf(cur, rule))
  BY DEF ThisRouteId, HostOf, This
<1>3. ThisRouteId.ing = cur /\ ThisRouteId.host = HostOf(cur, rule)
  BY <1>2 DEF RouteId
<1>4. ThisRoute.nn = RouteNN(cur, HostOf(cur, rule))
  BY <1>1, <1>3 DEF ProgressInv, ThisRoute
<1>5. <<cur, HostOf(cur, rule)>> \in ActivePairs
  BY <1>1 DEF ActivePairs, ActiveHosts, HostOf
<1>6. RouteNN(cur, HostOf(cur, rule)) = PairNN(<<cur, HostOf(cur, rule)>>)
  BY DEF PairNN
<1> QED
  BY <1>1, <1>2, <1>4, <1>5, <1>6 DEF RouteNNs

(* What a handler adds to the handled annotations is its own.               *)
LEMMA HandlerProgress ==
  ASSUME IInv, ProgressInv, NEW k, NEW a, NEW err, Take(k), Finish(k, a, err), RoutesKept
  PROVE  /\ ProgressInv'
         /\ \A nn \in Ingresses : \A i \in ActiveRules(nn) : \A j :
              Over(nn, i, j)' <=> Over(nn, i, j) \/ (nn = cur /\ i = rule /\ j = k)
         /\ \A n, j : Askers(n, j)' = Askers(n, j) \union
                       (IF n = ThisRoute.nn /\ j = k THEN {cur} ELSE {})
<1>1. /\ phase = "annotations" /\ k \in pending /\ pending' = pending \ {k}
      /\ UNCHANGED <<input, phase, todo, cur, rule>>
  BY DEF Take, Finish, progressVars
<1>2. /\ Ingresses' = Ingresses
      /\ \A nn : Ingress(nn)' = Ingress(nn) /\ ActiveRules(nn)' = ActiveRules(nn)
      /\ \A nn, i : HostOf(nn, i)' = HostOf(nn, i) /\ Begun(nn, i)' = Begun(nn, i)
      /\ InTurn /\ InTurn'
  BY <1>1 DEF Ingresses, Ingress, ActiveRules, HostOf, Begun, InTurn
<1>3. ProgressInv'
  <2>1. ASSUME NEW id \in DOMAIN routes', id.ing \in Ingresses
        PROVE  id \in DOMAIN routes /\ routes'[id].nn = routes[id].nn
    BY <2>1, RedirectIsNobodys DEF RoutesKept, NamesKept
  <2>2. DOMAIN routes \subseteq DOMAIN routes'
    BY DEF RoutesKept, NamesKept
  <2>3. ASSUME NEW id \in DOMAIN routes', id.ing \in Ingresses
        PROVE  /\ routes'[id].nn = RouteNN(id.ing, id.host)
               /\ \E i \in DOMAIN Ingress(id.ing).rules :
                    Begun(id.ing, i) /\ id = RouteId(id.ing, HostOf(id.ing, i))
    BY <2>1, <2>3 DEF ProgressInv
  <2> QED
    BY <1>1, <1>2, <2>2, <2>3 DEF ProgressInv
<1>4. ASSUME NEW nn \in Ingresses, NEW i \in ActiveRules(nn), NEW j
      PROVE  Over(nn, i, j)' <=> Over(nn, i, j) \/ (nn = cur /\ i = rule /\ j = k)
  BY <1>1, <1>2 DEF Over, ProgressInv
<1>5. cur \in Ingresses /\ rule \in ActiveRules(cur) /\ HasAnnotation(cur, k)
      /\ ThisRoute.nn = RouteNN(cur, HostOf(cur, rule))
  BY <1>1, CurrentRoute DEF IInv, TypeOK, ProgressOK, HasAnnotation, This
<1>6. ASSUME NEW n, NEW j
      PROVE  Askers(n, j)' = Askers(n, j) \union
                (IF n = ThisRoute.nn /\ j = k THEN {cur} ELSE {})
  <2>1. ASSUME NEW nn \in Ingresses
        PROVE  nn \in Askers(n, j)' <=>
                 nn \in Askers(n, j) \/ (nn = cur /\ n = ThisRoute.nn /\ j = k)
    BY <1>2, <1>4, <1>5 DEF Askers, HasAnnotation
  <2>2. Askers(n, j) \subseteq Ingresses /\ Askers(n, j)' \subseteq Ingresses
    BY <1>2 DEF Askers
  <2> QED
    BY <1>5, <2>1, <2>2
<1> QED
  BY <1>3, <1>4, <1>6

(* The same of the values.                                                  *)
LEMMA AnswersGrow ==
  ASSUME input' = input, NEW n, NEW j, NEW S, Askers(n, j)' = Askers(n, j) \union S
  PROVE  Asked(n, j)' = Asked(n, j) \union {AnnotationOf(nn, j) : nn \in S}
<1>1. \A nn : AnnotationOf(nn, j)' = AnnotationOf(nn, j)
  BY DEF AnnotationOf, Ingress
<1> QED
  BY <1>1 DEF Asked

-----------------------------------------------------------------------------
(* The steps of the engine.                                                  *)

SameTurns ==
  \A nn \in Ingresses : \A i \in ActiveRules(nn) : \A k \in DOMAIN Ingress(nn).annos :
    Over(nn, i, k)' <=> Over(nn, i, k)

SameAskers == SameTurns /\ \A n, j : Askers(n, j)' = Askers(n, j)

(* Askers depend on the turns that are over only.                           *)
LEMMA TurnsSuffice ==
  ASSUME input' = input, SameTurns
  PROVE  SameAskers
<1>1. /\ Ingresses' = Ingresses
      /\ \A nn : Ingress(nn)' = Ingress(nn) /\ ActiveRules(nn)' = ActiveRules(nn)
      /\ \A nn, i : HostOf(nn, i)' = HostOf(nn, i)
      /\ \A nn, k : HasAnnotation(nn, k)' = HasAnnotation(nn, k)
  BY DEF Ingresses, Ingress, ActiveRules, HostOf, HasAnnotation
<1>2. ASSUME NEW n, NEW j
      PROVE  Askers(n, j)' = Askers(n, j)
  <2>1. \A nn \in Ingresses : nn \in Askers(n, j)' <=> nn \in Askers(n, j)
    BY <1>1 DEF Askers, HasAnnotation, SameTurns
  <2>2. Askers(n, j) \subseteq Ingresses /\ Askers(n, j)' \subseteq Ingresses
    BY <1>1 DEF Askers
  <2> QED
    BY <2>1, <2>2
<1> QED
  BY <1>2 DEF SameAskers

(* A step that moves nothing but the turn: no rule begins or stops to have  *)
(* begun.                                                                   *)
LEMMA TurnMoves ==
  ASSUME IInv, ProgressInv, input' = input, NamesKept, DOMAIN routes' = DOMAIN routes,
         \A nn \in Ingresses : \A i \in DOMAIN Ingress(nn).rules : Begun(nn, i)' <=> Begun(nn, i)
  PROVE  /\ \A id \in DOMAIN routes' : id.ing \in Ingresses' =>
              /\ routes'[id].nn = RouteNN(id.ing, id.host)
              /\ \E i \in DOMAIN Ingress(id.ing)'.rules :
                   Begun(id.ing, i)' /\ id = RouteId(id.ing, HostOf(id.ing, i)')
         /\ \A nn \in Ingresses' : \A i \in DOMAIN Ingress(nn)'.rules :
              Begun(nn, i)' => RouteId(nn, HostOf(nn, i)') \in DOMAIN routes'
<1>1. /\ Ingresses' = Ingresses
      /\ \A nn : Ingress(nn)' = Ingress(nn)
      /\ \A nn, i : HostOf(nn, i)' = HostOf(nn, i)
  BY DEF Ingresses, Ingress, HostOf
<1> QED
  BY <1>1 DEF ProgressInv, NamesKept

(* Setup, the start and the end of an Ingress, the end of a rule.           *)
LEMMA TurnProgress ==
  ASSUME IInv, ProgressInv,
         Setup \/ (\E nn \in todo : BeginIngress(nn)) \/ EndRule \/ EndIngress \/ Build
  PROVE  ProgressInv' /\ SameAskers
<1>1. UNCHANGED <<input, routes>>
  BY DEF Setup, BeginIngress, EndRule, EndIngress, Build, graphVars
<1>2. /\ Ingresses' = Ingresses /\ NamesKept
      /\ \A nn : Ingress(nn)' = Ingress(nn) /\ ActiveRules(nn)' = ActiveRules(nn)
  BY <1>1 DEF Ingresses, Ingress, ActiveRules, NamesKept
<1>3. \A nn \in Ingresses :
        /\ DOMAIN Ingress(nn).rules \subseteq Nat
        /\ ActiveRules(nn) \subseteq DOMAIN Ingress(nn).rules
  BY RulesNumbered DEF IInv, TypeOK, ProgressOK
<1>4. rule \in Nat \ {0} /\ todo \subseteq Ingresses /\ (InTurn => cur \in Ingresses)
  BY DEF IInv, TypeOK, ProgressOK, InTurn
<1> DEFINE turns == \A nn \in Ingresses : \A i \in DOMAIN Ingress(nn).rules :
                      /\ Begun(nn, i)' <=> Begun(nn, i)
                      /\ \A k : Over(nn, i, k)' <=> Over(nn, i, k)
           order == /\ phase' # "annotations"
                    /\ phase' = "done" => todo' = {}
                    /\ InTurn' => cur' \notin todo'
                    /\ \A m \in Ingresses \ todo' : /\ \A nn \in todo' : NNLess(m, nn)
                                                    /\ InTurn' /\ m # cur' => NNLess(m, cur')
<1>5. ASSUME turns, order
      PROVE  ProgressInv' /\ SameAskers
  <2>1. SameAskers
    BY <1>1, <1>3, <1>5, TurnsSuffice DEF SameTurns
  <2>2. /\ phase' = "annotations" => rule' \in ActiveRules(cur)'
        /\ phase' = "done" => todo' = {}
        /\ InTurn' => cur' \notin todo'
        /\ \A m \in Ingresses' \ todo' : /\ \A nn \in todo' : NNLess(m, nn)
                                         /\ InTurn' /\ m # cur' => NNLess(m, cur')
    BY <1>2, <1>5
  <2>3. \A nn \in Ingresses : \A i \in DOMAIN Ingress(nn).rules : Begun(nn, i)' <=> Begun(nn, i)
    BY <1>5
  <2>4. DOMAIN routes' = DOMAIN routes
    BY <1>1
  <2> HIDE DEF turns, order
  <2> QED
    BY <1>1, <1>2, <2>1, <2>2, <2>3, <2>4, TurnMoves DEF ProgressInv
<1>6. ASSUME Setup \/ Build
      PROVE  turns /\ order
  <2>1. /\ UNCHANGED <<todo, cur, rule, pending>> /\ phase \in {"setup", "ingresses"}
        /\ phase' \in {"ingresses", "done"} /\ (phase' = "done" => todo = {})
    BY <1>6 DEF Setup, Build
  <2> QED
    BY <1>2, <2>1 DEF ProgressInv, InTurn, Begun, Over
<1>7. ASSUME NEW nn \in todo, BeginIngress(nn)
      PROVE  turns /\ order
  <2>1. /\ phase = "ingresses" /\ phase' = "rules" /\ cur' = nn /\ rule' = 1
        /\ todo' = todo \ {nn} /\ \A other \in todo \ {nn} : NNLess(nn, other)
    BY <1>7 DEF BeginIngress, IsNext
  <2>2. ASSUME NEW m \in Ingresses, NEW i \in DOMAIN Ingress(m).rules
        PROVE  /\ Begun(m, i)' <=> Begun(m, i)
               /\ \A k : Over(m, i, k)' <=> Over(m, i, k)
    <3>1. ~(i < 1) /\ i \in Nat
      BY <1>3, RulesNumbered DEF IInv, TypeOK, ProgressOK
    <3> QED
      BY <1>2, <1>4, <2>1, <3>1 DEF InTurn, Begun, Over
  <2>3. \A m \in Ingresses \ todo' : /\ \A other \in todo' : NNLess(m, other)
                                     /\ m # nn => NNLess(m, nn)
    BY <2>1 DEF ProgressInv
  <2> QED
    BY <2>1, <2>2, <2>3
<1>8. ASSUME EndRule \/ EndIngress
      PROVE  turns /\ order
  <2>1. /\ InTurn /\ phase' \in {"rules", "ingresses"} /\ UNCHANGED <<todo, cur, pending>>
        /\ phase' = "rules" =>
             rule' = rule + 1 /\ phase = "annotations" /\ pending = {}
        /\ phase' = "ingresses" =>
             rule' = rule /\ phase = "rules" /\ rule \notin DOMAIN This.rules
    BY <1>8 DEF EndRule, EndIngress, InTurn
  <2>2. ASSUME NEW nn \in Ingresses, NEW i \in DOMAIN Ingress(nn).rules
        PROVE  /\ Begun(nn, i)' <=> Begun(nn, i)
               /\ \A k : Over(nn, i, k)' <=> Over(nn, i, k)
    <3>1. i \in Nat
      BY <1>3
    <3>2. CASE phase' = "rules"
      <4>1. i < rule + 1 <=> i < rule \/ i = rule
        BY <1>4, <3>1
      <4>2. InTurn' /\ InTurn
        BY <2>1, <3>2 DEF InTurn
      <4> QED
        BY <1>2, <2>1, <3>2, <4>1, <4>2 DEF Begun, Over
    <3>3. CASE phase' = "ingresses"
      <4>1. nn = cur => i < rule
        BY <1>4, <2>1, <3>1, <3>3, RulesNumbered DEF This, IInv, TypeOK, ProgressOK
      <4>2. ~InTurn' /\ InTurn
        BY <2>1, <3>3 DEF InTurn
      <4> QED
        BY <1>2, <2>1, <3>3, <4>1, <4>2 DEF Begun, Over
    <3> QED
      BY <2>1, <3>2, <3>3
  <2> QED
    BY <1>2, <2>1, <2>2 DEF ProgressInv, InTurn
<1> HIDE DEF turns, order
<1> QED
  BY <1>5, <1>6, <1>7, <1>8

(* BeginRule begins its rule; the annotations of a rule with an HTTP section*)
(* are then to be handled, those of another rule never are.                 *)
LEMMA BeginRuleProgress ==
  ASSUME IInv, ProgressInv, BeginRule
  PROVE  ProgressInv' /\ SameAskers
<1> DEFINE r       == This.rules[rule]
           id      == RouteId(cur, r.host)
           isNew   == id \notin DOMAIN routes
           route   == IF isNew THEN InitialRoute(r.host) ELSE routes[id]
           grown   == [route EXCEPT !.rules = @ \o RulesOf(r.paths)]
<1>1. /\ phase = "rules" /\ rule \in DOMAIN This.rules
      /\ \/ /\ ~r.http /\ routes' = InsertAt(routes, id, route)
            /\ rule' = rule + 1 /\ phase' = "rules"
         \/ /\ r.http /\ routes' = InsertAt(routes, id, grown)
            /\ rule' = rule /\ phase' = "annotations" /\ pending' = DOMAIN This.annos
      /\ UNCHANGED <<input, todo, cur>>
  BY ZenonT(60) DEF BeginRule
<1>2. cur \in Ingresses \ todo /\ cur \in Ingresses
  BY <1>1 DEF IInv, TypeOK, ProgressOK, ProgressInv, InTurn
<1>3. /\ Ingresses' = Ingresses
      /\ \A nn : Ingress(nn)' = Ingress(nn) /\ ActiveRules(nn)' = ActiveRules(nn)
      /\ \A nn, i : HostOf(nn, i)' = HostOf(nn, i)
      /\ InTurn /\ InTurn'
  BY <1>1 DEF Ingresses, Ingress, ActiveRules, HostOf, InTurn
<1>4. id = RouteId(cur, HostOf(cur, rule)) /\ id.ing = cur /\ id.host = HostOf(cur, rule)
  BY DEF HostOf, This, RouteId
<1>5. route.nn = RouteNN(cur, HostOf(cur, rule)) /\ DOMAIN route = HTTPRouteFields
        /\ (id \in DOMAIN routes => route = routes[id])
  <2>1. CASE isNew
    BY <2>1, InitialRouteOK DEF InitialRoute, HostOf, This
  <2>2. CASE ~isNew
    BY <1>2, <1>4, <2>2 DEF ProgressInv, IInv, TypeOK, GraphOK
  <2> QED
    BY <2>1, <2>2
<1>6. grown.nn = route.nn
  BY <1>5 DEF HTTPRouteFields
<1>7. /\ rule \in ActiveRules(cur) <=> r.http
      /\ rule \in DOMAIN Ingress(cur).rules /\ DOMAIN This.annos = DOMAIN Ingress(cur).annos
  BY <1>1 DEF ActiveRules, This
<1> HIDE DEF r, id, isNew, route, grown
<1>8. /\ DOMAIN routes' = DOMAIN routes \union {id} /\ routes'[id].nn = route.nn
      /\ \A x \in DOMAIN routes : routes'[x].nn = routes[x].nn
  BY <1>1, <1>5, <1>6 DEF InsertAt
<1>9. ASSUME NEW nn \in Ingresses, NEW i \in DOMAIN Ingress(nn).rules
      PROVE  /\ Begun(nn, i)' <=> Begun(nn, i) \/ (nn = cur /\ i = rule)
             /\ i \in ActiveRules(nn) =>
                  \A k \in DOMAIN Ingress(nn).annos : Over(nn, i, k)' <=> Over(nn, i, k)
  <2>1. i \in Nat /\ rule \in Nat
    BY RulesNumbered DEF IInv, TypeOK, ProgressOK
  <2>2. (i < rule + 1 <=> i < rule \/ i = rule) /\ (i = rule => ~(i < rule))
    BY <2>1
  <2>3. CASE phase' = "rules"
    BY <1>1, <1>2, <1>3, <1>7, <2>2, <2>3 DEF Begun, Over
  <2>4. CASE phase' = "annotations"
    BY <1>1, <1>2, <1>3, <1>7, <2>2, <2>4 DEF Begun, Over
  <2> QED
    BY <1>1, <2>3, <2>4
<1>10. SameAskers
  <2>1. \A nn \in Ingresses : ActiveRules(nn) \subseteq DOMAIN Ingress(nn).rules
    BY DEF ActiveRules
  <2> QED
    BY <1>1, <1>9, <2>1, TurnsSuffice DEF SameTurns
<1>11. ASSUME NEW x \in DOMAIN routes', x.ing \in Ingresses
       PROVE  /\ routes'[x].nn = RouteNN(x.ing, x.host)
              /\ \E i \in DOMAIN Ingress(x.ing).rules :
                   Begun(x.ing, i)' /\ x = RouteId(x.ing, HostOf(x.ing, i))
  <2>1. CASE x = id
    <3>1. PICK nn, i : nn = cur /\ i = rule
      OBVIOUS
    <3>2. Begun(nn, i)'
      BY <1>2, <1>7, <1>9, <3>1
    <3> QED
      BY <1>2, <1>4, <1>5, <1>7, <1>8, <2>1, <3>1, <3>2
  <2>2. CASE x # id
    <3>1. x \in DOMAIN routes /\ routes'[x].nn = routes[x].nn
      BY <1>8, <2>2
    <3> QED
      BY <1>9, <1>11, <3>1 DEF ProgressInv
  <2> QED
    BY <2>1, <2>2
<1>12. ASSUME NEW nn \in Ingresses, NEW i \in DOMAIN Ingress(nn).rules, Begun(nn, i)'
       PROVE  RouteId(nn, HostOf(nn, i)) \in DOMAIN routes'
  BY <1>4, <1>8, <1>9, <1>12 DEF ProgressInv
<1>13. phase' = "annotations" => rule' \in ActiveRules(cur)
  BY <1>1, <1>7
<1> QED
  BY <1>1, <1>3, <1>10, <1>11, <1>12, <1>13 DEF ProgressInv

(* No step of the engine other than its own handlers handles an annotation. *)
LEMMA EngineProgress ==
  ASSUME IInv, ProgressInv, EngineStep, ~handleIgnoredAnnotation
  PROVE  ProgressInv' /\ SameAskers
BY TurnProgress, BeginRuleProgress DEF EngineStep, EngineNext

LEMMA InitProgress ==
  ASSUME Init
  PROVE  ProgressInv /\ \A n, k : Askers(n, k) = {}
<1>1. todo = Ingresses /\ phase = "setup" /\ DOMAIN routes = {}
  BY Zenon DEF Init, EngineInit
<1>2. ~InTurn
  BY <1>1 DEF InTurn
<1> QED
  BY <1>1, <1>2 DEF ProgressInv, Begun, Over, Askers

LEMMA StutterProgress ==
  ASSUME IInv, ProgressInv, UNCHANGED vars
  PROVE  ProgressInv' /\ SameAskers
<1>1. UNCHANGED <<input, phase, todo, cur, rule, pending, routes>>
  BY DEF vars, engineVars, progressVars, graphVars
<1>2. /\ Ingresses' = Ingresses
      /\ \A nn : Ingress(nn)' = Ingress(nn) /\ ActiveRules(nn)' = ActiveRules(nn)
      /\ \A nn, i : HostOf(nn, i)' = HostOf(nn, i) /\ Begun(nn, i)' = Begun(nn, i)
      /\ \A nn, i, k : Over(nn, i, k)' = Over(nn, i, k)
      /\ InTurn' = InTurn
  BY <1>1 DEF Ingresses, Ingress, ActiveRules, HostOf, InTurn, Begun, Over
<1> QED
  BY <1>1, <1>2, TurnsSuffice DEF ProgressInv, SameTurns

(* The values of annotations follow.                                        *)
LEMMA SameAnswers ==
  ASSUME input' = input, SameAskers
  PROVE  \A n, j : Asked(n, j)' = Asked(n, j)
<1>1. \A nn, j : AnnotationOf(nn, j)' = AnnotationOf(nn, j)
  BY DEF AnnotationOf, Ingress
<1> QED
  BY <1>1 DEF Asked, SameAskers

-----------------------------------------------------------------------------
(* The end.                                                                  *)

(* Every annotation has been handled for every route of its Ingress.        *)
LEMMA AllAsked ==
  ASSUME IInv, ProgressInv, Done, NEW n, NEW k
  PROVE  Askers(n, k) = {nn \in Ingresses : /\ HasAnnotation(nn, k)
                                            /\ \E h \in ActiveHosts(nn) : n = RouteNN(nn, h)}
<1>1. todo = {} /\ ~InTurn
  BY DEF ProgressInv, Done, InTurn
<1>2. \A nn \in Ingresses : \A i : Over(nn, i, k)
  BY <1>1 DEF Over
<1> QED
  BY <1>2 DEF Askers, ActiveHosts, HostOf

(* With unique names the handlers that named a route are those of its       *)
(* Ingress.                                                                 *)
LEMMA AskedByOwner ==
  ASSUME IInv, ProgressInv, Done, NamesAreUnique, NEW p \in ActivePairs, NEW k
  PROVE  Asked(PairNN(p), k) = IF HasAnnotation(p[1], k) THEN {AnnotationOf(p[1], k)} ELSE {}
<1>1. PICK nn \in Ingresses : p \in {nn} \X ActiveHosts(nn)
  BY DEF ActivePairs
<1>2. p[1] = nn /\ p[2] \in ActiveHosts(nn)
  BY <1>1
<1>3. ASSUME NEW m \in Ingresses, NEW h \in ActiveHosts(m), PairNN(p) = RouteNN(m, h)
      PROVE  m = p[1]
  <2>1. <<m, h>> \in ActivePairs /\ PairNN(<<m, h>>) = RouteNN(m, h)
    BY DEF ActivePairs, PairNN
  <2>2. p = <<m, h>>
    BY <1>3, <2>1 DEF NamesAreUnique
  <2> QED
    BY <2>2
<1>4. PairNN(p) = RouteNN(p[1], p[2])
  BY DEF PairNN
<1>5. Askers(PairNN(p), k) = IF HasAnnotation(p[1], k) THEN {p[1]} ELSE {}
  <2>1. Askers(PairNN(p), k) =
          {m \in Ingresses : /\ HasAnnotation(m, k)
                             /\ \E h \in ActiveHosts(m) : PairNN(p) = RouteNN(m, h)}
    BY AllAsked
  <2>2. p[1] \in Ingresses /\ \E h \in ActiveHosts(p[1]) : PairNN(p) = RouteNN(p[1], h)
    BY <1>2, <1>4
  <2> QED
    BY <1>3, <2>1, <2>2
<1> QED
  BY <1>5 DEF Asked

-----------------------------------------------------------------------------
(* The Gateway of what has begun.                                            *)

(* The certificates of the Gateway, each with the host it is for, and those *)
(* a binding adds.                                                          *)
Certificates       == UNION {{h} \X https[h] : h \in DOMAIN https}
CertificatesOf(b)  == {<<h, b[h]>> : h \in DOMAIN b}

(* The routes that belong to an Ingress, and the certificates initRoute     *)
(* bound for them.                                                          *)
OwnRoutes        == {id \in DOMAIN routes : id.ing \in Ingresses}
RuleCertificates == UNION {CertificatesOf(TLSBinding(id.ing, id.host)) : id \in OwnRoutes}

(* A route hangs on the listener of its host when TLS covers that.          *)
RoutesBound ==
  \A id \in OwnRoutes : \A h \in DOMAIN TLSBinding(id.ing, id.host) :
    h \in DOMAIN https /\ ListenerName(h) \in SectionsOf(routes[id])

(* What BeginRule does to the Gateway: the first rule of a host binds the   *)
(* host, the next ones do nothing.                                          *)
BeginsHost(id, b) ==
  /\ id.ing = cur /\ id.ing \in Ingresses /\ id.host \in RuleHosts(cur)
  /\ OwnRoutes' = OwnRoutes \union {id}
  /\ b = IF id \in OwnRoutes THEN NoBinding ELSE TLSBinding(id.ing, id.host)
  /\ https' = EnsureHTTPSListeners(b)
  /\ grants' = GrantsFor(b)
  /\ http' = (http \/ (id \notin OwnRoutes /\ Ingress(id.ing).tls = <<>>))
  /\ id \notin OwnRoutes =>
       SectionsOf(routes'[id]) = IF Ingress(id.ing).tls = <<>> THEN {HTTPListenerName}
                                 ELSE {ListenerName(h) : h \in DOMAIN b}
  /\ \A x \in OwnRoutes : SectionsOf(routes'[x]) = SectionsOf(routes[x])
  /\ UNCHANGED <<input, todo, redirect, gateway>>
  /\ phase' # "done"

LEMMA BeginRuleGateway ==
  ASSUME IInv, BeginRule
  PROVE  \E id, b : BeginsHost(id, b)
<1> DEFINE r       == This.rules[rule]
           id      == RouteId(cur, r.host)
           isNew   == id \notin DOMAIN routes
           binding == IF isNew THEN TLSBinding(cur, r.host) ELSE NoBinding
           route   == IF isNew THEN InitialRoute(r.host) ELSE routes[id]
           grown   == [route EXCEPT !.rules = @ \o RulesOf(r.paths)]
<1>1. /\ phase = "rules" /\ phase' # "done" /\ rule \in DOMAIN This.rules
      /\ http' = (http \/ (isNew /\ This.tls = <<>>))
      /\ https' = EnsureHTTPSListeners(binding) /\ grants' = GrantsFor(binding)
      /\ routes' = InsertAt(routes, id, route) \/ routes' = InsertAt(routes, id, grown)
      /\ UNCHANGED <<input, todo, redirect, gateway>>
  BY ZenonT(60) DEF BeginRule
<1>2. /\ id.ing = cur /\ id.host = r.host /\ cur \in Ingresses /\ This = Ingress(cur)
      /\ r.host \in RuleHosts(cur)
  BY <1>1 DEF RouteId, This, RuleHosts, IInv, TypeOK, ProgressOK
<1>3. isNew => /\ DOMAIN route = HTTPRouteFields
               /\ SectionsOf(route) = IF This.tls = <<>> THEN {HTTPListenerName}
                                      ELSE {ListenerName(h) : h \in DOMAIN binding}
  BY InitialRouteOK
<1>4. DOMAIN route = HTTPRouteFields
  BY <1>3 DEF IInv, TypeOK, GraphOK
<1>5. grown.parents = route.parents
  BY <1>4 DEF HTTPRouteFields
<1>6. /\ id \in OwnRoutes <=> ~isNew
      /\ binding = IF id \in OwnRoutes THEN NoBinding ELSE TLSBinding(id.ing, id.host)
  BY <1>2 DEF OwnRoutes
<1> HIDE DEF r, id, isNew, binding, route, grown
<1>7. DOMAIN routes' = DOMAIN routes \union {id} /\ routes'[id].parents = route.parents
  BY <1>1, <1>5 DEF InsertAt
<1>8. OwnRoutes' = OwnRoutes \union {id}
  BY <1>1, <1>2, <1>7 DEF OwnRoutes, Ingresses
<1>9. SectionsOf(routes'[id]) = SectionsOf(route)
  BY <1>7 DEF SectionsOf
<1>10. ASSUME NEW x \in OwnRoutes
       PROVE  SectionsOf(routes'[x]) = SectionsOf(routes[x])
  <2>1. CASE x = id
    <3>1. route = routes[id]
      BY <1>6, <1>10, <2>1 DEF route
    <3> QED
      BY <1>9, <2>1, <3>1
  <2>2. CASE x # id
    <3>1. routes'[x] = routes[x]
      BY <1>1, <1>10, <2>2 DEF InsertAt, OwnRoutes
    <3> QED
      BY <3>1 DEF SectionsOf
  <2> QED
    BY <2>1, <2>2
<1>11. BeginsHost(id, binding)
  BY <1>1, <1>2, <1>3, <1>6, <1>8, <1>9, <1>10 DEF BeginsHost
<1> QED
  BY <1>11

(* Bindings are fixed by the input.                                         *)
LEMMA SameBindings ==
  ASSUME input' = input
  PROVE  \A nn, h : TLSBinding(nn, h)' = TLSBinding(nn, h)
BY DEF TLSBinding, Ingress

(* A binding without TLS is empty, and binds its host to a secret of the    *)
(* Ingress.                                                                 *)
LEMMA BindingOfRule ==
  ASSUME NEW nn, NEW host
  PROVE  /\ DOMAIN TLSBinding(nn, host) \subseteq {host}
         /\ Ingress(nn).tls = <<>> => DOMAIN TLSBinding(nn, host) = {}
         /\ \A h \in DOMAIN TLSBinding(nn, host) : TLSBinding(nn, host)[h].ns = nn.ns
<1> DEFINE tls      == Ingress(nn).tls
           naming   == {i \in DOMAIN tls : host \in tls[i].hosts}
           wildcard == {i \in DOMAIN tls : tls[i].hosts = {}}
           last(S)  == IF S = {} THEN NoSecret ELSE [ns |-> nn.ns, name |-> tls[Max(S)].secret]
           found    == IF last(naming) # NoSecret THEN last(naming) ELSE last(wildcard)
<1>1. TLSBinding(nn, host) = [h \in {x \in {host} : found # NoSecret} |-> found]
  BY Zenon DEF TLSBinding
<1>2. found # NoSecret => found.ns = nn.ns
  <2>1. \A S : last(S) # NoSecret => last(S).ns = nn.ns
    OBVIOUS
  <2> HIDE DEF last
  <2> QED
    BY <2>1
<1>3. Ingress(nn).tls = <<>> => found = NoSecret
  OBVIOUS
<1> HIDE DEF found
<1> QED
  BY <1>1, <1>2, <1>3

(* A handler adds no route of an Ingress.                                   *)
LEMMA OwnRoutesKept ==
  ASSUME IInv, RoutesKept, input' = input
  PROVE  OwnRoutes' = OwnRoutes
<1>1. Ingresses' = Ingresses
  BY DEF Ingresses
<1> QED
  BY <1>1, RedirectIsNobodys DEF RoutesKept, NamesKept, OwnRoutes

(* Routes stay bound, and new ones are bound at once.                       *)
LEMMA BoundStep ==
  ASSUME IInv, ProgressInv, RoutesBound, StepOK, OwnRoutes' = OwnRoutes \/ BeginRule
  PROVE  RoutesBound'
<1>1. /\ input' = input /\ DOMAIN https \subseteq DOMAIN https'
      /\ \A id \in DOMAIN routes : SectionsOf(routes[id]) \subseteq SectionsOf(routes'[id])
  BY DEF StepOK, Grow
<1>2. \A nn, h : TLSBinding(nn, h)' = TLSBinding(nn, h)
  BY <1>1, SameBindings
<1>3. \A id \in OwnRoutes : \A h \in DOMAIN TLSBinding(id.ing, id.host) :
        h \in DOMAIN https' /\ ListenerName(h) \in SectionsOf(routes'[id])
  BY <1>1 DEF RoutesBound, OwnRoutes
<1>4. CASE OwnRoutes' = OwnRoutes
  BY <1>2, <1>3, <1>4 DEF RoutesBound, SectionsOf
<1>5. CASE BeginRule
  <2>1. PICK id, b : BeginsHost(id, b)
    BY <1>5, BeginRuleGateway
  <2>2. DOMAIN https' = DOMAIN https \union DOMAIN b
    BY <2>1 DEF BeginsHost, EnsureHTTPSListeners
  <2>3. id \notin OwnRoutes =>
          \A h \in DOMAIN TLSBinding(id.ing, id.host) :
            h \in DOMAIN https' /\ ListenerName(h) \in SectionsOf(routes'[id])
    BY <2>1, <2>2, BindingOfRule DEF BeginsHost
  <2> QED
    BY <1>2, <1>3, <2>1, <2>3 DEF RoutesBound, BeginsHost, SectionsOf
<1> QED
  BY <1>4, <1>5

(* Each grant has a secret in its namespace that calls for it, and the other*)
(* way round.                                                               *)
HasSecret(nn) == \E i \in DOMAIN Ingress(nn).tls : Ingress(nn).tls[i].secret # ""

GrantsBook ==
  grants = ({nn.ns : nn \in {m \in Ingresses \ todo : HasSecret(m)}}
              \union {c[2].ns : c \in Certificates}) \ {GatewayNamespace}

(* The HTTP listener is there for the redirect and for Ingresses without    *)
(* TLS.                                                                     *)
HTTPBook == http = (redirect \/ \E id \in OwnRoutes : Ingress(id.ing).tls = <<>>)

(* The hosts can be sorted, and build has sorted them.                      *)
ListenersBook ==
  /\ https = [h \in DOMAIN https |-> https[h]]
  /\ IsFiniteSet(DOMAIN https) /\ DOMAIN https \subseteq Nat
  /\ phase = "done" => gateway = BuiltListeners

GatewayBook == GrantsBook /\ HTTPBook /\ ListenersBook

(* Ensuring the listeners of a binding adds its certificates, and no other. *)
LEMMA CertificatesEnsured ==
  ASSUME NEW b, https' = EnsureHTTPSListeners(b)
  PROVE  /\ Certificates' = Certificates \union CertificatesOf(b)
         /\ DOMAIN https' = DOMAIN https \union DOMAIN b
         /\ https' = [h \in DOMAIN https' |-> https'[h]]
<1>1. /\ DOMAIN https' = DOMAIN https \union DOMAIN b
      /\ https' = [h \in DOMAIN https' |-> https'[h]]
      /\ \A h \in DOMAIN https' :
           https'[h] = (IF h \in DOMAIN https THEN https[h] ELSE {})
                         \union (IF h \in DOMAIN b THEN {b[h]} ELSE {})
  BY DEF EnsureHTTPSListeners
<1>2. ASSUME NEW c
      PROVE  c \in Certificates' <=> c \in Certificates \/ c \in CertificatesOf(b)
  <2>1. c \in Certificates' <=> \E h \in DOMAIN https' : \E x \in https'[h] : c = <<h, x>>
    BY DEF Certificates
  <2>2. c \in Certificates <=> \E h \in DOMAIN https : \E x \in https[h] : c = <<h, x>>
    BY DEF Certificates
  <2>3. c \in CertificatesOf(b) <=> \E h \in DOMAIN b : c = <<h, b[h]>>
    BY DEF CertificatesOf
  <2> QED
    BY <1>1, <2>1, <2>2, <2>3
<1> QED
  BY <1>1, <1>2

LEMMA RuleCertificatesGrow ==
  ASSUME input' = input, NEW id, OwnRoutes' = OwnRoutes \union {id}
  PROVE  RuleCertificates' =
           RuleCertificates \union CertificatesOf(TLSBinding(id.ing, id.host))
<1>1. \A x : TLSBinding(x.ing, x.host)' = TLSBinding(x.ing, x.host)
  BY SameBindings
<1>2. \A x : CertificatesOf(TLSBinding(x.ing, x.host))' = CertificatesOf(TLSBinding(x.ing, x.host))
  BY <1>1 DEF CertificatesOf
<1> QED
  BY <1>2 DEF RuleCertificates

(* The grants follow the certificates.                                      *)
LEMMA GrantsFollow ==
  ASSUME GrantsBook, UNCHANGED <<input, todo>>, NEW b, grants' = GrantsFor(b),
         Certificates' = Certificates \union CertificatesOf(b)
  PROVE  GrantsBook'
<1>1. GatewayNamespace' = GatewayNamespace /\ Ingresses' = Ingresses
  BY SameNamespace DEF Ingresses
<1>2. \A nn : HasSecret(nn)' = HasSecret(nn)
  BY DEF HasSecret, Ingress
<1>3. {c[2].ns : c \in CertificatesOf(b)} = {b[h].ns : h \in DOMAIN b}
  <2>1. \A h \in DOMAIN b : <<h, b[h]>>[2] = b[h]
    OBVIOUS
  <2>2. \A c \in CertificatesOf(b) : \E h \in DOMAIN b : c[2] = b[h]
    BY <2>1 DEF CertificatesOf
  <2>3. \A h \in DOMAIN b : \E c \in CertificatesOf(b) : c[2] = b[h]
    BY <2>1 DEF CertificatesOf
  <2> QED
    BY <2>2, <2>3
<1> QED
  BY <1>1, <1>2, <1>3 DEF GrantsBook, GrantsFor

(* New listeners can be sorted with the others.                             *)
LEMMA ListenersGrow ==
  ASSUME ListenersBook, NEW b, https' = EnsureHTTPSListeners(b),
         IsFiniteSet(DOMAIN b), DOMAIN b \subseteq Nat, phase' # "done"
  PROVE  ListenersBook'
<1>1. IsFiniteSet(DOMAIN https \union DOMAIN b)
  BY FS_Union DEF ListenersBook
<1> QED
  BY <1>1, CertificatesEnsured DEF ListenersBook

LEMMA BeginRuleKeepsBook ==
  ASSUME IInv, BeginRule, GatewayBook, NEW extra,
         Certificates = RuleCertificates \union extra
  PROVE  GatewayBook' /\ Certificates' = RuleCertificates' \union extra
<1>1. PICK id, b : BeginsHost(id, b)
  BY BeginRuleGateway
<1>2. /\ UNCHANGED <<input, todo, redirect>> /\ OwnRoutes' = OwnRoutes \union {id}
      /\ https' = EnsureHTTPSListeners(b) /\ grants' = GrantsFor(b) /\ phase' # "done"
      /\ http' = (http \/ (id \notin OwnRoutes /\ Ingress(id.ing).tls = <<>>))
      /\ b = IF id \in OwnRoutes THEN NoBinding ELSE TLSBinding(id.ing, id.host)
  BY <1>1 DEF BeginsHost
<1>3. Certificates' = Certificates \union CertificatesOf(b)
  BY <1>2, CertificatesEnsured
<1>4. RuleCertificates' = RuleCertificates \union CertificatesOf(b)
  <2>1. RuleCertificates' = RuleCertificates \union CertificatesOf(TLSBinding(id.ing, id.host))
    BY <1>2, RuleCertificatesGrow
  <2>2. CASE id \in OwnRoutes
    <3>1. CertificatesOf(b) = {} /\ OwnRoutes' = OwnRoutes
      BY <1>2, <2>2 DEF CertificatesOf, NoBinding
    <3>2. CertificatesOf(TLSBinding(id.ing, id.host)) \subseteq RuleCertificates
      BY <2>2 DEF RuleCertificates
    <3> QED
      BY <2>1, <3>1, <3>2
  <2>3. CASE id \notin OwnRoutes
    BY <1>2, <2>1, <2>3
  <2> QED
    BY <2>2, <2>3
<1>5. GrantsBook'
  BY <1>2, <1>3, GrantsFollow DEF GatewayBook
<1>6. HTTPBook'
  <2>1. \A nn : Ingress(nn)' = Ingress(nn)
    BY <1>2 DEF Ingress
  <2>2. http \in BOOLEAN
    BY DEF IInv, TypeOK, GraphOK
  <2> QED
    BY <1>2, <2>1, <2>2 DEF GatewayBook, HTTPBook
<1>7. IsFiniteSet(DOMAIN b) /\ DOMAIN b \subseteq Nat
  <2>1. id.host \in Nat
    BY <1>1, RulesAssumption DEF BeginsHost, RuleHosts, Ingresses, Ingress, IInv, TypeOK, ProgressOK
  <2>2. DOMAIN b \subseteq {id.host}
    BY <1>2, BindingOfRule DEF NoBinding
  <2>3. IsFiniteSet({id.host})
    BY FS_Singleton
  <2> QED
    BY <2>1, <2>2, <2>3, FS_Subset
<1>8. ListenersBook'
  BY <1>2, <1>7, ListenersGrow DEF GatewayBook
<1> QED
  BY <1>3, <1>4, <1>5, <1>6, <1>8 DEF GatewayBook

(* A step that leaves certificates and grants alone.                        *)
LEMMA GatewayKept ==
  ASSUME IInv, GatewayBook, UNCHANGED <<input, todo, https, grants, gateway>>,
         OwnRoutes' = OwnRoutes, phase' # "done",
         \/ UNCHANGED <<http, redirect>>
         \/ http' = TRUE /\ redirect' = TRUE
  PROVE  /\ GatewayBook'
         /\ Certificates' = Certificates /\ RuleCertificates' = RuleCertificates
<1>1. GatewayNamespace' = GatewayNamespace /\ Ingresses' = Ingresses
      /\ \A nn : Ingress(nn)' = Ingress(nn)
  BY SameNamespace DEF Ingresses, Ingress
<1>2. \A nn : HasSecret(nn)' = HasSecret(nn)
  BY DEF HasSecret, Ingress
<1>3. Certificates' = Certificates
  BY DEF Certificates
<1>4. RuleCertificates' = RuleCertificates
  <2>1. \A x : CertificatesOf(TLSBinding(x.ing, x.host))' = CertificatesOf(TLSBinding(x.ing, x.host))
    BY SameBindings DEF CertificatesOf
  <2> QED
    BY <2>1 DEF RuleCertificates
<1>5. GrantsBook'
  BY <1>1, <1>2, <1>3 DEF GatewayBook, GrantsBook
<1>6. HTTPBook'
  <2>1. CASE UNCHANGED <<http, redirect>>
    BY <1>1, <2>1 DEF GatewayBook, HTTPBook
  <2>2. CASE http' = TRUE /\ redirect' = TRUE
    BY <2>2 DEF HTTPBook
  <2> QED
    BY <2>1, <2>2
<1>7. ListenersBook'
  BY DEF GatewayBook, ListenersBook
<1> QED
  BY <1>3, <1>4, <1>5, <1>6, <1>7 DEF GatewayBook

(* The engine keeps the book.                                               *)
LEMMA EngineKeepsBook ==
  ASSUME IInv, ProgressInv, GatewayBook, NEW extra,
         Certificates = RuleCertificates \union extra,
         (EngineStep /\ ~handleIgnoredAnnotation) \/ UNCHANGED vars
  PROVE  GatewayBook' /\ Certificates' = RuleCertificates' \union extra
<1>1. CASE BeginRule
  BY <1>1, BeginRuleKeepsBook
<1>2. CASE Setup \/ EndIngress \/ EndRule
  <2>1. /\ UNCHANGED <<input, todo, https, grants, http, redirect, gateway>> /\ phase' # "done"
        /\ UNCHANGED routes
    BY <1>2 DEF Setup, EndIngress, EndRule, graphVars
  <2>2. OwnRoutes' = OwnRoutes
    BY <2>1 DEF OwnRoutes, Ingresses
  <2> QED
    BY <2>1, <2>2, GatewayKept
<1>3. ASSUME UNCHANGED <<input, http, https, redirect, routes>>
      PROVE  /\ Certificates' = Certificates /\ RuleCertificates' = RuleCertificates
             /\ HTTPBook' = HTTPBook /\ BuiltListeners' = BuiltListeners
             /\ Ingresses' = Ingresses /\ GatewayNamespace' = GatewayNamespace
             /\ \A nn : HasSecret(nn)' = HasSecret(nn)
  <2>1. \A nn : Ingress(nn)' = Ingress(nn)
    BY <1>3 DEF Ingress
  <2>2. Ingresses' = Ingresses /\ GatewayNamespace' = GatewayNamespace
    BY <1>3, SameNamespace DEF Ingresses
  <2>3. \A x : CertificatesOf(TLSBinding(x.ing, x.host))' = CertificatesOf(TLSBinding(x.ing, x.host))
    BY <1>3, SameBindings DEF CertificatesOf
  <2>4. OwnRoutes' = OwnRoutes
    BY <1>3, <2>2 DEF OwnRoutes
  <2>5. Certificates' = Certificates /\ RuleCertificates' = RuleCertificates
    BY <1>3, <2>3, <2>4 DEF Certificates, RuleCertificates
  <2>6. HTTPBook' = HTTPBook
    BY <1>3, <2>1, <2>4 DEF HTTPBook
  <2>7. BuiltListeners' = BuiltListeners
    BY <1>3 DEF BuiltListeners
  <2>8. \A nn : HasSecret(nn)' = HasSecret(nn)
    BY <2>1 DEF HasSecret
  <2> QED
    BY <2>2, <2>5, <2>6, <2>7, <2>8
<1>4. CASE Build \/ UNCHANGED vars
  <2>1. /\ UNCHANGED <<input, http, https, redirect, routes, todo, grants>>
        /\ \/ gateway' = BuiltListeners
           \/ UNCHANGED <<phase, gateway>>
    BY <1>4 DEF Build, graphVars, vars, engineVars, progressVars
  <2>2. GrantsBook'
    BY <1>3, <2>1 DEF GatewayBook, GrantsBook
  <2>3. ListenersBook'
    BY <1>3, <2>1 DEF GatewayBook, ListenersBook
  <2> QED
    BY <1>3, <2>1, <2>2, <2>3 DEF GatewayBook
<1>5. ASSUME NEW nn \in todo, BeginIngress(nn)
      PROVE  GatewayBook' /\ Certificates' = RuleCertificates' \union extra
  <2>1. /\ UNCHANGED <<input, http, https, redirect, routes>>
        /\ phase' = "rules" /\ todo' = todo \ {nn}
        /\ grants' = grants \union {ns \in {nn.ns} \ {GatewayNamespace} : HasSecret(nn)}
    BY <1>5 DEF BeginIngress, HasSecret
  <2>2. nn \in Ingresses /\ nn \notin Ingresses \ todo
    BY DEF IInv, TypeOK, ProgressOK
  <2>3. GrantsBook'
    BY <1>3, <2>1, <2>2 DEF GatewayBook, GrantsBook
  <2>4. ListenersBook'
    BY <2>1 DEF GatewayBook, ListenersBook
  <2> QED
    BY <1>3, <2>1, <2>3, <2>4 DEF GatewayBook
<1> QED
  BY <1>1, <1>2, <1>4, <1>5 DEF EngineStep, EngineNext

-----------------------------------------------------------------------------
(* The rules of the routes.                                                  *)

(* How many rules of an Ingress have begun; the backends a host has then.   *)
Position(nn) ==
  IF nn \in todo THEN 0
  ELSE IF InTurn /\ nn = cur THEN (IF phase = "annotations" THEN rule ELSE rule - 1)
  ELSE Len(Ingress(nn).rules)

BackendsSofar(id) == BackendsUpTo(id.ing, id.host)[Position(id.ing)]

PositionOK == InTurn => rule - 1 \in 0 .. Len(This.rules)

LEMMA PositionRange ==
  ASSUME IInv, PositionOK, NEW nn \in Ingresses
  PROVE  Position(nn) \in 0 .. Len(Ingress(nn).rules)
<1>1. /\ Len(Ingress(nn).rules) \in Nat
      /\ DOMAIN Ingress(nn).rules = 1 .. Len(Ingress(nn).rules)
  BY RulesNumbered DEF IInv, TypeOK, ProgressOK
<1>2. phase = "annotations" => rule \in DOMAIN This.rules
  BY DEF IInv, TypeOK, ProgressOK
<1> QED
  BY <1>1, <1>2 DEF Position, PositionOK, This

(* A step that begins no rule moves no position.                            *)
LEMMA TurnPosition ==
  ASSUME IInv, ProgressInv, PositionOK,
         Setup \/ (\E nn \in todo : BeginIngress(nn)) \/ EndRule \/ EndIngress \/ Build
  PROVE  PositionOK' /\ \A nn \in Ingresses : Position(nn)' = Position(nn)
<1>1. input' = input
  BY DEF Setup, BeginIngress, EndRule, EndIngress, Build
<1>2. \A nn : Ingress(nn)' = Ingress(nn)
  BY <1>1 DEF Ingress
<1>3. rule \in Nat \ {0} /\ todo \subseteq Ingresses
      /\ (InTurn => cur \in Ingresses \ todo)
      /\ phase \in {"setup", "ingresses", "rules", "annotations", "done"}
  BY DEF IInv, TypeOK, ProgressOK, InTurn, ProgressInv
<1>4. \A nn \in Ingresses : /\ Len(Ingress(nn).rules) \in Nat
                            /\ DOMAIN Ingress(nn).rules = 1 .. Len(Ingress(nn).rules)
  BY RulesNumbered DEF IInv, TypeOK, ProgressOK
<1>5. CASE Setup \/ Build
  <2>1. phase \in {"setup", "ingresses"} /\ phase' \in {"ingresses", "done"} /\ todo' = todo
    BY <1>5 DEF Setup, Build
  <2> QED
    BY <1>2, <2>1 DEF Position, PositionOK, InTurn
<1>6. ASSUME NEW nn \in todo, BeginIngress(nn)
      PROVE  PositionOK' /\ \A m \in Ingresses : Position(m)' = Position(m)
  <2>1. phase = "ingresses" /\ phase' = "rules" /\ cur' = nn /\ rule' = 1 /\ todo' = todo \ {nn}
    BY <1>6 DEF BeginIngress
  <2>2. This' = Ingress(nn)
    BY <1>2, <2>1 DEF This
  <2>3. PositionOK'
    BY <1>3, <1>4, <2>1, <2>2 DEF PositionOK
  <2> QED
    BY <1>2, <2>1, <2>3 DEF Position, InTurn
<1>7. CASE EndRule
  <2>1. /\ phase = "annotations" /\ phase' = "rules" /\ rule' = rule + 1
        /\ UNCHANGED <<cur, todo>> /\ rule \in DOMAIN This.rules
    BY <1>7 DEF EndRule, IInv, TypeOK, ProgressOK
  <2>2. This' = This
    BY <1>2, <2>1 DEF This
  <2>3. (rule + 1) - 1 = rule
    BY <1>3
  <2>4. PositionOK'
    BY <1>3, <1>4, <2>1, <2>2, <2>3 DEF PositionOK, This, InTurn
  <2> QED
    BY <1>2, <2>1, <2>3, <2>4 DEF Position, InTurn
<1>8. CASE EndIngress
  <2>1. /\ phase = "rules" /\ phase' = "ingresses" /\ UNCHANGED <<cur, todo, rule>>
        /\ rule \notin DOMAIN This.rules
    BY <1>8 DEF EndIngress
  <2>2. rule - 1 = Len(This.rules)
    BY <1>3, <1>4, <2>1 DEF PositionOK, This, InTurn
  <2> QED
    BY <1>2, <2>1, <2>2 DEF Position, PositionOK, InTurn, This
<1> QED
  BY <1>5, <1>6, <1>7, <1>8

(* BeginRule makes one route longer: by the usable paths of its rule if     *)
(* that has an HTTP section.                                                *)
RulesAdded(id) ==
  /\ id = RouteId(cur, HostOf(cur, rule))
  /\ cur \in Ingresses \ todo /\ rule \in DOMAIN Ingress(cur).rules
  /\ OwnRoutes' = OwnRoutes \union {id}
  /\ LET old == IF id \in OwnRoutes THEN routes[id].rules ELSE <<>>
     IN  routes'[id].rules = IF rule \in ActiveRules(cur)
                               THEN old \o RulesOf(Ingress(cur).rules[rule].paths) ELSE old
  /\ \A x \in OwnRoutes : x # id => routes'[x] = routes[x]
  /\ UNCHANGED <<input, todo, cur>>
  /\ Position(cur) = rule - 1
  /\ \A nn \in Ingresses : Position(nn)' = IF nn = cur THEN rule ELSE Position(nn)
  /\ PositionOK'
  /\ rule \in ActiveRules(cur) => phase' = "annotations" /\ rule' = rule
                                  /\ pending' = DOMAIN Ingress(cur).annos

LEMMA BeginRuleRules ==
  ASSUME IInv, ProgressInv, PositionOK, BeginRule
  PROVE  \E id : RulesAdded(id)
<1> DEFINE r       == This.rules[rule]
           id      == RouteId(cur, r.host)
           isNew   == id \notin DOMAIN routes
           route   == IF isNew THEN InitialRoute(r.host) ELSE routes[id]
           grown   == [route EXCEPT !.rules = @ \o RulesOf(r.paths)]
<1>1. /\ phase = "rules" /\ rule \in DOMAIN This.rules
      /\ \/ /\ ~r.http /\ routes' = InsertAt(routes, id, route)
            /\ rule' = rule + 1 /\ phase' = "rules"
         \/ /\ r.http /\ routes' = InsertAt(routes, id, grown)
            /\ rule' = rule /\ phase' = "annotations" /\ pending' = DOMAIN This.annos
      /\ UNCHANGED <<input, todo, cur>>
  BY ZenonT(60) DEF BeginRule
<1>2. /\ cur \in Ingresses \ todo /\ This = Ingress(cur)
      /\ r = Ingress(cur).rules[rule] /\ r.host = HostOf(cur, rule)
      /\ id.ing = cur
      /\ rule \in ActiveRules(cur) <=> r.http
  BY <1>1 DEF IInv, TypeOK, ProgressOK, ProgressInv, InTurn, This, HostOf, RouteId, ActiveRules
<1>3. /\ DOMAIN route = HTTPRouteFields
      /\ route.rules = IF id \in OwnRoutes THEN routes[id].rules ELSE <<>>
  <2>1. CASE isNew
    <3>1. route.rules = <<>> /\ id \notin OwnRoutes
      BY <2>1 DEF InitialRoute, OwnRoutes
    <3> QED
      BY <2>1, <3>1, InitialRouteOK
  <2>2. CASE ~isNew
    BY <1>2, <2>2 DEF OwnRoutes, IInv, TypeOK, GraphOK
  <2> QED
    BY <2>1, <2>2
<1>4. grown.rules = route.rules \o RulesOf(r.paths)
  BY <1>3 DEF HTTPRouteFields
<1> HIDE DEF r, id, isNew, route, grown
<1>5. /\ DOMAIN routes' = DOMAIN routes \union {id}
      /\ routes'[id].rules = IF r.http THEN route.rules \o RulesOf(r.paths) ELSE route.rules
      /\ \A x \in DOMAIN routes : x # id => routes'[x] = routes[x]
  BY <1>1, <1>4 DEF InsertAt
<1>6. OwnRoutes' = OwnRoutes \union {id}
  BY <1>1, <1>2, <1>5 DEF OwnRoutes, Ingresses
<1>7. rule \in Nat \ {0} /\ (rule + 1) - 1 = rule /\ \A nn : Ingress(nn)' = Ingress(nn)
  BY <1>1 DEF IInv, TypeOK, ProgressOK, Ingress
<1>8. /\ Position(cur) = rule - 1
      /\ \A nn \in Ingresses : Position(nn)' = IF nn = cur THEN rule ELSE Position(nn)
  BY <1>1, <1>2, <1>7 DEF Position, InTurn
<1>9. PositionOK'
  <2>1. Len(This.rules) \in Nat /\ DOMAIN This.rules = 1 .. Len(This.rules) /\ This' = This
    BY <1>1, <1>2, <1>7, RulesNumbered DEF This, IInv, TypeOK, ProgressOK
  <2> QED
    BY <1>1, <1>7, <2>1 DEF PositionOK, InTurn
<1>10. RulesAdded(id)
  <2>1. id = RouteId(cur, HostOf(cur, rule))
    BY <1>2 DEF id
  <2>2. \A x \in OwnRoutes : x # id => routes'[x] = routes[x]
    BY <1>5 DEF OwnRoutes
  <2> QED
    BY <1>1, <1>2, <1>3, <1>5, <1>6, <1>8, <1>9, <2>1, <2>2 DEF RulesAdded
<1> QED
  BY <1>10

(* What the handlers see of a rule they did not make.                       *)
RuleFields    == {"svc", "port", "weight", "path", "match", "headerMatches", "rewrite",
                  "redirect", "headers"}
RewriteFields == {"host", "type", "prefix", "full"}

WellFormed(rules) ==
  /\ IsList(rules)
  /\ \A i \in DOMAIN rules : DOMAIN rules[i] = RuleFields /\ DOMAIN rules[i].rewrite = RewriteFields

(* The rules of a route are those of the backends.                          *)
Serve(rules, backends) ==
  /\ DOMAIN rules = DOMAIN backends
  /\ \A i \in DOMAIN rules : /\ rules[i].svc = backends[i].svc
                             /\ rules[i].port = backends[i].port
                             /\ rules[i].path = backends[i].path

LEMMA RulesOfBackends ==
  ASSUME input \in Inputs, NEW nn \in Ingresses, NEW n \in ActiveRules(nn)
  PROVE  LET rules == RulesOf(Ingress(nn).rules[n].paths)
         IN  /\ WellFormed(rules) /\ Serve(rules, BackendsOf(nn, HostOf(nn, n), n))
             /\ \A i \in DOMAIN rules : /\ rules[i].rewrite = NoRewrite
                                        /\ rules[i].redirect = NoRedirect
                                        /\ rules[i].headerMatches = <<>>
<1> DEFINE paths  == Ingress(nn).rules[n].paths
           usable == SubList(paths, {i \in DOMAIN paths : Usable(paths[i])})
           rules  == RulesOf(paths)
<1>1. rules = [i \in DOMAIN usable |-> HTTPRouteRule(usable[i])]
  BY Zenon DEF RulesOf
<1>2. usable = BackendsOf(nn, HostOf(nn, n), n)
  BY DEF BackendsOf, HostOf, Usable, HasService
<1>3. n \in DOMAIN Ingress(nn).rules
  BY DEF ActiveRules
<1>4. IsList(usable)
  BY <1>2, <1>3, BackendsOfRule
<1>5. DOMAIN usable = 1 .. Len(usable) /\ Len(usable) \in Nat
  BY <1>4, ListDomain
<1> HIDE DEF paths, usable
<1>6. /\ DOMAIN rules = DOMAIN usable /\ rules = [i \in DOMAIN rules |-> rules[i]]
      /\ \A i \in DOMAIN usable : rules[i] = HTTPRouteRule(usable[i])
  BY <1>1
<1> HIDE DEF rules
<1>7. IsList(rules)
  BY <1>5, <1>6, ListMade
<1>8. \A x : /\ DOMAIN HTTPRouteRule(x) = RuleFields /\ HTTPRouteRule(x).rewrite = NoRewrite
             /\ HTTPRouteRule(x).svc = x.svc /\ HTTPRouteRule(x).port = x.port
             /\ HTTPRouteRule(x).path = x.path /\ HTTPRouteRule(x).redirect = NoRedirect
             /\ HTTPRouteRule(x).headerMatches = <<>>
  BY DEF HTTPRouteRule, RuleFields
<1>9. DOMAIN NoRewrite = RewriteFields
  BY DEF NoRewrite, RewriteFields
<1> QED
  BY <1>2, <1>6, <1>7, <1>8, <1>9 DEF WellFormed, Serve, rules, paths

LEMMA ServeTogether ==
  ASSUME NEW a, NEW b, NEW x, NEW y, WellFormed(a), WellFormed(b), IsList(x), IsList(y),
         Serve(a, x), Serve(b, y)
  PROVE  WellFormed(a \o b) /\ Serve(a \o b, x \o y)
<1>1. /\ IsList(a) /\ IsList(b)
      /\ Len(a) \in Nat /\ DOMAIN a = 1 .. Len(a) /\ Len(b) \in Nat /\ DOMAIN b = 1 .. Len(b)
      /\ Len(x) \in Nat /\ DOMAIN x = 1 .. Len(x) /\ Len(y) \in Nat /\ DOMAIN y = 1 .. Len(y)
  BY ListDomain DEF WellFormed
<1>2. Len(a) = Len(x) /\ Len(b) = Len(y)
  <2>1. 1 .. Len(a) = 1 .. Len(x) /\ 1 .. Len(b) = 1 .. Len(y)
    BY <1>1 DEF Serve
  <2> QED
    BY <1>1, <2>1, SameLength
<1> DEFINE u == a \o b
           v == x \o y
<1>3. /\ IsList(u) /\ DOMAIN u = 1 .. Len(a) + Len(b) /\ DOMAIN v = 1 .. Len(x) + Len(y)
      /\ \A i \in DOMAIN a : u[i] = a[i]
      /\ \A i \in DOMAIN x : v[i] = x[i]
      /\ \A i \in DOMAIN u : i \notin DOMAIN a => i - Len(a) \in DOMAIN b /\ u[i] = b[i - Len(a)]
      /\ \A i \in DOMAIN v : i \notin DOMAIN x => i - Len(x) \in DOMAIN y /\ v[i] = y[i - Len(x)]
  BY <1>1, ListConcat, ListGrows
<1> HIDE DEF u, v
<1>4. ASSUME NEW i \in DOMAIN u
      PROVE  /\ DOMAIN u[i] = RuleFields /\ DOMAIN u[i].rewrite = RewriteFields
             /\ u[i].svc = v[i].svc /\ u[i].port = v[i].port /\ u[i].path = v[i].path
  <2>1. CASE i \in DOMAIN a
    BY <1>1, <1>2, <1>3, <2>1 DEF WellFormed, Serve
  <2>2. CASE i \notin DOMAIN a
    <3>1. PICK j \in DOMAIN b : j = i - Len(a) /\ u[i] = b[j]
      BY <1>3, <2>2
    <3>2. v[i] = y[j]
      BY <1>1, <1>2, <1>3, <1>4, <2>2, <3>1
    <3> QED
      BY <3>1, <3>2 DEF WellFormed, Serve
  <2> QED
    BY <2>1, <2>2
<1> QED
  BY <1>2, <1>3, <1>4 DEF WellFormed, Serve, u, v

(* No rules, no backends.                                                   *)
LEMMA NothingServed ==
  ASSUME NEW x, DOMAIN x = {}
  PROVE  WellFormed(<<>>) /\ Serve(<<>>, x)
<1>1. IsList(<<>>) /\ DOMAIN <<>> = {}
  BY DEF IsList
<1> QED
  BY <1>1 DEF WellFormed, Serve

(* The invariant: a route has the rules of the backends that have begun, in *)
(* their order.                                                             *)
RulesServed ==
  /\ PositionOK
  /\ \A id \in OwnRoutes : /\ WellFormed(routes[id].rules)
                           /\ Serve(routes[id].rules, BackendsSofar(id))

(* A handler that is over the rules may set what is not of the backend.     *)
Retouched(old, new) ==
  /\ DOMAIN new = DOMAIN old
  /\ IsList(old) => IsList(new)
  /\ \A i \in DOMAIN old :
       /\ new[i].svc = old[i].svc /\ new[i].port = old[i].port /\ new[i].path = old[i].path
       /\ DOMAIN new[i] = DOMAIN old[i] /\ DOMAIN new[i].rewrite = DOMAIN old[i].rewrite

(* An annotation of an Ingress has been handled for all rules of a host     *)
(* that have begun.                                                         *)
HandledFor(id, k) ==
  \A m \in ActiveRules(id.ing) :
    HostOf(id.ing, m) = id.host /\ m <= Position(id.ing) => Over(id.ing, m, k)

LEMMA SameBackends ==
  ASSUME input' = input
  PROVE  \A nn, h : BackendsUpTo(nn, h)' = BackendsUpTo(nn, h)
<1>1. \A nn : Ingress(nn)' = Ingress(nn) /\ ActiveRules(nn)' = ActiveRules(nn)
  BY DEF Ingress, ActiveRules
<1>2. \A nn, h, n : BackendsOf(nn, h, n)' = BackendsOf(nn, h, n)
  BY <1>1 DEF BackendsOf
<1> QED
  BY <1>1, <1>2 DEF BackendsUpTo

LEMMA SamePositions ==
  ASSUME UNCHANGED <<input, phase, todo, cur, rule>>
  PROVE  /\ PositionOK' = PositionOK
         /\ \A nn : Position(nn)' = Position(nn)
         /\ \A id : BackendsSofar(id)' = BackendsSofar(id)
<1>1. \A nn : Ingress(nn)' = Ingress(nn)
  BY DEF Ingress
<1>2. \A nn, h : BackendsUpTo(nn, h)' = BackendsUpTo(nn, h)
  BY SameBackends
<1>3. \A nn : Position(nn)' = Position(nn)
  BY <1>1 DEF Position, InTurn
<1>4. PositionOK' = PositionOK
  BY <1>1 DEF PositionOK, InTurn, This
<1> QED
  BY <1>2, <1>3, <1>4 DEF BackendsSofar

LEMMA HandlerServes ==
  ASSUME IInv, RulesServed, RoutesKept, UNCHANGED <<input, phase, todo, cur, rule>>,
         \A id \in OwnRoutes : Retouched(routes[id].rules, routes'[id].rules)
  PROVE  RulesServed'
<1>1. OwnRoutes' = OwnRoutes
  BY OwnRoutesKept
<1>2. PositionOK' /\ \A id : BackendsSofar(id)' = BackendsSofar(id)
  BY SamePositions DEF RulesServed
<1>3. ASSUME NEW id \in OwnRoutes
      PROVE  WellFormed(routes'[id].rules) /\ Serve(routes'[id].rules, BackendsSofar(id))
  BY DEF RulesServed, Retouched, WellFormed, Serve
<1> QED
  BY <1>1, <1>2, <1>3 DEF RulesServed, WellFormed, Serve

LEMMA BeginRuleServes ==
  ASSUME IInv, ProgressInv, RulesServed, BeginRule
  PROVE  RulesServed'
<1>1. PICK id : RulesAdded(id)
  BY BeginRuleRules DEF RulesServed
<1>2. PICK me, at, host : me = cur /\ at = rule /\ host = HostOf(cur, rule)
  OBVIOUS
<1>3. /\ id = RouteId(me, host) /\ me \in Ingresses \ todo /\ at \in DOMAIN Ingress(me).rules
      /\ OwnRoutes' = OwnRoutes \union {id} /\ input' = input
      /\ Position(me) = at - 1
      /\ \A nn \in Ingresses : Position(nn)' = IF nn = me THEN at ELSE Position(nn)
      /\ PositionOK' /\ Ingresses' = Ingresses
      /\ input \in Inputs
  BY <1>1, <1>2 DEF RulesAdded, IInv, TypeOK, ProgressOK, Ingresses
<1>4. \A nn, h : BackendsUpTo(nn, h)' = BackendsUpTo(nn, h)
  BY <1>3, SameBackends
<1>5. /\ at \in 1 .. Len(Ingress(me).rules) /\ Len(Ingress(me).rules) \in Nat
      /\ at - 1 \in 0 .. Len(Ingress(me).rules)
  BY <1>3, RulesNumbered
<1>6. ASSUME NEW h
      PROVE  /\ BackendsUpTo(me, h)[at] = BackendsUpTo(me, h)[at - 1] \o BackendsOf(me, h, at)
             /\ IsList(BackendsUpTo(me, h)[at - 1])
             /\ IsList(BackendsOf(me, h, at))
  <2>1. BackendsUpTo(me, h)[at] = BackendsUpTo(me, h)[at - 1] \o BackendsOf(me, h, at)
    BY <1>5, BackendsStep
  <2>2. IsList(BackendsUpTo(me, h)[at - 1])
    BY <1>3, <1>5, BackendsList
  <2>3. IsList(BackendsOf(me, h, at))
    BY <1>3, BackendsOfRule
  <2> QED
    BY <2>1, <2>2, <2>3
<1>7. ASSUME NEW x \in OwnRoutes
      PROVE  /\ x.ing \in Ingresses /\ x = RouteId(x.ing, x.host)
             /\ WellFormed(routes[x].rules)
             /\ Serve(routes[x].rules, BackendsUpTo(x.ing, x.host)[Position(x.ing)])
             /\ BackendsSofar(x)' = BackendsUpTo(x.ing, x.host)[Position(x.ing)']
  <2>1. x.ing \in Ingresses /\ WellFormed(routes[x].rules) /\ Serve(routes[x].rules, BackendsSofar(x))
    BY DEF OwnRoutes, RulesServed
  <2>2. x = RouteId(x.ing, x.host)
    <3>1. PICK i : x = RouteId(x.ing, HostOf(x.ing, i))
      BY <2>1 DEF ProgressInv, OwnRoutes
    <3> QED
      BY <3>1 DEF RouteId
  <2> QED
    BY <1>4, <2>1, <2>2 DEF BackendsSofar
<1>8. ASSUME NEW h, BackendsOf(me, h, at) = <<>>, NEW rules, WellFormed(rules),
             Serve(rules, BackendsUpTo(me, h)[at - 1])
      PROVE  Serve(rules, BackendsUpTo(me, h)[at])
  <2>1. PICK x, y : x = BackendsUpTo(me, h)[at - 1] /\ y = BackendsOf(me, h, at)
    OBVIOUS
  <2>2. IsList(x) /\ IsList(y) /\ BackendsUpTo(me, h)[at] = x \o y /\ DOMAIN y = {}
    <3>1. DOMAIN <<>> = {}
      OBVIOUS
    <3>2. IsList(x) /\ BackendsUpTo(me, h)[at] = x \o y
      BY <1>6, <2>1
    <3>3. IsList(y)
      BY <1>6, <2>1
    <3>4. y = <<>>
      BY <1>8, <2>1
    <3> QED
      BY <3>1, <3>2, <3>3, <3>4
  <2>3. /\ \A i \in DOMAIN x : i \in DOMAIN (x \o y) /\ (x \o y)[i] = x[i]
        /\ \A i \in DOMAIN (x \o y) : i \notin DOMAIN x => i - Len(x) \in DOMAIN y
    BY <2>2, ListGrows
  <2> QED
    BY <1>8, <2>1, <2>2, <2>3 DEF Serve
<1>9. ASSUME NEW x \in OwnRoutes, x # id
      PROVE  WellFormed(routes'[x].rules) /\ Serve(routes'[x].rules, BackendsSofar(x)')
  <2>1. routes'[x] = routes[x]
    BY <1>1, <1>9 DEF RulesAdded
  <2>2. CASE x.ing # me
    BY <1>3, <1>7, <2>1, <2>2
  <2>3. CASE x.ing = me
    <3>1. x.host # host
      BY <1>3, <1>7, <1>9, <2>3
    <3>2. BackendsOf(me, x.host, at) = <<>>
      BY <1>2, <3>1 DEF BackendsOf, HostOf
    <3>3. Serve(routes[x].rules, BackendsUpTo(me, x.host)[at])
      BY <1>3, <1>7, <1>8, <2>3, <3>2
    <3> QED
      BY <1>3, <1>7, <2>1, <2>3, <3>3
  <2> QED
    BY <2>2, <2>3
<1>10. WellFormed(routes'[id].rules) /\ Serve(routes'[id].rules, BackendsSofar(id)')
  <2> DEFINE old   == IF id \in OwnRoutes THEN routes[id].rules ELSE <<>>
             sofar == BackendsUpTo(me, host)[at - 1]
             part  == BackendsOf(me, host, at)
             added == RulesOf(Ingress(me).rules[at].paths)
  <2>1. id.ing = me /\ id.host = host
    BY <1>3 DEF RouteId
  <2>2. WellFormed(old) /\ Serve(old, sofar)
    <3>1. CASE id \in OwnRoutes
      BY <1>3, <1>7, <2>1, <3>1
    <3>2. CASE id \notin OwnRoutes
      <4>1. ASSUME NEW i \in DOMAIN sofar
            PROVE  FALSE
        <5>1. PICK m \in ActiveRules(me) : m \in 1 .. (at - 1) /\ HostOf(me, m) = host
          BY <1>3, <1>5, BackendsDeclared
        <5>2. m \in DOMAIN Ingress(me).rules /\ m < at
          BY <1>5, <5>1 DEF ActiveRules
        <5>3. Begun(me, m)
          BY <1>2, <1>3, <5>2 DEF Begun
        <5>4. id \in DOMAIN routes
          BY <1>3, <5>1, <5>2, <5>3 DEF ProgressInv
        <5> QED
          BY <1>3, <2>1, <3>2, <5>4 DEF OwnRoutes
      <4>2. DOMAIN sofar = {}
        BY <4>1
      <4> QED
        BY <3>2, <4>2, NothingServed
    <3> QED
      BY <3>1, <3>2
  <2>3. BackendsSofar(id)' = BackendsUpTo(me, host)[at]
    BY <1>3, <1>4, <2>1 DEF BackendsSofar
  <2>4. CASE at \in ActiveRules(me)
    <3>1. routes'[id].rules = old \o added
      BY <1>1, <1>2, <2>4 DEF RulesAdded
    <3>2. WellFormed(added) /\ Serve(added, part)
      BY <1>2, <1>3, <2>4, RulesOfBackends
    <3>3. IsList(sofar) /\ IsList(part) /\ BackendsUpTo(me, host)[at] = sofar \o part
      BY <1>6
    <3> HIDE DEF old, added, sofar, part
    <3> QED
      BY <2>2, <2>3, <3>1, <3>2, <3>3, ServeTogether
  <2>5. CASE at \notin ActiveRules(me)
    <3>1. routes'[id].rules = old
      BY <1>1, <1>2, <2>5 DEF RulesAdded
    <3>2. part = <<>>
      BY <2>5 DEF BackendsOf
    <3> HIDE DEF old
    <3> QED
      BY <1>8, <2>2, <2>3, <3>1, <3>2
  <2> QED
    BY <2>4, <2>5
<1>11. ASSUME NEW x \in OwnRoutes'
       PROVE  (WellFormed(routes[x].rules) /\ Serve(routes[x].rules, BackendsSofar(x)))'
  BY <1>3, <1>9, <1>10 DEF WellFormed, Serve
<1> QED
  BY <1>3, <1>11 DEF RulesServed

(* The other steps leave the rules alone.                                   *)
LEMMA QuietServes ==
  ASSUME IInv, ProgressInv, RulesServed,
         (EngineStep /\ ~handleIgnoredAnnotation) \/ UNCHANGED vars
  PROVE  RulesServed'
<1>1. CASE BeginRule
  BY <1>1, BeginRuleServes
<1>2. ASSUME UNCHANGED <<input, routes>>, PositionOK', \A nn \in Ingresses : Position(nn)' = Position(nn)
      PROVE  RulesServed'
  <2>1. OwnRoutes' = OwnRoutes
    BY <1>2 DEF OwnRoutes, Ingresses
  <2>2. \A nn, h : BackendsUpTo(nn, h)' = BackendsUpTo(nn, h)
    BY <1>2, SameBackends
  <2>3. \A id \in OwnRoutes : BackendsSofar(id)' = BackendsSofar(id)
    BY <1>2, <2>2 DEF BackendsSofar, OwnRoutes
  <2> QED
    BY <1>2, <2>1, <2>3 DEF RulesServed, WellFormed, Serve
<1>3. CASE Setup \/ (\E nn \in todo : BeginIngress(nn)) \/ EndRule \/ EndIngress \/ Build
  <2>1. UNCHANGED <<input, routes>>
    BY <1>3 DEF Setup, BeginIngress, EndRule, EndIngress, Build, graphVars
  <2> QED
    BY <1>2, <1>3, <2>1, TurnPosition DEF RulesServed
<1>4. CASE UNCHANGED vars
  <2>1. UNCHANGED <<input, phase, todo, cur, rule, routes>>
    BY <1>4 DEF vars, engineVars, progressVars, graphVars
  <2> QED
    BY <1>2, <2>1, SamePositions DEF RulesServed
<1> QED
  BY <1>1, <1>3, <1>4 DEF EngineStep, EngineNext

LEMMA InitServes ==
  ASSUME Init
  PROVE  RulesServed
<1>1. phase = "setup" /\ DOMAIN routes = {}
  BY Zenon DEF Init, EngineInit
<1> QED
  BY <1>1 DEF RulesServed, OwnRoutes, PositionOK, InTurn

-----------------------------------------------------------------------------
(* The steps of a provider.                                                  *)

(* Handlers that leave the routes alone.                                    *)
LEMMA SameRoutesKept ==
  ASSUME UNCHANGED routes
  PROVE  RoutesKept
BY DEF RoutesKept, NamesKept

(* Handlers that leave the identities of the routes alone.                  *)
LEMMA RulesKept ==
  ASSUME IInv, phase = "annotations", NEW rules, ModifyRules(rules)
  PROVE  RoutesKept
<1>1. NamesKept
  BY RulesChanged
<1>2. DOMAIN routes' = DOMAIN routes
  BY DEF ModifyRules
<1> QED
  BY <1>1, <1>2 DEF RoutesKept

(* What every run of a handler for annotation k does.                       *)
Handled(k) ==
  /\ \E a, err : Take(k) /\ Finish(k, a, err)
  /\ RoutesKept

(* It adds its own to what has been handled.                                *)
LEMMA HandledProgress ==
  ASSUME IInv, ProgressInv, NEW k, Handled(k)
  PROVE  /\ ProgressInv'
         /\ \A nn \in Ingresses : \A i \in ActiveRules(nn) : \A j :
              Over(nn, i, j)' <=> Over(nn, i, j) \/ (nn = cur /\ i = rule /\ j = k)
         /\ \A n, j : Askers(n, j)' = Askers(n, j) \union
                       (IF n = ThisRoute.nn /\ j = k THEN {cur} ELSE {})
         /\ phase = "annotations" /\ HasAnnotation(cur, k) /\ Value(k) = AnnotationOf(cur, k)
         /\ ThisRoute.nn \in RouteNNs
         /\ UNCHANGED <<input, phase, todo, cur, rule>>
<1>1. PICK a, err : Take(k) /\ Finish(k, a, err)
  BY DEF Handled
<1>2. RoutesKept
  BY DEF Handled
<1>3. phase = "annotations" /\ k \in DOMAIN This.annos /\ UNCHANGED <<input, phase, todo, cur, rule>>
  BY <1>1 DEF Take, Finish, progressVars, IInv, TypeOK, ProgressOK
<1>4. HasAnnotation(cur, k) /\ Value(k) = AnnotationOf(cur, k)
  BY <1>3 DEF HasAnnotation, AnnotationOf, Value, This
<1> QED
  BY <1>1, <1>2, <1>3, <1>4, HandlerProgress, CurrentRoute

(* The values follow.                                                       *)
LEMMA HandledAnswers ==
  ASSUME IInv, ProgressInv, NEW k, Handled(k)
  PROVE  \E name \in RouteNNs :
           /\ name = ThisRoute.nn
           /\ \A n, j : Asked(n, j)' = Asked(n, j) \union
                          (IF n = name /\ j = k THEN {Value(k)} ELSE {})
<1>1. /\ \A n, j : Askers(n, j)' = Askers(n, j) \union
                     (IF n = ThisRoute.nn /\ j = k THEN {cur} ELSE {})
      /\ Value(k) = AnnotationOf(cur, k) /\ input' = input
  BY HandledProgress
<1>2. PICK name \in RouteNNs : name = ThisRoute.nn
  BY HandledProgress
<1>3. ASSUME NEW n, NEW j
      PROVE  Asked(n, j)' = Asked(n, j) \union
               (IF n = name /\ j = k THEN {Value(k)} ELSE {})
  <2> DEFINE S == IF n = name /\ j = k THEN {cur} ELSE {}
  <2>1. Askers(n, j)' = Askers(n, j) \union S
    BY <1>1, <1>2
  <2> HIDE DEF S
  <2>2. Asked(n, j)' = Asked(n, j) \union {AnnotationOf(nn, j) : nn \in S}
    BY <1>1, <2>1, AnswersGrow
  <2> QED
    BY <1>1, <2>2 DEF S
<1> QED
  BY <1>2, <1>3

(* The other steps add nothing, and change no policy.                       *)
LEMMA QuietProgress ==
  ASSUME IInv, ProgressInv,
         (EngineStep /\ ~handleIgnoredAnnotation) \/ UNCHANGED vars
  PROVE  /\ ProgressInv' /\ SameAskers /\ input' = input
         /\ UNCHANGED <<redirect, anno, policyVars>>
         /\ todo' \subseteq todo
         /\ http => http'
         /\ DOMAIN graphRoutes \subseteq DOMAIN graphRoutes'
         /\ BeginRule \/ OwnRoutes' = OwnRoutes
<1>1. CASE EngineStep /\ ~handleIgnoredAnnotation
  <2>1. ProgressInv' /\ SameAskers
    BY <1>1, EngineProgress
  <2>2. UNCHANGED policyVars
    BY <1>1 DEF EngineStep
  <2>3. /\ UNCHANGED <<input, redirect, anno>> /\ todo' \subseteq todo /\ (http => http')
        /\ DOMAIN graphRoutes \subseteq DOMAIN graphRoutes'
        /\ BeginRule \/ OwnRoutes' = OwnRoutes
    <3>1. CASE Setup \/ (\E nn \in todo : BeginIngress(nn)) \/ EndIngress \/ Build
      <4>1. /\ UNCHANGED <<input, redirect, anno, http, graphRoutes, routes>>
            /\ todo' \subseteq todo
        BY <3>1 DEF Setup, BeginIngress, EndIngress, Build, graphVars
      <4> QED
        BY <4>1 DEF OwnRoutes, Ingresses
    <3>2. CASE BeginRule
      BY <3>2, ZenonT(30) DEF BeginRule
    <3>3. CASE EndRule
      BY <3>3 DEF EndRule, InsertAt, OwnRoutes, Ingresses
    <3> QED
      BY <1>1, <3>1, <3>2, <3>3 DEF EngineStep, EngineNext
  <2> QED
    BY <2>1, <2>2, <2>3
<1>2. CASE UNCHANGED vars
  BY <1>2, StutterProgress DEF vars, engineVars, progressVars, graphVars, OwnRoutes, Ingresses
<1> QED
  BY <1>1, <1>2

(* The names of the routes are fixed by the input.                          *)
LEMMA SameNames ==
  ASSUME input' = input
  PROVE  RouteNNs' = RouteNNs
<1>1. ActivePairs' = ActivePairs
  BY DEF ActivePairs, ActiveHosts, ActiveRules, Ingresses, Ingress
<1>2. \A p : PairNN(p)' = PairNN(p)
  BY DEF PairNN, RouteNN
<1> QED
  BY <1>1, <1>2 DEF RouteNNs

-----------------------------------------------------------------------------
(* The Gateway at the end.                                                   *)

(* The listeners of the Gateway, as build sorts them, are those that have   *)
(* been ensured: none is lost, whichever hosts they are for.                *)
LEMMA BuiltAreEnsured ==
  ASSUME ListenersBook, phase = "done"
  PROVE  {gateway[i] : i \in DOMAIN gateway} = ListenerNames
<1> DEFINE S           == DOMAIN https
           n           == Cardinality(S)
           position(h) == Cardinality({g \in S : g <= h})
           at(i)       == Nth(S, i)
           sorted      == [i \in 1 .. n |-> ListenerName(at(i))]
           first       == IF http THEN <<HTTPListenerName>> ELSE <<>>
           names       == {HTTPListenerName} \union {ListenerName(h) : h \in S}
<1>1. gateway = first \o sorted
  BY Zenon DEF ListenersBook, BuiltListeners
<1>2. n \in Nat /\ IsFiniteSet(S) /\ S \subseteq Nat
  BY FS_CardinalityType DEF ListenersBook
<1>3. /\ \A h \in S : position(h) \in 1 .. n
      /\ \A h, g \in S : position(h) = position(g) => h = g
      /\ \A i \in 1 .. n : \E h \in S : position(h) = i
  BY <1>2, CountedOff
<1> HIDE DEF n, position, S
<1>4. \A i \in 1 .. n : at(i) \in S /\ position(at(i)) = i
  BY <1>3 DEF Nth, position
<1>5. \A h \in S : at(position(h)) = h
  BY <1>3, <1>4
<1> HIDE DEF at
<1>6. sorted \in Seq(names) /\ Len(sorted) = n
  BY <1>2, <1>4
<1>7. /\ first \in Seq(names) /\ DOMAIN first = 1 .. Len(first)
      /\ Len(first) = IF http THEN 1 ELSE 0
      /\ \A i \in 1 .. Len(first) : http /\ first[i] = HTTPListenerName
      /\ http => first[1] = HTTPListenerName
  <2>1. CASE http
    <3>1. first = <<HTTPListenerName>>
      BY <2>1
    <3> HIDE DEF first
    <3> QED
      BY <2>1, <3>1
  <2>2. CASE ~http
    <3>1. first = <<>>
      BY <2>2
    <3> HIDE DEF first
    <3> QED
      BY <2>2, <3>1
  <2> QED
    BY <2>1, <2>2
<1>8. \A i \in 1 .. n : sorted[i] = ListenerName(at(i))
  OBVIOUS
<1> HIDE DEF names, sorted, first
<1>9. /\ gateway \in Seq(names) /\ Len(gateway) = Len(first) + n
      /\ \A i \in 1 .. Len(first) + n :
           gateway[i] = IF i <= Len(first) THEN first[i] ELSE sorted[i - Len(first)]
  BY <1>1, <1>6, <1>7, ConcatProperties
<1>10. DOMAIN gateway = 1 .. Len(first) + n /\ Len(first) \in Nat
  BY <1>7, <1>9, LenProperties
<1>11. ListenerNames = (IF http THEN {HTTPListenerName} ELSE {}) \union {ListenerName(h) : h \in S}
  BY DEF ListenerNames, S
<1>12. ASSUME NEW i \in DOMAIN gateway
       PROVE  gateway[i] \in ListenerNames
  <2>1. CASE i <= Len(first)
    BY <1>7, <1>9, <1>10, <1>11, <1>12, <2>1
  <2>2. CASE ~(i <= Len(first))
    <3>1. i - Len(first) \in 1 .. n
      BY <1>2, <1>10, <1>12, <2>2
    <3> QED
      BY <1>4, <1>8, <1>9, <1>10, <1>11, <1>12, <2>2, <3>1
  <2> QED
    BY <2>1, <2>2
<1>13. ASSUME NEW name \in ListenerNames
       PROVE  \E i \in DOMAIN gateway : gateway[i] = name
  <2>1. CASE http /\ name = HTTPListenerName
    <3>1. 1 \in DOMAIN gateway /\ gateway[1] = name
      BY <1>2, <1>7, <1>9, <1>10, <2>1
    <3> QED
      BY <3>1
  <2>2. ASSUME NEW h \in S, name = ListenerName(h)
        PROVE  \E i \in DOMAIN gateway : gateway[i] = name
    <3> DEFINE i == Len(first) + position(h)
    <3>1. position(h) \in 1 .. n
      BY <1>3
    <3>2. i \in 1 .. Len(first) + n /\ ~(i <= Len(first)) /\ i - Len(first) = position(h)
      BY <1>2, <1>10, <3>1
    <3>3. gateway[i] = name
      BY <1>5, <1>8, <1>9, <2>2, <3>1, <3>2
    <3> QED
      BY <1>10, <3>2, <3>3
  <2> QED
    BY <1>11, <2>1, <2>2
<1> QED
  BY <1>12, <1>13

-----------------------------------------------------------------------------
(* The routes in the graph.                                                  *)

(* A rule has been through, to the end of its pass.                         *)
Stored(nn, i) ==
  i <= Position(nn) /\ ~(phase = "annotations" /\ nn = cur /\ i = rule)

(* The graph names the route of every rule that has been through, and no    *)
(* other route of an Ingress.                                               *)
GraphBook ==
  /\ \A n \in DOMAIN graphRoutes :
       \/ n = RedirectNN
       \/ \E nn \in Ingresses : \E i \in ActiveRules(nn) :
            /\ Stored(nn, i) /\ n = RouteNN(nn, HostOf(nn, i))
            /\ graphRoutes[n] = RouteId(nn, HostOf(nn, i))
  /\ \A nn \in Ingresses : \A i \in ActiveRules(nn) :
       Stored(nn, i) => RouteNN(nn, HostOf(nn, i)) \in DOMAIN graphRoutes

(* A step that stores no route takes no rule through.                       *)
LEMMA GraphKept ==
  ASSUME GraphBook, input' = input,
         \A n \in DOMAIN graphRoutes' : n # RedirectNN => n \in DOMAIN graphRoutes
                                                        /\ graphRoutes'[n] = graphRoutes[n],
         DOMAIN graphRoutes \subseteq DOMAIN graphRoutes',
         \A nn \in Ingresses : \A i \in ActiveRules(nn) : Stored(nn, i)' <=> Stored(nn, i)
  PROVE  GraphBook'
<1>1. /\ Ingresses' = Ingresses /\ RedirectNN' = RedirectNN
      /\ \A nn : ActiveRules(nn)' = ActiveRules(nn)
      /\ \A nn, i : HostOf(nn, i)' = HostOf(nn, i)
  BY SameNamespace DEF Ingresses, Ingress, ActiveRules, HostOf, RedirectNN
<1>2. ASSUME NEW n \in DOMAIN graphRoutes', n # RedirectNN
      PROVE  \E nn \in Ingresses : \E i \in ActiveRules(nn) :
               /\ Stored(nn, i)' /\ n = RouteNN(nn, HostOf(nn, i))
               /\ graphRoutes'[n] = RouteId(nn, HostOf(nn, i))
  BY <1>2 DEF GraphBook
<1>3. ASSUME NEW nn \in Ingresses, NEW i \in ActiveRules(nn), Stored(nn, i)'
      PROVE  RouteNN(nn, HostOf(nn, i)) \in DOMAIN graphRoutes'
  BY <1>3 DEF GraphBook
<1> QED
  BY <1>1, <1>2, <1>3 DEF GraphBook

LEMMA HandlerGraph ==
  ASSUME GraphBook, UNCHANGED <<input, phase, todo, cur, rule>>,
         \A n \in DOMAIN graphRoutes' : n # RedirectNN => n \in DOMAIN graphRoutes
                                                        /\ graphRoutes'[n] = graphRoutes[n],
         DOMAIN graphRoutes \subseteq DOMAIN graphRoutes'
  PROVE  GraphBook'
<1>1. \A nn : Position(nn)' = Position(nn)
  BY SamePositions
<1>2. \A nn, i : Stored(nn, i)' <=> Stored(nn, i)
  BY <1>1 DEF Stored
<1> QED
  BY <1>2, GraphKept

(* At the start no rule has been through.                                   *)
LEMMA InitGraph ==
  ASSUME Init
  PROVE  GraphBook
<1>1. DOMAIN graphRoutes = {} /\ todo = Ingresses
  BY Zenon DEF Init, EngineInit
<1>2. \A nn \in Ingresses : \A i \in ActiveRules(nn) : ~Stored(nn, i)
  <2>1. IInv
    BY InitInv
  <2>2. \A nn \in Ingresses : \A i \in ActiveRules(nn) : ~(i <= 0)
    BY <2>1, RulesNumbered DEF IInv, TypeOK, ProgressOK
  <2> QED
    BY <1>1, <2>2 DEF Stored, Position
<1> QED
  BY <1>1, <1>2 DEF GraphBook

LEMMA QuietGraph ==
  ASSUME IInv, ProgressInv, PositionOK, GraphBook,
         (EngineStep /\ ~handleIgnoredAnnotation) \/ UNCHANGED vars
  PROVE  GraphBook'
<1>1. input' = input
  BY QuietProgress
<1>2. \A nn \in Ingresses : ActiveRules(nn) \subseteq Nat /\ Position(nn) \in Nat
  BY RulesNumbered, PositionRange DEF IInv, TypeOK, ProgressOK, ActiveRules
<1>3. CASE BeginRule
  <2>1. UNCHANGED graphRoutes /\ phase = "rules"
    BY <1>3, ZenonT(60) DEF BeginRule
  <2>2. PICK id : RulesAdded(id)
    BY <1>3, BeginRuleRules
  <2>3. PICK me \in Ingresses, at \in Nat : me = cur /\ at = rule
    BY <2>2 DEF RulesAdded, IInv, TypeOK, ProgressOK
  <2>4. /\ Position(me) = at - 1 /\ cur' = me
        /\ \A nn \in Ingresses : Position(nn)' = IF nn = me THEN at ELSE Position(nn)
        /\ at \in ActiveRules(me) => phase' = "annotations" /\ rule' = at
    BY <2>2, <2>3 DEF RulesAdded
  <2>5. ASSUME NEW nn \in Ingresses, NEW i \in ActiveRules(nn)
        PROVE  Stored(nn, i)' <=> Stored(nn, i)
    <3>1. i \in Nat /\ (i <= at - 1 <=> i <= at /\ i # at)
      BY <1>2, <2>3
    <3>2. CASE at \in ActiveRules(me)
      BY <2>1, <2>3, <2>4, <3>1, <3>2 DEF Stored
    <3>3. CASE at \notin ActiveRules(me)
      <4>1. phase' = "annotations" => rule' = at
        BY <1>3, <2>3, ZenonT(60) DEF BeginRule
      <4> QED
        BY <2>1, <2>3, <2>4, <3>1, <3>3, <4>1 DEF Stored
    <3> QED
      BY <3>2, <3>3
  <2> QED
    BY <1>1, <2>1, <2>5, GraphKept
<1>4. CASE Setup \/ (\E nn \in todo : BeginIngress(nn)) \/ EndIngress \/ Build
  <2>1. UNCHANGED graphRoutes /\ phase # "annotations" /\ phase' # "annotations"
    BY <1>4 DEF Setup, BeginIngress, EndIngress, Build, graphVars
  <2>2. \A nn \in Ingresses : Position(nn)' = Position(nn)
    BY <1>4, TurnPosition
  <2>3. \A nn \in Ingresses : \A i : Stored(nn, i)' <=> Stored(nn, i)
    BY <2>1, <2>2 DEF Stored
  <2> QED
    BY <1>1, <2>1, <2>3, GraphKept
<1>5. CASE EndRule
  <2>1. /\ graphRoutes' = InsertAt(graphRoutes, ThisRoute.nn, ThisRouteId)
        /\ phase = "annotations" /\ phase' = "rules"
    BY <1>5 DEF EndRule
  <2>2. PICK me, at : /\ me = cur /\ at = rule /\ me \in Ingresses /\ at \in ActiveRules(me)
                      /\ ThisRouteId = RouteId(me, HostOf(me, at))
                      /\ ThisRoute.nn = RouteNN(me, HostOf(me, at))
    BY <2>1, CurrentRoute
  <2>3. \A nn \in Ingresses : Position(nn)' = Position(nn)
    BY <1>5, TurnPosition
  <2>4. Position(me) = at
    BY <2>1, <2>2 DEF Position, ProgressInv, InTurn
  <2>5. ASSUME NEW nn \in Ingresses, NEW i \in ActiveRules(nn)
        PROVE  Stored(nn, i)' <=> Stored(nn, i) \/ (nn = me /\ i = at)
    BY <1>2, <2>1, <2>2, <2>3, <2>4 DEF Stored
  <2>6. /\ Ingresses' = Ingresses /\ RedirectNN' = RedirectNN
        /\ \A nn : ActiveRules(nn)' = ActiveRules(nn)
        /\ \A nn, i : HostOf(nn, i)' = HostOf(nn, i)
    BY <1>1, SameNamespace DEF Ingresses, Ingress, ActiveRules, HostOf, RedirectNN
  <2>7. PICK name : name = RouteNN(me, HostOf(me, at))
    OBVIOUS
  <2>8. /\ DOMAIN graphRoutes' = DOMAIN graphRoutes \union {name}
        /\ graphRoutes'[name] = RouteId(me, HostOf(me, at))
        /\ \A n \in DOMAIN graphRoutes : n # name => graphRoutes'[n] = graphRoutes[n]
    BY <2>1, <2>2, <2>7 DEF InsertAt
  <2>9. ASSUME NEW n \in DOMAIN graphRoutes', n # RedirectNN
        PROVE  \E nn \in Ingresses : \E i \in ActiveRules(nn) :
                 /\ Stored(nn, i)' /\ n = RouteNN(nn, HostOf(nn, i))
                 /\ graphRoutes'[n] = RouteId(nn, HostOf(nn, i))
    <3>1. CASE n = name
      BY <2>2, <2>5, <2>7, <2>8, <3>1
    <3>2. CASE n # name
      <4>1. PICK nn \in Ingresses : \E i \in ActiveRules(nn) :
              /\ Stored(nn, i) /\ n = RouteNN(nn, HostOf(nn, i))
              /\ graphRoutes[n] = RouteId(nn, HostOf(nn, i))
        BY <2>8, <2>9, <3>2 DEF GraphBook
      <4> QED
        BY <2>5, <2>8, <3>2, <4>1
    <3> QED
      BY <3>1, <3>2
  <2>10. ASSUME NEW nn \in Ingresses, NEW i \in ActiveRules(nn), Stored(nn, i)'
         PROVE  RouteNN(nn, HostOf(nn, i)) \in DOMAIN graphRoutes'
    BY <2>5, <2>7, <2>8, <2>10 DEF GraphBook
  <2> QED
    BY <2>6, <2>9, <2>10 DEF GraphBook
<1>6. CASE UNCHANGED vars
  BY <1>6, HandlerGraph DEF vars, engineVars, progressVars, graphVars
<1> QED
  BY <1>3, <1>4, <1>5, <1>6 DEF EngineStep, EngineNext

(* At the end every host with a rule that has an HTTP section has a route,  *)
(* and all its backends have begun.                                         *)
LEMMA RoutesAtEnd ==
  ASSUME IInv, ProgressInv, Done, NEW p \in ActivePairs
  PROVE  /\ p[1] \in Ingresses /\ PairId(p) \in OwnRoutes
         /\ PairId(p).ing = p[1] /\ PairId(p).host = p[2]
         /\ BackendsSofar(PairId(p)) = DeclaredBackends(p[1], p[2])
<1>1. PICK nn \in Ingresses : p \in {nn} \X ActiveHosts(nn)
  BY DEF ActivePairs
<1>2. PICK m \in ActiveRules(nn) : p[1] = nn /\ p[2] = HostOf(nn, m)
  BY <1>1 DEF ActiveHosts, HostOf
<1>3. todo = {} /\ ~InTurn
  BY DEF ProgressInv, Done, InTurn
<1>4. m \in DOMAIN Ingress(nn).rules /\ Begun(nn, m)
  BY <1>3 DEF ActiveRules, Begun
<1>5. RouteId(nn, p[2]) \in DOMAIN routes
  BY <1>2, <1>4 DEF ProgressInv
<1>6. PairId(p) = RouteId(nn, p[2]) /\ PairId(p).ing = nn /\ PairId(p).host = p[2]
  BY <1>2 DEF PairId, RouteId
<1>7. BackendsSofar(PairId(p)) = DeclaredBackends(p[1], p[2])
  BY <1>2, <1>3, <1>6 DEF BackendsSofar, Position, DeclaredBackends
<1> QED
  BY <1>2, <1>5, <1>6, <1>7 DEF OwnRoutes

(* With unique names, the graph at the end holds one route for every host   *)
(* with a rule that has an HTTP section.                                    *)
LEMMA GraphAtEnd ==
  ASSUME IInv, ProgressInv, PositionOK, GraphBook, Done, NamesAreUnique
  PROVE  /\ DOMAIN graphRoutes \ {RedirectNN} = {PairNN(p) : p \in ActivePairs}
         /\ \A p \in ActivePairs : graphRoutes[PairNN(p)] = PairId(p)
<1>1. todo = {} /\ ~InTurn /\ phase # "annotations"
  BY DEF ProgressInv, Done, InTurn
<1>2. ASSUME NEW nn \in Ingresses, NEW i \in ActiveRules(nn)
      PROVE  Stored(nn, i)
  <2>1. i \in 1 .. Len(Ingress(nn).rules)
    BY RulesNumbered DEF IInv, TypeOK, ProgressOK, ActiveRules
  <2> QED
    BY <1>1, <2>1, RulesNumbered DEF Stored, Position, IInv, TypeOK, ProgressOK
<1>3. ASSUME NEW nn \in Ingresses, NEW i \in ActiveRules(nn)
      PROVE  \E p \in ActivePairs : /\ PairNN(p) = RouteNN(nn, HostOf(nn, i))
                                    /\ PairId(p) = RouteId(nn, HostOf(nn, i))
  <2>1. <<nn, HostOf(nn, i)>> \in ActivePairs
    BY DEF ActivePairs, ActiveHosts, HostOf
  <2> QED
    BY <2>1 DEF PairNN, PairId
<1>4. ASSUME NEW p \in ActivePairs
      PROVE  PairNN(p) \in DOMAIN graphRoutes /\ PairNN(p) # RedirectNN
  <2>1. PICK nn \in Ingresses : p \in {nn} \X ActiveHosts(nn)
    BY DEF ActivePairs
  <2>2. PICK i \in ActiveRules(nn) : p[1] = nn /\ p[2] = HostOf(nn, i)
    BY <2>1 DEF ActiveHosts, HostOf
  <2>3. PairNN(p) = RouteNN(nn, HostOf(nn, i))
    BY <2>2 DEF PairNN
  <2> QED
    BY <1>2, <2>3 DEF GraphBook, NamesAreUnique
<1>5. ASSUME NEW n \in DOMAIN graphRoutes, n # RedirectNN
      PROVE  \E p \in ActivePairs : n = PairNN(p) /\ graphRoutes[n] = PairId(p)
  BY <1>3, <1>5 DEF GraphBook
<1>6. ASSUME NEW p \in ActivePairs
      PROVE  graphRoutes[PairNN(p)] = PairId(p)
  BY <1>4, <1>5 DEF NamesAreUnique
<1> QED
  BY <1>4, <1>5, <1>6

-----------------------------------------------------------------------------
(* The services behind the routes.                                           *)

(* The services of a host when its Ingress is at rule i.                    *)
ServicesOfBackends(nn, backends) == {[ns |-> nn.ns, name |-> backends[x].svc] : x \in DOMAIN backends}

ServicesUpTo(nn, i) == ServicesOfBackends(nn, BackendsUpTo(nn, HostOf(nn, i))[i])

(* A backend has a service with a name.                                     *)
LEMMA BackendsNamed ==
  ASSUME input \in Inputs, NEW nn \in Ingresses, NEW host,
         NEW n \in 0 .. Len(Ingress(nn).rules), NEW x \in DOMAIN BackendsUpTo(nn, host)[n]
  PROVE  BackendsUpTo(nn, host)[n][x].svc # NoService
<1>1. PICK m \in ActiveRules(nn) : \E j \in DOMAIN Ingress(nn).rules[m].paths :
        /\ BackendsUpTo(nn, host)[n][x] = Ingress(nn).rules[m].paths[j]
        /\ Ingress(nn).rules[m].paths[j].kind = "service"
  BY BackendsDeclared
<1>2. m \in DOMAIN Ingress(nn).rules
  BY DEF ActiveRules
<1>3. \A j \in DOMAIN Ingress(nn).rules[m].paths :
        Ingress(nn).rules[m].paths[j].kind = "service" =>
          Ingress(nn).rules[m].paths[j].svc # NoService
  BY <1>2, PathsAssumption DEF Ingress, Ingresses
<1> QED
  BY <1>1, <1>3

(* The services of the current route are those of the rules so far.         *)
LEMMA CurrentServices ==
  ASSUME IInv, ProgressInv, RulesServed, phase = "annotations"
  PROVE  /\ Services(ThisRoute) = ServicesUpTo(cur, rule)
         /\ Serve(ThisRoute.rules, BackendsUpTo(cur, HostOf(cur, rule))[rule])
         /\ \A x \in DOMAIN ThisRoute.rules : ThisRoute.rules[x].svc # NoService
         /\ rule \in 0 .. Len(Ingress(cur).rules)
<1>1. PICK me, at : /\ me = cur /\ at = rule /\ me \in Ingresses /\ at \in ActiveRules(me)
                    /\ ThisRouteId \in DOMAIN routes /\ ThisRouteId = RouteId(me, HostOf(me, at))
                    /\ ThisRoute.nn = RouteNN(me, HostOf(me, at))
  BY CurrentRoute
<1>2. ThisRouteId \in OwnRoutes /\ ThisRouteId.ing = me /\ ThisRouteId.host = HostOf(me, at)
  BY <1>1 DEF OwnRoutes, RouteId
<1>3. Position(me) = at /\ at \in 0 .. Len(Ingress(me).rules)
  <2>1. Position(me) = at
    BY <1>1 DEF Position, InTurn, ProgressInv
  <2> QED
    BY <1>1, <2>1, PositionRange DEF RulesServed
<1>4. BackendsSofar(ThisRouteId) = BackendsUpTo(me, HostOf(me, at))[at]
  BY <1>2, <1>3 DEF BackendsSofar
<1>5. Serve(ThisRoute.rules, BackendsUpTo(me, HostOf(me, at))[at])
  BY <1>2, <1>4 DEF RulesServed, ThisRoute
<1>6. PICK r, b, ns : r = ThisRoute.rules /\ b = BackendsUpTo(me, HostOf(me, at))[at] /\ ns = me.ns
  OBVIOUS
<1>7. \A x \in DOMAIN b : b[x].svc # NoService
  BY <1>1, <1>3, <1>6, BackendsNamed DEF IInv, TypeOK, ProgressOK
<1>8. DOMAIN r = DOMAIN b /\ \A x \in DOMAIN b : r[x].svc = b[x].svc
  BY <1>5, <1>6 DEF Serve
<1>9. ThisRoute.nn.ns = ns
  BY <1>1, <1>6 DEF RouteNN
<1>10. Services(ThisRoute) = {[ns |-> ns, name |-> r[x].svc] : x \in DOMAIN r}
  <2>1. BackendRules(ThisRoute) = DOMAIN r
    BY <1>6, <1>7, <1>8 DEF BackendRules
  <2> QED
    BY <1>6, <1>9, <2>1 DEF Services, ServiceNN
<1>11. ServicesUpTo(me, at) = {[ns |-> ns, name |-> b[x].svc] : x \in DOMAIN b}
  BY <1>6 DEF ServicesUpTo, ServicesOfBackends
<1>12. Services(ThisRoute) = ServicesUpTo(me, at)
  BY <1>8, <1>10, <1>11
<1> QED
  BY <1>1, <1>3, <1>5, <1>6, <1>7, <1>8, <1>12

(* The services of a host are those it has at one of its rules.             *)
LEMMA ServicesDeclared ==
  ASSUME input \in Inputs, NEW nn \in Ingresses
  PROVE  /\ \A host : \A s \in DeclaredServices(nn, host) :
              s.ns = nn.ns /\ \E m \in ActiveRules(nn) : HostOf(nn, m) = host /\ s \in ServicesUpTo(nn, m)
         /\ \A m \in ActiveRules(nn) : ServicesUpTo(nn, m) \subseteq DeclaredServices(nn, HostOf(nn, m))
<1>1. /\ Len(Ingress(nn).rules) \in Nat /\ Len(Ingress(nn).rules) \in 0 .. Len(Ingress(nn).rules)
      /\ ActiveRules(nn) \subseteq 1 .. Len(Ingress(nn).rules)
  BY RulesNumbered
<1>2. ASSUME NEW host, NEW s \in DeclaredServices(nn, host)
      PROVE  s.ns = nn.ns /\ \E m \in ActiveRules(nn) : HostOf(nn, m) = host /\ s \in ServicesUpTo(nn, m)
  <2>1. PICK f, L : f = BackendsUpTo(nn, host) /\ L = Len(Ingress(nn).rules)
    OBVIOUS
  <2>2. PICK x \in DOMAIN f[L] : s = [ns |-> nn.ns, name |-> f[L][x].svc]
    BY <1>2, <2>1 DEF DeclaredServices, DeclaredBackends
  <2>3. PICK m \in ActiveRules(nn) : m \in 1 .. L /\ HostOf(nn, m) = host /\ x \in DOMAIN f[m]
    BY <1>1, <2>1, <2>2, BackendsDeclared
  <2>4. f[L][x] = f[m][x]
    <3>1. L \in 0 .. L /\ m \in 0 .. L
      BY <1>1, <2>1, <2>3
    <3> QED
      BY <2>1, <2>3, <3>1, BackendsGrow
  <2>5. s \in ServicesUpTo(nn, m)
    BY <2>1, <2>2, <2>3, <2>4 DEF ServicesUpTo, ServicesOfBackends
  <2> QED
    BY <2>2, <2>3, <2>5
<1>3. ASSUME NEW m \in ActiveRules(nn), NEW s \in ServicesUpTo(nn, m)
      PROVE  s \in DeclaredServices(nn, HostOf(nn, m))
  <2>1. PICK f, L : f = BackendsUpTo(nn, HostOf(nn, m)) /\ L = Len(Ingress(nn).rules)
    OBVIOUS
  <2>2. PICK x \in DOMAIN f[m] : s = [ns |-> nn.ns, name |-> f[m][x].svc]
    BY <1>3, <2>1 DEF ServicesUpTo, ServicesOfBackends
  <2>3. L \in 0 .. L /\ m \in 0 .. L
    BY <1>1, <2>1
  <2>4. x \in DOMAIN f[L] /\ f[L][x] = f[m][x]
    BY <2>1, <2>2, <2>3, BackendsGrow
  <2> QED
    BY <2>1, <2>2, <2>4 DEF DeclaredServices, DeclaredBackends
<1> QED
  BY <1>2, <1>3

(* The least number of a set.                                               *)
LEMMA LeastIs ==
  ASSUME NEW S \in SUBSET Nat, NEW m \in S, \A x \in S : m <= x
  PROVE  Min(S) = m
<1> DEFINE least(x) == x \in S /\ \A y \in S : x <= y
<1>1. \A x : least(x) => x = m
  OBVIOUS
<1>2. least(m)
  OBVIOUS
<1>3. Min(S) = CHOOSE x : least(x)
  BY DEF Min
<1> HIDE DEF least
<1> QED
  BY <1>1, <1>2, <1>3

(* The port NewBackendGroup keeps of a service is that of its first backend.*)
PortOf(nn, host, svc) ==
  FirstPort([nn |-> RouteNN(nn, host), rules |-> DeclaredBackends(nn, host)], svc)

(* It is settled as soon as the service has a rule: later rules come behind.*)
LEMMA CurrentPorts ==
  ASSUME IInv, ProgressInv, RulesServed, phase = "annotations", NEW svc \in Services(ThisRoute)
  PROVE  FirstPort(ThisRoute, svc) = PortOf(cur, HostOf(cur, rule), svc)
<1>1. PICK me, at, host : /\ me = cur /\ at = rule /\ host = HostOf(me, at)
                          /\ me \in Ingresses /\ ThisRoute.nn = RouteNN(me, host)
  BY CurrentRoute
<1>2. PICK f, L : f = BackendsUpTo(me, host) /\ L = Len(Ingress(me).rules)
  OBVIOUS
<1>3. PICK r, d, ns : r = ThisRoute.rules /\ d = f[L] /\ ns = me.ns
  OBVIOUS
<1>4. /\ Serve(r, f[at]) /\ (\A x \in DOMAIN r : r[x].svc # NoService) /\ at \in 0 .. L
  BY <1>1, <1>2, <1>3, CurrentServices
<1>5. L \in Nat /\ L \in 0 .. L /\ input \in Inputs
  BY <1>1, <1>2, RulesNumbered DEF IInv, TypeOK, ProgressOK
<1>6. IsList(f[at]) /\ IsList(d)
  BY <1>1, <1>2, <1>3, <1>4, <1>5, BackendsList
<1>7. \A x \in DOMAIN f[at] : x \in DOMAIN d /\ d[x] = f[at][x]
  BY <1>1, <1>2, <1>3, <1>4, <1>5, BackendsGrow
<1>8. \A x \in DOMAIN d : d[x].svc # NoService
  BY <1>1, <1>2, <1>3, <1>5, BackendsNamed
<1>9. /\ DOMAIN r = 1 .. Len(f[at]) /\ DOMAIN d = 1 .. Len(d)
      /\ Len(f[at]) \in Nat /\ Len(d) \in Nat /\ Len(f[at]) <= Len(d)
  <2>1. /\ DOMAIN f[at] = 1 .. Len(f[at]) /\ DOMAIN d = 1 .. Len(d)
        /\ Len(f[at]) \in Nat /\ Len(d) \in Nat
    BY <1>6, ListDomain
  <2>2. 1 .. Len(f[at]) \subseteq 1 .. Len(d)
    BY <1>7, <2>1
  <2> QED
    BY <1>4, <2>1, <2>2 DEF Serve
<1> DEFINE A == {x \in DOMAIN r : [ns |-> ns, name |-> r[x].svc] = svc}
           B == {x \in DOMAIN d : [ns |-> ns, name |-> d[x].svc] = svc}
<1>10. FirstPort(ThisRoute, svc) = r[Min(A)].port /\ A # {}
  <2>1. BackendRules(ThisRoute) = DOMAIN r
    BY <1>3, <1>4 DEF BackendRules
  <2>2. ThisRoute.nn.ns = ns
    BY <1>1, <1>3 DEF RouteNN
  <2> QED
    BY <1>3, <2>1, <2>2 DEF FirstPort, ServiceNN, Services
<1>11. PortOf(me, host, svc) = d[Min(B)].port
  <2> DEFINE route == [nn |-> RouteNN(me, host), rules |-> d]
  <2>1. PortOf(me, host, svc) = FirstPort(route, svc)
    BY <1>2, <1>3 DEF PortOf, DeclaredBackends
  <2>2. route.rules = d /\ route.nn.ns = ns
    BY <1>3 DEF RouteNN
  <2> HIDE DEF route
  <2>3. BackendRules(route) = DOMAIN d
    BY <1>8, <2>2 DEF BackendRules
  <2> QED
    BY <2>1, <2>2, <2>3 DEF FirstPort, ServiceNN
<1>12. A \in SUBSET Nat /\ B \in SUBSET Nat
  BY <1>9
<1>13. PICK m \in A : \A x \in A : m <= x
  BY <1>10, <1>12, LeastNumber
<1>14. \A x \in DOMAIN r : x \in DOMAIN d /\ d[x].svc = r[x].svc /\ d[x].port = r[x].port
  BY <1>4, <1>7 DEF Serve
<1>15. m \in B /\ \A x \in B : m <= x
  <2>1. ASSUME NEW x \in B
        PROVE  m <= x
    <3>1. CASE x \in DOMAIN r
      BY <1>13, <1>14, <2>1, <3>1
    <3>2. CASE x \notin DOMAIN r
      BY <1>9, <1>12, <1>13, <2>1, <3>2
    <3> QED
      BY <3>1, <3>2
  <2> QED
    BY <1>13, <1>14, <2>1
<1>16. Min(A) = m /\ Min(B) = m
  <2> HIDE DEF A, B
  <2> QED
    BY <1>12, <1>13, <1>15, LeastIs
<1> QED
  BY <1>1, <1>10, <1>11, <1>13, <1>14, <1>16

-----------------------------------------------------------------------------
(* The turns of the Ingresses.                                               *)

(* An Ingress whose turn is over has a status.                              *)
Concluded ==
  \A nn \in Ingresses \ todo : (InTurn => nn # cur) => status[nn] # NotStarted

LEMMA TurnConcludes ==
  ASSUME IInv, Concluded,
         \/ \E k : Handled(k)
         \/ EngineStep /\ ~handleIgnoredAnnotation
         \/ UNCHANGED vars
  PROVE  Concluded'
<1>1. CASE (\E k : Handled(k)) \/ BeginRule \/ EndRule \/ UNCHANGED vars
  <2>1. UNCHANGED <<input, todo, cur, status>> /\ (InTurn' <=> InTurn)
    <3>1. CASE \E k : Handled(k)
      BY <3>1 DEF Handled, Finish, progressVars, InTurn
    <3>2. CASE BeginRule
      <4>1. /\ UNCHANGED <<input, todo, cur, status>> /\ phase = "rules"
            /\ phase' \in {"rules", "annotations"}
        BY <3>2, ZenonT(60) DEF BeginRule
      <4> QED
        BY <4>1 DEF InTurn
    <3>3. CASE EndRule
      BY <3>3 DEF EndRule, InTurn
    <3>4. CASE UNCHANGED vars
      BY <3>4 DEF vars, engineVars, progressVars, InTurn
    <3> QED
      BY <1>1, <3>1, <3>2, <3>3, <3>4
  <2> QED
    BY <2>1 DEF Concluded, Ingresses
<1>2. CASE Setup \/ Build
  BY <1>2 DEF Setup, Build, Concluded, Ingresses, InTurn
<1>3. ASSUME NEW nn \in todo, BeginIngress(nn)
      PROVE  Concluded'
  BY <1>3 DEF BeginIngress, Concluded, Ingresses, InTurn
<1>4. CASE EndIngress
  <2>1. /\ UNCHANGED <<input, todo>> /\ phase = "rules" /\ phase' = "ingresses"
        /\ status' = [status EXCEPT ![cur] = IF failed THEN Error ELSE Completed]
    BY <1>4 DEF EndIngress
  <2>2. DOMAIN status = Ingresses
    BY DEF IInv, TypeOK, ProgressOK
  <2>3. \A nn \in Ingresses : status'[nn] = IF nn = cur THEN (IF failed THEN Error ELSE Completed)
                                           ELSE status[nn]
    BY <2>1, <2>2
  <2> QED
    BY <2>1, <2>3 DEF Concluded, Ingresses, InTurn, NotStarted, Error, Completed
<1> QED
  BY <1>1, <1>2, <1>3, <1>4 DEF EngineStep, EngineNext
=============================================================================
