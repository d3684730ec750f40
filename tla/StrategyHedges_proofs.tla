------------------------ MODULE StrategyHedges_proofs ------------------------
(***************************************************************************)
(* The lots of StrategyLegs, for every ratio, every set of requests and    *)
(* any number of fills, stops and carried units: what a side has counted   *)
(* against what traded in the market, and what it hedged against what it   *)
(* had to hedge.                                                           *)
(***************************************************************************)
EXTENDS StrategyLegs_proofs

-----------------------------------------------------------------------------
(* Sums, counted unit by unit.                                              *)

Units(f) == UNION {{x} \X (1..f[x]) : x \in DOMAIN f}
Amounts(f) == IsFiniteSet(DOMAIN f) /\ \A x \in DOMAIN f : f[x] \in Nat
At(f, x) == IF x \in DOMAIN f THEN f[x] ELSE 0

LEMMA ColumnCounts ==
    ASSUME NEW x, NEW n \in Nat
    PROVE  IsFiniteSet({x} \X (1..n)) /\ Cardinality({x} \X (1..n)) = n
<1>1. IsFiniteSet({x}) /\ Cardinality({x}) = 1
  BY FS_Singleton
<1>2. IsFiniteSet(1..n) /\ Cardinality(1..n) = n
  BY FS_Interval
<1> DEFINE A == {x}
           B == 1..n
<1> HIDE DEF A, B
<1>3. IsFiniteSet(A \X B) /\ Cardinality(A \X B) = Cardinality(A) * Cardinality(B)
  BY <1>1, <1>2, FS_Product DEF A, B
<1>4. Cardinality(A) * Cardinality(B) = n
  BY <1>1, <1>2 DEF A, B
<1> QED
  BY <1>3, <1>4 DEF A, B

LEMMA UnitsFinite ==
    ASSUME NEW f, Amounts(f)
    PROVE  IsFiniteSet(Units(f)) /\ Total(f) \in Nat
<1> DEFINE C == {{x} \X (1..f[x]) : x \in DOMAIN f}
           g == [x \in DOMAIN f |-> {x} \X (1..f[x])]
<1>1. g \in Surjection(DOMAIN f, C)
  BY DEF Surjection
<1>2. IsFiniteSet(C)
  <2> DEFINE D == DOMAIN f
  <2>1. IsFiniteSet(D)
    BY DEF Amounts
  <2>2. g \in Surjection(D, C)
    BY <1>1
  <2> HIDE DEF D, C, g
  <2> QED
    BY <2>1, <2>2, FS_Surjection
<1>3. \A T \in C : IsFiniteSet(T)
  <2> SUFFICES ASSUME NEW x \in DOMAIN f PROVE IsFiniteSet({x} \X (1..f[x]))
    OBVIOUS
  <2> DEFINE n == f[x]
  <2>1. n \in Nat
    BY DEF Amounts
  <2> HIDE DEF n
  <2>2. IsFiniteSet({x} \X (1..n))
    BY <2>1, ColumnCounts
  <2> QED
    BY <2>2 DEF n
<1> HIDE DEF C
<1>4. IsFiniteSet(UNION C)
  BY <1>2, <1>3, FS_UNION
<1> QED
  BY <1>4, FS_CardinalityType DEF C, Units, Total

LEMMA TotalEmpty ==
    ASSUME NEW f, DOMAIN f = {}
    PROVE  Total(f) = 0
<1>1. UNION {{x} \X (1..f[x]) : x \in DOMAIN f} = {}
  OBVIOUS
<1> QED
  BY <1>1, FS_EmptySet DEF Total

LEMMA TotalSame ==
    ASSUME NEW f, NEW g, DOMAIN f = DOMAIN g, \A x \in DOMAIN f : f[x] = g[x]
    PROVE  Total(f) = Total(g)
<1>1. {{x} \X (1..f[x]) : x \in DOMAIN f} = {{x} \X (1..g[x]) : x \in DOMAIN g}
  OBVIOUS
<1> QED
  BY <1>1 DEF Total

\* One term apart.
LEMMA TotalSplit ==
    ASSUME NEW f, NEW g, NEW x \in DOMAIN f, Amounts(f),
           DOMAIN g = DOMAIN f \ {x}, \A y \in DOMAIN g : g[y] = f[y]
    PROVE  Amounts(g) /\ Total(f) = Total(g) + f[x]
<1> DEFINE C == {x} \X (1..f[x])
<1>1. Amounts(g)
  <2>1. IsFiniteSet(DOMAIN f \ {x})
    BY FS_RemoveElement DEF Amounts
  <2> QED
    BY <2>1 DEF Amounts
<1>2. Units(f) = Units(g) \cup C
  BY DEF Units
<1>3. Units(g) \cap C = {}
  BY DEF Units
<1>4. IsFiniteSet(C) /\ Cardinality(C) = f[x]
  BY ColumnCounts DEF Amounts
<1>5. IsFiniteSet(Units(g)) /\ Cardinality(Units(g)) \in Nat
  BY <1>1, UnitsFinite DEF Total, Units
<1> HIDE DEF C
<1>6. Cardinality(Units(g) \cup C) = Cardinality(Units(g)) + Cardinality(C) - Cardinality(Units(g) \cap C)
  BY <1>4, <1>5, FS_Union
<1>7. Cardinality(Units(g) \cap C) = 0
  BY <1>3, FS_EmptySet
<1>8. f[x] \in Nat
  BY DEF Amounts
<1>9. Total(f) = Cardinality(Units(f)) /\ Total(g) = Cardinality(Units(g))
  BY DEF Total, Units
<1> QED
  BY <1>1, <1>2, <1>4, <1>5, <1>6, <1>7, <1>8, <1>9

\* One term changes, comes or goes.
LEMMA TotalUpdate ==
    ASSUME NEW f, NEW g, NEW x, Amounts(f), Amounts(g),
           DOMAIN g \ {x} = DOMAIN f \ {x}, \A y \in DOMAIN f \ {x} : g[y] = f[y]
    PROVE  Total(g) = Total(f) - At(f, x) + At(g, x)
<1> DEFINE r == [y \in DOMAIN f \ {x} |-> f[y]]
<1>0. DOMAIN r = DOMAIN f \ {x} /\ \A y \in DOMAIN r : r[y] = f[y] /\ r[y] = g[y]
  OBVIOUS
<1> HIDE DEF r
<1>1. Total(f) = Total(r) + At(f, x) /\ Total(r) \in Nat
  <2>1. CASE x \in DOMAIN f
    BY <1>0, <2>1, TotalSplit, UnitsFinite DEF At
  <2>2. CASE x \notin DOMAIN f
    <3>1. Total(f) = Total(r)
      BY <1>0, <2>2, TotalSame
    <3> QED
      BY <2>2, <3>1, UnitsFinite DEF At
  <2> QED
    BY <2>1, <2>2
<1>2. Total(g) = Total(r) + At(g, x)
  <2>1. CASE x \in DOMAIN g
    BY <1>0, <2>1, TotalSplit DEF At
  <2>2. CASE x \notin DOMAIN g
    <3>1. Total(g) = Total(r)
      BY <1>0, <2>2, TotalSame
    <3> QED
      BY <1>1, <2>2, <3>1 DEF At
  <2> QED
    BY <2>1, <2>2
<1>3. At(f, x) \in Nat /\ At(g, x) \in Nat
  BY DEF At, Amounts
<1> QED
  BY <1>1, <1>2, <1>3

\* The terms under other names.
LEMMA TotalRenamed ==
    ASSUME NEW f, NEW g, NEW h, Amounts(f), h \in [DOMAIN f -> DOMAIN g],
           \A x, y \in DOMAIN f : h[x] = h[y] => x = y,
           \A z \in DOMAIN g : \E x \in DOMAIN f : h[x] = z,
           \A x \in DOMAIN f : g[h[x]] = f[x]
    PROVE  Total(g) = Total(f)
<1> DEFINE b == [u \in Units(f) |-> <<h[u[1]], u[2]>>]
<1>1. \A u \in Units(f) : u = <<u[1], u[2]>> /\ u[1] \in DOMAIN f /\ u[2] \in 1..f[u[1]]
  BY DEF Units
<1>2. \A x \in DOMAIN g : \A k \in 1..g[x] : <<x, k>> \in Units(g)
  BY DEF Units
<1>3. b \in [Units(f) -> Units(g)]
  BY <1>1, <1>2
<1>4. \A u, v \in Units(f) : b[u] = b[v] => u = v
  BY <1>1
<1>5. ASSUME NEW v \in Units(g) PROVE \E u \in Units(f) : b[u] = v
  <2>1. v = <<v[1], v[2]>> /\ v[1] \in DOMAIN g /\ v[2] \in 1..g[v[1]]
    BY DEF Units
  <2>2. PICK x \in DOMAIN f : h[x] = v[1]
    BY <2>1
  <2>3. <<x, v[2]>> \in Units(f)
    BY <2>1, <2>2 DEF Units
  <2> QED
    BY <2>1, <2>2, <2>3
<1>6. b \in Bijection(Units(f), Units(g))
  <2> DEFINE A == Units(f)
             B == Units(g)
  <2>1. b \in [A -> B] /\ (\A u, v \in A : b[u] = b[v] => u = v) /\ \A v \in B : \E u \in A : b[u] = v
    BY <1>3, <1>4, <1>5
  <2> HIDE DEF A, B, b
  <2>2. b \in Bijection(A, B)
    BY <2>1 DEF Bijection, Injection, Surjection, IsInjective
  <2> QED
    BY <2>2 DEF A, B
<1>7. ExistsBijection(Units(f), Units(g))
  BY <1>6 DEF ExistsBijection
<1>8. IsFiniteSet(Units(f))
  BY UnitsFinite
<1>9. Cardinality(Units(g)) = Cardinality(Units(f))
  BY <1>7, <1>8, FS_Bijection
<1> QED
  BY <1>9 DEF Total, Units
-----------------------------------------------------------------------------
(* The lots of a class of events.                                           *)

Places(q, C) == {i \in DOMAIN q : q[i] \in C}
SumOf(q, C) == Total([i \in Places(q, C) |-> q[i].lots])
Sized(q, C) == \A x \in Range(q) : x \in C => x.lots \in Nat

LEMMA SumTyped ==
    ASSUME NEW q, NEW C, IsSeq(q), Sized(q, C)
    PROVE  Amounts([i \in Places(q, C) |-> q[i].lots]) /\ SumOf(q, C) \in Nat
<1> DEFINE f == [i \in Places(q, C) |-> q[i].lots]
<1>1. Len(q) \in Nat /\ DOMAIN q = 1..Len(q)
  BY DEF IsSeq
<1>2. IsFiniteSet(Places(q, C))
  <2>1. IsFiniteSet(1..Len(q)) /\ Places(q, C) \subseteq 1..Len(q)
    BY <1>1, FS_Interval DEF Places
  <2> QED
    BY <2>1, FS_Subset
<1>3. \A i \in Places(q, C) : q[i] \in C /\ q[i] \in Range(q)
  BY DEF Places, Range
<1>4. Amounts(f)
  BY <1>2, <1>3 DEF Sized, Amounts
<1> QED
  BY <1>4, UnitsFinite DEF SumOf

LEMMA SumAppend ==
    ASSUME NEW q, NEW C, NEW e, IsSeq(q), Sized(q, C), e \in C => e.lots \in Nat
    PROVE  SumOf(Append(q, e), C) = SumOf(q, C) + IF e \in C THEN e.lots ELSE 0
<1> DEFINE p == Append(q, e)
           f == [i \in Places(q, C) |-> q[i].lots]
           g == [i \in Places(p, C) |-> p[i].lots]
           n == Len(q) + 1
<1>1. /\ Len(q) \in Nat /\ DOMAIN q = 1..Len(q) /\ DOMAIN p = 1..n
      /\ \A i \in 1..Len(q) : p[i] = q[i]
      /\ p[n] = e
  BY DEF IsSeq
<1>2. IsSeq(p) /\ Range(p) = Range(q) \cup {e}
  BY AppendToQueue
<1>3. Sized(p, C)
  BY <1>2 DEF Sized
<1>4. Amounts(f) /\ Amounts(g)
  BY <1>2, <1>3, SumTyped
<1>5. Places(p, C) \ {n} = Places(q, C) /\ n \notin Places(q, C) /\ (n \in Places(p, C) <=> e \in C)
  BY <1>1 DEF Places
<1>6. \A i \in Places(q, C) : p[i] = q[i] /\ i \in Places(p, C)
  BY <1>1, <1>5 DEF Places
<1>7. /\ DOMAIN g \ {n} = DOMAIN f \ {n} /\ \A i \in DOMAIN f \ {n} : g[i] = f[i]
      /\ At(f, n) = 0 /\ At(g, n) = IF e \in C THEN e.lots ELSE 0
  BY <1>1, <1>5, <1>6 DEF At
<1>8. SumOf(q, C) = Total(f) /\ SumOf(p, C) = Total(g) /\ Total(f) \in Nat
  BY <1>4, UnitsFinite DEF SumOf
<1> HIDE DEF f, g, n, p
<1>9. Total(g) = Total(f) - At(f, n) + At(g, n)
  BY <1>4, <1>7, TotalUpdate
<1>10. (IF e \in C THEN e.lots ELSE 0) \in Nat
  OBVIOUS
<1>11. SumOf(p, C) = SumOf(q, C) + IF e \in C THEN e.lots ELSE 0
  BY <1>7, <1>8, <1>9, <1>10
<1> QED
  BY <1>11 DEF p

LEMMA SumTail ==
    ASSUME NEW q, NEW C, IsSeq(q), q # <<>>, Sized(q, C)
    PROVE  SumOf(q, C) = SumOf(Tail(q), C) + IF Head(q) \in C THEN Head(q).lots ELSE 0
<1> DEFINE p == Tail(q)
           f == [i \in Places(q, C) |-> q[i].lots]
           r == [i \in Places(q, C) \ {1} |-> q[i].lots]
           g == [i \in Places(p, C) |-> p[i].lots]
           h == [i \in Places(q, C) \ {1} |-> i - 1]
<1>1. /\ Len(q) \in Nat \ {0} /\ DOMAIN q = 1..Len(q) /\ Head(q) = q[1]
      /\ DOMAIN p = 1..(Len(q) - 1)
      /\ \A i \in 1..(Len(q) - 1) : p[i] = q[i + 1]
  BY DEF IsSeq
<1>2. Amounts(f)
  BY SumTyped
<1>3. Total(f) = Total(r) + (IF Head(q) \in C THEN Head(q).lots ELSE 0) /\ Amounts(r)
  <2>0. 1 \in Places(q, C) <=> Head(q) \in C
    BY <1>1 DEF Places
  <2>1. CASE Head(q) \in C
    <3>1. 1 \in DOMAIN f /\ DOMAIN r = DOMAIN f \ {1} /\ f[1] = Head(q).lots
          /\ \A y \in DOMAIN r : r[y] = f[y]
      BY <1>1, <2>0, <2>1
    <3> HIDE DEF f, r
    <3> QED
      BY <1>2, <2>1, <3>1, TotalSplit
  <2>2. CASE Head(q) \notin C
    <3>1. r = f
      BY <2>0, <2>2
    <3>2. Total(f) \in Nat
      BY <1>2, UnitsFinite
    <3> HIDE DEF f, r
    <3> QED
      BY <1>2, <2>2, <3>1, <3>2
  <2> QED
    BY <2>1, <2>2
<1>4. \A i : i \in Places(q, C) \ {1} => i - 1 \in Places(p, C) /\ p[i - 1] = q[i] /\ i \in Int
  BY <1>1 DEF Places
<1>5. \A j \in Places(p, C) : j + 1 \in Places(q, C) \ {1} /\ (j + 1) - 1 = j
  BY <1>1 DEF Places
<1>6. DOMAIN r = Places(q, C) \ {1} /\ DOMAIN g = Places(p, C)
      /\ \A i \in DOMAIN r : h[i] = i - 1 /\ r[i] = q[i].lots
      /\ \A j \in DOMAIN g : g[j] = p[j].lots
  OBVIOUS
<1>7. h \in [DOMAIN r -> DOMAIN g]
  BY <1>4, <1>6
<1>8. SumOf(q, C) = Total(f) /\ SumOf(p, C) = Total(g)
  BY DEF SumOf
<1> HIDE DEF f, g, r, h, p
<1>9. \A x, y \in DOMAIN r : h[x] = h[y] => x = y
  BY <1>4, <1>6
<1>10. \A z \in DOMAIN g : \E x \in DOMAIN r : h[x] = z
  BY <1>5, <1>6
<1>11. \A x \in DOMAIN r : g[h[x]] = r[x]
  BY <1>4, <1>6
<1>12. Total(g) = Total(r)
  BY <1>3, <1>7, <1>9, <1>10, <1>11, TotalRenamed
<1> QED
  BY <1>3, <1>8, <1>12 DEF p

\* Lots of a leg that were told and not heard, and those of its stopped hedges.
Told(s, l) == LotsOf(TradesOf(s, l))
Halted(s, l) == LotsOf({i \in EventsOf(s, "stopped") : events[i].leg = l})

IsFill(e, s, l) == e.kind = "trade" /\ e.side = s /\ e.leg = l
IsHalt(e, s, l) == e.kind = "stopped" /\ e.side = s /\ e.leg = l
SizedEvents == \A e \in Range(events) : e.kind \in {"trade", "stopped"} => e.lots \in Nat

LEMMA ToldIsSum ==
    ASSUME NEW s, NEW l, NEW S, Range(events) \subseteq S
    PROVE  /\ Told(s, l) = SumOf(events, {e \in S : IsFill(e, s, l)})
           /\ Halted(s, l) = SumOf(events, {e \in S : IsHalt(e, s, l)})
<1>1. \A i \in DOMAIN events : events[i] \in S
  BY DEF Range
<1>2. TradesOf(s, l) = Places(events, {e \in S : IsFill(e, s, l)})
  BY <1>1 DEF TradesOf, EventsOf, Places, IsFill
<1>3. {i \in EventsOf(s, "stopped") : events[i].leg = l} = Places(events, {e \in S : IsHalt(e, s, l)})
  BY <1>1 DEF EventsOf, Places, IsHalt
<1> QED
  BY <1>2, <1>3 DEF Told, Halted, LotsOf, SumOf

LEMMA ToldType ==
    ASSUME IsSeq(events), SizedEvents, NEW s, NEW l
    PROVE  Told(s, l) \in Nat /\ Halted(s, l) \in Nat
<1> DEFINE S == Range(events)
           C == {e \in S : IsFill(e, s, l)}
           D == {e \in S : IsHalt(e, s, l)}
<1>1. Sized(events, C) /\ Sized(events, D)
  BY DEF Sized, SizedEvents, IsFill, IsHalt
<1>2. Told(s, l) = SumOf(events, C) /\ Halted(s, l) = SumOf(events, D)
  BY ToldIsSum
<1> HIDE DEF C, D
<1> QED
  BY <1>1, <1>2, SumTyped

\* What the exchange tells adds to them, what the event thread takes leaves them.
LEMMA ToldAppend ==
    ASSUME IsSeq(events), SizedEvents, NEW e, events' = Append(events, e),
           e.kind \in {"trade", "stopped"} => e.lots \in Nat, NEW s, NEW l
    PROVE  /\ Told(s, l)' = Told(s, l) + IF IsFill(e, s, l) THEN e.lots ELSE 0
           /\ Halted(s, l)' = Halted(s, l) + IF IsHalt(e, s, l) THEN e.lots ELSE 0
<1> DEFINE S == Range(events) \cup {e}
           C == {f \in S : IsFill(f, s, l)}
           D == {f \in S : IsHalt(f, s, l)}
<1>1. Sized(events, C) /\ Sized(events, D)
  BY DEF Sized, SizedEvents, IsFill, IsHalt
<1>2. Told(s, l) = SumOf(events, C) /\ Halted(s, l) = SumOf(events, D)
  <2>1. Range(events) \subseteq S
    OBVIOUS
  <2> HIDE DEF S
  <2> QED
    BY <2>1, ToldIsSum
<1>3. Range(events') = S
  BY AppendToQueue
<1>4. /\ TradesOf(s, l)' = Places(events', C)
      /\ {i \in EventsOf(s, "stopped") : events[i].leg = l}' = Places(events', D)
  <2>1. \A i \in DOMAIN events' : events'[i] \in S
    BY <1>3 DEF Range
  <2> QED
    BY <2>1 DEF TradesOf, EventsOf, Places, IsFill, IsHalt
<1>5. Told(s, l)' = SumOf(events', C) /\ Halted(s, l)' = SumOf(events', D)
  BY <1>4 DEF Told, Halted, LotsOf, SumOf
<1>6. (e \in C <=> IsFill(e, s, l)) /\ (e \in D <=> IsHalt(e, s, l))
  OBVIOUS
<1>7. (e \in C => e.lots \in Nat) /\ (e \in D => e.lots \in Nat)
  BY DEF IsFill, IsHalt
<1> HIDE DEF C, D
<1>8. SumOf(Append(events, e), C) = SumOf(events, C) + IF e \in C THEN e.lots ELSE 0
  BY <1>1, <1>7, SumAppend
<1>9. SumOf(Append(events, e), D) = SumOf(events, D) + IF e \in D THEN e.lots ELSE 0
  BY <1>1, <1>7, SumAppend
<1> QED
  BY <1>2, <1>5, <1>6, <1>8, <1>9

LEMMA ToldTail ==
    ASSUME IsSeq(events), events # <<>>, SizedEvents, events' = Tail(events), NEW s, NEW l
    PROVE  /\ Told(s, l) = Told(s, l)' + IF IsFill(Head(events), s, l) THEN Head(events).lots ELSE 0
           /\ Halted(s, l) = Halted(s, l)' + IF IsHalt(Head(events), s, l) THEN Head(events).lots ELSE 0
<1> DEFINE S == Range(events)
           C == {f \in S : IsFill(f, s, l)}
           D == {f \in S : IsHalt(f, s, l)}
<1>1. Sized(events, C) /\ Sized(events, D)
  BY DEF Sized, SizedEvents, IsFill, IsHalt
<1>2. Told(s, l) = SumOf(events, C) /\ Halted(s, l) = SumOf(events, D)
  <2>1. Range(events) \subseteq S
    OBVIOUS
  <2> HIDE DEF S
  <2> QED
    BY <2>1, ToldIsSum
<1>3. Range(events') \subseteq S /\ Head(events) \in S
  BY TailOfQueue
<1>4. /\ TradesOf(s, l)' = Places(events', C)
      /\ {i \in EventsOf(s, "stopped") : events[i].leg = l}' = Places(events', D)
  <2>1. \A i \in DOMAIN events' : events'[i] \in S
    BY <1>3 DEF Range
  <2> QED
    BY <2>1 DEF TradesOf, EventsOf, Places, IsFill, IsHalt
<1>5. Told(s, l)' = SumOf(events', C) /\ Halted(s, l)' = SumOf(events', D)
  BY <1>4 DEF Told, Halted, LotsOf, SumOf
<1>6. /\ Head(events) \in C <=> IsFill(Head(events), s, l)
      /\ Head(events) \in D <=> IsHalt(Head(events), s, l)
  BY <1>3
<1> HIDE DEF C, D
<1>7. SumOf(events, C) = SumOf(Tail(events), C) + IF Head(events) \in C THEN Head(events).lots ELSE 0
  BY <1>1, SumTail
<1>8. SumOf(events, D) = SumOf(Tail(events), D) + IF Head(events) \in D THEN Head(events).lots ELSE 0
  BY <1>1, SumTail
<1> QED
  BY <1>2, <1>5, <1>6, <1>7, <1>8

\* Events that stay leave them as they are.
LEMMA ToldStays ==
    ASSUME UNCHANGED events, NEW s, NEW l
    PROVE  Told(s, l)' = Told(s, l) /\ Halted(s, l)' = Halted(s, l)
  BY DEF Told, Halted, LotsOf, TradesOf, EventsOf
-----------------------------------------------------------------------------
(* The lots of a leg in the market.                                         *)

IsLot(m, s, l) == m.side = s /\ m.leg = l
InBag(B, s, l) == Total([m \in {m \in BagToSet(B) : IsLot(m, s, l)} |-> m.lots * B[m]])

\* A bag of market orders.
Market_OK(B) ==
    /\ IsFiniteSet(DOMAIN B)
    /\ \A m \in DOMAIN B : B[m] \in Nat \ {0} /\ m.lots \in Nat

LEMMA BagAmounts ==
    ASSUME NEW B, Market_OK(B), NEW s, NEW l
    PROVE  Amounts([m \in {m \in BagToSet(B) : IsLot(m, s, l)} |-> m.lots * B[m]])
<1> DEFINE D == {m \in BagToSet(B) : IsLot(m, s, l)}
<1>1. D \subseteq DOMAIN B
  BY DEF BagToSet
<1>2. IsFiniteSet(D)
  BY <1>1, FS_Subset DEF Market_OK
<1>3. \A m \in D : m.lots * B[m] \in Nat
  BY <1>1 DEF Market_OK
<1> QED
  BY <1>2, <1>3 DEF Amounts

\* The lots of m are counted again, as often as it is in B.
Recounted(A, B, m, s, l) ==
    /\ IsLot(m, s, l) => InBag(B, s, l) = InBag(A, s, l) - m.lots * At(A, m) + m.lots * At(B, m)
    /\ ~IsLot(m, s, l) => InBag(B, s, l) = InBag(A, s, l)

LEMMA TimesMore ==
    ASSUME NEW a \in Nat, NEW n \in Nat
    PROVE  a * (n + 1) = a * n + a /\ a * n \in Nat /\ a * (n + 1) \in Nat
  OBVIOUS

\* Two bags that differ in how often one order is there.
LEMMA BagUpdate ==
    ASSUME NEW A, NEW B, Market_OK(A), Market_OK(B), NEW m, m.lots \in Nat, NEW s, NEW l,
           DOMAIN A \ {m} = DOMAIN B \ {m}, \A k \in DOMAIN A \ {m} : A[k] = B[k]
    PROVE  Recounted(A, B, m, s, l)
<1> DEFINE f == [k \in {k \in BagToSet(A) : IsLot(k, s, l)} |-> k.lots * A[k]]
           g == [k \in {k \in BagToSet(B) : IsLot(k, s, l)} |-> k.lots * B[k]]
<1>1. Amounts(f) /\ Amounts(g)
  BY BagAmounts
<1>2. /\ DOMAIN g \ {m} = DOMAIN f \ {m} /\ \A k \in DOMAIN f \ {m} : g[k] = f[k]
  BY DEF BagToSet
<1>3. InBag(A, s, l) = Total(f) /\ InBag(B, s, l) = Total(g)
  BY DEF InBag
<1>4. m.lots * 0 = 0
  OBVIOUS
<1>5. /\ At(f, m) = IF IsLot(m, s, l) THEN m.lots * At(A, m) ELSE 0
      /\ At(g, m) = IF IsLot(m, s, l) THEN m.lots * At(B, m) ELSE 0
  <2>1. CASE ~IsLot(m, s, l)
    BY <2>1 DEF At
  <2>2. CASE IsLot(m, s, l)
    <3>1. (m \in DOMAIN f <=> m \in DOMAIN A) /\ (m \in DOMAIN g <=> m \in DOMAIN B)
      BY <2>2 DEF BagToSet
    <3>2. m \in DOMAIN A => f[m] = m.lots * A[m]
      BY <2>2 DEF BagToSet
    <3>3. m \in DOMAIN B => g[m] = m.lots * B[m]
      BY <2>2 DEF BagToSet
    <3> HIDE DEF f, g
    <3> QED
      BY <1>4, <2>2, <3>1, <3>2, <3>3 DEF At
  <2> QED
    BY <2>1, <2>2
<1>6. Total(f) \in Nat /\ Total(g) \in Nat
  BY <1>1, UnitsFinite
<1> HIDE DEF f, g
<1>7. Total(g) = Total(f) - At(f, m) + At(g, m)
  BY <1>1, <1>2, TotalUpdate
<1> QED
  BY <1>3, <1>5, <1>6, <1>7 DEF Recounted

\* An order comes into the market.
LEMMA BagPlus ==
    ASSUME NEW A, NEW B, Market_OK(A), NEW m, m.lots \in Nat, NEW s, NEW l, B = A (+) SetToBag({m})
    PROVE  /\ Market_OK(B)
           /\ InBag(B, s, l) = InBag(A, s, l) + IF IsLot(m, s, l) THEN m.lots ELSE 0
<1>1. /\ DOMAIN B = DOMAIN A \cup {m}
      /\ \A k \in DOMAIN A \ {m} : B[k] = A[k]
      /\ B[m] = At(A, m) + 1
  BY DEF (+), SetToBag, At, Market_OK
<1>2. IsFiniteSet(DOMAIN B)
  BY <1>1, FS_AddElement DEF Market_OK
<1>3. At(A, m) \in Nat /\ At(B, m) = At(A, m) + 1
  BY <1>1 DEF At, Market_OK
<1>4. Market_OK(B)
  BY <1>1, <1>2, <1>3 DEF Market_OK
<1>5. DOMAIN A \ {m} = DOMAIN B \ {m} /\ \A k \in DOMAIN A \ {m} : A[k] = B[k]
  BY <1>1
<1>6. Recounted(A, B, m, s, l)
  BY <1>4, <1>5, BagUpdate, Zenon
<1>7. InBag(A, s, l) \in Nat
  BY BagAmounts, UnitsFinite DEF InBag
<1>8. /\ m.lots * At(B, m) = m.lots * At(A, m) + m.lots
      /\ m.lots * At(A, m) \in Nat /\ m.lots * At(B, m) \in Nat
  BY <1>3, TimesMore
<1> QED
  BY <1>4, <1>6, <1>7, <1>8 DEF Recounted

\* An order leaves it.
LEMMA BagMinus ==
    ASSUME NEW A, NEW B, Market_OK(A), NEW m \in DOMAIN A, NEW s, NEW l, B = A (-) SetToBag({m})
    PROVE  /\ Market_OK(B) /\ DOMAIN B \subseteq DOMAIN A
           /\ InBag(A, s, l) = InBag(B, s, l) + IF IsLot(m, s, l) THEN m.lots ELSE 0
<1>0. A[m] \in Nat \ {0} /\ m.lots \in Nat
  BY DEF Market_OK
<1>1. /\ DOMAIN B = IF A[m] = 1 THEN DOMAIN A \ {m} ELSE DOMAIN A
      /\ \A k \in DOMAIN B : B[k] = IF k = m THEN A[k] - 1 ELSE A[k]
  BY <1>0 DEF (-), SetToBag, Market_OK
<1>2. IsFiniteSet(DOMAIN B)
  BY <1>1, FS_RemoveElement DEF Market_OK
<1>3. At(A, m) = A[m] /\ At(B, m) = A[m] - 1
  BY <1>0, <1>1 DEF At
<1>4. Market_OK(B)
  BY <1>0, <1>1, <1>2 DEF Market_OK
<1>5. DOMAIN A \ {m} = DOMAIN B \ {m} /\ \A k \in DOMAIN A \ {m} : A[k] = B[k]
  BY <1>1
<1>6. Recounted(A, B, m, s, l)
  BY <1>0, <1>4, <1>5, BagUpdate, Zenon
<1>7. InBag(A, s, l) \in Nat
  BY BagAmounts, UnitsFinite DEF InBag
<1>8. /\ m.lots * At(A, m) = m.lots * At(B, m) + m.lots
      /\ m.lots * At(A, m) \in Nat /\ m.lots * At(B, m) \in Nat
  <2>1. At(B, m) \in Nat /\ At(A, m) = At(B, m) + 1
    BY <1>0, <1>3
  <2> QED
    BY <1>0, <2>1, TimesMore
<1>9. DOMAIN B \subseteq DOMAIN A
  BY <1>1
<1> QED
  BY <1>0, <1>4, <1>6, <1>7, <1>8, <1>9 DEF Recounted

LEMMA MarketIsBag ==
    ASSUME NEW s, NEW l
    PROVE  InMarket(s, l) = InBag(mkt, s, l)
  BY DEF InMarket, InBag, IsLot
-----------------------------------------------------------------------------
(* Types.                                                                   *)

StrategyOK ==
    /\ volume \in [Sides -> Nat] /\ rate \in [Sides -> Rates \cup {0}]
    /\ limits \in [Sides -> [min : Nat, max : Nat]]
    /\ traded \in [Sides -> [Legs -> Nat]] /\ remaining \in [Sides -> Nat]
QuoterOK == quoter \in Activity({"new", "modify", "cancel"})
HedgerOK ==
    /\ hedger \in {Idle}
         \cup [act : {"store", "size"}, side : Sides, leg : Legs, lots : Nat, left : Nat, reg : Nat]
         \cup [act : {"hedge"}, side : Sides, leg : {1}, lots : Nat, tradable : Nat, next : Hedges]
    /\ hedger # Idle => hedger.lots > 0
ClientOK == client \in {Idle} \cup [act : {"test", "store"}, side : Sides, req : Requests, leg : Legs]
BidOK ==
    \A r \in Range(bid) :
        \/ r \in [kind : {"new"}, side : Sides, lots : Int]
        \/ r \in [kind : {"modify"}, side : Sides, number : Nat, lots : Nat]
        \/ r \in [kind : {"cancel"}, side : Sides, number : Nat]
Order == [side : Sides, leg : Hedges, lots : Nat, volume : Nat]
MarketOK ==
    /\ Market_OK(mkt)
    /\ \A m \in BagToSet(mkt) : m \in Order /\ 0 < m.lots /\ m.lots <= m.volume
BookOK == \A n \in DOMAIN book : book[n] \in [side : Sides, lots : Nat, given : Nat]
EventsOK ==
    \A e \in Range(events) : e \in Event /\ (e.kind \in {"trade", "stopped"} => e.lots > 0)
HistoryOK ==
    /\ counts \in [{"quotes", "asks", "stops", "requests"} -> Nat]
    /\ filled \in [Sides -> [Legs -> Nat]]
    /\ owed \in [Sides -> SUBSET Hedges] /\ upset \in [Sides -> SUBSET Upsets]

TypeInv ==
    /\ StrategyOK /\ QuoterOK /\ HedgerOK /\ ClientOK
    /\ BidOK /\ MarketOK /\ BookOK /\ EventsOK /\ HistoryOK

LEMMA LegsAndSides ==
    /\ 1 \in Legs /\ Hedges \subseteq Legs /\ Legs \subseteq Nat /\ 1 \notin Hedges
    /\ \A l \in Legs : Ratio[l] \in Nat \ {0}
    /\ "create" \in Sides /\ "reverse" \in Sides
<1>1. CASE Ratio \in [1..2 -> Nat \ {0}]
  BY <1>1 DEF Legs, Hedges, Sides
<1>2. CASE Ratio \in [1..3 -> Nat \ {0}]
  BY <1>2 DEF Legs, Hedges, Sides
<1> QED
  BY <1>1, <1>2, StrategyAssumption DEF StrategyAssumption

LEMMA InitTypes == Init => TypeInv
<1> SUFFICES ASSUME Init PROVE TypeInv
  OBVIOUS
<1>1. bid = <<>> /\ events = <<>> /\ Range(bid) = {} /\ Range(events) = {} /\ DOMAIN book = {}
  BY EmptyQueue DEF Init
<1>2. DOMAIN mkt = {}
  BY DEF Init, EmptyBag, SetToBag
<1>3. MarketOK
  BY <1>2, FS_EmptySet DEF MarketOK, Market_OK, BagToSet
<1>4. StrategyOK /\ QuoterOK /\ HedgerOK /\ ClientOK /\ HistoryOK
  BY DEF Init, StrategyOK, QuoterOK, HedgerOK, ClientOK, HistoryOK, Legs, Activity, Upsets
<1>5. BidOK /\ BookOK /\ EventsOK
  BY <1>1 DEF BidOK, BookOK, EventsOK
<1> QED
  BY <1>3, <1>4, <1>5 DEF TypeInv

LEMMA TypesImplied == LegInv /\ TypeInv => TypeOK
<1> SUFFICES ASSUME LegInv, TypeInv PROVE TypeOK
  OBVIOUS
<1>1. events \in Seq(Event)
  <2>1. IsSeq(events) /\ \A e \in Range(events) : e \in Event
    BY DEF LegInv, Typed, TypeInv, EventsOK
  <2>2. events \in Seq(Range(events)) /\ Range(events) \subseteq Event
    BY <2>1 DEF IsSeq
  <2> QED
    BY <2>2
<1>2. \A i \in DOMAIN bid :
         \/ bid[i] \in [kind : {"new"}, side : Sides, lots : Int]
         \/ bid[i] \in [kind : {"modify"}, side : Sides, number : Nat, lots : Nat]
         \/ bid[i] \in [kind : {"cancel"}, side : Sides, number : Nat]
  BY DEF TypeInv, BidOK, Range
<1>3. \A m \in BagToSet(mkt) : m \in [side : Sides, leg : Hedges, lots : Nat, volume : Nat]
  BY DEF TypeInv, MarketOK, Order
<1> QED
  BY <1>1, <1>2, <1>3 DEF TypeOK, LegInv, Typed, TypeInv, StrategyOK, QuoterOK, HedgerOK, ClientOK,
                          BookOK, HistoryOK

LEMMA SizedEventsTyped == TypeInv => SizedEvents
  BY DEF TypeInv, EventsOK, SizedEvents, Event

\* What a step leaves alone keeps its type.
LEMMA TypesStay ==
    ASSUME TypeInv
    PROVE  /\ UNCHANGED <<volume, rate, limits, traded, remaining>> => StrategyOK'
           /\ volume' \in [Sides -> Nat] /\ UNCHANGED <<rate, limits, traded, remaining>> => StrategyOK'
           /\ UNCHANGED quoter => QuoterOK'
           /\ UNCHANGED hedger => HedgerOK'
           /\ UNCHANGED client => ClientOK'
           /\ Range(bid') \subseteq Range(bid) => BidOK'
           /\ UNCHANGED mkt => MarketOK'
           /\ UNCHANGED book => BookOK'
           /\ Range(events') \subseteq Range(events) => EventsOK'
           /\ UNCHANGED <<counts, filled, owed, upset>> => HistoryOK'
<1>1. UNCHANGED <<volume, rate, limits, traded, remaining>> => StrategyOK'
  BY DEF TypeInv, StrategyOK
<1>10. volume' \in [Sides -> Nat] /\ UNCHANGED <<rate, limits, traded, remaining>> => StrategyOK'
  BY DEF TypeInv, StrategyOK
<1>2. UNCHANGED quoter => QuoterOK'
  BY DEF TypeInv, QuoterOK
<1>3. UNCHANGED hedger => HedgerOK'
  BY DEF TypeInv, HedgerOK
<1>4. UNCHANGED client => ClientOK'
  BY DEF TypeInv, ClientOK
<1>5. Range(bid') \subseteq Range(bid) => BidOK'
  BY DEF TypeInv, BidOK
<1>6. UNCHANGED mkt => MarketOK'
  BY DEF TypeInv, MarketOK, Market_OK
<1>7. UNCHANGED book => BookOK'
  BY DEF TypeInv, BookOK
<1>8. Range(events') \subseteq Range(events) => EventsOK'
  BY DEF TypeInv, EventsOK
<1>9. UNCHANGED <<counts, filled, owed, upset>> => HistoryOK'
  BY DEF TypeInv, HistoryOK
<1> QED
  BY <1>1, <1>2, <1>3, <1>4, <1>5, <1>6, <1>7, <1>8, <1>9, <1>10

LEMMA MarketDataTypes == LegInv /\ TypeInv /\ MarketData => TypeInv'
<1> SUFFICES ASSUME LegInv, TypeInv, MarketData PROVE TypeInv'
  OBVIOUS
<1>1. ASSUME NEW s \in Sides, NEW r \in Rates \cup {0}, NEW what \in {"new", "modify", "cancel"},
             Begin(what, s, r), HistoryOK'
      PROVE  TypeInv'
  <2>1. /\ UNCHANGED <<volume, rate, limits, traded, remaining, hedger, client, bid, mkt, book, events>>
        /\ quoter' = [act |-> what, side |-> s, rate |-> r, marked |-> FALSE]
    BY <1>1 DEF Begin, strategyVars, exchangeVars
  <2>2. QuoterOK'
    BY <2>1 DEF QuoterOK, Activity
  <2>3. Range(bid') \subseteq Range(bid) /\ Range(events') \subseteq Range(events)
    BY <2>1
  <2> QED
    BY <1>1, <2>1, <2>2, <2>3, TypesStay DEF TypeInv
<1>2. \A s \in Sides : rate[s] \in Rates \cup {0}
  BY DEF TypeInv, StrategyOK
<1>3. counts.quotes \in Nat /\ counts.asks \in Nat
  BY DEF TypeInv, HistoryOK
<1>4. ASSUME NEW s \in Sides, NEW r \in Rates, LookNew(s, r) PROVE TypeInv'
  <2>1. /\ counts' = [counts EXCEPT !.quotes = @ + 1] /\ UNCHANGED <<filled, owed>>
        /\ Begin("new", s, r) /\ \E T \in SUBSET Upsets : upset' = [upset EXCEPT ![s] = @ \cup T]
    <3>1. {"hasty"} \subseteq Upsets /\ {"carried"} \subseteq Upsets
      BY DEF Upsets
    <3> DEFINE T == (IF HedgeOutstanding(s) \/ AskOutstanding(s) THEN {"hasty"} ELSE {})
                    \cup (IF Carrying(s) THEN {"carried"} ELSE {})
    <3>2. T \in SUBSET Upsets
      BY <3>1
    <3>3. upset' = [upset EXCEPT ![s] = @ \cup T]
      BY <1>4 DEF LookNew
    <3> HIDE DEF T
    <3> QED
      BY <1>4, <3>2, <3>3 DEF LookNew, Begin
  <2>2. HistoryOK'
    BY <1>3, <2>1 DEF TypeInv, HistoryOK
  <2> QED
    BY <1>1, <2>1, <2>2
<1>5. ASSUME NEW s \in Sides, NEW r \in Rates, LookModify(s, r) PROVE TypeInv'
  <2>1. counts' = [counts EXCEPT !.asks = @ + 1] /\ UNCHANGED <<filled, owed, upset>> /\ Begin("modify", s, r)
    BY <1>5 DEF LookModify, Begin
  <2>2. HistoryOK'
    BY <1>3, <2>1 DEF TypeInv, HistoryOK
  <2> QED
    BY <1>1, <2>1, <2>2
<1>6. ASSUME NEW s \in Sides, LookCancel(s) PROVE TypeInv'
  <2>1. /\ counts' = [counts EXCEPT !.asks = @ + 1] /\ UNCHANGED <<filled, owed, upset>>
        /\ Begin("cancel", s, rate[s])
    BY <1>6 DEF LookCancel, Begin
  <2>2. HistoryOK'
    BY <1>3, <2>1 DEF TypeInv, HistoryOK
  <2> QED
    BY <1>1, <1>2, <2>1, <2>2
<1> QED
  BY <1>4, <1>5, <1>6 DEF MarketData

LEMMA QuoterTypes == LegInv /\ TypeInv /\ Quoter => TypeInv'
<1> SUFFICES ASSUME LegInv, TypeInv, Quoter PROVE TypeInv'
  OBVIOUS
<1>1. UNCHANGED <<volume, limits, traded, remaining, hedger, client, mkt, book, events, counts, filled,
                  owed, upset>>
  BY DEF Quoter, MarkPending, Quote, Requote, Withdraw, strategyVars, exchangeVars, historyVars
<1>2. Range(events') \subseteq Range(events)
  BY <1>1
<1>3. /\ quoter # Idle
      /\ quoter \in [act : {"new", "modify", "cancel"}, side : Sides, rate : Rates \cup {0}, marked : BOOLEAN]
  BY DEF TypeInv, QuoterOK, Activity, Quoter, MarkPending, Quote, Requote, Withdraw, Marked
<1>4. QuoterOK'
  <2>1. CASE MarkPending
    <3>1. quoter' = [quoter EXCEPT !.marked = TRUE]
      BY <2>1 DEF MarkPending
    <3> QED
      BY <1>3, <3>1 DEF QuoterOK, Activity
  <2>2. CASE Quote \/ Requote \/ Withdraw
    BY <2>2 DEF Quote, Requote, Withdraw, QuoterOK, Activity
  <2> QED
    BY <2>1, <2>2 DEF Quoter
<1>5. StrategyOK'
  <2>1. rate' = rate \/ rate' = [rate EXCEPT ![quoter.side] = quoter.rate]
    BY DEF Quoter, MarkPending, Quote, Requote, Withdraw, strategyVars
  <2> QED
    BY <1>1, <1>3, <2>1 DEF TypeInv, StrategyOK
<1>6. BidOK'
  <2>1. ASSUME NEW r, Range(bid') \subseteq Range(bid) \cup {r},
               \/ r \in [kind : {"new"}, side : Sides, lots : Int]
               \/ r \in [kind : {"modify"}, side : Sides, number : Nat, lots : Nat]
               \/ r \in [kind : {"cancel"}, side : Sides, number : Nat]
        PROVE  BidOK'
    BY <2>1 DEF TypeInv, BidOK
  <2>2. \A r : bid' = Append(bid, r) => Range(bid') \subseteq Range(bid) \cup {r}
    BY AppendToQueue DEF LegInv, Typed
  <2>3. number[quoter.side] \in Nat /\ volume[quoter.side] \in Nat
    BY <1>3 DEF LegInv, Typed, TypeInv, StrategyOK
  <2>4. CASE MarkPending
    <3>1. Range(bid') \subseteq Range(bid)
      BY <2>4 DEF MarkPending, exchangeVars
    <3> QED
      BY <3>1, TypesStay
  <2>5. CASE Quote
    <3> DEFINE r == [kind |-> "new", side |-> quoter.side, lots |-> QuoteLots(quoter.side)]
    <3>1. bid' = Append(bid, r)
      BY <2>5 DEF Quote
    <3>2. QuoteLots(quoter.side) \in Int
      <4>1. limits[quoter.side] \in [min : Nat, max : Nat] /\ traded[quoter.side][1] \in Nat
        BY <1>3, LegsAndSides DEF TypeInv, StrategyOK
      <4> QED
        BY <4>1 DEF QuoteLots, Smaller
    <3>3. r \in [kind : {"new"}, side : Sides, lots : Int]
      BY <1>3, <3>2
    <3> HIDE DEF r
    <3> QED
      BY <2>1, <2>2, <3>1, <3>3
  <2>6. CASE Requote
    <3> DEFINE r == [kind |-> "modify", side |-> quoter.side, number |-> number[quoter.side],
                    lots |-> volume[quoter.side]]
    <3>1. bid' = Append(bid, r)
      BY <2>6 DEF Requote
    <3>2. r \in [kind : {"modify"}, side : Sides, number : Nat, lots : Nat]
      BY <1>3, <2>3
    <3> HIDE DEF r
    <3> QED
      BY <2>1, <2>2, <3>1, <3>2
  <2>7. CASE Withdraw
    <3> DEFINE r == [kind |-> "cancel", side |-> quoter.side, number |-> number[quoter.side]]
    <3>1. bid' = bid \/ bid' = Append(bid, r)
      BY <2>7 DEF Withdraw
    <3>2. r \in [kind : {"cancel"}, side : Sides, number : Nat]
      BY <1>3, <2>3
    <3> HIDE DEF r
    <3>3. Range(bid') \subseteq Range(bid) \cup {r}
      BY <2>2, <3>1
    <3> QED
      BY <2>1, <3>2, <3>3
  <2> QED
    BY <2>4, <2>5, <2>6, <2>7 DEF Quoter
<1> QED
  BY <1>1, <1>2, <1>4, <1>5, <1>6, TypesStay DEF TypeInv

\* The lots the ratio asks for.
LEMMA QuotientIsNat ==
    ASSUME NEW n \in Nat, NEW b \in Nat \ {0}
    PROVE  n \div b \in Nat
  OBVIOUS

LEMMA HitLotsType ==
    ASSUME NEW l \in Hedges, NEW n \in 0..(2 * MaxLots)
    PROVE  HitLots(n, Ratio[l], Ratio[1]) \in Nat
<1>1. HitLots(n, Ratio[l], Ratio[1]) = (n * Ratio[l]) \div Ratio[1]
  BY LotsAssumption DEF ExactLots
<1>2. Ratio[l] \in Nat /\ Ratio[1] \in Nat \ {0}
  BY LegsAndSides
<1>3. n * Ratio[l] \in Nat
  BY <1>2, LotsAssumption
<1> QED
  BY <1>1, <1>2, <1>3, QuotientIsNat

InTradeOf(s, act) == InTrade(s) /\ hedger.act = act
InRound(s) == IF InTrade(s) THEN hedger.lots ELSE 0
InHand(s, l) ==
    IF hedger # Idle /\ hedger.act = "store" /\ hedger.side = s /\ hedger.leg = l THEN hedger.lots ELSE 0

\* The counter of the first leg holds what was carried and lots that traded, counted once.
BoundedSide(s) ==
    /\ filled[s][1] <= MaxLots
    /\ Told(s, 1) + InRound(s) <= filled[s][1]
    /\ traded[s][1] + Told(s, 1) + InHand(s, 1) <= MaxLots + filled[s][1]
    /\ InTradeOf(s, "store") => hedger.reg + hedger.lots + Told(s, 1) <= MaxLots + filled[s][1]
    /\ InTradeOf(s, "hedge") => hedger.tradable + Told(s, 1) <= MaxLots + filled[s][1]
Bounded == \A s \in Sides : BoundedSide(s)

LEMMA HedgerShape ==
    ASSUME TypeInv, hedger # Idle
    PROVE  /\ hedger.act \in {"store", "size", "hedge"} /\ hedger.side \in Sides /\ hedger.leg \in Legs
           /\ hedger.lots \in Nat \ {0}
           /\ hedger.act \in {"store", "size"} =>
                hedger \in [act : {"store", "size"}, side : Sides, leg : Legs, lots : Nat, left : Nat,
                            reg : Nat]
           /\ hedger.act = "hedge" =>
                hedger \in [act : {"hedge"}, side : Sides, leg : {1}, lots : Nat, tradable : Nat,
                            next : Hedges]
<1>1. \/ hedger \in [act : {"store", "size"}, side : Sides, leg : Legs, lots : Nat, left : Nat, reg : Nat]
      \/ hedger \in [act : {"hedge"}, side : Sides, leg : {1}, lots : Nat, tradable : Nat, next : Hedges]
  BY DEF TypeInv, HedgerOK
<1>2. hedger.lots > 0
  BY DEF TypeInv, HedgerOK
<1> QED
  BY <1>1, <1>2, LegsAndSides

LEMMA NumbersTyped ==
    ASSUME LegInv, TypeInv, NEW s \in Sides, NEW l \in Legs
    PROVE  /\ Told(s, l) \in Nat /\ Halted(s, l) \in Nat /\ InMarket(s, l) \in Nat
           /\ filled[s][l] \in Nat /\ traded[s][l] \in Nat
<1>1. IsSeq(events) /\ SizedEvents
  BY SizedEventsTyped DEF LegInv, Typed
<1>2. InMarket(s, l) \in Nat
  <2>1. InBag(mkt, s, l) \in Nat
    BY BagAmounts, UnitsFinite DEF TypeInv, MarketOK, InBag
  <2> QED
    BY <2>1, MarketIsBag, Zenon
<1> QED
  BY <1>1, <1>2, ToldType DEF TypeInv, HistoryOK, StrategyOK

\* What the strategy asks of a leg in a round is a number of lots.
LEMMA HedgeIsLots ==
    ASSUME LegInv, TypeInv, Bounded, hedger # Idle, hedger.act = "hedge", hedger.leg = 1
    PROVE  /\ hedger.tradable \in 0..(2 * MaxLots) /\ hedger.next \in Hedges
           /\ traded[hedger.side][hedger.next] \in Nat
           /\ ToHit(hedger.side, hedger.next) \in Int
<1>1. hedger.side \in Sides /\ hedger.next \in Hedges /\ hedger.next \in Legs /\ hedger.tradable \in Nat
  BY HedgerShape, LegsAndSides
<1>2. BoundedSide(hedger.side) /\ InTradeOf(hedger.side, "hedge")
  BY <1>1 DEF Bounded, InTradeOf, InTrade
<1>3. /\ Told(hedger.side, 1) \in Nat /\ filled[hedger.side][1] \in Nat /\ MaxLots \in Nat
      /\ traded[hedger.side][hedger.next] \in Nat
  BY <1>1, LegsAndSides, NumbersTyped, LotsAssumption
<1>4. hedger.tradable \in 0..(2 * MaxLots)
  BY <1>1, <1>2, <1>3 DEF BoundedSide
<1>5. HitLots(hedger.tradable, Ratio[hedger.next], Ratio[1]) \in Nat
  BY <1>1, <1>4, HitLotsType
<1> QED
  BY <1>1, <1>3, <1>4, <1>5 DEF ToHit

\* An order that joins the market.
LEMMA MarketJoined ==
    ASSUME TypeInv, NEW m, m \in Order, 0 < m.lots, m.lots <= m.volume, NEW B, Market_OK(B),
           DOMAIN B \subseteq DOMAIN mkt, mkt' = B (+) SetToBag({m})
    PROVE  MarketOK'
<1>1. Market_OK(mkt')
  BY BagPlus DEF Order
<1>2. BagToSet(mkt') \subseteq BagToSet(mkt) \cup {m}
  <2>1. BagToSet(B (+) SetToBag({m})) = BagToSet(B) \cup {m}
    BY BagPlusOne
  <2> QED
    BY <2>1 DEF BagToSet
<1> QED
  BY <1>1, <1>2 DEF TypeInv, MarketOK, Market_OK

LEMMA EventHandlerTypes == LegInv /\ TypeInv /\ Bounded /\ EventHandler => TypeInv'
<1> SUFFICES ASSUME LegInv, TypeInv, Bounded, EventHandler PROVE TypeInv'
  OBVIOUS
<1> DEFINE e == Head(events)
<1>1. ASSUME events # <<>>
      PROVE  /\ e \in Event /\ (e.kind \in {"trade", "stopped"} => e.lots > 0)
             /\ Range(Tail(events)) \subseteq Range(events)
  <2>1. e \in Range(events) /\ Range(Tail(events)) \subseteq Range(events)
    BY <1>1, TailOfQueue DEF LegInv, Typed
  <2> QED
    BY <2>1 DEF TypeInv, EventsOK
<1>0. UNCHANGED <<rate, limits, quoter, client, bid, book, counts, filled>> /\ volume' \in [Sides -> Nat]
  <2>1. UNCHANGED <<rate, limits, quoter, client, bid, book, counts, filled>>
    BY DEF EventHandler, ORDER_CONFIRMATION_TR, ORDER_MOD_CONFIRMATION_TR, ORDER_CXL_CONFIRMATION_TR,
       ORDER_ERROR_OUT, ORDER_REJ_OUT, Settle, SelfTradeStopped, HedgeRefused, TradeLoad, TradeStore,
       TradeSize, TradeHedge, HedgeStore, UpsetIf, strategyVars, threadVars, exchangeVars, historyVars
  <2>2. volume \in [Sides -> Nat]
    BY DEF TypeInv, StrategyOK
  <2>3. ASSUME ORDER_CONFIRMATION_TR \/ ORDER_MOD_CONFIRMATION_TR PROVE volume' \in [Sides -> Nat]
    <3>1. events # <<>> /\ e.kind \in {"confirmed", "modified"} /\ volume' = [volume EXCEPT ![e.side] = e.lots]
      BY <2>3 DEF ORDER_CONFIRMATION_TR, ORDER_MOD_CONFIRMATION_TR, Handles, TakeOver
    <3>2. e.lots \in Nat
      BY <1>1, <3>1 DEF Event
    <3> HIDE DEF e
    <3> QED
      BY <2>2, <3>1, <3>2
  <2>4. UNCHANGED volume => volume' \in [Sides -> Nat]
    BY <2>2
  <2> QED
    BY <2>1, <2>3, <2>4 DEF EventHandler, ORDER_CXL_CONFIRMATION_TR, ORDER_ERROR_OUT, ORDER_REJ_OUT,
       SelfTradeStopped, HedgeRefused, TradeLoad, TradeStore, TradeSize, TradeHedge, HedgeStore,
       strategyVars

\* What the handlers leave alone.
<1>2. QuoterOK' /\ ClientOK' /\ BidOK' /\ BookOK'
  BY <1>0, TypesStay
<1>3. ASSUME events' = Tail(events), events # <<>>, UNCHANGED <<traded, remaining, hedger, mkt, owed, upset>>
      PROVE  TypeInv'
  BY <1>0, <1>1, <1>2, <1>3, TypesStay DEF TypeInv
<1>4. CASE ORDER_CONFIRMATION_TR \/ ORDER_MOD_CONFIRMATION_TR \/ ORDER_CXL_CONFIRMATION_TR
           \/ ORDER_ERROR_OUT \/ ORDER_REJ_OUT \/ HedgeRefused
  <2> HIDE DEF e
  <2>1. events' = Tail(events) /\ events # <<>> /\ UNCHANGED <<traded, remaining, hedger, mkt, owed, upset>>
    BY <1>4 DEF ORDER_CONFIRMATION_TR, ORDER_MOD_CONFIRMATION_TR, ORDER_CXL_CONFIRMATION_TR,
       ORDER_ERROR_OUT, ORDER_REJ_OUT, Settle, HedgeRefused, Handles, strategyVars, threadVars, historyVars
  <2> QED
    BY <1>3, <2>1
<1>5. CASE SelfTradeStopped
  <2> DEFINE m == Market(e.side, e.leg, e.lots, e.lots)
  <2>1. /\ events # <<>> /\ e.kind = "stopped" /\ events' = Tail(events)
        /\ mkt' = mkt (+) SetToBag({m}) /\ UNCHANGED <<traded, remaining, hedger, owed, upset>>
    BY <1>5 DEF SelfTradeStopped, Handles, strategyVars, threadVars, historyVars
  <2>2. e \in [kind : {"stopped"}, side : Sides, leg : Hedges, lots : Nat] /\ e.lots > 0
    BY <1>1, <2>1 DEF Event
  <2>3. m \in Order /\ 0 < m.lots /\ m.lots <= m.volume
    BY <2>2 DEF Market, Order
  <2> HIDE DEF m, e
  <2>4. MarketOK'
    BY <2>1, <2>3, MarketJoined DEF TypeInv, MarketOK
  <2> QED
    BY <1>0, <1>1, <1>2, <2>1, <2>4, TypesStay DEF TypeInv
<1>6. CASE TradeLoad
  <2>1. /\ events # <<>> /\ e.kind = "trade" /\ events' = Tail(events)
        /\ hedger' = [act |-> "store", side |-> e.side, leg |-> e.leg, lots |-> e.lots,
                      left |-> e.left, reg |-> traded[e.side][e.leg]]
        /\ UNCHANGED <<traded, remaining, mkt, owed, upset>>
    BY <1>6 DEF TradeLoad, Handles, strategyVars, historyVars
  <2>2. e \in [kind : {"trade"}, side : Sides, leg : Legs, lots : Nat, left : Nat] /\ e.lots > 0
    BY <1>1, <2>1 DEF Event
  <2>3. traded[e.side][e.leg] \in Nat
    BY <2>2 DEF TypeInv, StrategyOK
  <2>4. HedgerOK'
    BY <2>1, <2>2, <2>3 DEF HedgerOK, Idle
  <2> HIDE DEF e
  <2> QED
    BY <1>0, <1>1, <1>2, <2>1, <2>4, TypesStay DEF TypeInv

\* A step inside a trade.
<1>7. ASSUME UNCHANGED <<events, mkt, owed, upset>>, HedgerOK', StrategyOK' PROVE TypeInv'
  <2>1. Range(events') \subseteq Range(events)
    BY <1>7
  <2> HIDE DEF e
  <2> QED
    BY <1>0, <1>2, <1>7, <2>1, TypesStay DEF TypeInv
<1>8. ASSUME traded' = Stored, hedger # Idle, hedger.act = "store"
      PROVE  traded' \in [Sides -> [Legs -> Nat]]
  <2>1. hedger \in [act : {"store", "size"}, side : Sides, leg : Legs, lots : Nat, left : Nat, reg : Nat]
    BY <1>8, HedgerShape
  <2> QED
    BY <1>8, <2>1 DEF TypeInv, StrategyOK, Stored
<1>9. CASE TradeStore
  <2>1. /\ hedger # Idle /\ hedger.act = "store" /\ hedger' = [hedger EXCEPT !.act = "size"]
        /\ traded' = Stored /\ UNCHANGED <<remaining, events, mkt, owed, upset>>
    BY <1>9 DEF TradeStore, Storing, exchangeVars, historyVars
  <2>2. hedger \in [act : {"store", "size"}, side : Sides, leg : Legs, lots : Nat, left : Nat, reg : Nat]
        /\ hedger.lots > 0
    BY <2>1, HedgerShape
  <2>3. HedgerOK'
    BY <2>1, <2>2 DEF HedgerOK, Idle
  <2>4. StrategyOK'
    BY <1>0, <1>8, <2>1 DEF TypeInv, StrategyOK
  <2> QED
    BY <1>7, <2>1, <2>3, <2>4
<1>10. CASE TradeSize
  <2>1. /\ hedger # Idle /\ hedger.act = "size" /\ remaining' = [remaining EXCEPT ![hedger.side] = LeftOf]
        /\ hedger' = [act |-> "hedge", side |-> hedger.side, leg |-> 1, lots |-> hedger.lots,
                      tradable |-> traded[hedger.side][1], next |-> 2]
        /\ UNCHANGED <<traded, events, mkt, owed, upset>>
    BY <1>10 DEF TradeSize, exchangeVars, historyVars
  <2>2. hedger \in [act : {"store", "size"}, side : Sides, leg : Legs, lots : Nat, left : Nat, reg : Nat]
        /\ hedger.lots > 0
    BY <2>1, HedgerShape
  <2>3. traded[hedger.side][1] \in Nat
    BY <2>2, LegsAndSides DEF TypeInv, StrategyOK
  <2>4. HedgerOK'
    BY <2>1, <2>2, <2>3, FirstHedge DEF HedgerOK, Idle
  <2>5. StrategyOK'
    BY <1>0, <2>1, <2>2 DEF TypeInv, StrategyOK, LeftOf
  <2> QED
    BY <1>7, <2>1, <2>4, <2>5
<1>11. CASE TradeHedge
  <2> DEFINE s == hedger.side
             l == hedger.next
             lots == ToHit(s, l)
             m == Market(s, l, lots, lots)
  <2>1. /\ hedger # Idle /\ hedger.act = "hedge"
        /\ mkt' = IF lots > 0 THEN mkt (+) SetToBag({m}) ELSE mkt
        /\ hedger' = IF l = Last THEN Idle ELSE [hedger EXCEPT !.next = l + 1]
        /\ \E b : UpsetIf(s, "overlap", b)
        /\ owed' = [owed EXCEPT ![s] = @ \ {l}]
        /\ UNCHANGED <<traded, remaining, events>>
    BY <1>11 DEF TradeHedge, strategyVars
  <2>2. hedger \in [act : {"hedge"}, side : Sides, leg : {1}, lots : Nat, tradable : Nat, next : Hedges]
        /\ hedger.lots > 0
    BY <2>1, HedgerShape
  <2>3. lots \in Int
    BY <2>1, <2>2, HedgeIsLots
  <2>4. HedgerOK'
    <3>1. CASE l = Last
      BY <2>1, <3>1 DEF HedgerOK
    <3>2. CASE l # Last
      <4>1. l + 1 \in Hedges
        BY <2>2, <3>2, NextLeg
      <4> QED
        BY <2>1, <2>2, <3>2, <4>1 DEF HedgerOK, Idle
    <3> QED
      BY <3>1, <3>2
  <2>5. MarketOK'
    <3>1. CASE lots > 0
      <4>1. m \in Order /\ 0 < m.lots /\ m.lots <= m.volume
        BY <2>2, <2>3, <3>1 DEF Market, Order
      <4>2. mkt' = mkt (+) SetToBag({m})
        BY <2>1, <3>1
      <4> HIDE DEF m
      <4> QED
        BY <4>1, <4>2, MarketJoined DEF TypeInv, MarketOK
    <3>2. CASE ~(lots > 0)
      BY <2>1, <3>2, TypesStay
    <3> QED
      BY <3>1, <3>2
  <2>6. HistoryOK'
    <3>1. "overlap" \in Upsets
      BY DEF Upsets
    <3>2. upset' = upset \/ upset' = [upset EXCEPT ![s] = @ \cup {"overlap"}]
      BY <2>1 DEF UpsetIf
    <3>3. counts' = counts /\ filled' = filled
      BY <1>0
    <3> QED
      BY <2>1, <2>2, <3>1, <3>2, <3>3 DEF TypeInv, HistoryOK
  <2>7. StrategyOK' /\ EventsOK'
    <3>1. Range(events') \subseteq Range(events)
      BY <2>1
    <3> QED
      BY <1>0, <2>1, <3>1, TypesStay
  <2> QED
    BY <1>2, <2>4, <2>5, <2>6, <2>7 DEF TypeInv
<1>12. CASE HedgeStore
  <2>1. /\ hedger # Idle /\ hedger.act = "store" /\ traded' = Stored /\ hedger' = Idle
        /\ UNCHANGED <<remaining, events, mkt, owed, upset>>
    BY <1>12 DEF HedgeStore, Storing, exchangeVars, historyVars
  <2>2. HedgerOK'
    BY <2>1 DEF HedgerOK
  <2>3. StrategyOK'
    BY <1>0, <1>8, <2>1 DEF TypeInv, StrategyOK
  <2> QED
    BY <1>7, <2>1, <2>2, <2>3
<1> QED
  BY <1>4, <1>5, <1>6, <1>9, <1>10, <1>11, <1>12 DEF EventHandler

LEMMA ClientTypes == LegInv /\ TypeInv /\ Client => TypeInv'
<1> SUFFICES ASSUME LegInv, TypeInv, Client PROVE TypeInv'
  OBVIOUS
<1>1. UNCHANGED <<volume, rate, remaining, quoter, hedger, bid, mkt, book, events, filled, owed>>
  BY DEF Client, Difference, DiffTest, DiffStore, strategyVars, exchangeVars, historyVars
<1>2. QuoterOK' /\ HedgerOK' /\ BidOK' /\ MarketOK' /\ BookOK' /\ EventsOK'
  <2>1. Range(bid') \subseteq Range(bid) /\ Range(events') \subseteq Range(events)
    BY <1>1
  <2> QED
    BY <1>1, <2>1, TypesStay
<1>3. Ratio[1] \in Nat /\ \A l \in Legs : Ratio[l] \in Nat
  BY LegsAndSides
<1>4. \A req \in Requests : req \in [Sides -> [min : Nat, max : Nat, carried : Nat]]
  BY StrategyAssumption DEF StrategyAssumption
<1>5. ASSUME NEW req \in Requests, Difference(req) PROVE TypeInv'
  <2>1. /\ limits' = [s \in Sides |-> [min |-> Ratio[1] * req[s].min, max |-> Ratio[1] * req[s].max]]
        /\ client' = [act |-> "test", side |-> "create", req |-> req, leg |-> 1]
        /\ counts' = [counts EXCEPT !.requests = @ + 1]
        /\ upset' = [s \in Sides |-> upset[s] \cup IF AtRest(s) THEN {} ELSE {"limits"}]
        /\ UNCHANGED traded
    BY <1>5 DEF Difference
  <2>2. ClientOK'
    BY <2>1, LegsAndSides DEF ClientOK
  <2>3. \A s \in Sides : req[s].min \in Nat /\ req[s].max \in Nat
    BY <1>4
  <2>4. \A n \in Nat : Ratio[1] * n \in Nat
    BY <1>3
  <2>5. StrategyOK'
    <3>1. limits' \in [Sides -> [min : Nat, max : Nat]]
      BY <2>1, <2>3, <2>4
    <3> QED
      BY <1>1, <2>1, <3>1 DEF TypeInv, StrategyOK
  <2>6. HistoryOK'
    <3>1. counts.requests \in Nat
      BY DEF TypeInv, HistoryOK
    <3>2. counts' \in [{"quotes", "asks", "stops", "requests"} -> Nat]
      BY <2>1, <3>1 DEF TypeInv, HistoryOK
    <3>3. upset' \in [Sides -> SUBSET Upsets]
      BY <2>1 DEF TypeInv, HistoryOK, Upsets
    <3> QED
      BY <1>1, <3>2, <3>3 DEF TypeInv, HistoryOK
  <2> QED
    BY <1>2, <2>2, <2>5, <2>6 DEF TypeInv
<1>6. ASSUME client # Idle
      PROVE  client \in [act : {"test", "store"}, side : Sides, req : Requests, leg : Legs]
  BY <1>6 DEF TypeInv, ClientOK
<1>7. client # Idle =>
        NextSide \in {Idle} \cup [act : {"test", "store"}, side : Sides, req : Requests, leg : Legs]
  BY <1>6, LegsAndSides DEF NextSide
<1>8. CASE DiffTest
  <2>1. /\ client # Idle /\ client' \in {[client EXCEPT !.act = "store"], NextSide}
        /\ UNCHANGED <<limits, traded, counts, upset>>
    BY <1>8 DEF DiffTest, strategyVars, historyVars
  <2>2. ClientOK'
    BY <1>6, <1>7, <2>1 DEF ClientOK
  <2> QED
    BY <1>1, <1>2, <2>1, <2>2, TypesStay DEF TypeInv
<1>9. CASE DiffStore
  <2> DEFINE s == client.side
             l == client.leg
  <2>1. /\ client # Idle
        /\ traded' = [traded EXCEPT ![s][l] = client.req[s].carried * Ratio[l]]
        /\ client' = IF l = Last THEN NextSide ELSE [client EXCEPT !.leg = l + 1]
        /\ upset' = upset \/ upset' = [upset EXCEPT ![s] = @ \cup {"carried"}]
        /\ UNCHANGED <<limits, counts>>
    BY <1>9 DEF DiffStore, UpsetIf
  <2>2. s \in Sides /\ l \in Legs /\ client.req[s].carried \in Nat
    BY <1>4, <1>6, <2>1
  <2>3. client.req[s].carried * Ratio[l] \in Nat
    BY <1>3, <2>2
  <2>4. StrategyOK'
    BY <1>1, <2>1, <2>2, <2>3 DEF TypeInv, StrategyOK
  <2>5. ClientOK'
    <3>1. l # Last => l + 1 \in Legs
      <4>1. CASE l \in Hedges
        BY <4>1, NextLeg, LegsAndSides
      <4>2. CASE l \notin Hedges
        <5>1. l = 1
          BY <2>2, <4>2 DEF Legs, Hedges
        <5> QED
          BY <5>1, FirstHedge, LegsAndSides
      <4> QED
        BY <4>1, <4>2
    <3> QED
      BY <1>6, <1>7, <2>1, <3>1 DEF ClientOK
  <2>6. HistoryOK'
    <3>1. "carried" \in Upsets
      BY DEF Upsets
    <3> QED
      BY <1>1, <2>1, <3>1 DEF TypeInv, HistoryOK
  <2> QED
    BY <1>2, <2>4, <2>5, <2>6 DEF TypeInv
<1> QED
  BY <1>5, <1>8, <1>9 DEF Client

\* An event that joins the others.
LEMMA EventJoined ==
    ASSUME LegInv, TypeInv, NEW e \in Event, e.kind \in {"trade", "stopped"} => e.lots > 0,
           events' = Append(events, e)
    PROVE  EventsOK'
<1>1. Range(events') = Range(events) \cup {e}
  BY AppendToQueue DEF LegInv, Typed
<1> QED
  BY <1>1 DEF TypeInv, EventsOK

\* The lots a modify leaves, and those it gives back, are counted.
LEMMA ModifiedType ==
    ASSUME TypeInv, DoModify, Head(bid).lots \in Nat
    PROVE  BookOK'
<1> DEFINE n == Head(bid).number
<1>2. PICK left \in {Head(bid).lots, book[n].lots} :
        book' = [book EXCEPT ![n].lots = left, ![n].given = @ + Excess(left, book[n].lots)]
  BY DEF DoModify
<1>3. n \in DOMAIN book /\ book[n] \in [side : Sides, lots : Nat, given : Nat]
  BY DEF DoModify, Works, TypeInv, BookOK
<1>4. left \in Nat /\ Excess(left, book[n].lots) \in Nat
  BY <1>2, <1>3 DEF Excess
<1> HIDE DEF n
<1> QED
  BY <1>2, <1>3, <1>4 DEF TypeInv, BookOK

LEMMA AnswersTypes == LegInv /\ TypeInv /\ Answers => TypeInv'
<1> SUFFICES ASSUME LegInv, TypeInv, Answers PROVE TypeInv'
  OBVIOUS
<1> DEFINE r == Head(bid)
<1>1. /\ bid # <<>> /\ bid' = Tail(bid)
      /\ UNCHANGED <<volume, rate, limits, traded, remaining, quoter, hedger, client, mkt, counts, filled, owed, upset>>
  BY DEF Answers, AcceptNew, RefuseNew, DoModify, DoCancel, RefuseAsk, strategyVars, threadVars, historyVars
<1>2. r \in Range(bid) /\ Range(bid') \subseteq Range(bid)
  BY <1>1, TailOfQueue DEF LegInv, Typed
<1>3. \/ r \in [kind : {"new"}, side : Sides, lots : Int]
      \/ r \in [kind : {"modify"}, side : Sides, number : Nat, lots : Nat]
      \/ r \in [kind : {"cancel"}, side : Sides, number : Nat]
  BY <1>2 DEF TypeInv, BidOK
<1>4. ASSUME NEW e \in Event, e.kind \notin {"trade", "stopped"}, events' = Append(events, e), BookOK'
      PROVE  TypeInv'
  <2>1. EventsOK'
    BY <1>4, EventJoined
  <2> HIDE DEF r
  <2> QED
    BY <1>1, <1>2, <1>4, <2>1, TypesStay DEF TypeInv
<1>5. Cardinality(DOMAIN book) \in Nat
  BY FS_CardinalityType DEF LegInv, Typed
<1>6. UNCHANGED book => BookOK'
  BY TypesStay
<1>7. CASE AcceptNew
  <2> DEFINE n == 1 + Cardinality(DOMAIN book)
             e == [kind |-> "confirmed", side |-> r.side, number |-> n, lots |-> r.lots]
  <2>1. /\ r.kind = "new" /\ r.lots > 0 /\ events' = Append(events, e)
        /\ book' = [k \in DOMAIN book \cup {n} |->
                      IF k = n THEN [side |-> r.side, lots |-> r.lots, given |-> 0] ELSE book[k]]
    BY <1>7 DEF AcceptNew, Answer
  <2>2. r.side \in Sides /\ r.lots \in Nat
    BY <1>3, <2>1
  <2>3. BookOK'
    BY <2>1, <2>2 DEF TypeInv, BookOK
  <2>4. e \in Event /\ e.kind = "confirmed"
    BY <1>5, <2>2 DEF Event
  <2> HIDE DEF e
  <2> QED
    BY <1>4, <2>1, <2>3, <2>4
<1>8. CASE RefuseNew
  <2> DEFINE e == [kind |-> "error", side |-> r.side]
  <2>1. events' = Append(events, e) /\ UNCHANGED book
    BY <1>8 DEF RefuseNew, Answer
  <2>2. e \in Event /\ e.kind = "error"
    BY <1>3 DEF Event
  <2> HIDE DEF e
  <2> QED
    BY <1>4, <1>6, <2>1, <2>2
<1>9. CASE DoModify
  <2> DEFINE e == [kind |-> "modified", side |-> r.side, number |-> r.number, lots |-> r.lots]
  <2>1. events' = Append(events, e) /\ r.kind = "modify"
    BY <1>9 DEF DoModify, Answer
  <2>2. r.lots \in Nat /\ r.number \in Nat /\ r.side \in Sides
    BY <1>3, <2>1
  <2>3. e \in Event /\ e.kind = "modified"
    BY <2>2 DEF Event
  <2>4. BookOK'
    BY <1>9, <2>2, ModifiedType
  <2> HIDE DEF e
  <2> QED
    BY <1>4, <2>1, <2>3, <2>4
<1>10. CASE DoCancel
  <2> DEFINE e == [kind |-> "cancelled", side |-> r.side]
  <2>1. /\ events' = Append(events, e) /\ r.kind = "cancel" /\ Works(r.number)
        /\ book' = [book EXCEPT ![r.number].lots = 0]
    BY <1>10 DEF DoCancel, Answer
  <2>2. e \in Event /\ e.kind = "cancelled"
    BY <1>3 DEF Event
  <2>3. BookOK'
    BY <2>1 DEF TypeInv, BookOK
  <2> HIDE DEF e
  <2> QED
    BY <1>4, <2>1, <2>2, <2>3
<1>11. CASE RefuseAsk
  <2> DEFINE e == [kind |-> "refused", side |-> r.side, gone |-> ~Works(r.number)]
  <2>1. events' = Append(events, e) /\ UNCHANGED book
    BY <1>11 DEF RefuseAsk, Answer
  <2>2. e \in Event /\ e.kind = "refused"
    <3>1. r.side \in Sides /\ (~Works(r.number)) \in BOOLEAN
      BY <1>3
    <3> QED
      BY <3>1 DEF Event
  <2> HIDE DEF e
  <2> QED
    BY <1>4, <1>6, <2>1, <2>2
<1> QED
  BY <1>7, <1>8, <1>9, <1>10, <1>11 DEF Answers

LEMMA TradingTypes == LegInv /\ TypeInv /\ Trading => TypeInv'
<1> SUFFICES ASSUME LegInv, TypeInv, Trading PROVE TypeInv'
  OBVIOUS
<1>1. ASSUME UNCHANGED <<volume, rate, limits, traded, remaining, quoter, hedger, client, bid>>,
             MarketOK', BookOK', HistoryOK', NEW e \in Event, events' = Append(events, e),
             e.kind \in {"trade", "stopped"} => e.lots > 0
      PROVE  TypeInv'
  <2>1. EventsOK'
    BY <1>1, EventJoined
  <2>2. Range(bid') \subseteq Range(bid)
    BY <1>1
  <2> QED
    BY <1>1, <2>1, <2>2, TypesStay DEF TypeInv
<1>2. (UNCHANGED mkt => MarketOK') /\ (UNCHANGED book => BookOK')
  BY TypesStay
<1>3. ASSUME counts' = [counts EXCEPT !.stops = @ + 1], UNCHANGED filled,
             owed' \in [Sides -> SUBSET Hedges], upset' \in [Sides -> SUBSET Upsets]
      PROVE  HistoryOK'
  <2>1. counts.stops \in Nat
    BY DEF TypeInv, HistoryOK
  <2> QED
    BY <1>3, <2>1 DEF TypeInv, HistoryOK
<1>4. \A n \in DOMAIN book : book[n] \in [side : Sides, lots : Nat, given : Nat]
  BY DEF TypeInv, BookOK
<1>5. owed \in [Sides -> SUBSET Hedges] /\ upset \in [Sides -> SUBSET Upsets]
  BY DEF TypeInv, HistoryOK
<1>6. ASSUME NEW s \in Sides, NEW l \in Legs, NEW k \in Nat, Count(s, l, k), UNCHANGED <<counts, owed, upset>>
      PROVE  HistoryOK'
  BY <1>6 DEF TypeInv, HistoryOK, Count
<1>7. ASSUME NEW n \in DOMAIN book, StopQuote(n) PROVE TypeInv'
  <2> DEFINE e == [kind |-> "cancelled", side |-> book[n].side]
  <2>1. /\ events' = Append(events, e) /\ book' = [book EXCEPT ![n].lots = 0]
        /\ counts' = [counts EXCEPT !.stops = @ + 1]
        /\ UNCHANGED <<volume, rate, limits, traded, remaining, quoter, hedger, client, bid, mkt, filled, owed, upset>>
    BY <1>7 DEF StopQuote, Stops, Answer, strategyVars, threadVars
  <2>2. e \in Event /\ e.kind = "cancelled"
    BY <1>4 DEF Event
  <2>3. BookOK'
    BY <2>1 DEF TypeInv, BookOK
  <2>4. HistoryOK'
    BY <1>3, <1>5, <2>1
  <2> HIDE DEF e
  <2> QED
    BY <1>1, <1>2, <2>1, <2>2, <2>3, <2>4
<1>8. ASSUME NEW n \in DOMAIN book, NEW k \in 1..book[n].lots, Fill(n, k) PROVE TypeInv'
  <2> DEFINE e == [kind |-> "trade", side |-> book[n].side, leg |-> 1, lots |-> k, left |-> book[n].lots - k]
  <2>1. /\ events' = Append(events, e) /\ book' = [book EXCEPT ![n].lots = @ - k]
        /\ Count(book[n].side, 1, k)
        /\ UNCHANGED <<volume, rate, limits, traded, remaining, quoter, hedger, client, bid, mkt, counts, owed, upset>>
    BY <1>8 DEF Fill, Report, Answer, strategyVars, threadVars
  <2>2. book[n].side \in Sides /\ book[n].lots \in Nat /\ k \in Nat /\ k > 0 /\ book[n].lots - k \in Nat
    BY <1>4
  <2>3. e \in Event /\ e.lots > 0
    BY <2>2, LegsAndSides DEF Event
  <2>4. BookOK'
    BY <2>1, <2>2 DEF TypeInv, BookOK
  <2>5. HistoryOK'
    BY <1>6, <2>1, <2>2, LegsAndSides
  <2> HIDE DEF e
  <2> QED
    BY <1>1, <1>2, <2>1, <2>3, <2>4, <2>5
<1>9. ASSUME NEW m \in BagToSet(mkt)
      PROVE  /\ m \in Order /\ 0 < m.lots /\ m.lots <= m.volume /\ m.side \in Sides /\ m.leg \in Hedges
             /\ m.leg \in Legs /\ m.lots \in Nat /\ m.volume \in Nat
             /\ Market_OK(Without(m)) /\ DOMAIN Without(m) \subseteq DOMAIN mkt
  <2>1. m \in Order /\ 0 < m.lots /\ m.lots <= m.volume
    BY DEF TypeInv, MarketOK
  <2>2. m.side \in Sides /\ m.leg \in Hedges /\ m.leg \in Legs /\ m.lots \in Nat /\ m.volume \in Nat
    BY <2>1, LegsAndSides DEF Order
  <2>3. Market_OK(Without(m)) /\ DOMAIN Without(m) \subseteq DOMAIN mkt
    BY BagMinus DEF TypeInv, MarketOK, BagToSet, Without
  <2> QED
    BY <2>1, <2>2, <2>3
<1>10. ASSUME NEW m \in BagToSet(mkt), mkt' = Without(m) PROVE MarketOK'
  <2>1. BagToSet(mkt') \subseteq BagToSet(mkt)
    BY <1>9, <1>10 DEF BagToSet
  <2>2. Market_OK(mkt')
    BY <1>9, <1>10
  <2> QED
    BY <2>1, <2>2 DEF TypeInv, MarketOK, Market_OK
<1>11. ASSUME NEW m \in BagToSet(mkt), StopMarket(m) PROVE TypeInv'
  <2> DEFINE e == [kind |-> "stopped", side |-> m.side, leg |-> m.leg, lots |-> m.volume]
  <2>1. /\ events' = Append(events, e) /\ mkt' = Without(m) /\ counts' = [counts EXCEPT !.stops = @ + 1]
        /\ upset' = [upset EXCEPT ![m.side] = @ \cup {"stopped"}]
        /\ UNCHANGED <<volume, rate, limits, traded, remaining, quoter, hedger, client, bid, book, filled, owed>>
    BY <1>11 DEF StopMarket, Stops, Answer, UpsetIf, strategyVars, threadVars
  <2>2. e \in Event /\ e.lots > 0
    BY <1>9 DEF Event
  <2>3. upset' \in [Sides -> SUBSET Upsets]
    BY <1>5, <2>1 DEF Upsets
  <2>4. HistoryOK' /\ MarketOK'
    BY <1>3, <1>5, <1>10, <2>1, <2>3
  <2> HIDE DEF e
  <2> QED
    BY <1>1, <1>2, <2>1, <2>2, <2>4
<1>12. ASSUME NEW m \in BagToSet(mkt), RefuseMarket(m) PROVE TypeInv'
  <2> DEFINE e == [kind |-> "rejected", side |-> m.side, leg |-> m.leg]
  <2>1. /\ events' = Append(events, e) /\ mkt' = Without(m) /\ counts' = [counts EXCEPT !.stops = @ + 1]
        /\ owed' = [owed EXCEPT ![m.side] = @ \cup {m.leg}]
        /\ UNCHANGED <<volume, rate, limits, traded, remaining, quoter, hedger, client, bid, book, filled, upset>>
    BY <1>12 DEF RefuseMarket, Stops, Answer, strategyVars, threadVars
  <2>2. e \in Event /\ e.kind = "rejected"
    BY <1>9 DEF Event
  <2>3. owed' \in [Sides -> SUBSET Hedges]
    BY <1>5, <1>9, <2>1
  <2>4. HistoryOK' /\ MarketOK'
    BY <1>3, <1>5, <1>10, <2>1, <2>3
  <2> HIDE DEF e
  <2> QED
    BY <1>1, <1>2, <2>1, <2>2, <2>4
<1>13. ASSUME NEW m \in BagToSet(mkt), NEW k \in 1..m.lots, FillMarket(m, k) PROVE TypeInv'
  <2> DEFINE e == [kind |-> "trade", side |-> m.side, leg |-> m.leg, lots |-> k, left |-> m.lots - k]
             rest == [m EXCEPT !.lots = @ - k]
  <2>1. /\ events' = Append(events, e) /\ Count(m.side, m.leg, k)
        /\ mkt' = IF k = m.lots THEN Without(m) ELSE Without(m) (+) SetToBag({rest})
        /\ UNCHANGED <<volume, rate, limits, traded, remaining, quoter, hedger, client, bid, book, counts, owed, upset>>
    BY <1>13 DEF FillMarket, Report, Answer, strategyVars, threadVars
  <2>2. k \in Nat /\ k > 0 /\ m.lots - k \in Nat /\ (k # m.lots => m.lots - k > 0)
    BY <1>9
  <2>3. e \in Event /\ e.lots > 0
    BY <1>9, <2>2 DEF Event
  <2>4. HistoryOK'
    BY <1>6, <1>9, <2>1, <2>2
  <2>5. MarketOK'
    <3>1. CASE k = m.lots
      BY <1>10, <2>1, <3>1
    <3>2. CASE k # m.lots
      <4>1. rest \in Order /\ 0 < rest.lots /\ rest.lots <= rest.volume
        BY <1>9, <2>2, <3>2 DEF Order
      <4>2. mkt' = Without(m) (+) SetToBag({rest})
        BY <2>1, <3>2
      <4> HIDE DEF rest
      <4> QED
        BY <1>9, <4>1, <4>2, MarketJoined
    <3> QED
      BY <3>1, <3>2
  <2> HIDE DEF e, rest
  <2> QED
    BY <1>1, <1>2, <2>1, <2>3, <2>4, <2>5
<1> QED
  BY <1>7, <1>8, <1>11, <1>12, <1>13 DEF Trading
-----------------------------------------------------------------------------
(* The steps that count no lots, and the others.                            *)

Quiet ==
    /\ UNCHANGED <<traded, filled, hedger, mkt>>
    /\ \A s \in Sides, l \in Legs : Told(s, l)' = Told(s, l) /\ Halted(s, l)' = Halted(s, l)

SettlingHandler ==
    \/ ORDER_CONFIRMATION_TR \/ ORDER_MOD_CONFIRMATION_TR \/ ORDER_CXL_CONFIRMATION_TR
    \/ ORDER_ERROR_OUT \/ ORDER_REJ_OUT \/ HedgeRefused
QuietNext ==
    \/ MarketData \/ Quoter \/ SettlingHandler \/ (\E req \in Requests : Difference(req)) \/ DiffTest
    \/ Answers \/ (\E n \in DOMAIN book : StopQuote(n)) \/ UNCHANGED vars
TradingInMarket ==
    \E m \in BagToSet(mkt) : StopMarket(m) \/ RefuseMarket(m) \/ \E k \in 1..m.lots : FillMarket(m, k)
Fills == \E n \in DOMAIN book : \E k \in 1..book[n].lots : Fill(n, k)

LEMMA KindsOfSteps ==
    [Next]_vars =>
        \/ QuietNext \/ SelfTradeStopped \/ TradeLoad \/ TradeStore \/ TradeSize \/ TradeHedge \/ HedgeStore
        \/ DiffStore \/ Fills \/ TradingInMarket
  BY DEF Next, QuietNext, SettlingHandler, EventHandler, Client, Trading, TradingInMarket, Fills

LEMMA QuietStep == LegInv /\ TypeInv /\ QuietNext => Quiet
<1> SUFFICES ASSUME LegInv, TypeInv, QuietNext PROVE Quiet
  OBVIOUS
<1>1. IsSeq(events) /\ SizedEvents
  BY SizedEventsTyped DEF LegInv, Typed
<1>2. ASSUME UNCHANGED <<traded, filled, hedger, mkt, events>> PROVE Quiet
  BY <1>2, ToldStays DEF Quiet
<1>3. ASSUME UNCHANGED <<traded, filled, hedger, mkt>>, NEW e, events' = Append(events, e),
             e.kind \notin {"trade", "stopped"}
      PROVE  Quiet
  <2>1. ASSUME NEW s \in Sides, NEW l \in Legs
        PROVE  Told(s, l)' = Told(s, l) /\ Halted(s, l)' = Halted(s, l)
    <3>1. ~IsFill(e, s, l) /\ ~IsHalt(e, s, l)
      BY <1>3 DEF IsFill, IsHalt
    <3>2. Told(s, l) \in Nat /\ Halted(s, l) \in Nat
      BY NumbersTyped
    <3>3. /\ Told(s, l)' = Told(s, l) + IF IsFill(e, s, l) THEN e.lots ELSE 0
          /\ Halted(s, l)' = Halted(s, l) + IF IsHalt(e, s, l) THEN e.lots ELSE 0
      BY <1>1, <1>3, ToldAppend
    <3> QED
      BY <3>1, <3>2, <3>3
  <2> QED
    BY <1>3, <2>1 DEF Quiet
<1>4. ASSUME UNCHANGED <<traded, filled, hedger, mkt>>, events # <<>>, events' = Tail(events),
             Head(events).kind \notin {"trade", "stopped"}
      PROVE  Quiet
  <2>1. ASSUME NEW s \in Sides, NEW l \in Legs
        PROVE  Told(s, l)' = Told(s, l) /\ Halted(s, l)' = Halted(s, l)
    <3>1. ~IsFill(Head(events), s, l) /\ ~IsHalt(Head(events), s, l)
      BY <1>4 DEF IsFill, IsHalt
    <3>2. IsSeq(events') /\ SizedEvents'
      <4>1. IsSeq(Tail(events)) /\ Range(events) = Range(Tail(events)) \cup {Head(events)}
        BY <1>1, <1>4, TailOfQueue
      <4> QED
        BY <1>1, <1>4, <4>1 DEF SizedEvents
    <3>3. Told(s, l) \in Nat /\ Halted(s, l) \in Nat
      BY NumbersTyped
    <3>4. /\ Told(s, l) = Told(s, l)' + IF IsFill(Head(events), s, l) THEN Head(events).lots ELSE 0
          /\ Halted(s, l) = Halted(s, l)' + IF IsHalt(Head(events), s, l) THEN Head(events).lots ELSE 0
      BY <1>1, <1>4, ToldTail
    <3>5. Told(s, l)' \in Nat /\ Halted(s, l)' \in Nat
      <4>1. IsSeq(events) /\ SizedEvents => Told(s, l) \in Nat /\ Halted(s, l) \in Nat
        BY ToldType
      <4>2. (IsSeq(events) /\ SizedEvents => Told(s, l) \in Nat /\ Halted(s, l) \in Nat)'
        BY ToldType, PTL
      <4> QED
        BY <3>2, <4>2
    <3> QED
      BY <3>1, <3>3, <3>4, <3>5
  <2> QED
    BY <1>4, <2>1 DEF Quiet
<1>5. CASE MarketData
  BY <1>2, <1>5 DEF MarketData, LookNew, LookModify, LookCancel, Begin, strategyVars, exchangeVars
<1>6. CASE Quoter
  BY <1>2, <1>6 DEF Quoter, MarkPending, Quote, Requote, Withdraw, strategyVars, exchangeVars, historyVars
<1>7. CASE SettlingHandler
  BY <1>4, <1>7 DEF SettlingHandler, ORDER_CONFIRMATION_TR, ORDER_MOD_CONFIRMATION_TR,
     ORDER_CXL_CONFIRMATION_TR, ORDER_ERROR_OUT, ORDER_REJ_OUT, Settle, HedgeRefused, Handles,
     strategyVars, threadVars, historyVars
<1>8. CASE (\E req \in Requests : Difference(req)) \/ DiffTest
  BY <1>2, <1>8 DEF Difference, DiffTest, strategyVars, exchangeVars, historyVars
<1>9. CASE Answers
  <2>1. \E e : /\ UNCHANGED <<traded, filled, hedger, mkt>> /\ events' = Append(events, e)
               /\ e.kind \notin {"trade", "stopped"}
    BY <1>9 DEF Answers, AcceptNew, RefuseNew, DoModify, DoCancel, RefuseAsk, Answer, strategyVars,
                threadVars, historyVars
  <2> QED
    BY <1>3, <2>1
<1>10. CASE \E n \in DOMAIN book : StopQuote(n)
  <2>1. \E e : /\ UNCHANGED <<traded, filled, hedger, mkt>> /\ events' = Append(events, e)
               /\ e.kind \notin {"trade", "stopped"}
    BY <1>10 DEF StopQuote, Answer, strategyVars, threadVars
  <2> QED
    BY <1>3, <2>1
<1>11. CASE UNCHANGED vars
  BY <1>2, <1>11 DEF vars, strategyVars, threadVars, exchangeVars, historyVars
<1> QED
  BY <1>5, <1>6, <1>7, <1>8, <1>9, <1>10, <1>11 DEF QuietNext

\* The numbers of a side, of one kind of state.
NumbersOK ==
    \A s \in Sides, l \in Legs :
        /\ Told(s, l) \in Nat /\ Halted(s, l) \in Nat /\ InMarket(s, l) \in Nat
        /\ filled[s][l] \in Nat /\ traded[s][l] \in Nat
        /\ InRound(s) \in Nat /\ InHand(s, l) \in Nat

LEMMA AllNumbersTyped == LegInv /\ TypeInv => NumbersOK
<1> SUFFICES ASSUME LegInv, TypeInv, NEW s \in Sides, NEW l \in Legs
             PROVE  /\ Told(s, l) \in Nat /\ Halted(s, l) \in Nat /\ InMarket(s, l) \in Nat
                    /\ filled[s][l] \in Nat /\ traded[s][l] \in Nat
                    /\ InRound(s) \in Nat /\ InHand(s, l) \in Nat
  BY DEF NumbersOK
<1>1. hedger # Idle => hedger.lots \in Nat
  BY HedgerShape
<1> QED
  BY <1>1, NumbersTyped DEF InRound, InTrade, InHand

LEMMA NextNumbersTyped == LegInv' /\ TypeInv' => NumbersOK'
<1>1. (LegInv /\ TypeInv => NumbersOK)'
  BY AllNumbersTyped, PTL
<1> QED
  BY <1>1

\* A trade is handled: its lots are in the hand of the event thread.
LEMMA LoadNumbers ==
    ASSUME LegInv, TypeInv, TradeLoad, NEW s \in Sides, NEW l \in Legs
    PROVE  /\ Told(s, l) = Told(s, l)' + InHand(s, l)' /\ Halted(s, l) = Halted(s, l)'
           /\ InHand(s, l) = 0 /\ InRound(s) = 0
           /\ (InRound(s) = InHand(s, 1))'
           /\ UNCHANGED <<traded, filled, mkt>>
<1> DEFINE e == Head(events)
<1>1. /\ hedger = Idle /\ events # <<>> /\ e.kind = "trade" /\ events' = Tail(events)
      /\ hedger' = [act |-> "store", side |-> e.side, leg |-> e.leg, lots |-> e.lots,
                    left |-> e.left, reg |-> traded[e.side][e.leg]]
      /\ UNCHANGED <<traded, filled, mkt>>
  BY DEF TradeLoad, Handles, strategyVars, historyVars
<1>2. IsSeq(events) /\ SizedEvents
  BY SizedEventsTyped DEF LegInv, Typed
<1> HIDE DEF e
<1>3. /\ Told(s, l) = Told(s, l)' + IF IsFill(e, s, l) THEN e.lots ELSE 0
      /\ Halted(s, l) = Halted(s, l)' + IF IsHalt(e, s, l) THEN e.lots ELSE 0
  BY <1>1, <1>2, ToldTail DEF e
<1>4. ~IsHalt(e, s, l) /\ (IsFill(e, s, l) <=> e.side = s /\ e.leg = l)
  BY <1>1 DEF IsFill, IsHalt
<1>5. hedger' # Idle
  BY <1>1 DEF Idle
<1>6. InHand(s, l)' = IF e.side = s /\ e.leg = l THEN e.lots ELSE 0
  BY <1>1, <1>5 DEF InHand
<1>7. (InRound(s) = InHand(s, 1))'
  BY <1>1, <1>5 DEF InHand, InRound, InTrade
<1>8. InHand(s, l) = 0 /\ InRound(s) = 0
  BY <1>1 DEF InHand, InRound, InTrade
<1>9. SizedEvents' /\ IsSeq(events')
  <2>1. IsSeq(Tail(events)) /\ Range(events) = Range(Tail(events)) \cup {Head(events)}
    BY <1>1, <1>2, TailOfQueue
  <2> QED
    BY <1>1, <1>2, <2>1 DEF SizedEvents
<1>10. Halted(s, l)' \in Nat
  <2>1. (IsSeq(events) /\ SizedEvents => Told(s, l) \in Nat /\ Halted(s, l) \in Nat)'
    BY ToldType, PTL
  <2> QED
    BY <1>9, <2>1
<1>11. Halted(s, l) = Halted(s, l)'
  BY <1>3, <1>4, <1>10
<1>12. Told(s, l) = Told(s, l)' + InHand(s, l)'
  BY <1>3, <1>4, <1>6
<1> QED
  BY <1>1, <1>7, <1>8, <1>11, <1>12

\* A fill of the first leg.
LEMMA FillNumbers ==
    ASSUME LegInv, TypeInv, NEW n \in DOMAIN book, NEW k \in 1..book[n].lots, Fill(n, k),
           NEW s \in Sides, NEW l \in Legs
    PROVE  /\ Told(s, l)' = Told(s, l) + (IF s = book[n].side /\ l = 1 THEN k ELSE 0)
           /\ filled'[s][l] = filled[s][l] + (IF s = book[n].side /\ l = 1 THEN k ELSE 0)
           /\ Halted(s, l)' = Halted(s, l) /\ UNCHANGED <<traded, hedger, mkt>>
           /\ k \in Nat /\ k > 0 /\ book[n].side \in Sides /\ filled'[book[n].side][1] <= MaxLots
<1> DEFINE e == [kind |-> "trade", side |-> book[n].side, leg |-> 1, lots |-> k, left |-> book[n].lots - k]
<1>0. book[n].side \in Sides /\ book[n].lots \in Nat
  BY DEF TypeInv, BookOK
<1>1. /\ events' = Append(events, e) /\ filled' = [filled EXCEPT ![book[n].side][1] = @ + k]
      /\ filled[book[n].side][1] + k <= MaxLots
      /\ UNCHANGED <<traded, hedger, mkt>>
  BY DEF Fill, Report, Answer, Count, strategyVars, threadVars
<1>2. IsSeq(events) /\ SizedEvents
  BY SizedEventsTyped DEF LegInv, Typed
<1>3. /\ IsFill(e, s, l) <=> s = book[n].side /\ l = 1
      /\ ~IsHalt(e, s, l) /\ e.lots = k /\ k \in Nat /\ k > 0
  BY <1>0 DEF IsFill, IsHalt
<1>4. filled \in [Sides -> [Legs -> Nat]] /\ 1 \in Legs
  BY LegsAndSides DEF TypeInv, HistoryOK
<1>5. filled'[s][l] = filled[s][l] + (IF s = book[n].side /\ l = 1 THEN k ELSE 0)
  BY <1>0, <1>1, <1>3, <1>4
<1>6. filled'[book[n].side][1] <= MaxLots
  BY <1>0, <1>1, <1>4
<1> HIDE DEF e
<1>7. /\ Told(s, l)' = Told(s, l) + IF IsFill(e, s, l) THEN e.lots ELSE 0
      /\ Halted(s, l)' = Halted(s, l) + IF IsHalt(e, s, l) THEN e.lots ELSE 0
  BY <1>1, <1>2, <1>3, ToldAppend
<1>8. Halted(s, l) \in Nat
  BY NumbersTyped
<1> QED
  BY <1>0, <1>1, <1>3, <1>5, <1>6, <1>7, <1>8

\* A fill, a stop and a refusal of a market order.
LEMMA MarketNumbers ==
    ASSUME LegInv, TypeInv, NEW m \in BagToSet(mkt), NEW s \in Sides, NEW l \in Legs
    PROVE  LET here == m.side = s /\ m.leg = l IN
           /\ \A k \in 1..m.lots : FillMarket(m, k) =>
                /\ Told(s, l)' = Told(s, l) + (IF here THEN k ELSE 0)
                /\ filled'[s][l] = filled[s][l] + (IF here THEN k ELSE 0)
                /\ InMarket(s, l) = InMarket(s, l)' + (IF here THEN k ELSE 0)
                /\ Halted(s, l)' = Halted(s, l) /\ UNCHANGED <<traded, hedger>>
           /\ StopMarket(m) =>
                /\ Halted(s, l)' = Halted(s, l) + (IF here THEN m.volume ELSE 0)
                /\ InMarket(s, l) = InMarket(s, l)' + (IF here THEN m.lots ELSE 0)
                /\ Told(s, l)' = Told(s, l) /\ UNCHANGED <<traded, hedger, filled>>
           /\ RefuseMarket(m) =>
                /\ InMarket(s, l) = InMarket(s, l)' + (IF here THEN m.lots ELSE 0)
                /\ Told(s, l)' = Told(s, l) /\ Halted(s, l)' = Halted(s, l)
                /\ UNCHANGED <<traded, hedger, filled>>
<1> DEFINE here == m.side = s /\ m.leg = l
<1>1. IsSeq(events) /\ SizedEvents
  BY SizedEventsTyped DEF LegInv, Typed
<1>2. m \in Order /\ m.side \in Sides /\ m.leg \in Legs /\ m.lots \in Nat /\ m.volume \in Nat
      /\ m \in DOMAIN mkt /\ Market_OK(mkt)
  BY LegsAndSides DEF TypeInv, MarketOK, Order, BagToSet
<1>3. /\ Market_OK(Without(m))
      /\ InBag(mkt, s, l) = InBag(Without(m), s, l) + (IF here THEN m.lots ELSE 0)
  <2>1. /\ Market_OK(Without(m))
        /\ InBag(mkt, s, l) = InBag(Without(m), s, l) + (IF IsLot(m, s, l) THEN m.lots ELSE 0)
    BY <1>2, BagMinus DEF Without
  <2> QED
    BY <2>1 DEF IsLot
<1>4. InMarket(s, l) = InBag(mkt, s, l) /\ InMarket(s, l)' = InBag(mkt', s, l)
  BY DEF InMarket, InBag, IsLot
<1>5. /\ Told(s, l) \in Nat /\ Halted(s, l) \in Nat /\ filled \in [Sides -> [Legs -> Nat]]
  BY NumbersTyped DEF TypeInv, HistoryOK
<1>6. InBag(Without(m), s, l) \in Nat
  BY <1>3, BagAmounts, UnitsFinite DEF InBag
<1>7. ASSUME NEW k \in 1..m.lots, FillMarket(m, k)
      PROVE  /\ Told(s, l)' = Told(s, l) + (IF here THEN k ELSE 0)
             /\ filled'[s][l] = filled[s][l] + (IF here THEN k ELSE 0)
             /\ InMarket(s, l) = InMarket(s, l)' + (IF here THEN k ELSE 0)
             /\ Halted(s, l)' = Halted(s, l) /\ UNCHANGED <<traded, hedger>>
  <2> DEFINE e == [kind |-> "trade", side |-> m.side, leg |-> m.leg, lots |-> k, left |-> m.lots - k]
             rest == [m EXCEPT !.lots = @ - k]
  <2>1. /\ events' = Append(events, e) /\ filled' = [filled EXCEPT ![m.side][m.leg] = @ + k]
        /\ mkt' = IF k = m.lots THEN Without(m) ELSE Without(m) (+) SetToBag({rest})
        /\ UNCHANGED <<traded, hedger>>
    BY <1>7 DEF FillMarket, Report, Answer, Count, strategyVars, threadVars
  <2>2. k \in Nat /\ (IsFill(e, s, l) <=> here) /\ ~IsHalt(e, s, l) /\ e.lots = k
    BY <1>2 DEF IsFill, IsHalt
  <2>3. filled'[s][l] = filled[s][l] + (IF here THEN k ELSE 0)
    BY <1>2, <1>5, <2>1, <2>2
  <2>4. InBag(Without(m), s, l) + (IF here THEN m.lots - k ELSE 0) = InBag(mkt', s, l)
    <3>1. CASE k = m.lots
      BY <1>2, <1>6, <2>1, <3>1
    <3>2. CASE k # m.lots
      <4>1. mkt' = Without(m) (+) SetToBag({rest})
        BY <2>1, <3>2
      <4>2. rest.lots = m.lots - k /\ rest.lots \in Nat /\ (IsLot(rest, s, l) <=> here)
        BY <1>2, <2>2 DEF IsLot, Order
      <4> HIDE DEF rest, here, e
      <4>3. InBag(mkt', s, l) = InBag(Without(m), s, l) + IF IsLot(rest, s, l) THEN rest.lots ELSE 0
        BY <1>3, <4>1, <4>2, BagPlus
      <4> QED
        BY <4>2, <4>3
    <3> QED
      BY <3>1, <3>2
  <2> HIDE DEF e, rest, here
  <2>5. /\ Told(s, l)' = Told(s, l) + IF IsFill(e, s, l) THEN e.lots ELSE 0
        /\ Halted(s, l)' = Halted(s, l) + IF IsHalt(e, s, l) THEN e.lots ELSE 0
    BY <1>1, <2>1, <2>2, ToldAppend
  <2>6. InMarket(s, l) = InMarket(s, l)' + (IF here THEN k ELSE 0)
    BY <1>2, <1>3, <1>4, <1>6, <2>2, <2>4
  <2> QED
    BY <1>5, <2>1, <2>2, <2>3, <2>5, <2>6
<1>8. ASSUME mkt' = Without(m) PROVE InMarket(s, l) = InMarket(s, l)' + (IF here THEN m.lots ELSE 0)
  BY <1>3, <1>4, <1>8
<1>9. ASSUME StopMarket(m)
      PROVE  /\ Halted(s, l)' = Halted(s, l) + (IF here THEN m.volume ELSE 0)
             /\ InMarket(s, l) = InMarket(s, l)' + (IF here THEN m.lots ELSE 0)
             /\ Told(s, l)' = Told(s, l) /\ UNCHANGED <<traded, hedger, filled>>
  <2> DEFINE e == [kind |-> "stopped", side |-> m.side, leg |-> m.leg, lots |-> m.volume]
  <2>1. events' = Append(events, e) /\ mkt' = Without(m) /\ UNCHANGED <<traded, hedger, filled>>
    BY <1>9 DEF StopMarket, Answer, strategyVars, threadVars
  <2>2. (IsHalt(e, s, l) <=> here) /\ ~IsFill(e, s, l) /\ e.lots = m.volume
    BY DEF IsFill, IsHalt
  <2> HIDE DEF e, here
  <2>3. /\ Told(s, l)' = Told(s, l) + IF IsFill(e, s, l) THEN e.lots ELSE 0
        /\ Halted(s, l)' = Halted(s, l) + IF IsHalt(e, s, l) THEN e.lots ELSE 0
    BY <1>1, <1>2, <2>1, <2>2, ToldAppend
  <2> QED
    BY <1>5, <1>8, <2>1, <2>2, <2>3
<1>10. ASSUME RefuseMarket(m)
       PROVE  /\ InMarket(s, l) = InMarket(s, l)' + (IF here THEN m.lots ELSE 0)
              /\ Told(s, l)' = Told(s, l) /\ Halted(s, l)' = Halted(s, l)
              /\ UNCHANGED <<traded, hedger, filled>>
  <2> DEFINE e == [kind |-> "rejected", side |-> m.side, leg |-> m.leg]
  <2>1. events' = Append(events, e) /\ mkt' = Without(m) /\ UNCHANGED <<traded, hedger, filled>>
    BY <1>10 DEF RefuseMarket, Answer, strategyVars, threadVars
  <2>2. ~IsHalt(e, s, l) /\ ~IsFill(e, s, l) /\ e.kind = "rejected"
    BY DEF IsFill, IsHalt
  <2> HIDE DEF e, here
  <2>3. /\ Told(s, l)' = Told(s, l) + IF IsFill(e, s, l) THEN e.lots ELSE 0
        /\ Halted(s, l)' = Halted(s, l) + IF IsHalt(e, s, l) THEN e.lots ELSE 0
    BY <1>1, <2>1, <2>2, ToldAppend
  <2> QED
    BY <1>5, <1>8, <2>1, <2>2, <2>3
<1> QED
  BY <1>7, <1>9, <1>10
-----------------------------------------------------------------------------
(* What is told, halted and in the market after the other steps.            *)

LEMMA NumbersStay ==
    ASSUME UNCHANGED <<events, mkt>>, NEW s, NEW l
    PROVE  Told(s, l)' = Told(s, l) /\ Halted(s, l)' = Halted(s, l) /\ InMarket(s, l)' = InMarket(s, l)
  BY ToldStays DEF InMarket

\* A stopped order is sent again.
LEMMA HaltNumbers ==
    ASSUME LegInv, TypeInv, LegInv', TypeInv', SelfTradeStopped, NEW s \in Sides, NEW l \in Legs
    PROVE  LET again == IF IsHalt(Head(events), s, l) THEN Head(events).lots ELSE 0 IN
           /\ again \in Nat
           /\ Told(s, l)' = Told(s, l) /\ Halted(s, l) = Halted(s, l)' + again
           /\ InMarket(s, l)' = InMarket(s, l) + again
           /\ UNCHANGED <<traded, filled, hedger>>
<1> DEFINE e == Head(events)
           m == Market(e.side, e.leg, e.lots, e.lots)
<1>1. /\ events # <<>> /\ e.kind = "stopped" /\ events' = Tail(events)
      /\ mkt' = mkt (+) SetToBag({m}) /\ UNCHANGED <<traded, filled, hedger>>
  BY DEF SelfTradeStopped, Handles, strategyVars, threadVars, historyVars
<1>2. IsSeq(events) /\ SizedEvents
  BY SizedEventsTyped DEF LegInv, Typed
<1>3. e.lots \in Nat
  <2>1. e \in Range(events)
    BY <1>1, <1>2, TailOfQueue
  <2> QED
    BY <1>1, <1>2, <2>1 DEF SizedEvents
<1>4. m.lots = e.lots /\ (IsLot(m, s, l) <=> IsHalt(e, s, l)) /\ ~IsFill(e, s, l)
  BY <1>1 DEF Market, IsLot, IsHalt, IsFill
<1>5. InMarket(s, l) = InBag(mkt, s, l) /\ InMarket(s, l)' = InBag(mkt', s, l)
  BY DEF InMarket, InBag, IsLot
<1>6. NumbersOK /\ NumbersOK'
  BY AllNumbersTyped, NextNumbersTyped
<1>7. /\ Told(s, l) \in Nat /\ Halted(s, l) \in Nat /\ InMarket(s, l) \in Nat
      /\ Told(s, l)' \in Nat /\ Halted(s, l)' \in Nat /\ InMarket(s, l)' \in Nat
  BY <1>6 DEF NumbersOK
<1> HIDE DEF m
<1>8. InBag(mkt', s, l) = InBag(mkt, s, l) + IF IsLot(m, s, l) THEN m.lots ELSE 0
  BY <1>1, <1>3, <1>4, BagPlus DEF TypeInv, MarketOK
<1> HIDE DEF e
<1>9. /\ Told(s, l) = Told(s, l)' + IF IsFill(e, s, l) THEN e.lots ELSE 0
      /\ Halted(s, l) = Halted(s, l)' + IF IsHalt(e, s, l) THEN e.lots ELSE 0
  BY <1>1, <1>2, ToldTail DEF e
<1>10. LET again == IF IsHalt(e, s, l) THEN e.lots ELSE 0 IN
           /\ again \in Nat
           /\ Told(s, l)' = Told(s, l) /\ Halted(s, l) = Halted(s, l)' + again
           /\ InMarket(s, l)' = InMarket(s, l) + again
           /\ UNCHANGED <<traded, filled, hedger>>
  BY <1>1, <1>3, <1>4, <1>5, <1>7, <1>8, <1>9
<1> QED
  BY <1>10 DEF e

\* A leg is hedged.
LEMMA HedgeNumbers ==
    ASSUME LegInv, TypeInv, Bounded, TradeHedge, NEW s \in Sides, NEW l \in Legs
    PROVE  LET here == s = hedger.side /\ l = hedger.next
               lots == ToHit(hedger.side, hedger.next) IN
           /\ InMarket(s, l)' = InMarket(s, l) + IF here /\ lots > 0 THEN lots ELSE 0
           /\ Told(s, l)' = Told(s, l) /\ Halted(s, l)' = Halted(s, l)
           /\ lots \in Int /\ UNCHANGED <<traded, filled>>
<1> DEFINE here == s = hedger.side /\ l = hedger.next
           lots == ToHit(hedger.side, hedger.next)
           m == Market(hedger.side, hedger.next, lots, lots)
<1>1. /\ hedger # Idle /\ hedger.act = "hedge"
      /\ mkt' = IF lots > 0 THEN mkt (+) SetToBag({m}) ELSE mkt
      /\ UNCHANGED <<traded, filled, events>>
  BY DEF TradeHedge, strategyVars
<1>2. lots \in Int
  BY <1>1, HedgerShape, HedgeIsLots
<1>3. m.lots = lots /\ (IsLot(m, s, l) <=> here)
  BY DEF Market, IsLot
<1>4. InMarket(s, l) = InBag(mkt, s, l) /\ InMarket(s, l)' = InBag(mkt', s, l)
  BY DEF InMarket, InBag, IsLot
<1>5. InMarket(s, l) \in Nat
  BY NumbersTyped
<1> HIDE DEF m, lots, here
<1>6. InMarket(s, l)' = InMarket(s, l) + IF here /\ lots > 0 THEN lots ELSE 0
  <2>1. CASE lots > 0
    <3>1. m.lots \in Nat
      BY <1>2, <1>3, <2>1
    <3>2. mkt' = mkt (+) SetToBag({m})
      BY <1>1, <2>1
    <3>3. InBag(mkt', s, l) = InBag(mkt, s, l) + IF IsLot(m, s, l) THEN m.lots ELSE 0
      BY <3>1, <3>2, BagPlus DEF TypeInv, MarketOK
    <3> QED
      BY <1>3, <1>4, <2>1, <3>3
  <2>2. CASE ~(lots > 0)
    BY <1>1, <1>4, <1>5, <2>2
  <2> QED
    BY <2>1, <2>2
<1>7. Told(s, l)' = Told(s, l) /\ Halted(s, l)' = Halted(s, l)
  BY <1>1, ToldStays
<1> QED
  BY <1>1, <1>2, <1>6, <1>7 DEF lots, here

-----------------------------------------------------------------------------
(* The counter of the first leg is bounded.                                 *)

LEMMA InitBounded == Init => Bounded
<1> SUFFICES ASSUME Init, NEW s \in Sides PROVE BoundedSide(s)
  BY DEF Bounded
<1>1. Told(s, 1) = 0
  <2>1. TradesOf(s, 1) = {}
    BY DEF Init, TradesOf, EventsOf
  <2> QED
    BY <2>1, TotalEmpty DEF Told, LotsOf
<1>2. filled[s][1] = 0 /\ traded[s][1] = 0 /\ hedger = Idle
  BY LegsAndSides DEF Init, Legs
<1>3. MaxLots \in Nat
  BY LotsAssumption
<1> QED
  BY <1>1, <1>2, <1>3 DEF BoundedSide, InRound, InHand, InTradeOf, InTrade

\* The numbers of the first leg stay.
LEMMA BoundedStays ==
    ASSUME NEW s \in Sides, BoundedSide(s), UNCHANGED hedger, traded'[s][1] = traded[s][1],
           filled'[s][1] = filled[s][1], Told(s, 1)' = Told(s, 1)
    PROVE  BoundedSide(s)'
  BY DEF BoundedSide, InRound, InHand, InTradeOf, InTrade

LEMMA BoundedQuiet == Bounded /\ Quiet => Bounded'
<1> SUFFICES ASSUME Bounded, Quiet, NEW s \in Sides PROVE BoundedSide(s)'
  BY DEF Bounded
<1> QED
  BY BoundedStays, LegsAndSides DEF Bounded, Quiet

LEMMA BoundedTrade ==
    ASSUME LegInv, TypeInv, LegInv', TypeInv', Shapes, Bounded,
           TradeLoad \/ TradeStore \/ TradeSize \/ TradeHedge \/ HedgeStore
    PROVE  Bounded'
<1> SUFFICES ASSUME NEW s \in Sides PROVE BoundedSide(s)'
  BY DEF Bounded
<1>1. 1 \in Legs /\ MaxLots \in Nat
  BY LegsAndSides, LotsAssumption
<1>2. BoundedSide(s) /\ NumbersOK /\ NumbersOK'
  BY AllNumbersTyped, NextNumbersTyped DEF Bounded
<1>3. /\ Told(s, 1) \in Nat /\ filled[s][1] \in Nat /\ traded[s][1] \in Nat
      /\ InRound(s) \in Nat /\ InHand(s, 1) \in Nat
      /\ Told(s, 1)' \in Nat /\ filled'[s][1] \in Nat /\ traded'[s][1] \in Nat
      /\ InRound(s)' \in Nat /\ InHand(s, 1)' \in Nat
  BY <1>1, <1>2 DEF NumbersOK
<1>4. CASE TradeLoad
  <2>1. /\ Told(s, 1) = Told(s, 1)' + InHand(s, 1)' /\ InHand(s, 1) = 0 /\ InRound(s) = 0
        /\ InRound(s)' = InHand(s, 1)' /\ UNCHANGED <<traded, filled>>
    BY <1>1, <1>4, LoadNumbers
  <2>2. /\ hedger' # Idle /\ hedger'.act = "store" /\ hedger'.reg = traded[hedger'.side][hedger'.leg]
    BY <1>4 DEF TradeLoad, Idle
  <2>3. InTradeOf(s, "store")' => hedger'.reg = traded[s][1] /\ hedger'.lots = InHand(s, 1)'
    BY <2>2 DEF InTradeOf, InTrade, InHand
  <2>4. ~InTradeOf(s, "hedge")'
    BY <2>2 DEF InTradeOf
  <2> QED
    BY <1>2, <1>3, <2>1, <2>3, <2>4 DEF BoundedSide

\* Inside a trade nothing is told.
<1>5. ASSUME UNCHANGED <<events, mkt, filled>> PROVE Told(s, 1)' = Told(s, 1) /\ filled'[s][1] = filled[s][1]
  BY <1>5, NumbersStay
<1>6. CASE TradeStore
  <2>1. /\ hedger # Idle /\ hedger.act = "store" /\ hedger.leg = 1 /\ traded' = Stored
        /\ hedger' = [hedger EXCEPT !.act = "size"] /\ UNCHANGED <<events, mkt, filled>>
    BY <1>6 DEF TradeStore, Storing, exchangeVars, historyVars
  <2>2. hedger \in [act : {"store", "size"}, side : Sides, leg : Legs, lots : Nat, left : Nat, reg : Nat]
    BY <2>1, HedgerShape
  <2>3. /\ hedger' # Idle /\ hedger'.act = "size" /\ hedger'.side = hedger.side /\ hedger'.leg = 1
        /\ hedger'.lots = hedger.lots
    BY <2>1, <2>2 DEF Idle
  <2>4. traded'[s][1] = IF s = hedger.side THEN hedger.reg + hedger.lots ELSE traded[s][1]
    BY <1>1, <2>1, <2>2 DEF Stored, TypeInv, StrategyOK
  <2>5. Told(s, 1)' = Told(s, 1) /\ filled'[s][1] = filled[s][1]
    BY <1>5, <2>1
  <2>6. InRound(s)' = InRound(s) /\ InHand(s, 1)' = 0 /\ (s = hedger.side => InTradeOf(s, "store"))
    BY <2>1, <2>3 DEF InRound, InHand, InTrade, InTradeOf
  <2>7. ~InTradeOf(s, "hedge")' /\ ~InTradeOf(s, "store")'
    BY <2>3 DEF InTradeOf
  <2>8. s # hedger.side => InHand(s, 1) = 0
    BY DEF InHand
  <2> QED
    BY <1>1, <1>2, <1>3, <2>4, <2>5, <2>6, <2>7, <2>8 DEF BoundedSide
<1>7. CASE TradeSize
  <2>1. /\ hedger # Idle /\ hedger.act = "size"
        /\ hedger' = [act |-> "hedge", side |-> hedger.side, leg |-> 1, lots |-> hedger.lots,
                      tradable |-> traded[hedger.side][1], next |-> 2]
        /\ UNCHANGED <<events, mkt, filled, traded>>
    BY <1>7 DEF TradeSize, exchangeVars, historyVars
  <2>2. hedger' # Idle
    BY <2>1 DEF Idle
  <2>3. Told(s, 1)' = Told(s, 1) /\ filled'[s][1] = filled[s][1] /\ traded'[s][1] = traded[s][1]
    BY <1>5, <2>1
  <2>0. hedger.act # "store" /\ hedger.act # "hedge"
    BY <2>1
  <2>4. hedger.leg = 1
    BY <2>1, <2>0 DEF Shapes, HedgerTyped
  <2>5. InRound(s)' = InRound(s) /\ InHand(s, 1)' = 0 /\ ~InTradeOf(s, "store")'
        /\ (InTradeOf(s, "hedge")' => hedger'.tradable = traded[s][1])
    BY <2>1, <2>2, <2>4 DEF InRound, InHand, InTrade, InTradeOf
  <2> QED
    BY <1>1, <1>2, <1>3, <2>3, <2>5 DEF BoundedSide
<1>8. CASE TradeHedge
  <2>1. /\ hedger # Idle /\ hedger.act = "hedge" /\ UNCHANGED <<events, filled, traded>>
        /\ hedger' = Idle \/ hedger' = [hedger EXCEPT !.next = hedger.next + 1]
    BY <1>8 DEF TradeHedge, strategyVars
  <2>2. hedger \in [act : {"hedge"}, side : Sides, leg : {1}, lots : Nat, tradable : Nat, next : Hedges]
    BY <2>1, HedgerShape
  <2>3. Told(s, 1)' = Told(s, 1) /\ filled'[s][1] = filled[s][1] /\ traded'[s][1] = traded[s][1]
    BY <2>1, ToldStays
  <2>4. \/ hedger' = Idle
        \/ /\ hedger'.act = "hedge" /\ hedger'.side = hedger.side /\ hedger'.leg = hedger.leg
           /\ hedger'.lots = hedger.lots /\ hedger'.tradable = hedger.tradable
    BY <2>1, <2>2
  <2>5. /\ InRound(s)' <= InRound(s) /\ InHand(s, 1)' = 0 /\ ~InTradeOf(s, "store")'
        /\ (InTradeOf(s, "hedge")' => InTradeOf(s, "hedge") /\ hedger'.tradable = hedger.tradable)
    BY <1>3, <2>1, <2>2, <2>4 DEF InRound, InHand, InTrade, InTradeOf
  <2> QED
    BY <1>1, <1>2, <1>3, <2>3, <2>5 DEF BoundedSide
<1>9. CASE HedgeStore
  <2>1. /\ hedger # Idle /\ hedger.act = "store" /\ hedger.leg # 1 /\ traded' = Stored
        /\ hedger' = Idle /\ UNCHANGED <<events, mkt, filled>>
    BY <1>9 DEF HedgeStore, Storing, exchangeVars, historyVars
  <2>2. hedger \in [act : {"store", "size"}, side : Sides, leg : Legs, lots : Nat, left : Nat, reg : Nat]
    BY <2>1, HedgerShape
  <2>3. traded'[s][1] = traded[s][1]
    BY <1>1, <2>1, <2>2 DEF Stored, TypeInv, StrategyOK
  <2>4. Told(s, 1)' = Told(s, 1) /\ filled'[s][1] = filled[s][1]
    BY <1>5, <2>1
  <2>5. InRound(s)' = 0 /\ InHand(s, 1)' = 0 /\ ~InTradeOf(s, "store")' /\ ~InTradeOf(s, "hedge")'
    BY <2>1 DEF InRound, InHand, InTrade, InTradeOf
  <2> QED
    BY <1>1, <1>2, <1>3, <2>3, <2>4, <2>5 DEF BoundedSide
<1> QED
  BY <1>4, <1>6, <1>7, <1>8, <1>9

LEMMA BoundedOther ==
    ASSUME LegInv, TypeInv, LegInv', TypeInv', Bounded,
           SelfTradeStopped \/ DiffStore \/ Fills \/ TradingInMarket
    PROVE  Bounded'
<1> SUFFICES ASSUME NEW s \in Sides PROVE BoundedSide(s)'
  BY DEF Bounded
<1>1. 1 \in Legs /\ MaxLots \in Nat
  BY LegsAndSides, LotsAssumption
<1>2. BoundedSide(s) /\ NumbersOK /\ NumbersOK'
  BY AllNumbersTyped, NextNumbersTyped DEF Bounded
<1>3. /\ Told(s, 1) \in Nat /\ filled[s][1] \in Nat /\ traded[s][1] \in Nat
      /\ InRound(s) \in Nat /\ InHand(s, 1) \in Nat
  BY <1>1, <1>2 DEF NumbersOK
<1>4. CASE SelfTradeStopped
  <2>1. Told(s, 1)' = Told(s, 1) /\ UNCHANGED <<traded, filled, hedger>>
    BY <1>1, <1>4, HaltNumbers
  <2> QED
    BY <1>2, <2>1, BoundedStays
<1>5. CASE DiffStore
  <2>1. /\ client \in [act : {"test", "store"}, side : Sides, req : Requests, leg : Legs]
        /\ traded' = [traded EXCEPT
                        ![client.side][client.leg] = client.req[client.side].carried * Ratio[client.leg]]
        /\ UNCHANGED <<hedger, events, filled, mkt>>
    BY <1>5 DEF DiffStore, exchangeVars, TypeInv, ClientOK
  <2>2. /\ client.side \in Sides /\ client.leg \in Legs
        /\ client.req[client.side].carried * Ratio[1] <= MaxLots
    BY <2>1, LotsAssumption
  <2>3. Told(s, 1)' = Told(s, 1) /\ filled'[s][1] = filled[s][1]
    BY <2>1, NumbersStay
  <2>4. traded'[s][1] = traded[s][1] \/ traded'[s][1] <= MaxLots
    BY <1>1, <2>1, <2>2 DEF TypeInv, StrategyOK
  <2>5. InHand(s, 1) <= InRound(s)
    BY <1>3 DEF InHand, InRound, InTrade
  <2>6. traded'[s][1] \in Nat
    BY <1>1, <1>2 DEF NumbersOK
  <2>7. traded'[s][1] + Told(s, 1) + InHand(s, 1) <= MaxLots + filled[s][1]
    BY <1>1, <1>2, <1>3, <2>4, <2>5, <2>6 DEF BoundedSide
  <2>8. InHand(s, 1)' = InHand(s, 1) /\ InRound(s)' = InRound(s)
        /\ (InTradeOf(s, "store")' <=> InTradeOf(s, "store")) /\ hedger' = hedger
        /\ (InTradeOf(s, "hedge")' <=> InTradeOf(s, "hedge"))
    BY <2>1 DEF InHand, InRound, InTrade, InTradeOf
  <2> QED
    BY <1>1, <1>2, <1>3, <2>3, <2>7, <2>8 DEF BoundedSide
<1>6. CASE Fills
  <2>1. PICK n \in DOMAIN book : \E k \in 1..book[n].lots : Fill(n, k)
    BY <1>6 DEF Fills
  <2>2. PICK k \in 1..book[n].lots : Fill(n, k)
    BY <2>1
  <2>3. /\ Told(s, 1)' = Told(s, 1) + (IF s = book[n].side THEN k ELSE 0)
        /\ filled'[s][1] = filled[s][1] + (IF s = book[n].side THEN k ELSE 0)
        /\ UNCHANGED <<traded, hedger, mkt>> /\ k \in Nat
        /\ filled'[book[n].side][1] <= MaxLots
    BY <1>1, <2>2, FillNumbers
  <2>8. InHand(s, 1)' = InHand(s, 1) /\ InRound(s)' = InRound(s)
        /\ (InTradeOf(s, "store")' <=> InTradeOf(s, "store")) /\ hedger' = hedger
        /\ (InTradeOf(s, "hedge")' <=> InTradeOf(s, "hedge"))
    BY <2>3 DEF InHand, InRound, InTrade, InTradeOf
  <2>9. /\ InTradeOf(s, "store") => hedger.reg \in Nat /\ hedger.lots \in Nat
        /\ InTradeOf(s, "hedge") => hedger.tradable \in Nat
    BY HedgerShape DEF InTradeOf, InTrade
  <2> QED
    BY <1>1, <1>2, <1>3, <2>3, <2>8, <2>9 DEF BoundedSide
<1>7. CASE TradingInMarket
  <2>1. PICK m \in BagToSet(mkt) : StopMarket(m) \/ RefuseMarket(m) \/ \E k \in 1..m.lots : FillMarket(m, k)
    BY <1>7 DEF TradingInMarket
  <2>2. m.leg # 1
    BY LegsAndSides DEF TypeInv, MarketOK, Order
  <2>3. CASE StopMarket(m)
    <3>1. Told(s, 1)' = Told(s, 1) /\ UNCHANGED <<traded, filled, hedger>>
      BY <1>1, <2>3, MarketNumbers
    <3> QED
      BY <1>2, <3>1, BoundedStays
  <2>4. CASE RefuseMarket(m)
    <3>1. Told(s, 1)' = Told(s, 1) /\ UNCHANGED <<traded, filled, hedger>>
      BY <1>1, <2>4, MarketNumbers
    <3> QED
      BY <1>2, <3>1, BoundedStays
  <2>5. ASSUME NEW k \in 1..m.lots, FillMarket(m, k) PROVE BoundedSide(s)'
    <3>1. /\ Told(s, 1)' = Told(s, 1) + 0 /\ filled'[s][1] = filled[s][1] + 0
          /\ UNCHANGED <<traded, hedger>>
      <4>1. ~(m.side = s /\ m.leg = 1)
        BY <2>2
      <4> QED
        BY <1>1, <2>5, <4>1, MarketNumbers
    <3>2. Told(s, 1)' = Told(s, 1) /\ filled'[s][1] = filled[s][1]
      BY <1>3, <3>1
    <3> QED
      BY <1>2, <3>1, <3>2, BoundedStays
  <2> QED
    BY <2>1, <2>3, <2>4, <2>5
<1> QED
  BY <1>4, <1>5, <1>6, <1>7

\* Types and bound hold together: a hedge is a number of lots while the counter is bounded.
LotsInv == TypeInv /\ Bounded

LEMMA TypesStep == LegInv /\ LotsInv /\ [Next]_vars => TypeInv'
<1> SUFFICES ASSUME LegInv, TypeInv, Bounded, [Next]_vars PROVE TypeInv'
  BY DEF LotsInv
<1>1. CASE UNCHANGED vars
  <2>1. /\ UNCHANGED <<strategyVars, threadVars, exchangeVars, historyVars>>
        /\ Range(bid') \subseteq Range(bid) /\ Range(events') \subseteq Range(events)
    BY <1>1 DEF vars, exchangeVars
  <2> QED
    BY <2>1, TypesStay DEF TypeInv, strategyVars, threadVars, exchangeVars, historyVars
<1> QED
  BY <1>1, MarketDataTypes, QuoterTypes, EventHandlerTypes, ClientTypes, AnswersTypes, TradingTypes
     DEF Next

LEMMA LotsStep == LegInv /\ LegInv' /\ Shapes /\ LotsInv /\ [Next]_vars => LotsInv'
<1> SUFFICES ASSUME LegInv, LegInv', Shapes, LotsInv, [Next]_vars PROVE LotsInv'
  OBVIOUS
<1>1. TypeInv' /\ TypeInv /\ Bounded
  BY TypesStep DEF LotsInv
<1>2. QuietNext => Bounded'
  BY <1>1, QuietStep, BoundedQuiet
<1>3. Bounded'
  BY <1>1, <1>2, KindsOfSteps, BoundedTrade, BoundedOther
<1> QED
  BY <1>1, <1>3 DEF LotsInv

\* The lots of the first leg that a side has counted, has in hand and has still to hear of are
\* those that were filled and, at most once, those that were carried (TRADE_CONFIRMATION_TR,
\* OnDifferenceEventHandler).
THEOREM LotsInvariant == Spec => []LotsInv
<1>1. Init => LotsInv
  BY InitTypes, InitBounded DEF LotsInv
<1> QED
  BY <1>1, LotsStep, LegInvariant, OneOrderInvariant, PTL DEF Spec, OneOrderInv

\* Each variable of the strategy, of its threads and of the exchange keeps its type; a lot that
\* is hedged or told is never negative (StrategyClass, TRADE_CONFIRMATION_TR).
THEOREM LegTypes == Spec => []TypeOK
  BY LotsInvariant, LegInvariant, TypesImplied, PTL DEF LotsInv
-----------------------------------------------------------------------------
(* A side of which nothing has traded.                                      *)

\* No lot of a side is hedged before one of its first leg trades.
Untraded(s) ==
    filled[s][1] = 0 =>
        /\ \A m \in BagToSet(mkt) : m.side # s
        /\ \A e \in Range(events) : e.side = s => e.kind \notin {"trade", "stopped"}
        /\ hedger # Idle => hedger.side # s
        /\ \A l \in Legs : filled[s][l] = 0

LEMMA InitUntraded == ASSUME Init, NEW s \in Sides PROVE Untraded(s)
<1>1. mkt = EmptyBag /\ Range(events) = {} /\ hedger = Idle /\ \A l \in Legs : filled[s][l] = 0
  BY EmptyQueue DEF Init, Legs
<1>2. BagToSet(mkt) = {}
  BY <1>1 DEF BagToSet, EmptyBag, SetToBag
<1> QED
  BY <1>1, <1>2 DEF Untraded

LEMMA UntradedStep ==
    ASSUME LegInv, TypeInv, LegInv', TypeInv', [Next]_vars, NEW s \in Sides, Untraded(s)
    PROVE  Untraded(s)'
<1>0. 1 \in Legs /\ filled \in [Sides -> [Legs -> Nat]] /\ IsSeq(events) /\ SizedEvents
  BY LegsAndSides, SizedEventsTyped DEF TypeInv, HistoryOK, LegInv, Typed
<1>1. ASSUME UNCHANGED filled, hedger' = Idle \/ (hedger'.side = hedger.side /\ hedger # Idle),
             BagToSet(mkt') \subseteq BagToSet(mkt),
             NEW e, Range(events') \subseteq Range(events) \cup {e},
             e.side = s => e.kind \notin {"trade", "stopped"} \/ filled[s][1] # 0
      PROVE  Untraded(s)'
  <2> HIDE DEF Range
  <2> QED
    BY <1>1 DEF Untraded
<1>2. ASSUME UNCHANGED <<filled, hedger, mkt, events>> PROVE Untraded(s)'
  BY <1>2 DEF Untraded, BagToSet
<1>3. CASE MarketData \/ Quoter \/ Client \/ UNCHANGED vars
  BY <1>2, <1>3 DEF MarketData, LookNew, LookModify, LookCancel, Begin, Quoter, MarkPending, Quote,
     Requote, Withdraw, Client, Difference, DiffTest, DiffStore, vars, strategyVars, threadVars,
     exchangeVars, historyVars
<1>4. ASSUME NEW e, events' = Append(events, e), UNCHANGED <<filled, hedger>>,
             e.side = s => e.kind \notin {"trade", "stopped"} \/ filled[s][1] # 0,
             BagToSet(mkt') \subseteq BagToSet(mkt)
      PROVE  Untraded(s)'
  <2>1. Range(events') = Range(events) \cup {e}
    BY <1>0, <1>4, AppendToQueue
  <2>0. hedger' = hedger
    BY <1>4
  <2>2. hedger' = Idle \/ (hedger'.side = hedger.side /\ hedger # Idle)
    BY <2>0
  <2> QED
    BY <1>1, <1>4, <2>1, <2>2
<1>5. CASE Answers
  <2>1. \E e : /\ events' = Append(events, e) /\ UNCHANGED <<filled, hedger, mkt>>
               /\ e.kind \notin {"trade", "stopped"}
    BY <1>5 DEF Answers, AcceptNew, RefuseNew, DoModify, DoCancel, RefuseAsk, Answer, strategyVars,
                threadVars, historyVars
  <2> QED
    BY <1>4, <2>1 DEF BagToSet
<1>6. CASE \E n \in DOMAIN book : StopQuote(n)
  <2>1. \E e : /\ events' = Append(events, e) /\ UNCHANGED <<filled, hedger, mkt>>
               /\ e.kind \notin {"trade", "stopped"}
    BY <1>6 DEF StopQuote, Answer, strategyVars, threadVars
  <2> QED
    BY <1>4, <2>1 DEF BagToSet
<1>7. CASE Fills
  <2>1. PICK n \in DOMAIN book : \E k \in 1..book[n].lots : Fill(n, k)
    BY <1>7 DEF Fills
  <2>2. PICK k \in 1..book[n].lots : Fill(n, k)
    BY <2>1
  <2>3. CASE book[n].side = s
    <3>1. filled'[s][1] = filled[s][1] + k /\ k > 0 /\ k \in Nat
      BY <1>0, <2>2, <2>3, FillNumbers
    <3> QED
      BY <1>0, <3>1 DEF Untraded
  <2>4. CASE book[n].side # s
    <3> DEFINE e == [kind |-> "trade", side |-> book[n].side, leg |-> 1, lots |-> k,
                     left |-> book[n].lots - k]
    <3>1. /\ events' = Append(events, e) /\ filled' = [filled EXCEPT ![book[n].side][1] = @ + k]
          /\ UNCHANGED <<hedger, mkt>>
      BY <2>2 DEF Fill, Report, Answer, Count, strategyVars, threadVars
    <3>2. e.side # s
      BY <2>4
    <3> HIDE DEF e
    <3>3. Range(events') = Range(events) \cup {e}
      BY <1>0, <3>1, AppendToQueue
    <3>4. filled'[s] = filled[s]
      BY <1>0, <2>4, <3>1
    <3> HIDE DEF Range
    <3> QED
      BY <3>1, <3>2, <3>3, <3>4 DEF Untraded, BagToSet
  <2> QED
    BY <2>3, <2>4
<1>8. CASE TradingInMarket
  <2>1. PICK m \in BagToSet(mkt) : StopMarket(m) \/ RefuseMarket(m) \/ \E k \in 1..m.lots : FillMarket(m, k)
    BY <1>8 DEF TradingInMarket
  <2>2. m \in Order /\ Market_OK(mkt) /\ m \in DOMAIN mkt
    BY DEF TypeInv, MarketOK, BagToSet
  <2>3. BagToSet(Without(m)) \subseteq BagToSet(mkt)
    BY <2>2, BagMinusOne DEF Without, BagToSet
  <2>4. m.side = s => filled[s][1] # 0
    BY DEF Untraded
  <2>5. CASE StopMarket(m) \/ RefuseMarket(m)
    <3> DEFINE e == IF StopMarket(m)
                    THEN [kind |-> "stopped", side |-> m.side, leg |-> m.leg, lots |-> m.volume]
                    ELSE [kind |-> "rejected", side |-> m.side, leg |-> m.leg]
    <3>1. /\ events' = Append(events, e) /\ UNCHANGED <<filled, hedger>> /\ mkt' = Without(m)
          /\ e.side = m.side
      BY <2>5 DEF StopMarket, RefuseMarket, Answer, strategyVars, threadVars
    <3> HIDE DEF e
    <3>2. e.side = s => filled[s][1] # 0
      BY <2>4, <3>1
    <3>3. BagToSet(mkt') \subseteq BagToSet(mkt)
      BY <2>3, <3>1
    <3> QED
      BY <1>4, <3>1, <3>2, <3>3
  <2>6. ASSUME NEW k \in 1..m.lots, FillMarket(m, k) PROVE Untraded(s)'
    <3> DEFINE e == [kind |-> "trade", side |-> m.side, leg |-> m.leg, lots |-> k, left |-> m.lots - k]
               rest == [m EXCEPT !.lots = @ - k]
    <3>1. /\ events' = Append(events, e) /\ filled' = [filled EXCEPT ![m.side][m.leg] = @ + k]
          /\ (mkt' = Without(m) \/ mkt' = Without(m) (+) SetToBag({rest}))
          /\ UNCHANGED hedger
      BY <2>6 DEF FillMarket, Report, Answer, Count, strategyVars, threadVars
    <3>2. e.side = m.side /\ rest.side = m.side
      BY <2>2 DEF Order
    <3>0. m.leg # 1 /\ m.side \in Sides /\ m.leg \in Legs
      BY <2>2, LegsAndSides DEF Order
    <3>3. filled'[s][1] = filled[s][1] /\ (m.side # s => filled'[s] = filled[s])
      BY <1>0, <3>0, <3>1
    <3> HIDE DEF e, rest
    <3>4. Range(events') = Range(events) \cup {e}
      BY <1>0, <3>1, AppendToQueue
    <3>5. BagToSet(mkt') \subseteq BagToSet(mkt) \cup {rest}
      <4>1. BagToSet(Without(m) (+) SetToBag({rest})) = BagToSet(Without(m)) \cup {rest}
        BY BagPlusOne
      <4> QED
        BY <2>3, <3>1, <4>1
    <3> HIDE DEF Range
    <3>6. CASE m.side = s
      BY <2>4, <3>3, <3>6 DEF Untraded
    <3>7. CASE m.side # s
      BY <3>1, <3>2, <3>3, <3>4, <3>5, <3>7 DEF Untraded
    <3> QED
      BY <3>6, <3>7
  <2> QED
    BY <2>1, <2>5, <2>6

\* The event thread.
<1>9. ASSUME events # <<>>, events' = Tail(events), UNCHANGED <<filled, mkt>>,
             hedger' = hedger \/ (Head(events).kind = "trade" /\ hedger'.side = Head(events).side)
      PROVE  Untraded(s)'
  <2>1. Range(events') \subseteq Range(events) /\ Head(events) \in Range(events)
    BY <1>0, <1>9, TailOfQueue
  <2> HIDE DEF Range
  <2> QED
    BY <1>9, <2>1 DEF Untraded
<1>10. CASE SettlingHandler \/ TradeLoad
  <2>1. CASE SettlingHandler
    BY <1>9, <2>1 DEF SettlingHandler, ORDER_CONFIRMATION_TR, ORDER_MOD_CONFIRMATION_TR,
       ORDER_CXL_CONFIRMATION_TR, ORDER_ERROR_OUT, ORDER_REJ_OUT, Settle, HedgeRefused, Handles,
       strategyVars, threadVars, historyVars
  <2>2. CASE TradeLoad
    <3>1. /\ events # <<>> /\ events' = Tail(events) /\ UNCHANGED <<filled, mkt>>
          /\ Head(events).kind = "trade" /\ hedger'.side = Head(events).side
      BY <2>2 DEF TradeLoad, Handles, historyVars
    <3> QED
      BY <1>9, <3>1
  <2> QED
    BY <1>10, <2>1, <2>2
<1>11. CASE SelfTradeStopped
  <2> DEFINE e == Head(events)
             m == Market(e.side, e.leg, e.lots, e.lots)
  <2>1. /\ events # <<>> /\ e.kind = "stopped" /\ events' = Tail(events)
        /\ mkt' = mkt (+) SetToBag({m}) /\ UNCHANGED <<filled, hedger>>
    BY <1>11 DEF SelfTradeStopped, Handles, strategyVars, threadVars, historyVars
  <2>2. Range(events') \subseteq Range(events) /\ e \in Range(events)
    BY <1>0, <2>1, TailOfQueue
  <2>3. m.side = e.side
    BY DEF Market
  <2> HIDE DEF e, m, Range
  <2>4. BagToSet(mkt') = BagToSet(mkt) \cup {m}
    BY <2>1, BagPlusOne
  <2> QED
    BY <2>1, <2>2, <2>3, <2>4 DEF Untraded
<1>12. CASE TradeStore \/ TradeSize \/ HedgeStore
  <2>1. /\ UNCHANGED <<filled, mkt, events>> /\ hedger # Idle
        /\ \/ hedger' = Idle \/ hedger' = [hedger EXCEPT !.act = "size"]
           \/ hedger' = [act |-> "hedge", side |-> hedger.side, leg |-> 1, lots |-> hedger.lots,
                         tradable |-> traded[hedger.side][1], next |-> 2]
    BY <1>12 DEF TradeStore, TradeSize, HedgeStore, Storing, exchangeVars, historyVars
  <2>2. hedger' = Idle \/ hedger'.side = hedger.side
    BY <2>1, HedgerShape
  <2> QED
    BY <2>1, <2>2 DEF Untraded, BagToSet
<1>13. CASE TradeHedge
  <2> DEFINE lots == ToHit(hedger.side, hedger.next)
             m == Market(hedger.side, hedger.next, lots, lots)
  <2>1. /\ hedger # Idle /\ UNCHANGED <<filled, events>>
        /\ m.side = hedger.side /\ (mkt' = mkt \/ mkt' = mkt (+) SetToBag({m}))
        /\ hedger' = Idle \/ hedger' = [hedger EXCEPT !.next = hedger.next + 1]
    BY <1>13 DEF TradeHedge, Market, strategyVars
  <2>2. hedger' = Idle \/ hedger'.side = hedger.side
    BY <2>1, HedgerShape
  <2> HIDE DEF m
  <2>3. BagToSet(mkt') \subseteq BagToSet(mkt) \cup {m}
    <3>1. BagToSet(mkt (+) SetToBag({m})) = BagToSet(mkt) \cup {m}
      BY BagPlusOne
    <3> QED
      BY <2>1, <3>1 DEF BagToSet
  <2> QED
    BY <2>1, <2>2, <2>3 DEF Untraded
<1> QED
  BY <1>3, <1>5, <1>6, <1>7, <1>8, <1>10, <1>11, <1>12, <1>13
     DEF Next, EventHandler, SettlingHandler, Trading, TradingInMarket, Fills
-----------------------------------------------------------------------------
(* What is carried and what traded.                                         *)

\* The lots of c units that the client thread has written.
Weight(s, c, l) == IF Carrying(s) /\ l >= client.leg THEN 0 ELSE c * Ratio[l]
\* Nothing of the first leg is under way.
Fresh(s) == filled[s][1] = 0 /\ ~Deciding(s) /\ ~Queued(s) /\ Gone(s)
\* The event thread knows the counter it adds to.
Registered(s) ==
    /\ hedger # Idle /\ hedger.side = s /\ hedger.act = "store" => hedger.reg = traded[s][hedger.leg]
    /\ InTradeOf(s, "hedge") => hedger.tradable = traded[s][1]
Balanced(s, c) ==
    \A l \in Legs : traded[s][l] + Told(s, l) + InHand(s, l) = Weight(s, c, l) + filled[s][l]
CarriedBy(s, c) ==
    /\ Carrying(s) /\ client.leg = 1 => c = 0
    /\ Carrying(s) /\ client.leg > 1 => c = client.req[s].carried /\ Fresh(s)
Counted(s, c) == Balanced(s, c) /\ Registered(s) /\ CarriedBy(s, c)
CountsOnce(s) == "carried" \notin upset[s] => \E c \in Nat : Counted(s, c)

LEMMA InitCounts == ASSUME Init, NEW s \in Sides PROVE CountsOnce(s)
<1>1. ASSUME NEW l \in Legs PROVE Told(s, l) = 0
  <2>1. TradesOf(s, l) = {}
    BY DEF Init, TradesOf, EventsOf
  <2> QED
    BY <2>1, TotalEmpty DEF Told, LotsOf
<1>2. \A l \in Legs : filled[s][l] = 0 /\ traded[s][l] = 0 /\ Ratio[l] \in Nat
  BY LegsAndSides DEF Init, Legs
<1>3. hedger = Idle /\ client = Idle
  BY DEF Init
<1>4. \A l \in Legs : Weight(s, 0, l) = 0 /\ InHand(s, l) = 0
  BY <1>2, <1>3 DEF Weight, Carrying, InHand
<1>5. Counted(s, 0)
  BY <1>1, <1>2, <1>3, <1>4 DEF Counted, Balanced, Registered, CarriedBy, Carrying, InTradeOf, InTrade
<1> QED
  BY <1>5 DEF CountsOnce

LEMMA WeightType ==
    ASSUME NEW s, NEW c \in Nat, NEW l \in Legs
    PROVE  Weight(s, c, l) \in Nat
<1>1. Ratio[l] \in Nat
  BY LegsAndSides
<1>2. c * Ratio[l] \in Nat
  BY <1>1, TimesMore
<1> QED
  BY <1>2 DEF Weight

\* A side that is being carried stays fresh, or its upset says otherwise.
LEMMA FreshStays ==
    ASSUME LegInv, TypeInv, Shapes, [Next]_vars, NEW s \in Sides, Fresh(s), Carrying(s),
           "carried" \notin upset'[s]
    PROVE  Fresh(s)'
<1>0. IsSeq(bid) /\ filled \in [Sides -> [Legs -> Nat]] /\ 1 \in Legs /\ upset \in [Sides -> SUBSET Upsets]
  BY LegsAndSides DEF LegInv, Typed, TypeInv, HistoryOK

\* The queue takes no quote of the side, the book gives it no lots.
<1>1. ASSUME filled'[s][1] = filled[s][1], ~Deciding(s)',
             NEW r, Range(bid') \subseteq Range(bid) \cup {r}, r.side = s => r.kind # "new",
             \A n \in DOMAIN book' : WorksFor(s, n)' => WorksFor(s, n)
      PROVE  Fresh(s)'
  <2>1. ~Queued(s)'
    <3> HIDE DEF Range
    <3> QED
      BY <1>1 DEF Fresh, Queued
  <2>2. Gone(s)'
    BY <1>1 DEF Fresh, Gone, WorksFor
  <2> QED
    BY <1>1, <2>1, <2>2 DEF Fresh
<1>2. ASSUME UNCHANGED <<filled, quoter, bid, book>> PROVE Fresh(s)'
  BY <1>2 DEF Fresh, Deciding, QuoterOn, Queued, Gone, WorksFor
<1>3. CASE EventHandler \/ Client \/ UNCHANGED vars
  BY <1>2, <1>3 DEF EventHandler, ORDER_CONFIRMATION_TR, ORDER_MOD_CONFIRMATION_TR,
     ORDER_CXL_CONFIRMATION_TR, ORDER_ERROR_OUT, ORDER_REJ_OUT, Settle, SelfTradeStopped, HedgeRefused,
     TradeLoad, TradeStore, TradeSize, TradeHedge, HedgeStore, UpsetIf, Client, Difference, DiffTest,
     DiffStore, vars, strategyVars, threadVars, exchangeVars, historyVars
<1>4. CASE MarketData
  <2>1. UNCHANGED <<filled, bid, book>>
    BY <1>4 DEF MarketData, LookNew, LookModify, LookCancel, Begin, exchangeVars
  <2>2. ~Deciding(s)'
    <3>1. CASE \E t \in Sides, r \in Rates : LookNew(t, r)
      <4>1. PICK t \in Sides, r \in Rates : LookNew(t, r)
        BY <3>1
      <4>2. t # s
        BY <1>0, <4>1 DEF LookNew
      <4>3. quoter'.side = t
        BY <4>1 DEF LookNew, Begin
      <4> QED
        BY <4>2, <4>3 DEF Deciding, QuoterOn
    <3>2. CASE ~(\E t \in Sides, r \in Rates : LookNew(t, r))
      <4>1. quoter'.act \in {"modify", "cancel"}
        BY <1>4, <3>2 DEF MarketData, LookModify, LookCancel, Begin
      <4> QED
        BY <4>1 DEF Deciding
    <3> QED
      BY <3>1, <3>2
  <2> QED
    BY <2>1, <2>2 DEF Fresh, Queued, Gone, WorksFor
<1>5. CASE Quoter
  <2>1. UNCHANGED <<filled, book>> /\ quoter # Idle
    BY <1>5 DEF Quoter, MarkPending, Quote, Requote, Withdraw, Marked, exchangeVars, historyVars
  <2>2. ~Deciding(s)'
    <3>1. CASE MarkPending
      <4>1. quoter'.act = quoter.act /\ quoter'.side = quoter.side
        BY <2>1, <3>1 DEF MarkPending, LegInv, Typed, QuoterTyped
      <4> QED
        BY <2>1, <4>1 DEF Fresh, Deciding, QuoterOn
    <3>2. CASE Quote \/ Requote \/ Withdraw
      BY <3>2 DEF Quote, Requote, Withdraw, Deciding, QuoterOn
    <3> QED
      BY <1>5, <3>1, <3>2 DEF Quoter
  <2>3. \E r : (r.side = s => r.kind # "new") /\ (bid' = bid \/ bid' = Append(bid, r))
    <3>1. CASE Quote
      <4>1. quoter.side # s
        BY <3>1 DEF Quote, Marked, Fresh, Deciding, QuoterOn
      <4> DEFINE r == [kind |-> "new", side |-> quoter.side, lots |-> QuoteLots(quoter.side)]
      <4>2. bid' = Append(bid, r) /\ r.side # s
        BY <3>1, <4>1 DEF Quote
      <4> HIDE DEF r
      <4> QED
        BY <4>2
    <3>2. CASE Requote
      <4> DEFINE r == [kind |-> "modify", side |-> quoter.side, number |-> number[quoter.side],
                    lots |-> volume[quoter.side]]
      <4>1. bid' = Append(bid, r) /\ r.kind # "new"
        BY <3>2 DEF Requote
      <4> HIDE DEF r
      <4> QED
        BY <4>1
    <3>3. CASE Withdraw \/ MarkPending
      <4> DEFINE r == [kind |-> "cancel", side |-> quoter.side, number |-> number[quoter.side]]
      <4>1. (bid' = bid \/ bid' = Append(bid, r)) /\ r.kind # "new"
        BY <3>3 DEF Withdraw, MarkPending, exchangeVars
      <4> HIDE DEF r
      <4> QED
        BY <4>1
    <3> QED
      BY <1>5, <3>1, <3>2, <3>3 DEF Quoter
  <2>4. PICK r : (r.side = s => r.kind # "new") /\ (bid' = bid \/ bid' = Append(bid, r))
    BY <2>3
  <2>5. Range(bid') \subseteq Range(bid) \cup {r}
    <3>1. Range(Append(bid, r)) = Range(bid) \cup {r}
      BY <1>0, AppendToQueue
    <3> HIDE DEF Range
    <3> QED
      BY <2>4, <3>1
  <2>6. filled'[s][1] = filled[s][1] /\ \A n \in DOMAIN book' : WorksFor(s, n)' => WorksFor(s, n)
    BY <2>1 DEF WorksFor
  <2> QED
    BY <1>1, <2>2, <2>4, <2>5, <2>6
<1>6. CASE Answers
  <2> DEFINE r == Head(bid)
  <2>1. bid # <<>> /\ bid' = Tail(bid) /\ UNCHANGED <<filled, quoter>>
    BY <1>6 DEF Answers, AcceptNew, RefuseNew, DoModify, DoCancel, RefuseAsk, threadVars, historyVars
  <2>2. Range(bid') \subseteq Range(bid) /\ r \in Range(bid)
    BY <1>0, <2>1, TailOfQueue
  <2>3. ~Deciding(s)'
    BY <2>1 DEF Fresh, Deciding, QuoterOn
  <2>4. \A n \in DOMAIN book' : WorksFor(s, n)' => WorksFor(s, n)
    <3>1. CASE AcceptNew
      <4> DEFINE n == 1 + Cardinality(DOMAIN book)
      <4>1. r.kind = "new"
            /\ book' = [k \in DOMAIN book \cup {n} |->
                          IF k = n THEN [side |-> r.side, lots |-> r.lots, given |-> 0] ELSE book[k]]
        BY <3>1 DEF AcceptNew
      <4>2. r.side # s
        BY <2>2, <4>1 DEF Fresh, Queued
      <4> HIDE DEF n, r
      <4> QED
        BY <4>1, <4>2 DEF WorksFor
    <3>2. CASE DoCancel
      <4>1. r.number \in DOMAIN book /\ book' = [book EXCEPT ![r.number].lots = 0]
        BY <3>2 DEF DoCancel, Works
      <4>2. \A n \in DOMAIN book : book[n] \in [side : Sides, lots : Nat, given : Nat]
        BY DEF TypeInv, BookOK
      <4> HIDE DEF r
      <4> QED
        BY <4>1, <4>2 DEF WorksFor
    <3>3. CASE RefuseNew \/ RefuseAsk
      BY <3>3 DEF RefuseNew, RefuseAsk, WorksFor
    <3>4. CASE DoModify
      BY <3>4, ModifiedWorks DEF Shapes
    <3> QED
      BY <1>6, <3>1, <3>2, <3>3, <3>4 DEF Answers
  <2>5. filled'[s][1] = filled[s][1] /\ [kind |-> "none"].kind # "new"
    BY <2>1
  <2> HIDE DEF r
  <2>6. \E x : Range(bid') \subseteq Range(bid) \cup {x} /\ x.kind # "new"
    <3> HIDE DEF Range
    <3> QED
      BY <2>2, <2>5
  <2> QED
    BY <1>1, <2>3, <2>4, <2>5, <2>6
<1>7. CASE Trading
  <2>1. CASE TradingInMarket
    <3>1. PICK m \in BagToSet(mkt) : StopMarket(m) \/ RefuseMarket(m) \/ \E k \in 1..m.lots : FillMarket(m, k)
      BY <2>1 DEF TradingInMarket
    <3>2. UNCHANGED <<quoter, bid, book>>
      BY <3>1 DEF StopMarket, RefuseMarket, FillMarket, threadVars
    <3>3. filled' = filled \/ \E k : filled' = [filled EXCEPT ![m.side][m.leg] = k]
      BY <3>1 DEF StopMarket, RefuseMarket, FillMarket, Count
    <3>4. m.leg # 1 /\ m.side \in Sides /\ m.leg \in Legs
      BY LegsAndSides DEF TypeInv, MarketOK, Order
    <3>5. filled'[s][1] = filled[s][1]
      <4>1. ASSUME NEW k, filled' = [filled EXCEPT ![m.side][m.leg] = k] PROVE filled'[s][1] = filled[s][1]
        BY <1>0, <3>4, <4>1
      <4> QED
        BY <3>3, <4>1
    <3> QED
      BY <3>2, <3>5 DEF Fresh, Deciding, QuoterOn, Queued, Gone, WorksFor
  <2>2. CASE \E n \in DOMAIN book : StopQuote(n) \/ \E k \in 1..book[n].lots : Fill(n, k)
    <3>1. PICK n \in DOMAIN book : StopQuote(n) \/ \E k \in 1..book[n].lots : Fill(n, k)
      BY <2>2
    <3>2. UNCHANGED <<quoter, bid>> /\ Works(n)
      BY <3>1 DEF StopQuote, Fill, threadVars
    <3>3. book[n].side # s /\ book[n].side \in Sides
      BY <3>2 DEF Fresh, Gone, WorksFor, Works, TypeInv, BookOK
    <3>4. \E k : book' = [book EXCEPT ![n].lots = k]
      BY <3>1 DEF StopQuote, Fill, Count
    <3>5. filled'[s][1] = filled[s][1]
      <4>1. filled' = filled \/ \E k : filled' = [filled EXCEPT ![book[n].side][1] = k]
        BY <3>1 DEF StopQuote, Fill, Count
      <4> QED
        BY <1>0, <3>3, <4>1
    <3>6. book[n] \in [side : Sides, lots : Nat, given : Nat]
      BY DEF TypeInv, BookOK
    <3>7. Gone(s)'
      BY <3>3, <3>4, <3>6 DEF Fresh, Gone, WorksFor
    <3> QED
      BY <3>2, <3>5, <3>7 DEF Fresh, Deciding, QuoterOn, Queued
  <2> QED
    BY <1>7, <2>1, <2>2 DEF Trading, TradingInMarket
<1> QED
  BY <1>3, <1>4, <1>5, <1>6, <1>7 DEF Next

\* A step that keeps the balance of a side.
LEMMA BalanceStays ==
    ASSUME NEW s \in Sides, NEW c \in Nat, Counted(s, c), NumbersOK, NumbersOK', UNCHANGED client,
           \A l \in Legs : traded'[s][l] + Told(s, l)' + InHand(s, l)' + filled[s][l]
                           = traded[s][l] + Told(s, l) + InHand(s, l) + filled'[s][l],
           Registered(s)', Carrying(s) /\ Fresh(s) => Fresh(s)'
    PROVE  Counted(s, c)'
<1>1. Carrying(s)' <=> Carrying(s)
  BY DEF Carrying
<1>2. ASSUME NEW l \in Legs
      PROVE  traded'[s][l] + Told(s, l)' + InHand(s, l)' = Weight(s, c, l)' + filled'[s][l]
  <2>1. Weight(s, c, l)' = Weight(s, c, l)
    BY <1>1 DEF Weight
  <2>2. Weight(s, c, l) \in Nat
    BY WeightType
  <2>3. /\ traded[s][l] \in Nat /\ Told(s, l) \in Nat /\ InHand(s, l) \in Nat /\ filled[s][l] \in Nat
        /\ traded'[s][l] \in Nat /\ Told(s, l)' \in Nat /\ InHand(s, l)' \in Nat /\ filled'[s][l] \in Nat
    BY DEF NumbersOK
  <2>4. traded[s][l] + Told(s, l) + InHand(s, l) = Weight(s, c, l) + filled[s][l]
    BY DEF Counted, Balanced
  <2> HIDE DEF Weight, Told, InHand
  <2> QED
    BY <2>1, <2>2, <2>3, <2>4
<1>3. CarriedBy(s, c)'
  BY <1>1 DEF Counted, CarriedBy
<1> QED
  BY <1>2, <1>3 DEF Counted, Balanced

LEMMA RegisteredStays ==
    ASSUME NEW s, Registered(s), UNCHANGED hedger, traded'[s] = traded[s]
    PROVE  Registered(s)'
  BY DEF Registered, InTradeOf, InTrade

\* A test is of the first counter.
TestsFirst == client # Idle /\ client.act = "test" => client.leg = 1

CountInv == TestsFirst /\ \A s \in Sides : Untraded(s) /\ CountsOnce(s)

LEMMA TestsFirstStep == LegInv /\ TypeInv /\ TestsFirst /\ [Next]_vars => TestsFirst'
<1> SUFFICES ASSUME LegInv, TypeInv, TestsFirst, [Next]_vars PROVE TestsFirst'
  OBVIOUS
<1>1. CASE UNCHANGED client
  BY <1>1 DEF TestsFirst
<1>2. CASE \E req \in Requests : Difference(req)
  BY <1>2 DEF Difference, TestsFirst
<1>3. CASE DiffTest \/ DiffStore
  <2>1. client \in [act : {"test", "store"}, side : Sides, req : Requests, leg : Legs]
    BY <1>3 DEF DiffTest, DiffStore, TypeInv, ClientOK
  <2>2. NextSide = Idle \/ NextSide.leg = 1
    BY <2>1 DEF NextSide
  <2>3. CASE DiffTest
    BY <2>1, <2>2, <2>3 DEF DiffTest, TestsFirst
  <2>4. CASE DiffStore
    <3>1. /\ client.act = "store"
          /\ client' = IF client.leg = Last THEN NextSide ELSE [client EXCEPT !.leg = client.leg + 1]
      BY <2>4 DEF DiffStore
    <3> QED
      BY <2>1, <2>2, <3>1 DEF TestsFirst
  <2> QED
    BY <1>3, <2>3, <2>4
<1>4. UNCHANGED client \/ (\E req \in Requests : Difference(req)) \/ DiffTest \/ DiffStore
  <2>1. CASE MarketData \/ Quoter \/ UNCHANGED vars
    BY <2>1 DEF MarketData, LookNew, LookModify, LookCancel, Begin, Quoter, MarkPending, Quote, Requote,
       Withdraw, vars, threadVars
  <2>2. CASE EventHandler
    BY <2>2 DEF EventHandler, ORDER_CONFIRMATION_TR, ORDER_MOD_CONFIRMATION_TR, ORDER_CXL_CONFIRMATION_TR,
       ORDER_ERROR_OUT, ORDER_REJ_OUT, Settle, SelfTradeStopped, HedgeRefused, TradeLoad, TradeStore,
       TradeSize, TradeHedge, HedgeStore, threadVars
  <2>3. CASE Answers
    BY <2>3 DEF Answers, AcceptNew, RefuseNew, DoModify, DoCancel, RefuseAsk, threadVars
  <2>4. CASE Trading
    BY <2>4 DEF Trading, StopQuote, Fill, StopMarket, RefuseMarket, FillMarket, threadVars
  <2> QED
    BY <2>1, <2>2, <2>3, <2>4 DEF Next, Client
<1> QED
  BY <1>1, <1>2, <1>3, <1>4

\* The client thread goes from side to side and from counter to counter.
LEMMA CountedClient ==
    ASSUME LegInv, TypeInv, Bounded, LegInv', TypeInv', TestsFirst, NEW s \in Sides, NEW c \in Nat,
           Counted(s, c), Quiet, (\E req \in Requests : Difference(req)) \/ DiffTest
    PROVE  Counted(s, c)'
<1>1. ~Carrying(s)
  BY DEF Difference, DiffTest, Carrying
<1>2. NumbersOK /\ 1 \in Legs /\ Ratio[1] \in Nat \ {0} /\ UNCHANGED <<traded, filled, hedger>>
  BY AllNumbersTyped, LegsAndSides DEF Quiet
<1>3. Registered(s)'
  BY <1>2, RegisteredStays DEF Counted
<1>4. Carrying(s)' => c = 0 /\ client'.leg = 1
  <2> SUFFICES ASSUME Carrying(s)' PROVE c = 0 /\ client'.leg = 1
    OBVIOUS
  <2>1. DiffTest
    BY DEF Difference, Carrying
  <2>2. /\ client # Idle /\ client.act = "test"
        /\ client' = IF traded[client.side][1] <= 0 THEN [client EXCEPT !.act = "store"] ELSE NextSide
    BY <2>1 DEF DiffTest
  <2>3. client \in [act : {"test", "store"}, side : Sides, req : Requests, leg : Legs]
    BY <2>2 DEF TypeInv, ClientOK
  <2>4. NextSide = Idle \/ NextSide.act = "test"
    BY <2>3 DEF NextSide
  <2>5. traded[client.side][1] <= 0 /\ client' = [client EXCEPT !.act = "store"]
    BY <2>2, <2>4 DEF Carrying
  <2>6. client.side = s /\ client'.leg = 1
    BY <2>2, <2>3, <2>5 DEF Carrying, TestsFirst
  <2>7. traded[s][1] + Told(s, 1) + InHand(s, 1) = c * Ratio[1] + filled[s][1]
    BY <1>1, <1>2 DEF Counted, Balanced, Weight
  <2>8. /\ traded[s][1] \in Nat /\ Told(s, 1) \in Nat /\ InHand(s, 1) \in Nat /\ filled[s][1] \in Nat
        /\ InRound(s) \in Nat
    BY <1>2 DEF NumbersOK
  <2>9. InHand(s, 1) <= InRound(s) /\ Told(s, 1) + InRound(s) <= filled[s][1]
    <3>1. InHand(s, 1) <= InRound(s)
      BY <2>8 DEF InHand, InRound, InTrade
    <3> QED
      BY <3>1 DEF Bounded, BoundedSide
  <2>10. c * Ratio[1] \in Nat /\ c * Ratio[1] <= 0
    <3>1. c * Ratio[1] \in Nat
      BY <1>2, TimesMore
    <3> QED
      BY <2>5, <2>6, <2>7, <2>8, <2>9, <3>1
  <2>11. c = 0
    BY <1>2, <2>10
  <2> QED
    BY <2>6, <2>11
<1>5. ASSUME NEW l \in Legs PROVE Weight(s, c, l)' = Weight(s, c, l)
  <2>1. Ratio[l] \in Nat
    BY LegsAndSides
  <2> QED
    BY <1>1, <1>4, <2>1 DEF Weight
<1>6. ASSUME NEW l \in Legs
      PROVE  traded'[s][l] + Told(s, l)' + InHand(s, l)' = Weight(s, c, l)' + filled'[s][l]
  <2>1. Told(s, l)' = Told(s, l) /\ InHand(s, l)' = InHand(s, l)
    BY <1>2 DEF Quiet, InHand
  <2> QED
    BY <1>2, <1>5, <2>1 DEF Counted, Balanced
<1>7. CarriedBy(s, c)'
  BY <1>4 DEF CarriedBy
<1> QED
  BY <1>3, <1>6, <1>7 DEF Counted, Balanced

\* The event thread moves lots from what is told to its hand, and from there to the counter.
LEMMA TradeBalance ==
    ASSUME LegInv, TypeInv, Bounded, LegInv', TypeInv', Shapes, NEW s \in Sides, Registered(s),
           SelfTradeStopped \/ TradeLoad \/ TradeStore \/ TradeSize \/ TradeHedge \/ HedgeStore
    PROVE  /\ \A l \in Legs : traded'[s][l] + Told(s, l)' + InHand(s, l)' + filled[s][l]
                             = traded[s][l] + Told(s, l) + InHand(s, l) + filled'[s][l]
           /\ Registered(s)'
<1>1. NumbersOK /\ NumbersOK'
  BY AllNumbersTyped, NextNumbersTyped
<1>2. ASSUME NEW l \in Legs
      PROVE  /\ traded[s][l] \in Nat /\ Told(s, l) \in Nat /\ InHand(s, l) \in Nat /\ filled[s][l] \in Nat
             /\ traded'[s][l] \in Nat /\ Told(s, l)' \in Nat /\ InHand(s, l)' \in Nat /\ filled'[s][l] \in Nat
  BY <1>1 DEF NumbersOK
<1>3. Registered(s) /\ 1 \in Legs
  BY LegsAndSides
<1>4. CASE SelfTradeStopped
  <2>1. \A l \in Legs : Told(s, l)' = Told(s, l) /\ UNCHANGED <<traded, filled, hedger>>
    BY <1>4, HaltNumbers
  <2>2. UNCHANGED <<traded, filled, hedger>>
    BY <1>3, <2>1
  <2>3. Registered(s)'
    BY <1>3, <2>2, RegisteredStays
  <2>4. \A l \in Legs : InHand(s, l)' = InHand(s, l)
    BY <2>2 DEF InHand
  <2> HIDE DEF Told, InHand
  <2> QED
    BY <1>2, <2>1, <2>2, <2>3, <2>4
<1>5. CASE TradeLoad
  <2>1. \A l \in Legs : /\ Told(s, l) = Told(s, l)' + InHand(s, l)' /\ InHand(s, l) = 0
                        /\ UNCHANGED <<traded, filled>>
    BY <1>5, LoadNumbers
  <2>2. UNCHANGED <<traded, filled>>
    BY <1>3, <2>1
  <2>3. hedger'.act = "store" /\ hedger'.reg = traded[hedger'.side][hedger'.leg]
    BY <1>5 DEF TradeLoad
  <2>4. Registered(s)'
    BY <2>2, <2>3 DEF Registered, InTradeOf
  <2> HIDE DEF Told, InHand
  <2> QED
    BY <1>2, <2>1, <2>2, <2>4

\* Inside a trade nothing is told.
<1>6. ASSUME UNCHANGED events, NEW l \in Legs PROVE Told(s, l)' = Told(s, l)
  BY <1>6, ToldStays
<1>7. CASE TradeStore \/ HedgeStore
  <2>1. /\ hedger # Idle /\ hedger.act = "store" /\ traded' = Stored /\ UNCHANGED <<events, filled>>
        /\ hedger' = Idle \/ hedger' = [hedger EXCEPT !.act = "size"]
    BY <1>7 DEF TradeStore, HedgeStore, Storing, exchangeVars, historyVars
  <2>2. hedger \in [act : {"store", "size"}, side : Sides, leg : Legs, lots : Nat, left : Nat, reg : Nat]
    BY <2>1, HedgerShape
  <2>3. hedger' = Idle \/ (hedger'.act = "size" /\ hedger' # Idle)
    BY <2>1, <2>2 DEF Idle
  <2>4. Registered(s)'
    BY <2>3 DEF Registered, InTradeOf, InTrade
  <2>5. ASSUME NEW l \in Legs
        PROVE  /\ InHand(s, l)' = 0 /\ filled'[s][l] = filled[s][l] /\ Told(s, l)' = Told(s, l)
               /\ traded'[s][l] = traded[s][l] + InHand(s, l)
    <3>1. InHand(s, l)' = 0
      BY <2>3 DEF InHand
    <3>2. Told(s, l)' = Told(s, l) /\ filled' = filled
      BY <1>6, <2>1
    <3>3. traded'[s][l] = IF s = hedger.side /\ l = hedger.leg THEN hedger.reg + hedger.lots ELSE traded[s][l]
      BY <2>1, <2>2 DEF Stored, TypeInv, StrategyOK
    <3>4. s = hedger.side /\ l = hedger.leg => hedger.reg = traded[s][l]
      BY <1>3, <2>1 DEF Registered
    <3>5. InHand(s, l) = IF s = hedger.side /\ l = hedger.leg THEN hedger.lots ELSE 0
      BY <2>1 DEF InHand
    <3> QED
      BY <1>2, <3>1, <3>2, <3>3, <3>4, <3>5
  <2> HIDE DEF Told, InHand
  <2> QED
    BY <1>2, <2>4, <2>5
<1>8. CASE TradeSize
  <2>1. /\ hedger # Idle /\ hedger.act = "size"
        /\ hedger' = [act |-> "hedge", side |-> hedger.side, leg |-> 1, lots |-> hedger.lots,
                      tradable |-> traded[hedger.side][1], next |-> 2]
        /\ UNCHANGED <<events, filled, traded>>
    BY <1>8 DEF TradeSize, exchangeVars, historyVars
  <2>2. Registered(s)'
    BY <2>1 DEF Registered, InTradeOf, InTrade
  <2>3. \A l \in Legs : InHand(s, l)' = InHand(s, l)
    BY <2>1 DEF InHand
  <2>4. \A l \in Legs : Told(s, l)' = Told(s, l)
    BY <1>6, <2>1
  <2> HIDE DEF Told, InHand
  <2> QED
    BY <1>2, <2>1, <2>2, <2>3, <2>4
<1>9. CASE TradeHedge
  <2>1. /\ hedger # Idle /\ hedger.act = "hedge" /\ UNCHANGED <<events, filled, traded>>
        /\ hedger' = Idle \/ hedger' = [hedger EXCEPT !.next = hedger.next + 1]
    BY <1>9 DEF TradeHedge, strategyVars
  <2>2. hedger \in [act : {"hedge"}, side : Sides, leg : {1}, lots : Nat, tradable : Nat, next : Hedges]
    BY <2>1, HedgerShape
  <2>3. \/ hedger' = Idle
        \/ /\ hedger'.act = "hedge" /\ hedger'.side = hedger.side /\ hedger'.leg = hedger.leg
           /\ hedger'.tradable = hedger.tradable
    BY <2>1, <2>2
  <2>4. Registered(s)'
    BY <1>3, <2>1, <2>3 DEF Registered, InTradeOf, InTrade
  <2>5. \A l \in Legs : InHand(s, l)' = InHand(s, l)
    BY <2>1, <2>3 DEF InHand
  <2>6. \A l \in Legs : Told(s, l)' = Told(s, l)
    BY <1>6, <2>1
  <2> HIDE DEF Told, InHand
  <2> QED
    BY <1>2, <2>1, <2>4, <2>5, <2>6
<1> QED
  BY <1>4, <1>5, <1>7, <1>8, <1>9

LEMMA CountedTrade ==
    ASSUME LegInv, TypeInv, Bounded, LegInv', TypeInv', Shapes, NEW s \in Sides, NEW c \in Nat,
           Counted(s, c), Carrying(s) /\ Fresh(s) => Fresh(s)',
           SelfTradeStopped \/ TradeLoad \/ TradeStore \/ TradeSize \/ TradeHedge \/ HedgeStore
    PROVE  Counted(s, c)'
<1>1. NumbersOK /\ NumbersOK'
  BY AllNumbersTyped, NextNumbersTyped
<1>2. UNCHANGED client
  BY DEF SelfTradeStopped, TradeLoad, TradeStore, TradeSize, TradeHedge, HedgeStore, threadVars
<1>3. /\ \A l \in Legs : traded'[s][l] + Told(s, l)' + InHand(s, l)' + filled[s][l]
                        = traded[s][l] + Told(s, l) + InHand(s, l) + filled'[s][l]
      /\ Registered(s)'
  BY TradeBalance DEF Counted
<1> QED
  BY <1>1, <1>2, <1>3, BalanceStays

\* The exchange tells what it fills.
LEMMA FillBalance ==
    ASSUME LegInv, TypeInv, LegInv', TypeInv', NEW s \in Sides, Registered(s), Fills \/ TradingInMarket
    PROVE  /\ \A l \in Legs : traded'[s][l] + Told(s, l)' + InHand(s, l)' + filled[s][l]
                             = traded[s][l] + Told(s, l) + InHand(s, l) + filled'[s][l]
           /\ Registered(s)'
<1>1. NumbersOK /\ NumbersOK'
  BY AllNumbersTyped, NextNumbersTyped
<1>2. UNCHANGED <<traded, hedger>>
  BY DEF Fills, Fill, TradingInMarket, StopMarket, RefuseMarket, FillMarket, threadVars, strategyVars
<1>3. Registered(s)'
  BY <1>2, RegisteredStays
<1>4. \A l \in Legs : InHand(s, l)' = InHand(s, l)
  BY <1>2 DEF InHand
<1>5. ASSUME NEW l \in Legs PROVE Told(s, l)' + filled[s][l] = Told(s, l) + filled'[s][l]
  <2>1. /\ Told(s, l) \in Nat /\ filled[s][l] \in Nat
    BY <1>1 DEF NumbersOK
  <2>2. ASSUME NEW n \in DOMAIN book, NEW k \in 1..book[n].lots, Fill(n, k)
        PROVE  Told(s, l)' + filled[s][l] = Told(s, l) + filled'[s][l]
    <3> DEFINE d == IF s = book[n].side /\ l = 1 THEN k ELSE 0
    <3>1. Told(s, l)' = Told(s, l) + d /\ filled'[s][l] = filled[s][l] + d /\ k \in Nat
      BY <2>2, FillNumbers
    <3>2. d \in Nat
      BY <3>1
    <3> HIDE DEF d
    <3> QED
      BY <2>1, <3>1, <3>2
  <2>3. ASSUME NEW m \in BagToSet(mkt), StopMarket(m) \/ RefuseMarket(m)
        PROVE  Told(s, l)' + filled[s][l] = Told(s, l) + filled'[s][l]
    <3>1. Told(s, l)' = Told(s, l) /\ filled' = filled
      BY <2>3, MarketNumbers
    <3> QED
      BY <3>1
  <2>4. ASSUME NEW m \in BagToSet(mkt), NEW k \in 1..m.lots, FillMarket(m, k)
        PROVE  Told(s, l)' + filled[s][l] = Told(s, l) + filled'[s][l]
    <3> DEFINE d == IF m.side = s /\ m.leg = l THEN k ELSE 0
    <3>1. Told(s, l)' = Told(s, l) + d /\ filled'[s][l] = filled[s][l] + d
      BY <2>4, MarketNumbers
    <3>2. d \in Nat
      BY DEF TypeInv, MarketOK, Order
    <3> HIDE DEF d
    <3> QED
      BY <2>1, <3>1, <3>2
  <2> QED
    BY <2>2, <2>3, <2>4 DEF Fills, TradingInMarket
<1>6. \A l \in Legs : traded'[s][l] + Told(s, l)' + InHand(s, l)' + filled[s][l]
                      = traded[s][l] + Told(s, l) + InHand(s, l) + filled'[s][l]
  <2> SUFFICES ASSUME NEW l \in Legs
               PROVE  traded'[s][l] + Told(s, l)' + InHand(s, l)' + filled[s][l]
                      = traded[s][l] + Told(s, l) + InHand(s, l) + filled'[s][l]
    OBVIOUS
  <2>1. /\ traded[s][l] \in Nat /\ Told(s, l) \in Nat /\ InHand(s, l) \in Nat /\ filled[s][l] \in Nat
        /\ traded'[s][l] \in Nat /\ Told(s, l)' \in Nat /\ InHand(s, l)' \in Nat /\ filled'[s][l] \in Nat
    BY <1>1 DEF NumbersOK
  <2>2. Told(s, l)' + filled[s][l] = Told(s, l) + filled'[s][l]
    BY <1>5
  <2>3. traded' = traded /\ InHand(s, l)' = InHand(s, l)
    BY <1>2, <1>4
  <2> HIDE DEF Told, InHand
  <2> QED
    BY <2>1, <2>2, <2>3
<1> QED
  BY <1>3, <1>6

LEMMA CountedFill ==
    ASSUME LegInv, TypeInv, LegInv', TypeInv', NEW s \in Sides, NEW c \in Nat,
           Counted(s, c), Carrying(s) /\ Fresh(s) => Fresh(s)', Fills \/ TradingInMarket
    PROVE  Counted(s, c)'
<1>1. NumbersOK /\ NumbersOK'
  BY AllNumbersTyped, NextNumbersTyped
<1>2. UNCHANGED client
  BY DEF Fills, Fill, TradingInMarket, StopMarket, RefuseMarket, FillMarket, threadVars
<1>3. /\ \A l \in Legs : traded'[s][l] + Told(s, l)' + InHand(s, l)' + filled[s][l]
                        = traded[s][l] + Told(s, l) + InHand(s, l) + filled'[s][l]
      /\ Registered(s)'
  BY FillBalance DEF Counted
<1> QED
  BY <1>1, <1>2, <1>3, BalanceStays

\* The client thread writes what is carried over counters at rest.
LEMMA AtRestIsOver ==
    ASSUME LegInv, TypeInv, NEW s \in Sides, AtRest(s)
    PROVE  /\ ~Deciding(s) /\ ~Queued(s) /\ Gone(s) /\ (hedger # Idle => hedger.side # s)
           /\ \A l \in Legs : Told(s, l) = 0 /\ InHand(s, l) = 0
<1> DEFINE W == {n \in DOMAIN book : book[n].side = s /\ book[n].lots > 0}
           Q == QuotesInQueue(s)
<1>1. \A t \in {quoter, hedger} : t # Idle => t.side # s
  BY DEF AtRest
<1>2. ~Deciding(s) /\ (hedger # Idle => hedger.side # s)
  BY <1>1 DEF Deciding, QuoterOn
<1>3. IsFiniteSet(W) /\ IsFiniteSet(Q)
  <2>1. IsFiniteSet(W)
    BY FS_Subset DEF LegInv, Typed
  <2>2. DOMAIN bid = 1..Len(bid) /\ Len(bid) \in Nat
    BY DEF LegInv, Typed, IsSeq
  <2>3. IsFiniteSet(DOMAIN bid) /\ Q \subseteq DOMAIN bid
    BY <2>2, FS_Interval DEF QuotesInQueue
  <2> QED
    BY <2>1, <2>3, FS_Subset
<1>4. Cardinality(W) + Cardinality(Q) = 0
  BY DEF AtRest, Orders
<1>5. W = {} /\ Q = {}
  <2> HIDE DEF W, Q
  <2>1. Cardinality(W) \in Nat /\ Cardinality(Q) \in Nat
    BY <1>3, FS_CardinalityType
  <2>2. Cardinality(W) = 0 /\ Cardinality(Q) = 0
    BY <1>4, <2>1
  <2> QED
    BY <1>3, <2>2, FS_EmptySet
<1>6. Gone(s)
  BY <1>5 DEF Gone, WorksFor
<1>7. ~Queued(s)
  BY <1>5 DEF Queued, QuotesInQueue, Range
<1>8. ASSUME NEW l \in Legs PROVE Told(s, l) = 0
  <2>1. TradesOf(s, l) = {}
    BY DEF AtRest, TradesOf, EventsOf
  <2> QED
    BY <2>1, TotalEmpty DEF Told, LotsOf
<1>9. \A l \in Legs : InHand(s, l) = 0
  BY <1>2 DEF InHand
<1> QED
  BY <1>2, <1>6, <1>7, <1>8, <1>9

LEMMA AtRestIsFresh ==
    ASSUME LegInv, TypeInv, NEW s \in Sides, AtRest(s), filled[s][1] = 0
    PROVE  Fresh(s) /\ (hedger # Idle => hedger.side # s) /\ \A l \in Legs : Told(s, l) = 0 /\ InHand(s, l) = 0
  BY AtRestIsOver DEF Fresh

LEMMA CountedStore ==
    ASSUME LegInv, TypeInv, LegInv', TypeInv', NEW s \in Sides, Untraded(s), NEW c \in Nat, Counted(s, c),
           Carrying(s) /\ Fresh(s) => Fresh(s)', "carried" \notin upset'[s], DiffStore
    PROVE  \E d \in Nat : Counted(s, d)'
<1> DEFINE t == client.side
           l == client.leg
<1>1. /\ client # Idle /\ client.act = "store"
      /\ traded' = [traded EXCEPT ![t][l] = client.req[t].carried * Ratio[l]]
      /\ client' = IF l = Last THEN NextSide ELSE [client EXCEPT !.leg = l + 1]
      /\ UpsetIf(t, "carried", ~AtRest(t) \/ filled[t][1] > 0)
      /\ UNCHANGED <<hedger, events, filled, bid, book, quoter, mkt>>
  BY DEF DiffStore, exchangeVars
<1>2. client \in [act : {"test", "store"}, side : Sides, req : Requests, leg : Legs]
  BY <1>1 DEF TypeInv, ClientOK
<1>3. /\ NextSide = Idle \/ (NextSide.act = "test" /\ NextSide.side = "reverse" /\ t = "create")
      /\ 1 \in Legs /\ \A k \in Legs : Ratio[k] \in Nat
  BY <1>2, LegsAndSides DEF NextSide
<1>4. NumbersOK /\ NumbersOK'
  BY AllNumbersTyped, NextNumbersTyped
<1>5. \A k \in Legs : Told(s, k)' = Told(s, k) /\ InHand(s, k)' = InHand(s, k)
  BY <1>1, ToldStays DEF InHand
<1>6. CASE t # s
  <2>1. ~Carrying(s) /\ ~Carrying(s)'
    BY <1>1, <1>2, <1>3, <1>6 DEF Carrying
  <2>2. traded'[s] = traded[s]
    BY <1>1, <1>2, <1>6 DEF TypeInv, StrategyOK
  <2>3. Registered(s)'
    BY <1>1, <2>2, RegisteredStays DEF Counted
  <2>4. CarriedBy(s, c)'
    BY <2>1 DEF CarriedBy
  <2>5. \A k \in Legs : Weight(s, c, k)' = Weight(s, c, k)
    BY <2>1 DEF Weight
  <2>6. Balanced(s, c)'
    BY <1>1, <1>5, <2>2, <2>5 DEF Balanced, Counted
  <2> QED
    BY <2>3, <2>4, <2>6 DEF Counted
<1>7. CASE t = s
  <2>0. PICK d \in Nat : d = client.req[s].carried
    BY <1>2, StrategyAssumption
  <2>1. AtRest(s) /\ filled[s][1] = 0
    <3>1. ~(~AtRest(s) \/ filled[s][1] > 0)
      BY <1>1, <1>7 DEF UpsetIf, TypeInv, HistoryOK
    <3>2. filled[s][1] \in Nat
      BY <1>3, <1>4 DEF NumbersOK
    <3> QED
      BY <3>1, <3>2
  <2>2. /\ Fresh(s) /\ (hedger # Idle => hedger.side # s)
        /\ \A k \in Legs : Told(s, k) = 0 /\ InHand(s, k) = 0 /\ filled[s][k] = 0
    BY <2>1, AtRestIsFresh DEF Untraded
  <2>3. Carrying(s)
    BY <1>1, <1>7 DEF Carrying
  <2>4. Fresh(s)'
    BY <2>2, <2>3
  <2>5. Registered(s)'
    BY <1>1, <2>2 DEF Registered, InTradeOf, InTrade
  <2>10. l \in Legs /\ \A k \in Legs : 1 <= k /\ k <= Last /\ k \in Nat
    BY <1>2, LegsAreNumbered DEF Legs
  <2>6. l = 1 \/ c = d
    BY <2>0, <2>3, <2>10 DEF Counted, CarriedBy
  <2>7. \A k \in Legs : traded'[s][k] = IF k = l THEN d * Ratio[l] ELSE traded[s][k]
    BY <1>1, <1>2, <1>7, <2>0 DEF TypeInv, StrategyOK
  <2>8. \A k \in Legs : traded[s][k] = IF k >= l THEN 0 ELSE c * Ratio[k]
    <3> SUFFICES ASSUME NEW k \in Legs PROVE traded[s][k] = IF k >= l THEN 0 ELSE c * Ratio[k]
      OBVIOUS
    <3>1. traded[s][k] + Told(s, k) + InHand(s, k) = Weight(s, c, k) + filled[s][k]
      BY DEF Counted, Balanced
    <3>2. Weight(s, c, k) \in Nat /\ traded[s][k] \in Nat
      BY <1>4, WeightType DEF NumbersOK
    <3>3. traded[s][k] = Weight(s, c, k)
      BY <2>2, <3>1, <3>2
    <3> QED
      BY <2>3, <3>3 DEF Weight, Carrying
  <2>9. \/ l = Last /\ ~Carrying(s)'
        \/ l # Last /\ Carrying(s)' /\ client'.leg = l + 1 /\ client'.req = client.req
    <3>1. CASE l = Last
      BY <1>1, <1>3, <1>7, <3>1 DEF Carrying
    <3>2. CASE l # Last
      <4>1. client' = [client EXCEPT !.leg = l + 1]
        BY <1>1, <3>2
      <4>2. client'.act = "store" /\ client'.side = s /\ client'.leg = l + 1 /\ client'.req = client.req
        BY <1>1, <1>2, <1>7, <4>1
      <4>3. client' # Idle
        BY <4>1, <1>2 DEF Idle
      <4> QED
        BY <3>2, <4>2, <4>3 DEF Carrying
    <3> QED
      BY <3>1, <3>2
  <2>12. ASSUME NEW k \in Legs PROVE traded'[s][k] = Weight(s, d, k)'
    <3>1. Weight(s, d, k)' = IF Carrying(s)' /\ k >= client'.leg THEN 0 ELSE d * Ratio[k]
      BY DEF Weight, Carrying
    <3>2. CASE k = l
      BY <2>7, <2>9, <2>10, <3>1, <3>2
    <3>3. CASE k < l
      <4>1. l # 1 /\ c = d
        BY <2>6, <2>10, <3>3
      <4>2. traded'[s][k] = d * Ratio[k]
        BY <2>7, <2>8, <2>10, <3>3, <4>1
      <4> QED
        BY <2>9, <2>10, <3>1, <3>3, <4>2
    <3>4. CASE k > l
      <4>1. traded'[s][k] = 0 /\ l # Last
        BY <2>7, <2>8, <2>10, <3>4
      <4> QED
        BY <2>9, <2>10, <3>1, <3>4, <4>1
    <3> QED
      BY <2>10, <3>2, <3>3, <3>4
  <2>13. CarriedBy(s, d)'
    <3>1. CASE ~Carrying(s)'
      BY <3>1 DEF CarriedBy
    <3>2. CASE Carrying(s)'
      <4>1. client'.leg > 1 /\ client'.leg # 1 /\ d = client'.req[s].carried
        BY <2>0, <2>9, <2>10, <3>2
      <4> QED
        BY <2>4, <4>1 DEF CarriedBy
    <3> QED
      BY <3>1, <3>2
  <2>14. Balanced(s, d)'
    <3> SUFFICES ASSUME NEW k \in Legs
                 PROVE  traded'[s][k] + Told(s, k)' + InHand(s, k)' = Weight(s, d, k)' + filled'[s][k]
      BY DEF Balanced
    <3>1. Told(s, k)' = 0 /\ InHand(s, k)' = 0 /\ filled'[s][k] = 0 /\ traded'[s][k] \in Nat
      BY <1>1, <1>4, <1>5, <2>2 DEF NumbersOK
    <3> HIDE DEF Told, InHand
    <3> QED
      BY <2>12, <3>1
  <2> QED
    BY <2>3, <2>5, <2>13, <2>14 DEF Counted
<1> QED
  BY <1>6, <1>7

LEMMA CountsStep ==
    ASSUME LegInv, LotsInv, LegInv', LotsInv', Shapes, CountInv, [Next]_vars, NEW s \in Sides
    PROVE  CountsOnce(s)'
<1> SUFFICES ASSUME "carried" \notin upset'[s] PROVE \E c \in Nat : Counted(s, c)'
  BY DEF CountsOnce
<1>1. TypeInv /\ TypeInv' /\ Bounded /\ TestsFirst /\ Untraded(s)
  BY DEF LotsInv, CountInv
<1>2. "carried" \notin upset[s]
  BY UpsetStays
<1>3. PICK c \in Nat : Counted(s, c)
  BY <1>2 DEF CountInv, CountsOnce
<1>4. Carrying(s) /\ Fresh(s) => Fresh(s)'
  BY <1>1, FreshStays
<1>5. CASE QuietNext
  <2>1. Quiet
    BY <1>1, <1>5, QuietStep
  <2>2. CASE (\E req \in Requests : Difference(req)) \/ DiffTest
    BY <1>1, <1>3, <2>1, <2>2, CountedClient
  <2>3. CASE UNCHANGED client
    <3>1. NumbersOK /\ NumbersOK'
      BY <1>1, AllNumbersTyped, NextNumbersTyped
    <3>2. UNCHANGED <<traded, filled, hedger>> /\ \A l \in Legs : Told(s, l)' = Told(s, l)
      BY <2>1 DEF Quiet
    <3>3. \A l \in Legs : InHand(s, l)' = InHand(s, l)
      BY <3>2 DEF InHand
    <3>4. Registered(s)'
      BY <1>3, <3>2, RegisteredStays DEF Counted
    <3>5. \A l \in Legs : traded'[s][l] + Told(s, l)' + InHand(s, l)' + filled[s][l]
                          = traded[s][l] + Told(s, l) + InHand(s, l) + filled'[s][l]
      BY <3>2, <3>3
    <3> QED
      BY <1>3, <1>4, <2>3, <3>1, <3>4, <3>5, BalanceStays
  <2>4. UNCHANGED client \/ (\E req \in Requests : Difference(req)) \/ DiffTest
    <3>1. CASE MarketData \/ Quoter \/ UNCHANGED vars
      BY <3>1 DEF MarketData, LookNew, LookModify, LookCancel, Begin, Quoter, MarkPending, Quote, Requote,
         Withdraw, vars, threadVars
    <3>2. CASE SettlingHandler
      BY <3>2 DEF SettlingHandler, ORDER_CONFIRMATION_TR, ORDER_MOD_CONFIRMATION_TR,
         ORDER_CXL_CONFIRMATION_TR, ORDER_ERROR_OUT, ORDER_REJ_OUT, Settle, HedgeRefused, threadVars
    <3>3. CASE Answers \/ \E n \in DOMAIN book : StopQuote(n)
      BY <3>3 DEF Answers, AcceptNew, RefuseNew, DoModify, DoCancel, RefuseAsk, StopQuote, threadVars
    <3> QED
      BY <1>5, <3>1, <3>2, <3>3 DEF QuietNext
  <2> QED
    BY <2>2, <2>3, <2>4
<1>6. CASE SelfTradeStopped \/ TradeLoad \/ TradeStore \/ TradeSize \/ TradeHedge \/ HedgeStore
  BY <1>1, <1>3, <1>4, <1>6, CountedTrade
<1>7. CASE DiffStore
  BY <1>1, <1>3, <1>4, <1>7, CountedStore
<1>8. CASE Fills \/ TradingInMarket
  BY <1>1, <1>3, <1>4, <1>8, CountedFill
<1> QED
  BY <1>5, <1>6, <1>7, <1>8, KindsOfSteps

\* Every counter of a side holds what traded in its leg and was heard of, and the same number of
\* carried units in each leg, unless a request wrote the counters while a trade was under way
\* (OnDifferenceEventHandler, TRADE_CONFIRMATION_TR).
THEOREM CountsInvariant == Spec => []CountInv
<1>1. Init => CountInv
  BY InitUntraded, InitCounts DEF CountInv, TestsFirst, Init
<1>2. LegInv /\ LotsInv /\ LegInv' /\ LotsInv' /\ Shapes /\ CountInv /\ [Next]_vars => CountInv'
  <2> SUFFICES ASSUME LegInv, LotsInv, LegInv', LotsInv', Shapes, CountInv, [Next]_vars PROVE CountInv'
    OBVIOUS
  <2>1. TypeInv /\ TypeInv'
    BY DEF LotsInv
  <2>2. TestsFirst'
    BY <2>1, TestsFirstStep DEF CountInv
  <2>3. \A s \in Sides : Untraded(s)'
    BY <2>1, UntradedStep DEF CountInv
  <2>4. \A s \in Sides : CountsOnce(s)'
    BY CountsStep
  <2> QED
    BY <2>2, <2>3, <2>4 DEF CountInv
<1> QED
  BY <1>1, <1>2, LegInvariant, LotsInvariant, OneOrderInvariant, PTL DEF Spec, OneOrderInv
-----------------------------------------------------------------------------
(* The lots of a leg that so many of the first leg ask for.                 *)

LEMMA Quotient ==
    ASSUME NEW n \in Nat, NEW b \in Nat \ {0}
    PROVE  n \div b \in Nat /\ b * (n \div b) <= n /\ n < b * (n \div b) + b
  OBVIOUS

LEMMA TimesMono ==
    ASSUME NEW b \in Nat, NEW p \in Nat, NEW q \in Nat, p <= q
    PROVE  b * p <= b * q /\ b * p \in Nat /\ b * q \in Nat
<1>1. PICK d \in Nat : q = p + d
  <2>1. q - p \in Nat /\ q = p + (q - p)
    OBVIOUS
  <2> QED
    BY <2>1
<1>2. b * (p + d) = b * p + b * d /\ b * d \in Nat /\ b * p \in Nat
  OBVIOUS
<1> QED
  BY <1>1, <1>2

LEMMA QuotientMono ==
    ASSUME NEW m \in Nat, NEW n \in Nat, NEW b \in Nat \ {0}, m <= n
    PROVE  m \div b <= n \div b
<1>1. /\ m \div b \in Nat /\ b * (m \div b) <= m
      /\ n \div b \in Nat /\ n < b * (n \div b) + b
  BY Quotient
<1>2. SUFFICES ASSUME n \div b < m \div b PROVE FALSE
  BY <1>1
<1> DEFINE p == n \div b
           q == m \div b
<1> HIDE DEF p, q
<1>3. p \in Nat /\ q \in Nat /\ p + 1 <= q /\ b * q <= m /\ n < b * p + b
  BY <1>1, <1>2 DEF p, q
<1>4. b * (p + 1) <= b * q /\ b * (p + 1) = b * p + b /\ b * p \in Nat /\ b * q \in Nat
  BY <1>3, TimesMono, TimesMore
<1> QED
  BY <1>3, <1>4

LEMMA QuotientIs ==
    ASSUME NEW n \in Nat, NEW b \in Nat \ {0}, NEW q \in Nat, b * q <= n, n < b * q + b
    PROVE  n \div b = q
<1> DEFINE p == n \div b
<1> HIDE DEF p
<1>1. p \in Nat /\ b * p <= n /\ n < b * p + b
  BY Quotient DEF p
<1>2. ASSUME p < q PROVE FALSE
  <2>1. b * (p + 1) <= b * q /\ b * (p + 1) = b * p + b /\ b * p \in Nat /\ b * q \in Nat
    BY <1>1, <1>2, TimesMono, TimesMore
  <2> QED
    BY <1>1, <2>1
<1>3. ASSUME q < p PROVE FALSE
  <2>1. b * (q + 1) <= b * p /\ b * (q + 1) = b * q + b /\ b * p \in Nat /\ b * q \in Nat
    BY <1>1, <1>3, TimesMono, TimesMore
  <2> QED
    BY <1>1, <2>1
<1>4. p = q
  BY <1>1, <1>2, <1>3
<1> QED
  BY <1>4 DEF p

\* More lots of the first leg ask for no fewer of the others.
LEMMA HitLotsMono ==
    ASSUME NEW l \in Hedges, NEW x \in 0..(2 * MaxLots), NEW y \in 0..(2 * MaxLots), x <= y
    PROVE  HitLots(x, Ratio[l], Ratio[1]) <= HitLots(y, Ratio[l], Ratio[1])
<1>1. /\ HitLots(x, Ratio[l], Ratio[1]) = (x * Ratio[l]) \div Ratio[1]
      /\ HitLots(y, Ratio[l], Ratio[1]) = (y * Ratio[l]) \div Ratio[1]
  BY LotsAssumption DEF ExactLots
<1>2. Ratio[l] \in Nat /\ Ratio[1] \in Nat \ {0} /\ x \in Nat /\ y \in Nat
  <2>1. MaxLots \in Nat
    BY LotsAssumption
  <2> QED
    BY <2>1, LegsAndSides
<1> DEFINE a == Ratio[l]
<1> HIDE DEF a
<1>3. a * x <= a * y /\ a * x \in Nat /\ a * y \in Nat /\ a * x = x * a /\ a * y = y * a
  <2>1. a \in Nat
    BY <1>2 DEF a
  <2>2. a * x = x * a /\ a * y = y * a
    BY <1>2, <2>1
  <2> QED
    BY <1>2, <2>1, <2>2, TimesMono
<1>4. (x * a) \div Ratio[1] <= (y * a) \div Ratio[1]
  BY <1>2, <1>3, QuotientMono
<1> QED
  BY <1>1, <1>4 DEF a

\* Whole units that are carried ask for whole units.
LEMMA HitLotsShift ==
    ASSUME NEW l \in Hedges, NEW c \in Nat, NEW x \in 0..(2 * MaxLots),
           c * Ratio[1] + x \in 0..(2 * MaxLots)
    PROVE  HitLots(c * Ratio[1] + x, Ratio[l], Ratio[1]) = c * Ratio[l] + HitLots(x, Ratio[l], Ratio[1])
<1> DEFINE a == Ratio[l]
           b == Ratio[1]
           y == c * b + x
<1>0. a \in Nat /\ b \in Nat \ {0} /\ x \in Nat /\ y \in 0..(2 * MaxLots) /\ l \in Hedges
  BY LegsAndSides, LotsAssumption
<1>1. HitLots(x, a, b) = (x * a) \div b /\ HitLots(y, a, b) = (y * a) \div b
  BY <1>0, LotsAssumption DEF ExactLots
<1> HIDE DEF a, b
<1> DEFINE q == (x * a) \div b
           n == x * a
<1>2. n \in Nat /\ c * a \in Nat
  BY <1>0
<1> HIDE DEF n
<1>3. q \in Nat /\ b * q <= n /\ n < b * q + b
  BY <1>0, <1>2, Quotient DEF n
<1> HIDE DEF q
<1>4. y * a = b * (c * a) + n
  BY <1>0 DEF n
<1>5. b * (c * a + q) = b * (c * a) + b * q /\ b * (c * a) \in Nat /\ b * q \in Nat
  <2> DEFINE d == c * a
  <2>1. d \in Nat
    BY <1>2
  <2> HIDE DEF d
  <2>2. b * (d + q) = b * d + b * q /\ b * d \in Nat /\ b * q \in Nat
    BY <1>0, <1>3, <2>1
  <2> QED
    BY <2>2 DEF d
<1>6. c * a + q \in Nat /\ y * a \in Nat /\ b * (c * a + q) <= y * a /\ y * a < b * (c * a + q) + b
  BY <1>0, <1>2, <1>3, <1>4, <1>5
<1> HIDE DEF y
<1>7. (y * a) \div b = c * a + q
  BY <1>0, <1>6, QuotientIs
<1> QED
  BY <1>1, <1>7 DEF q, n, a, b, y

\* A whole number of units is more than any fewer lots ask for.
LEMMA HitLotsWhole ==
    ASSUME NEW l \in Hedges, NEW x \in 0..(2 * MaxLots), NEW y \in 0..(2 * MaxLots), x < y,
           y % Ratio[1] = 0
    PROVE  HitLots(x, Ratio[l], Ratio[1]) < HitLots(y, Ratio[l], Ratio[1])
<1> DEFINE a == Ratio[l]
           b == Ratio[1]
           k == y \div b
<1>0. a \in Nat \ {0} /\ b \in Nat \ {0} /\ x \in Nat /\ y \in Nat /\ l \in Hedges
  BY LegsAndSides, LotsAssumption
<1>1. HitLots(x, a, b) = (x * a) \div b /\ HitLots(y, a, b) = (y * a) \div b
  BY <1>0, LotsAssumption DEF ExactLots
<1> HIDE DEF a, b
<1>2. k \in Nat /\ y = b * k
  <2>1. y % b = 0
    BY DEF b
  <2> QED
    BY <1>0, <2>1
<1> HIDE DEF k
<1>3. y * a = b * (k * a) /\ k * a \in Nat
  BY <1>0, <1>2
<1>4. (y * a) \div b = k * a
  <2> DEFINE d == k * a
  <2>1. d \in Nat /\ y * a = b * d
    BY <1>3
  <2> HIDE DEF d
  <2>2. b * d \in Nat /\ b * d <= b * d /\ b * d < b * d + b
    BY <1>0, <2>1
  <2>3. (b * d) \div b = d
    BY <1>0, <2>1, <2>2, QuotientIs
  <2> QED
    BY <2>1, <2>3 DEF d
<1>5. x * a < y * a /\ x * a \in Nat /\ y * a \in Nat
  <2>1. a * (x + 1) <= a * y /\ a * (x + 1) = a * x + a /\ a * x \in Nat /\ a * y \in Nat
    BY <1>0, TimesMono, TimesMore
  <2>2. a * x = x * a /\ a * y = y * a
    BY <1>0
  <2> QED
    BY <1>0, <2>1, <2>2
<1> DEFINE q == (x * a) \div b
<1>6. q \in Nat /\ b * q <= x * a
  BY <1>0, <1>5, Quotient
<1> HIDE DEF q
<1>7. ASSUME k * a <= q PROVE FALSE
  <2>1. b * (k * a) <= b * q /\ b * (k * a) \in Nat /\ b * q \in Nat
    BY <1>0, <1>3, <1>6, <1>7, TimesMono
  <2> QED
    BY <1>3, <1>5, <1>6, <2>1
<1>8. q < k * a
  BY <1>3, <1>6, <1>7
<1> QED
  BY <1>1, <1>4, <1>8 DEF q, a, b
-----------------------------------------------------------------------------
(* What is hedged and what is wanted.                                       *)

\* The lots in a trade whose hedge in leg l is still to come.
InWork(s, l) == IF InTrade(s) /\ (hedger.act = "hedge" => hedger.next <= l) THEN hedger.lots ELSE 0
\* The lots of the first leg that have reached the hedge of leg l.
Met(s, l) == filled[s][1] - Told(s, 1) - InWork(s, l)
\* The event thread hedges leg l of the side.
HedgesLeg(s, l) == TradeHedge /\ s = hedger.side /\ l = hedger.next

LEMMA MetType ==
    ASSUME LegInv, TypeInv, Bounded, NEW s \in Sides, NEW l \in Hedges
    PROVE  /\ Met(s, l) \in 0..(2 * MaxLots) /\ filled[s][1] - Told(s, 1) \in 0..(2 * MaxLots)
           /\ Met(s, l) <= filled[s][1] - Told(s, 1)
           /\ Wanted(s, l) = HitLots(Met(s, l), Ratio[l], Ratio[1])
           /\ HedgedLots(s, l) = filled[s][l] + InMarket(s, l) + Halted(s, l)
<1>1. BoundedSide(s) /\ MaxLots \in Nat /\ NumbersOK /\ 1 \in Legs /\ l \in Legs
  BY AllNumbersTyped, LegsAndSides, LotsAssumption DEF Bounded
<1>2. filled[s][1] \in Nat /\ Told(s, 1) \in Nat /\ InRound(s) \in Nat
  BY <1>1 DEF NumbersOK
<1>3. InWork(s, l) \in Nat /\ InWork(s, l) <= InRound(s)
  BY <1>2 DEF InWork, InRound
<1>4. Unhedged(s, l) = Told(s, 1) + InWork(s, l)
  BY DEF Unhedged, Told, InWork, InTrade
<1>5. filled[s][1] <= MaxLots /\ Told(s, 1) + InRound(s) <= filled[s][1]
  BY <1>1 DEF BoundedSide
<1>6. filled[s][1] - Unhedged(s, l) = Met(s, l)
  BY <1>2, <1>3, <1>4 DEF Met
<1>7. HedgedLots(s, l) = filled[s][l] + InMarket(s, l) + Halted(s, l)
  BY DEF HedgedLots, Halted
<1> QED
  BY <1>1, <1>2, <1>3, <1>5, <1>6, <1>7 DEF Met, Wanted

LEMMA HedgeMoves == TypeInv /\ TradeHedge => hedger' # hedger
<1> SUFFICES ASSUME TypeInv, TradeHedge PROVE hedger' # hedger
  OBVIOUS
<1>1. /\ hedger # Idle /\ hedger.act = "hedge"
      /\ hedger' = IF hedger.next = Last THEN Idle ELSE [hedger EXCEPT !.next = hedger.next + 1]
  BY DEF TradeHedge
<1>2. hedger \in [act : {"hedge"}, side : Sides, leg : {1}, lots : Nat, tradable : Nat, next : Hedges]
  BY <1>1, HedgerShape
<1>3. hedger.next \in Nat
  BY <1>2, LegsAndSides
<1> QED
  BY <1>1, <1>2, <1>3

\* Only the hedge of a leg changes what its hedge has met.
LEMMA MetStays ==
    ASSUME LegInv, TypeInv, Bounded, LegInv', TypeInv', Shapes, [Next]_vars,
           NEW s \in Sides, NEW l \in Hedges
    PROVE  /\ ~HedgesLeg(s, l) => Met(s, l)' = Met(s, l)
           /\ HedgesLeg(s, l) => Met(s, l)' = filled[s][1] - Told(s, 1)
<1>1. NumbersOK /\ NumbersOK' /\ 1 \in Legs /\ l \in Legs
  BY AllNumbersTyped, NextNumbersTyped, LegsAndSides
<1>2. /\ filled[s][1] \in Nat /\ Told(s, 1) \in Nat /\ InHand(s, 1) \in Nat /\ InRound(s) \in Nat
      /\ filled'[s][1] \in Nat /\ Told(s, 1)' \in Nat /\ InHand(s, 1)' \in Nat /\ InRound(s)' \in Nat
      /\ InWork(s, l) \in Nat /\ InWork(s, l)' \in Nat
  <2>1. InWork(s, l) = InRound(s) \/ InWork(s, l) = 0
    BY DEF InWork, InRound
  <2>2. InWork(s, l)' = InRound(s)' \/ InWork(s, l)' = 0
    BY DEF InWork, InRound
  <2> QED
    BY <1>1, <2>1, <2>2 DEF NumbersOK
<1>3. ASSUME UNCHANGED hedger PROVE InWork(s, l)' = InWork(s, l)
  BY <1>3 DEF InWork, InTrade
<1>3a. UNCHANGED hedger => ~HedgesLeg(s, l)
  BY HedgeMoves DEF HedgesLeg
<1>4. ASSUME Told(s, 1)' + filled[s][1] = Told(s, 1) + filled'[s][1], InWork(s, l)' = InWork(s, l)
      PROVE  Met(s, l)' = Met(s, l)
  <2> HIDE DEF Told, InWork
  <2> QED
    BY <1>2, <1>4 DEF Met
<1>5. CASE QuietNext
  <2>1. Quiet
    BY <1>5, QuietStep
  <2>2. Told(s, 1)' = Told(s, 1) /\ filled' = filled /\ InWork(s, l)' = InWork(s, l)
    BY <1>1, <1>3, <2>1 DEF Quiet
  <2>3. ~HedgesLeg(s, l)
    BY <1>3a, <2>1 DEF Quiet
  <2> QED
    BY <1>2, <1>4, <2>2, <2>3
<1>6. CASE SelfTradeStopped
  <2>1. Told(s, 1)' = Told(s, 1) /\ UNCHANGED <<filled, hedger>>
    BY <1>1, <1>6, HaltNumbers
  <2>2. ~HedgesLeg(s, l)
    BY <1>3a, <2>1
  <2> QED
    BY <1>2, <1>3, <1>4, <2>1, <2>2
<1>7. CASE TradeLoad
  <2>1. /\ Told(s, 1) = Told(s, 1)' + InHand(s, 1)' /\ InRound(s) = 0
        /\ (InRound(s) = InHand(s, 1))' /\ UNCHANGED filled
    BY <1>1, <1>7, LoadNumbers
  <2>2. hedger = Idle /\ hedger'.act = "store"
    BY <1>7 DEF TradeLoad, Handles
  <2>3. InWork(s, l) = 0 /\ InWork(s, l)' = InRound(s)'
    BY <2>2 DEF InWork, InTrade, InRound
  <2>4. ~HedgesLeg(s, l)
    BY <2>2 DEF HedgesLeg, TradeHedge
  <2>5. Met(s, l)' = Met(s, l)
    <3> HIDE DEF Told, InWork, InHand, InRound
    <3> QED
      BY <1>2, <2>1, <2>3 DEF Met
  <2> QED
    BY <2>4, <2>5

\* Inside a trade nothing is told.
<1>8. ASSUME UNCHANGED <<events, filled>>, InWork(s, l)' = InWork(s, l) PROVE Met(s, l)' = Met(s, l)
  <2>1. Told(s, 1)' = Told(s, 1)
    BY <1>8, ToldStays
  <2> QED
    BY <1>2, <1>4, <1>8, <2>1
<1>9. CASE TradeStore
  <2>1. /\ hedger # Idle /\ hedger.act = "store" /\ hedger.leg = 1
        /\ hedger' = [hedger EXCEPT !.act = "size"] /\ UNCHANGED <<events, filled>>
    BY <1>9 DEF TradeStore, Storing, exchangeVars, historyVars
  <2>2. hedger \in [act : {"store", "size"}, side : Sides, leg : Legs, lots : Nat, left : Nat, reg : Nat]
    BY <2>1, HedgerShape
  <2>3. /\ hedger' # Idle /\ hedger'.act = "size" /\ hedger'.side = hedger.side /\ hedger'.leg = 1
        /\ hedger'.lots = hedger.lots
    BY <2>1, <2>2 DEF Idle
  <2>4. InWork(s, l)' = InWork(s, l)
    BY <2>1, <2>3 DEF InWork, InTrade
  <2>5. ~HedgesLeg(s, l)
    BY <2>1 DEF HedgesLeg, TradeHedge
  <2> QED
    BY <1>8, <2>1, <2>4, <2>5
<1>10. CASE TradeSize
  <2>1. /\ hedger # Idle /\ hedger.act = "size"
        /\ hedger' = [act |-> "hedge", side |-> hedger.side, leg |-> 1, lots |-> hedger.lots,
                      tradable |-> traded[hedger.side][1], next |-> 2]
        /\ UNCHANGED <<events, filled>>
    BY <1>10 DEF TradeSize, exchangeVars, historyVars
  <2>2. hedger.leg = 1
    <3>1. hedger.act # "store" /\ hedger.act # "hedge"
      BY <2>1
    <3> QED
      BY <2>1, <3>1 DEF Shapes, HedgerTyped
  <2>3. hedger' # Idle /\ 2 <= l
    BY <2>1, LegsAreNumbered DEF Idle, Hedges
  <2>4. InWork(s, l)' = InWork(s, l)
    BY <2>1, <2>2, <2>3 DEF InWork, InTrade
  <2>5. ~HedgesLeg(s, l)
    BY <2>1 DEF HedgesLeg, TradeHedge
  <2> QED
    BY <1>8, <2>1, <2>4, <2>5
<1>11. CASE TradeHedge
  <2>1. /\ hedger # Idle /\ hedger.act = "hedge" /\ UNCHANGED <<events, filled>>
        /\ hedger' = IF hedger.next = Last THEN Idle ELSE [hedger EXCEPT !.next = hedger.next + 1]
    BY <1>11 DEF TradeHedge, strategyVars
  <2>2. hedger \in [act : {"hedge"}, side : Sides, leg : {1}, lots : Nat, tradable : Nat, next : Hedges]
    BY <2>1, HedgerShape
  <2>3. \/ hedger' = Idle /\ hedger.next = Last
        \/ /\ hedger' # Idle /\ hedger'.act = "hedge" /\ hedger'.side = hedger.side /\ hedger'.leg = hedger.leg
           /\ hedger'.lots = hedger.lots /\ hedger'.next = hedger.next + 1
    BY <2>1, <2>2 DEF Idle
  <2>4. l <= Last /\ l \in Nat /\ hedger.next \in Nat /\ Last \in Nat
    BY <2>2, LegsAreNumbered DEF Hedges
  <2>5. CASE HedgesLeg(s, l)
    <3>1. InWork(s, l)' = 0
      BY <2>1, <2>3, <2>4, <2>5 DEF InWork, InTrade, HedgesLeg
    <3>2. Told(s, 1)' = Told(s, 1)
      BY <2>1, ToldStays
    <3> HIDE DEF Told, InWork
    <3> QED
      BY <1>2, <2>1, <2>5, <3>1, <3>2 DEF Met
  <2>6. CASE ~HedgesLeg(s, l)
    <3>1. s # hedger.side \/ l # hedger.next
      BY <1>11, <2>6 DEF HedgesLeg
    <3>2. InWork(s, l)' = InWork(s, l)
      BY <2>1, <2>2, <2>3, <2>4, <3>1 DEF InWork, InTrade
    <3> QED
      BY <1>8, <2>1, <2>6, <3>2
  <2> QED
    BY <2>5, <2>6
<1>12. CASE HedgeStore
  <2>1. /\ hedger # Idle /\ hedger.act = "store" /\ hedger.leg # 1 /\ hedger' = Idle
        /\ UNCHANGED <<events, filled>>
    BY <1>12 DEF HedgeStore, Storing, exchangeVars, historyVars
  <2>2. InWork(s, l)' = InWork(s, l) /\ ~HedgesLeg(s, l)
    BY <2>1 DEF InWork, InTrade, HedgesLeg, TradeHedge
  <2> QED
    BY <1>8, <2>1, <2>2
<1>13. CASE DiffStore
  <2>1. UNCHANGED <<hedger, events, filled>>
    BY <1>13 DEF DiffStore, exchangeVars
  <2> QED
    BY <1>3, <1>8, <1>3a, <2>1
<1>14. CASE Fills
  <2>1. PICK n \in DOMAIN book : \E k \in 1..book[n].lots : Fill(n, k)
    BY <1>14 DEF Fills
  <2>2. PICK k \in 1..book[n].lots : Fill(n, k)
    BY <2>1
  <2> DEFINE d == IF s = book[n].side THEN k ELSE 0
  <2>3. Told(s, 1)' = Told(s, 1) + d /\ filled'[s][1] = filled[s][1] + d /\ UNCHANGED hedger /\ d \in Nat
    BY <1>1, <2>2, FillNumbers
  <2> HIDE DEF d, Told, InWork
  <2> QED
    BY <1>2, <1>3, <1>4, <1>3a, <2>3
<1>15. CASE TradingInMarket
  <2>1. PICK m \in BagToSet(mkt) : StopMarket(m) \/ RefuseMarket(m) \/ \E k \in 1..m.lots : FillMarket(m, k)
    BY <1>15 DEF TradingInMarket
  <2>2. m.leg # 1 /\ UNCHANGED hedger
    BY <2>1, LegsAndSides DEF TypeInv, MarketOK, Order, StopMarket, RefuseMarket, FillMarket, threadVars
  <2>3. Told(s, 1)' = Told(s, 1) /\ filled'[s][1] = filled[s][1]
    <3>1. CASE StopMarket(m) \/ RefuseMarket(m)
      BY <1>1, <3>1, MarketNumbers
    <3>2. ASSUME NEW k \in 1..m.lots, FillMarket(m, k)
          PROVE  Told(s, 1)' = Told(s, 1) /\ filled'[s][1] = filled[s][1]
      <4>1. Told(s, 1)' = Told(s, 1) + 0 /\ filled'[s][1] = filled[s][1] + 0
        <5>1. ~(m.side = s /\ m.leg = 1)
          BY <2>2
        <5> QED
          BY <1>1, <3>2, <5>1, MarketNumbers
      <4> QED
        BY <1>2, <4>1
    <3> QED
      BY <2>1, <3>1, <3>2
  <2> QED
    BY <1>2, <1>3, <1>4, <1>3a, <2>2, <2>3
<1> QED
  BY <1>5, <1>6, <1>7, <1>9, <1>10, <1>11, <1>12, <1>13, <1>14, <1>15, KindsOfSteps

\* Apart from the hedge itself, only a refusal takes from what is hedged, only a stop adds to it.
LEMMA HedgedStays ==
    ASSUME LegInv, TypeInv, Bounded, LegInv', TypeInv', [Next]_vars,
           NEW s \in Sides, NEW l \in Hedges, ~HedgesLeg(s, l)
    PROVE  /\ HedgedLots(s, l)' >= HedgedLots(s, l) \/ l \in owed'[s]
           /\ HedgedLots(s, l)' <= HedgedLots(s, l) \/ "stopped" \in upset'[s]
           /\ l \in owed[s] => l \in owed'[s]
<1>1. NumbersOK /\ NumbersOK' /\ l \in Legs /\ 1 # l
  BY AllNumbersTyped, NextNumbersTyped, LegsAndSides
<1>2. /\ filled[s][l] \in Nat /\ InMarket(s, l) \in Nat /\ Halted(s, l) \in Nat
      /\ filled'[s][l] \in Nat /\ InMarket(s, l)' \in Nat /\ Halted(s, l)' \in Nat
  BY <1>1 DEF NumbersOK
<1>3. /\ HedgedLots(s, l) = filled[s][l] + InMarket(s, l) + Halted(s, l)
      /\ HedgedLots(s, l)' = filled'[s][l] + InMarket(s, l)' + Halted(s, l)'
  BY DEF HedgedLots, Halted
<1>4. owed \in [Sides -> SUBSET Hedges] /\ upset \in [Sides -> SUBSET Upsets]
  BY DEF TypeInv, HistoryOK

\* What is hedged stays.
<1>5. ASSUME UNCHANGED owed,
             filled'[s][l] + InMarket(s, l)' + Halted(s, l)' = filled[s][l] + InMarket(s, l) + Halted(s, l)
      PROVE  /\ HedgedLots(s, l)' >= HedgedLots(s, l) \/ l \in owed'[s]
             /\ HedgedLots(s, l)' <= HedgedLots(s, l) \/ "stopped" \in upset'[s]
             /\ l \in owed[s] => l \in owed'[s]
  BY <1>2, <1>3, <1>5
<1>6. CASE QuietNext
  <2>1. Quiet
    BY <1>6, QuietStep
  <2>2. UNCHANGED owed
    <3>1. CASE MarketData \/ Quoter \/ SettlingHandler \/ UNCHANGED vars
      BY <3>1 DEF MarketData, LookNew, LookModify, LookCancel, Begin, Quoter, MarkPending, Quote, Requote,
         Withdraw, SettlingHandler, ORDER_CONFIRMATION_TR, ORDER_MOD_CONFIRMATION_TR,
         ORDER_CXL_CONFIRMATION_TR, ORDER_ERROR_OUT, ORDER_REJ_OUT, Settle, HedgeRefused, vars, historyVars
    <3>2. CASE (\E req \in Requests : Difference(req)) \/ DiffTest
      BY <3>2 DEF Difference, DiffTest, historyVars
    <3>3. CASE Answers \/ \E n \in DOMAIN book : StopQuote(n)
      BY <3>3 DEF Answers, AcceptNew, RefuseNew, DoModify, DoCancel, RefuseAsk, StopQuote, historyVars
    <3> QED
      BY <1>6, <3>1, <3>2, <3>3 DEF QuietNext
  <2>3. Halted(s, l)' = Halted(s, l) /\ InMarket(s, l)' = InMarket(s, l) /\ UNCHANGED filled
    BY <1>1, <2>1 DEF Quiet, InMarket
  <2> QED
    BY <1>5, <2>2, <2>3
<1>7. CASE SelfTradeStopped
  <2>1. UNCHANGED owed
    BY <1>7 DEF SelfTradeStopped, historyVars
  <2> DEFINE d == IF IsHalt(Head(events), s, l) THEN Head(events).lots ELSE 0
  <2>2. /\ d \in Nat /\ Halted(s, l) = Halted(s, l)' + d
        /\ InMarket(s, l)' = InMarket(s, l) + d /\ UNCHANGED filled
    BY <1>1, <1>7, HaltNumbers
  <2> HIDE DEF d, Halted, InMarket
  <2> QED
    BY <1>2, <1>5, <2>1, <2>2
<1>8. CASE TradeLoad
  <2>1. UNCHANGED owed
    BY <1>8 DEF TradeLoad, historyVars
  <2>2. Halted(s, l)' = Halted(s, l) /\ UNCHANGED <<filled, mkt>>
    BY <1>1, <1>8, LoadNumbers
  <2>3. InMarket(s, l)' = InMarket(s, l)
    BY <2>2 DEF InMarket
  <2> QED
    BY <1>5, <2>1, <2>2, <2>3
<1>9. CASE TradeStore \/ TradeSize \/ HedgeStore \/ DiffStore
  <2>1. UNCHANGED <<events, mkt, filled, owed>>
    BY <1>9 DEF TradeStore, TradeSize, HedgeStore, DiffStore, exchangeVars, historyVars
  <2>2. Halted(s, l)' = Halted(s, l) /\ InMarket(s, l)' = InMarket(s, l)
    BY <2>1, NumbersStay
  <2> QED
    BY <1>5, <2>1, <2>2
<1>10. CASE TradeHedge
  <2>1. ~(s = hedger.side /\ l = hedger.next)
    BY <1>10 DEF HedgesLeg
  <2> DEFINE lots == ToHit(hedger.side, hedger.next)
  <2>2. /\ InMarket(s, l)' = InMarket(s, l) + 0
        /\ Halted(s, l)' = Halted(s, l) /\ UNCHANGED filled
    BY <1>1, <1>10, <2>1, HedgeNumbers
  <2>3. l \in owed[s] <=> l \in owed'[s]
    BY <1>4, <1>10, <2>1 DEF TradeHedge
  <2> HIDE DEF Halted, InMarket
  <2> QED
    BY <1>2, <1>3, <2>2, <2>3
<1>11. CASE Fills
  <2>1. PICK n \in DOMAIN book : \E k \in 1..book[n].lots : Fill(n, k)
    BY <1>11 DEF Fills
  <2>2. PICK k \in 1..book[n].lots : Fill(n, k)
    BY <2>1
  <2>3. filled'[s][l] = filled[s][l] + 0 /\ Halted(s, l)' = Halted(s, l) /\ UNCHANGED mkt
    BY <1>1, <2>2, FillNumbers
  <2>4. InMarket(s, l)' = InMarket(s, l)
    BY <2>3 DEF InMarket
  <2>5. UNCHANGED owed
    BY <2>2 DEF Fill
  <2> QED
    BY <1>2, <1>5, <2>3, <2>4, <2>5
<1>12. CASE TradingInMarket
  <2>1. PICK m \in BagToSet(mkt) : StopMarket(m) \/ RefuseMarket(m) \/ \E k \in 1..m.lots : FillMarket(m, k)
    BY <1>12 DEF TradingInMarket
  <2>2. m \in Order /\ 0 < m.lots /\ m.lots <= m.volume /\ m.side \in Sides
    BY DEF TypeInv, MarketOK, Order
  <2>3. m.lots \in Nat /\ m.volume \in Nat
    BY <2>2 DEF Order
  <2>4. ASSUME NEW k \in 1..m.lots, FillMarket(m, k)
        PROVE  filled'[s][l] + InMarket(s, l)' + Halted(s, l)' = filled[s][l] + InMarket(s, l) + Halted(s, l)
               /\ UNCHANGED owed
    <3> DEFINE d == IF m.side = s /\ m.leg = l THEN k ELSE 0
    <3>1. /\ filled'[s][l] = filled[s][l] + d /\ InMarket(s, l) = InMarket(s, l)' + d
          /\ Halted(s, l)' = Halted(s, l)
      BY <1>1, <2>4, MarketNumbers
    <3>2. d \in Nat /\ UNCHANGED owed
      BY <2>3, <2>4 DEF FillMarket
    <3> HIDE DEF d, Halted, InMarket
    <3> QED
      BY <1>2, <3>1, <3>2
  <2>5. CASE StopMarket(m)
    <3> DEFINE v == IF m.side = s /\ m.leg = l THEN m.volume ELSE 0
               d == IF m.side = s /\ m.leg = l THEN m.lots ELSE 0
    <3>1. /\ Halted(s, l)' = Halted(s, l) + v /\ InMarket(s, l) = InMarket(s, l)' + d /\ UNCHANGED filled
      BY <1>1, <2>5, MarketNumbers
    <3>2. d \in Nat /\ v \in Nat /\ d <= v /\ (v = 0 => d = 0) /\ (v # 0 => m.side = s)
      BY <2>2, <2>3
    <3>3. m.side = s => "stopped" \in upset'[s]
      BY <1>4, <2>2, <2>5 DEF StopMarket, UpsetIf
    <3>4. UNCHANGED owed
      BY <2>5 DEF StopMarket
    <3> HIDE DEF d, v, Halted, InMarket
    <3>5. HedgedLots(s, l)' >= HedgedLots(s, l)
      BY <1>2, <1>3, <3>1, <3>2
    <3>6. v = 0 => HedgedLots(s, l)' <= HedgedLots(s, l)
      BY <1>2, <1>3, <3>1, <3>2
    <3> QED
      BY <3>2, <3>3, <3>4, <3>5, <3>6
  <2>6. CASE RefuseMarket(m)
    <3> DEFINE d == IF m.side = s /\ m.leg = l THEN m.lots ELSE 0
    <3>1. /\ Halted(s, l)' = Halted(s, l) /\ InMarket(s, l) = InMarket(s, l)' + d /\ UNCHANGED filled
      BY <1>1, <2>6, MarketNumbers
    <3>2. d \in Nat /\ (d # 0 => m.side = s /\ m.leg = l)
      BY <2>2, <2>3
    <3>3. (m.side = s /\ m.leg = l => l \in owed'[s]) /\ owed[s] \subseteq owed'[s]
      BY <1>4, <2>2, <2>6 DEF RefuseMarket
    <3> HIDE DEF d, Halted, InMarket
    <3>4. HedgedLots(s, l)' <= HedgedLots(s, l)
      BY <1>2, <1>3, <3>1, <3>2
    <3>5. d = 0 => HedgedLots(s, l)' >= HedgedLots(s, l)
      BY <1>2, <1>3, <3>1, <3>2
    <3> QED
      BY <3>2, <3>3, <3>4, <3>5
  <2> QED
    BY <1>5, <2>1, <2>4, <2>5, <2>6
<1> QED
  BY <1>6, <1>7, <1>8, <1>9, <1>10, <1>11, <1>12, KindsOfSteps

\* The hedge of a leg brings it to what is wanted, less what is wanted and not yet heard of.
LEMMA HedgeFills ==
    ASSUME LegInv, TypeInv, Bounded, LegInv', TypeInv', NEW s \in Sides, NEW l \in Hedges,
           HedgesLeg(s, l), NEW c \in Nat, Counted(s, c)
    PROVE  LET x == filled[s][1] - Told(s, 1)
               lots == HitLots(x, Ratio[l], Ratio[1]) - filled[s][l] + Told(s, l) IN
           /\ lots \in Int /\ UNCHANGED filled /\ Halted(s, l)' = Halted(s, l)
           /\ InMarket(s, l)' = InMarket(s, l) + IF lots > 0 THEN lots ELSE 0
           /\ c * Ratio[1] \in Nat /\ traded[s][1] = c * Ratio[1] + x
<1> DEFINE x == filled[s][1] - Told(s, 1)
           q == HitLots(x, Ratio[l], Ratio[1])
           lots == q - filled[s][l] + Told(s, l)
<1>1. /\ hedger # Idle /\ hedger.act = "hedge" /\ s = hedger.side /\ l = hedger.next /\ TradeHedge
  BY DEF HedgesLeg, TradeHedge
<1>2. hedger.leg = 1 /\ InTrade(s) /\ InTradeOf(s, "hedge")
  BY <1>1, HedgerShape DEF InTrade, InTradeOf
<1>3. NumbersOK /\ 1 \in Legs /\ l \in Legs
  BY AllNumbersTyped, LegsAndSides
<1>4. /\ filled[s][1] \in Nat /\ Told(s, 1) \in Nat /\ traded[s][1] \in Nat /\ InRound(s) \in Nat
      /\ filled[s][l] \in Nat /\ Told(s, l) \in Nat /\ traded[s][l] \in Nat
  BY <1>3 DEF NumbersOK
<1>5. InHand(s, 1) = 0 /\ InHand(s, l) = 0
  BY <1>1 DEF InHand

\* The side has traded, so that its counters were all written, or none.
<1>6. filled[s][1] > 0
  <2>1. InRound(s) > 0
    BY <1>1, <1>2, HedgerShape DEF InRound
  <2>2. Told(s, 1) + InRound(s) <= filled[s][1]
    BY DEF Bounded, BoundedSide
  <2> QED
    BY <1>4, <2>1, <2>2
<1>7. ASSUME NEW k \in Legs PROVE Weight(s, c, k) = c * Ratio[k]
  <2>1. Ratio[k] \in Nat
    BY LegsAndSides
  <2>2. CASE ~Carrying(s)
    BY <2>2 DEF Weight
  <2>3. CASE Carrying(s)
    <3>1. client.leg \in Legs
      BY <2>3 DEF Carrying, TypeInv, ClientOK
    <3>2. client.leg = 1
      BY <1>4, <1>6, <2>3, <3>1, LegsAreNumbered DEF Legs, Counted, CarriedBy, Fresh
    <3>3. c = 0
      BY <2>3, <3>2 DEF Counted, CarriedBy
    <3> QED
      BY <2>1, <3>3 DEF Weight
  <2> QED
    BY <2>2, <2>3
<1>8. /\ traded[s][1] + Told(s, 1) = c * Ratio[1] + filled[s][1]
      /\ traded[s][l] + Told(s, l) = c * Ratio[l] + filled[s][l]
      /\ hedger.tradable = traded[s][1]
  <2>1. /\ traded[s][1] + Told(s, 1) + InHand(s, 1) = c * Ratio[1] + filled[s][1]
        /\ traded[s][l] + Told(s, l) + InHand(s, l) = c * Ratio[l] + filled[s][l]
    BY <1>3, <1>7 DEF Counted, Balanced
  <2>2. hedger.tradable = traded[s][1]
    BY <1>2 DEF Counted, Registered
  <2> QED
    BY <1>4, <1>5, <2>1, <2>2
<1>9. c * Ratio[1] \in Nat /\ c * Ratio[l] \in Nat
  BY <1>3, LegsAndSides, TimesMore
<1>10. hedger.tradable = c * Ratio[1] + x /\ x \in 0..(2 * MaxLots) /\ hedger.tradable \in 0..(2 * MaxLots)
  BY <1>1, <1>2, <1>4, <1>8, <1>9, MetType, HedgeIsLots
<1>11. HitLots(hedger.tradable, Ratio[l], Ratio[1]) = c * Ratio[l] + q /\ q \in Nat
  BY <1>10, HitLotsShift, HitLotsType
<1> HIDE DEF q, x
<1>12. ToHit(s, l) = lots /\ lots \in Int
  <2> DEFINE w == c * Ratio[l]
             h == HitLots(hedger.tradable, Ratio[l], Ratio[1])
  <2>1. ToHit(s, l) = h - traded[s][l]
    BY <1>1 DEF ToHit
  <2>2. w \in Nat /\ h = w + q /\ traded[s][l] + Told(s, l) = w + filled[s][l] /\ q \in Nat
    BY <1>8, <1>9, <1>11
  <2> HIDE DEF w, h, ToHit, Told
  <2> QED
    BY <1>4, <2>1, <2>2
<1>13. /\ InMarket(s, l)' = InMarket(s, l) + IF ToHit(s, l) > 0 THEN ToHit(s, l) ELSE 0
       /\ Halted(s, l)' = Halted(s, l) /\ UNCHANGED filled
  BY <1>1, <1>3, HedgeNumbers
<1> QED
  BY <1>8, <1>9, <1>10, <1>12, <1>13 DEF q, x
-----------------------------------------------------------------------------
(* Hedged, and hedged once.                                                 *)

Crossed(s) == upset[s] \cap {"carried", "overlap", "stopped"} # {}
Covered(s, l) == "carried" \notin upset[s] /\ l \notin owed[s] => HedgedLots(s, l) >= Wanted(s, l)
NotOver(s, l) == ~Crossed(s) => HedgedLots(s, l) <= Wanted(s, l)
NoneStopped(s) == "stopped" \notin upset[s] => \A e \in Range(events) : e.side = s => e.kind # "stopped"
HedgeInv == \A s \in Sides : NoneStopped(s) /\ \A l \in Hedges : Covered(s, l) /\ NotOver(s, l)

LEMMA InitHedge == Init => HedgeInv
<1> SUFFICES ASSUME Init, NEW s \in Sides
             PROVE  NoneStopped(s) /\ \A l \in Hedges : Covered(s, l) /\ NotOver(s, l)
  BY DEF HedgeInv
<1>1. NoneStopped(s)
  BY EmptyQueue DEF Init, NoneStopped
<1>2. ASSUME NEW l \in Hedges PROVE Covered(s, l) /\ NotOver(s, l)
  <2>1. Told(s, 1) = 0 /\ Halted(s, l) = 0
    <3>1. TradesOf(s, 1) = {} /\ {i \in EventsOf(s, "stopped") : events[i].leg = l} = {}
      BY DEF Init, TradesOf, EventsOf
    <3> QED
      BY <3>1, TotalEmpty DEF Told, Halted, LotsOf
  <2>2. InMarket(s, l) = 0
    <3>1. {m \in BagToSet(mkt) : m.side = s /\ m.leg = l} = {}
      BY DEF Init, EmptyBag, SetToBag, BagToSet
    <3> QED
      BY <3>1, TotalEmpty DEF InMarket
  <2>3. filled[s][1] = 0 /\ filled[s][l] = 0 /\ hedger = Idle
    BY LegsAndSides DEF Init, Legs
  <2>4. HedgedLots(s, l) = 0 /\ Unhedged(s, l) = 0
    BY <2>1, <2>2, <2>3 DEF HedgedLots, Halted, Unhedged, Told
  <2>5. Wanted(s, l) = HitLots(0, Ratio[l], Ratio[1])
    BY <2>3, <2>4 DEF Wanted
  <2>6. HitLots(0, Ratio[l], Ratio[1]) = 0
    <3>1. Ratio[1] \in Nat \ {0} /\ Ratio[l] \in Nat /\ 0 \in 0..(2 * MaxLots)
      <4>1. MaxLots \in Nat
        BY LotsAssumption
      <4> QED
        BY <4>1, LegsAndSides
    <3>2. HitLots(0, Ratio[l], Ratio[1]) = (0 * Ratio[l]) \div Ratio[1]
      BY <3>1, LotsAssumption DEF ExactLots
    <3>3. 0 * Ratio[l] = 0 /\ Ratio[1] * 0 = 0
      BY <3>1
    <3>4. 0 \div Ratio[1] = 0
      BY <3>1, <3>3, QuotientIs
    <3> QED
      BY <3>2, <3>3, <3>4
  <2> QED
    BY <2>4, <2>5, <2>6 DEF Covered, NotOver
<1> QED
  BY <1>1, <1>2

LEMMA NoneStoppedStep ==
    ASSUME LegInv, TypeInv, Shapes, [Next]_vars, NEW s \in Sides, NoneStopped(s)
    PROVE  NoneStopped(s)'
<1> SUFFICES ASSUME "stopped" \notin upset'[s], NEW e \in Range(events'), e.side = s
             PROVE  e.kind # "stopped"
  BY DEF NoneStopped
<1>1. \A f \in Range(events) : f.side = s => f.kind # "stopped"
  BY UpsetStays DEF NoneStopped
<1>2. IsSeq(events) /\ upset \in [Sides -> SUBSET Upsets]
  BY DEF LegInv, Typed, TypeInv, HistoryOK
<1>3. CASE events' = events
  BY <1>1, <1>3
<1>4. CASE events # <<>> /\ events' = Tail(events)
  BY <1>1, <1>2, <1>4, TailOfQueue
<1>5. ASSUME NEW f, events' = Append(events, f), f.side = s => f.kind # "stopped" PROVE e.kind # "stopped"
  BY <1>1, <1>2, <1>5, AppendToQueue
<1>6. CASE MarketData \/ Quoter \/ Client \/ UNCHANGED vars
  BY <1>3, <1>6 DEF MarketData, LookNew, LookModify, LookCancel, Begin, Quoter, MarkPending, Quote,
     Requote, Withdraw, Client, Difference, DiffTest, DiffStore, vars, exchangeVars
<1>7. CASE EventHandler
  <2>1. events' = events \/ (events # <<>> /\ events' = Tail(events))
    BY <1>7 DEF EventHandler, ORDER_CONFIRMATION_TR, ORDER_MOD_CONFIRMATION_TR, ORDER_CXL_CONFIRMATION_TR,
       ORDER_ERROR_OUT, ORDER_REJ_OUT, Settle, SelfTradeStopped, HedgeRefused, TradeLoad, TradeStore,
       TradeSize, TradeHedge, HedgeStore, Handles, exchangeVars
  <2> QED
    BY <1>3, <1>4, <2>1
<1>8. CASE Answers
  <2>1. \E f : events' = Append(events, f) /\ f.kind # "stopped"
    BY <1>8 DEF Answers, AcceptNew, RefuseNew, DoModify, DoCancel, RefuseAsk, Answer
  <2> QED
    BY <1>5, <2>1
<1>9. CASE Trading
  <2>1. CASE \E n \in DOMAIN book : StopQuote(n) \/ \E k \in 1..book[n].lots : Fill(n, k)
    <3>1. ASSUME NEW n \in DOMAIN book, StopQuote(n) PROVE e.kind # "stopped"
      <4>1. \E f : events' = Append(events, f) /\ f.kind # "stopped"
        BY <3>1 DEF StopQuote, Answer
      <4> QED
        BY <1>5, <4>1
    <3>2. ASSUME NEW n \in DOMAIN book, NEW k \in 1..book[n].lots, Fill(n, k) PROVE e.kind # "stopped"
      <4>1. \E f : events' = Append(events, f) /\ f.kind # "stopped"
        BY <3>2 DEF Fill, Report, Answer
      <4> QED
        BY <1>5, <4>1
    <3> QED
      BY <2>1, <3>1, <3>2
  <2>2. CASE TradingInMarket
    <3>1. PICK m \in BagToSet(mkt) : StopMarket(m) \/ RefuseMarket(m) \/ \E k \in 1..m.lots : FillMarket(m, k)
      BY <2>2 DEF TradingInMarket
    <3>2. CASE StopMarket(m)
      <4> DEFINE f == [kind |-> "stopped", side |-> m.side, leg |-> m.leg, lots |-> m.volume]
      <4>1. events' = Append(events, f) /\ f.side = m.side
        BY <3>2 DEF StopMarket, Answer
      <4>2. m.side # s
        BY <1>2, <3>2 DEF StopMarket, UpsetIf
      <4> HIDE DEF f
      <4> QED
        BY <1>5, <4>1, <4>2
    <3>3. CASE RefuseMarket(m)
      <4>1. \E f : events' = Append(events, f) /\ f.kind # "stopped"
        BY <3>3 DEF RefuseMarket, Answer
      <4> QED
        BY <1>5, <4>1
    <3>4. ASSUME NEW k \in 1..m.lots, FillMarket(m, k) PROVE e.kind # "stopped"
      <4>1. \E f : events' = Append(events, f) /\ f.kind # "stopped"
        BY <3>4 DEF FillMarket, Report, Answer
      <4> QED
        BY <1>5, <4>1
    <3> QED
      BY <3>1, <3>2, <3>3, <3>4
  <2> QED
    BY <1>9, <2>1, <2>2 DEF Trading, TradingInMarket
<1> QED
  BY <1>6, <1>7, <1>8, <1>9 DEF Next

LEMMA HedgeStep ==
    ASSUME LegInv, LotsInv, LegInv', LotsInv', Shapes, CountInv, HedgeInv, [Next]_vars,
           NEW s \in Sides, NEW l \in Hedges
    PROVE  Covered(s, l)' /\ NotOver(s, l)'
<1>1. /\ TypeInv /\ TypeInv' /\ Bounded /\ Bounded' /\ NumbersOK /\ NumbersOK'
      /\ NoneStopped(s) /\ Covered(s, l) /\ NotOver(s, l) /\ CountsOnce(s) /\ l \in Legs /\ 1 \in Legs
  BY AllNumbersTyped, NextNumbersTyped, LegsAndSides DEF LotsInv, HedgeInv, CountInv
<1>2. /\ filled[s][l] \in Nat /\ InMarket(s, l) \in Nat /\ Halted(s, l) \in Nat /\ Told(s, l) \in Nat
      /\ InMarket(s, l)' \in Nat /\ Halted(s, l)' \in Nat /\ filled'[s][l] \in Nat
  BY <1>1 DEF NumbersOK
<1>3. /\ HedgedLots(s, l) = filled[s][l] + InMarket(s, l) + Halted(s, l)
      /\ HedgedLots(s, l)' = filled'[s][l] + InMarket(s, l)' + Halted(s, l)'
  BY DEF HedgedLots, Halted
<1>4. /\ Wanted(s, l) = HitLots(Met(s, l), Ratio[l], Ratio[1])
      /\ Wanted(s, l)' = HitLots(Met(s, l)', Ratio[l], Ratio[1])
      /\ Met(s, l) \in 0..(2 * MaxLots) /\ filled[s][1] - Told(s, 1) \in 0..(2 * MaxLots)
      /\ Met(s, l) <= filled[s][1] - Told(s, 1)
  <2>1. (LegInv /\ TypeInv /\ Bounded => Wanted(s, l) = HitLots(Met(s, l), Ratio[l], Ratio[1]))'
    BY MetType, PTL
  <2> QED
    BY <1>1, <2>1, MetType
<1>5. ~Crossed(s)' => ~Crossed(s)
  BY UpsetStays DEF Crossed
<1>6. "carried" \in upset[s] => "carried" \in upset'[s]
  BY UpsetStays
<1>7. CASE ~HedgesLeg(s, l)
  <2>1. Met(s, l)' = Met(s, l)
    BY <1>1, <1>7, MetStays
  <2>2. Wanted(s, l)' = Wanted(s, l)
    BY <1>4, <2>1
  <2>3. Wanted(s, l) \in Int /\ HedgedLots(s, l) \in Int /\ HedgedLots(s, l)' \in Int
    BY <1>2, <1>3, <1>4, HitLotsType
  <2>4. /\ HedgedLots(s, l)' >= HedgedLots(s, l) \/ l \in owed'[s]
        /\ HedgedLots(s, l)' <= HedgedLots(s, l) \/ "stopped" \in upset'[s]
        /\ l \in owed[s] => l \in owed'[s]
    BY <1>1, <1>7, HedgedStays
  <2>5. Covered(s, l)'
    BY <1>1, <1>6, <2>2, <2>3, <2>4 DEF Covered
  <2>6. NotOver(s, l)'
    BY <1>1, <1>5, <2>2, <2>3, <2>4 DEF NotOver, Crossed
  <2> QED
    BY <2>5, <2>6
<1>8. CASE HedgesLeg(s, l)
  <2> DEFINE x == filled[s][1] - Told(s, 1)
             q == HitLots(x, Ratio[l], Ratio[1])
             lots == q - filled[s][l] + Told(s, l)
  <2>1. Wanted(s, l)' = q /\ q \in Nat
    <3>1. Met(s, l)' = x
      BY <1>1, <1>8, MetStays
    <3> QED
      BY <1>4, <3>1, HitLotsType
  <2>2. "carried" \notin upset'[s] =>
            /\ lots \in Int /\ UNCHANGED filled /\ Halted(s, l)' = Halted(s, l)
            /\ InMarket(s, l)' = InMarket(s, l) + IF lots > 0 THEN lots ELSE 0
    <3>1. SUFFICES ASSUME "carried" \notin upset'[s]
                   PROVE  /\ lots \in Int /\ UNCHANGED filled /\ Halted(s, l)' = Halted(s, l)
                          /\ InMarket(s, l)' = InMarket(s, l) + IF lots > 0 THEN lots ELSE 0
      OBVIOUS
    <3>2. PICK c \in Nat : Counted(s, c)
      BY <1>1, <1>6, <3>1 DEF CountsOnce
    <3> QED
      BY <1>1, <1>8, <3>2, HedgeFills
  <2> HIDE DEF x, q
  <2>3. Covered(s, l)'
    <3> SUFFICES ASSUME "carried" \notin upset'[s] PROVE HedgedLots(s, l)' >= Wanted(s, l)'
      BY DEF Covered
    <3> HIDE DEF Halted, InMarket, Told
    <3> QED
      BY <1>2, <1>3, <2>1, <2>2
  <2>4. NotOver(s, l)'
    <3> SUFFICES ASSUME ~Crossed(s)' PROVE HedgedLots(s, l)' <= Wanted(s, l)'
      BY DEF NotOver
    <3>1. "carried" \notin upset'[s] /\ "overlap" \notin upset'[s] /\ "stopped" \notin upset'[s] /\ ~Crossed(s)
      BY <1>5 DEF Crossed
    <3>2. InMarket(s, l) = 0 /\ TradesOf(s, l) = {}
      <4>1. ~(InMarket(s, l) > 0 \/ TradesOf(s, l) # {})
        BY <1>1, <1>8, <3>1 DEF HedgesLeg, TradeHedge, UpsetIf, TypeInv, HistoryOK
      <4> QED
        BY <1>2, <4>1
    <3>3. Told(s, l) = 0
      BY <3>2, TotalEmpty DEF Told, LotsOf
    <3>4. Halted(s, l) = 0
      <4>1. "stopped" \notin upset[s]
        BY <3>1 DEF Crossed
      <4>2. {i \in EventsOf(s, "stopped") : events[i].leg = l} = {}
        BY <1>1, <4>1 DEF NoneStopped, EventsOf, Range
      <4> QED
        BY <4>2, TotalEmpty DEF Halted, LotsOf
    <3>5. filled[s][l] <= q
      <4>1. HedgedLots(s, l) <= Wanted(s, l)
        BY <1>1, <3>1 DEF NotOver
      <4>2. Wanted(s, l) <= q /\ Wanted(s, l) \in Nat
        BY <1>4, HitLotsMono, HitLotsType DEF q, x
      <4>3. HedgedLots(s, l) = filled[s][l]
        BY <1>2, <1>3, <3>2, <3>4
      <4> QED
        BY <1>2, <2>1, <4>1, <4>2, <4>3
    <3> HIDE DEF Halted, InMarket, Told
    <3> QED
      BY <1>2, <1>3, <2>1, <2>2, <3>1, <3>2, <3>3, <3>4, <3>5
  <2> QED
    BY <2>3, <2>4
<1> QED
  BY <1>7, <1>8

\* What the hedges of a side cover, and that they cover it once, as long as nothing has crossed.
THEOREM HedgeInvariant == Spec => []HedgeInv
<1>1. LegInv /\ LotsInv /\ LegInv' /\ LotsInv' /\ Shapes /\ CountInv /\ HedgeInv /\ [Next]_vars => HedgeInv'
  <2> SUFFICES ASSUME LegInv, LotsInv, LegInv', LotsInv', Shapes, CountInv, HedgeInv, [Next]_vars
               PROVE  HedgeInv'
    OBVIOUS
  <2>1. \A s \in Sides : NoneStopped(s)'
    BY NoneStoppedStep DEF HedgeInv, LotsInv
  <2>2. \A s \in Sides, l \in Hedges : Covered(s, l)' /\ NotOver(s, l)'
    BY HedgeStep
  <2> QED
    BY <2>1, <2>2 DEF HedgeInv
<1> QED
  BY <1>1, InitHedge, LegInvariant, LotsInvariant, OneOrderInvariant, CountsInvariant, PTL
     DEF Spec, OneOrderInv

\* The fills of the first leg that were processed are covered in every other leg, through partial
\* fills, stops, refusals and overlapping rounds (TRADE_CONFIRMATION_TR).
THEOREM FillsAreCovered == Spec => []HedgeCovers
<1>1. HedgeInv => HedgeCovers
  BY DEF HedgeInv, HedgeCovers, Covered
<1> QED
  BY <1>1, HedgeInvariant, PTL

\* They are covered once, while no fill overlaps an unconfirmed hedge and none is stopped.
THEOREM FillsAreCoveredOnce == Spec => []HedgedOnce
<1>1. HedgeInv => HedgedOnce
  BY DEF HedgeInv, HedgedOnce, NotOver, Crossed
<1> QED
  BY <1>1, HedgeInvariant, PTL

-----------------------------------------------------------------------------
(* What an order may add to what has traded.                                *)

Limited(s) == upset[s] \cap {"hasty", "carried", "limits"} = {}
\* What has traded of the first leg, counted or not.
Sent(s) == traded[s][1] + Told(s, 1) + InHand(s, 1)
\* A quote is decided below the largest lots, and an order does not pass them.
DecidedBelow(s) == Deciding(s) => limits[s].min > 0 /\ traded[s][1] < limits[s].max
WorksWithin(s) ==
    \A n \in DOMAIN book : WorksFor(s, n) => Sent(s) + book[n].lots <= limits[s].max + book[n].given
QueuedWithin(s) ==
    \A r \in Range(bid) :
        r.side = s /\ r.kind = "new" => r.lots \in Nat \ {0} /\ Sent(s) + r.lots <= limits[s].max
Allowed(s) == DecidedBelow(s) /\ WorksWithin(s) /\ QueuedWithin(s)

LimitInv == \A s \in Sides : Limited(s) => Allowed(s)

LEMMA NothingToAllow ==
    ASSUME NEW s, ~Deciding(s), ~Queued(s), Gone(s)
    PROVE  Allowed(s)
  BY DEF Allowed, DecidedBelow, WorksWithin, QueuedWithin, Queued, Gone

LEMMA SentType ==
    ASSUME NumbersOK, NEW s \in Sides
    PROVE  Sent(s) \in Nat
<1>1. traded[s][1] \in Nat /\ Told(s, 1) \in Nat /\ InHand(s, 1) \in Nat
  BY LegsAndSides DEF NumbersOK
<1> QED
  BY <1>1 DEF Sent

\* Orders that only become fewer or smaller stay allowed.
LEMMA AllowedStays ==
    ASSUME NEW s \in Sides, Allowed(s), TypeInv, TypeInv', NumbersOK,
           Sent(s)' = Sent(s), limits'[s] = limits[s],
           Deciding(s)' => Deciding(s) /\ traded'[s][1] = traded[s][1],
           \A n : WorksFor(s, n)' =>
             WorksFor(s, n) /\ book'[n].lots <= book[n].lots /\ book'[n].given = book[n].given,
           Queued(s)' => \A r \in Range(bid') : r.side = s /\ r.kind = "new" => r \in Range(bid)
    PROVE  Allowed(s)'
<1>1. Sent(s) \in Nat /\ limits[s].max \in Nat
  BY SentType DEF TypeInv, StrategyOK
<1>2. DecidedBelow(s)'
  BY DEF Allowed, DecidedBelow
<1>3. WorksWithin(s)'
  <2> SUFFICES ASSUME NEW n \in DOMAIN book', WorksFor(s, n)'
                       PROVE  Sent(s)' + book'[n].lots <= limits'[s].max + book'[n].given
    BY DEF WorksWithin
  <2>1. WorksFor(s, n) /\ book'[n].lots <= book[n].lots /\ book'[n].given = book[n].given
    OBVIOUS
  <2>2. /\ Sent(s) + book[n].lots <= limits[s].max + book[n].given
        /\ book[n].lots \in Nat /\ book[n].given \in Nat
    BY <2>1 DEF Allowed, WorksWithin, WorksFor, TypeInv, BookOK
  <2>3. book'[n].lots \in Nat
    BY DEF TypeInv, BookOK
  <2> HIDE DEF Sent
  <2> QED
    BY <1>1, <2>1, <2>2, <2>3
<1>4. QueuedWithin(s)'
  BY DEF Allowed, QueuedWithin, Queued
<1> QED
  BY <1>2, <1>3, <1>4 DEF Allowed

\* What a side has sent follows from what it counted and was told.
LEMMA SentStays ==
    ASSUME NEW s, traded'[s][1] = traded[s][1], Told(s, 1)' = Told(s, 1), UNCHANGED hedger
    PROVE  Sent(s)' = Sent(s)
  BY DEF Sent, InHand

LEMMA InitLimits == Init => LimitInv
<1> SUFFICES ASSUME Init, NEW s \in Sides PROVE Allowed(s)
  BY DEF LimitInv
<1>1. quoter = Idle /\ DOMAIN book = {} /\ Range(bid) = {}
  BY EmptyQueue DEF Init
<1>2. ~Deciding(s) /\ ~Queued(s) /\ Gone(s)
  BY <1>1 DEF Deciding, QuoterOn, Queued, Gone
<1> QED
  BY <1>2, NothingToAllow

-----------------------------------------------------------------------------
(* The data thread.                                                         *)

LEMMA MarketDataAllowed ==
    ASSUME LegInv, TypeInv, TypeInv', NEW s \in Sides, Allowed(s), NumbersOK, Quiet, MarketData
    PROVE  Allowed(s)'
<1>1. UNCHANGED <<traded, limits, bid, book, hedger>> /\ Told(s, 1)' = Told(s, 1)
  <2>1. UNCHANGED <<limits, bid, book>>
    BY DEF MarketData, LookNew, LookModify, LookCancel, Begin, strategyVars, exchangeVars
  <2> QED
    BY <2>1, LegsAndSides DEF Quiet
<1>2. Sent(s)' = Sent(s)
  BY <1>1, SentStays
<1>3. DecidedBelow(s)'
  <2>1. ASSUME NEW t \in Sides, NEW r, LookNew(t, r), Deciding(s)'
        PROVE  limits'[s].min > 0 /\ traded'[s][1] < limits'[s].max
    <3>1. quoter' = [act |-> "new", side |-> t, rate |-> r, marked |-> FALSE]
      BY <2>1 DEF LookNew, Begin
    <3>2. s = t
      BY <2>1, <3>1 DEF Deciding, QuoterOn
    <3> QED
      BY <1>1, <2>1, <3>2 DEF LookNew
  <2>2. ASSUME NEW t \in Sides, NEW r, LookModify(t, r) \/ LookCancel(t) PROVE ~Deciding(s)'
    <3>1. quoter'.act # "new"
      BY <2>2 DEF LookModify, LookCancel, Begin
    <3> QED
      BY <3>1 DEF Deciding
  <2> QED
    BY <2>1, <2>2 DEF MarketData, DecidedBelow
<1>4. WorksWithin(s)' /\ QueuedWithin(s)'
  BY <1>1, <1>2 DEF Allowed, WorksWithin, QueuedWithin, WorksFor
<1> QED
  BY <1>3, <1>4 DEF Allowed

LEMMA QuoteLotsWithin ==
    ASSUME TypeInv, NEW s \in Sides, limits[s].min > 0, traded[s][1] < limits[s].max
    PROVE  QuoteLots(s) \in Nat \ {0} /\ traded[s][1] + QuoteLots(s) <= limits[s].max
<1>1. limits[s].min \in Nat /\ limits[s].max \in Nat /\ traded[s][1] \in Nat
  BY LegsAndSides DEF TypeInv, StrategyOK
<1> QED
  BY <1>1 DEF QuoteLots, Smaller

LEMMA QuoterAllowed ==
    ASSUME LegInv, TypeInv, TypeInv', NEW s \in Sides, Allowed(s), SideInv(s), NumbersOK, Quiet, Quoter
    PROVE  Allowed(s)'
<1>1. UNCHANGED <<traded, limits, book, hedger>> /\ Told(s, 1)' = Told(s, 1)
  <2>1. UNCHANGED <<limits, book>>
    BY DEF Quoter, MarkPending, Quote, Requote, Withdraw, strategyVars, exchangeVars
  <2> QED
    BY <2>1, LegsAndSides DEF Quiet
<1>2. Sent(s)' = Sent(s)
  BY <1>1, SentStays
<1>3. WorksWithin(s)'
  BY <1>1, <1>2 DEF Allowed, WorksWithin, WorksFor
<1>4. IsSeq(bid)
  BY DEF LegInv, Typed
<1>5. CASE MarkPending
  <2>1. UNCHANGED bid /\ quoter # Idle /\ quoter' = [quoter EXCEPT !.marked = TRUE]
    BY <1>5 DEF MarkPending, exchangeVars
  <2>2. Deciding(s)' => Deciding(s)
    BY <2>1 DEF Deciding, QuoterOn, LegInv, Typed, QuoterTyped
  <2>3. DecidedBelow(s)'
    BY <1>1, <2>2 DEF Allowed, DecidedBelow
  <2>4. QueuedWithin(s)'
    BY <1>1, <1>2, <2>1 DEF Allowed, QueuedWithin
  <2> QED
    BY <1>3, <2>3, <2>4 DEF Allowed
<1>6. CASE Quote
  <2> DEFINE r == [kind |-> "new", side |-> quoter.side, lots |-> QuoteLots(quoter.side)]
  <2>1. bid' = Append(bid, r) /\ quoter' = Idle /\ Marked("new")
    BY <1>6 DEF Quote
  <2>2. r.side = quoter.side /\ r.lots = QuoteLots(quoter.side)
    OBVIOUS
  <2> HIDE DEF r
  <2>3. ASSUME r.side = s PROVE r.lots \in Nat \ {0} /\ Sent(s) + r.lots <= limits[s].max
    <3>1. Deciding(s)
      BY <2>1, <2>2, <2>3 DEF Marked, Deciding, QuoterOn
    <3>2. limits[s].min > 0 /\ traded[s][1] < limits[s].max
      BY <3>1 DEF Allowed, DecidedBelow
    <3>3. Silent(s) /\ ~InTrade(s)
      BY <3>1 DEF SideInv, DecidesWhenOver, Over
    <3>4. Told(s, 1) = 0
      <4>1. TradesOf(s, 1) = {}
        BY <3>3 DEF Silent, FirstLeg, TradesOf, EventsOf, Range
      <4> QED
        BY <4>1, TotalEmpty DEF Told, LotsOf
    <3>5. InHand(s, 1) = 0
      BY <3>3 DEF InHand, InTrade
    <3>6. traded[s][1] \in Nat
      BY LegsAndSides DEF NumbersOK
    <3>7. Sent(s) = traded[s][1]
      BY <3>4, <3>5, <3>6 DEF Sent
    <3> QED
      BY <2>2, <2>3, <3>2, <3>7, QuoteLotsWithin
  <2>4. Range(bid') = Range(bid) \cup {r}
    BY <1>4, <2>1, AppendToQueue
  <2>5. QueuedWithin(s)'
    BY <1>1, <1>2, <2>3, <2>4 DEF Allowed, QueuedWithin
  <2>6. DecidedBelow(s)'
    BY <2>1 DEF DecidedBelow, Deciding, QuoterOn
  <2> QED
    BY <1>3, <2>5, <2>6 DEF Allowed
<1>7. CASE Requote \/ Withdraw
  <2>1. quoter' = Idle /\ \A q \in Range(bid') : q \in Range(bid) \/ q.kind # "new"
    <3>1. ASSUME NEW q, q.kind # "new", bid' = Append(bid, q)
          PROVE  \A x \in Range(bid') : x \in Range(bid) \/ x.kind # "new"
      BY <1>4, <3>1, AppendToQueue
    <3>2. CASE Requote
      BY <3>1, <3>2 DEF Requote
    <3>3. CASE Withdraw
      BY <3>1, <3>3 DEF Withdraw
    <3> QED
      BY <1>7, <3>2, <3>3 DEF Requote, Withdraw
  <2>2. QueuedWithin(s)'
    BY <1>1, <1>2, <2>1 DEF Allowed, QueuedWithin
  <2>3. DecidedBelow(s)'
    BY <2>1 DEF DecidedBelow, Deciding, QuoterOn
  <2> QED
    BY <1>3, <2>2, <2>3 DEF Allowed
<1> QED
  BY <1>5, <1>6, <1>7 DEF Quoter

-----------------------------------------------------------------------------
(* The event thread and the client thread.                                  *)

LEMMA EventHandlerAllowed ==
    ASSUME LegInv, TypeInv, LegInv', TypeInv', Bounded, Shapes, NEW s \in Sides, Allowed(s), SideInv(s),
           Registered(s), EventHandler
    PROVE  Allowed(s)'
<1>1. NumbersOK /\ NumbersOK' /\ 1 \in Legs
  BY AllNumbersTyped, NextNumbersTyped, LegsAndSides
<1>2. UNCHANGED <<limits, quoter, bid, book>>
  BY DEF EventHandler, ORDER_CONFIRMATION_TR, ORDER_MOD_CONFIRMATION_TR, ORDER_CXL_CONFIRMATION_TR,
     ORDER_ERROR_OUT, ORDER_REJ_OUT, Settle, SelfTradeStopped, HedgeRefused, TradeLoad, TradeStore,
     TradeSize, TradeHedge, HedgeStore, strategyVars, threadVars, exchangeVars
<1>3. Sent(s)' = Sent(s)
  <2>1. CASE SettlingHandler
    <3>1. Quiet
      BY <2>1, QuietStep DEF QuietNext
    <3> QED
      BY <1>1, <3>1, SentStays DEF Quiet
  <2>2. CASE SelfTradeStopped \/ TradeLoad \/ TradeStore \/ TradeSize \/ TradeHedge \/ HedgeStore
    <3>1. traded'[s][1] + Told(s, 1)' + InHand(s, 1)' + filled[s][1]
          = traded[s][1] + Told(s, 1) + InHand(s, 1) + filled'[s][1]
      BY <1>1, <2>2, TradeBalance
    <3>2. UNCHANGED filled
      BY <2>2 DEF SelfTradeStopped, TradeLoad, TradeStore, TradeSize, TradeHedge, HedgeStore, historyVars
    <3>3. /\ traded[s][1] \in Nat /\ Told(s, 1) \in Nat /\ InHand(s, 1) \in Nat /\ filled[s][1] \in Nat
          /\ traded'[s][1] \in Nat /\ Told(s, 1)' \in Nat /\ InHand(s, 1)' \in Nat
      BY <1>1 DEF NumbersOK
    <3> HIDE DEF Told, InHand
    <3> QED
      BY <3>1, <3>2, <3>3 DEF Sent
  <2> QED
    BY <2>1, <2>2 DEF EventHandler, SettlingHandler
<1>4. ASSUME Deciding(s) PROVE traded'[s][1] = traded[s][1]
  <2>1. ~InTrade(s)
    BY <1>4 DEF SideInv, DecidesWhenOver
  <2>2. CASE TradeStore \/ HedgeStore
    <3>1. traded' = Stored /\ hedger # Idle /\ hedger.act = "store"
      BY <2>2 DEF TradeStore, HedgeStore, Storing
    <3>2. hedger.side # s \/ hedger.leg # 1
      BY <2>1, <3>1 DEF InTrade
    <3>3. traded \in [Sides -> [Legs -> Nat]] /\ hedger.side \in Sides /\ hedger.leg \in Legs
      BY <3>1, HedgerShape DEF TypeInv, StrategyOK
    <3> QED
      BY <1>1, <3>1, <3>2, <3>3 DEF Stored
  <2>3. CASE UNCHANGED traded
    BY <2>3
  <2> QED
    BY <2>2, <2>3 DEF EventHandler, ORDER_CONFIRMATION_TR, ORDER_MOD_CONFIRMATION_TR,
       ORDER_CXL_CONFIRMATION_TR, ORDER_ERROR_OUT, ORDER_REJ_OUT, Settle, SelfTradeStopped, HedgeRefused,
       TradeLoad, TradeSize, TradeHedge, strategyVars
<1>5. /\ Deciding(s)' => Deciding(s)
      /\ \A n : WorksFor(s, n)' => WorksFor(s, n) /\ book'[n] = book[n]
  BY <1>2 DEF Deciding, QuoterOn, WorksFor
<1>6. \A n : WorksFor(s, n) => book[n].lots \in Nat
  BY DEF WorksFor, TypeInv, BookOK
<1> QED
  BY <1>1, <1>2, <1>3, <1>4, <1>5, <1>6, AllowedStays

\* A request that changes limits or counters leaves a side alone that it does not upset.
LEMMA ClientAllowed ==
    ASSUME LegInv, TypeInv, TypeInv', Shapes, NEW s \in Sides, Allowed(s), Limited(s)', NumbersOK, Client
    PROVE  Allowed(s)'
<1>1. UNCHANGED <<quoter, bid, book, hedger, events>>
  BY DEF Client, Difference, DiffTest, DiffStore, strategyVars, exchangeVars
<1>2. upset \in [Sides -> SUBSET Upsets] /\ traded \in [Sides -> [Legs -> Nat]]
  BY DEF TypeInv, HistoryOK, StrategyOK
<1>3. CASE AtRest(s)
  <2>1. ~Deciding(s) /\ ~Queued(s) /\ Gone(s)
    BY <1>3, AtRestIsOver
  <2>2. (~Deciding(s) /\ ~Queued(s) /\ Gone(s))'
    BY <1>1, <2>1 DEF Deciding, QuoterOn, Queued, Gone, WorksFor
  <2>3. ~Deciding(s) /\ ~Queued(s) /\ Gone(s) => Allowed(s)
    BY NothingToAllow
  <2>4. (~Deciding(s) /\ ~Queued(s) /\ Gone(s) => Allowed(s))'
    BY NothingToAllow, PTL
  <2> QED
    BY <2>2, <2>4
<1>4. CASE limits'[s] = limits[s] /\ traded'[s] = traded[s]
  <2>1. Told(s, 1)' = Told(s, 1)
    BY <1>1, ToldStays
  <2>2. Sent(s)' = Sent(s)
    BY <1>1, <1>4, <2>1, SentStays
  <2> QED
    BY <1>1, <1>4, <2>2 DEF Allowed, DecidedBelow, WorksWithin, QueuedWithin, WorksFor, Deciding, QuoterOn
<1>5. CASE \E req \in Requests : Difference(req)
  <2>1. AtRest(s) \/ "limits" \in upset'[s]
    BY <1>5 DEF Difference
  <2> QED
    BY <1>3, <2>1 DEF Limited
<1>6. CASE DiffTest
  BY <1>4, <1>6 DEF DiffTest, strategyVars
<1>7. CASE DiffStore
  <2>1. limits' = limits /\ traded' = [traded EXCEPT ![client.side][client.leg] =
                                         client.req[client.side].carried * Ratio[client.leg]]
    BY <1>7 DEF DiffStore
  <2>2. CASE client.side # s
    BY <1>2, <1>4, <2>1, <2>2
  <2>3. CASE client.side = s
    <3>1. AtRest(s) \/ "carried" \in upset'[s]
      BY <1>2, <1>7, <2>3 DEF DiffStore, UpsetIf
    <3> QED
      BY <1>3, <3>1 DEF Limited
  <2> QED
    BY <2>2, <2>3
<1> QED
  BY <1>5, <1>6, <1>7 DEF Client

-----------------------------------------------------------------------------
(* The exchange.                                                            *)

LEMMA AnswersAllowed ==
    ASSUME LegInv, TypeInv, LegInv', TypeInv', Shapes, NEW s \in Sides, Allowed(s), NumbersOK, Quiet, Answers
    PROVE  Allowed(s)'
<1> DEFINE r == Head(bid)
<1>1. /\ bid # <<>> /\ bid' = Tail(bid)
      /\ UNCHANGED <<traded, limits, quoter, hedger>> /\ Told(s, 1)' = Told(s, 1)
  <2>1. bid # <<>> /\ bid' = Tail(bid) /\ UNCHANGED <<limits, quoter>>
    BY DEF Answers, AcceptNew, RefuseNew, DoModify, DoCancel, RefuseAsk, strategyVars, threadVars
  <2> QED
    BY <2>1, LegsAndSides DEF Quiet
<1>2. Sent(s)' = Sent(s)
  BY <1>1, SentStays
<1>3. Range(bid) = Range(bid') \cup {r}
  BY <1>1, TailOfQueue DEF LegInv, Typed
<1>4. DecidedBelow(s)'
  BY <1>1 DEF Allowed, DecidedBelow, Deciding, QuoterOn
<1>5. QueuedWithin(s)'
  BY <1>1, <1>2, <1>3 DEF Allowed, QueuedWithin
<1>6. CASE AcceptNew
  <2>1. PICK n : /\ r.kind = "new" /\ DOMAIN book' = DOMAIN book \cup {n}
                 /\ book'[n] = [side |-> r.side, lots |-> r.lots, given |-> 0]
                 /\ \A k \in DOMAIN book : k # n => book'[k] = book[k]
    BY <1>6 DEF AcceptNew
  <2> HIDE DEF r
  <2>2. ASSUME WorksFor(s, n)' PROVE Sent(s) + book'[n].lots <= limits[s].max + book'[n].given
    <3>1. r.side = s
      BY <2>1, <2>2 DEF WorksFor
    <3>2. Sent(s) + r.lots <= limits[s].max
      BY <1>3, <2>1, <3>1 DEF Allowed, QueuedWithin
    <3>3. book'[n].lots = r.lots /\ book'[n].given = 0 /\ limits[s].max \in Nat
      BY <2>1 DEF TypeInv, StrategyOK
    <3> HIDE DEF Sent
    <3> QED
      BY <3>2, <3>3
  <2>3. ASSUME NEW k \in DOMAIN book, k # n, WorksFor(s, k)'
        PROVE  Sent(s) + book'[k].lots <= limits[s].max + book'[k].given
    <3>1. book'[k] = book[k] /\ WorksFor(s, k)
      BY <2>1, <2>3 DEF WorksFor
    <3> QED
      BY <3>1 DEF Allowed, WorksWithin
  <2>4. WorksWithin(s)'
    BY <1>1, <1>2, <2>1, <2>2, <2>3 DEF WorksWithin
  <2> QED
    BY <1>4, <1>5, <2>4 DEF Allowed
<1>7. CASE RefuseNew \/ RefuseAsk
  <2>1. UNCHANGED book
    BY <1>7 DEF RefuseNew, RefuseAsk
  <2>2. WorksWithin(s)'
    BY <1>1, <1>2, <2>1 DEF Allowed, WorksWithin, WorksFor
  <2> QED
    BY <1>4, <1>5, <2>2 DEF Allowed
\* What a modify gives back is counted as given.
<1>9. CASE DoModify
  <2> DEFINE n == r.number
  <2>1. /\ n \in DOMAIN book /\ DOMAIN book' = DOMAIN book
        /\ \A k \in DOMAIN book : k # n => book'[k] = book[k]
        /\ book'[n].given = book[n].given + Excess(book'[n].lots, book[n].lots)
        /\ \A k : WorksFor(s, k)' <=> WorksFor(s, k)
    BY <1>9, ModifiedBook, ModifiedWorks DEF Shapes
  <2> HIDE DEF r, n
  <2>2. ASSUME NEW k \in DOMAIN book, WorksFor(s, k)
        PROVE  Sent(s) + book'[k].lots <= limits[s].max + book'[k].given
    <3>1. Sent(s) + book[k].lots <= limits[s].max + book[k].given
      BY <2>2 DEF Allowed, WorksWithin
    <3>2. CASE k # n
      BY <2>1, <3>1, <3>2
    <3>3. CASE k = n
      <4>1. /\ book[n].lots \in Nat /\ book[n].given \in Nat /\ book'[n].lots \in Nat
            /\ Sent(s) \in Nat /\ limits[s].max \in Nat
        BY <2>1, SentType DEF TypeInv, BookOK, StrategyOK
      <4>2. book'[n].given - book[n].given >= book'[n].lots - book[n].lots /\ book'[n].given \in Nat
        BY <2>1, <4>1 DEF Excess
      <4> HIDE DEF Sent
      <4> QED
        BY <3>1, <3>3, <4>1, <4>2
    <3> QED
      BY <3>2, <3>3
  <2>3. WorksWithin(s)'
    BY <1>1, <1>2, <2>1, <2>2 DEF WorksWithin
  <2> QED
    BY <1>4, <1>5, <2>3 DEF Allowed
<1>8. CASE DoCancel
  <2>1. r.number \in DOMAIN book /\ book' = [book EXCEPT ![r.number].lots = 0]
    BY <1>8 DEF DoCancel, Works
  <2> HIDE DEF r
  <2>2. \A k : WorksFor(s, k)' => WorksFor(s, k) /\ book'[k] = book[k]
    BY <2>1 DEF WorksFor, TypeInv, BookOK
  <2>3. WorksWithin(s)'
    BY <1>1, <1>2, <2>1, <2>2 DEF Allowed, WorksWithin
  <2> QED
    BY <1>4, <1>5, <2>3 DEF Allowed
<1> QED
  BY <1>6, <1>7, <1>8, <1>9 DEF Answers

LEMMA StopQuoteAllowed ==
    ASSUME LegInv, TypeInv, TypeInv', NEW s \in Sides, Allowed(s), NumbersOK, Quiet,
           NEW n \in DOMAIN book, StopQuote(n)
    PROVE  Allowed(s)'
<1>1. UNCHANGED <<traded, limits, quoter, hedger, bid>> /\ Told(s, 1)' = Told(s, 1)
  <2>1. UNCHANGED <<limits, quoter, bid>>
    BY DEF StopQuote, strategyVars, threadVars
  <2> QED
    BY <2>1, LegsAndSides DEF Quiet
<1>2. Sent(s)' = Sent(s)
  BY <1>1, SentStays
<1>3. book' = [book EXCEPT ![n].lots = 0]
  BY DEF StopQuote
<1>4. \A k : WorksFor(s, k)' => WorksFor(s, k) /\ book'[k] = book[k]
  BY <1>3 DEF WorksFor, TypeInv, BookOK
<1>5. WorksWithin(s)'
  BY <1>1, <1>2, <1>3, <1>4 DEF Allowed, WorksWithin
<1>6. DecidedBelow(s)' /\ QueuedWithin(s)'
  BY <1>1, <1>2 DEF Allowed, DecidedBelow, QueuedWithin, Deciding, QuoterOn
<1> QED
  BY <1>5, <1>6 DEF Allowed

\* What an order trades is no longer to trade.
LEMMA FillAllowed ==
    ASSUME LegInv, TypeInv, LegInv', TypeInv', NEW s \in Sides, Allowed(s), SideInv(s),
           NEW n \in DOMAIN book, NEW k \in 1..book[n].lots, Fill(n, k)
    PROVE  Allowed(s)'
<1>1. NumbersOK /\ 1 \in Legs
  BY AllNumbersTyped, LegsAndSides
<1>2. /\ Told(s, 1)' = Told(s, 1) + (IF s = book[n].side THEN k ELSE 0)
      /\ UNCHANGED <<traded, hedger>> /\ k \in Nat /\ k > 0
  BY <1>1, FillNumbers
<1>3. UNCHANGED <<limits, quoter, bid>> /\ book' = [book EXCEPT ![n].lots = @ - k] /\ Works(n)
  BY DEF Fill, strategyVars, threadVars
<1>4. DecidedBelow(s)'
  BY <1>2, <1>3 DEF Allowed, DecidedBelow, Deciding, QuoterOn
<1>5. CASE s # book[n].side
  <2>1. Told(s, 1)' = Told(s, 1)
    BY <1>1, <1>2, <1>5 DEF NumbersOK
  <2>2. Sent(s)' = Sent(s)
    BY <1>2, <2>1, SentStays
  <2>3. \A m : WorksFor(s, m)' => WorksFor(s, m) /\ book'[m] = book[m]
    BY <1>3, <1>5 DEF WorksFor, TypeInv, BookOK
  <2>4. WorksWithin(s)'
    BY <1>3, <2>2, <2>3 DEF Allowed, WorksWithin
  <2>5. QueuedWithin(s)'
    BY <1>3, <2>2 DEF Allowed, QueuedWithin
  <2> QED
    BY <1>4, <2>4, <2>5 DEF Allowed
<1>6. CASE s = book[n].side
  <2>1. WorksFor(s, n) /\ book[n].lots \in Nat
    BY <1>3, <1>6 DEF WorksFor, Works, TypeInv, BookOK
  <2>2. Sent(s) \in Nat /\ Sent(s) + book[n].lots <= limits[s].max + book[n].given
    BY <1>1, <2>1, SentType DEF Allowed, WorksWithin, WorksFor
  <2>3. Sent(s)' = Sent(s) + k
    <3>1. InHand(s, 1)' = InHand(s, 1)
      BY <1>2 DEF InHand
    <3>2. traded[s][1] \in Nat /\ Told(s, 1) \in Nat /\ InHand(s, 1) \in Nat
      BY <1>1 DEF NumbersOK
    <3> HIDE DEF Told, InHand
    <3> QED
      BY <1>2, <1>6, <3>1, <3>2 DEF Sent
  <2>4. book'[n].lots = book[n].lots - k /\ book'[n].given = book[n].given
    BY <1>3, <2>1 DEF TypeInv, BookOK
  <2>5. ASSUME NEW m, WorksFor(s, m)' PROVE m = n
    <3>1. m # n => WorksFor(s, m)
      BY <1>3, <2>5 DEF WorksFor
    <3> QED
      BY <2>1, <3>1 DEF SideInv, OneOrder, WorksFor
  <2>6. Sent(s)' + book'[n].lots <= limits'[s].max + book'[n].given
    <3> HIDE DEF Sent
    <3> QED
      BY <1>2, <1>3, <2>1, <2>2, <2>3, <2>4
  <2>7. WorksWithin(s)'
    BY <2>5, <2>6 DEF WorksWithin
  <2>8. ~Queued(s)
    BY <2>1 DEF SideInv, QueuedIsNext, Gone, WorksFor
  <2>9. QueuedWithin(s)'
    BY <1>3, <2>8 DEF QueuedWithin, Queued
  <2> QED
    BY <1>4, <2>7, <2>9 DEF Allowed
<1> QED
  BY <1>5, <1>6

LEMMA MarketAllowed ==
    ASSUME LegInv, TypeInv, LegInv', TypeInv', NEW s \in Sides, Allowed(s), TradingInMarket
    PROVE  Allowed(s)'
<1>1. 1 \in Legs /\ \A m \in BagToSet(mkt) : m.leg # 1
  BY LegsAndSides DEF TypeInv, MarketOK, Order
<1>2. UNCHANGED <<traded, hedger, limits, quoter, bid, book>>
  BY DEF TradingInMarket, StopMarket, RefuseMarket, FillMarket, strategyVars, threadVars
<1>3. Told(s, 1)' = Told(s, 1)
  <2>1. PICK m \in BagToSet(mkt) : StopMarket(m) \/ RefuseMarket(m) \/ \E k \in 1..m.lots : FillMarket(m, k)
    BY DEF TradingInMarket
  <2>2. Told(s, 1) \in Nat
    BY <1>1, NumbersTyped
  <2>3. CASE StopMarket(m) \/ RefuseMarket(m)
    BY <1>1, <2>3, MarketNumbers
  <2>4. ASSUME NEW k \in 1..m.lots, FillMarket(m, k) PROVE Told(s, 1)' = Told(s, 1)
    <3>1. Told(s, 1)' = Told(s, 1) + 0
      BY <1>1, <2>4, MarketNumbers
    <3> HIDE DEF Told
    <3> QED
      BY <2>2, <3>1
  <2> QED
    BY <2>1, <2>3, <2>4
<1>4. Sent(s)' = Sent(s)
  BY <1>2, <1>3, SentStays
<1> QED
  BY <1>2, <1>4 DEF Allowed, DecidedBelow, WorksWithin, QueuedWithin, WorksFor, Deciding, QuoterOn

LEMMA LimitStep ==
    ASSUME LegInv, LotsInv, LegInv', LotsInv', OneOrderInv, CountInv, LimitInv, [Next]_vars,
           NEW s \in Sides, Limited(s)'
    PROVE  Allowed(s)'
<1>1. /\ TypeInv /\ TypeInv' /\ Bounded /\ Shapes /\ NumbersOK
  BY AllNumbersTyped DEF LotsInv, OneOrderInv
<1>2. Limited(s)
  BY <1>1, UpsetStays DEF Limited
<1>3. Allowed(s) /\ SideInv(s)
  BY <1>2 DEF LimitInv, Limited, OneOrderInv
<1>4. Registered(s)
  BY <1>2 DEF CountInv, CountsOnce, Counted, Limited
<1>5. ASSUME MarketData \/ Quoter \/ Answers \/ \E n \in DOMAIN book : StopQuote(n)
      PROVE  Quiet
  BY <1>1, <1>5, QuietStep DEF QuietNext
<1>6. CASE MarketData
  BY <1>1, <1>3, <1>5, <1>6, MarketDataAllowed
<1>7. CASE Quoter
  BY <1>1, <1>3, <1>5, <1>7, QuoterAllowed
<1>8. CASE EventHandler
  BY <1>1, <1>3, <1>4, <1>8, EventHandlerAllowed
<1>9. CASE Client
  BY <1>1, <1>3, <1>9, ClientAllowed
<1>10. CASE Answers
  BY <1>1, <1>3, <1>5, <1>10, AnswersAllowed
<1>11. CASE \E n \in DOMAIN book : StopQuote(n)
  BY <1>1, <1>3, <1>5, <1>11, StopQuoteAllowed
<1>12. CASE Fills
  BY <1>1, <1>3, <1>12, FillAllowed DEF Fills
<1>13. CASE TradingInMarket
  BY <1>1, <1>3, <1>13, MarketAllowed
<1>14. CASE UNCHANGED vars
  <2>1. UNCHANGED <<traded, limits, events, hedger, quoter, bid, book>>
    BY <1>14 DEF vars, strategyVars, threadVars, exchangeVars
  <2>2. Sent(s)' = Sent(s)
    BY <2>1, ToldStays, SentStays
  <2> QED
    BY <1>3, <2>1, <2>2 DEF Allowed, DecidedBelow, WorksWithin, QueuedWithin, WorksFor, Deciding, QuoterOn
<1> QED
  BY <1>6, <1>7, <1>8, <1>9, <1>10, <1>11, <1>12, <1>13, <1>14 DEF Next, Trading, Fills, TradingInMarket

\* On a side whose quotes no hedge or ask of an earlier order (hasty), no carried unit (carried) and
\* no change of its limits (limits) crossed: an order adds no more than the limits leave and what
\* modifies gave back to it, from the decision to quote until its last lot has traded, though its
\* lots are worked out and its fills counted in later steps, and a modify sends the volume of the
\* last confirmation again (OnDataEventHandler, ORDER_MOD_IN_TR_CR, TRADE_CONFIRMATION_TR).
THEOREM LimitInvariant == Spec => []LimitInv
<1>1. LegInv /\ LotsInv /\ LegInv' /\ LotsInv' /\ OneOrderInv /\ CountInv /\ LimitInv /\ [Next]_vars
        => LimitInv'
  BY LimitStep DEF LimitInv
<1> QED
  BY <1>1, InitLimits, LegInvariant, LotsInvariant, OneOrderInvariant, CountsInvariant, PTL DEF Spec

\* One order is all that works for a side.
LEMMA TotalOfNothing ==
    ASSUME NEW f, \A x \in DOMAIN f : f[x] = 0
    PROVE  Total(f) = 0
<1>1. UNION {{x} \X (1..f[x]) : x \in DOMAIN f} = {}
  OBVIOUS
<1> QED
  BY <1>1, FS_EmptySet DEF Total

LEMMA WorkingIsOneOrder ==
    ASSUME LegInv, TypeInv, NEW s \in Sides, OneOrder(s)
    PROVE  /\ Gone(s) => Working(s) = 0
           /\ \A n \in DOMAIN book : WorksFor(s, n) => Working(s) = book[n].lots
<1> DEFINE D == {n \in DOMAIN book : book[n].side = s}
           f == [n \in D |-> book[n].lots]
<1>1. Working(s) = Total(f)
  BY DEF Working
<1>2. Amounts(f)
  <2>1. IsFiniteSet(D)
    BY FS_Subset DEF LegInv, Typed
  <2>2. \A x \in D : book[x].lots \in Nat
    BY DEF TypeInv, BookOK
  <2> QED
    BY <2>1, <2>2 DEF Amounts
<1>3. ASSUME Gone(s) PROVE Working(s) = 0
  <2>1. \A x \in D : book[x].lots = 0
    BY <1>3 DEF Gone, WorksFor, TypeInv, BookOK
  <2>2. DOMAIN f = D /\ \A x \in DOMAIN f : f[x] = 0
    BY <2>1
  <2> HIDE DEF f
  <2> QED
    BY <1>1, <2>2, TotalOfNothing
<1>4. ASSUME NEW n \in DOMAIN book, WorksFor(s, n) PROVE Working(s) = book[n].lots
  <2> DEFINE g == [m \in D \ {n} |-> book[m].lots]
  <2>1. \A m \in D \ {n} : book[m].lots = 0
    BY <1>4 DEF OneOrder, WorksFor, TypeInv, BookOK
  <2>2. DOMAIN g = D \ {n} /\ \A x \in DOMAIN g : g[x] = 0
    BY <2>1
  <2>3. n \in D /\ DOMAIN f = D /\ f[n] = book[n].lots /\ \A y \in DOMAIN g : g[y] = f[y]
    BY <1>4 DEF WorksFor
  <2> HIDE DEF f, g, D
  <2>4. Total(g) = 0
    BY <2>2, TotalOfNothing
  <2>5. Total(f) = Total(g) + f[n]
    BY <1>2, <2>2, <2>3, TotalSplit
  <2>6. f[n] \in Nat
    BY <1>2, <2>3 DEF Amounts
  <2> QED
    BY <1>1, <2>3, <2>4, <2>5, <2>6
<1> QED
  BY <1>3, <1>4

\* On a side whose quotes no hedge or ask of an earlier order, no carried unit and no change of its
\* limits crossed: what is counted, in hand, told, working and queued of the first leg passes the
\* largest lots by no more than what modifies gave back to the working order, and no new order is
\* queued for nothing or beyond the largest lots (OnDataEventHandler, BOARD_LOT_IN_TRBuy,
\* ORDER_MOD_IN_TR_CR).
THEOREM OrdersStayWithinLimits == Spec => []WithinLimits
<1>1. LegInv /\ LotsInv /\ OneOrderInv /\ LimitInv => WithinLimits
  <2> SUFFICES ASSUME LegInv, TypeInv, OneOrderInv, LimitInv, NEW s \in Sides, Limited(s)
               PROVE  /\ \A n \in DOMAIN book :
                           book[n].side = s /\ book[n].lots > 0 =>
                               Position(s) + Working(s) <= limits[s].max + book[n].given
                      /\ \A i \in QuotesInQueue(s) :
                           bid[i].lots > 0 /\ Position(s) + Working(s) + bid[i].lots <= limits[s].max
    BY DEF WithinLimits, LotsInv, Limited
  <2>1. SideInv(s) /\ Allowed(s) /\ Shapes
    BY DEF OneOrderInv, LimitInv, Limited
  <2>2. OneOrder(s)
    BY <2>1 DEF SideInv
  <2>3. Position(s) = Sent(s)
    BY <2>1 DEF Position, Sent, Told, InHand, Storing, Shapes, HedgerTyped
  <2>4. Sent(s) \in Nat
    BY AllNumbersTyped, SentType
  <2>5. ASSUME NEW n \in DOMAIN book, book[n].side = s, book[n].lots > 0
        PROVE  Position(s) + Working(s) <= limits[s].max + book[n].given
    <3>1. WorksFor(s, n)
      BY <2>5 DEF WorksFor
    <3>2. Working(s) = book[n].lots
      BY <2>2, <3>1, WorkingIsOneOrder
    <3>3. Sent(s) + book[n].lots <= limits[s].max + book[n].given
      BY <2>1, <3>1 DEF Allowed, WorksWithin
    <3> QED
      BY <2>3, <3>2, <3>3
  <2>6. ASSUME NEW i \in QuotesInQueue(s)
        PROVE  bid[i].lots > 0 /\ Position(s) + Working(s) + bid[i].lots <= limits[s].max
    <3>1. bid[i] \in Range(bid) /\ bid[i].side = s /\ bid[i].kind = "new"
      BY DEF QuotesInQueue, Range
    <3>2. bid[i].lots \in Nat \ {0} /\ Sent(s) + bid[i].lots <= limits[s].max
      BY <2>1, <3>1 DEF Allowed, QueuedWithin
    <3>3. Gone(s)
      BY <2>1, <3>1 DEF SideInv, QueuedIsNext, Queued
    <3>4. Working(s) = 0
      BY <2>2, <3>3, WorkingIsOneOrder
    <3> DEFINE k == bid[i].lots
    <3> HIDE DEF k
    <3>5. k \in Nat \ {0} /\ Sent(s) + k <= limits[s].max
      BY <3>2 DEF k
    <3>6. k > 0 /\ Position(s) + Working(s) + k <= limits[s].max
      BY <2>3, <2>4, <3>4, <3>5
    <3> QED
      BY <3>6 DEF k
  <2> QED
    BY <2>5, <2>6
<1> QED
  BY <1>1, LegInvariant, LotsInvariant, OneOrderInvariant, LimitInvariant, PTL

-----------------------------------------------------------------------------
(* The end of an order is the last that is told of it.                      *)

\* An event says of an order that it works, or that it is no more.
Speaks(e) ==
    \/ e.kind \in {"confirmed", "modified"}
    \/ e.kind = "refused" /\ ~e.gone
    \/ e.kind = "trade" /\ e.leg = 1 /\ e.left # 0
Finishes(e) == e.kind = "cancelled" \/ (e.kind = "trade" /\ e.leg = 1 /\ e.left = 0)

EndTold(s) == \E e \in Range(events) : e.side = s /\ Finishes(e)
\* A fill of the first leg was taken off the queue and is not yet what remains.
Loaded(s) == InTrade(s) /\ hedger.act # "hedge"
EndFollows(s) ==
    \A i \in DOMAIN events :
        events[i].side = s /\ Speaks(events[i]) =>
            \E j \in DOMAIN events : i < j /\ events[j].side = s /\ Finishes(events[j])
EndComes(s) == Gone(s) => EndFollows(s) /\ (Loaded(s) /\ hedger.left # 0 => EndTold(s))

\* Nothing speaks of an order once its end is told, and the end is told behind what speaks of it.
LEMMA EndFollowsAppend ==
    ASSUME NEW s, NEW e, IsSeq(events), events' = Append(events, e)
    PROVE  /\ e.side = s /\ Finishes(e) => EndFollows(s)' /\ EndTold(s)'
           /\ EndFollows(s) /\ ~(e.side = s /\ Speaks(e)) => EndFollows(s)'
           /\ EndTold(s) => EndTold(s)'
<1>1. /\ events \in Seq(Range(events)) /\ Len(events) \in Nat /\ DOMAIN events = 1..Len(events)
      /\ DOMAIN events' = 1..(Len(events) + 1)
      /\ \A i \in 1..Len(events) : events'[i] = events[i]
      /\ events'[Len(events) + 1] = e
  BY DEF IsSeq
<1>2. Range(events') = Range(events) \cup {e}
  BY AppendToQueue
<1>3. EndTold(s) => EndTold(s)'
  BY <1>2 DEF EndTold
<1>4. ASSUME e.side = s, Finishes(e) PROVE EndFollows(s)' /\ EndTold(s)'
  <2>1. ASSUME NEW i \in DOMAIN events', events'[i].side = s, Speaks(events'[i])
        PROVE  \E j \in DOMAIN events' : i < j /\ events'[j].side = s /\ Finishes(events'[j])
    <3>1. ~Speaks(e)
      BY <1>4 DEF Finishes, Speaks
    <3>2. i # Len(events) + 1
      BY <1>1, <2>1, <3>1
    <3>3. i < Len(events) + 1 /\ Len(events) + 1 \in DOMAIN events'
      BY <1>1, <3>2
    <3> QED
      BY <1>1, <1>4, <3>3
  <2>2. EndTold(s)'
    BY <1>2, <1>4 DEF EndTold
  <2> QED
    BY <2>1, <2>2 DEF EndFollows
<1>5. ASSUME EndFollows(s), ~(e.side = s /\ Speaks(e)) PROVE EndFollows(s)'
  <2> SUFFICES ASSUME NEW i \in DOMAIN events', events'[i].side = s, Speaks(events'[i])
               PROVE  \E j \in DOMAIN events' : i < j /\ events'[j].side = s /\ Finishes(events'[j])
    BY DEF EndFollows
  <2>1. i # Len(events) + 1
    BY <1>1, <1>5
  <2>2. i \in DOMAIN events
    BY <1>1, <2>1
  <2>3. PICK j \in DOMAIN events : i < j /\ events[j].side = s /\ Finishes(events[j])
    BY <1>1, <1>5, <2>2 DEF EndFollows
  <2>4. j \in DOMAIN events' /\ events'[j] = events[j]
    BY <1>1, <2>3
  <2> QED
    BY <2>3, <2>4
<1> QED
  BY <1>3, <1>4, <1>5

LEMMA EndFollowsTail ==
    ASSUME NEW s, IsSeq(events), events # <<>>, EndFollows(s), events' = Tail(events)
    PROVE  /\ EndFollows(s)'
           /\ Head(events).side = s /\ Speaks(Head(events)) => EndTold(s)'
<1>1. /\ events \in Seq(Range(events)) /\ Len(events) \in Nat \ {0} /\ DOMAIN events = 1..Len(events)
      /\ DOMAIN events' = 1..(Len(events) - 1)
      /\ \A i \in 1..(Len(events) - 1) : events'[i] = events[i + 1]
      /\ Head(events) = events[1]
  BY DEF IsSeq
<1>2. ASSUME NEW i \in DOMAIN events, events[i].side = s, Speaks(events[i])
      PROVE  \E j \in DOMAIN events' : i < j + 1 /\ events'[j].side = s /\ Finishes(events'[j])
  <2>1. PICK j \in DOMAIN events : i < j /\ events[j].side = s /\ Finishes(events[j])
    BY <1>2 DEF EndFollows
  <2> DEFINE k == j - 1
  <2>2. k \in 1..(Len(events) - 1) /\ k + 1 = j
    BY <1>1, <2>1
  <2>3. events'[k] = events[j] /\ i < k + 1 /\ k \in DOMAIN events'
    BY <1>1, <2>1, <2>2
  <2> QED
    BY <2>1, <2>3
<1>3. EndFollows(s)'
  <2> SUFFICES ASSUME NEW i \in DOMAIN events', events'[i].side = s, Speaks(events'[i])
               PROVE  \E j \in DOMAIN events' : i < j /\ events'[j].side = s /\ Finishes(events'[j])
    BY DEF EndFollows
  <2>1. i + 1 \in DOMAIN events /\ events[i + 1] = events'[i]
    BY <1>1
  <2>2. PICK j \in DOMAIN events' : i + 1 < j + 1 /\ events'[j].side = s /\ Finishes(events'[j])
    BY <1>2, <2>1
  <2>3. i < j
    BY <1>1, <2>2
  <2> QED
    BY <2>2, <2>3
<1>4. ASSUME Head(events).side = s, Speaks(Head(events)) PROVE EndTold(s)'
  <2>1. 1 \in DOMAIN events
    BY <1>1
  <2>2. \E j \in DOMAIN events' : events'[j].side = s /\ Finishes(events'[j])
    BY <1>1, <1>2, <1>4, <2>1
  <2> QED
    BY <2>2 DEF EndTold, Range
<1> QED
  BY <1>3, <1>4

\* A side whose orders are no more was just told so, or nothing new speaks of them.
Tells(s, e) == (e.side = s /\ Finishes(e)) \/ (Gone(s) /\ ~(e.side = s /\ Speaks(e)))

LEMMA OtherOrders ==
    ASSUME NEW s, NEW n \in DOMAIN book, book[n].side # s, DOMAIN book' = DOMAIN book,
           book'[n].side = book[n].side, \A k \in DOMAIN book : k # n => book'[k] = book[k]
    PROVE  Gone(s)' <=> Gone(s)
  BY DEF Gone, WorksFor

LEMMA AnswersTell ==
    ASSUME LegInv, TypeInv, Shapes, NEW s \in Sides, Answers, Gone(s)'
    PROVE  \E e : events' = Append(events, e) /\ Tells(s, e)
<1> DEFINE r == Head(bid)
<1>1. bid # <<>> /\ r \in Range(bid)
  <2>1. bid # <<>>
    BY DEF Answers, AcceptNew, RefuseNew, DoModify, DoCancel, RefuseAsk
  <2> QED
    BY <2>1, TailOfQueue DEF LegInv, Typed
<1>2. ASSUME r.kind # "new", Works(r.number) PROVE WorksFor(r.side, r.number)
  <2> HIDE DEF r
  <2>1. Own(r.side, r.number)
    BY <1>1, <1>2 DEF Shapes, NumbersOwn
  <2> QED
    BY <1>2, <2>1, WorksIsOwn
<1>3. CASE AcceptNew
  <2> DEFINE n == 1 + Cardinality(DOMAIN book)
             e == [kind |-> "confirmed", side |-> r.side, number |-> n, lots |-> r.lots]
  <2>1. events' = Append(events, e) /\ e.side = r.side
    BY <1>3 DEF AcceptNew, Answer
  <2>2. PICK k : /\ DOMAIN book' = DOMAIN book \cup {k} /\ r.lots > 0
                 /\ book'[k] = [side |-> r.side, lots |-> r.lots, given |-> 0]
                 /\ \A i \in DOMAIN book : i # k => book'[i] = book[i]
                 /\ k = 1 + Cardinality(DOMAIN book)
    BY <1>3 DEF AcceptNew
  <2>3. k \notin DOMAIN book
    BY <2>2, BookCounted
  <2> HIDE DEF r, n
  <2>4. r.side # s
    BY <2>2 DEF Gone, WorksFor
  <2>5. Gone(s)
    BY <2>2, <2>3 DEF Gone, WorksFor
  <2> HIDE DEF e
  <2> QED
    BY <2>1, <2>4, <2>5 DEF Tells
<1>4. CASE RefuseNew
  <2> DEFINE e == [kind |-> "error", side |-> r.side]
  <2>1. events' = Append(events, e) /\ ~Speaks(e) /\ UNCHANGED book
    BY <1>4 DEF RefuseNew, Answer, Speaks
  <2> HIDE DEF e, r
  <2>2. Gone(s)
    BY <2>1 DEF Gone, WorksFor
  <2> QED
    BY <2>1, <2>2 DEF Tells
<1>5. CASE DoModify
  <2> DEFINE e == [kind |-> "modified", side |-> r.side, number |-> r.number, lots |-> r.lots]
  <2>1. events' = Append(events, e) /\ e.side = r.side /\ WorksFor(r.side, r.number)
    BY <1>2, <1>5 DEF DoModify, Answer
  <2>2. \A t, n : WorksFor(t, n)' <=> WorksFor(t, n)
    BY <1>5, ModifiedWorks DEF Shapes
  <2> HIDE DEF e, r
  <2>3. r.number \in DOMAIN book /\ DOMAIN book' = DOMAIN book
    BY <1>5, ModifiedBook DEF Shapes, r
  <2>4. Gone(s) /\ r.side # s
    BY <2>1, <2>2, <2>3 DEF Gone
  <2> QED
    BY <2>1, <2>4 DEF Tells
<1>6. CASE DoCancel
  <2> DEFINE e == [kind |-> "cancelled", side |-> r.side]
  <2>1. /\ events' = Append(events, e) /\ e.side = r.side /\ Finishes(e) /\ WorksFor(r.side, r.number)
        /\ book' = [book EXCEPT ![r.number].lots = 0]
    BY <1>2, <1>6 DEF DoCancel, Answer, Finishes
  <2> HIDE DEF e, r
  <2>2. ~Speaks(e)
    BY <2>1 DEF Finishes, Speaks
  <2>3. CASE r.side = s
    BY <2>1, <2>3 DEF Tells
  <2>4. CASE r.side # s
    <3>1. /\ r.number \in DOMAIN book /\ book[r.number].side # s /\ DOMAIN book' = DOMAIN book
          /\ book'[r.number].side = book[r.number].side
          /\ \A k \in DOMAIN book : k # r.number => book'[k] = book[k]
      BY <2>1, <2>4 DEF WorksFor, TypeInv, BookOK
    <3> QED
      BY <2>1, <2>2, <3>1, OtherOrders DEF Tells
  <2> QED
    BY <2>3, <2>4
<1>7. CASE RefuseAsk
  <2> DEFINE e == [kind |-> "refused", side |-> r.side, gone |-> ~Works(r.number)]
  <2>1. /\ events' = Append(events, e) /\ e.side = r.side /\ UNCHANGED book /\ r.kind # "new"
        /\ Speaks(e) => Works(r.number)
    BY <1>7 DEF RefuseAsk, Answer, Speaks
  <2>2. Speaks(e) => WorksFor(r.side, r.number)
    BY <1>2, <2>1
  <2> HIDE DEF e, r
  <2>3. Gone(s)
    BY <2>1 DEF Gone, WorksFor
  <2>4. Speaks(e) => r.side # s
    BY <2>2, <2>3 DEF Gone, WorksFor
  <2> QED
    BY <2>1, <2>3, <2>4 DEF Tells
<1> QED
  BY <1>3, <1>4, <1>5, <1>6, <1>7 DEF Answers

LEMMA TradingTell ==
    ASSUME LegInv, TypeInv, Shapes, NEW s \in Sides, Trading, Gone(s)'
    PROVE  \E e : events' = Append(events, e) /\ Tells(s, e)
<1>1. ASSUME NEW n \in DOMAIN book, StopQuote(n) PROVE \E e : events' = Append(events, e) /\ Tells(s, e)
  <2> DEFINE e == [kind |-> "cancelled", side |-> book[n].side]
  <2>1. /\ events' = Append(events, e) /\ e.side = book[n].side /\ Finishes(e)
        /\ book' = [book EXCEPT ![n].lots = 0]
    BY <1>1 DEF StopQuote, Answer, Finishes
  <2> HIDE DEF e
  <2>2. CASE book[n].side = s
    BY <2>1, <2>2 DEF Tells
  <2>3. CASE book[n].side # s
    <3>1. /\ DOMAIN book' = DOMAIN book /\ book'[n].side = book[n].side
          /\ \A k \in DOMAIN book : k # n => book'[k] = book[k]
      BY <2>1 DEF TypeInv, BookOK
    <3> QED
      BY <2>1, <2>3, <3>1, OtherOrders DEF Tells
  <2> QED
    BY <2>2, <2>3
<1>2. ASSUME NEW n \in DOMAIN book, NEW k \in 1..book[n].lots, Fill(n, k)
      PROVE  \E e : events' = Append(events, e) /\ Tells(s, e)
  <2> DEFINE e == [kind |-> "trade", side |-> book[n].side, leg |-> 1, lots |-> k,
                   left |-> book[n].lots - k]
  <2>1. /\ events' = Append(events, e) /\ book' = [book EXCEPT ![n].lots = @ - k]
        /\ e.kind = "trade" /\ e.leg = 1 /\ e.side = book[n].side /\ e.left = book[n].lots - k
    BY <1>2 DEF Fill, Report, Answer
  <2> HIDE DEF e
  <2>2. /\ DOMAIN book' = DOMAIN book /\ book'[n].side = book[n].side /\ book'[n].lots = book[n].lots - k
        /\ \A i \in DOMAIN book : i # n => book'[i] = book[i]
        /\ book[n].lots \in Nat
    BY <2>1 DEF TypeInv, BookOK
  <2>3. CASE book[n].side # s
    BY <2>1, <2>2, <2>3, OtherOrders DEF Tells
  <2>4. CASE book[n].side = s
    <3>1. ~(book'[n].lots > 0)
      BY <2>2, <2>4 DEF Gone, WorksFor
    <3>2. e.left = 0
      BY <2>1, <2>2, <3>1
    <3> QED
      BY <2>1, <2>4, <3>2 DEF Tells, Finishes
  <2> QED
    BY <2>3, <2>4
<1>3. CASE TradingInMarket
  <2>1. UNCHANGED book
    BY <1>3 DEF TradingInMarket, StopMarket, RefuseMarket, FillMarket
  <2>2. Gone(s)
    BY <2>1 DEF Gone, WorksFor
  <2>3. PICK m \in BagToSet(mkt) : StopMarket(m) \/ RefuseMarket(m) \/ \E k \in 1..m.lots : FillMarket(m, k)
    BY <1>3 DEF TradingInMarket
  <2>4. m.leg # 1
    BY LegsAndSides DEF TypeInv, MarketOK, Order
  <2>5. CASE StopMarket(m)
    <3> DEFINE e == [kind |-> "stopped", side |-> m.side, leg |-> m.leg, lots |-> m.volume]
    <3>1. events' = Append(events, e) /\ ~Speaks(e)
      BY <2>5 DEF StopMarket, Answer, Speaks
    <3> HIDE DEF e
    <3> QED
      BY <2>2, <3>1 DEF Tells
  <2>6. CASE RefuseMarket(m)
    <3> DEFINE e == [kind |-> "rejected", side |-> m.side, leg |-> m.leg]
    <3>1. events' = Append(events, e) /\ ~Speaks(e)
      BY <2>6 DEF RefuseMarket, Answer, Speaks
    <3> HIDE DEF e
    <3> QED
      BY <2>2, <3>1 DEF Tells
  <2>7. ASSUME NEW k \in 1..m.lots, FillMarket(m, k) PROVE \E e : events' = Append(events, e) /\ Tells(s, e)
    <3> DEFINE e == [kind |-> "trade", side |-> m.side, leg |-> m.leg, lots |-> k, left |-> m.lots - k]
    <3>1. events' = Append(events, e) /\ ~Speaks(e)
      BY <2>4, <2>7 DEF FillMarket, Report, Answer, Speaks
    <3> HIDE DEF e
    <3> QED
      BY <2>2, <3>1 DEF Tells
  <2> QED
    BY <2>3, <2>5, <2>6, <2>7
<1> QED
  BY <1>1, <1>2, <1>3 DEF Trading, TradingInMarket

LEMMA ExchangeTells ==
    ASSUME LegInv, TypeInv, Shapes, NEW s \in Sides, Answers \/ Trading, Gone(s)'
    PROVE  \E e : events' = Append(events, e) /\ Tells(s, e)
  BY AnswersTell, TradingTell

\* What an event handler does to the queue and to the fill in hand.
Takes == hedger = Idle /\ events # <<>> /\ events' = Tail(events)
GoesOn == hedger # Idle /\ UNCHANGED events

LEMMA HandlerTakes ==
    ASSUME LegInv, TypeInv, EventHandler
    PROVE  /\ UNCHANGED <<book, filled>>
           /\ Takes \/ GoesOn
           /\ \A s : GoesOn /\ Loaded(s)' => Loaded(s) /\ hedger'.left = hedger.left
           /\ \A s : Takes /\ Loaded(s)' =>
                /\ Head(events).kind = "trade" /\ Head(events).side = s /\ Head(events).leg = 1
                /\ hedger'.left = Head(events).left
<1>1. UNCHANGED <<book, filled>>
  BY DEF EventHandler, ORDER_CONFIRMATION_TR, ORDER_MOD_CONFIRMATION_TR, ORDER_CXL_CONFIRMATION_TR,
     ORDER_ERROR_OUT, ORDER_REJ_OUT, Settle, SelfTradeStopped, HedgeRefused, TradeLoad, TradeStore,
     TradeSize, TradeHedge, HedgeStore, exchangeVars, historyVars
<1>2. CASE SettlingHandler \/ SelfTradeStopped
  <2>1. Takes /\ hedger' = Idle
    BY <1>2 DEF SettlingHandler, ORDER_CONFIRMATION_TR, ORDER_MOD_CONFIRMATION_TR,
       ORDER_CXL_CONFIRMATION_TR, ORDER_ERROR_OUT, ORDER_REJ_OUT, Settle, SelfTradeStopped, HedgeRefused,
       Handles, Takes, threadVars
  <2> QED
    BY <1>1, <2>1 DEF Loaded, InTrade, Takes, GoesOn
<1>3. CASE TradeLoad
  <2>1. /\ Takes /\ Head(events).kind = "trade"
        /\ hedger' = [act |-> "store", side |-> Head(events).side, leg |-> Head(events).leg,
                      lots |-> Head(events).lots, left |-> Head(events).left,
                      reg |-> traded[Head(events).side][Head(events).leg]]
    BY <1>3 DEF TradeLoad, Handles, Takes
  <2> QED
    BY <1>1, <2>1 DEF Loaded, InTrade, Takes, GoesOn
<1>4. CASE TradeStore
  <2>1. GoesOn /\ hedger' = [hedger EXCEPT !.act = "size"] /\ hedger.act = "store"
    BY <1>4 DEF TradeStore, Storing, GoesOn, exchangeVars
  <2>2. hedger \in [act : {"store", "size"}, side : Sides, leg : Legs, lots : Nat, left : Nat, reg : Nat]
    BY <2>1, HedgerShape DEF GoesOn
  <2>3. /\ hedger'.side = hedger.side /\ hedger'.leg = hedger.leg /\ hedger'.left = hedger.left
        /\ hedger # Idle /\ hedger.act # "hedge"
    BY <2>1, <2>2 DEF GoesOn
  <2> QED
    BY <1>1, <2>1, <2>3 DEF Loaded, InTrade, Takes, GoesOn
<1>5. CASE TradeSize
  <2>1. GoesOn /\ hedger'.act = "hedge"
    BY <1>5 DEF TradeSize, GoesOn, exchangeVars
  <2> QED
    BY <1>1, <2>1 DEF Loaded, Takes, GoesOn
<1>6. CASE TradeHedge
  <2>1. /\ GoesOn
        /\ \/ hedger' = Idle
           \/ hedger' = [hedger EXCEPT !.next = hedger.next + 1]
        /\ hedger.act = "hedge"
    BY <1>6 DEF TradeHedge, GoesOn
  <2>2. hedger \in [act : {"hedge"}, side : Sides, leg : {1}, lots : Nat, tradable : Nat, next : Hedges]
    BY <2>1, HedgerShape DEF GoesOn
  <2>3. hedger' = Idle \/ hedger'.act = "hedge"
    BY <2>1, <2>2
  <2> QED
    BY <1>1, <2>1, <2>3 DEF Loaded, InTrade, Takes, GoesOn
<1>7. CASE HedgeStore
  <2>1. GoesOn /\ hedger' = Idle
    BY <1>7 DEF HedgeStore, Storing, GoesOn, exchangeVars
  <2> QED
    BY <1>1, <2>1 DEF Loaded, InTrade, Takes, GoesOn
<1> QED
  BY <1>2, <1>3, <1>4, <1>5, <1>6, <1>7 DEF EventHandler, SettlingHandler

LEMMA EndComesStep ==
    ASSUME LegInv, TypeInv, Shapes, [Next]_vars, NEW s \in Sides, EndComes(s)
    PROVE  EndComes(s)'
<1>1. IsSeq(events)
  BY DEF LegInv, Typed
<1>2. CASE UNCHANGED <<book, events, hedger>>
  BY <1>2 DEF EndComes, EndFollows, EndTold, Gone, WorksFor, Loaded, InTrade
<1>3. CASE MarketData \/ Quoter \/ Client \/ UNCHANGED vars
  BY <1>2, <1>3 DEF MarketData, LookNew, LookModify, LookCancel, Begin, Quoter, MarkPending, Quote,
     Requote, Withdraw, Client, Difference, DiffTest, DiffStore, vars, strategyVars, threadVars, exchangeVars
<1>4. CASE EventHandler
  <2> SUFFICES ASSUME Gone(s)' PROVE EndFollows(s)' /\ (Loaded(s)' /\ hedger'.left # 0 => EndTold(s)')
    BY DEF EndComes
  <2>1. UNCHANGED book /\ (Takes \/ GoesOn)
    BY <1>4, HandlerTakes
  <2>2. EndFollows(s) /\ (Loaded(s) /\ hedger.left # 0 => EndTold(s))
    BY <2>1 DEF EndComes, Gone, WorksFor
  <2>3. CASE Takes
    <3>1. /\ EndFollows(s)'
          /\ Head(events).side = s /\ Speaks(Head(events)) => EndTold(s)'
      BY <1>1, <2>2, <2>3, EndFollowsTail DEF Takes
    <3>2. ASSUME Loaded(s)', hedger'.left # 0 PROVE Head(events).side = s /\ Speaks(Head(events))
      BY <1>4, <2>3, <3>2, HandlerTakes DEF Speaks
    <3> QED
      BY <3>1, <3>2
  <2>4. CASE GoesOn
    <3>1. EndFollows(s)' /\ (EndTold(s) => EndTold(s)')
      BY <2>2, <2>4 DEF EndFollows, EndTold, GoesOn
    <3>2. ASSUME Loaded(s)', hedger'.left # 0 PROVE Loaded(s) /\ hedger.left # 0
      BY <1>4, <2>4, <3>2, HandlerTakes
    <3> QED
      BY <2>2, <3>1, <3>2
  <2> QED
    BY <2>1, <2>3, <2>4
<1>5. CASE Answers \/ Trading
  <2> SUFFICES ASSUME Gone(s)' PROVE EndFollows(s)' /\ (Loaded(s)' /\ hedger'.left # 0 => EndTold(s)')
    BY DEF EndComes
  <2>1. PICK e : events' = Append(events, e) /\ Tells(s, e)
    BY <1>5, ExchangeTells
  <2>2. UNCHANGED hedger
    BY <1>5 DEF Answers, AcceptNew, RefuseNew, DoModify, DoCancel, RefuseAsk, Trading, StopQuote, Fill,
       StopMarket, RefuseMarket, FillMarket, threadVars
  <2>3. Loaded(s)' <=> Loaded(s)
    BY <2>2 DEF Loaded, InTrade
  <2>4. CASE e.side = s /\ Finishes(e)
    BY <1>1, <2>1, <2>4, EndFollowsAppend
  <2>5. CASE Gone(s) /\ ~(e.side = s /\ Speaks(e))
    <3>1. EndFollows(s)' /\ (EndTold(s) => EndTold(s)')
      BY <1>1, <2>1, <2>5, EndFollowsAppend DEF EndComes
    <3> QED
      BY <2>2, <2>3, <2>5, <3>1 DEF EndComes
  <2> QED
    BY <2>1, <2>4, <2>5 DEF Tells
<1> QED
  BY <1>3, <1>4, <1>5 DEF Next

-----------------------------------------------------------------------------
(* The round of a side is over when the last leg has heard of its last lot. *)

LEMMA WholeLess ==
    ASSUME NEW c \in Nat, NEW x \in Nat, NEW b \in Nat \ {0}, c * b \in Nat, (c * b + x) % b = 0
    PROVE  x % b = 0
<1> DEFINE k == c * b
           q == (k + x) \div b
           p == x \div b
           r == x % b
<1>1. k \in Nat /\ k = b * c
  OBVIOUS
<1> HIDE DEF k
<1>2. q \in Nat /\ k + x = b * q
  <2>1. (k + x) % b = 0
    BY DEF k
  <2> QED
    BY <1>1, <2>1
<1>3. p \in Nat /\ r \in Nat /\ r < b /\ x = b * p + r
  OBVIOUS
<1> HIDE DEF q, p, r
<1> DEFINE d == q - c - p
<1>4. d \in Int /\ q = c + p + d
  BY <1>2, <1>3
<1> HIDE DEF d
<1>5. b * (c + p + d) = b * c + b * p + b * d /\ b * c \in Int /\ b * p \in Int /\ b * d \in Int
  BY <1>3, <1>4
<1>6. r = b * d
  BY <1>1, <1>2, <1>3, <1>4, <1>5
<1>7. ASSUME d >= 1 PROVE FALSE
  <2>1. b * 1 <= b * d /\ b * 1 = b
    BY <1>4, <1>7, TimesMono
  <2> QED
    BY <1>3, <1>5, <1>6, <2>1
<1>8. ASSUME d <= -1 PROVE FALSE
  <2>1. -d \in Nat /\ 1 <= -d
    BY <1>4, <1>8
  <2>2. b * 1 <= b * (-d) /\ b * 1 = b /\ b * (-d) = -(b * d)
    BY <1>4, <2>1, TimesMono
  <2> QED
    BY <1>3, <1>5, <1>6, <2>2
<1>9. d = 0
  BY <1>4, <1>7, <1>8
<1>10. r = 0
  BY <1>6, <1>9
<1> QED
  BY <1>10 DEF r

\* What the last leg will still hear of.
LastOut(s) ==
    \/ \E m \in BagToSet(mkt) : IsLot(m, s, Last)
    \/ \E e \in Range(events) : IsFill(e, s, Last)
    \/ hedger # Idle /\ hedger.act = "store" /\ hedger.side = s /\ hedger.leg = Last

\* Once whole units have traded, the hedge of a lot asks the last leg for more.
LEMMA LastHedgeSends ==
    ASSUME LegInv, LotsInv, LegInv', LotsInv', CountInv, HedgeInv, [Next]_vars, Shapes,
           NEW s \in Sides, HedgesLeg(s, Last), ~Crossed(s)', traded[s][1] % Ratio[1] = 0
    PROVE  LastOut(s)'
<1> DEFINE l == Last
           x == filled[s][1] - Told(s, 1)
           q == HitLots(x, Ratio[l], Ratio[1])
           lots == q - filled[s][l] + Told(s, l)
<1>0. l \in Hedges
  BY LegsAreNumbered
<1> HIDE DEF l
<1>1. /\ TypeInv /\ TypeInv' /\ Bounded /\ NumbersOK /\ NoneStopped(s) /\ NotOver(s, l) /\ CountsOnce(s)
      /\ l \in Legs /\ 1 \in Legs
  BY <1>0, AllNumbersTyped, LegsAndSides DEF LotsInv, HedgeInv, CountInv
<1>2. /\ filled[s][l] \in Nat /\ InMarket(s, l) \in Nat /\ Told(s, l) \in Nat
      /\ filled[s][1] \in Nat /\ Told(s, 1) \in Nat
  BY <1>1 DEF NumbersOK
<1>3. "carried" \notin upset'[s] /\ "overlap" \notin upset'[s] /\ "stopped" \notin upset[s] /\ ~Crossed(s)
  BY UpsetStays DEF Crossed
<1>4. HedgesLeg(s, l)
  BY DEF l
<1>5. InMarket(s, l) = 0 /\ TradesOf(s, l) = {}
  <2>1. ~(InMarket(s, l) > 0 \/ TradesOf(s, l) # {})
    BY <1>1, <1>3, <1>4 DEF HedgesLeg, TradeHedge, UpsetIf, TypeInv, HistoryOK
  <2> QED
    BY <1>2, <2>1
<1>6. Told(s, l) = 0
  BY <1>5, TotalEmpty DEF Told, LotsOf
<1>7. Halted(s, l) = 0
  <2>1. {i \in EventsOf(s, "stopped") : events[i].leg = l} = {}
    BY <1>1, <1>3 DEF NoneStopped, EventsOf, Range
  <2> QED
    BY <2>1, TotalEmpty DEF Halted, LotsOf
<1>8. PICK c \in Nat : Counted(s, c)
  BY <1>1, <1>3 DEF CountsOnce, Crossed
<1>9. /\ lots \in Int /\ InMarket(s, l)' = InMarket(s, l) + IF lots > 0 THEN lots ELSE 0
      /\ c * Ratio[1] \in Nat /\ traded[s][1] = c * Ratio[1] + x
  BY <1>0, <1>1, <1>4, <1>8, HedgeFills
<1>10. /\ Met(s, l) \in 0..(2 * MaxLots) /\ x \in 0..(2 * MaxLots)
       /\ Wanted(s, l) = HitLots(Met(s, l), Ratio[l], Ratio[1])
       /\ HedgedLots(s, l) = filled[s][l] + InMarket(s, l) + Halted(s, l)
  BY <1>0, <1>1, MetType
<1>11. Met(s, l) < x
  <2>1. /\ hedger # Idle /\ hedger.act = "hedge" /\ s = hedger.side /\ l = hedger.next
    BY <1>4 DEF HedgesLeg, TradeHedge
  <2>2. /\ hedger.leg = 1 /\ hedger.lots \in Nat \ {0} /\ hedger.next \in Nat
    BY <1>0, <1>1, <2>1, HedgerShape, LegsAndSides
  <2>3. InWork(s, l) = hedger.lots
    BY <2>1, <2>2 DEF InWork, InTrade
  <2> HIDE DEF Told
  <2> QED
    BY <1>2, <2>2, <2>3 DEF Met
<1>12. x % Ratio[1] = 0
  <2>1. x \in Nat /\ Ratio[1] \in Nat \ {0}
    BY <1>1, <1>10, LegsAndSides, LotsAssumption
  <2> HIDE DEF x
  <2>2. (c * Ratio[1] + x) % Ratio[1] = 0
    BY <1>9
  <2> QED
    BY <1>9, <2>1, <2>2, WholeLess
<1> HIDE DEF x
<1>13. HitLots(Met(s, l), Ratio[l], Ratio[1]) < q
  BY <1>0, <1>10, <1>11, <1>12, HitLotsWhole
<1>14. HitLots(Met(s, l), Ratio[l], Ratio[1]) \in Nat /\ q \in Nat
  BY <1>0, <1>10, HitLotsType
<1> HIDE DEF q
<1>15. filled[s][l] < q
  <2>1. HedgedLots(s, l) <= Wanted(s, l)
    BY <1>1, <1>3 DEF NotOver
  <2>2. HedgedLots(s, l) = filled[s][l]
    BY <1>2, <1>5, <1>7, <1>10
  <2> QED
    BY <1>2, <1>10, <1>13, <1>14, <2>1, <2>2
<1>16. InMarket(s, l)' > 0
  <2> HIDE DEF InMarket, Told
  <2> QED
    BY <1>2, <1>5, <1>6, <1>9, <1>14, <1>15
<1>17. \E m \in BagToSet(mkt') : IsLot(m, s, l)
  <2>1. SUFFICES ASSUME \A m \in BagToSet(mkt') : ~IsLot(m, s, l) PROVE FALSE
    OBVIOUS
  <2>2. {m \in BagToSet(mkt') : m.side = s /\ m.leg = l} = {}
    BY <2>1 DEF IsLot
  <2>3. InMarket(s, l)' = 0
    BY <2>2, TotalEmpty DEF InMarket
  <2> QED
    BY <1>16, <2>3
<1> QED
  BY <1>17 DEF LastOut, l

-----------------------------------------------------------------------------
(* A quoted order that is no more.                                          *)

\* What ends the round was sent, and what the last leg hears of it is on its way.
RoundIsDone(s) ==
    /\ remaining[s] = 0 /\ filled[s][1] > 0
    /\ InTradeOf(s, "hedge") \/ traded[s][1] % Ratio[1] # 0 \/ LastOut(s) \/ Last \in owed[s]
Ended(s) == EndTold(s) \/ (Loaded(s) /\ hedger.left = 0) \/ RoundIsDone(s)
NotPhantom(s) == ~Crossed(s) /\ status[s] \in Quoting /\ Gone(s) => Ended(s)
PhantomInv == \A s \in Sides : EndComes(s) /\ NotPhantom(s)

LEMMA EndedStays ==
    ASSUME NEW s, Ended(s), UNCHANGED <<remaining, hedger>>, traded'[s] = traded[s],
           filled[s][1] > 0 => filled'[s][1] > 0, EndTold(s) => EndTold(s)',
           LastOut(s) => LastOut(s)' \/ Last \in owed'[s], Last \in owed[s] => Last \in owed'[s]
    PROVE  Ended(s)'
<1>1. (Loaded(s)' <=> Loaded(s)) /\ (InTradeOf(s, "hedge")' <=> InTradeOf(s, "hedge"))
  BY DEF Loaded, InTradeOf, InTrade
<1> QED
  BY <1>1 DEF Ended, RoundIsDone

\* The head of the queue is all that it loses.
LEMMA ToldBehind ==
    ASSUME NEW s, IsSeq(events), events # <<>>, events' = Tail(events)
    PROVE  /\ EndTold(s) => EndTold(s)' \/ (Head(events).side = s /\ Finishes(Head(events)))
           /\ \A l : (\E e \in Range(events) : IsFill(e, s, l)) =>
                       (\E e \in Range(events') : IsFill(e, s, l)) \/ IsFill(Head(events), s, l)
<1>1. \A e \in Range(events) : e = Head(events) \/ e \in Range(events')
  BY TailOfQueue
<1> QED
  BY <1>1 DEF EndTold

LEMMA MarketGrows ==
    ASSUME UNCHANGED mkt \/ \E m : mkt' = mkt (+) SetToBag({m})
    PROVE  BagToSet(mkt) \subseteq BagToSet(mkt')
<1>1. CASE UNCHANGED mkt
  BY <1>1 DEF BagToSet
<1>2. CASE \E m : mkt' = mkt (+) SetToBag({m})
  <2>1. PICK m : mkt' = mkt (+) SetToBag({m})
    BY <1>2
  <2>2. BagToSet(mkt (+) SetToBag({m})) = BagToSet(mkt) \cup {m}
    BY BagPlusOne
  <2> QED
    BY <2>1, <2>2
<1> QED
  BY <1>1, <1>2

LEMMA SettlingPhantom ==
    ASSUME LegInv, TypeInv, Shapes, NEW s \in Sides, EndComes(s), NotPhantom(s),
           SettlingHandler \/ SelfTradeStopped, [Next]_vars
    PROVE  NotPhantom(s)'
<1> SUFFICES ASSUME ~Crossed(s)', status'[s] \in Quoting, Gone(s)' PROVE Ended(s)'
  BY DEF NotPhantom
<1> DEFINE e == Head(events)
<1>0. IsSeq(events) /\ ~Crossed(s)
  BY UpsetStays DEF LegInv, Typed, Crossed
<1>1. /\ hedger = Idle /\ events # <<>> /\ events' = Tail(events)
      /\ UNCHANGED <<book, remaining, traded, filled, hedger, owed>>
      /\ e.kind \notin {"trade"}
      /\ \/ UNCHANGED mkt
         \/ \E m : mkt' = mkt (+) SetToBag({m})
  <2>1. CASE SettlingHandler
    BY <2>1 DEF SettlingHandler, ORDER_CONFIRMATION_TR, ORDER_MOD_CONFIRMATION_TR,
       ORDER_CXL_CONFIRMATION_TR, ORDER_ERROR_OUT, ORDER_REJ_OUT, Settle, HedgeRefused, Handles,
       threadVars, historyVars, strategyVars
  <2>2. CASE SelfTradeStopped
    BY <2>2 DEF SelfTradeStopped, Handles, threadVars, historyVars, strategyVars
  <2> QED
    BY <2>1, <2>2
<1>2. Gone(s) /\ EndFollows(s)
  BY <1>1 DEF Gone, WorksFor, EndComes
<1>3. CASE e.side = s /\ Speaks(e)
  BY <1>0, <1>1, <1>2, <1>3, EndFollowsTail DEF Ended
<1>4. CASE ~(e.side = s /\ Speaks(e))
  <2>1. status'[s] = status[s] /\ ~(e.side = s /\ Finishes(e))
    <3>1. e.side \in Sides /\ DOMAIN status = Sides
      <4>1. e \in Range(events) /\ DOMAIN status = Sides
        BY <1>0, <1>1, TailOfQueue DEF LegInv, Typed
      <4> HIDE DEF e
      <4>2. e \in Event
        BY <4>1 DEF TypeInv, EventsOK
      <4> QED
        BY <4>1, <4>2 DEF Event
    <3>2. CASE e.side # s
      BY <3>1, <3>2 DEF SettlingHandler, ORDER_CONFIRMATION_TR, ORDER_MOD_CONFIRMATION_TR,
         ORDER_CXL_CONFIRMATION_TR, ORDER_ERROR_OUT, ORDER_REJ_OUT, Settle, HedgeRefused, SelfTradeStopped,
         strategyVars
    <3>3. CASE e.side = s
      <4>1. CASE ORDER_CONFIRMATION_TR \/ ORDER_MOD_CONFIRMATION_TR
        BY <1>4, <3>3, <4>1 DEF ORDER_CONFIRMATION_TR, ORDER_MOD_CONFIRMATION_TR, Handles, Speaks
      <4>2. CASE ORDER_CXL_CONFIRMATION_TR \/ ORDER_ERROR_OUT
        BY <3>1, <3>3, <4>2 DEF ORDER_CXL_CONFIRMATION_TR, ORDER_ERROR_OUT, Settle, Quoting
      <4>3. CASE ORDER_REJ_OUT
        BY <1>4, <3>1, <3>3, <4>3 DEF ORDER_REJ_OUT, Settle, Quoting, AfterRefusal, Handles, Speaks
      <4>4. CASE HedgeRefused \/ SelfTradeStopped
        BY <4>4 DEF HedgeRefused, SelfTradeStopped, strategyVars, Handles, Finishes
      <4> QED
        BY <4>1, <4>2, <4>3, <4>4 DEF SettlingHandler
    <3> QED
      BY <3>2, <3>3
  <2>2. Ended(s)
    BY <1>0, <1>2, <2>1 DEF NotPhantom
  <2>3. EndTold(s) => EndTold(s)'
    BY <1>0, <1>1, <2>1, ToldBehind
  <2>4. LastOut(s) => LastOut(s)'
    <3>1. BagToSet(mkt) \subseteq BagToSet(mkt')
      BY <1>1, MarketGrows
    <3>2. (\E f \in Range(events) : IsFill(f, s, Last)) => \E f \in Range(events') : IsFill(f, s, Last)
      <4>1. (\E f \in Range(events) : IsFill(f, s, Last)) =>
               (\E f \in Range(events') : IsFill(f, s, Last)) \/ IsFill(e, s, Last)
        BY <1>0, <1>1, ToldBehind
      <4>2. ~IsFill(e, s, Last)
        BY <1>1 DEF IsFill
      <4> QED
        BY <4>1, <4>2
    <3> QED
      BY <1>1, <3>1, <3>2 DEF LastOut
  <2> QED
    BY <1>1, <2>2, <2>3, <2>4, EndedStays
<1> QED
  BY <1>3, <1>4

LEMMA RoundPhantom ==
    ASSUME LegInv, LotsInv, LegInv', LotsInv', CountInv, HedgeInv, [Next]_vars, Shapes,
           NEW s \in Sides, EndComes(s), NotPhantom(s),
           TradeLoad \/ TradeStore \/ TradeSize \/ TradeHedge \/ HedgeStore
    PROVE  NotPhantom(s)'
<1> SUFFICES ASSUME ~Crossed(s)', status'[s] \in Quoting, Gone(s)' PROVE Ended(s)'
  BY DEF NotPhantom
<1>0. IsSeq(events) /\ ~Crossed(s) /\ TypeInv /\ HedgerTyped
  BY UpsetStays DEF LegInv, Typed, Crossed, LotsInv, Shapes
<1>1. /\ UNCHANGED <<book, filled>> /\ Gone(s)
      /\ status'[s] = status[s] \/ (HedgeStore /\ hedger.side = s /\ EndsRound(s))
  <2>1. UNCHANGED book /\ UNCHANGED filled
    BY DEF TradeLoad, TradeStore, TradeSize, TradeHedge, HedgeStore, exchangeVars, historyVars
  <2>2. status'[s] = status[s] \/ (HedgeStore /\ hedger.side = s /\ EndsRound(s))
    BY DEF TradeLoad, TradeStore, TradeSize, TradeHedge, HedgeStore, strategyVars, LegInv, Typed
  <2> QED
    BY <2>1, <2>2 DEF Gone, WorksFor
<1>2. ~(HedgeStore /\ hedger.side = s /\ EndsRound(s))
  BY DEF HedgeStore, Quoting, LegInv, Typed
<1>3. Ended(s) /\ (Loaded(s) => EndTold(s) \/ hedger.left = 0)
  BY <1>0, <1>1, <1>2 DEF NotPhantom, EndComes
<1>4. CASE TradeLoad
  <2> DEFINE e == Head(events)
  <2>1. /\ hedger = Idle /\ events # <<>> /\ events' = Tail(events) /\ e.kind = "trade"
        /\ UNCHANGED <<remaining, traded, mkt, owed, filled>>
        /\ hedger' = [act |-> "store", side |-> e.side, leg |-> e.leg, lots |-> e.lots, left |-> e.left,
                      reg |-> traded[e.side][e.leg]]
    BY <1>4 DEF TradeLoad, Handles, strategyVars, historyVars
  <2>2. /\ hedger' # Idle /\ hedger'.act = "store" /\ hedger'.side = e.side /\ hedger'.leg = e.leg
        /\ hedger'.left = e.left
    BY <2>1 DEF Idle
  <2> HIDE DEF e
  <2>3. CASE EndTold(s)
    <3>1. EndTold(s)' \/ (e.side = s /\ Finishes(e))
      BY <1>0, <2>1, <2>3, ToldBehind DEF e
    <3>2. e.side = s /\ Finishes(e) => Loaded(s)' /\ hedger'.left = 0
      BY <2>1, <2>2 DEF Finishes, Loaded, InTrade
    <3> QED
      BY <3>1, <3>2 DEF Ended
  <2>4. CASE RoundIsDone(s)
    <3>1. LastOut(s) => LastOut(s)'
      <4>1. (\E f \in Range(events) : IsFill(f, s, Last)) =>
               (\E f \in Range(events') : IsFill(f, s, Last)) \/ IsFill(e, s, Last)
        BY <1>0, <2>1, ToldBehind DEF e
      <4> QED
        BY <2>1, <2>2, <4>1 DEF LastOut, IsFill
    <3>2. ~InTradeOf(s, "hedge")
      BY <2>1 DEF InTradeOf, InTrade
    <3> QED
      BY <2>1, <2>4, <3>1, <3>2 DEF RoundIsDone, Ended
  <2> QED
    BY <1>3, <2>1, <2>3, <2>4 DEF Ended, Loaded, InTrade
<1>5. CASE TradeStore \/ TradeSize
  <2>1. /\ hedger # Idle /\ hedger.act \in {"store", "size"} /\ hedger.leg = 1
        /\ UNCHANGED <<mkt, events, owed, filled>>
        /\ hedger' # Idle /\ hedger'.side = hedger.side /\ hedger'.leg = 1
        /\ hedger'.lots = hedger.lots
    <3>1. CASE TradeStore
      <4>1. /\ hedger # Idle /\ hedger.act = "store" /\ hedger.leg = 1
            /\ UNCHANGED <<mkt, events, owed, filled>> /\ hedger' = [hedger EXCEPT !.act = "size"]
        BY <3>1 DEF TradeStore, Storing, exchangeVars, historyVars
      <4>2. hedger \in [act : {"store", "size"}, side : Sides, leg : Legs, lots : Nat, left : Nat, reg : Nat]
        BY <1>0, <4>1, HedgerShape
      <4>3. hedger' # Idle
        BY <4>1, <4>2 DEF Idle
      <4> QED
        BY <4>1, <4>2, <4>3
    <3>2. CASE TradeSize
      <4>1. /\ hedger # Idle /\ hedger.act = "size" /\ UNCHANGED <<mkt, events, owed, filled>>
            /\ hedger' = [act |-> "hedge", side |-> hedger.side, leg |-> 1, lots |-> hedger.lots,
                          tradable |-> traded[hedger.side][1], next |-> 2]
        BY <3>2 DEF TradeSize, exchangeVars, historyVars
      <4> QED
        BY <1>0, <4>1 DEF HedgerTyped, Idle
    <3> QED
      BY <1>5, <3>1, <3>2
  <2>2. EndTold(s) => EndTold(s)'
    BY <2>1 DEF EndTold
  <2>3. CASE hedger.side = s
    <3>1. Loaded(s)
      BY <2>1, <2>3 DEF Loaded, InTrade
    <3>2. CASE EndTold(s)
      BY <2>2, <3>2 DEF Ended
    <3>3. CASE hedger.left = 0 /\ TradeStore
      <4>1. hedger'.act = "size" /\ hedger'.left = 0
        <5>1. hedger \in [act : {"store", "size"}, side : Sides, leg : Legs, lots : Nat, left : Nat, reg : Nat]
          BY <1>0, <2>1, HedgerShape
        <5> QED
          BY <3>3, <5>1 DEF TradeStore
      <4> QED
        BY <2>1, <2>3, <4>1 DEF Ended, Loaded, InTrade
    <3>4. CASE hedger.left = 0 /\ TradeSize
      <4>1. remaining'[s] = 0 /\ hedger'.act = "hedge"
        BY <2>3, <3>4 DEF TradeSize, LeftOf, TypeInv, LotsInv, StrategyOK
      <4>2. filled'[s][1] > 0
        <5>1. InRound(s) > 0 /\ InRound(s) \in Nat
          BY <1>0, <2>1, <2>3, HedgerShape DEF InRound, InTrade
        <5>2. Told(s, 1) + InRound(s) <= filled[s][1]
          BY DEF LotsInv, Bounded, BoundedSide
        <5>3. Told(s, 1) \in Nat /\ filled[s][1] \in Nat
          BY <1>0, NumbersTyped, LegsAndSides
        <5> HIDE DEF Told, InRound
        <5> QED
          BY <2>1, <5>1, <5>2, <5>3
      <4> QED
        BY <2>1, <2>3, <4>1, <4>2 DEF Ended, RoundIsDone, InTradeOf, InTrade
    <3> QED
      BY <1>3, <1>5, <3>1, <3>2, <3>3, <3>4
  <2>4. CASE hedger.side # s
    <3>1. remaining'[s] = remaining[s] /\ traded'[s] = traded[s]
      BY <1>5, <2>4 DEF TradeStore, TradeSize, Stored, LotsInv, TypeInv, StrategyOK
    <3>2. LastOut(s) => LastOut(s)'
      BY <2>1, <2>4 DEF LastOut
    <3>3. ~InTrade(s)
      BY <2>4 DEF InTrade
    <3> QED
      BY <1>3, <2>1, <2>2, <3>1, <3>2, <3>3 DEF Ended, RoundIsDone, Loaded, InTradeOf
  <2> QED
    BY <2>3, <2>4
<1>6. CASE TradeHedge
  <2>1. /\ hedger # Idle /\ hedger.act = "hedge" /\ UNCHANGED <<events, filled, remaining, traded>>
        /\ hedger' = IF hedger.next = Last THEN Idle ELSE [hedger EXCEPT !.next = hedger.next + 1]
        /\ owed' = [owed EXCEPT ![hedger.side] = @ \ {hedger.next}]
        /\ \/ UNCHANGED mkt
           \/ \E m : mkt' = mkt (+) SetToBag({m})
    BY <1>6 DEF TradeHedge, strategyVars
  <2>2. hedger \in [act : {"hedge"}, side : Sides, leg : {1}, lots : Nat, tradable : Nat, next : Hedges]
    BY <1>0, <2>1, HedgerShape
  <2>3. EndTold(s) => EndTold(s)'
    BY <2>1 DEF EndTold
  <2>4. ~Loaded(s)
    BY <2>1 DEF Loaded
  <2>5. LastOut(s) => LastOut(s)'
    <3>1. BagToSet(mkt) \subseteq BagToSet(mkt')
      BY <2>1, MarketGrows
    <3> QED
      BY <2>1, <3>1 DEF LastOut
  <2>6. CASE hedger.side # s
    <3>1. owed'[s] = owed[s] /\ ~InTrade(s)
      BY <1>0, <2>1, <2>6 DEF TypeInv, HistoryOK, InTrade
    <3> QED
      BY <1>3, <2>1, <2>3, <2>4, <2>5, <3>1 DEF Ended, RoundIsDone, InTradeOf
  <2>7. CASE hedger.side = s /\ hedger.next # Last
    <3>1. hedger' # Idle /\ hedger'.act = "hedge" /\ hedger'.side = s /\ hedger'.leg = 1
      BY <2>1, <2>2, <2>7 DEF Idle
    <3> QED
      BY <1>3, <2>1, <2>3, <2>4, <3>1 DEF Ended, RoundIsDone, InTradeOf, InTrade
  <2>8. CASE hedger.side = s /\ hedger.next = Last
    <3>1. traded[s][1] % Ratio[1] = 0 => LastOut(s)'
      BY <1>6, <2>8, LastHedgeSends DEF HedgesLeg
    <3> QED
      BY <1>3, <2>1, <2>3, <2>4, <3>1 DEF Ended, RoundIsDone
  <2> QED
    BY <2>6, <2>7, <2>8
<1>7. CASE HedgeStore
  <2>1. /\ hedger # Idle /\ hedger.act = "store" /\ hedger.leg # 1 /\ traded' = Stored
        /\ UNCHANGED <<mkt, events, remaining, filled, owed>>
    BY <1>7 DEF HedgeStore, Storing, exchangeVars, historyVars
  <2>2. EndTold(s) => EndTold(s)'
    BY <2>1 DEF EndTold
  <2>3. ~InTrade(s)
    BY <2>1 DEF InTrade
  <2>4. ~RoundIsDone(s) \/ ~(hedger.side = s /\ hedger.leg = Last)
    BY <1>2, <1>7 DEF EndsRound, RoundIsDone
  <2>5. traded'[s][1] = traded[s][1]
    BY <1>0, <2>1 DEF Stored, TypeInv, StrategyOK
  <2>6. ~(hedger.side = s /\ hedger.leg = Last) /\ LastOut(s) => LastOut(s)'
    BY <2>1 DEF LastOut
  <2> QED
    BY <1>3, <2>1, <2>2, <2>3, <2>4, <2>5, <2>6 DEF Ended, RoundIsDone, Loaded, InTradeOf
<1> QED
  BY <1>4, <1>5, <1>6, <1>7

LEMMA DecisionPhantom ==
    ASSUME LegInv, TypeInv, Shapes, [Next]_vars, NEW s \in Sides, NotPhantom(s),
           MarketData \/ Quoter \/ Client \/ UNCHANGED vars
    PROVE  NotPhantom(s)'
<1> SUFFICES ASSUME ~Crossed(s)', status'[s] \in Quoting, Gone(s)' PROVE Ended(s)'
  BY DEF NotPhantom
<1>0. ~Crossed(s)
  BY UpsetStays DEF Crossed
<1>1. /\ UNCHANGED <<book, events, hedger, remaining, mkt, owed, filled>>
      /\ status'[s] = status[s] \/ status'[s] = "PENDING"
      /\ UNCHANGED traded \/ DiffStore
  <2>1. CASE MarketData
    BY <2>1 DEF MarketData, LookNew, LookModify, LookCancel, Begin, exchangeVars, strategyVars
  <2>2. CASE Quoter
    BY <2>2 DEF Quoter, MarkPending, Quote, Requote, Withdraw, exchangeVars, strategyVars, historyVars,
       LegInv, Typed
  <2>3. CASE Client
    BY <2>3 DEF Client, Difference, DiffTest, DiffStore, exchangeVars, strategyVars, historyVars
  <2>4. CASE UNCHANGED vars
    BY <2>4 DEF vars, exchangeVars, strategyVars, threadVars, historyVars
  <2> QED
    BY <2>1, <2>2, <2>3, <2>4
<1>2. Gone(s) /\ status[s] \in Quoting
  BY <1>1 DEF Gone, WorksFor, Quoting
<1>3. Ended(s)
  BY <1>0, <1>2 DEF NotPhantom
<1>4. (EndTold(s) => EndTold(s)') /\ (LastOut(s) => LastOut(s)')
  BY <1>1 DEF EndTold, LastOut
<1>5. traded'[s] = traded[s]
  <2>1. CASE UNCHANGED traded
    BY <2>1
  <2>2. CASE DiffStore
    <3>1. client.side # s => traded'[s] = traded[s]
      BY <2>2 DEF DiffStore, TypeInv, StrategyOK
    <3>2. ASSUME client.side = s PROVE FALSE
      <4>1. AtRest(s) /\ ~(filled[s][1] > 0)
        BY <2>2, <3>2 DEF DiffStore, UpsetIf, Crossed, TypeInv, HistoryOK
      <4>2. ~EndTold(s)
        BY <4>1 DEF AtRest, EndTold, Range
      <4>3. ~Loaded(s)
        BY <4>1 DEF AtRest, Loaded, InTrade
      <4> QED
        BY <1>3, <4>1, <4>2, <4>3 DEF Ended, RoundIsDone
    <3> QED
      BY <3>1, <3>2
  <2> QED
    BY <1>1, <2>1, <2>2
<1> QED
  BY <1>1, <1>3, <1>4, <1>5, EndedStays

\* Taking away one order leaves the others.
LEMMA OthersStay ==
    ASSUME NEW B, Market_OK(B), NEW m
    PROVE  BagToSet(B) \subseteq BagToSet(B (-) SetToBag({m})) \cup {m}
<1>1. SUFFICES ASSUME NEW k \in BagToSet(B), k # m PROVE k \in BagToSet(B (-) SetToBag({m}))
  OBVIOUS
<1> QED
  BY <1>1 DEF BagToSet, (-), SetToBag, Market_OK

\* What the last leg will hear of stays to be heard, or is owed.
LEMMA LastOutStays ==
    ASSUME LegInv, TypeInv, NEW s \in Sides, Answers \/ Trading, ~Crossed(s)', LastOut(s),
           NEW e, events' = Append(events, e)
    PROVE  LastOut(s)' \/ Last \in owed'[s]
<1>0. IsSeq(events)
  BY DEF LegInv, Typed
<1>1. Range(events') = Range(events) \cup {e} /\ UNCHANGED hedger
  <2>1. UNCHANGED hedger
    BY DEF Answers, AcceptNew, RefuseNew, DoModify, DoCancel, RefuseAsk, Trading, StopQuote, Fill,
       StopMarket, RefuseMarket, FillMarket, threadVars
  <2> QED
    BY <1>0, <2>1, AppendToQueue
<1>2. ASSUME BagToSet(mkt) \subseteq BagToSet(mkt') PROVE LastOut(s)'
  BY <1>1, <1>2 DEF LastOut
<1>3. CASE UNCHANGED mkt
  BY <1>2, <1>3
<1>4. CASE TradingInMarket
  <2>1. PICK m \in BagToSet(mkt) : StopMarket(m) \/ RefuseMarket(m) \/ \E k \in 1..m.lots : FillMarket(m, k)
    BY <1>4 DEF TradingInMarket
  <2>2. m \in Order
    BY DEF TypeInv, MarketOK
  <2>3. BagToSet(mkt) \subseteq BagToSet(Without(m)) \cup {m}
    BY OthersStay DEF Without, TypeInv, MarketOK
  <2>4. ASSUME BagToSet(Without(m)) \subseteq BagToSet(mkt'), ~IsLot(m, s, Last) PROVE LastOut(s)'
    BY <1>1, <2>3, <2>4 DEF LastOut
  <2>5. CASE StopMarket(m)
    <3>1. m.side # s
      BY <2>2, <2>5 DEF StopMarket, UpsetIf, Crossed, TypeInv, HistoryOK
    <3>2. mkt' = Without(m)
      BY <2>5 DEF StopMarket
    <3> QED
      BY <2>4, <3>1, <3>2 DEF IsLot
  <2>6. CASE RefuseMarket(m)
    <3>1. mkt' = Without(m) /\ (IsLot(m, s, Last) => Last \in owed'[s])
      BY <2>6 DEF RefuseMarket, IsLot, TypeInv, HistoryOK
    <3> QED
      BY <2>4, <3>1
  <2>7. ASSUME NEW k \in 1..m.lots, FillMarket(m, k) PROVE LastOut(s)'
    <3>1. e = [kind |-> "trade", side |-> m.side, leg |-> m.leg, lots |-> k, left |-> m.lots - k]
      <4> DEFINE f == [kind |-> "trade", side |-> m.side, leg |-> m.leg, lots |-> k, left |-> m.lots - k]
      <4>1. events' = Append(events, f)
        BY <2>7 DEF FillMarket, Report, Answer
      <4> HIDE DEF f
      <4>2. e = f
        <5>1. events'[Len(events) + 1] = e
          BY <1>0 DEF IsSeq
        <5>2. events'[Len(events) + 1] = f
          BY <1>0, <4>1 DEF IsSeq
        <5> QED
          BY <5>1, <5>2
      <4> QED
        BY <4>2 DEF f
    <3>2. e.kind = "trade" /\ e.side = m.side /\ e.leg = m.leg
      BY <3>1
    <3>3. CASE IsLot(m, s, Last)
      BY <1>1, <3>2, <3>3 DEF LastOut, IsFill, IsLot
    <3>4. CASE ~IsLot(m, s, Last)
      <4>1. BagToSet(Without(m)) \subseteq BagToSet(mkt')
        <5>1. CASE k = m.lots
          BY <2>7, <5>1 DEF FillMarket
        <5>2. CASE k # m.lots
          <6> DEFINE r == [m EXCEPT !.lots = @ - k]
          <6>1. mkt' = Without(m) (+) SetToBag({r})
            BY <2>7, <5>2 DEF FillMarket
          <6> HIDE DEF r
          <6>2. BagToSet(Without(m) (+) SetToBag({r})) = BagToSet(Without(m)) \cup {r}
            BY BagPlusOne
          <6> QED
            BY <6>1, <6>2
        <5> QED
          BY <5>1, <5>2
      <4> QED
        BY <2>4, <3>4, <4>1
    <3> QED
      BY <3>3, <3>4
  <2> QED
    BY <2>1, <2>5, <2>6, <2>7
<1>5. UNCHANGED mkt \/ TradingInMarket
  BY DEF Answers, AcceptNew, RefuseNew, DoModify, DoCancel, RefuseAsk, Trading, StopQuote, Fill,
     TradingInMarket
<1> QED
  BY <1>3, <1>4, <1>5

LEMMA ExchangePhantom ==
    ASSUME LegInv, TypeInv, Shapes, [Next]_vars, NEW s \in Sides, NotPhantom(s), Answers \/ Trading
    PROVE  NotPhantom(s)'
<1> SUFFICES ASSUME ~Crossed(s)', status'[s] \in Quoting, Gone(s)' PROVE Ended(s)'
  BY DEF NotPhantom
<1>0. ~Crossed(s) /\ IsSeq(events)
  BY UpsetStays DEF Crossed, LegInv, Typed
<1>1. UNCHANGED <<status, remaining, hedger, traded>>
  BY DEF Answers, AcceptNew, RefuseNew, DoModify, DoCancel, RefuseAsk, Trading, StopQuote, Fill,
     StopMarket, RefuseMarket, FillMarket, threadVars, strategyVars
<1>2. PICK e : events' = Append(events, e) /\ Tells(s, e)
  BY ExchangeTells
<1>3. CASE e.side = s /\ Finishes(e)
  BY <1>0, <1>2, <1>3, EndFollowsAppend DEF Ended
<1>4. CASE Gone(s)
  <2>1. Ended(s)
    BY <1>0, <1>1, <1>4 DEF NotPhantom
  <2>2. EndTold(s) => EndTold(s)'
    BY <1>0, <1>2, EndFollowsAppend
  <2>3. LastOut(s) => LastOut(s)' \/ Last \in owed'[s]
    BY <1>2, LastOutStays
  <2>4. Last \in owed[s] => Last \in owed'[s]
    BY DEF Answers, AcceptNew, RefuseNew, DoModify, DoCancel, RefuseAsk, Trading, StopQuote, Fill,
       StopMarket, RefuseMarket, FillMarket, historyVars, TypeInv, HistoryOK
  <2>5. filled[s][1] > 0 => filled'[s][1] > 0
    <3>1. CASE UNCHANGED filled
      BY <3>1
    <3>2. ASSUME NEW t, NEW l, NEW k \in Nat, filled' = [filled EXCEPT ![t][l] = @ + k]
          PROVE  filled[s][1] > 0 => filled'[s][1] > 0
      <4>1. filled \in [Sides -> [Legs -> Nat]] /\ 1 \in Legs
        BY LegsAndSides DEF TypeInv, HistoryOK
      <4>2. filled[s][1] \in Nat
        BY <4>1
      <4>3. filled'[s][1] = filled[s][1] \/ filled'[s][1] = filled[s][1] + k
        BY <3>2, <4>1
      <4> QED
        BY <4>2, <4>3
    <3>3. CASE Fills
      <4>0. PICK n \in DOMAIN book : \E k \in 1..book[n].lots : Fill(n, k)
        BY <3>3 DEF Fills
      <4>1. PICK k \in 1..book[n].lots : Fill(n, k)
        BY <4>0
      <4>2. filled' = [filled EXCEPT ![book[n].side][1] = @ + k] /\ k \in Nat
        BY <4>1 DEF Fill, Count
      <4> QED
        BY <3>2, <4>2
    <3>4. CASE TradingInMarket
      <4>1. PICK m \in BagToSet(mkt) : StopMarket(m) \/ RefuseMarket(m) \/ \E k \in 1..m.lots : FillMarket(m, k)
        BY <3>4 DEF TradingInMarket
      <4>2. CASE StopMarket(m) \/ RefuseMarket(m)
        BY <3>1, <4>2 DEF StopMarket, RefuseMarket
      <4>3. ASSUME NEW k \in 1..m.lots, FillMarket(m, k) PROVE filled[s][1] > 0 => filled'[s][1] > 0
        <5>1. filled' = [filled EXCEPT ![m.side][m.leg] = @ + k] /\ k \in Nat
          BY <4>3 DEF FillMarket, Count
        <5> QED
          BY <3>2, <5>1
      <4> QED
        BY <4>1, <4>2, <4>3
    <3>5. CASE Answers \/ \E n \in DOMAIN book : StopQuote(n)
      BY <3>1, <3>5 DEF Answers, AcceptNew, RefuseNew, DoModify, DoCancel, RefuseAsk, StopQuote, historyVars
    <3> QED
      BY <3>3, <3>4, <3>5 DEF Trading, Fills, TradingInMarket
  <2> QED
    BY <1>1, <2>1, <2>2, <2>3, <2>4, <2>5, EndedStays
<1> QED
  BY <1>2, <1>3, <1>4 DEF Tells

LEMMA PhantomStep ==
    LegInv /\ LotsInv /\ LegInv' /\ LotsInv' /\ CountInv /\ HedgeInv /\ Shapes /\ PhantomInv /\ [Next]_vars
      => PhantomInv'
<1> SUFFICES ASSUME LegInv, LotsInv, LegInv', LotsInv', CountInv, HedgeInv, Shapes, PhantomInv, [Next]_vars,
                    NEW s \in Sides
             PROVE  EndComes(s)' /\ NotPhantom(s)'
  BY DEF PhantomInv
<1>1. EndComes(s) /\ NotPhantom(s) /\ TypeInv
  BY DEF PhantomInv, LotsInv
<1>2. EndComes(s)'
  BY <1>1, EndComesStep
<1>3. CASE MarketData \/ Quoter \/ Client \/ UNCHANGED vars
  BY <1>1, <1>2, <1>3, DecisionPhantom
<1>4. CASE SettlingHandler \/ SelfTradeStopped
  BY <1>1, <1>2, <1>4, SettlingPhantom
<1>5. CASE TradeLoad \/ TradeStore \/ TradeSize \/ TradeHedge \/ HedgeStore
  BY <1>1, <1>2, <1>5, RoundPhantom
<1>6. CASE Answers \/ Trading
  BY <1>1, <1>2, <1>6, ExchangePhantom
<1> QED
  BY <1>3, <1>4, <1>5, <1>6 DEF Next, EventHandler, SettlingHandler

\* A side whose quoted order is no more will be told of its end, or its round is done and the last
\* leg hears of it yet (ORDER_CXL_CONFIRMATION_TR, TRADE_CONFIRMATION_TR).
THEOREM PhantomInvariant == Spec => []PhantomInv
<1>1. Init => PhantomInv
  <2> SUFFICES ASSUME Init, NEW s \in Sides PROVE EndComes(s) /\ NotPhantom(s)
    BY DEF PhantomInv
  <2>1. status[s] = "NONE" /\ events = <<>> /\ hedger = Idle
    BY DEF Init
  <2>2. DOMAIN events = {}
    BY <2>1
  <2>3. EndComes(s)
    BY <2>1, <2>2 DEF EndComes, EndFollows, Loaded, InTrade
  <2> QED
    BY <2>1, <2>3 DEF NotPhantom, Quoting
<1> QED
  BY <1>1, PhantomStep, LegInvariant, LotsInvariant, OneOrderInvariant, CountsInvariant, HedgeInvariant, PTL
     DEF Spec, OneOrderInv

\* A sum is no less than any of its terms.
LEMMA TermOfTotal ==
    ASSUME NEW f, Amounts(f), NEW x \in DOMAIN f
    PROVE  f[x] <= Total(f)
<1> DEFINE g == [y \in DOMAIN f \ {x} |-> f[y]]
<1>1. DOMAIN g = DOMAIN f \ {x} /\ \A y \in DOMAIN g : g[y] = f[y]
  OBVIOUS
<1> HIDE DEF g
<1>2. Amounts(g) /\ Total(f) = Total(g) + f[x]
  BY <1>1, TotalSplit
<1>3. Total(g) \in Nat /\ f[x] \in Nat
  BY <1>2, UnitsFinite DEF Amounts
<1> QED
  BY <1>2, <1>3

\* A side at rest whose status says that an order is quoted has that order, once whole units have
\* traded (TRADE_CONFIRMATION_TR sets TRADE with the last hedge, ORDER_CXL_CONFIRMATION_TR CANCEL).
THEOREM QuotedOrdersWork == Spec => []NoPhantomOrder
<1>1. LegInv /\ LotsInv /\ PhantomInv => NoPhantomOrder
  <2> SUFFICES ASSUME LegInv, TypeInv, PhantomInv, NEW s \in Sides, status[s] \in Quoting, hedger = Idle,
                      \A i \in DOMAIN events : events[i].side # s,
                      \A l \in Hedges : InMarket(s, l) = 0,
                      traded[s][1] % Ratio[1] = 0, ~Crossed(s), Last \notin owed[s]
               PROVE  Working(s) > 0
    BY DEF NoPhantomOrder, LotsInv, Crossed
  <2>1. ~EndTold(s) /\ ~Loaded(s) /\ ~InTradeOf(s, "hedge")
    BY DEF EndTold, Range, Loaded, InTradeOf, InTrade
  <2>2. ~LastOut(s)
    <3>1. ASSUME NEW m \in BagToSet(mkt), IsLot(m, s, Last) PROVE FALSE
      <4> DEFINE D == {k \in BagToSet(mkt) : IsLot(k, s, Last)}
                 f == [k \in D |-> k.lots * mkt[k]]
      <4>1. InMarket(s, Last) = Total(f)
        BY MarketIsBag DEF InBag
      <4>2. Amounts(f)
        BY BagAmounts DEF TypeInv, MarketOK
      <4>3. m \in DOMAIN f /\ f[m] = m.lots * mkt[m]
        BY <3>1
      <4> HIDE DEF f
      <4>4. f[m] <= Total(f) /\ Total(f) \in Nat /\ f[m] \in Nat
        BY <4>2, <4>3, TermOfTotal, UnitsFinite DEF Amounts
      <4>5. m.lots \in Nat \ {0} /\ mkt[m] \in Nat \ {0}
        BY DEF TypeInv, MarketOK, Market_OK, Order, BagToSet
      <4>6. m.lots * mkt[m] > 0
        <5>1. m.lots * 1 <= m.lots * mkt[m] /\ m.lots * 1 = m.lots /\ m.lots * mkt[m] \in Nat
          BY <4>5, TimesMono
        <5> QED
          BY <4>5, <5>1
      <4> QED
        BY <4>1, <4>3, <4>4, <4>6, LegsAreNumbered
    <3> QED
      BY <3>1 DEF LastOut, IsFill, Range
  <2>3. ~Gone(s)
    BY <2>1, <2>2 DEF PhantomInv, NotPhantom, Ended, RoundIsDone
  <2>4. PICK n \in DOMAIN book : WorksFor(s, n)
    BY <2>3 DEF Gone
  <2> DEFINE D == {k \in DOMAIN book : book[k].side = s}
             f == [k \in D |-> book[k].lots]
  <2>5. Working(s) = Total(f)
    BY DEF Working
  <2>6. Amounts(f)
    <3>1. IsFiniteSet(D)
      BY FS_Subset DEF LegInv, Typed
    <3>2. \A k \in D : book[k].lots \in Nat
      BY DEF TypeInv, BookOK
    <3> QED
      BY <3>1, <3>2 DEF Amounts
  <2>7. n \in DOMAIN f /\ f[n] = book[n].lots /\ book[n].lots > 0
    BY <2>4 DEF WorksFor
  <2> HIDE DEF f
  <2>8. f[n] <= Total(f) /\ Total(f) \in Nat /\ f[n] \in Nat
    BY <2>6, <2>7, TermOfTotal, UnitsFinite DEF Amounts
  <2> QED
    BY <2>5, <2>7, <2>8
<1> QED
  BY <1>1, LegInvariant, LotsInvariant, PhantomInvariant, PTL
=============================================================================
