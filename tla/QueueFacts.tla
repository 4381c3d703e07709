----------------------------- MODULE QueueFacts -----------------------------
(***************************************************************************)
(* Facts about the queues of the models, kept where several proofs need    *)
(* them: what a sequence owns, and what appending, popping and taking over *)
(* do to it.                                                               *)
(***************************************************************************)
EXTENDS Integers, Sequences, FiniteSets, Sums, FiniteSetTheorems, TLAPS

Owned(s) == {s[i] : i \in DOMAIN s}
Injective(s) == \A i, j \in DOMAIN s : s[i] = s[j] => i = j

\* Appending an element adds it to what the queue owns.
LEMMA AppendOwns ==
  ASSUME NEW S, NEW s \in Seq(S), NEW x \in S
  PROVE  /\ Append(s, x) \in Seq(S)
         /\ Owned(Append(s, x)) = Owned(s) \cup {x}
         /\ Injective(s) /\ x \notin Owned(s) => Injective(Append(s, x))
<1>1. /\ Append(s, x) \in Seq(S) /\ DOMAIN Append(s, x) = 1 .. Len(s) + 1
      /\ DOMAIN s = 1 .. Len(s) /\ Len(s) \in Nat
      /\ \A i \in 1 .. Len(s) : Append(s, x)[i] = s[i]
      /\ Append(s, x)[Len(s) + 1] = x
  OBVIOUS
<1>2. Owned(Append(s, x)) = Owned(s) \cup {x}
  <2>1. 1 .. Len(s) + 1 = (1 .. Len(s)) \cup {Len(s) + 1}
    BY <1>1
  <2> QED BY <1>1, <2>1 DEF Owned
<1>3. ASSUME Injective(s), x \notin Owned(s)
      PROVE  Injective(Append(s, x))
  BY <1>1, <1>3 DEF Injective, Owned
<1> QED BY <1>1, <1>2, <1>3

\* Popping the head removes it from what the queue owns.
LEMMA PopOwns ==
  ASSUME NEW S, NEW s \in Seq(S), s # <<>>
  PROVE  /\ Head(s) \in S /\ Tail(s) \in Seq(S)
         /\ Head(s) \in Owned(s)
         /\ Owned(s) = Owned(Tail(s)) \cup {Head(s)}
         /\ Injective(s) => Injective(Tail(s)) /\ Head(s) \notin Owned(Tail(s))
<1>1. /\ DOMAIN s = 1 .. Len(s) /\ Len(s) \in Nat /\ Len(s) # 0
      /\ Tail(s) \in Seq(S) /\ DOMAIN Tail(s) = 1 .. Len(s) - 1
      /\ \A i \in 1 .. Len(s) - 1 : Tail(s)[i] = s[i + 1]
      /\ Head(s) = s[1] /\ Head(s) \in S
  OBVIOUS
<1>2. Head(s) \in Owned(s)
  BY <1>1 DEF Owned
<1>3. Owned(s) = Owned(Tail(s)) \cup {Head(s)}
  <2>1. ASSUME NEW y \in Owned(s) PROVE y \in Owned(Tail(s)) \cup {Head(s)}
    <3>1. PICK i \in 1 .. Len(s) : y = s[i]
      BY <2>1, <1>1 DEF Owned
    <3>2. CASE i = 1
      BY <3>1, <3>2, <1>1
    <3>3. CASE i # 1
      <4>1. i - 1 \in DOMAIN Tail(s) /\ Tail(s)[i - 1] = s[i]
        BY <3>1, <3>3, <1>1
      <4> QED BY <3>1, <4>1 DEF Owned
    <3> QED BY <3>2, <3>3
  <2>2. ASSUME NEW y \in Owned(Tail(s)) PROVE y \in Owned(s)
    <3>1. PICK i \in 1 .. Len(s) - 1 : y = Tail(s)[i]
      BY <2>2, <1>1 DEF Owned
    <3> QED BY <3>1, <1>1 DEF Owned
  <2> QED BY <2>1, <2>2, <1>2
<1>4. ASSUME Injective(s) PROVE Injective(Tail(s)) /\ Head(s) \notin Owned(Tail(s))
  BY <1>1, <1>4 DEF Injective, Owned
<1> QED BY <1>1, <1>2, <1>3, <1>4

\* What a supervisor takes over: the active write before the queued ones.
LEMMA TakeOverOwns ==
  ASSUME NEW S, NEW s \in Seq(S), NEW x \in S
  PROVE  /\ <<x>> \o s \in Seq(S)
         /\ Owned(<<x>> \o s) = Owned(s) \cup {x}
         /\ Injective(s) /\ x \notin Owned(s) => Injective(<<x>> \o s)
<1>1. /\ <<x>> \o s \in Seq(S) /\ DOMAIN (<<x>> \o s) = 1 .. Len(s) + 1
      /\ DOMAIN s = 1 .. Len(s) /\ Len(s) \in Nat
      /\ \A i \in 2 .. Len(s) + 1 : (<<x>> \o s)[i] = s[i - 1]
      /\ (<<x>> \o s)[1] = x
  OBVIOUS
<1>2. ASSUME NEW y \in Owned(s) PROVE y \in Owned(<<x>> \o s)
  <2>1. PICK i \in 1 .. Len(s) : y = s[i]
    BY <1>1 DEF Owned
  <2>2. i + 1 \in DOMAIN (<<x>> \o s) /\ y = (<<x>> \o s)[i + 1]
    BY <1>1, <2>1
  <2> QED BY <2>2, Zenon DEF Owned
<1>3. ASSUME NEW y \in Owned(<<x>> \o s) PROVE y \in Owned(s) \cup {x}
  BY <1>1 DEF Owned
<1>4. x \in Owned(<<x>> \o s)
  BY <1>1 DEF Owned
<1>5. ASSUME Injective(s), x \notin Owned(s) PROVE Injective(<<x>> \o s)
  BY <1>1, <1>5 DEF Injective, Owned
<1> QED BY <1>1, <1>2, <1>3, <1>4, <1>5

\* A queue appended to a queue that has nothing in common with it.
LEMMA ConcatOwns ==
  ASSUME NEW S, NEW s \in Seq(S), NEW t \in Seq(S)
  PROVE  /\ s \o t \in Seq(S)
         /\ Owned(s \o t) = Owned(s) \cup Owned(t)
         /\ Injective(s) /\ Injective(t) /\ Owned(s) \cap Owned(t) = {} => Injective(s \o t)
<1>1. /\ s \o t \in Seq(S) /\ DOMAIN (s \o t) = 1 .. Len(s) + Len(t)
      /\ DOMAIN s = 1 .. Len(s) /\ Len(s) \in Nat
      /\ DOMAIN t = 1 .. Len(t) /\ Len(t) \in Nat
      /\ \A i \in 1 .. Len(s) : (s \o t)[i] = s[i]
      /\ \A i \in Len(s) + 1 .. Len(s) + Len(t) : (s \o t)[i] = t[i - Len(s)]
  OBVIOUS
<1>2. ASSUME NEW y \in Owned(s \o t) PROVE y \in Owned(s) \cup Owned(t)
  <2>1. PICK i \in 1 .. Len(s) + Len(t) : y = (s \o t)[i]
    BY <1>1, <1>2 DEF Owned
  <2>2. CASE i \in 1 .. Len(s)
    BY <1>1, <2>1, <2>2 DEF Owned
  <2>3. CASE i \notin 1 .. Len(s)
    <3>1. i - Len(s) \in DOMAIN t /\ y = t[i - Len(s)]
      BY <1>1, <2>1, <2>3
    <3> QED BY <3>1 DEF Owned
  <2> QED BY <2>2, <2>3
<1>3. ASSUME NEW y \in Owned(t) PROVE y \in Owned(s \o t)
  <2>1. PICK i \in 1 .. Len(t) : y = t[i]
    BY <1>1, <1>3 DEF Owned
  <2>2. i + Len(s) \in DOMAIN (s \o t) /\ y = (s \o t)[i + Len(s)]
    BY <1>1, <2>1
  <2> QED BY <2>2, Zenon DEF Owned
<1>4. ASSUME NEW y \in Owned(s) PROVE y \in Owned(s \o t)
  BY <1>1, <1>4 DEF Owned
<1>5. ASSUME Injective(s), Injective(t), Owned(s) \cap Owned(t) = {},
             NEW i \in DOMAIN (s \o t), NEW j \in DOMAIN (s \o t), (s \o t)[i] = (s \o t)[j]
      PROVE  i = j
  <2>1. ASSUME NEW k \in DOMAIN (s \o t), k \notin 1 .. Len(s)
        PROVE  k - Len(s) \in DOMAIN t /\ (s \o t)[k] = t[k - Len(s)] /\ k \in Int
    BY <1>1, <2>1
  <2>2. CASE i \in 1 .. Len(s) /\ j \in 1 .. Len(s)
    BY <1>1, <1>5, <2>2 DEF Injective
  <2>3. CASE i \notin 1 .. Len(s) /\ j \notin 1 .. Len(s)
    <3>1. i - Len(s) = j - Len(s)
      BY <1>5, <2>1, <2>3 DEF Injective
    <3> QED BY <1>1, <2>1, <2>3, <3>1
  <2>4. CASE i \in 1 .. Len(s) /\ j \notin 1 .. Len(s)
    BY <1>1, <1>5, <2>1, <2>4 DEF Owned
  <2>5. CASE i \notin 1 .. Len(s) /\ j \in 1 .. Len(s)
    BY <1>1, <1>5, <2>1, <2>5 DEF Owned
  <2> QED BY <2>2, <2>3, <2>4, <2>5
<1>6. ASSUME Injective(s), Injective(t), Owned(s) \cap Owned(t) = {} PROVE Injective(s \o t)
  BY <1>5, <1>6 DEF Injective
<1> QED BY <1>1, <1>2, <1>3, <1>4, <1>6

\* Taking the last element removes it from what the queue owns.
LEMMA LastOwns ==
  ASSUME NEW S, NEW s \in Seq(S), s # <<>>
  PROVE  /\ SubSeq(s, 1, Len(s) - 1) \in Seq(S) /\ s[Len(s)] \in S
         /\ s[Len(s)] \in Owned(s)
         /\ Injective(s) => /\ Injective(SubSeq(s, 1, Len(s) - 1))
                            /\ Owned(SubSeq(s, 1, Len(s) - 1)) = Owned(s) \ {s[Len(s)]}
<1>1. PICK n, t : n = Len(s) - 1 /\ t = SubSeq(s, 1, n)
  OBVIOUS
<1>2. /\ DOMAIN s = 1 .. n + 1 /\ n \in Nat /\ Len(s) = n + 1
  BY <1>1
<1>3. t \in Seq(S) /\ DOMAIN t = 1 .. n /\ \A i \in 1 .. n : t[i] = s[i]
  BY <1>1, <1>2
<1>4. s[n + 1] \in S /\ s[n + 1] \in Owned(s)
  BY <1>2 DEF Owned
<1>5. ASSUME Injective(s) PROVE Injective(t) /\ Owned(t) = Owned(s) \ {s[n + 1]}
  <2>1. Injective(t)
    BY <1>2, <1>3, <1>5 DEF Injective
  <2>2. ASSUME NEW y \in Owned(t) PROVE y \in Owned(s) \ {s[n + 1]}
    <3>1. PICK i \in 1 .. n : y = t[i]
      BY <1>3, <2>2 DEF Owned
    <3>2. i \in DOMAIN s /\ y = s[i] /\ i # n + 1 /\ n + 1 \in DOMAIN s
      BY <1>2, <1>3, <3>1
    <3> QED BY <1>5, <3>2 DEF Owned, Injective
  <2>3. ASSUME NEW y \in Owned(s) \ {s[n + 1]} PROVE y \in Owned(t)
    <3>1. PICK i \in 1 .. n + 1 : y = s[i]
      BY <1>2, <2>3 DEF Owned
    <3>2. i \in DOMAIN t /\ y = t[i]
      BY <1>2, <1>3, <2>3, <3>1
    <3> QED BY <3>2 DEF Owned
  <2> QED BY <2>1, <2>2, <2>3
<1> QED BY <1>1, <1>2, <1>3, <1>4, <1>5

\* The largest initial interval counts itself.
LEMMA IntervalSize ==
  ASSUME NEW n \in Nat
  PROVE  IsFiniteSet(1 .. n) /\ Cardinality(1 .. n) = n
  BY FS_Interval

\* An enumeration without repetition of as many elements as a finite set has owns the set.
LEMMA EnumerationOwns ==
  ASSUME NEW T, IsFiniteSet(T), NEW s \in [1 .. Cardinality(T) -> T], Injective(s)
  PROVE  s \in Seq(T) /\ Owned(s) = T
<1>1. Cardinality(T) \in Nat
  BY FS_CardinalityType
<1>2. s \in Seq(T) /\ DOMAIN s = 1 .. Cardinality(T)
  BY <1>1
<1>3. s \in Injection(1 .. Cardinality(T), T)
  BY <1>2 DEF Injection, IsInjective, Injective
<1>4. Cardinality(1 .. Cardinality(T)) = Cardinality(T)
  BY <1>1, IntervalSize
<1>5. s \in Surjection(1 .. Cardinality(T), T)
  BY <1>3, <1>4, FS_Injection
<1> QED BY <1>2, <1>5 DEF Surjection, Owned

\* Nothing is owned through an empty queue.
LEMMA EmptyOwns == Owned(<<>>) = {} /\ Injective(<<>>)
  BY DEF Owned, Injective

-----------------------------------------------------------------------------
(* Sums. *)

\* Units are counted owner by owner.
LEMMA UnitsFinite ==
  ASSUME NEW S, IsFiniteSet(S), NEW f, \A x \in S : f[x] \in Nat
  PROVE  IsFiniteSet(Units(f, S)) /\ Cardinality(Units(f, S)) \in Nat
<1> DEFINE U == {{x} \X (1 .. f[x]) : x \in S}
<1>1. IsFiniteSet(U)
  <2> DEFINE box == [x \in S |-> {x} \X (1 .. f[x])]
  <2>1. box \in Surjection(S, U)
    BY DEF Surjection
  <2> QED BY <2>1, FS_Surjection
<1>2. ASSUME NEW u \in U PROVE IsFiniteSet(u)
  <2>1. PICK x \in S : u = {x} \X (1 .. f[x])
    OBVIOUS
  <2>2. IsFiniteSet({x}) /\ IsFiniteSet(1 .. f[x])
    BY FS_Singleton, IntervalSize
  <2> QED BY <2>1, <2>2, FS_Product
<1>3. IsFiniteSet(UNION U)
  BY <1>1, <1>2, FS_UNION
<1> QED BY <1>3, FS_CardinalityType DEF Units

\* Larger charges make a larger sum.
LEMMA TotalMonotone ==
  ASSUME NEW S, IsFiniteSet(S), NEW f \in [S -> Nat], NEW g \in [S -> Nat],
         \A x \in S : f[x] <= g[x]
  PROVE  Total(f) \in Nat /\ Total(g) \in Nat /\ Total(f) <= Total(g)
<1>1. Total(f) = Cardinality(Units(f, S)) /\ Total(g) = Cardinality(Units(g, S))
  BY DEF Total, Units
<1>2. Units(f, S) \subseteq Units(g, S)
  <2>1. ASSUME NEW x \in S PROVE (1 .. f[x]) \subseteq (1 .. g[x])
    BY <2>1
  <2> QED BY <2>1 DEF Units
<1>3. /\ IsFiniteSet(Units(f, S)) /\ Cardinality(Units(f, S)) \in Nat
      /\ IsFiniteSet(Units(g, S)) /\ Cardinality(Units(g, S)) \in Nat
  BY UnitsFinite
<1> QED BY <1>1, <1>2, <1>3, FS_Subset

\* A part of a table with smaller charges makes a smaller sum.
LEMMA TotalFewer ==
  ASSUME NEW T, IsFiniteSet(T), NEW S \in SUBSET T, NEW f \in [S -> Nat], NEW g \in [T -> Nat],
         \A x \in S : f[x] <= g[x]
  PROVE  Total(f) \in Nat /\ Total(g) \in Nat /\ Total(f) <= Total(g)
<1>1. Total(f) = Cardinality(Units(f, S)) /\ Total(g) = Cardinality(Units(g, T))
  BY DEF Total, Units
<1>2. Units(f, S) \subseteq Units(g, T)
  <2>1. ASSUME NEW x \in S PROVE (1 .. f[x]) \subseteq (1 .. g[x])
    BY <2>1
  <2> QED BY <2>1 DEF Units
<1>3. IsFiniteSet(S)
  BY FS_Subset
<1>4. /\ IsFiniteSet(Units(f, S)) /\ Cardinality(Units(f, S)) \in Nat
      /\ IsFiniteSet(Units(g, T)) /\ Cardinality(Units(g, T)) \in Nat
  BY <1>3, UnitsFinite
<1> QED BY <1>1, <1>2, <1>4, FS_Subset

\* One charge changes: the sum changes by as much.
LEMMA TotalReplaced ==
  ASSUME NEW S, IsFiniteSet(S), NEW f \in [S -> Nat], NEW g \in [S -> Nat],
         NEW x \in S, \A y \in S \ {x} : f[y] = g[y]
  PROVE  /\ Total(f) \in Nat /\ Total(g) \in Nat /\ f[x] <= Total(f)
         /\ Total(g) = Total(f) - f[x] + g[x]
<1> DEFINE R == S \ {x}
<1>1. ASSUME NEW h \in [S -> Nat]
      PROVE  /\ Total(h) = Cardinality(Units(h, R)) + h[x]
             /\ Cardinality(Units(h, R)) \in Nat /\ h[x] \in Nat
  <2>1. DOMAIN h = S /\ Units(h, S) = Units(h, R) \cup ({x} \X (1 .. h[x]))
    BY DEF Units
  <2>2. Units(h, R) \cap ({x} \X (1 .. h[x])) = {}
    BY DEF Units
  <2>3. IsFiniteSet(R)
    BY FS_Subset
  <2>4. IsFiniteSet(Units(h, R)) /\ Cardinality(Units(h, R)) \in Nat
    BY <2>3, UnitsFinite
  <2>5. /\ IsFiniteSet({x}) /\ Cardinality({x}) = 1
        /\ IsFiniteSet(1 .. h[x]) /\ Cardinality(1 .. h[x]) = h[x] /\ h[x] \in Nat
    BY FS_Singleton, IntervalSize
  <2>6. /\ IsFiniteSet({x} \X (1 .. h[x]))
        /\ Cardinality({x} \X (1 .. h[x])) = 1 * h[x]
    BY <2>5, FS_Product
  <2>7. Cardinality({}) = 0
    BY FS_EmptySet
  <2>8. Cardinality(Units(h, S)) = Cardinality(Units(h, R)) + h[x]
    <3>1. PICK A, B : A = Units(h, R) /\ B = {x} \X (1 .. h[x])
      OBVIOUS
    <3>2. IsFiniteSet(A) /\ IsFiniteSet(B)
      BY <3>1, <2>4, <2>6
    <3>3. Cardinality(A \cup B) = Cardinality(A) + Cardinality(B) - Cardinality(A \cap B)
      BY <3>2, FS_Union
    <3>4. A \cap B = {} /\ Units(h, S) = A \cup B
      BY <3>1, <2>1, <2>2
    <3>5. Cardinality(A) = Cardinality(Units(h, R)) /\ Cardinality(B) = h[x]
      BY <3>1, <2>5, <2>6
    <3>6. /\ Cardinality(A \cap B) = 0
          /\ Cardinality(Units(h, S)) = Cardinality(A \cup B)
      BY <3>4, <2>7, Zenon
    <3> HIDE DEF R
    <3> QED BY <3>3, <3>5, <3>6, <2>4, <2>5
  <2> QED BY <2>1, <2>4, <2>5, <2>8 DEF Total, Units
<1>2. Units(f, R) = Units(g, R)
  BY DEF Units
<1> QED BY <1>1, <1>2

\* A table of zeros adds up to nothing.
LEMMA TotalZero ==
  ASSUME NEW S, NEW f, f = [x \in S |-> 0]
  PROVE  Total(f) = 0
<1>1. Units(f, DOMAIN f) = {}
  <2>1. \A x \in DOMAIN f : (1 .. f[x]) = {}
    OBVIOUS
  <2> QED BY <2>1 DEF Units
<1> QED BY <1>1, FS_EmptySet, Zenon DEF Total

\* A table with one more entry.
LEMMA TotalExtended ==
  ASSUME NEW S, IsFiniteSet(S), NEW x, x \notin S,
         NEW f \in [S -> Nat], NEW g \in [S \cup {x} -> Nat], \A y \in S : f[y] = g[y]
  PROVE  /\ Total(f) \in Nat /\ Total(g) \in Nat
         /\ Total(g) = Total(f) + g[x]
<1> DEFINE T == S \cup {x}
           h == [y \in T |-> IF y = x THEN 0 ELSE f[y]]
<1>1. IsFiniteSet(T)
  BY FS_AddElement
<1>2. h \in [T -> Nat] /\ x \in T /\ h[x] = 0 /\ \A y \in T \ {x} : h[y] = g[y]
  OBVIOUS
<1>3. Total(h) \in Nat /\ Total(g) \in Nat /\ Total(g) = Total(h) - h[x] + g[x] /\ g[x] \in Nat
  <2> HIDE DEF T, h
  <2>1. g \in [T -> Nat]
    BY DEF T
  <2> QED BY <1>1, <1>2, <2>1, TotalReplaced
<1>4. Units(h, DOMAIN h) = Units(f, DOMAIN f)
  <2>1. DOMAIN h = T /\ DOMAIN f = S
    OBVIOUS
  <2>2. Units(h, T) = Units(h, S) \cup ({x} \X (1 .. h[x]))
    <3> HIDE DEF h
    <3> QED BY DEF Units
  <2>3. {x} \X (1 .. h[x]) = {}
    BY <1>2
  <2>4. Units(h, S) = Units(f, S)
    <3>1. \A y \in S : h[y] = f[y]
      OBVIOUS
    <3> QED BY <3>1 DEF Units
  <2> QED BY <2>1, <2>2, <2>3, <2>4
<1>5. Total(h) = Total(f)
  BY <1>4 DEF Total
<1> QED BY <1>2, <1>3, <1>5

\* A table with one entry less.
LEMMA TotalPart ==
  ASSUME NEW S, IsFiniteSet(S), NEW x \in S,
         NEW f \in [S -> Nat], NEW g \in [S \ {x} -> Nat], \A y \in S \ {x} : f[y] = g[y]
  PROVE  /\ Total(f) \in Nat /\ Total(g) \in Nat
         /\ Total(f) = Total(g) + f[x]
<1>1. IsFiniteSet(S \ {x}) /\ x \notin S \ {x} /\ (S \ {x}) \cup {x} = S
  BY FS_Subset
<1>2. f \in [(S \ {x}) \cup {x} -> Nat] /\ \A y \in S \ {x} : g[y] = f[y]
  BY <1>1
<1> QED BY <1>1, <1>2, TotalExtended
=============================================================================
