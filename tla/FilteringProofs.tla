-------------------------- MODULE FilteringProofs --------------------------
(***************************************************************************)
(* Lemmas that the proofs of the components share: induction, the loops    *)
(* that filter a list, membership and counting, and sums over finite sets. *)
(*                                                                         *)
(* Induction is over a set of numbers or of sequences instead of over an   *)
(* operator, so that a proof names the set with DEFINE and the first-order *)
(* provers can use the lemma.  The base is that < is well-founded on Nat.  *)
(***************************************************************************)
EXTENDS Filtering, FiniteSets, WellFoundedInduction, NaturalsInduction, SequenceTheorems,
        FiniteSetTheorems, FunctionTheorems, TLAPS

\* A nonempty set of natural numbers has a least element.
LEMMA LeastNat ==
    ASSUME NEW T, T \subseteq Nat, T # {}
    PROVE  \E x \in T : \A y \in T : x <= y
<1> DEFINE R == OpToRel(<, Nat)
<1>1. IsWellFoundedOn(R, Nat)
  BY NatLessThanWellFounded
<1>2. \A x, y \in Nat : y < x => <<y, x>> \in R
  BY DEF OpToRel
<1> HIDE DEF R
<1>3. PICK x \in T : \A y \in T : ~(<<y, x>> \in R)
  BY <1>1, WFMin
<1>4. \A y \in T : ~(y < x)
  BY <1>2, <1>3
<1>5. \A y \in T : x <= y
  BY <1>4
<1> QED BY <1>5

\* A nonempty bounded set of natural numbers has a greatest element.
LEMMA GreatestNat ==
    ASSUME NEW T, T \subseteq Nat, T # {}, NEW n \in Nat, \A t \in T : t <= n
    PROVE  \E x \in T : \A y \in T : y <= x
<1> DEFINE U == {n - t : t \in T}
<1>1. U \subseteq Nat /\ U # {}
  <2>1. \A t \in T : n - t \in Nat
    OBVIOUS
  <2>2. PICK t \in T : TRUE
    OBVIOUS
  <2> QED BY <2>1, <2>2
<1> HIDE DEF U
<1>2. PICK u \in U : \A v \in U : u <= v
  BY <1>1, LeastNat
<1> USE DEF U
<1>3. PICK x \in T : u = n - x
  BY <1>2
<1>4. \A y \in T : n - x <= n - y
  BY <1>2, <1>3
<1> QED BY <1>3, <1>4

\* A set with 0 that is closed under successor holds every natural number.
LEMMA InductionOnNat ==
    ASSUME NEW S, 0 \in S, \A n \in Nat : n \in S => n + 1 \in S
    PROVE  \A n \in Nat : n \in S
<1> SUFFICES ASSUME Nat \ S # {} PROVE FALSE
  OBVIOUS
<1>1. PICK x \in Nat \ S : \A y \in Nat \ S : x <= y
  BY LeastNat
<1>2. x # 0 /\ x - 1 \in Nat
  BY <1>1
<1>3. x - 1 \in S
  BY <1>1, <1>2
<1>4. (x - 1) + 1 = x
  BY <1>1
<1> QED BY <1>1, <1>2, <1>3, <1>4

\* A set with the empty sequence that is closed under Append holds every sequence.
LEMMA InductionOnSeq ==
    ASSUME NEW X, NEW P,
           <<>> \in P,
           \A q \in Seq(X), x \in X : q \in P => Append(q, x) \in P
    PROVE  \A q \in Seq(X) : q \in P
<1> DEFINE N == {n \in Nat : \A q \in Seq(X) : Len(q) = n => q \in P}
<1>1. 0 \in N
  <2> SUFFICES ASSUME NEW q \in Seq(X), Len(q) = 0 PROVE q \in P
    OBVIOUS
  <2> q = <<>>
    BY EmptySeq
  <2> QED OBVIOUS
<1>2. \A n \in Nat : n \in N => n + 1 \in N
  <2> SUFFICES ASSUME NEW n \in Nat, n \in N, NEW q \in Seq(X), Len(q) = n + 1
               PROVE  q \in P
    OBVIOUS
  <2> DEFINE p == SubSeq(q, 1, n)
  <2>1. p \in Seq(X) /\ Len(p) = n /\ q[n + 1] \in X
    BY SMT
  <2>2. q = Append(p, q[n + 1])
    BY <2>1
  <2>3. p \in P
    BY <2>1
  <2> QED BY <2>1, <2>2, <2>3
<1> HIDE DEF N
<1>3. \A n \in Nat : n \in N
  BY <1>1, <1>2, InductionOnNat
<1> QED BY <1>3 DEF N

\* f is the m-step iteration of h that starts with a.
Iterates(f, T, a, h, m) ==
    /\ f \in [0 .. m -> T]
    /\ f[0] = a
    /\ \A n \in 1 .. m : f[n] = h[n][f[n - 1]]

\* A function to apply at each step.
Steppers(T) == [Nat -> [T -> T]]

\* A loop of m steps has a run: the sequence of its intermediate results exists.
LEMMA Iteration ==
    ASSUME NEW T, NEW a \in T, NEW h \in Steppers(T)
    PROVE  \A m \in Nat : \E f : Iterates(f, T, a, h, m)
<1> DEFINE N == {m \in Nat : \E f : Iterates(f, T, a, h, m)}
<1>1. 0 \in N
  <2> DEFINE f == [i \in 0 .. 0 |-> a]
  <2>1. Iterates(f, T, a, h, 0)
    BY DEF Iterates
  <2> HIDE DEF f
  <2> QED BY <2>1
<1>2. \A m \in Nat : m \in N => m + 1 \in N
  <2> SUFFICES ASSUME NEW m \in Nat, m \in N PROVE m + 1 \in N
    OBVIOUS
  <2>1. PICK f : Iterates(f, T, a, h, m)
    OBVIOUS
  <2> DEFINE g == [i \in 0 .. (m + 1) |-> IF i = m + 1 THEN h[m + 1][f[m]] ELSE f[i]]
  <2>2. g \in [0 .. (m + 1) -> T]
    BY <2>1 DEF Iterates, Steppers
  <2>3. g[0] = a
    BY <2>1 DEF Iterates
  <2>4. \A n \in 1 .. (m + 1) : g[n] = h[n][g[n - 1]]
    BY <2>1 DEF Iterates
  <2> HIDE DEF g
  <2>5. Iterates(g, T, a, h, m + 1)
    BY <2>2, <2>3, <2>4 DEF Iterates
  <2> QED BY <2>5
<1> HIDE DEF N
<1>3. \A n \in Nat : n \in N
  BY <1>1, <1>2, InductionOnNat
<1> QED BY <1>3 DEF N

\* f lists what Keep has collected after each element of q.
Collects(f, q, S, X) ==
    /\ f \in [0 .. Len(q) -> Seq(X)]
    /\ f[0] = <<>>
    /\ \A n \in 1 .. Len(q) : f[n] = IF q[n] \in S THEN Append(f[n - 1], q[n]) ELSE f[n - 1]

\* Keep is the last result of its loop.
LEMMA KeepRun ==
    ASSUME NEW X, NEW q \in Seq(X), NEW S
    PROVE  \E f : Collects(f, q, S, X) /\ Keep(q, S) = f[Len(q)]
<1> DEFINE Run(f) == [n \in 0 .. Len(q) |->
              IF n = 0 THEN <<>>
              ELSE IF q[n] \in S THEN Append(f[n - 1], q[n]) ELSE f[n - 1]]
           h == [n \in Nat |-> [t \in Seq(X) |->
                   IF n \in 1 .. Len(q) /\ q[n] \in S THEN Append(t, q[n]) ELSE t]]
<1>1. h \in Steppers(Seq(X))
  <2>1. \A n \in Nat, t \in Seq(X) :
           (IF n \in 1 .. Len(q) /\ q[n] \in S THEN Append(t, q[n]) ELSE t) \in Seq(X)
    BY AppendProperties
  <2> QED BY <2>1 DEF Steppers
<1>2. <<>> \in Seq(X) /\ Len(q) \in Nat
  OBVIOUS
<1>3. PICK f \in [0 .. Len(q) -> Seq(X)] :
         f[0] = <<>> /\ \A n \in 1 .. Len(q) : f[n] = h[n][f[n - 1]]
  <2> HIDE DEF h
  <2>1. PICK f : Iterates(f, Seq(X), <<>>, h, Len(q))
    BY <1>1, <1>2, Iteration
  <2> QED BY <2>1 DEF Iterates
<1>4. \A n \in 1 .. Len(q) :
         f[n] = IF q[n] \in S THEN Append(f[n - 1], q[n]) ELSE f[n - 1]
  <2> SUFFICES ASSUME NEW n \in 1 .. Len(q)
               PROVE  f[n] = IF q[n] \in S THEN Append(f[n - 1], q[n]) ELSE f[n - 1]
    OBVIOUS
  <2>1. f[n - 1] \in Seq(X) /\ n \in Nat
    OBVIOUS
  <2> QED BY <1>3, <2>1
<1>5. f = Run(f)
  <2>1. f = [n \in 0 .. Len(q) |-> f[n]]
    OBVIOUS
  <2>2. \A n \in 0 .. Len(q) :
           f[n] = IF n = 0 THEN <<>>
                  ELSE IF q[n] \in S THEN Append(f[n - 1], q[n]) ELSE f[n - 1]
    <3>1. f[0] = <<>>
      BY <1>3
    <3>2. \A n \in 0 .. Len(q) : n # 0 => n \in 1 .. Len(q)
      BY <1>2
    <3> QED BY <1>4, <3>1, <3>2, Zenon
  <2>3. [n \in 0 .. Len(q) |-> f[n]] = Run(f)
    BY <2>2, Zenon
  <2> QED BY <2>1, <2>3, Zenon
<1> DEFINE g == CHOOSE g : g = Run(g)
<1>6. g = Run(g)
  BY <1>5
<1>7. Keep(q, S) = g[Len(q)]
  BY DEF Keep
<1> HIDE DEF g
<1>a. \A n \in 0 .. Len(q) : g[n] = IF n = 0 THEN <<>>
                  ELSE IF q[n] \in S THEN Append(g[n - 1], q[n]) ELSE g[n - 1]
  <2>1. \A n : g[n] = Run(g)[n]
    BY <1>6, Zenon
  <2>2. \A n \in 0 .. Len(q) : Run(g)[n] = IF n = 0 THEN <<>>
                  ELSE IF q[n] \in S THEN Append(g[n - 1], q[n]) ELSE g[n - 1]
    BY Zenon
  <2> QED BY <2>1, <2>2, Zenon
<1>8. \A n \in Nat : n \in {k \in Nat : k <= Len(q) => g[k] = f[k]}
  <2> DEFINE M == {k \in Nat : k <= Len(q) => g[k] = f[k]}
  <2>1. 0 \in M
    BY <1>2, <1>3, <1>a
  <2>2. \A n \in Nat : n \in M => n + 1 \in M
    <3> SUFFICES ASSUME NEW n \in Nat, g[n] = f[n], n + 1 <= Len(q) PROVE g[n + 1] = f[n + 1]
      OBVIOUS
    <3>1. g[n + 1] = IF q[n + 1] \in S THEN Append(g[n], q[n + 1]) ELSE g[n]
      BY <1>2, <1>a
    <3> QED BY <1>2, <1>4, <3>1
  <2> HIDE DEF M
  <2>3. \A n \in Nat : n \in M
    BY <2>1, <2>2, InductionOnNat
  <2> QED BY <2>3 DEF M
<1>9. Keep(q, S) = f[Len(q)]
  BY <1>2, <1>7, <1>8
<1> QED BY <1>3, <1>4, <1>9 DEF Collects

\* Nothing is kept of an empty list.
LEMMA KeepEmpty ==
    ASSUME NEW S
    PROVE  Keep(<<>>, S) = <<>>
<1> DEFINE e == <<>>
<1>1. e \in Seq({}) /\ Len(e) = 0
  OBVIOUS
<1> HIDE DEF e
<1>2. PICK f : Collects(f, e, S, {}) /\ Keep(e, S) = f[Len(e)]
  BY <1>1, KeepRun
<1> QED BY <1>1, <1>2 DEF Collects, e

\* The last element is kept exactly if it passes the test.
LEMMA KeepAppend ==
    ASSUME NEW X, NEW q \in Seq(X), NEW x \in X, NEW S
    PROVE  Keep(Append(q, x), S) = IF x \in S THEN Append(Keep(q, S), x) ELSE Keep(q, S)
<1> DEFINE p == Append(q, x)
<1>1. p \in Seq(X) /\ Len(p) = Len(q) + 1 /\ p[Len(q) + 1] = x /\ Len(q) \in Nat
  BY AppendProperties
<1>2. \A n \in 1 .. Len(q) : p[n] = q[n]
  BY AppendProperties
<1> HIDE DEF p
<1>3. PICK f : Collects(f, q, S, X) /\ Keep(q, S) = f[Len(q)]
  BY KeepRun
<1>4. PICK g : Collects(g, p, S, X) /\ Keep(p, S) = g[Len(p)]
  BY <1>1, KeepRun
<1> DEFINE M == {k \in Nat : k <= Len(q) => g[k] = f[k]}
<1>5. 0 \in M
  BY <1>3, <1>4 DEF Collects
<1>6. \A n \in Nat : n \in M => n + 1 \in M
  <2> SUFFICES ASSUME NEW n \in Nat, g[n] = f[n], n + 1 <= Len(q) PROVE g[n + 1] = f[n + 1]
    BY <1>1
  <2>1. n + 1 \in 1 .. Len(q) /\ n + 1 \in 1 .. Len(p) /\ (n + 1) - 1 = n
    BY <1>1
  <2>2. g[n + 1] = IF p[n + 1] \in S THEN Append(g[n], p[n + 1]) ELSE g[n]
    BY <1>4, <2>1 DEF Collects
  <2>3. f[n + 1] = IF q[n + 1] \in S THEN Append(f[n], q[n + 1]) ELSE f[n]
    BY <1>3, <2>1 DEF Collects
  <2> QED BY <1>2, <2>1, <2>2, <2>3
<1> HIDE DEF M
<1>7. \A n \in Nat : n \in M
  BY <1>5, <1>6, InductionOnNat
<1>8. g[Len(q)] = f[Len(q)]
  BY <1>1, <1>7 DEF M
<1>9. g[Len(q) + 1] = IF x \in S THEN Append(g[Len(q)], x) ELSE g[Len(q)]
  <2>1. Len(q) + 1 \in 1 .. Len(p) /\ (Len(q) + 1) - 1 = Len(q)
    BY <1>1
  <2> QED BY <1>1, <1>4, <2>1 DEF Collects
<1> QED BY <1>1, <1>3, <1>4, <1>8, <1>9 DEF p

\* Keep returns a list of the same elements, not longer.
LEMMA KeepType ==
    ASSUME NEW X, NEW q \in Seq(X), NEW S
    PROVE  Keep(q, S) \in Seq(X) /\ Len(Keep(q, S)) <= Len(q)
<1> DEFINE P == {p \in Seq(X) : Keep(p, S) \in Seq(X) /\ Len(Keep(p, S)) <= Len(p)}
<1>1. <<>> \in P
  <2>1. Keep(<<>>, S) = <<>>
    BY KeepEmpty
  <2>2. <<>> \in Seq(X) /\ Len(<<>>) = 0 /\ 0 <= 0
    OBVIOUS
  <2> QED BY <2>1, <2>2, Zenon
<1>2. \A p \in Seq(X), x \in X : p \in P => Append(p, x) \in P
  <2> SUFFICES ASSUME NEW p \in Seq(X), NEW x \in X, p \in P PROVE Append(p, x) \in P
    OBVIOUS
  <2>1. Keep(Append(p, x), S) = IF x \in S THEN Append(Keep(p, S), x) ELSE Keep(p, S)
    BY KeepAppend
  <2>2. Len(Append(p, x)) = Len(p) + 1 /\ Append(p, x) \in Seq(X)
    OBVIOUS
  <2>3. CASE x \in S
    <3>1. Keep(Append(p, x), S) = Append(Keep(p, S), x)
      BY <2>1, <2>3
    <3> QED BY <2>2, <3>1
  <2>4. CASE x \notin S
    BY <2>1, <2>2, <2>4
  <2> QED BY <2>3, <2>4
<1> HIDE DEF P
<1>3. \A p \in Seq(X) : p \in P
  BY <1>1, <1>2, InductionOnSeq
<1> QED BY <1>3 DEF P

\* Keep returns the list itself when every element passes.
LEMMA KeepAll ==
    ASSUME NEW X, NEW q \in Seq(X), NEW S, \A n \in 1 .. Len(q) : q[n] \in S
    PROVE  Keep(q, S) = q
<1> DEFINE P == {p \in Seq(X) : (\A n \in 1 .. Len(p) : p[n] \in S) => Keep(p, S) = p}
<1>1. <<>> \in P
  BY KeepEmpty
<1>2. \A p \in Seq(X), x \in X : p \in P => Append(p, x) \in P
  <2> SUFFICES ASSUME NEW p \in Seq(X), NEW x \in X, p \in P,
                      \A n \in 1 .. Len(Append(p, x)) : Append(p, x)[n] \in S
               PROVE  Keep(Append(p, x), S) = Append(p, x)
    BY AppendProperties
  <2>1. \A n \in 1 .. Len(p) : p[n] \in S
    BY AppendProperties
  <2>2. x \in S
    BY AppendProperties
  <2>3. Keep(Append(p, x), S) = Append(Keep(p, S), x)
    BY <2>2, KeepAppend
  <2> QED BY <2>1, <2>3
<1> HIDE DEF P
<1>3. \A p \in Seq(X) : p \in P
  BY <1>1, <1>2, InductionOnSeq
<1> QED BY <1>3 DEF P

\* y is somewhere in q.
Has(q, y) == \E n \in 1 .. Len(q) : q[n] = y

\* No element is twice in q.
Distinct(q) == \A m, n \in 1 .. Len(q) : q[m] = q[n] => m = n

\* What Append adds to the elements of a list.
LEMMA HasAppend ==
    ASSUME NEW X, NEW p \in Seq(X), NEW x \in X, NEW y
    PROVE  Has(Append(p, x), y) <=> Has(p, y) \/ y = x
<1> DEFINE a == Append(p, x)
<1>1. Len(a) = Len(p) + 1 /\ a[Len(p) + 1] = x /\ Len(p) \in Nat
  BY AppendProperties
<1>2. \A n \in 1 .. Len(p) : a[n] = p[n]
  BY AppendProperties
<1> HIDE DEF a
<1>3. ASSUME NEW n \in 1 .. Len(a), a[n] = y PROVE Has(p, y) \/ y = x
  BY <1>1, <1>2, <1>3 DEF Has
<1>4. ASSUME NEW n \in 1 .. Len(p), p[n] = y PROVE Has(a, y)
  BY <1>1, <1>2, <1>4 DEF Has
<1>5. Has(a, x)
  BY <1>1 DEF Has
<1> QED BY <1>3, <1>4, <1>5 DEF a, Has

\* Append of an element that is not there yet, and of no other, keeps a list free of
\* duplicates.
LEMMA DistinctAppend ==
    ASSUME NEW X, NEW p \in Seq(X), NEW x \in X
    PROVE  Distinct(Append(p, x)) <=> Distinct(p) /\ ~Has(p, x)
<1> DEFINE a == Append(p, x)
<1>1. Len(a) = Len(p) + 1 /\ a[Len(p) + 1] = x /\ Len(p) \in Nat
  BY AppendProperties
<1>2. \A n \in 1 .. Len(p) : a[n] = p[n]
  BY AppendProperties
<1> HIDE DEF a
<1>3. ASSUME Distinct(a) PROVE Distinct(p) /\ ~Has(p, x)
  <2>1. Distinct(p)
    BY <1>1, <1>2, <1>3 DEF Distinct
  <2>2. ASSUME NEW n \in 1 .. Len(p), p[n] = x PROVE FALSE
    <3>1. a[n] = a[Len(p) + 1] /\ n # Len(p) + 1
      BY <1>1, <1>2, <2>2
    <3> QED BY <1>1, <1>3, <3>1 DEF Distinct
  <2> QED BY <2>1, <2>2 DEF Has
<1>4. ASSUME Distinct(p), ~Has(p, x) PROVE Distinct(a)
  <2> SUFFICES ASSUME NEW m \in 1 .. Len(a), NEW n \in 1 .. Len(a), a[m] = a[n], m # n
               PROVE  FALSE
    BY DEF Distinct
  <2>1. CASE m \in 1 .. Len(p) /\ n \in 1 .. Len(p)
    BY <1>2, <1>4, <2>1 DEF Distinct
  <2>2. CASE m = Len(p) + 1 /\ n \in 1 .. Len(p)
    BY <1>1, <1>2, <1>4, <2>2 DEF Has
  <2>3. CASE n = Len(p) + 1 /\ m \in 1 .. Len(p)
    BY <1>1, <1>2, <1>4, <2>3 DEF Has
  <2> QED BY <1>1, <2>1, <2>2, <2>3
<1> QED BY <1>3, <1>4 DEF a

\* Keep keeps exactly the elements that pass.
LEMMA KeepMembers ==
    ASSUME NEW X, NEW q \in Seq(X), NEW S
    PROVE  \A y : Has(Keep(q, S), y) <=> y \in S /\ Has(q, y)
<1> DEFINE P == {p \in Seq(X) : \A y : Has(Keep(p, S), y) <=> y \in S /\ Has(p, y)}
<1>1. <<>> \in P
  BY KeepEmpty DEF Has
<1>2. \A p \in Seq(X), x \in X : p \in P => Append(p, x) \in P
  <2> SUFFICES ASSUME NEW p \in Seq(X), NEW x \in X, p \in P PROVE Append(p, x) \in P
    OBVIOUS
  <2>1. Keep(Append(p, x), S) = IF x \in S THEN Append(Keep(p, S), x) ELSE Keep(p, S)
    BY KeepAppend
  <2>2. \A y : Has(Append(p, x), y) <=> Has(p, y) \/ y = x
    BY HasAppend
  <2>3. Keep(p, S) \in Seq(X) /\ Append(p, x) \in Seq(X)
    BY KeepType, AppendProperties
  <2>4. \A y : Has(Append(Keep(p, S), x), y) <=> Has(Keep(p, S), y) \/ y = x
    BY HasAppend, <2>3
  <2>5. \A y : Has(Keep(p, S), y) <=> y \in S /\ Has(p, y)
    OBVIOUS
  <2>6. \A y : Has(Keep(Append(p, x), S), y) <=> y \in S /\ Has(Append(p, x), y)
    BY <2>1, <2>2, <2>4, <2>5
  <2> QED BY <2>3, <2>6
<1> HIDE DEF P
<1>3. \A p \in Seq(X) : p \in P
  BY <1>1, <1>2, InductionOnSeq
<1> QED BY <1>3 DEF P

\* Keep introduces no duplicates.
LEMMA KeepDistinct ==
    ASSUME NEW X, NEW q \in Seq(X), NEW S, Distinct(q)
    PROVE  Distinct(Keep(q, S))
<1> DEFINE P == {p \in Seq(X) : Distinct(p) => Distinct(Keep(p, S))}
<1>1. <<>> \in P
  BY KeepEmpty
<1>2. \A p \in Seq(X), x \in X : p \in P => Append(p, x) \in P
  <2> SUFFICES ASSUME NEW p \in Seq(X), NEW x \in X, p \in P, Distinct(Append(p, x))
               PROVE  Distinct(Keep(Append(p, x), S))
    BY AppendProperties
  <2>1. Distinct(p) /\ ~Has(p, x)
    BY DistinctAppend
  <2>2. Distinct(Keep(p, S)) /\ Keep(p, S) \in Seq(X) /\ ~Has(Keep(p, S), x)
    BY <2>1, KeepType, KeepMembers
  <2>3. CASE x \notin S
    BY <2>2, <2>3, KeepAppend
  <2>4. CASE x \in S
    <3>1. Keep(Append(p, x), S) = Append(Keep(p, S), x)
      BY <2>4, KeepAppend
    <3> QED BY <2>2, <3>1, DistinctAppend
  <2> QED BY <2>3, <2>4
<1> HIDE DEF P
<1>3. \A p \in Seq(X) : p \in P
  BY <1>1, <1>2, InductionOnSeq
<1> QED BY <1>3 DEF P

\* y is at most once in q.
Once(q, y) == \A m, n \in 1 .. Len(q) : q[m] = y /\ q[n] = y => m = n

\* Append adds one occurrence.
LEMMA OnceAppend ==
    ASSUME NEW X, NEW p \in Seq(X), NEW x \in X, NEW y, Once(p, y), x = y => ~Has(p, y)
    PROVE  Once(Append(p, x), y)
<1> DEFINE q == Append(p, x)
<1>1. /\ Len(q) = Len(p) + 1 /\ q[Len(p) + 1] = x /\ Len(p) \in Nat
      /\ \A i \in 1 .. Len(p) : q[i] = p[i]
  BY AppendProperties
<1> SUFFICES ASSUME NEW m \in 1 .. Len(q), NEW n \in 1 .. Len(q), q[m] = y, q[n] = y PROVE m = n
  BY DEF Once
<1> HIDE DEF q
<1>2. \A i \in 1 .. Len(q) : i \in 1 .. Len(p) \/ i = Len(p) + 1
  BY <1>1
<1>3. CASE m \in 1 .. Len(p) /\ n \in 1 .. Len(p)
  BY <1>1, <1>3 DEF Once
<1>4. CASE m = Len(p) + 1 /\ n = Len(p) + 1
  BY <1>4
<1>5. CASE m \in 1 .. Len(p) /\ n = Len(p) + 1
  BY <1>1, <1>5 DEF Has
<1>6. CASE m = Len(p) + 1 /\ n \in 1 .. Len(p)
  BY <1>1, <1>6 DEF Has
<1> QED BY <1>2, <1>3, <1>4, <1>5, <1>6

\* A list is its head and its tail.
LEMMA TailShift ==
    ASSUME NEW X, NEW q \in Seq(X), q # <<>>
    PROVE  /\ Tail(q) \in Seq(X) /\ Len(Tail(q)) = Len(q) - 1 /\ Len(q) \in Nat \ {0}
           /\ Head(q) = q[1] /\ Head(q) \in X
           /\ \A i \in 1 .. Len(Tail(q)) : Tail(q)[i] = q[i + 1] /\ i + 1 \in 1 .. Len(q)
           /\ \A i \in 1 .. Len(q) : i = 1 \/ (i - 1 \in 1 .. Len(Tail(q)) /\ q[i] = Tail(q)[i - 1])
<1>1. Len(q) \in Nat \ {0}
  BY EmptySeq
<1>2. Tail(q) \in Seq(X) /\ Len(Tail(q)) = Len(q) - 1 /\ Head(q) = q[1] /\ Head(q) \in X
      /\ \A i \in 1 .. Len(Tail(q)) : Tail(q)[i] = q[i + 1]
  BY <1>1, HeadTailProperties
<1>3. \A i \in 1 .. Len(Tail(q)) : i + 1 \in 1 .. Len(q)
  BY <1>1, <1>2
<1>4. \A i \in 1 .. Len(q) : i = 1 \/ (i - 1 \in 1 .. Len(Tail(q)) /\ (i - 1) + 1 = i)
  BY <1>1, <1>2
<1> QED BY <1>1, <1>2, <1>3, <1>4

\* What is in a list is its head or in its tail.
LEMMA HasTail ==
    ASSUME NEW X, NEW q \in Seq(X), q # <<>>, NEW y
    PROVE  Has(q, y) <=> y = Head(q) \/ Has(Tail(q), y)
<1>1. /\ Len(q) \in Nat \ {0} /\ Head(q) = q[1]
      /\ \A i \in 1 .. Len(Tail(q)) : Tail(q)[i] = q[i + 1] /\ i + 1 \in 1 .. Len(q)
      /\ \A i \in 1 .. Len(q) : i = 1 \/ (i - 1 \in 1 .. Len(Tail(q)) /\ q[i] = Tail(q)[i - 1])
  BY TailShift
<1>2. ASSUME Has(q, y) PROVE y = Head(q) \/ Has(Tail(q), y)
  BY <1>1, <1>2 DEF Has
<1>3. ASSUME y = Head(q) PROVE Has(q, y)
  BY <1>1, <1>3 DEF Has
<1>4. ASSUME Has(Tail(q), y) PROVE Has(q, y)
  BY <1>1, <1>4 DEF Has
<1> QED BY <1>2, <1>3, <1>4

\* Taking the head off takes its occurrence off.
LEMMA OnceTail ==
    ASSUME NEW X, NEW q \in Seq(X), q # <<>>, NEW y, Once(q, y)
    PROVE  Once(Tail(q), y) /\ (y = Head(q) => ~Has(Tail(q), y))
<1>1. /\ Len(q) \in Nat \ {0} /\ Head(q) = q[1] /\ Len(Tail(q)) \in Nat
      /\ \A i \in 1 .. Len(Tail(q)) : Tail(q)[i] = q[i + 1] /\ i + 1 \in 1 .. Len(q)
  BY TailShift
<1>2. Once(Tail(q), y)
  <2> SUFFICES ASSUME NEW m \in 1 .. Len(Tail(q)), NEW n \in 1 .. Len(Tail(q)),
                      Tail(q)[m] = y, Tail(q)[n] = y
               PROVE  m = n
    BY DEF Once
  <2>1. m + 1 = n + 1
    BY <1>1 DEF Once
  <2> QED BY <1>1, <2>1
<1>3. ASSUME y = Head(q), NEW i \in 1 .. Len(Tail(q)), Tail(q)[i] = y PROVE FALSE
  <2>1. i + 1 = 1
    <3>1. 1 \in 1 .. Len(q)
      BY <1>1
    <3> QED BY <1>1, <1>3, <3>1 DEF Once
  <2> QED BY <1>1, <2>1
<1> QED BY <1>2, <1>3 DEF Has

-----------------------------------------------------------------------------
(* Counting.                                                               *)

\* The set of the elements of q.
Listed(q) == {q[i] : i \in DOMAIN q}

\* A list without duplicates has as many elements as its length says.
LEMMA RangeSize ==
    ASSUME NEW X, NEW q \in Seq(X), Distinct(q)
    PROVE  IsFiniteSet(Listed(q)) /\ Cardinality(Listed(q)) = Len(q)
<1>1. DOMAIN q = 1 .. Len(q) /\ Len(q) \in Nat
  OBVIOUS
<1>2. q \in [1 .. Len(q) -> Listed(q)]
  BY <1>1 DEF Listed
<1>3. q \in Bijection(1 .. Len(q), Listed(q))
  BY <1>1, <1>2 DEF Bijection, Injection, Surjection, IsInjective, Listed, Distinct
<1>4. ExistsBijection(1 .. Len(q), Listed(q))
  BY <1>3 DEF ExistsBijection
<1>5. IsFiniteSet(1 .. Len(q)) /\ Cardinality(1 .. Len(q)) = Len(q)
  <2>1. \A n \in Nat : IsFiniteSet(1 .. n) /\ Cardinality(1 .. n) = n
    <3> TAKE n \in Nat
    <3>1. IsFiniteSet(1 .. n) /\ Cardinality(1 .. n) = IF 1 > n THEN 0 ELSE n - 1 + 1
      BY FS_Interval
    <3> QED BY <3>1
  <2> QED BY <1>1, <2>1
<1> QED BY <1>4, <1>5, FS_Bijection


\* The size of a union, exact when the sets are disjoint.
LEMMA UnionSize ==
    ASSUME NEW A, NEW B, IsFiniteSet(A), IsFiniteSet(B)
    PROVE  /\ IsFiniteSet(A \cup B)
           /\ Cardinality(A) \in Nat /\ Cardinality(B) \in Nat /\ Cardinality(A \cup B) \in Nat
           /\ Cardinality(A \cup B) <= Cardinality(A) + Cardinality(B)
           /\ A \cap B = {} => Cardinality(A \cup B) = Cardinality(A) + Cardinality(B)
<1> DEFINE a == Cardinality(A)  b == Cardinality(B)
           c == Cardinality(A \cap B)  u == Cardinality(A \cup B)
<1>1. a \in Nat /\ b \in Nat
  BY FS_CardinalityType
<1>2. c \in Nat
  BY FS_Intersection, FS_CardinalityType
<1>3. IsFiniteSet(A \cup B) /\ u = a + b - c
  BY FS_Union
<1>4. A \cap B = {} => c = 0
  BY FS_EmptySet
<1> HIDE DEF a, b, c, u
<1>5. u \in Int /\ u <= a + b /\ (A \cap B = {} => u = a + b)
  BY <1>1, <1>2, <1>3, <1>4
<1>6. Cardinality(A \cup B) \in Nat
  BY <1>3, FS_CardinalityType
<1> QED BY <1>1, <1>3, <1>5, <1>6 DEF a, b, u

\* A set with at most one element.
LEMMA AtMostOneSize ==
    ASSUME NEW S, \A x, y \in S : x = y
    PROVE  Cardinality(S) = IF S = {} THEN 0 ELSE 1
<1>1. CASE S = {}
  BY <1>1, FS_EmptySet
<1>2. CASE S # {}
  <2>1. PICK x : x \in S
    BY <1>2
  <2>2. S = {x}
    BY <2>1
  <2> QED BY <1>2, <2>2, FS_Singleton
<1> QED BY <1>1, <1>2

\* Its members.
LEMMA ListedMembers ==
    ASSUME NEW X, NEW q \in Seq(X)
    PROVE  \A y : y \in Listed(q) <=> Has(q, y)
<1>1. DOMAIN q = 1 .. Len(q)
  OBVIOUS
<1> QED BY <1>1 DEF Listed, Has

-----------------------------------------------------------------------------
(* Concatenation.                                                          *)

\* Appending to the second list appends to the whole.
LEMMA ConcatAppend ==
    ASSUME NEW X, NEW p \in Seq(X), NEW q \in Seq(X), NEW x \in X
    PROVE  p \o Append(q, x) = Append(p \o q, x)
<1>1. p \o q \in Seq(X) /\ <<x>> \in Seq(X)
  BY ConcatProperties
<1>2. Append(q, x) = q \o <<x>> /\ Append(p \o q, x) = (p \o q) \o <<x>>
  BY <1>1, AppendIsConcat
<1> QED BY <1>1, <1>2, ConcatAssociative

\* The head of the second list may as well be the end of the first.
LEMMA MoveHead ==
    ASSUME NEW X, NEW p \in Seq(X), NEW q \in Seq(X), q # <<>>
    PROVE  Append(p, Head(q)) \o Tail(q) = p \o q
<1> DEFINE h == Head(q)  t == Tail(q)
<1>1. /\ h \in X /\ t \in Seq(X) /\ Len(t) = Len(q) - 1 /\ Len(q) \in Nat \ {0} /\ h = q[1]
      /\ \A i \in 1 .. Len(t) : t[i] = q[i + 1]
      /\ \A i \in 1 .. Len(q) : i = 1 \/ (i - 1 \in 1 .. Len(t) /\ q[i] = t[i - 1])
  BY TailShift
<1> HIDE DEF h, t
<1> DEFINE a == Append(p, h)
<1>2. a \in Seq(X) /\ Len(a) = Len(p) + 1 /\ a[Len(p) + 1] = h /\ Len(p) \in Nat
      /\ \A i \in 1 .. Len(p) : a[i] = p[i]
  BY <1>1, AppendProperties, LenProperties
<1> HIDE DEF a
<1>3. /\ a \o t \in Seq(X) /\ Len(a \o t) = Len(a) + Len(t)
      /\ \A i \in 1 .. Len(a) + Len(t) : (a \o t)[i] = IF i <= Len(a) THEN a[i] ELSE t[i - Len(a)]
  <2>1. a \in Seq(X) /\ t \in Seq(X)
    BY <1>1, <1>2
  <2> QED BY <2>1, ConcatProperties
<1>4. /\ p \o q \in Seq(X) /\ Len(p \o q) = Len(p) + Len(q)
      /\ \A i \in 1 .. Len(p) + Len(q) : (p \o q)[i] = IF i <= Len(p) THEN p[i] ELSE q[i - Len(p)]
  BY ConcatProperties
<1>5. Len(a \o t) = Len(p \o q)
  BY <1>1, <1>2, <1>3, <1>4
<1>6. ASSUME NEW i \in 1 .. Len(p \o q)
      PROVE  (a \o t)[i] = (p \o q)[i]
  <2>1. i \in 1 .. Len(p) + Len(q) /\ i \in 1 .. Len(a) + Len(t) /\ i \in Nat
    BY <1>1, <1>2, <1>4
  <2>2. CASE i <= Len(p)
    BY <2>1, <2>2, <1>2, <1>3, <1>4
  <2>3. CASE i = Len(p) + 1
    BY <2>1, <2>3, <1>1, <1>2, <1>3, <1>4
  <2>4. CASE i > Len(p) + 1
    <3>1. i - Len(p) \in 1 .. Len(q) /\ i - Len(p) # 1 /\ i - Len(a) = (i - Len(p)) - 1
      BY <2>1, <2>4, <1>1, <1>2
    <3>2. q[i - Len(p)] = t[i - Len(a)]
      BY <3>1, <1>1
    <3> QED BY <2>1, <2>4, <3>2, <1>2, <1>3, <1>4
  <2> QED BY <2>1, <2>2, <2>3, <2>4, <1>2
<1>7. a \o t = p \o q
  BY <1>3, <1>4, <1>5, <1>6, SeqEqual
<1> QED BY <1>7 DEF a, h, t

\* The members of a concatenation.
LEMMA HasConcat ==
    ASSUME NEW X, NEW p \in Seq(X), NEW q \in Seq(X)
    PROVE  \A y : Has(p \o q, y) <=> Has(p, y) \/ Has(q, y)
<1> DEFINE P == {r \in Seq(X) : \A y : Has(p \o r, y) <=> Has(p, y) \/ Has(r, y)}
<1>1. <<>> \in P
  <2>1. <<>> \in Seq(X) /\ p \o <<>> = p
    BY ConcatEmptySeq
  <2> QED BY <2>1 DEF Has
<1>2. ASSUME NEW r \in Seq(X), NEW x \in X, r \in P PROVE Append(r, x) \in P
  <2>1. p \o Append(r, x) = Append(p \o r, x) /\ p \o r \in Seq(X) /\ Append(r, x) \in Seq(X)
    BY ConcatAppend, ConcatProperties, AppendProperties
  <2>2. \A y : /\ Has(Append(p \o r, x), y) <=> Has(p \o r, y) \/ y = x
               /\ Has(Append(r, x), y) <=> Has(r, y) \/ y = x
    <3>1. p \o r \in Seq(X)
      BY <2>1
    <3>2. \A y : Has(Append(p \o r, x), y) <=> Has(p \o r, y) \/ y = x
      BY <3>1, HasAppend
    <3>3. \A y : Has(Append(r, x), y) <=> Has(r, y) \/ y = x
      BY HasAppend
    <3> QED BY <3>2, <3>3
  <2> QED BY <1>2, <2>1, <2>2
<1>3. \A r \in Seq(X) : r \in P
  <2> HIDE DEF P
  <2> QED BY <1>1, <1>2, InductionOnSeq
<1> QED BY <1>3

\* Filtering a concatenation.
LEMMA KeepConcat ==
    ASSUME NEW X, NEW p \in Seq(X), NEW q \in Seq(X), NEW S
    PROVE  Keep(p \o q, S) = Keep(p, S) \o Keep(q, S)
<1> DEFINE P == {r \in Seq(X) : Keep(p \o r, S) = Keep(p, S) \o Keep(r, S)}
<1>0. Keep(p, S) \in Seq(X)
  BY KeepType
<1>1. <<>> \in P
  <2>1. <<>> \in Seq(X) /\ p \o <<>> = p /\ Keep(p, S) \o <<>> = Keep(p, S)
    BY <1>0, ConcatEmptySeq
  <2> QED BY <2>1, KeepEmpty
<1>2. ASSUME NEW r \in Seq(X), NEW x \in X, r \in P PROVE Append(r, x) \in P
  <2>1. p \o Append(r, x) = Append(p \o r, x) /\ p \o r \in Seq(X) /\ Append(r, x) \in Seq(X)
    BY ConcatAppend, ConcatProperties, AppendProperties
  <2>2. Keep(r, S) \in Seq(X)
    BY KeepType
  <2>3. /\ Keep(Append(p \o r, x), S) = IF x \in S THEN Append(Keep(p \o r, S), x) ELSE Keep(p \o r, S)
        /\ Keep(Append(r, x), S) = IF x \in S THEN Append(Keep(r, S), x) ELSE Keep(r, S)
    BY <2>1, KeepAppend
  <2>4. Keep(p, S) \o Append(Keep(r, S), x) = Append(Keep(p, S) \o Keep(r, S), x)
    BY <1>0, <2>2, ConcatAppend
  <2>5. Keep(p \o r, S) = Keep(p, S) \o Keep(r, S)
    BY <1>2
  <2>6. Keep(p \o Append(r, x), S) = Keep(p, S) \o Keep(Append(r, x), S)
    BY <2>1, <2>3, <2>4, <2>5
  <2> QED BY <2>1, <2>6
<1>3. \A r \in Seq(X) : r \in P
  <2> HIDE DEF P
  <2> QED BY <1>1, <1>2, InductionOnSeq
<1> QED BY <1>3

\* Filtering twice.
LEMMA KeepKeep ==
    ASSUME NEW X, NEW q \in Seq(X), NEW S, NEW T
    PROVE  Keep(Keep(q, S), T) = Keep(q, S \cap T)
<1> DEFINE P == {r \in Seq(X) : Keep(Keep(r, S), T) = Keep(r, S \cap T)}
<1>1. <<>> \in P
  BY KeepEmpty
<1>2. ASSUME NEW r \in Seq(X), NEW x \in X, r \in P PROVE Append(r, x) \in P
  <2>1. Append(r, x) \in Seq(X) /\ Keep(r, S) \in Seq(X)
    BY AppendProperties, KeepType
  <2>2. /\ Keep(Append(r, x), S) = IF x \in S THEN Append(Keep(r, S), x) ELSE Keep(r, S)
        /\ Keep(Append(Keep(r, S), x), T)
             = IF x \in T THEN Append(Keep(Keep(r, S), T), x) ELSE Keep(Keep(r, S), T)
        /\ Keep(Append(r, x), S \cap T)
             = IF x \in S \cap T THEN Append(Keep(r, S \cap T), x) ELSE Keep(r, S \cap T)
    <3>1. \A u \in Seq(X) : \A V : Keep(Append(u, x), V) = IF x \in V THEN Append(Keep(u, V), x) ELSE Keep(u, V)
      BY KeepAppend
    <3> QED BY <2>1, <3>1
  <2>3. Keep(Keep(Append(r, x), S), T) = Keep(Append(r, x), S \cap T)
    <3>1. Keep(Keep(r, S), T) = Keep(r, S \cap T)
      BY <1>2
    <3>2. CASE x \in S
      <4>1. Keep(Append(r, x), S) = Append(Keep(r, S), x)
        BY <2>2, <3>2
      <4>2. CASE x \in T
        BY <2>2, <3>1, <3>2, <4>1, <4>2
      <4>3. CASE x \notin T
        BY <2>2, <3>1, <4>1, <4>3
      <4> QED BY <4>2, <4>3
    <3>3. CASE x \notin S
      BY <2>2, <3>1, <3>3
    <3> QED BY <3>2, <3>3
  <2> QED BY <2>1, <2>3
<1>3. \A r \in Seq(X) : r \in P
  <2> HIDE DEF P
  <2> QED BY <1>1, <1>2, InductionOnSeq
<1> QED BY <1>3

\* Dropping the only occurrence of an element.
LEMMA DropMiddle ==
    ASSUME NEW X, NEW p \in Seq(X), NEW t \in Seq(X), NEW h \in X, ~Has(p, h), ~Has(t, h)
    PROVE  Keep(Append(p, h) \o t, X \ {h}) = p \o t
<1> DEFINE S == X \ {h}  a == Append(p, h)
<1>1. a \in Seq(X)
  BY AppendProperties
<1>2. /\ \A i \in 1 .. Len(p) : p[i] \in S
      /\ \A i \in 1 .. Len(t) : t[i] \in S
  BY ElementOfSeq DEF Has
<1> HIDE DEF S
<1>3. Keep(p, S) = p /\ Keep(t, S) = t
  BY <1>2, KeepAll
<1>4. Keep(a, S) = p
  BY <1>3, KeepAppend DEF S
<1> HIDE DEF a
<1>5. Keep(a \o t, S) = Keep(a, S) \o Keep(t, S)
  BY <1>1, KeepConcat
<1> QED BY <1>3, <1>4, <1>5 DEF S, a

\* Dropping the head of the second list filters it out of the whole.
LEMMA DropHead ==
    ASSUME NEW X, NEW p \in Seq(X), NEW q \in Seq(X), q # <<>>, Distinct(p \o q)
    PROVE  Keep(p \o q, X \ {Head(q)}) = p \o Tail(q) /\ ~Has(p \o Tail(q), Head(q))
<1> DEFINE h == Head(q)  t == Tail(q)  a == Append(p, h)
<1>1. h \in X /\ t \in Seq(X)
  BY TailShift
<1>2. a \o t = p \o q
  BY MoveHead
<1>3. ~Has(p, h) /\ ~Has(t, h)
  <2>1. /\ Len(p \o q) = Len(p) + Len(q) /\ Len(p) \in Nat /\ Len(q) \in Nat \ {0}
        /\ \A i \in 1 .. Len(p) + Len(q) : (p \o q)[i] = IF i <= Len(p) THEN p[i] ELSE q[i - Len(p)]
        /\ h = q[1] /\ Len(t) = Len(q) - 1
        /\ \A i \in 1 .. Len(t) : t[i] = q[i + 1] /\ i + 1 \in 1 .. Len(q)
    BY ConcatProperties, TailShift, LenProperties
  <2> HIDE DEF h, t
  <2>2. (p \o q)[Len(p) + 1] = h /\ Len(p) + 1 \in 1 .. Len(p \o q)
    BY <2>1
  <2>3. ASSUME Has(p, h) PROVE FALSE
    <3>1. PICK i \in 1 .. Len(p) : p[i] = h
      BY <2>3 DEF Has
    <3>2. (p \o q)[i] = h /\ i \in 1 .. Len(p \o q) /\ i # Len(p) + 1
      BY <2>1, <3>1
    <3> QED BY <2>2, <3>2 DEF Distinct
  <2>4. ASSUME Has(t, h) PROVE FALSE
    <3>1. PICK i \in 1 .. Len(t) : t[i] = h
      BY <2>4 DEF Has
    <3>2. /\ i + 1 \in 1 .. Len(q) /\ q[i + 1] = h
          /\ Len(p) + (i + 1) \in 1 .. Len(p \o q) /\ Len(p) + (i + 1) # Len(p) + 1
      BY <2>1, <3>1
    <3>3. ~(Len(p) + (i + 1) <= Len(p)) /\ (Len(p) + (i + 1)) - Len(p) = i + 1
      BY <2>1, <3>1
    <3>4. (p \o q)[Len(p) + (i + 1)] = q[i + 1]
      BY <2>1, <3>2, <3>3
    <3> QED BY <2>2, <3>2, <3>4 DEF Distinct
  <2> QED BY <2>3, <2>4
<1> HIDE DEF h, t
<1>4. Keep(a \o t, X \ {h}) = p \o t
  BY <1>1, <1>3, DropMiddle, SMTT(60)
<1>5. ~Has(p \o t, h)
  BY <1>1, <1>3, HasConcat
<1> QED BY <1>2, <1>4, <1>5 DEF h, t

-----------------------------------------------------------------------------
(* Sums over a finite set (SumFunctionOnSet of Functions).                 *)

\* Induction over the subsets of a finite set, each from its proper subsets.
LEMMA InductionOnSubsets ==
    ASSUME NEW S, IsFiniteSet(S), NEW P,
           \A T \in SUBSET S : (\A U \in SUBSET T : U # T => U \in P) => T \in P
    PROVE  \A T \in SUBSET S : T \in P
<1> DEFINE N == {n \in Nat : \A T \in SUBSET S : Cardinality(T) <= n => T \in P}
<1>1. \A T \in SUBSET S : IsFiniteSet(T) /\ Cardinality(T) \in Nat
  BY FS_Subset, FS_CardinalityType
<1>2. \A T \in SUBSET S : \A U \in SUBSET T : U # T => Cardinality(U) < Cardinality(T)
  <2> SUFFICES ASSUME NEW T \in SUBSET S, NEW U \in SUBSET T, U # T
               PROVE  Cardinality(U) < Cardinality(T)
    OBVIOUS
  <2>1. Cardinality(U) <= Cardinality(T) /\ (Cardinality(U) = Cardinality(T) => U = T)
    BY <1>1, FS_Subset
  <2>2. U \in SUBSET S
    OBVIOUS
  <2> QED BY <1>1, <2>1, <2>2
<1>3. 0 \in N
  <2> SUFFICES ASSUME NEW T \in SUBSET S, Cardinality(T) <= 0 PROVE T \in P
    OBVIOUS
  <2>1. T = {}
    BY <1>1, FS_EmptySet
  <2> QED BY <2>1
<1>4. \A n \in Nat : n \in N => n + 1 \in N
  <2> SUFFICES ASSUME NEW n \in Nat, n \in N, NEW T \in SUBSET S, Cardinality(T) <= n + 1
               PROVE  T \in P
    OBVIOUS
  <2> SUFFICES ASSUME NEW U \in SUBSET T, U # T PROVE U \in P
    OBVIOUS
  <2>1. Cardinality(U) < Cardinality(T) /\ U \in SUBSET S
    BY <1>2
  <2>2. Cardinality(U) <= n
    BY <1>1, <2>1
  <2> QED BY <2>1, <2>2
<1> HIDE DEF N
<1>5. \A n \in Nat : n \in N
  BY <1>3, <1>4, InductionOnNat
<1>6. \A T \in SUBSET S : Cardinality(T) \in N
  BY <1>1, <1>5
<1> USE DEF N
<1>7. \A T \in SUBSET S : Cardinality(T) <= Cardinality(T)
  BY <1>1
<1> QED BY <1>6, <1>7

\* The element a sum takes out first.
First(s) == CHOOSE x \in s : TRUE

\* g has the sum of every subset of S.
Sums(g, f, S) ==
    /\ g = [T \in SUBSET S |-> g[T]]
    /\ \A T \in SUBSET S : g[T] = IF T = {} THEN 0 ELSE f[First(T)] + g[T \ {First(T)}]

\* That element is in the set.
LEMMA FirstIn ==
    ASSUME NEW S, S # {}
    PROVE  First(S) \in S
BY DEF First

\* A sum is defined by taking out one element after another.
LEMMA SumRun ==
    ASSUME NEW S, IsFiniteSet(S), NEW f
    PROVE  \E g : Sums(g, f, S) /\ SumFunctionOnSet(f, S) = g[S]
<1> DEFINE Run(g) == [s \in SUBSET S |-> IF s = {} THEN 0 ELSE f[First(s)] + g[s \ {First(s)}]]
           Upto(g, n) == /\ g = [T \in SUBSET S |-> g[T]]
                         /\ \A T \in SUBSET S : Cardinality(T) <= n =>
                              g[T] = IF T = {} THEN 0 ELSE f[First(T)] + g[T \ {First(T)}]
           N == {n \in Nat : \E g : Upto(g, n)}
<1>1. \A T \in SUBSET S : IsFiniteSet(T) /\ Cardinality(T) \in Nat /\ Cardinality(T) <= Cardinality(S)
  BY FS_Subset, FS_CardinalityType
<1>2. \A T \in SUBSET S : T # {} => /\ T \ {First(T)} \in SUBSET S
                                   /\ Cardinality(T \ {First(T)}) = Cardinality(T) - 1
  <2> SUFFICES ASSUME NEW T \in SUBSET S, T # {}
               PROVE  /\ T \ {First(T)} \in SUBSET S
                      /\ Cardinality(T \ {First(T)}) = Cardinality(T) - 1
    OBVIOUS
  <2>1. First(T) \in T
    BY FirstIn
  <2> QED BY <1>1, <2>1, FS_RemoveElement
<1>3. 0 \in N
  <2> DEFINE g == [T \in SUBSET S |-> 0]
  <2>1. \A T \in SUBSET S : Cardinality(T) <= 0 => T = {}
    BY <1>1, FS_EmptySet
  <2>2. Upto(g, 0)
    BY <2>1
  <2> HIDE DEF g
  <2> QED BY <2>2
<1>4. \A n \in Nat : n \in N => n + 1 \in N
  <2> SUFFICES ASSUME NEW n \in Nat, n \in N PROVE n + 1 \in N
    OBVIOUS
  <2>0. PICK g : Upto(g, n)
    OBVIOUS
  <2> DEFINE h == [T \in SUBSET S |->
                     IF Cardinality(T) = n + 1 THEN f[First(T)] + g[T \ {First(T)}] ELSE g[T]]
  <2>1. h = [T \in SUBSET S |-> h[T]]
    OBVIOUS
  <2>2. ASSUME NEW T \in SUBSET S, Cardinality(T) <= n + 1
        PROVE  h[T] = IF T = {} THEN 0 ELSE f[First(T)] + h[T \ {First(T)}]
    <3>1. CASE T = {}
      <4>1. Cardinality(T) = 0
        BY <3>1, FS_EmptySet
      <4>2. Cardinality(T) # n + 1 /\ Cardinality(T) <= n
        BY <4>1
      <4>3. h[T] = g[T] /\ g[T] = 0
        BY <2>0, <3>1, <4>2
      <4> QED BY <3>1, <4>3
    <3>2. CASE T # {}
      <4> DEFINE U == T \ {First(T)}
      <4>1. U \in SUBSET S /\ Cardinality(U) = Cardinality(T) - 1 /\ Cardinality(T) \in Nat
        BY <1>1, <1>2, <3>2
      <4>2. Cardinality(U) # n + 1
        BY <2>2, <4>1
      <4>3. h[U] = g[U]
        BY <4>1, <4>2
      <4>4. CASE Cardinality(T) = n + 1
        BY <2>0, <3>2, <4>3, <4>4
      <4>5. CASE Cardinality(T) # n + 1
        <5>1. Cardinality(T) <= n
          BY <2>2, <4>1, <4>5
        <5> QED BY <2>0, <3>2, <4>3, <4>5, <5>1
      <4> QED BY <4>4, <4>5
    <3> QED BY <3>1, <3>2
  <2> HIDE DEF h
  <2>3. Upto(h, n + 1)
    BY <2>1, <2>2
  <2>4. n + 1 \in Nat
    OBVIOUS
  <2> QED BY <2>3, <2>4, Zenon
<1> HIDE DEF N
<1>5. \A n \in Nat : n \in N
  BY <1>3, <1>4, InductionOnNat
<1>6. PICK g : Upto(g, Cardinality(S))
  BY <1>1, <1>5 DEF N
<1>7. Sums(g, f, S)
  BY <1>1, <1>6 DEF Sums
<1>8. g = Run(g)
  <2> DEFINE r == Run(g)
  <2>1. DOMAIN r = SUBSET S /\ \A T \in SUBSET S : r[T] = g[T]
    BY <1>7 DEF Sums
  <2>2. g = [T \in SUBSET S |-> g[T]]
    BY <1>6
  <2> QED BY <2>1, <2>2
<1> DEFINE k == CHOOSE k : k = Run(k)
<1>9. k = Run(k)
  BY <1>8
<1>10. SumFunctionOnSet(f, S) = k[S]
  BY DEF SumFunctionOnSet, FoldFunctionOnSet, MapThenFoldSet, First
<1> HIDE DEF k
<1>11. Sums(k, f, S)
  <2> DEFINE r == Run(k)
  <2>1. r = [T \in SUBSET S |-> r[T]] /\ \A T \in SUBSET S : r[T] = IF T = {} THEN 0 ELSE f[First(T)] + k[T \ {First(T)}]
    OBVIOUS
  <2>2. k = r
    BY <1>9
  <2> HIDE DEF r
  <2> QED BY <2>1, <2>2 DEF Sums
<1> QED BY <1>10, <1>11

\* What a subset sums to does not depend on the set the sum was defined for.
LEMMA SumsAgree ==
    ASSUME NEW S, IsFiniteSet(S), NEW T \in SUBSET S, NEW f, NEW g, NEW h,
           Sums(g, f, S), Sums(h, f, T)
    PROVE  g[T] = h[T]
<1> DEFINE P == {U \in SUBSET T : g[U] = h[U]}
<1>1. IsFiniteSet(T)
  BY FS_Subset
<1>2. \A U \in SUBSET T : (\A V \in SUBSET U : V # U => V \in P) => U \in P
  <2> SUFFICES ASSUME NEW U \in SUBSET T, \A V \in SUBSET U : V # U => V \in P
               PROVE  g[U] = h[U]
    OBVIOUS
  <2>1. g[U] = IF U = {} THEN 0 ELSE f[First(U)] + g[U \ {First(U)}]
    BY DEF Sums
  <2>2. h[U] = IF U = {} THEN 0 ELSE f[First(U)] + h[U \ {First(U)}]
    BY DEF Sums
  <2>3. U # {} => U \ {First(U)} \in P
    BY FirstIn
  <2> QED BY <2>1, <2>2, <2>3
<1> HIDE DEF P
<1>3. \A U \in SUBSET T : U \in P
  BY <1>1, <1>2, InductionOnSubsets
<1> QED BY <1>3 DEF P

\* Nothing sums to 0.
LEMMA SumEmpty ==
    ASSUME NEW f
    PROVE  SumFunctionOnSet(f, {}) = 0
<1>1. IsFiniteSet({})
  BY FS_EmptySet
<1>2. PICK g : Sums(g, f, {}) /\ SumFunctionOnSet(f, {}) = g[{}]
  BY <1>1, SumRun
<1> QED BY <1>2 DEF Sums

\* A sum is its first element and the sum of the others.
LEMMA SumFirst ==
    ASSUME NEW S, IsFiniteSet(S), NEW f, S # {}
    PROVE  SumFunctionOnSet(f, S) = f[First(S)] + SumFunctionOnSet(f, S \ {First(S)})
<1> DEFINE T == S \ {First(S)}
<1>1. IsFiniteSet(T) /\ T \in SUBSET S
  BY FS_Subset
<1> HIDE DEF T
<1>2. PICK g : Sums(g, f, S) /\ SumFunctionOnSet(f, S) = g[S]
  BY SumRun
<1>3. PICK h : Sums(h, f, T) /\ SumFunctionOnSet(f, T) = h[T]
  BY <1>1, SumRun
<1>4. g[T] = h[T]
  BY <1>1, <1>2, <1>3, SumsAgree
<1>5. g[S] = f[First(S)] + g[T]
  BY <1>2 DEF Sums, T
<1> QED BY <1>2, <1>3, <1>4, <1>5 DEF T

\* f is a natural number on S.
Natural(f, S) == \A x \in S : f[x] \in Nat

\* A sum of natural numbers is one.
LEMMA SumNat ==
    ASSUME NEW S, IsFiniteSet(S), NEW f, Natural(f, S)
    PROVE  SumFunctionOnSet(f, S) \in Nat
<1> DEFINE P == {T \in SUBSET S : SumFunctionOnSet(f, T) \in Nat}
<1>1. \A T \in SUBSET S : (\A U \in SUBSET T : U # T => U \in P) => T \in P
  <2> SUFFICES ASSUME NEW T \in SUBSET S, \A U \in SUBSET T : U # T => U \in P
               PROVE  SumFunctionOnSet(f, T) \in Nat
    OBVIOUS
  <2>1. CASE T = {}
    BY <2>1, SumEmpty
  <2>2. CASE T # {}
    <3>1. First(T) \in T /\ IsFiniteSet(T)
      BY <2>2, FirstIn, FS_Subset
    <3>2. SumFunctionOnSet(f, T \ {First(T)}) \in Nat
      BY <3>1
    <3>3. SumFunctionOnSet(f, T) = f[First(T)] + SumFunctionOnSet(f, T \ {First(T)})
      BY <2>2, <3>1, SumFirst
    <3> QED BY <3>1, <3>2, <3>3 DEF Natural
  <2> QED BY <2>1, <2>2
<1> HIDE DEF P
<1>2. \A T \in SUBSET S : T \in P
  BY <1>1, InductionOnSubsets
<1> QED BY <1>2 DEF P

\* One element more adds what it has.
LEMMA SumInsert ==
    ASSUME NEW S, IsFiniteSet(S), NEW f, NEW x, x \notin S, Natural(f, S \cup {x})
    PROVE  SumFunctionOnSet(f, S \cup {x}) = SumFunctionOnSet(f, S) + f[x]
<1> DEFINE D == S \cup {x}
           P == {T \in SUBSET D : \A y \in D \ T :
                   SumFunctionOnSet(f, T \cup {y}) = SumFunctionOnSet(f, T) + f[y]}
<1>1. IsFiniteSet(D)
  BY FS_AddElement
<1>2. \A T \in SUBSET D : (\A U \in SUBSET T : U # T => U \in P) => T \in P
  <2> SUFFICES ASSUME NEW T \in SUBSET D, \A U \in SUBSET T : U # T => U \in P,
                      NEW y \in D \ T
               PROVE  SumFunctionOnSet(f, T \cup {y}) = SumFunctionOnSet(f, T) + f[y]
    OBVIOUS
  <2>1. PICK A : A = T \cup {y}
    OBVIOUS
  <2>2. PICK c : c = First(A)
    OBVIOUS
  <2>3. c \in A /\ c \in D /\ f[c] \in Nat /\ f[y] \in Nat
    BY <2>1, <2>2, FirstIn DEF Natural
  <2>4. IsFiniteSet(T) /\ IsFiniteSet(A)
    BY <1>1, <2>1, FS_Subset, FS_AddElement
  <2>5. SumFunctionOnSet(f, A) = f[c] + SumFunctionOnSet(f, A \ {c})
    BY <2>1, <2>2, <2>4, SumFirst
  <2>6. SumFunctionOnSet(f, T) \in Nat
    <3>1. Natural(f, T)
      BY DEF Natural
    <3> QED BY <2>4, <3>1, SumNat
  <2>7. CASE c = y
    <3>1. A \ {c} = T
      BY <2>1, <2>7
    <3>2. SumFunctionOnSet(f, A) = f[y] + SumFunctionOnSet(f, T)
      BY <2>5, <2>7, <3>1
    <3> QED BY <2>1, <2>3, <2>6, <3>2
  <2>8. CASE c # y
    <3>1. PICK U : U = T \ {c}
      OBVIOUS
    <3>2. c \in T /\ A \ {c} = U \cup {y} /\ U # T /\ U \cup {c} = T /\ U \in SUBSET T
      BY <2>1, <2>3, <2>8, <3>1
    <3>3. U \in P /\ c \in D \ U /\ y \in D \ U
      BY <3>1, <3>2
    <3>4. SumFunctionOnSet(f, A \ {c}) = SumFunctionOnSet(f, U) + f[y]
      BY <3>2, <3>3
    <3>5. SumFunctionOnSet(f, T) = SumFunctionOnSet(f, U) + f[c]
      BY <3>2, <3>3
    <3>6. SumFunctionOnSet(f, U) \in Nat
      <4>1. Natural(f, U) /\ IsFiniteSet(U)
        BY <2>4, <3>2, FS_Subset DEF Natural
      <4> QED BY <4>1, SumNat
    <3>7. SumFunctionOnSet(f, A) = SumFunctionOnSet(f, T) + f[y]
      BY <2>3, <2>5, <3>4, <3>5, <3>6
    <3> QED BY <2>1, <3>7
  <2> QED BY <2>7, <2>8
<1> HIDE DEF P
<1>3. S \in P
  BY <1>1, <1>2, InductionOnSubsets
<1> QED BY <1>3 DEF P

\* A sum is what one element has and the sum of the others.
LEMMA SumRemove ==
    ASSUME NEW S, IsFiniteSet(S), NEW f, NEW x \in S, Natural(f, S)
    PROVE  /\ SumFunctionOnSet(f, S) = SumFunctionOnSet(f, S \ {x}) + f[x]
           /\ SumFunctionOnSet(f, S \ {x}) \in Nat /\ f[x] \in Nat
<1>1. PICK U : U = S \ {x}
  OBVIOUS
<1>2. IsFiniteSet(U) /\ x \notin U /\ U \cup {x} = S /\ Natural(f, U)
  BY <1>1, FS_Subset DEF Natural
<1>3. SumFunctionOnSet(f, U \cup {x}) = SumFunctionOnSet(f, U) + f[x]
  BY <1>2, SumInsert
<1>4. SumFunctionOnSet(f, U) \in Nat /\ f[x] \in Nat
  BY <1>2, SumNat DEF Natural
<1> QED BY <1>1, <1>2, <1>3, <1>4

\* f and g agree on S.
Same(f, g, S) == \A x \in S : f[x] = g[x]

\* A sum depends on what it sums only.
LEMMA SumSame ==
    ASSUME NEW S, IsFiniteSet(S), NEW f, NEW g, Same(f, g, S)
    PROVE  SumFunctionOnSet(f, S) = SumFunctionOnSet(g, S)
<1> DEFINE P == {T \in SUBSET S : SumFunctionOnSet(f, T) = SumFunctionOnSet(g, T)}
<1>1. \A T \in SUBSET S : (\A U \in SUBSET T : U # T => U \in P) => T \in P
  <2> SUFFICES ASSUME NEW T \in SUBSET S, \A U \in SUBSET T : U # T => U \in P
               PROVE  SumFunctionOnSet(f, T) = SumFunctionOnSet(g, T)
    OBVIOUS
  <2>1. CASE T = {}
    BY <2>1, SumEmpty
  <2>2. CASE T # {}
    <3>1. First(T) \in T /\ IsFiniteSet(T)
      BY <2>2, FirstIn, FS_Subset
    <3>2. SumFunctionOnSet(f, T \ {First(T)}) = SumFunctionOnSet(g, T \ {First(T)})
      BY <3>1
    <3>3. SumFunctionOnSet(f, T) = f[First(T)] + SumFunctionOnSet(f, T \ {First(T)})
      BY <2>2, <3>1, SumFirst
    <3>4. SumFunctionOnSet(g, T) = g[First(T)] + SumFunctionOnSet(g, T \ {First(T)})
      BY <2>2, <3>1, SumFirst
    <3> QED BY <3>1, <3>2, <3>3, <3>4 DEF Same
  <2> QED BY <2>1, <2>2
<1> HIDE DEF P
<1>2. \A T \in SUBSET S : T \in P
  BY <1>1, InductionOnSubsets
<1> QED BY <1>2 DEF P

\* Two disjoint sets sum to what the union does.
LEMMA SumUnion ==
    ASSUME NEW A, NEW B, IsFiniteSet(A), IsFiniteSet(B), A \cap B = {},
           NEW f, Natural(f, A \cup B)
    PROVE  SumFunctionOnSet(f, A \cup B) = SumFunctionOnSet(f, A) + SumFunctionOnSet(f, B)
<1> DEFINE P == {T \in SUBSET B :
                   SumFunctionOnSet(f, A \cup T) = SumFunctionOnSet(f, A) + SumFunctionOnSet(f, T)}
<1>1. \A T \in SUBSET B : (\A U \in SUBSET T : U # T => U \in P) => T \in P
  <2> SUFFICES ASSUME NEW T \in SUBSET B, \A U \in SUBSET T : U # T => U \in P
               PROVE  SumFunctionOnSet(f, A \cup T) = SumFunctionOnSet(f, A) + SumFunctionOnSet(f, T)
    OBVIOUS
  <2>1. SumFunctionOnSet(f, A) \in Nat
    BY SumNat DEF Natural
  <2>2. CASE T = {}
    <3>1. A \cup T = A
      BY <2>2
    <3> QED BY <2>1, <2>2, <3>1, SumEmpty
  <2>3. CASE T # {}
    <3>1. PICK c \in T : TRUE
      BY <2>3
    <3>2. PICK U : U = T \ {c}
      OBVIOUS
    <3>3. PICK V : V = A \cup U
      OBVIOUS
    <3>4. /\ U # T /\ U \in SUBSET T /\ IsFiniteSet(U) /\ IsFiniteSet(V)
          /\ c \notin U /\ c \notin V /\ U \cup {c} = T /\ V \cup {c} = A \cup T
      <4>1. IsFiniteSet(U)
        BY <3>2, FS_Subset
      <4>2. IsFiniteSet(V)
        BY <3>3, <4>1, FS_Union
      <4> QED BY <3>1, <3>2, <3>3, <4>1, <4>2
    <3>5. Natural(f, U) /\ Natural(f, U \cup {c}) /\ Natural(f, V \cup {c}) /\ f[c] \in Nat
      BY <3>1, <3>4 DEF Natural
    <3>6. SumFunctionOnSet(f, V \cup {c}) = SumFunctionOnSet(f, V) + f[c]
      BY <3>4, <3>5, SumInsert
    <3>7. SumFunctionOnSet(f, U \cup {c}) = SumFunctionOnSet(f, U) + f[c]
      BY <3>4, <3>5, SumInsert
    <3>8. SumFunctionOnSet(f, V) = SumFunctionOnSet(f, A) + SumFunctionOnSet(f, U)
      BY <3>3, <3>4
    <3>9. SumFunctionOnSet(f, U) \in Nat
      BY <3>4, <3>5, SumNat
    <3>10. SumFunctionOnSet(f, V \cup {c})
             = SumFunctionOnSet(f, A) + SumFunctionOnSet(f, U \cup {c})
      BY <2>1, <3>5, <3>6, <3>7, <3>8, <3>9
    <3> QED BY <3>4, <3>10
  <2> QED BY <2>2, <2>3
<1> HIDE DEF P
<1>2. B \in P
  BY <1>1, InductionOnSubsets
<1> QED BY <1>2 DEF P

\* A subset sums to no more.
LEMMA SumSubset ==
    ASSUME NEW S, IsFiniteSet(S), NEW T \in SUBSET S, NEW f, Natural(f, S)
    PROVE  /\ SumFunctionOnSet(f, S) = SumFunctionOnSet(f, T) + SumFunctionOnSet(f, S \ T)
           /\ SumFunctionOnSet(f, T) \in Nat /\ SumFunctionOnSet(f, S \ T) \in Nat
<1>1. PICK U : U = S \ T
  OBVIOUS
<1>2. /\ IsFiniteSet(T) /\ IsFiniteSet(U) /\ T \cap U = {} /\ T \cup U = S
      /\ Natural(f, T) /\ Natural(f, U) /\ Natural(f, T \cup U)
  BY <1>1, FS_Subset DEF Natural
<1>3. SumFunctionOnSet(f, T \cup U) = SumFunctionOnSet(f, T) + SumFunctionOnSet(f, U)
  BY <1>2, SumUnion
<1>4. SumFunctionOnSet(f, T) \in Nat /\ SumFunctionOnSet(f, U) \in Nat
  BY <1>2, SumNat
<1> QED BY <1>1, <1>2, <1>3, <1>4

\* Zeros sum to 0.
LEMMA SumZero ==
    ASSUME NEW S, IsFiniteSet(S), NEW f, \A x \in S : f[x] = 0
    PROVE  SumFunctionOnSet(f, S) = 0
<1> DEFINE P == {T \in SUBSET S : SumFunctionOnSet(f, T) = 0}
<1>1. \A T \in SUBSET S : (\A U \in SUBSET T : U # T => U \in P) => T \in P
  <2> SUFFICES ASSUME NEW T \in SUBSET S, \A U \in SUBSET T : U # T => U \in P
               PROVE  SumFunctionOnSet(f, T) = 0
    OBVIOUS
  <2>1. CASE T = {}
    BY <2>1, SumEmpty
  <2>2. CASE T # {}
    <3>1. First(T) \in T /\ IsFiniteSet(T)
      BY <2>2, FirstIn, FS_Subset
    <3>2. SumFunctionOnSet(f, T \ {First(T)}) = 0
      BY <3>1
    <3>3. SumFunctionOnSet(f, T) = f[First(T)] + SumFunctionOnSet(f, T \ {First(T)})
      BY <2>2, <3>1, SumFirst
    <3> QED BY <3>1, <3>2, <3>3
  <2> QED BY <2>1, <2>2
<1> HIDE DEF P
<1>2. \A T \in SUBSET S : T \in P
  BY <1>1, InductionOnSubsets
<1> QED BY <1>2 DEF P

\* Equal terms of two functions add up.
LEMMA SumPlus ==
    ASSUME NEW S, IsFiniteSet(S), NEW f, NEW g, NEW h, Natural(f, S), Natural(g, S),
           \A x \in S : h[x] = f[x] + g[x]
    PROVE  SumFunctionOnSet(h, S) = SumFunctionOnSet(f, S) + SumFunctionOnSet(g, S)
<1> DEFINE P == {T \in SUBSET S :
                   SumFunctionOnSet(h, T) = SumFunctionOnSet(f, T) + SumFunctionOnSet(g, T)}
<1>1. \A T \in SUBSET S : (\A U \in SUBSET T : U # T => U \in P) => T \in P
  <2> SUFFICES ASSUME NEW T \in SUBSET S, \A U \in SUBSET T : U # T => U \in P
               PROVE  SumFunctionOnSet(h, T) = SumFunctionOnSet(f, T) + SumFunctionOnSet(g, T)
    OBVIOUS
  <2>1. CASE T = {}
    BY <2>1, SumEmpty
  <2>2. CASE T # {}
    <3>1. PICK c \in T : TRUE
      BY <2>2
    <3>2. PICK U : U = T \ {c}
      OBVIOUS
    <3>3. /\ IsFiniteSet(T) /\ U # T /\ U \in SUBSET T
          /\ Natural(f, T) /\ Natural(g, T) /\ Natural(h, T) /\ h[c] = f[c] + g[c]
      BY <3>1, <3>2, FS_Subset DEF Natural
    <3>4. /\ SumFunctionOnSet(f, T) = SumFunctionOnSet(f, U) + f[c]
          /\ SumFunctionOnSet(f, U) \in Nat /\ f[c] \in Nat
      BY <3>1, <3>2, <3>3, SumRemove
    <3>5. /\ SumFunctionOnSet(g, T) = SumFunctionOnSet(g, U) + g[c]
          /\ SumFunctionOnSet(g, U) \in Nat /\ g[c] \in Nat
      BY <3>1, <3>2, <3>3, SumRemove
    <3>6. SumFunctionOnSet(h, T) = SumFunctionOnSet(h, U) + h[c]
      BY <3>1, <3>2, <3>3, SumRemove
    <3>7. SumFunctionOnSet(h, U) = SumFunctionOnSet(f, U) + SumFunctionOnSet(g, U)
      BY <3>3
    <3> QED BY <3>3, <3>4, <3>5, <3>6, <3>7
  <2> QED BY <2>1, <2>2
<1> HIDE DEF P
<1>2. S \in P
  BY <1>1, InductionOnSubsets
<1> QED BY <1>2 DEF P

\* The sum of multiples.
LEMMA SumScale ==
    ASSUME NEW S, IsFiniteSet(S), NEW f, NEW g, NEW c \in Nat, Natural(f, S),
           \A x \in S : g[x] = f[x] * c
    PROVE  SumFunctionOnSet(g, S) = SumFunctionOnSet(f, S) * c
<1> DEFINE P == {T \in SUBSET S : SumFunctionOnSet(g, T) = SumFunctionOnSet(f, T) * c}
<1>1. \A T \in SUBSET S : (\A U \in SUBSET T : U # T => U \in P) => T \in P
  <2> SUFFICES ASSUME NEW T \in SUBSET S, \A U \in SUBSET T : U # T => U \in P
               PROVE  SumFunctionOnSet(g, T) = SumFunctionOnSet(f, T) * c
    OBVIOUS
  <2>1. CASE T = {}
    <3>1. 0 * c = 0
      OBVIOUS
    <3> QED BY <2>1, <3>1, SumEmpty
  <2>2. CASE T # {}
    <3>1. PICK x \in T : TRUE
      BY <2>2
    <3>2. PICK U : U = T \ {x}
      OBVIOUS
    <3>3. \A m, n \in Nat : m * n \in Nat
      OBVIOUS
    <3>4. /\ IsFiniteSet(T) /\ U # T /\ U \in SUBSET T
          /\ Natural(f, T) /\ Natural(g, T) /\ g[x] = f[x] * c
      BY <3>1, <3>2, <3>3, FS_Subset DEF Natural
    <3>5. PICK a, b : a = SumFunctionOnSet(f, U) /\ b = f[x]
      OBVIOUS
    <3>6. SumFunctionOnSet(f, T) = a + b /\ a \in Nat /\ b \in Nat
      BY <3>1, <3>2, <3>4, <3>5, SumRemove
    <3>7. SumFunctionOnSet(g, T) = SumFunctionOnSet(g, U) + g[x]
      BY <3>1, <3>2, <3>4, SumRemove
    <3>8. SumFunctionOnSet(g, U) = a * c
      BY <3>4, <3>5
    <3>9. (a + b) * c = a * c + b * c
      BY <3>6
    <3> QED BY <3>4, <3>5, <3>6, <3>7, <3>8, <3>9
  <2> QED BY <2>1, <2>2
<1> HIDE DEF P
<1>2. S \in P
  BY <1>1, InductionOnSubsets
<1> QED BY <1>2 DEF P

\* A sum after one term was set to v.
LEMMA SumChange ==
    ASSUME NEW S, IsFiniteSet(S), NEW f, NEW g, NEW x \in S, Natural(f, S), Natural(g, S),
           Same(f, g, S \ {x})
    PROVE  SumFunctionOnSet(g, S) + f[x] = SumFunctionOnSet(f, S) + g[x]
<1>1. IsFiniteSet(S \ {x})
  BY FS_Subset
<1>2. SumFunctionOnSet(f, S \ {x}) = SumFunctionOnSet(g, S \ {x})
  BY <1>1, SumSame
<1>3. /\ SumFunctionOnSet(f, S) = SumFunctionOnSet(f, S \ {x}) + f[x]
      /\ SumFunctionOnSet(f, S \ {x}) \in Nat /\ f[x] \in Nat
  BY SumRemove
<1>4. /\ SumFunctionOnSet(g, S) = SumFunctionOnSet(g, S \ {x}) + g[x] /\ g[x] \in Nat
  BY SumRemove
<1> QED BY <1>2, <1>3, <1>4

=============================================================================
