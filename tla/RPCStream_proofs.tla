-------------------------- MODULE RPCStream_proofs --------------------------
(***************************************************************************)
(* One RPC call on its substream, for any limit, block size, radix and     *)
(* length of the messages.                                                 *)
(*                                                                         *)
(* The first part is induction over the natural numbers, stated about sets *)
(* and functions, and that a recursive definition has the value that it    *)
(* describes.  The second part is what the codecs make of the bytes of a   *)
(* message, whole or cut off anywhere.  The third part is the invariant of *)
(* the stream, and that every step of it is one of RPCCall.                *)
(***************************************************************************)
EXTENDS RPCStream, TLAPS, WellFoundedInduction, SequenceTheorems

-----------------------------------------------------------------------------
(* Induction and recursion                                                 *)

\* A set of numbers that is not empty has a least one.
LEMMA LeastNumber ==
    ASSUME NEW T \in SUBSET Nat, T # {}
    PROVE  \E m \in T : \A k \in T : m <= k
<1>1. IsWellFoundedOn(OpToRel(<, Nat), Nat)
  BY NatLessThanWellFounded, Zenon
<1>2. PICK m \in T : \A k \in T : ~ (<<k, m>> \in OpToRel(<, Nat))
  BY <1>1, WFMin, Zenon
<1>3. ASSUME NEW k \in T PROVE m <= k
  <2>1. ~ (<<k, m>> \in OpToRel(<, Nat))
    BY <1>2
  <2>2. ~ (k < m)
    BY <2>1 DEF OpToRel
  <2> QED BY <2>2
<1> QED BY <1>3

\* Induction, about a set: 0 is in it, and with each number the next.
LEMMA Induction ==
    ASSUME NEW T \in SUBSET Nat, 0 \in T, \A n \in T : n + 1 \in T
    PROVE  T = Nat
<1> SUFFICES ASSUME Nat \ T # {} PROVE FALSE
  OBVIOUS
<1>1. PICK m \in Nat \ T : \A k \in Nat \ T : m <= k
  BY LeastNumber
<1>2. m - 1 \in T
  BY <1>1
<1> QED BY <1>1, <1>2

\* The same from all smaller numbers.
LEMMA StrongInduction ==
    ASSUME NEW T \in SUBSET Nat,
           \A n \in Nat : (\A m \in Nat : m < n => m \in T) => n \in T
    PROVE  T = Nat
<1> SUFFICES ASSUME Nat \ T # {} PROVE FALSE
  OBVIOUS
<1>1. PICK m \in Nat \ T : \A k \in Nat \ T : m <= k
  BY LeastNumber
<1> QED BY <1>1

\* Recursion over the natural numbers: the value at n is a[n] for n in B, and
\* elsewhere g[n] of the value at d[n], which is smaller.
Recursion(S, B, d, a, g) ==
    /\ d \in [Nat -> Nat] /\ a \in [Nat -> S] /\ g \in [Nat -> [S -> S]]
    /\ \A n \in Nat : n \notin B => d[n] < n

Solves(f, S, B, d, a, g) ==
    /\ f \in [Nat -> S]
    /\ \A n \in Nat : f[n] = IF n \in B THEN a[n] ELSE g[n][f[d[n]]]

\* There is a function that the recursion describes.
LEMMA RecursiveFunction ==
    ASSUME NEW S, NEW B, NEW d, NEW a, NEW g, Recursion(S, B, d, a, g)
    PROVE  \E f : Solves(f, S, B, d, a, g)
<1> USE DEF Recursion
<1> DEFINE val(f, n)  == IF n \in B THEN a[n] ELSE g[n][f[d[n]]]
           Upto(n)    == {f \in [0..n -> S] : \A m \in 0..n : f[m] = val(f, m)}
<1>1. \A n \in Nat : Upto(n) # {}
  <2> DEFINE T == {n \in Nat : Upto(n) # {}}
  <2>1. 0 \in T
    <3> DEFINE f == [m \in 0..0 |-> a[m]]
    <3>1. f \in Upto(0)
      OBVIOUS
    <3> QED BY <3>1
  <2>2. ASSUME NEW n \in T PROVE n + 1 \in T
    <3>1. PICK f \in Upto(n) : TRUE
      BY <2>2
    <3> DEFINE h == [m \in 0..(n + 1) |-> IF m <= n THEN f[m] ELSE val(f, m)]
    <3>2. ASSUME NEW m \in 0..(n + 1) PROVE val(f, m) \in S /\ (m \notin B => d[m] \in 0..n)
      BY <3>1
    <3>3. h \in [0..(n + 1) -> S]
      BY <3>1, <3>2
    <3>4. ASSUME NEW m \in 0..(n + 1) PROVE h[m] = val(h, m)
      <4>1. m \notin B => h[d[m]] = f[d[m]]
        BY <3>2
      <4>2. m <= n => f[m] = val(f, m)
        BY <3>1
      <4>3. h[m] = val(f, m)
        BY <4>2
      <4> HIDE DEF h
      <4> QED BY <4>1, <4>3
    <3>5. h \in Upto(n + 1)
      BY <3>3, <3>4
    <3> HIDE DEF Upto
    <3> QED BY <3>5
  <2>3. T = Nat
    <3> HIDE DEF T
    <3>1. T \in SUBSET Nat
      BY DEF T
    <3> QED BY <2>1, <2>2, <3>1, Induction
  <2> QED BY <2>3
<1>2. ASSUME NEW k \in Nat
      PROVE  \A n, m \in Nat : \A f \in Upto(n), h \in Upto(m) :
                k <= n /\ k <= m => f[k] = h[k]
  <2> DEFINE P(i) == \A n, m \in Nat : \A f \in Upto(n), h \in Upto(m) :
                        i <= n /\ i <= m => f[i] = h[i]
             T == {i \in Nat : P(i)}
  <2>1. ASSUME NEW i \in Nat, \A j \in Nat : j < i => j \in T PROVE i \in T
    <3>1. SUFFICES ASSUME NEW n \in Nat, NEW m \in Nat, NEW f \in Upto(n), NEW h \in Upto(m),
                          i <= n, i <= m
                   PROVE  f[i] = h[i]
      <4> HIDE DEF Upto
      <4> QED OBVIOUS
    <3>2. f[i] = val(f, i) /\ h[i] = val(h, i)
      BY <3>1
    <3>3. i \notin B => f[d[i]] = h[d[i]]
      <4>1. i \notin B => d[i] \in Nat /\ d[i] < i /\ d[i] <= n /\ d[i] <= m
        BY <3>1
      <4> HIDE DEF Upto
      <4>2. i \notin B => P(d[i])
        BY <4>1, <2>1
      <4> QED BY <4>1, <4>2
    <3> QED BY <3>2, <3>3
  <2>2. T = Nat
    <3> HIDE DEF T
    <3>1. T \in SUBSET Nat
      BY DEF T
    <3> QED BY <2>1, <3>1, StrongInduction
  <2> QED BY <2>2
<1> DEFINE F(n) == CHOOSE f \in Upto(n) : TRUE
           f == [n \in Nat |-> F(n)[n]]
<1>3. \A n \in Nat : F(n) \in Upto(n)
  BY <1>1
<1>4. f \in [Nat -> S]
  <2>1. ASSUME NEW n \in Nat PROVE F(n)[n] \in S
    <3>1. F(n) \in [0..n -> S]
      BY <1>3, Zenon
    <3> HIDE DEF F
    <3> QED BY <3>1
  <2> HIDE DEF F
  <2> QED BY <2>1
<1>5. ASSUME NEW n \in Nat PROVE f[n] = val(f, n)
  <2>1. F(n)[n] = val(F(n), n)
    <3>1. \A m \in 0..n : F(n)[m] = val(F(n), m)
      BY <1>3, Zenon
    <3> HIDE DEF F
    <3> QED BY <3>1
  <2>2. n \notin B => F(n)[d[n]] = F(d[n])[d[n]]
    <3>1. n \notin B => d[n] \in Nat /\ d[n] <= n
      OBVIOUS
    <3> HIDE DEF F, Upto
    <3> QED BY <3>1, <1>2, <1>3
  <2> HIDE DEF F
  <2>3. n \notin B => f[d[n]] = F(d[n])[d[n]]
    OBVIOUS
  <2> QED BY <2>1, <2>2, <2>3
<1> HIDE DEF f
<1> QED BY <1>4, <1>5 DEF Solves

-----------------------------------------------------------------------------
(* The varint                                                              *)

\* Quotient and remainder.
LEMMA DivMod ==
    ASSUME NEW n \in Nat, NEW d \in Nat \ {0}
    PROVE  /\ n \div d \in Nat /\ n % d \in 0..(d - 1)
           /\ n = d * (n \div d) + (n % d)
OBVIOUS

\* A number that takes another digit has a smaller quotient: varint ends.
LEMMA DivSmaller ==
    ASSUME NEW n \in Nat, NEW d \in Nat \ {0, 1}, n >= d
    PROVE  n \div d < n
OBVIOUS

\* A larger number has no smaller quotient.
LEMMA DivMonotone ==
    ASSUME NEW m \in Nat, NEW n \in Nat, NEW d \in Nat \ {0}, m <= n
    PROVE  m \div d <= n \div d
OBVIOUS

\* A product and a remainder are taken apart again.
LEMMA DivUnique ==
    ASSUME NEW d \in Nat \ {0}, NEW k \in Nat, NEW r \in 0..(d - 1)
    PROVE  (k * d + r) \div d = k /\ (k * d + r) % d = r
OBVIOUS

\* The mark of a byte that is not the last does not change its digit.
LEMMA ModAdd ==
    ASSUME NEW n \in Nat, NEW d \in Nat \ {0}
    PROVE  (d + (n % d)) % d = n % d
OBVIOUS

\* A last byte is its own digit.
LEMMA ModSmall ==
    ASSUME NEW d \in Nat \ {0}, NEW n \in 0..(d - 1)
    PROVE  n % d = n
OBVIOUS

\* The recursive definition of varint describes its values.
LEMMA VarintDef ==
    ASSUME NEW n \in Nat
    PROVE  /\ n < RADIX => varint[n] = <<n>>
           /\ n >= RADIX => varint[n] = <<RADIX + (n % RADIX)>> \o varint[n \div RADIX]
<1> USE CodecAssumption
<1> DEFINE d == [m \in Nat |-> m \div RADIX]
           a == [m \in Nat |-> <<m>>]
           g == [m \in Nat |-> [v \in Seq(Nat) |-> <<RADIX + (m % RADIX)>> \o v]]
           B == {m \in Nat : m < RADIX}
           Def(f) == [m \in Nat |-> IF m < RADIX THEN <<m>>
                                    ELSE <<RADIX + (m % RADIX)>> \o f[m \div RADIX]]
<1>1. d \in [Nat -> Nat] /\ a \in [Nat -> Seq(Nat)]
  OBVIOUS
<1>2. g \in [Nat -> [Seq(Nat) -> Seq(Nat)]]
  <2>1. ASSUME NEW m \in Nat PROVE RADIX + (m % RADIX) \in Nat
    BY DivMod
  <2>2. ASSUME NEW m \in Nat, NEW v \in Seq(Nat)
        PROVE  <<RADIX + (m % RADIX)>> \o v \in Seq(Nat)
    BY <2>1
  <2> QED BY <2>2
<1>3. \A m \in Nat : m \notin B => d[m] < m
  BY DivSmaller
<1>4. PICK f : Solves(f, Seq(Nat), B, d, a, g)
  <2> HIDE DEF d, a, g, B
  <2>1. Recursion(Seq(Nat), B, d, a, g)
    BY <1>1, <1>2, <1>3 DEF Recursion
  <2> QED BY <2>1, RecursiveFunction
<1>5. f = Def(f)
  <2>1. ASSUME NEW m \in Nat
        PROVE  f[m] = IF m < RADIX THEN <<m>> ELSE <<RADIX + (m % RADIX)>> \o f[m \div RADIX]
    <3>1. m \div RADIX \in Nat
      BY DivMod
    <3>2. f[m] = IF m \in B THEN a[m] ELSE g[m][f[d[m]]]
      BY <1>4 DEF Solves
    <3>3. f[m \div RADIX] \in Seq(Nat)
      BY <1>4, <3>1 DEF Solves
    <3> QED BY <3>1, <3>2, <3>3
  <2>2. f = [m \in Nat |-> f[m]]
    BY <1>4 DEF Solves
  <2> QED BY <2>1, <2>2
<1>6. varint = CHOOSE v : v = Def(v)
  BY DEF varint
<1> HIDE DEF Def
<1>7. varint = Def(varint)
  BY <1>5, <1>6
<1>8. varint[n] = Def(varint)[n]
  BY <1>7
<1>9. n < RADIX => Def(varint)[n] = <<n>>
  BY DEF Def
<1>10. n >= RADIX => Def(varint)[n] = <<RADIX + (n % RADIX)>> \o varint[n \div RADIX]
  BY DEF Def
<1> QED BY <1>8, <1>9, <1>10

\* All bytes but the last have the continuation bit.
LEMMA VarintBytes ==
    ASSUME NEW n \in Nat
    PROVE  /\ varint[n] \in Seq(Nat) /\ Len(varint[n]) \in Nat \ {0}
           /\ varint[n][Len(varint[n])] < RADIX
           /\ \A i \in 1..(Len(varint[n]) - 1) : varint[n][i] >= RADIX
<1> USE CodecAssumption
<1> DEFINE P(v) == /\ v \in Seq(Nat) /\ Len(v) \in Nat \ {0}
                   /\ v[Len(v)] < RADIX
                   /\ \A i \in 1..(Len(v) - 1) : v[i] >= RADIX
           T == {m \in Nat : P(varint[m])}
<1>1. ASSUME NEW m \in Nat, \A k \in Nat : k < m => k \in T PROVE m \in T
  <2>1. CASE m < RADIX
    <3>1. varint[m] = <<m>>
      BY <2>1, VarintDef
    <3>2. P(<<m>>)
      BY <2>1
    <3> QED BY <3>1, <3>2
  <2>2. CASE m >= RADIX
    <3> DEFINE b == RADIX + (m % RADIX)
               w == varint[m \div RADIX]
    <3>1. m \div RADIX \in Nat /\ m \div RADIX < m /\ b \in Nat /\ b >= RADIX
      BY <2>2, DivMod, DivSmaller
    <3>2. P(w)
      BY <3>1, <1>1
    <3>3. varint[m] = <<b>> \o w
      BY <2>2, VarintDef
    <3> HIDE DEF b, w
    <3>4. P(<<b>> \o w)
      <4> DEFINE v == <<b>> \o w
      <4>1. v \in Seq(Nat) /\ Len(v) = 1 + Len(w) /\ v[1] = b
        BY <3>1, <3>2
      <4>2. \A i \in 2..Len(v) : v[i] = w[i - 1]
        BY <3>1, <3>2
      <4> HIDE DEF v
      <4>3. v[Len(v)] = w[Len(w)]
        <5>1. Len(v) \in 2..Len(v) /\ Len(v) - 1 = Len(w)
          BY <3>2, <4>1
        <5> QED BY <4>2, <5>1
      <4>4. ASSUME NEW i \in 1..(Len(v) - 1) PROVE v[i] >= RADIX
        <5>1. CASE i = 1
          BY <5>1, <3>1, <4>1
        <5>2. CASE i > 1
          BY <5>2, <3>2, <4>1, <4>2
        <5> QED BY <5>1, <5>2
      <4>5. P(v)
        BY <3>2, <4>1, <4>3, <4>4
      <4> QED BY <4>5 DEF v
    <3> QED BY <3>3, <3>4
  <2> QED BY <2>1, <2>2
<1>2. T = Nat
  <2>1. T \in SUBSET Nat
    OBVIOUS
  <2> HIDE DEF T
  <2> QED BY <1>1, <2>1, StrongInduction
<1> QED BY <1>2

\* A longer message does not have a shorter varint.
LEMMA VarintMonotone ==
    ASSUME NEW n \in Nat
    PROVE  \A m \in Nat : m <= n => Len(varint[m]) <= Len(varint[n])
<1> USE CodecAssumption
<1> DEFINE T == {i \in Nat : \A m \in Nat : m <= i => Len(varint[m]) <= Len(varint[i])}
<1>0. ASSUME NEW i \in Nat
      PROVE  /\ i < RADIX => Len(varint[i]) = 1
             /\ i >= RADIX => /\ i \div RADIX \in Nat /\ i \div RADIX < i
                              /\ Len(varint[i]) = 1 + Len(varint[i \div RADIX])
  <2>1. CASE i < RADIX
    <3>1. varint[i] = <<i>>
      BY <2>1, VarintDef
    <3> QED BY <2>1, <3>1
  <2>2. CASE i >= RADIX
    <3>1. i \div RADIX \in Nat /\ i \div RADIX < i /\ i % RADIX \in Nat
      BY <2>2, DivMod, DivSmaller
    <3>2. varint[i \div RADIX] \in Seq(Nat)
      BY <3>1, VarintBytes
    <3>3. varint[i] = <<RADIX + (i % RADIX)>> \o varint[i \div RADIX]
      BY <2>2, VarintDef
    <3>4. RADIX + (i % RADIX) \in Nat
      BY <3>1
    <3> DEFINE b == RADIX + (i % RADIX)
               w == varint[i \div RADIX]
    <3>5. Len(<<b>> \o w) = 1 + Len(w)
      <4> HIDE DEF b, w
      <4> QED BY <3>2, <3>4 DEF b, w
    <3> QED BY <2>2, <3>1, <3>3, <3>5
  <2> QED BY <2>1, <2>2
<1>1. ASSUME NEW i \in Nat, \A k \in Nat : k < i => k \in T PROVE i \in T
  <2> SUFFICES ASSUME NEW m \in Nat, m <= i PROVE Len(varint[m]) <= Len(varint[i])
    OBVIOUS
  <2>1. Len(varint[i]) \in Nat \ {0}
    BY VarintBytes
  <2>2. CASE m < RADIX
    <3>1. Len(varint[m]) = 1
      BY <2>2, <1>0
    <3> QED BY <2>1, <3>1
  <2>3. CASE m >= RADIX
    <3>1. i >= RADIX /\ m \div RADIX <= i \div RADIX
      BY <2>3, DivMonotone
    <3>2. m \div RADIX \in Nat /\ i \div RADIX \in T
      BY <2>3, <3>1, <1>0, <1>1
    <3>3. Len(varint[m \div RADIX]) <= Len(varint[i \div RADIX])
      BY <3>1, <3>2
    <3>4. Len(varint[m \div RADIX]) \in Nat /\ Len(varint[i \div RADIX]) \in Nat
      BY <3>2, VarintBytes
    <3>5. /\ Len(varint[m]) = 1 + Len(varint[m \div RADIX])
          /\ Len(varint[i]) = 1 + Len(varint[i \div RADIX])
      BY <2>3, <3>1, <1>0
    <3> QED BY <3>3, <3>4, <3>5
  <2> QED BY <2>2, <2>3
<1>2. T = Nat
  <2>1. T \in SUBSET Nat
    OBVIOUS
  <2> HIDE DEF T
  <2> QED BY <1>1, <2>1, StrongInduction
<1> QED BY <1>2

\* So does the one of the number that a decoder adds up.
LEMMA UviValueDef ==
    ASSUME NEW src \in Seq(Nat), NEW n \in 0..Len(src)
    PROVE  /\ Uvi_value(src, n)[0] = 0
           /\ \A k \in 1..n : Uvi_value(src, n)[k] =
                 (src[n - k + 1] % RADIX) + RADIX * Uvi_value(src, n)[k - 1]
<1> USE CodecAssumption
<1> DEFINE d == [k \in Nat |-> IF k = 0 THEN 0 ELSE k - 1]
           a == [k \in Nat |-> 0]
           g == [k \in Nat |-> [v \in Nat |->
                    IF k \in 1..n THEN (src[n - k + 1] % RADIX) + RADIX * v ELSE 0]]
           Def(f) == [k \in 0..n |-> IF k = 0 THEN 0
                                     ELSE (src[n - k + 1] % RADIX) + RADIX * f[k - 1]]
<1>1. ASSUME NEW k \in 1..n PROVE src[n - k + 1] % RADIX \in Nat
  <2> DEFINE x == src[n - k + 1]
  <2>1. x \in Nat
    OBVIOUS
  <2> HIDE DEF x
  <2>2. x % RADIX \in Nat
    BY <2>1, DivMod
  <2> QED BY <2>2 DEF x
<1>2. g \in [Nat -> [Nat -> Nat]]
  <2>1. ASSUME NEW k \in Nat, NEW v \in Nat, k \in 1..n
        PROVE  (src[n - k + 1] % RADIX) + RADIX * v \in Nat
    BY <1>1, <2>1
  <2> QED BY <2>1
<1>3. PICK f : Solves(f, Nat, {0}, d, a, g)
  <2>1. Recursion(Nat, {0}, d, a, g)
    <3>1. d \in [Nat -> Nat] /\ a \in [Nat -> Nat] /\ \A k \in Nat : k \notin {0} => d[k] < k
      OBVIOUS
    <3> HIDE DEF d, a, g
    <3> QED BY <1>2, <3>1 DEF Recursion
  <2> HIDE DEF d, a, g
  <2> QED BY <2>1, RecursiveFunction
<1> DEFINE h == [k \in 0..n |-> f[k]]
<1>4. h = Def(h)
  <2>1. ASSUME NEW k \in 0..n
        PROVE  f[k] = IF k = 0 THEN 0 ELSE (src[n - k + 1] % RADIX) + RADIX * h[k - 1]
    <3>0. f \in [Nat -> Nat] /\ k \in Nat
      BY <1>3 DEF Solves
    <3>1. f[k] = IF k \in {0} THEN a[k] ELSE g[k][f[d[k]]]
      <4> HIDE DEF a, g, d
      <4> QED BY <1>3, <3>0 DEF Solves
    <3>2. k # 0 => d[k] = k - 1 /\ k - 1 \in 0..n /\ f[k - 1] \in Nat
      BY <3>0
    <3>3. k # 0 => g[k][f[k - 1]] = (src[n - k + 1] % RADIX) + RADIX * f[k - 1]
      BY <3>2
    <3> HIDE DEF g, d
    <3> QED BY <3>1, <3>2, <3>3
  <2> HIDE DEF h
  <2> QED BY <2>1 DEF h
<1>5. Uvi_value(src, n) = CHOOSE v : v = Def(v)
  BY DEF Uvi_value
<1> HIDE DEF Def, h
<1>6. Uvi_value(src, n) = Def(Uvi_value(src, n))
  BY <1>4, <1>5
<1> DEFINE u == Uvi_value(src, n)
<1> HIDE DEF u
<1>7. u = Def(u)
  BY <1>6 DEF u
<1>8. u[0] = 0 /\ \A k \in 1..n : u[k] = (src[n - k + 1] % RADIX) + RADIX * u[k - 1]
  BY <1>7 DEF Def
<1> QED BY <1>8 DEF u

\* The bytes of the varint of n, anywhere in a buffer, hold n.
LEMMA VarintValue ==
    ASSUME NEW n \in Nat
    PROVE  \A src \in Seq(Nat), m \in Nat :
              LET l == Len(varint[n])
              IN  m + l <= Len(src) /\ (\A i \in 1..l : src[m + i] = varint[n][i])
                  => Uvi_value(src, m + l)[l] = n
<1> USE CodecAssumption
<1> DEFINE P(j) == \A src \in Seq(Nat), m \in Nat :
                      LET l == Len(varint[j])
                      IN  m + l <= Len(src) /\ (\A i \in 1..l : src[m + i] = varint[j][i])
                          => Uvi_value(src, m + l)[l] = j
           T == {j \in Nat : P(j)}
<1>1. ASSUME NEW j \in Nat, \A k \in Nat : k < j => k \in T PROVE j \in T
  <2> DEFINE l == Len(varint[j])
  <2> SUFFICES ASSUME NEW src \in Seq(Nat), NEW m \in Nat, m + l <= Len(src),
                      \A i \in 1..l : src[m + i] = varint[j][i]
               PROVE  Uvi_value(src, m + l)[l] = j
    OBVIOUS
  <2> DEFINE u == Uvi_value(src, m + l)
  <2>1. l \in Nat \ {0} /\ m + l \in 0..Len(src)
    BY VarintBytes
  <2>2. u[0] = 0 /\ u[l] = (src[m + 1] % RADIX) + RADIX * u[l - 1]
    <3>1. l \in 1..(m + l) /\ m + l - l + 1 = m + 1
      BY <2>1
    <3> HIDE DEF l
    <3> QED BY <2>1, <3>1, UviValueDef
  <2>3. CASE j < RADIX
    <3>1. varint[j] = <<j>>
      BY <2>3, VarintDef
    <3>2. l = 1 /\ src[m + 1] = j
      BY <3>1
    <3>3. j % RADIX = j
      <4> HIDE DEF l, u, P, T
      <4> QED BY <2>3, ModSmall
    <3> HIDE DEF l, u
    <3>4. u[1] = j
      BY <2>2, <3>2, <3>3
    <3> QED BY <3>2, <3>4 DEF u
  <2>4. CASE j >= RADIX
    <3> DEFINE b == RADIX + (j % RADIX)
               q == j \div RADIX
    <3>1. q \in Nat /\ q < j /\ b \in Nat /\ j = RADIX * q + (j % RADIX) /\ b % RADIX = j % RADIX
      <4> HIDE DEF l, u, P, T
      <4>1. q \in Nat /\ j % RADIX \in Nat /\ j = RADIX * q + (j % RADIX)
        <5> RADIX \in Nat \ {0}
          OBVIOUS
        <5>1. /\ j \div RADIX \in Nat /\ j % RADIX \in 0..(RADIX - 1)
              /\ j = RADIX * (j \div RADIX) + (j % RADIX)
          BY DivMod, Zenon
        <5> HIDE DEF q
        <5>2. j % RADIX \in Nat
          BY <5>1
        <5> QED BY <5>1, <5>2, Zenon DEF q
      <4>2. q < j
        BY <2>4, DivSmaller
      <4>3. b % RADIX = j % RADIX
        BY ModAdd
      <4> QED BY <4>1, <4>2, <4>3
    <3>2. varint[j] = <<b>> \o varint[q]
      BY <2>4, VarintDef
    <3>3. P(q)
      BY <3>1, <1>1
    <3>4. varint[q] \in Seq(Nat) /\ Len(varint[q]) \in Nat \ {0}
      BY <3>1, VarintBytes
    <3> HIDE DEF b, q, P, T
    <3>5. /\ l = 1 + Len(varint[q]) /\ varint[j][1] = b
          /\ \A i \in 1..Len(varint[q]) : varint[j][1 + i] = varint[q][i]
      BY <3>1, <3>2, <3>4
    <3> DEFINE lq == Len(varint[q])
    <3>6. (m + 1) + lq = m + l /\ lq = l - 1 /\ m + 1 \in Nat /\ (m + 1) + lq <= Len(src)
      <4>1. lq \in Nat /\ l = 1 + lq /\ m + l <= Len(src)
        BY <3>4, <3>5
      <4> HIDE DEF lq, l
      <4> QED BY <4>1
    <3>7. ASSUME NEW i \in 1..lq PROVE src[(m + 1) + i] = varint[q][i]
      <4>1. 1 + i \in 1..l /\ (m + 1) + i = m + (1 + i)
        BY <3>4, <3>5
      <4>2. src[m + (1 + i)] = varint[j][1 + i]
        BY <4>1
      <4> QED BY <4>1, <4>2, <3>5
    <3>8. Uvi_value(src, (m + 1) + lq)[lq] = q
      BY <3>3, <3>6, <3>7 DEF P
    <3>9. u[l - 1] = q
      BY <3>6, <3>8
    <3>10. src[m + 1] = b
      <4>1. 1 \in 1..l
        BY <2>1
      <4> QED BY <4>1, <3>5
    <3> HIDE DEF u, l, lq
    <3>11. u[l] = j
      BY <2>2, <3>9, <3>10, <3>1
    <3> QED BY <3>11 DEF u
  <2> QED BY <2>3, <2>4
<1>2. T = Nat
  <2>1. T \in SUBSET Nat
    OBVIOUS
  <2> HIDE DEF T
  <2> QED BY <1>1, <2>1, StrongInduction
<1>3. n \in T
  BY <1>2
<1> QED BY <1>3

\* Uvi::decode finds the length at the front of a buffer that has all of it.
LEMMA UviWhole ==
    ASSUME NEW n \in Nat, NEW src \in Seq(Nat), Len(varint[n]) <= Len(src),
           \A i \in 1..Len(varint[n]) : src[i] = varint[n][i]
    PROVE  Uvi_decode(src) = [kind |-> "Ok", n |-> Len(varint[n]), length |-> n]
<1> USE CodecAssumption
<1> DEFINE l == Len(varint[n])
           last == {k \in 1..Len(src) : src[k] < RADIX}
<1>1. l \in Nat \ {0} /\ src[l] < RADIX /\ \A i \in 1..(l - 1) : src[i] >= RADIX
  <2>1. /\ l \in Nat \ {0} /\ varint[n][l] < RADIX
        /\ \A i \in 1..(l - 1) : varint[n][i] >= RADIX
    BY VarintBytes
  <2>2. l \in 1..l /\ \A i \in 1..(l - 1) : i \in 1..l
    BY <2>1
  <2>3. \A i \in 1..l : src[i] = varint[n][i]
    OBVIOUS
  <2> HIDE DEF l
  <2> QED BY <2>1, <2>2, <2>3
<1>2. l \in last /\ \A k \in last : l <= k
  <2>1. l \in 1..Len(src)
    BY <1>1
  <2>2. ASSUME NEW k \in last, k < l PROVE FALSE
    <3>1. k \in 1..(l - 1) /\ src[k] < RADIX /\ src[k] \in Nat
      BY <2>2, <1>1
    <3> HIDE DEF l, last
    <3> QED BY <3>1, <1>1
  <2>3. \A k \in last : k \in Int
    OBVIOUS
  <2>4. l \in last
    BY <1>1, <2>1
  <2> HIDE DEF l, last
  <2> QED BY <1>1, <2>2, <2>3, <2>4
<1>3. Min(last) = l
  <2> HIDE DEF last, l
  <2>1. \A k \in last : k \in Int
    BY DEF last
  <2>2. \A k \in last : (\A j \in last : k <= j) => k = l
    BY <1>1, <1>2, <2>1
  <2>3. Min(last) = CHOOSE k \in last : \A j \in last : k <= j
    BY DEF Min
  <2> QED BY <1>2, <2>2, <2>3
<1>4. Uvi_value(src, 0 + l)[l] = n
  <2>1. 0 + l <= Len(src) /\ \A i \in 1..l : src[0 + i] = varint[n][i]
    BY <1>1
  <2> QED BY <2>1, VarintValue
<1>5. 0 + l = l
  BY <1>1
<1> QED BY <1>2, <1>3, <1>4, <1>5 DEF Uvi_decode

\* Until it has, nothing is taken from the buffer.
LEMMA UviPart ==
    ASSUME NEW n \in Nat, NEW src \in Seq(Nat), Len(src) < Len(varint[n]),
           \A i \in 1..Len(src) : src[i] = varint[n][i]
    PROVE  Uvi_decode(src) = None
<1>1. ASSUME NEW i \in 1..Len(src) PROVE src[i] >= RADIX
  <2>1. Len(varint[n]) \in Nat /\ \A j \in 1..(Len(varint[n]) - 1) : varint[n][j] >= RADIX
    BY VarintBytes
  <2>2. i \in 1..(Len(varint[n]) - 1)
    BY <2>1
  <2> QED BY <2>1, <2>2
<1>2. {k \in 1..Len(src) : src[k] < RADIX} = {}
  <2>1. \A i \in 1..Len(src) : src[i] \in Nat
    OBVIOUS
  <2> QED BY <1>1, <2>1, CodecAssumption
<1> QED BY <1>2 DEF Uvi_decode

-----------------------------------------------------------------------------
(* The frame format                                                        *)

\* The least number of a set that is not empty, as Min defines it.
LEMMA MinOf ==
    ASSUME NEW T \in SUBSET Nat, T # {}
    PROVE  Min(T) \in T /\ \A k \in T : Min(T) <= k
<1>1. PICK m \in T : \A k \in T : m <= k
  BY LeastNumber
<1>2. Min(T) = CHOOSE k \in T : \A j \in T : k <= j
  BY DEF Min
<1> QED BY <1>1, <1>2

\* It is the only one of that kind.
LEMMA MinIs ==
    ASSUME NEW T \in SUBSET Nat, NEW m \in T, \A k \in T : m <= k
    PROVE  Min(T) = m
<1> DEFINE n == Min(T)
<1>1. n \in T /\ n <= m
  BY MinOf
<1> HIDE DEF n
<1>2. n = m
  BY <1>1
<1> QED BY <1>2 DEF n

\* Multiplication keeps the order.
LEMMA MulMonotone ==
    ASSUME NEW j \in Nat, NEW k \in Nat, NEW n \in Nat, j <= k
    PROVE  j * n <= k * n
OBVIOUS

\* As many blocks as the data need and no more.
LEMMA BlocksBound ==
    ASSUME NEW n \in Nat \ {0}
    PROVE  Blocks(n) \in Nat \ {0} /\ (Blocks(n) - 1) * BLOCK < n /\ n <= Blocks(n) * BLOCK
<1> USE CodecAssumption
<1> DEFINE N == Blocks(n)
           r == (n + BLOCK - 1) % BLOCK
<1>1. N \in Nat /\ r \in 0..(BLOCK - 1) /\ n + BLOCK - 1 = BLOCK * N + r
  <2>1. n + BLOCK - 1 \in Nat /\ BLOCK \in Nat \ {0}
    OBVIOUS
  <2> QED BY <2>1, DivMod, Zenon DEF Blocks
<1> HIDE DEF N, r
<1>2. N # 0
  BY <1>1
<1>3. (N - 1) * BLOCK = BLOCK * N - BLOCK /\ N * BLOCK = BLOCK * N
  BY <1>1
<1>4. N \in Nat \ {0} /\ (N - 1) * BLOCK < n /\ n <= N * BLOCK
  BY <1>1, <1>2, <1>3
<1> QED BY <1>4 DEF N

\* The identifier, and each block after its length.
LEMMA FrameBytes ==
    ASSUME NEW data \in Seq(Nat), data # <<>>
    PROVE  LET F == FrameEncoder(data)
               N == Blocks(Len(data))
           IN  /\ F \in Seq(Nat) /\ Len(F) = 1 + N + Len(data) /\ F[1] = STREAM_IDENTIFIER
               /\ \A k \in 0..(N - 1) :
                     /\ 2 + k * (BLOCK + 1) <= Len(F)
                     /\ F[2 + k * (BLOCK + 1)] =
                           IF Len(data) - k * BLOCK < BLOCK THEN Len(data) - k * BLOCK ELSE BLOCK
                     /\ \A r \in 1..BLOCK : k * BLOCK + r <= Len(data) =>
                           /\ 2 + k * (BLOCK + 1) + r <= Len(F)
                           /\ F[2 + k * (BLOCK + 1) + r] = data[k * BLOCK + r]
<1> USE CodecAssumption
<1> DEFINE F == FrameEncoder(data)
           L == Len(data)
           N == Blocks(L)
           M == 1 + N + L
           byte(k, r) == IF r = 0 THEN IF L - k * BLOCK < BLOCK THEN L - k * BLOCK ELSE BLOCK
                         ELSE data[k * BLOCK + r]
           G == [i \in 1..M |-> IF i = 1 THEN STREAM_IDENTIFIER
                                ELSE byte((i - 2) \div (BLOCK + 1), (i - 2) % (BLOCK + 1))]
<1>1. L \in Nat \ {0} /\ N \in Nat \ {0} /\ (N - 1) * BLOCK < L /\ L <= N * BLOCK
  <2>1. L \in Nat \ {0}
    OBVIOUS
  <2> QED BY <2>1, BlocksBound
<1>2. F = G
  BY DEF FrameEncoder
<1>3. ASSUME NEW k \in 0..(N - 1)
      PROVE  k * BLOCK \in Nat /\ k * BLOCK < L /\ k * (BLOCK + 1) = k * BLOCK + k
  <2> HIDE DEF N, L, F
  <2>1. k \in Nat /\ N - 1 \in Nat /\ k <= N - 1
    BY <1>1
  <2>2. k * BLOCK <= (N - 1) * BLOCK
    BY <2>1, MulMonotone
  <2>3. k * BLOCK \in Nat /\ (N - 1) * BLOCK \in Nat /\ k * (BLOCK + 1) = k * BLOCK + k
    BY <2>1
  <2> QED BY <1>1, <2>2, <2>3
<1>4. ASSUME NEW j \in Nat, j + 2 <= M
      PROVE  \E k \in 0..(N - 1), r \in 0..BLOCK :
                /\ j \div (BLOCK + 1) = k /\ j % (BLOCK + 1) = r
                /\ j = k * (BLOCK + 1) + r /\ (r # 0 => k * BLOCK + r <= L)
  <2> DEFINE k == j \div (BLOCK + 1)
             r == j % (BLOCK + 1)
  <2>1. k \in Nat /\ r \in 0..BLOCK /\ j = (BLOCK + 1) * k + r
    <3>1. BLOCK + 1 \in Nat \ {0} /\ (BLOCK + 1) - 1 = BLOCK
      OBVIOUS
    <3> HIDE DEF F, L, N, M
    <3> QED BY <3>1, DivMod, Zenon
  <2> HIDE DEF k, r, F, L, N, G
  <2>2. j = k * BLOCK + k + r /\ k * BLOCK \in Nat
    BY <2>1
  <2>3. k <= N - 1
    <3> SUFFICES ASSUME k >= N PROVE FALSE
      BY <1>1, <2>1
    <3>1. N * BLOCK <= k * BLOCK /\ N * BLOCK \in Nat
      BY <1>1, <2>1, MulMonotone
    <3> QED BY <1>1, <1>4, <2>1, <2>2, <3>1
  <2>4. k * BLOCK + r <= L
    <3>1. CASE k = N - 1
      BY <3>1, <1>1, <1>4, <2>1, <2>2
    <3>2. CASE k < N - 1
      <4>1. (k + 1) * BLOCK <= (N - 1) * BLOCK /\ (k + 1) * BLOCK = k * BLOCK + BLOCK
            /\ (N - 1) * BLOCK \in Nat
        BY <3>2, <1>1, <2>1, MulMonotone
      <4> QED BY <4>1, <1>1, <2>1, <2>2
    <3> QED BY <2>3, <3>1, <3>2, <2>1, <1>1
  <2>5. k \in 0..(N - 1) /\ k * (BLOCK + 1) + r = j
    BY <2>1, <2>2, <2>3, <1>1
  <2> QED BY <2>1, <2>4, <2>5 DEF k, r
<1>5. ASSUME NEW i \in 1..M PROVE G[i] \in Nat
  <2>1. CASE i = 1
    BY <2>1 DEF STREAM_IDENTIFIER
  <2>2. CASE i # 1
    <3>1. i - 2 \in Nat /\ (i - 2) + 2 <= M
      BY <2>2, <1>1
    <3>2. PICK k \in 0..(N - 1), r \in 0..BLOCK :
              /\ (i - 2) \div (BLOCK + 1) = k /\ (i - 2) % (BLOCK + 1) = r
              /\ (r # 0 => k * BLOCK + r <= L)
      <4> HIDE DEF L, N, M, F, G
      <4> QED BY <3>1, <1>4
    <3>3. G[i] = byte(k, r)
      BY <2>2, <3>2
    <3>4. k * BLOCK \in Nat /\ k * BLOCK < L
      BY <1>3
    <3>5. r # 0 => k * BLOCK + r \in 1..Len(data)
      <4> HIDE DEF N, F, G
      <4> QED BY <3>2, <3>4
    <3>6. byte(k, r) \in Nat
      <4> HIDE DEF N, F, G
      <4> QED BY <3>4, <3>5, <1>1
    <3> QED BY <3>3, <3>6
  <2> QED BY <2>1, <2>2
<1>6. G \in Seq(Nat) /\ Len(G) = M /\ G[1] = STREAM_IDENTIFIER
  <2>1. M \in Nat /\ 1 \in 1..M
    BY <1>1
  <2>2. G \in [1..M -> Nat]
    <3> DEFINE g(i) == IF i = 1 THEN STREAM_IDENTIFIER
                       ELSE byte((i - 2) \div (BLOCK + 1), (i - 2) % (BLOCK + 1))
    <3>1. G = [i \in 1..M |-> g(i)] /\ \A i \in 1..M : G[i] = g(i)
      OBVIOUS
    <3> HIDE DEF g
    <3> QED BY <1>5, <3>1
  <2>3. G[1] = STREAM_IDENTIFIER
    BY <2>1
  <2> HIDE DEF G, M
  <2> QED BY <2>1, <2>2, <2>3
<1>7. ASSUME NEW k \in 0..(N - 1), NEW r \in 0..BLOCK, k * BLOCK + r <= L
      PROVE  2 + k * (BLOCK + 1) + r <= M /\ G[2 + k * (BLOCK + 1) + r] = byte(k, r)
  <2> DEFINE i == 2 + k * (BLOCK + 1) + r
  <2>1. k * BLOCK \in Nat /\ k * (BLOCK + 1) = k * BLOCK + k /\ k \in Nat /\ k <= N - 1
    BY <1>1, <1>3
  <2>2. i \in 1..M /\ i # 1 /\ i - 2 = k * (BLOCK + 1) + r
    <3> HIDE DEF N, L, F, G
    <3> QED BY <1>1, <1>7, <2>1
  <2>3. (i - 2) \div (BLOCK + 1) = k /\ (i - 2) % (BLOCK + 1) = r
    <3> HIDE DEF i, N, L, F, G, M
    <3>1. BLOCK + 1 \in Nat \ {0} /\ r \in 0..((BLOCK + 1) - 1)
      OBVIOUS
    <3> QED BY <2>1, <2>2, <3>1, DivUnique
  <2>4. G[i] = byte(k, r)
    <3> HIDE DEF i, byte, L, N, M
    <3> QED BY <2>2, <2>3
  <2> HIDE DEF G, byte
  <2> QED BY <2>2, <2>4
<1>8. ASSUME NEW k \in 0..(N - 1)
      PROVE  /\ 2 + k * (BLOCK + 1) <= Len(G)
             /\ G[2 + k * (BLOCK + 1)] = IF L - k * BLOCK < BLOCK THEN L - k * BLOCK ELSE BLOCK
             /\ \A r \in 1..BLOCK : k * BLOCK + r <= L =>
                   /\ 2 + k * (BLOCK + 1) + r <= Len(G)
                   /\ G[2 + k * (BLOCK + 1) + r] = data[k * BLOCK + r]
  <2>1. k * BLOCK \in Nat /\ k * BLOCK < L /\ 0 \in 0..BLOCK /\ 2 + k * (BLOCK + 1) + 0 = 2 + k * (BLOCK + 1)
    BY <1>3
  <2> HIDE DEF G, L, N, M, F
  <2>2. k * BLOCK + 0 <= L
    BY <2>1, <1>1
  <2>3. 2 + k * (BLOCK + 1) + 0 <= M /\ G[2 + k * (BLOCK + 1) + 0] = byte(k, 0)
    BY <2>1, <2>2, <1>7
  <2>4. ASSUME NEW r \in 1..BLOCK, k * BLOCK + r <= L
        PROVE  /\ 2 + k * (BLOCK + 1) + r <= M
               /\ G[2 + k * (BLOCK + 1) + r] = data[k * BLOCK + r]
    <3>1. r \in 0..BLOCK /\ r # 0
      OBVIOUS
    <3> QED BY <2>4, <3>1, <1>7
  <2> QED BY <2>1, <2>3, <2>4, <1>6
<1> HIDE DEF G
<1> QED BY <1>2, <1>6, <1>8

\* The recursive definition of the starts of the blocks describes its values.
LEMMA BlockStartDef ==
    ASSUME NEW src \in Seq(Nat)
    PROVE  /\ \A k \in Nat : block_start(src)[k] \in Nat
           /\ block_start(src)[0] = 2
           /\ \A k \in Nat : block_start(src)[k + 1] =
                 block_start(src)[k] + 1
                 + (IF block_start(src)[k] \in 1..Len(src) THEN src[block_start(src)[k]] ELSE 0)
<1> DEFINE next == [p \in Nat |-> p + 1 + (IF p \in DOMAIN src THEN src[p] ELSE 0)]
           d == [k \in Nat |-> IF k = 0 THEN 0 ELSE k - 1]
           a == [k \in Nat |-> 2]
           g == [k \in Nat |-> next]
           Def(f) == [k \in Nat |-> IF k = 0 THEN 2 ELSE next[f[k - 1]]]
<1>1. next \in [Nat -> Nat]
  <2>1. DOMAIN src = 1..Len(src) /\ \A p \in 1..Len(src) : src[p] \in Nat
    OBVIOUS
  <2>2. ASSUME NEW p \in Nat PROVE p + 1 + (IF p \in DOMAIN src THEN src[p] ELSE 0) \in Nat
    BY <2>1
  <2> QED BY <2>2
<1>2. PICK f : Solves(f, Nat, {0}, d, a, g)
  <2>1. Recursion(Nat, {0}, d, a, g)
    <3>1. d \in [Nat -> Nat] /\ a \in [Nat -> Nat] /\ \A k \in Nat : k \notin {0} => d[k] < k
      OBVIOUS
    <3> HIDE DEF next
    <3>2. g \in [Nat -> [Nat -> Nat]]
      BY <1>1
    <3> HIDE DEF d, a, g
    <3> QED BY <3>1, <3>2 DEF Recursion
  <2> HIDE DEF d, a, g
  <2> QED BY <2>1, RecursiveFunction
<1>3. f = Def(f)
  <2> HIDE DEF next
  <2>1. ASSUME NEW k \in Nat PROVE f[k] = IF k = 0 THEN 2 ELSE next[f[k - 1]]
    <3>1. f[k] = IF k \in {0} THEN a[k] ELSE g[k][f[d[k]]]
      <4> HIDE DEF a, g, d
      <4> QED BY <1>2 DEF Solves
    <3> QED BY <3>1
  <2>2. f = [k \in Nat |-> f[k]]
    BY <1>2 DEF Solves
  <2> QED BY <2>1, <2>2
<1>4. block_start(src) = CHOOSE v : v = Def(v)
  BY DEF block_start
<1> HIDE DEF Def
<1>5. block_start(src) = Def(block_start(src))
  BY <1>3, <1>4
<1> DEFINE s == block_start(src)
<1> HIDE DEF s, next
<1>6. s = Def(s)
  BY <1>5 DEF s
<1>7. s[0] = 2
  BY <1>6 DEF Def
<1>8. ASSUME NEW k \in Nat PROVE s[k + 1] = next[s[k]]
  <2>1. k + 1 \in Nat /\ k + 1 # 0 /\ (k + 1) - 1 = k
    OBVIOUS
  <2>2. s[k + 1] = next[s[(k + 1) - 1]]
    BY <1>6, <2>1 DEF Def
  <2> QED BY <2>1, <2>2
<1>9. \A k \in Nat : s[k] \in Nat
  <2> DEFINE T == {k \in Nat : s[k] \in Nat}
  <2>1. 0 \in T
    BY <1>7
  <2>2. ASSUME NEW k \in T PROVE k + 1 \in T
    <3>1. s[k + 1] = next[s[k]] /\ k + 1 \in Nat /\ s[k] \in Nat
      BY <1>8
    <3>2. next[s[k]] \in Nat
      BY <1>1, <3>1
    <3> QED BY <3>1, <3>2
  <2>3. T \in SUBSET Nat
    OBVIOUS
  <2> HIDE DEF T
  <2>4. T = Nat
    BY <2>1, <2>2, <2>3, Induction
  <2> QED BY <2>4 DEF T
<1>10. ASSUME NEW k \in Nat
       PROVE  s[k + 1] = s[k] + 1 + (IF s[k] \in 1..Len(src) THEN src[s[k]] ELSE 0)
  <2>1. DOMAIN src = 1..Len(src)
    OBVIOUS
  <2>2. next[s[k]] = s[k] + 1 + (IF s[k] \in DOMAIN src THEN src[s[k]] ELSE 0)
    BY <1>9 DEF next
  <2> QED BY <1>8, <2>1, <2>2
<1> QED BY <1>7, <1>9, <1>10 DEF s

\* The bytes of data in the first k blocks of a message with n bytes.
Held(n, k) == IF k * BLOCK < n THEN k * BLOCK ELSE n

\* After a full block comes one with what is left, BLOCK bytes at most.
LEMMA HeldNext ==
    ASSUME NEW n \in Nat \ {0}, NEW k \in Nat, k * BLOCK < n
    PROVE  LET size == IF n - k * BLOCK < BLOCK THEN n - k * BLOCK ELSE BLOCK
               e == 2 + k + Held(n, k)
           IN  /\ e = 2 + k * (BLOCK + 1) /\ e \in Nat /\ size \in Nat
               /\ 2 + (k + 1) + Held(n, k + 1) = e + 1 + size
<1> USE CodecAssumption
<1> DEFINE b == k * BLOCK
<1>1. b \in Nat /\ k * (BLOCK + 1) = b + k /\ (k + 1) * BLOCK = b + BLOCK
  OBVIOUS
<1>2. Held(n, k) = b
  BY DEF Held
<1>3. Held(n, k + 1) = IF b + BLOCK < n THEN b + BLOCK ELSE n
  BY <1>1 DEF Held
<1>4. b < n
  OBVIOUS
<1> DEFINE c == k * (BLOCK + 1)
           h == Held(n, k)
           i == Held(n, k + 1)
<1>5. b \in Nat /\ c = b + k /\ h = b /\ i = IF b + BLOCK < n THEN b + BLOCK ELSE n
  BY <1>1, <1>2, <1>3
<1> HIDE DEF b, c, h, i
<1>6. LET size == IF n - b < BLOCK THEN n - b ELSE BLOCK
      IN  /\ 2 + k + h = 2 + c /\ 2 + k + h \in Nat /\ size \in Nat
          /\ 2 + (k + 1) + i = 2 + k + h + 1 + size
  BY <1>4, <1>5
<1> QED BY <1>6 DEF b, c, h, i

\* The decoder finds the blocks where the encoder has put them, as far as the
\* buffer goes.
LEMMA BlockStarts ==
    ASSUME NEW data \in Seq(Nat), data # <<>>, NEW src \in Seq(Nat),
           Len(src) <= Len(FrameEncoder(data)),
           \A i \in 1..Len(src) : src[i] = FrameEncoder(data)[i]
    PROVE  \A k \in 0..Blocks(Len(data)) :
              LET s == block_start(src)[k]
                  e == 2 + k + Held(Len(data), k)
              IN  s \in Nat /\ s <= e /\ (s = e \/ s > Len(src))
<1> USE CodecAssumption
<1> DEFINE F == FrameEncoder(data)
           L == Len(data)
           N == Blocks(L)
           s == block_start(src)
           e(k) == 2 + k + Held(L, k)
           T == {k \in Nat : k <= N => s[k] <= e(k) /\ (s[k] = e(k) \/ s[k] > Len(src))}
<1>1. L \in Nat \ {0} /\ N \in Nat \ {0} /\ (N - 1) * BLOCK < L /\ L <= N * BLOCK
  <2>1. L \in Nat \ {0}
    OBVIOUS
  <2> QED BY <2>1, BlocksBound
<1>2. /\ \A k \in Nat : s[k] \in Nat
      /\ s[0] = 2
      /\ \A k \in Nat : s[k + 1] = s[k] + 1 + (IF s[k] \in 1..Len(src) THEN src[s[k]] ELSE 0)
  BY BlockStartDef
<1>3. \A k \in 0..(N - 1) :
         /\ 2 + k * (BLOCK + 1) <= Len(F)
         /\ F[2 + k * (BLOCK + 1)] = IF L - k * BLOCK < BLOCK THEN L - k * BLOCK ELSE BLOCK
  BY FrameBytes
<1>4. Len(src) \in Nat /\ \A i \in 1..Len(src) : src[i] = F[i]
  OBVIOUS
<1> HIDE DEF F, L, N, s
<1>5. 0 \in T
  <2>1. Held(L, 0) = 0
    <3>1. 0 * BLOCK = 0
      OBVIOUS
    <3> QED BY <1>1, <3>1 DEF Held
  <2>2. e(0) = 2
    BY <2>1
  <2>3. s[0] <= e(0) /\ s[0] = e(0)
    BY <1>2, <2>2
  <2> HIDE DEF e
  <2> QED BY <2>3
<1>6. ASSUME NEW k \in T PROVE k + 1 \in T
  <2> SUFFICES ASSUME k + 1 <= N
               PROVE  s[k + 1] <= e(k + 1) /\ (s[k + 1] = e(k + 1) \/ s[k + 1] > Len(src))
    OBVIOUS
  <2>1. k \in Nat /\ k \in 0..(N - 1)
    BY <1>1
  <2>2. k * BLOCK \in Nat /\ k * BLOCK < L /\ (k + 1) * BLOCK = k * BLOCK + BLOCK
        /\ k * (BLOCK + 1) = k * BLOCK + k
    <3>1. k * BLOCK <= (N - 1) * BLOCK
      BY <2>1, <1>1, MulMonotone
    <3>2. k * BLOCK \in Nat /\ (N - 1) * BLOCK \in Nat
      BY <2>1, <1>1
    <3>3. (k + 1) * BLOCK = k * BLOCK + BLOCK /\ k * (BLOCK + 1) = k * BLOCK + k
      BY <2>1
    <3> HIDE DEF T, e
    <3>4. k * BLOCK < L
      BY <3>1, <3>2, <1>1
    <3> QED BY <3>2, <3>3, <3>4
  <2> DEFINE size == IF L - k * BLOCK < BLOCK THEN L - k * BLOCK ELSE BLOCK
  <2>3. e(k) = 2 + k * (BLOCK + 1) /\ e(k + 1) = e(k) + 1 + size /\ e(k) \in Nat /\ size \in Nat
    <3> HIDE DEF T
    <3> QED BY <1>1, <2>1, <2>2, HeldNext
  <2>4. s[k] \in Nat /\ s[k] <= e(k) /\ (s[k] = e(k) \/ s[k] > Len(src))
    <3>1. k <= N
      BY <1>1, <2>1
    <3> HIDE DEF e
    <3> QED BY <1>2, <2>1, <3>1
  <2>5. s[k + 1] = s[k] + 1 + (IF s[k] \in 1..Len(src) THEN src[s[k]] ELSE 0)
    BY <1>2, <2>1
  <2>6. CASE s[k] \in 1..Len(src)
    <3>1. s[k] = e(k)
      BY <2>4, <2>6, <1>4
    <3>2. src[s[k]] = size
      BY <3>1, <2>1, <2>3, <2>6, <1>3, <1>4
    <3> HIDE DEF e, size
    <3> QED BY <2>3, <2>5, <2>6, <3>1, <3>2
  <2>7. CASE s[k] \notin 1..Len(src)
    <3>1. s[k] > Len(src)
      BY <2>3, <2>4, <2>7, <1>4, <2>1
    <3> HIDE DEF e, size
    <3> QED BY <2>3, <2>4, <2>5, <2>7, <3>1, <1>4
  <2> QED BY <2>6, <2>7
<1>7. T = Nat
  <2>1. T \in SUBSET Nat
    OBVIOUS
  <2> HIDE DEF T
  <2> QED BY <1>5, <1>6, <2>1, Induction
<1>8. ASSUME NEW k \in 0..N PROVE s[k] \in Nat /\ s[k] <= e(k) /\ (s[k] = e(k) \/ s[k] > Len(src))
  <2>1. k \in T /\ k <= N
    BY <1>1, <1>7
  <2> QED BY <1>2, <2>1
<1> QED BY <1>8 DEF s, N, L

\* What is not there yet is waited for.
LEMMA ReadPart ==
    ASSUME NEW data \in Seq(Nat), data # <<>>, NEW src \in Seq(Nat),
           Len(src) < Len(FrameEncoder(data)),
           \A i \in 1..Len(src) : src[i] = FrameEncoder(data)[i]
    PROVE  read_exact(src, Len(data)) = Err("UnexpectedEof")
<1> USE CodecAssumption
<1> DEFINE F == FrameEncoder(data)
           L == Len(data)
           N == Blocks(L)
           s == block_start(src)
           enough == blocks_holding(src, L)
           K == Min(enough)
<1>1. L \in Nat \ {0} /\ N \in Nat \ {0} /\ (N - 1) * BLOCK < L
  <2>1. L \in Nat \ {0}
    OBVIOUS
  <2> QED BY <2>1, BlocksBound
<1>2. Len(F) = 1 + N + L /\ F[1] = STREAM_IDENTIFIER
  BY FrameBytes
<1>3. src # <<>> => src[1] = STREAM_IDENTIFIER
  <2>1. src # <<>> => 1 \in 1..Len(src)
    OBVIOUS
  <2> QED BY <1>2, <2>1
<1>4. \A k \in 0..N : s[k] \in Nat /\ s[k] <= 2 + k + Held(L, k)
  BY BlockStarts
<1>5. enough # {} => s[K] - 1 > Len(src)
  <2> SUFFICES ASSUME enough # {} PROVE s[K] - 1 > Len(src)
    OBVIOUS
  <2>1. enough \in SUBSET Nat
    BY DEF blocks_holding
  <2>2. K \in enough
    BY <2>1, MinOf
  <2>3. K \in Nat \ {0} /\ s[K] - K - 2 >= L
    BY <2>2 DEF blocks_holding
  <2>4. s[K] \in Nat
    BY <2>3, BlockStartDef
  <2>5. Len(src) \in Nat /\ Len(src) < 1 + N + L
    BY <1>2
  <2> HIDE DEF K, enough, s, F, N, L
  <2>6. K >= N
    <3> SUFFICES ASSUME K < N PROVE FALSE
      BY <1>1, <2>3
    <3>1. K \in 0..N /\ K <= N - 1 /\ N - 1 \in Nat
      BY <1>1, <2>3
    <3>2. K * BLOCK <= (N - 1) * BLOCK
      BY <2>3, <3>1, MulMonotone
    <3>3. K * BLOCK \in Nat /\ (N - 1) * BLOCK \in Nat
      BY <2>3, <3>1
    <3>4. Held(L, K) < L
      BY <1>1, <3>2, <3>3 DEF Held
    <3>5. Held(L, K) \in Nat
      BY <1>1, <3>3 DEF Held
    <3> QED BY <1>1, <1>4, <2>3, <2>4, <3>1, <3>4, <3>5
  <2> QED BY <1>1, <2>3, <2>4, <2>5, <2>6
<1> HIDE DEF F, N
<1> QED BY <1>1, <1>3, <1>5 DEF read_exact

\* The byte i of the data is in block k + 1, after k full ones.
LEMMA BlockOf ==
    ASSUME NEW i \in Nat \ {0}
    PROVE  \E k \in Nat, r \in 1..BLOCK : i = k * BLOCK + r
<1> USE CodecAssumption
<1>1. i - 1 \in Nat /\ BLOCK \in Nat \ {0}
  OBVIOUS
<1>2. /\ (i - 1) \div BLOCK \in Nat /\ (i - 1) % BLOCK \in 0..(BLOCK - 1)
      /\ i - 1 = BLOCK * ((i - 1) \div BLOCK) + ((i - 1) % BLOCK)
  BY <1>1, DivMod, Zenon
<1>3. PICK k \in Nat, r \in 0..(BLOCK - 1) : i - 1 = BLOCK * k + r
  BY <1>2
<1>4. i = k * BLOCK + (r + 1) /\ r + 1 \in 1..BLOCK
  BY <1>3
<1> QED BY <1>4

\* Blocks never hold more than the data.
LEMMA HeldBound ==
    ASSUME NEW n \in Nat, NEW j \in Nat, NEW k \in Nat, j <= k
    PROVE  Held(n, j) \in Nat /\ Held(n, j) <= n /\ Held(n, j) <= k * BLOCK
<1> USE CodecAssumption
<1> DEFINE x == j * BLOCK
           y == k * BLOCK
<1>1. x \in Nat /\ y \in Nat /\ x <= y
  BY MulMonotone
<1> HIDE DEF x, y
<1>2. LET h == IF x < n THEN x ELSE n
      IN  h \in Nat /\ h <= n /\ h <= y
  BY <1>1
<1> QED BY <1>2 DEF Held, x, y

\* The whole frame gives back the data.
LEMMA ReadWhole ==
    ASSUME NEW data \in Seq(Nat), data # <<>>
    PROVE  read_exact(FrameEncoder(data), Len(data)) =
              [kind |-> "Ok", n |-> Len(FrameEncoder(data)), data |-> data]
<1> USE CodecAssumption
<1> DEFINE F == FrameEncoder(data)
           L == Len(data)
           N == Blocks(L)
           s == block_start(F)
<1>1. L \in Nat \ {0} /\ N \in Nat \ {0} /\ (N - 1) * BLOCK < L /\ L <= N * BLOCK
  <2>1. L \in Nat \ {0}
    OBVIOUS
  <2> QED BY <2>1, BlocksBound
<1>2. /\ F \in Seq(Nat) /\ Len(F) = 1 + N + L /\ F[1] = STREAM_IDENTIFIER
      /\ \A k \in 0..(N - 1), r \in 1..BLOCK : k * BLOCK + r <= L =>
            F[2 + k * (BLOCK + 1) + r] = data[k * BLOCK + r]
  BY FrameBytes
<1>3. \A k \in 0..N : s[k] \in Nat /\ s[k] <= 2 + k + Held(L, k)
                      /\ (s[k] = 2 + k + Held(L, k) \/ s[k] > Len(F))
  BY <1>2, BlockStarts
<1> HIDE DEF F, L, N, s
<1>4. ASSUME NEW k \in 0..N PROVE s[k] - k - 2 = Held(L, k) /\ Held(L, k) \in Nat /\ s[k] \in Nat
  <2>1. k \in Nat /\ k <= N
    BY <1>1
  <2>2. Held(L, k) \in Nat /\ Held(L, k) <= L
    BY <1>1, <2>1, HeldBound
  <2> DEFINE h == Held(L, k)
             x == s[k]
  <2>3. x \in Nat /\ x <= 2 + k + h /\ (x = 2 + k + h \/ x > 1 + N + L)
    BY <1>2, <1>3
  <2> HIDE DEF h, x
  <2>4. x - k - 2 = h
    BY <1>1, <2>1, <2>2, <2>3 DEF h
  <2> QED BY <2>2, <2>3, <2>4 DEF h, x
<1>5. Held(L, N) = L
  <2> DEFINE x == N * BLOCK
  <2>1. x \in Nat /\ L <= x
    BY <1>1
  <2> HIDE DEF x
  <2>2. ~ (x < L)
    BY <1>1, <2>1
  <2> QED BY <2>2 DEF Held, x
<1>6. ASSUME NEW i \in 1..L, NEW k \in 0..(N - 1), NEW r \in 1..BLOCK, i = k * BLOCK + r
      PROVE  Min(blocks_holding(F, i)) = k + 1
  <2> DEFINE T == blocks_holding(F, i)
             x == k * BLOCK
  <2>1. k \in Nat /\ k + 1 \in 0..N /\ k + 1 \in 1..Len(F) /\ x \in Nat
        /\ (k + 1) * BLOCK = x + BLOCK /\ i = x + r
    BY <1>1, <1>2, <1>6
  <2>2. T \in SUBSET Nat
    BY DEF blocks_holding
  <2>3. Held(L, k + 1) >= i
    <3>1. Held(L, k + 1) = IF x + BLOCK < L THEN x + BLOCK ELSE L
      BY <2>1 DEF Held
    <3> HIDE DEF x
    <3> QED BY <3>1, <2>1, <1>1
  <2>4. k + 1 \in T
    <3>1. s[k + 1] - (k + 1) - 2 >= i
      BY <1>4, <2>1, <2>3
    <3> QED BY <2>1, <3>1 DEF blocks_holding, s
  <2>5. ASSUME NEW j \in T, j < k + 1 PROVE FALSE
    <3>1. j \in Nat /\ j <= k /\ j \in 0..N /\ s[j] - j - 2 >= i
      BY <1>1, <2>1, <2>2, <2>5 DEF blocks_holding, s
    <3>2. Held(L, j) <= x /\ Held(L, j) >= i /\ Held(L, j) \in Nat
      BY <1>1, <1>4, <2>1, <3>1, HeldBound
    <3> HIDE DEF x
    <3> QED BY <2>1, <3>2
  <2> HIDE DEF T
  <2>6. \A j \in T : k + 1 <= j
    BY <2>1, <2>2, <2>5
  <2>7. Min(T) = k + 1
    BY <2>2, <2>4, <2>6, MinIs
  <2> QED BY <2>7 DEF T
<1>7. ASSUME NEW i \in 1..L
      PROVE  \E k \in 0..(N - 1), r \in 1..BLOCK : i = k * BLOCK + r
  <2>1. PICK k \in Nat, r \in 1..BLOCK : i = k * BLOCK + r
    <3>1. i \in Nat \ {0}
      BY <1>1
    <3> QED BY <3>1, BlockOf
  <2>2. k <= N - 1
    <3> SUFFICES ASSUME k >= N PROVE FALSE
      BY <1>1
    <3> DEFINE x == k * BLOCK
               y == N * BLOCK
    <3>1. y <= x /\ x \in Nat /\ y \in Nat /\ i = x + r /\ L <= y
      BY <1>1, <2>1, MulMonotone
    <3> HIDE DEF x, y
    <3> QED BY <3>1, <1>1
  <2>3. k \in 0..(N - 1)
    BY <2>2, <1>1
  <2> QED BY <2>1, <2>3
<1>8. Min(blocks_holding(F, L)) = N /\ blocks_holding(F, L) # {}
  <2>1. L \in 1..L
    BY <1>1
  <2>2. PICK k \in 0..(N - 1), r \in 1..BLOCK : L = k * BLOCK + r
    BY <1>7, <2>1
  <2>3. Min(blocks_holding(F, L)) = k + 1
    BY <1>6, <2>1, <2>2
  <2>4. k = N - 1
    <3> SUFFICES ASSUME k + 1 <= N - 1 PROVE FALSE
      BY <1>1
    <3> DEFINE x == k * BLOCK
               y == (N - 1) * BLOCK
    <3>1. (k + 1) * BLOCK <= y /\ (k + 1) * BLOCK = x + BLOCK /\ x \in Nat /\ y \in Nat /\ y < L
          /\ L = x + r
      BY <1>1, <2>2, MulMonotone
    <3> HIDE DEF x, y
    <3> QED BY <3>1, <1>1
  <2>5. N \in blocks_holding(F, L)
    <3>1. N \in 0..N /\ N \in 1..Len(F)
      BY <1>1, <1>2
    <3> QED BY <3>1, <1>1, <1>4, <1>5 DEF blocks_holding, s
  <2> QED BY <2>3, <2>4, <2>5, <1>1
<1>9. s[N] - 1 = Len(F)
  <2>1. N \in 0..N
    BY <1>1
  <2> DEFINE x == s[N]
  <2>2. x - N - 2 = L /\ x \in Nat
    BY <2>1, <1>4, <1>5
  <2>3. Len(F) = 1 + N + L
    BY <1>2
  <2> HIDE DEF x
  <2>4. x - 1 = 1 + N + L
    BY <1>1, <2>2
  <2> QED BY <2>3, <2>4 DEF x
<1>10. ASSUME NEW i \in 1..L PROVE F[1 + Min(blocks_holding(F, i)) + i] = data[i]
  <2>1. PICK k \in 0..(N - 1), r \in 1..BLOCK : i = k * BLOCK + r
    BY <1>7
  <2>2. Min(blocks_holding(F, i)) = k + 1
    BY <1>6, <2>1
  <2>3. 1 + (k + 1) + i = 2 + k * (BLOCK + 1) + r
    BY <1>1, <2>1
  <2>4. F[2 + k * (BLOCK + 1) + r] = data[k * BLOCK + r]
    <3>1. k * BLOCK + r <= L
      BY <1>1, <2>1
    <3> QED BY <1>2, <3>1
  <2> QED BY <2>1, <2>2, <2>3, <2>4
<1>11. [i \in 1..L |-> F[1 + Min(blocks_holding(F, i)) + i]] = data
  <2>1. data = [i \in 1..L |-> data[i]]
    BY DEF L
  <2> QED BY <1>10, <2>1
<1>12. F # <<>> /\ Len(F) \in Nat
  BY <1>1, <1>2
<1>13. read_exact(F, L) = [kind |-> "Ok", n |-> Len(F), data |-> data]
  <2>1. read_exact(F, L) = [kind |-> "Ok", n |-> s[N] - 1,
            data |-> [i \in 1..L |-> F[1 + Min(blocks_holding(F, i)) + i]]]
    BY <1>1, <1>2, <1>8, <1>9, <1>12 DEF read_exact, s
  <2> QED BY <2>1, <1>9, <1>11
<1> QED BY <1>13 DEF F, L

-----------------------------------------------------------------------------
(* A message in pieces                                                     *)

Decoder == [src : Seq(Nat), len : Int, code : Int]

Header(data) == varint[Len(data)]

Message(data) == Header(data) \o FrameEncoder(data)

\* The decoder has had the first k bytes of the message and needs more: the
\* length is not complete, or it has been taken and data are missing.
Reads(c, data, k) ==
    /\ k \in 0..(Len(Message(data)) - 1)
    /\ \/ /\ c.len = -1 /\ k < Len(Header(data))
          /\ c.src = SubSeq(Message(data), 1, k)
       \/ /\ c.len = Len(data) /\ k >= Len(Header(data))
          /\ c.src = SubSeq(Message(data), Len(Header(data)) + 1, k)

\* A message is its header and, after it, the blocks of its data.
LEMMA MessageBytes ==
    ASSUME NEW data \in Seq(Nat)
    PROVE  /\ Header(data) \in Seq(Nat) /\ Len(Header(data)) \in Nat \ {0}
           /\ FrameEncoder(data) \in Seq(Nat) /\ Len(FrameEncoder(data)) \in Nat
           /\ data = <<>> => FrameEncoder(data) = <<>>
           /\ data # <<>> => Len(FrameEncoder(data)) = 1 + Blocks(Len(data)) + Len(data)
           /\ Message(data) \in Seq(Nat)
           /\ Len(Message(data)) = Len(Header(data)) + Len(FrameEncoder(data))
           /\ \A i \in 1..Len(Header(data)) : Message(data)[i] = Header(data)[i]
           /\ \A i \in 1..Len(FrameEncoder(data)) :
                 Message(data)[Len(Header(data)) + i] = FrameEncoder(data)[i]
<1>1. Header(data) \in Seq(Nat) /\ Len(Header(data)) \in Nat \ {0}
  <2>1. Len(data) \in Nat
    OBVIOUS
  <2> QED BY <2>1, VarintBytes DEF Header
<1>2. /\ FrameEncoder(data) \in Seq(Nat)
      /\ data = <<>> => FrameEncoder(data) = <<>>
      /\ data # <<>> => Len(FrameEncoder(data)) = 1 + Blocks(Len(data)) + Len(data)
  <2>1. CASE data = <<>>
    BY <2>1 DEF FrameEncoder
  <2>2. CASE data # <<>>
    BY <2>2, FrameBytes
  <2> QED BY <2>1, <2>2
<1> DEFINE V == Header(data)
           F == FrameEncoder(data)
<1> HIDE DEF V, F
<1>3. V \in Seq(Nat) /\ F \in Seq(Nat)
  BY <1>1, <1>2 DEF V, F
<1>4. /\ Len(F) \in Nat /\ V \o F \in Seq(Nat) /\ Len(V \o F) = Len(V) + Len(F)
      /\ \A i \in 1..Len(V) : (V \o F)[i] = V[i]
      /\ \A i \in 1..Len(F) : (V \o F)[Len(V) + i] = F[i]
  BY <1>3
<1> QED BY <1>1, <1>2, <1>4 DEF Message, V, F

\* The bytes of a piece of a message.
LEMMA SubSeqBytes ==
    ASSUME NEW s \in Seq(Nat), NEW m \in 1..(Len(s) + 1), NEW n \in (m - 1)..Len(s)
    PROVE  /\ SubSeq(s, m, n) \in Seq(Nat) /\ Len(SubSeq(s, m, n)) = n - m + 1
           /\ \A i \in 1..(n - m + 1) : SubSeq(s, m, n)[i] = s[m + i - 1]
<1>1. \A i \in m..n : s[i] \in Nat
  OBVIOUS
<1> QED BY <1>1, SubSeqProperties

\* The fields of a decoder after the assignments that the codecs make.
LEMMA DecoderExcept ==
    ASSUME NEW c \in Decoder, NEW l \in Int, NEW x \in Seq(Nat)
    PROVE  /\ [c EXCEPT !.len = l, !.src = x] = [src |-> x, len |-> l, code |-> c.code]
           /\ [c EXCEPT !.src = x] = [src |-> x, len |-> c.len, code |-> c.code]
           /\ [c EXCEPT !.code = l, !.src = x] = [src |-> x, len |-> c.len, code |-> l]
           /\ [c EXCEPT !.code = l] = [src |-> c.src, len |-> c.len, code |-> l]
<1>1. ASSUME NEW d \in Decoder PROVE d = [src |-> d.src, len |-> d.len, code |-> d.code]
  BY DEF Decoder
<1>2. [c EXCEPT !.len = l, !.src = x] = [src |-> x, len |-> l, code |-> c.code]
  <2> DEFINE d == [c EXCEPT !.len = l, !.src = x]
  <2>1. d \in Decoder /\ d.src = x /\ d.len = l /\ d.code = c.code
    BY DEF Decoder
  <2> HIDE DEF d
  <2>2. d = [src |-> x, len |-> l, code |-> c.code]
    BY <1>1, <2>1
  <2> QED BY <2>2 DEF d
<1>3. [c EXCEPT !.src = x] = [src |-> x, len |-> c.len, code |-> c.code]
  <2> DEFINE d == [c EXCEPT !.src = x]
  <2>1. d \in Decoder /\ d.src = x /\ d.len = c.len /\ d.code = c.code
    BY DEF Decoder
  <2> HIDE DEF d
  <2>2. d = [src |-> x, len |-> c.len, code |-> c.code]
    BY <1>1, <2>1
  <2> QED BY <2>2 DEF d
<1>4. [c EXCEPT !.code = l, !.src = x] = [src |-> x, len |-> c.len, code |-> l]
  <2> DEFINE d == [c EXCEPT !.code = l, !.src = x]
  <2>1. d \in Decoder /\ d.src = x /\ d.len = c.len /\ d.code = l
    BY DEF Decoder
  <2> HIDE DEF d
  <2>2. d = [src |-> x, len |-> c.len, code |-> l]
    BY <1>1, <2>1
  <2> QED BY <2>2 DEF d
<1>5. [c EXCEPT !.code = l] = [src |-> c.src, len |-> c.len, code |-> l]
  <2> DEFINE d == [c EXCEPT !.code = l]
  <2>1. d \in Decoder /\ d.src = c.src /\ d.len = c.len /\ d.code = l
    BY DEF Decoder
  <2> HIDE DEF d
  <2>2. d = [src |-> c.src, len |-> c.len, code |-> l]
    BY <1>1, <2>1
  <2> QED BY <2>2 DEF d
<1> QED BY <1>2, <1>3, <1>4, <1>5

\* What a decoder that knows the length makes of the data.
LEMMA FrameStep ==
    ASSUME NEW data \in Seq(Nat), Len(data) <= max_packet_size,
           NEW c0, NEW c \in Decoder, snappy_len(c0) = c, c.len = Len(data),
           NEW j \in Len(Header(data))..Len(Message(data)),
           c.src = SubSeq(Message(data), Len(Header(data)) + 1, j)
    PROVE  /\ j < Len(Message(data)) =>
                 snappy_decode(c0) = [codec |-> c, item |-> None] /\ Reads(c, data, j)
           /\ j = Len(Message(data)) =>
                 snappy_decode(c0) = [codec |-> [src |-> <<>>, len |-> -1, code |-> c.code],
                                      item  |-> [kind |-> "Ok", data |-> data]]
<1> USE CodecAssumption
<1> DEFINE V == Header(data)
           F == FrameEncoder(data)
           M == Message(data)
<1>1. /\ V \in Seq(Nat) /\ Len(V) \in Nat \ {0} /\ F \in Seq(Nat) /\ Len(F) \in Nat
      /\ M \in Seq(Nat) /\ Len(M) = Len(V) + Len(F)
      /\ \A i \in 1..Len(F) : M[Len(V) + i] = F[i]
      /\ data = <<>> => F = <<>>
  BY MessageBytes
<1>2. Len(data) \in Nat /\ c.len # -1 /\ ~ (c.len > max_packet_size)
  OBVIOUS
<1> HIDE DEF V, F, M
<1>3. c.src = SubSeq(M, Len(V) + 1, j) /\ j \in Len(V)..Len(M)
  BY DEF V, M
<1> DEFINE lv == Len(V)
           lm == Len(M)
           lf == Len(F)
<1>30. /\ lv \in Nat \ {0} /\ lf \in Nat /\ lm = lv + lf
       /\ j \in Nat /\ lv <= j /\ j <= lm
  <2>1. lv \in Nat \ {0} /\ lf \in Nat /\ lm = lv + lf /\ j \in lv..lm
    BY <1>1, <1>3
  <2> HIDE DEF lv, lm, lf
  <2> QED BY <2>1
<1>4. /\ c.src \in Seq(Nat) /\ Len(c.src) = j - Len(V)
      /\ \A i \in 1..Len(c.src) : c.src[i] = F[i]
  <2>1. lv + 1 \in 1..(lm + 1) /\ j \in ((lv + 1) - 1)..lm
    <3> HIDE DEF lv, lm, lf
    <3> QED BY <1>30
  <2> DEFINE x == SubSeq(M, Len(V) + 1, j)
  <2>2. /\ x \in Seq(Nat) /\ Len(x) = j - (Len(V) + 1) + 1
        /\ \A i \in 1..(j - (Len(V) + 1) + 1) : x[i] = M[(Len(V) + 1) + i - 1]
    BY <1>1, <2>1, SubSeqBytes
  <2> HIDE DEF x
  <2>3. Len(x) = j - Len(V)
    BY <1>1, <1>3, <2>2
  <2>4. ASSUME NEW i \in 1..Len(x) PROVE x[i] = F[i]
    <3>1. i \in 1..(j - (Len(V) + 1) + 1) /\ (Len(V) + 1) + i - 1 = Len(V) + i /\ i \in 1..Len(F)
      BY <1>1, <1>3, <2>3
    <3> QED BY <1>1, <2>2, <3>1
  <2> QED BY <1>3, <2>2, <2>3, <2>4 DEF x
<1> DEFINE r == read_exact(c.src, Len(data))
<1>5. snappy_decode(c0) =
         IF r.kind = "Ok"
         THEN [codec |-> [c EXCEPT !.len = -1, !.src = SubSeq(@, r.n + 1, Len(@))],
               item  |-> [kind |-> "Ok", data |-> r.data]]
         ELSE [codec |-> c, item |-> IF r.error = "UnexpectedEof" THEN None ELSE r]
  BY <1>2 DEF snappy_decode
<1>6. CASE j < Len(M)
  <2>1. data # <<>> /\ Len(c.src) < Len(F)
    <3>1. j < lm /\ Len(c.src) = j - lv /\ (data = <<>> => lf = 0)
      BY <1>1, <1>4, <1>6
    <3>2. Len(c.src) < lf /\ lf # 0
      <4> HIDE DEF lv, lm, lf
      <4> QED BY <1>30, <3>1
    <3> QED BY <3>1, <3>2
  <2>2. r = Err("UnexpectedEof")
    BY <1>4, <2>1, ReadPart DEF F
  <2>3. snappy_decode(c0) = [codec |-> c, item |-> None]
    BY <1>5, <2>2 DEF Err
  <2>4. Reads(c, data, j)
    <3>1. j \in 0..(Len(M) - 1) /\ j >= Len(V)
      BY <1>1, <1>3, <1>6
    <3> QED BY <3>1, <1>3 DEF Reads, V, M
  <2>5. j # Len(M)
    BY <1>1, <1>3, <1>6
  <2> QED BY <2>3, <2>4, <2>5 DEF M
<1>7. CASE j = Len(M)
  <2>1. c.src = F
    <3>1. Len(c.src) = Len(F)
      BY <1>1, <1>4, <1>7
    <3> QED BY <1>1, <1>4, <3>1, SeqEqual
  <2>2. r = [kind |-> "Ok", n |-> Len(F), data |-> data]
    <3>1. CASE data = <<>>
      BY <1>1, <2>1, <3>1 DEF read_exact
    <3>2. CASE data # <<>>
      BY <2>1, <3>2, ReadWhole DEF F
    <3> QED BY <3>1, <3>2
  <2>3. SubSeq(F, Len(F) + 1, Len(F)) = <<>>
    BY <1>1, SubSeqEmpty
  <2>4. [c EXCEPT !.len = -1, !.src = SubSeq(@, Len(F) + 1, Len(@))]
           = [src |-> <<>>, len |-> -1, code |-> c.code]
    <3>1. SubSeq(c.src, Len(F) + 1, Len(c.src)) = <<>>
      BY <2>1, <2>3
    <3>2. [c EXCEPT !.len = -1, !.src = SubSeq(@, Len(F) + 1, Len(@))]
             = [c EXCEPT !.len = -1, !.src = SubSeq(c.src, Len(F) + 1, Len(c.src))]
      BY DEF Decoder
    <3>3. -1 \in Int /\ <<>> \in Seq(Nat)
      OBVIOUS
    <3>4. [c EXCEPT !.len = -1, !.src = <<>>] = [src |-> <<>>, len |-> -1, code |-> c.code]
      BY <3>3, DecoderExcept
    <3> QED BY <3>1, <3>2, <3>4
  <2>5. snappy_decode(c0) = [codec |-> [src |-> <<>>, len |-> -1, code |-> c.code],
                             item  |-> [kind |-> "Ok", data |-> data]]
    <3> HIDE DEF r
    <3>1. r.kind = "Ok" /\ r.n = Len(F) /\ r.data = data
      BY <2>2
    <3> QED BY <1>5, <2>4, <3>1
  <2>6. ~ (j < Len(M))
    BY <1>1, <1>7
  <2> QED BY <2>5, <2>6 DEF M
<1>8. j < lm \/ j = lm
  <2> HIDE DEF lv, lm, lf
  <2> QED BY <1>30
<1> QED BY <1>6, <1>7, <1>8 DEF M

\* n more bytes: nothing is given up until the message is whole, and then it
\* is there.
LEMMA SnappyStep ==
    ASSUME NEW data \in Seq(Nat), Len(data) <= max_packet_size,
           NEW c \in Decoder, NEW k \in Nat, Reads(c, data, k),
           NEW n \in 1..(Len(Message(data)) - k)
    PROVE  LET c1 == [c EXCEPT !.src = @ \o SubSeq(Message(data), k + 1, k + n)]
           IN  /\ k + n < Len(Message(data)) =>
                     \E d \in Decoder : /\ snappy_decode(c1) = [codec |-> d, item |-> None]
                                        /\ d.code = c.code /\ Reads(d, data, k + n)
               /\ k + n = Len(Message(data)) =>
                     snappy_decode(c1) = [codec |-> [src |-> <<>>, len |-> -1, code |-> c.code],
                                          item  |-> [kind |-> "Ok", data |-> data]]
<1> USE CodecAssumption
<1> DEFINE V == Header(data)
           M == Message(data)
           lv == Len(V)
           lm == Len(M)
           j  == k + n
           x  == c.src \o SubSeq(M, k + 1, j)
           c1 == [src |-> x, len |-> c.len, code |-> c.code]
<1>1. /\ V \in Seq(Nat) /\ lv \in Nat \ {0} /\ M \in Seq(Nat) /\ lm \in Nat /\ lv <= lm
      /\ \A i \in 1..lv : M[i] = V[i]
  <2>1. Len(FrameEncoder(data)) \in Nat /\ lm = lv + Len(FrameEncoder(data)) /\ lv \in Nat \ {0}
    BY MessageBytes
  <2> HIDE DEF lv, lm
  <2>2. lm \in Nat /\ lv <= lm
    BY <2>1
  <2> QED BY <2>1, <2>2, MessageBytes DEF lv, lm
<1>2. j \in Nat /\ k < lm /\ k < j /\ j <= lm /\ k \in Nat
  <2>1. n \in 1..(lm - k)
    OBVIOUS
  <2> HIDE DEF lm, lv, V, M
  <2> QED BY <1>1, <2>1
<1>3. c.src \in Seq(Nat) /\ c.len \in Int /\ c.code \in Int
  BY DEF Decoder
<1>4. SubSeq(M, k + 1, j) \in Seq(Nat)
  <2>1. k + 1 \in 1..(lm + 1) /\ j \in ((k + 1) - 1)..lm
    <3> HIDE DEF lm, lv, V, M, j
    <3> QED BY <1>1, <1>2
  <2> QED BY <1>1, <2>1, SubSeqBytes
<1>5. x \in Seq(Nat) /\ c1 \in Decoder
  BY <1>3, <1>4 DEF Decoder
<1>6. [c EXCEPT !.src = @ \o SubSeq(M, k + 1, j)] = c1
  <2>1. [c EXCEPT !.src = x] = c1
    <3> HIDE DEF x
    <3> QED BY <1>3, <1>5, DecoderExcept
  <2> QED BY <2>1
<1>7. \A m \in 1..(k + 1) : SubSeq(M, m, k) \o SubSeq(M, k + 1, j) = SubSeq(M, m, j)
  <2>1. ASSUME NEW m \in 1..(k + 1)
        PROVE  m \in 1..(lm + 1) /\ k \in (m - 1)..lm /\ j \in k..lm
    <3> HIDE DEF lm, lv, V, M, j
    <3> QED BY <1>1, <1>2
  <2> QED BY <1>1, <2>1, ConcatAdjacentSubSeq
<1> HIDE DEF c1, x, j, lv, lm, V, M
<1>8. c1.src = x /\ c1.len = c.len /\ c1.code = c.code
  BY DEF c1
<1>9. ASSUME NEW e \in Decoder, snappy_len(c1) = e, e.len = Len(data), e.code = c.code,
             lv <= j, e.src = SubSeq(M, lv + 1, j)
      PROVE  /\ j < lm => \E d \in Decoder : /\ snappy_decode(c1) = [codec |-> d, item |-> None]
                                             /\ d.code = c.code /\ Reads(d, data, j)
             /\ j = lm => snappy_decode(c1) =
                   [codec |-> [src |-> <<>>, len |-> -1, code |-> c.code],
                    item  |-> [kind |-> "Ok", data |-> data]]
  <2>1. j \in lv..lm
    BY <1>1, <1>2, <1>9
  <2>2. /\ j < lm => snappy_decode(c1) = [codec |-> e, item |-> None] /\ Reads(e, data, j)
        /\ j = lm => snappy_decode(c1) =
              [codec |-> [src |-> <<>>, len |-> -1, code |-> e.code],
               item  |-> [kind |-> "Ok", data |-> data]]
    BY <1>9, <2>1, FrameStep DEF lv, lm, V, M
  <2> QED BY <1>9, <2>2
<1>10. CASE c.len = -1 /\ k < lv /\ c.src = SubSeq(M, 1, k)
  <2>1. x = SubSeq(M, 1, j)
    <3>1. 1 \in 1..(k + 1)
      BY <1>2
    <3> QED BY <1>7, <1>10, <3>1 DEF x
  <2>2. Len(x) = j /\ \A i \in 1..j : x[i] = M[i]
    <3>1. 1 \in 1..(Len(M) + 1) /\ j \in (1 - 1)..Len(M)
      BY <1>1, <1>2 DEF lm
    <3>2. Len(x) = j - 1 + 1 /\ \A i \in 1..(j - 1 + 1) : x[i] = M[1 + i - 1]
      BY <1>1, <2>1, <3>1, SubSeqBytes
    <3> QED BY <1>2, <3>2
  <2>3. CASE j < lv
    <3>1. Uvi_decode(x) = None
      <4>1. Len(x) < Len(varint[Len(data)]) /\ \A i \in 1..Len(x) : x[i] = varint[Len(data)][i]
        <5>1. \A i \in 1..j : x[i] = V[i]
          BY <1>1, <1>2, <2>2, <2>3
        <5> QED BY <2>2, <2>3, <5>1 DEF lv, V, Header
      <4>2. Len(data) \in Nat
        OBVIOUS
      <4> QED BY <1>5, <4>1, <4>2, UviPart
    <3>2. snappy_len(c1) = c1
      BY <1>8, <3>1 DEF snappy_len
    <3>3. snappy_decode(c1) = [codec |-> c1, item |-> None]
      BY <1>8, <1>10, <3>2 DEF snappy_decode
    <3>4. Reads(c1, data, j)
      <4>1. j \in 0..(lm - 1)
        BY <1>1, <1>2, <2>3
      <4> QED BY <4>1, <1>8, <1>10, <2>1, <2>3 DEF Reads, lv, lm, V, M
    <3>5. j # lm
      BY <1>1, <1>2, <2>3
    <3> QED BY <1>5, <1>6, <1>8, <3>3, <3>4, <3>5 DEF j, lm, M
  <2>4. CASE j >= lv
    <3>1. Uvi_decode(x) = [kind |-> "Ok", n |-> lv, length |-> Len(data)]
      <4>1. Len(varint[Len(data)]) <= Len(x)
            /\ \A i \in 1..Len(varint[Len(data)]) : x[i] = varint[Len(data)][i]
        <5>1. ASSUME NEW i \in 1..lv PROVE x[i] = V[i]
          <6>1. i \in 1..j
            BY <1>1, <1>2, <2>4
          <6> QED BY <1>1, <2>2, <6>1
        <5> QED BY <2>2, <2>4, <5>1 DEF lv, V, Header
      <4>2. Len(data) \in Nat
        OBVIOUS
      <4> QED BY <1>5, <4>1, <4>2, UviWhole DEF lv, V, Header
    <3> DEFINE y == SubSeq(x, lv + 1, Len(x))
               e == [src |-> y, len |-> Len(data), code |-> c.code]
    <3>2. y = SubSeq(M, lv + 1, j)
      <4> DEFINE z == SubSeq(M, lv + 1, j)
      <4>1. lv + 1 \in 1..(Len(M) + 1) /\ j \in ((lv + 1) - 1)..Len(M)
        BY <1>1, <1>2, <2>4 DEF lm
      <4>2. /\ z \in Seq(Nat) /\ Len(z) = j - (lv + 1) + 1
            /\ \A i \in 1..(j - (lv + 1) + 1) : z[i] = M[(lv + 1) + i - 1]
        BY <1>1, <4>1, SubSeqBytes
      <4>3. lv + 1 \in 1..(Len(x) + 1) /\ Len(x) \in ((lv + 1) - 1)..Len(x)
        BY <1>1, <1>2, <2>2, <2>4
      <4>4. /\ y \in Seq(Nat) /\ Len(y) = Len(x) - (lv + 1) + 1
            /\ \A i \in 1..(Len(x) - (lv + 1) + 1) : y[i] = x[(lv + 1) + i - 1]
        BY <1>5, <4>3, SubSeqBytes
      <4> HIDE DEF y, z
      <4>5. ASSUME NEW i \in 1..(j - (lv + 1) + 1) PROVE y[i] = z[i]
        <5>1. (lv + 1) + i - 1 \in 1..j
          BY <1>1, <1>2, <2>4
        <5> QED BY <2>2, <4>2, <4>4, <5>1
      <4>6. Len(y) = Len(z)
        BY <2>2, <4>2, <4>4
      <4>7. y = z
        BY <4>2, <4>4, <4>5, <4>6, SeqEqual
      <4> QED BY <4>7 DEF z
    <3>3. y \in Seq(Nat)
      <4>1. lv + 1 \in 1..(Len(M) + 1) /\ j \in ((lv + 1) - 1)..Len(M)
        BY <1>1, <1>2, <2>4 DEF lm
      <4> HIDE DEF y
      <4> QED BY <1>1, <3>2, <4>1, SubSeqBytes
    <3>4. e \in Decoder
      <4> HIDE DEF y
      <4>1. Len(data) \in Int
        OBVIOUS
      <4> QED BY <1>3, <3>3, <4>1 DEF Decoder
    <3>5. snappy_len(c1) = e
      <4>1. snappy_len(c1) = [c1 EXCEPT !.len = Len(data), !.src = SubSeq(@, lv + 1, Len(@))]
        <5>1. Uvi_decode(c1.src) # None /\ c1.len = -1
          BY <1>8, <1>10, <3>1 DEF None
        <5>2. Uvi_decode(c1.src).n = lv /\ Uvi_decode(c1.src).length = Len(data)
          BY <1>8, <3>1
        <5> QED BY <5>1, <5>2 DEF snappy_len
      <4>2. [c1 EXCEPT !.len = Len(data), !.src = SubSeq(@, lv + 1, Len(@))]
              = [c1 EXCEPT !.len = Len(data), !.src = y]
        BY <1>5, <1>8 DEF Decoder
      <4>3. Len(data) \in Int
        OBVIOUS
      <4> HIDE DEF y
      <4>4. [c1 EXCEPT !.len = Len(data), !.src = y]
              = [src |-> y, len |-> Len(data), code |-> c1.code]
        BY <1>5, <3>3, <4>3, DecoderExcept
      <4> QED BY <1>8, <4>1, <4>2, <4>4
    <3>6. e.len = Len(data) /\ e.code = c.code /\ e.src = SubSeq(M, lv + 1, j)
      <4> HIDE DEF y
      <4> QED BY <3>2
    <3> HIDE DEF e
    <3> QED BY <1>6, <1>9, <2>4, <3>4, <3>5, <3>6 DEF j, lm, M
  <2>5. j < lv \/ j >= lv
    BY <1>1, <1>2
  <2> QED BY <2>3, <2>4, <2>5
<1>11. CASE c.len = Len(data) /\ k >= lv /\ c.src = SubSeq(M, lv + 1, k)
  <2>1. x = SubSeq(M, lv + 1, j)
    <3>1. lv + 1 \in 1..(k + 1)
      BY <1>1, <1>2, <1>11
    <3> QED BY <1>7, <1>11, <3>1 DEF x
  <2>2. snappy_len(c1) = c1
    <3>1. c1.len # -1
      <4>1. Len(data) \in Nat
        OBVIOUS
      <4> QED BY <1>8, <1>11, <4>1
    <3> QED BY <3>1 DEF snappy_len
  <2>3. c1.len = Len(data) /\ c1.src = SubSeq(M, lv + 1, j) /\ lv <= j
    BY <1>1, <1>2, <1>8, <1>11, <2>1
  <2> QED BY <1>5, <1>6, <1>8, <1>9, <2>2, <2>3 DEF j, lm, M
<1> QED BY <1>10, <1>11 DEF Reads, lv, V, M

\* A decoder whose buffer has got more bytes, and one that has taken the code.
Feed(c, bytes) == [c EXCEPT !.src = @ \o bytes]

TakeCode(c) ==
    IF c.code # -1 THEN c ELSE [c EXCEPT !.code = Head(c.src), !.src = Tail(c.src)]

\* What the inner codec returns for a whole message.
Whole(code, data) ==
    [codec |-> [src |-> <<>>, len |-> -1, code |-> code],
     item  |-> [kind |-> "Ok", data |-> data]]

\* SnappyStep, with the names that the two outer decoders use.
LEMMA SnappyFeed ==
    ASSUME NEW data \in Seq(Nat), Len(data) <= max_packet_size,
           NEW c \in Decoder, NEW k \in Nat, Reads(c, data, k),
           NEW n \in 1..(Len(Message(data)) - k)
    PROVE  /\ k + n < Len(Message(data)) =>
                 \E d \in Decoder :
                    /\ snappy_decode(Feed(c, SubSeq(Message(data), k + 1, k + n)))
                          = [codec |-> d, item |-> None]
                    /\ d.code = c.code /\ Reads(d, data, k + n)
           /\ k + n = Len(Message(data)) =>
                 snappy_decode(Feed(c, SubSeq(Message(data), k + 1, k + n)))
                    = Whole(c.code, data)
<1> DEFINE c1 == [c EXCEPT !.src = @ \o SubSeq(Message(data), k + 1, k + n)]
<1>1. Feed(c, SubSeq(Message(data), k + 1, k + n)) = c1
  BY DEF Feed
<1>2. /\ k + n < Len(Message(data)) =>
            \E d \in Decoder : /\ snappy_decode(c1) = [codec |-> d, item |-> None]
                               /\ d.code = c.code /\ Reads(d, data, k + n)
      /\ k + n = Len(Message(data)) =>
            snappy_decode(c1) = Whole(c.code, data)
  BY SnappyStep DEF Whole
<1> HIDE DEF c1
<1> QED BY <1>1, <1>2

\* What decode has returned after k bytes of a message.
AfterRequest(r, proto, data, k) ==
    /\ r.codec \in Decoder
    /\ k < Len(Message(data)) => r.item = None /\ Reads(r.codec, data, k)
    /\ k = Len(Message(data)) =>
          /\ r.codec.src = <<>> /\ r.codec.len = -1
          /\ r.item = IF data # <<>> THEN [kind |-> "Request", proto |-> proto, data |-> data]
                      ELSE Err("InvalidData")

\* The same for the decoder of requests.
LEMMA RequestStep ==
    ASSUME NEW data \in Seq(Nat), Len(data) <= max_packet_size, NEW proto, proto # "MetaData",
           NEW c \in Decoder, NEW k \in Nat, Reads(c, data, k),
           NEW n \in 1..(Len(Message(data)) - k)
    PROVE  AfterRequest(decode_request(proto, Feed(c, SubSeq(Message(data), k + 1, k + n))),
                        proto, data, k + n)
<1> DEFINE c1 == Feed(c, SubSeq(Message(data), k + 1, k + n))
           r  == decode_request(proto, c1)
           q  == snappy_decode(c1)
<1>1. CASE k + n < Len(Message(data))
  <2>1. PICK d \in Decoder : q = [codec |-> d, item |-> None] /\ Reads(d, data, k + n)
    BY <1>1, SnappyFeed
  <2> HIDE DEF c1, q
  <2>2. r = q
    BY <2>1 DEF decode_request, None, q
  <2>3. r.item = None /\ r.codec = d
    BY <2>1, <2>2
  <2>4. k + n # Len(Message(data))
    <3>1. Len(Message(data)) \in Nat
      BY MessageBytes
    <3> QED BY <1>1, <3>1
  <2> HIDE DEF r
  <2>5. AfterRequest(r, proto, data, k + n)
    BY <1>1, <2>1, <2>3, <2>4 DEF AfterRequest
  <2> QED BY <2>5 DEF r, c1
<1>2. CASE k + n = Len(Message(data))
  <2> DEFINE d == [src |-> <<>>, len |-> -1, code |-> c.code]
  <2>1. q = [codec |-> d, item |-> [kind |-> "Ok", data |-> data]]
    BY <1>2, SnappyFeed DEF Whole
  <2>2. d \in Decoder
    BY DEF Decoder
  <2> HIDE DEF c1, q
  <2>3. q.item.kind = "Ok" /\ q.item.data = data
    BY <2>1
  <2> DEFINE it == IF data # <<>> THEN [kind |-> "Request", proto |-> proto, data |-> data]
                   ELSE Err("InvalidData")
  <2>4. r = [q EXCEPT !.item = it]
    BY <2>3 DEF decode_request, q, valid_request
  <2> HIDE DEF it, d
  <2>5. r.item = it /\ r.codec = d
    BY <2>1, <2>4
  <2>6. d.src = <<>> /\ d.len = -1
    BY DEF d
  <2>7. ~ (k + n < Len(Message(data)))
    <3>1. Len(Message(data)) \in Nat
      BY MessageBytes
    <3> QED BY <1>2, <3>1
  <2> HIDE DEF r
  <2>8. AfterRequest(r, proto, data, k + n)
    BY <1>2, <2>2, <2>5, <2>6, <2>7 DEF AfterRequest, it
  <2> QED BY <2>8 DEF r, c1
<1>3. k + n < Len(Message(data)) \/ k + n = Len(Message(data))
  <2> DEFINE lm == Len(Message(data))
  <2>1. lm \in Nat /\ n \in 1..(lm - k)
    BY MessageBytes
  <2> HIDE DEF lm
  <2>2. k + n < lm \/ k + n = lm
    BY <2>1
  <2> QED BY <2>2 DEF lm
<1> QED BY <1>1, <1>2, <1>3

\* The initiator has had k bytes of a response: the code is only taken when
\* another byte is there.
ResponseReads(c, coded, data, k) ==
    \/ /\ k \in {0, 1}
       /\ c = [src |-> SubSeq(encode_response(coded, data).dst, 1, k), len |-> -1, code |-> -1]
    \/ /\ k >= 2 /\ Len(data) <= max_packet_size
       /\ c.code = as_u8[coded] /\ Reads(c, data, k - 1)

ResponseCode == {"Success", "InvalidRequest", "ServerError", "Unknown"}

\* What decode has returned after k bytes of it.
AfterResponse(r, coded, data, k) ==
    /\ r.codec \in Decoder
    /\ k < Len(encode_response(coded, data).dst) \/ Len(data) > max_packet_size =>
          r.item = None /\ ResponseReads(r.codec, coded, data, k)
    /\ k = Len(encode_response(coded, data).dst) /\ Len(data) <= max_packet_size =>
          /\ r.codec.src = <<>> /\ r.codec.len = -1
          /\ r.item = IF coded # "Success" \/ data # <<>>
                      THEN [kind |-> "Response", coded |-> coded, data |-> data]
                      ELSE Err("InvalidData")

\* The response on the wire: the code, and the message unless it is too large.
LEMMA ResponseBytes ==
    ASSUME NEW coded \in ResponseCode, NEW data \in Seq(Nat)
    PROVE  LET D == encode_response(coded, data).dst
           IN  /\ as_u8[coded] \in Nat /\ D \in Seq(Nat) /\ D[1] = as_u8[coded]
               /\ Len(data) <= max_packet_size => D = <<as_u8[coded]>> \o Message(data)
               /\ Len(data) > max_packet_size => D = <<as_u8[coded]>>
               /\ Len(D) = IF Len(data) <= max_packet_size THEN 1 + Len(Message(data)) ELSE 1
<1> DEFINE b == as_u8[coded]
           D == encode_response(coded, data).dst
<1>1. b \in Nat
  BY DEF as_u8, ResponseCode
<1>2. Len(data) <= max_packet_size => D = <<b>> \o Message(data)
  <2> HAVE Len(data) <= max_packet_size
  <2>1. snappy_encode(data) = [kind |-> "Ok", bytes |-> Message(data)]
    BY CodecAssumption DEF snappy_encode, Message, Header
  <2> DEFINE inner == snappy_encode(data)
  <2>2. inner.kind = "Ok" /\ inner.bytes = Message(data)
    BY <2>1
  <2>3. encode_response(coded, data) = [kind |-> "Ok", dst |-> <<b>> \o inner.bytes]
    BY <2>2 DEF encode_response
  <2> HIDE DEF inner
  <2> QED BY <2>2, <2>3
<1>3. Len(data) > max_packet_size => D = <<b>>
  BY CodecAssumption DEF encode_response, snappy_encode, Err
<1>4. Message(data) \in Seq(Nat)
  BY MessageBytes
<1>5. Len(data) <= max_packet_size \/ Len(data) > max_packet_size
  BY CodecAssumption
<1> HIDE DEF b, D
<1>6. CASE Len(data) <= max_packet_size
  <2> DEFINE M == Message(data)
  <2> HIDE DEF M
  <2>1. D = <<b>> \o M /\ M \in Seq(Nat)
    BY <1>2, <1>4, <1>6 DEF M
  <2>2. D \in Seq(Nat) /\ D[1] = b /\ Len(D) = 1 + Len(M)
    BY <1>1, <2>1
  <2>3. ~ (Len(data) > max_packet_size)
    BY <1>6, CodecAssumption
  <2> QED BY <1>1, <1>6, <2>1, <2>2, <2>3 DEF b, D, M
<1>7. CASE Len(data) > max_packet_size
  <2>0. D = <<b>>
    BY <1>3, <1>7
  <2>1. D \in Seq(Nat) /\ D[1] = b /\ Len(D) = 1
    BY <1>1, <2>0
  <2>2. ~ (Len(data) <= max_packet_size)
    BY <1>7, CodecAssumption
  <2> QED BY <1>1, <1>3, <1>7, <2>1, <2>2 DEF b, D
<1> QED BY <1>5, <1>6, <1>7

\* What the initiator makes of what the inner codec returns.
LEMMA ResponseNone ==
    ASSUME NEW proto, NEW c1, ~ awaits_bytes(c1), NEW d,
           snappy_decode(TakeCode(c1)) = [codec |-> d, item |-> None]
    PROVE  decode_response(proto, c1) = [codec |-> d, item |-> None]
<1> DEFINE q == snappy_decode(TakeCode(c1))
<1>1. q.item.kind # "Ok"
  BY DEF None
<1>2. q.item.kind # "Ok" => decode_response(proto, c1) = q
  BY DEF decode_response, TakeCode
<1> QED BY <1>1, <1>2

\* What decode_response makes of a message that the inner codec returns.
LEMMA ResponseItem ==
    ASSUME NEW coded \in ResponseCode, NEW data \in Seq(Nat), NEW proto, proto # "Goodbye",
           NEW c1, ~ awaits_bytes(c1),
           NEW d1, d1 = TakeCode(c1), d1.code = as_u8[coded], NEW d \in Decoder
    PROVE  snappy_decode(d1) = [codec |-> d, item |-> [kind |-> "Ok", data |-> data]] =>
              LET r == decode_response(proto, c1)
              IN  /\ r.codec \in Decoder /\ r.codec.src = d.src /\ r.codec.len = d.len
                  /\ r.item = IF coded # "Success" \/ data # <<>>
                              THEN [kind |-> "Response", coded |-> coded, data |-> data]
                              ELSE Err("InvalidData")
<1> DEFINE r == decode_response(proto, c1)
           q == snappy_decode(d1)
           code == IF is_response(d1.code) THEN "Success" ELSE from_error(d1.code)
           valid == code # "Success" \/ valid_response(proto, q.item.data)
<1>1. r = IF q.item.kind # "Ok" THEN q
          ELSE IF ~valid THEN [q EXCEPT !.item = Err("InvalidData")]
          ELSE [codec |-> [q.codec EXCEPT !.code = -1],
                item  |-> [kind |-> "Response", coded |-> code, data |-> q.item.data]]
  BY DEF decode_response, TakeCode
<1>2. code = coded
  BY DEF ResponseCode, as_u8, is_response, from_error
<1> HIDE DEF r, q, code
<1>4. ASSUME q = [codec |-> d, item |-> [kind |-> "Ok", data |-> data]]
      PROVE  /\ r.codec \in Decoder /\ r.codec.src = d.src /\ r.codec.len = d.len
             /\ r.item = IF coded # "Success" \/ data # <<>>
                         THEN [kind |-> "Response", coded |-> coded, data |-> data]
                         ELSE Err("InvalidData")
  <2>1. q.item.kind = "Ok" /\ q.item.data = data /\ q.codec = d
    BY <1>4
  <2>2. valid <=> (coded # "Success" \/ data # <<>>)
    BY <1>2, <2>1 DEF valid_response
  <2> DEFINE e == [d EXCEPT !.code = -1]
  <2>3. e \in Decoder /\ e.src = d.src /\ e.len = d.len
    <3>1. -1 \in Int /\ <<>> \in Seq(Nat)
      OBVIOUS
    <3>2. e = [src |-> d.src, len |-> d.len, code |-> -1]
      BY <3>1, DecoderExcept
    <3> HIDE DEF e
    <3> QED BY <3>1, <3>2 DEF Decoder
  <2> HIDE DEF e, valid
  <2>4. CASE valid
    <3>1. r = [codec |-> e, item |-> [kind |-> "Response", coded |-> coded, data |-> data]]
      BY <1>1, <1>2, <2>1, <2>4 DEF e
    <3> QED BY <2>2, <2>3, <2>4, <3>1
  <2>5. CASE ~valid
    <3>1. r = [q EXCEPT !.item = Err("InvalidData")]
      BY <1>1, <2>1, <2>5
    <3>2. r.codec = d /\ r.item = Err("InvalidData")
      BY <1>4, <3>1
    <3> QED BY <2>2, <2>5, <3>2 DEF Decoder
  <2> QED BY <2>4, <2>5
<1> QED BY <1>4 DEF r, q

\* n more bytes of a response.  One byte is not looked at, so the code is taken
\* with the byte after it; a response that could not be encoded is the code and
\* nothing else, and the initiator goes on waiting.
LEMMA ResponseStep ==
    ASSUME NEW coded \in ResponseCode, NEW data \in Seq(Nat), NEW proto, proto # "Goodbye",
           NEW c \in Decoder, NEW k \in Nat, ResponseReads(c, coded, data, k),
           NEW n \in 1..(Len(encode_response(coded, data).dst) - k)
    PROVE  AfterResponse(decode_response(proto,
                            Feed(c, SubSeq(encode_response(coded, data).dst, k + 1, k + n))),
                         coded, data, k + n)
<1> USE CodecAssumption
<1> DEFINE E == encode_response(coded, data).dst
           M == Message(data)
           b == as_u8[coded]
           j == k + n
           le == Len(E)
           lm == Len(M)
           small == Len(data) <= max_packet_size
           x == c.src \o SubSeq(E, k + 1, j)
           c1 == [src |-> x, len |-> c.len, code |-> c.code]
           r == decode_response(proto, c1)
<1>1. /\ b \in Nat /\ E \in Seq(Nat) /\ M \in Seq(Nat) /\ E[1] = b
      /\ small => E = <<b>> \o M
      /\ le = IF small THEN 1 + lm ELSE 1
  BY ResponseBytes, MessageBytes
<1>2. lm \in Nat \ {0}
  <2> DEFINE lv == Len(Header(data))
             lf == Len(FrameEncoder(data))
  <2>1. lv \in Nat \ {0} /\ lf \in Nat /\ lm = lv + lf
    BY MessageBytes
  <2> HIDE DEF lv, lf, lm
  <2> QED BY <2>1
<1>3. n \in 1..(le - k)
  OBVIOUS
<1>4. c.src \in Seq(Nat) /\ c.len \in Int /\ c.code \in Int
  BY DEF Decoder
<1>5. Len(data) > max_packet_size <=> ~small
  OBVIOUS
<1>6. Feed(c, SubSeq(E, k + 1, j)) = c1 /\ c1 \in Decoder /\ x \in Seq(Nat)
  <2>1. k + 1 \in 1..(le + 1) /\ j \in ((k + 1) - 1)..le
    <3> HIDE DEF E, M, le, lm, small, b
    <3> QED BY <1>1, <1>2, <1>3
  <2>2. SubSeq(E, k + 1, j) \in Seq(Nat)
    BY <1>1, <2>1, SubSeqBytes
  <2>3. x \in Seq(Nat)
    <3> HIDE DEF E
    <3> QED BY <1>4, <2>2
  <2>4. c1 \in Decoder
    <3> HIDE DEF x
    <3> QED BY <1>4, <2>3 DEF Decoder
  <2>5. [c EXCEPT !.src = x] = c1
    <3> HIDE DEF x
    <3> QED BY <1>4, <2>3, DecoderExcept
  <2> QED BY <2>3, <2>4, <2>5 DEF Feed
<1>7. /\ k < j /\ j \in Nat /\ j <= le /\ le \in Nat
      /\ small => le = 1 + lm
      /\ ~small => le = 1
  <2> HIDE DEF E, M, le, lm, small, b
  <2> QED BY <1>1, <1>2, <1>3
<1>8. ResponseReads(c, coded, data, k)
  OBVIOUS
<1> DEFINE item == IF coded # "Success" \/ data # <<>>
                   THEN [kind |-> "Response", coded |-> coded, data |-> data]
                   ELSE Err("InvalidData")
<1> HIDE DEF E, M, b, j, le, lm, small, x, c1, r, item
<1>9. SUFFICES /\ r.codec \in Decoder
               /\ j < le \/ ~small => r.item = None /\ ResponseReads(r.codec, coded, data, j)
               /\ j = le /\ small => r.codec.src = <<>> /\ r.codec.len = -1 /\ r.item = item
  <2>1. ASSUME /\ r.codec \in Decoder
               /\ j < le \/ ~small => r.item = None /\ ResponseReads(r.codec, coded, data, j)
               /\ j = le /\ small => r.codec.src = <<>> /\ r.codec.len = -1 /\ r.item = item
        PROVE  AfterResponse(r, coded, data, j)
    BY <1>5, <2>1 DEF AfterResponse, E, le, small, item
  <2> QED BY <1>6, <2>1 DEF E, j, r
<1>10. c1.src = x /\ c1.len = c.len /\ c1.code = c.code
  BY DEF c1
\* What follows once the inner codec is asked.
<1>11. ASSUME small, j >= 2, Len(x) >= 2,
              NEW d0 \in Decoder, NEW m \in Nat, Reads(d0, data, m), m < j - 1, d0.code = b,
              TakeCode(c1) = Feed(d0, SubSeq(M, m + 1, j - 1))
       PROVE  /\ r.codec \in Decoder
              /\ j < le \/ ~small => r.item = None /\ ResponseReads(r.codec, coded, data, j)
              /\ j = le /\ small => r.codec.src = <<>> /\ r.codec.len = -1 /\ r.item = item
  <2> DEFINE i  == (j - 1) - m
             d1 == Feed(d0, SubSeq(M, m + 1, m + i))
  <2>0. small /\ le = 1 + lm /\ m \in Nat /\ m < j - 1
    BY <1>7, <1>11
  <2>1. i \in 1..(lm - m) /\ m + i = j - 1 /\ i \in Int
    BY <1>2, <1>7, <2>0
  <2>2. /\ m + i < lm => \E d \in Decoder : /\ snappy_decode(d1) = [codec |-> d, item |-> None]
                                            /\ d.code = d0.code /\ Reads(d, data, m + i)
        /\ m + i = lm => snappy_decode(d1) = Whole(d0.code, data)
    <3>1. Len(data) <= max_packet_size /\ i \in 1..(Len(Message(data)) - m)
      BY <1>11, <2>1 DEF M, lm, small
    <3> HIDE DEF i
    <3>2. Reads(d0, data, m) /\ m \in Nat /\ d0 \in Decoder
      BY <1>11
    <3>3. m + i < Len(Message(data)) =>
             \E d \in Decoder :
                /\ snappy_decode(Feed(d0, SubSeq(Message(data), m + 1, m + i)))
                      = [codec |-> d, item |-> None]
                /\ d.code = d0.code /\ Reads(d, data, m + i)
      BY <3>1, <3>2, SnappyFeed, Zenon
    <3>4. m + i = Len(Message(data)) =>
             snappy_decode(Feed(d0, SubSeq(Message(data), m + 1, m + i))) = Whole(d0.code, data)
      BY <3>1, <3>2, SnappyFeed, Zenon
    <3> QED BY <3>3, <3>4 DEF M, lm
  <2>3. d1 = Feed(d0, SubSeq(M, m + 1, j - 1))
    BY <2>1
  <2>4. d1.code = b
    BY <1>11 DEF Decoder, Feed
  <2>5. d1 = TakeCode(c1)
    BY <1>11, <2>3
  <2>6. ~ awaits_bytes(c1)
    BY <1>6, <1>10, <1>11 DEF awaits_bytes
  <2> HIDE DEF d1, i
  <2>7. CASE j < le
    <3>1. m + i < lm /\ j # le
      BY <1>2, <1>7, <2>0, <2>1, <2>7
    <3>2. PICK d \in Decoder : /\ snappy_decode(d1) = [codec |-> d, item |-> None]
                               /\ d.code = b /\ Reads(d, data, j - 1)
      BY <1>11, <2>1, <2>2, <3>1
    <3>3. r = [codec |-> d, item |-> None]
      BY <2>5, <2>6, <3>2, ResponseNone DEF r
    <3>4. ResponseReads(d, coded, data, j)
      BY <1>7, <1>11, <3>2 DEF ResponseReads, small, b
    <3> QED BY <1>11, <3>1, <3>3, <3>4
  <2>8. CASE j = le
    <3>1. m + i = lm /\ ~ (j < le)
      BY <1>2, <1>7, <2>0, <2>1, <2>8
    <3> DEFINE d == [src |-> <<>>, len |-> -1, code |-> b]
    <3>2. d \in Decoder /\ d.src = <<>> /\ d.len = -1
      BY <1>1 DEF Decoder
    <3>3. snappy_decode(d1) = [codec |-> d, item |-> [kind |-> "Ok", data |-> data]]
      BY <1>11, <2>2, <3>1 DEF Whole
    <3> HIDE DEF d
    <3>4. r.codec \in Decoder /\ r.codec.src = d.src /\ r.codec.len = d.len /\ r.item = item
      BY <2>4, <2>5, <2>6, <3>2, <3>3, ResponseItem DEF r, b, item
    <3> QED BY <1>11, <3>1, <3>2, <3>4
  <2> QED BY <1>7, <2>7, <2>8
<1>12. CASE k \in {0, 1}
  <2>1. c = [src |-> SubSeq(E, 1, k), len |-> -1, code |-> -1]
    BY <1>8, <1>12 DEF ResponseReads, E
  <2>2. x = SubSeq(E, 1, j)
    <3>1. 1 \in 1..(Len(E) + 1) /\ k \in (1 - 1)..Len(E) /\ j \in k..Len(E)
      BY <1>7, <1>12 DEF le
    <3>2. SubSeq(E, 1, k) \o SubSeq(E, k + 1, j) = SubSeq(E, 1, j)
      BY <1>1, <3>1, ConcatAdjacentSubSeq
    <3> QED BY <2>1, <3>2 DEF x
  <2>3. Len(x) = j /\ \A i \in 1..j : x[i] = E[i]
    <3>1. 1 \in 1..(Len(E) + 1) /\ j \in (1 - 1)..Len(E)
      BY <1>7 DEF le
    <3>2. Len(x) = j - 1 + 1 /\ \A i \in 1..(j - 1 + 1) : x[i] = E[1 + i - 1]
      BY <1>1, <2>2, <3>1, SubSeqBytes
    <3> QED BY <1>7, <3>2
  <2>4. CASE j <= 1
    <3>1. awaits_bytes(c1)
      BY <1>10, <2>3, <2>4 DEF awaits_bytes
    <3>2. r = [codec |-> c1, item |-> None]
      BY <3>1 DEF r, decode_response
    <3>3. c1 = [src |-> SubSeq(E, 1, j), len |-> -1, code |-> -1] /\ j \in {0, 1}
      BY <1>7, <2>1, <2>2, <2>4 DEF c1
    <3>4. ResponseReads(c1, coded, data, j)
      BY <3>3 DEF ResponseReads, E
    <3>5. small => j # le
      BY <1>2, <1>7, <2>4
    <3> QED BY <1>6, <3>2, <3>4, <3>5
  <2>5. CASE j >= 2
    <3>1. small
      BY <1>7, <2>5
    <3> DEFINE d0 == [src |-> <<>>, len |-> -1, code |-> b]
               y  == SubSeq(M, 1, j - 1)
    <3>2. d0 \in Decoder /\ d0.code = b
      BY <1>1 DEF Decoder
    <3>3. Reads(d0, data, 0)
      <4>1. Len(Header(data)) \in Nat \ {0}
        BY MessageBytes
      <4>2. SubSeq(M, 1, 0) = <<>>
        BY <1>1, SubSeqEmpty
      <4>3. 0 \in 0..(lm - 1) /\ 0 < Len(Header(data))
        BY <1>2, <4>1
      <4> QED BY <4>2, <4>3 DEF Reads, M, lm
    <3>4. /\ y \in Seq(Nat) /\ Len(y) = j - 1
          /\ \A i \in 1..(j - 1) : y[i] = M[i]
      <4>1. 1 \in 1..(Len(M) + 1) /\ j - 1 \in (1 - 1)..Len(M)
        BY <1>2, <1>7, <2>5, <3>1 DEF lm
      <4>2. /\ y \in Seq(Nat) /\ Len(y) = (j - 1) - 1 + 1
            /\ \A i \in 1..((j - 1) - 1 + 1) : y[i] = M[1 + i - 1]
        BY <1>1, <4>1, SubSeqBytes
      <4> HIDE DEF y
      <4> QED BY <1>7, <4>2
    <3>5. Feed(d0, SubSeq(M, 0 + 1, j - 1)) = [src |-> y, len |-> -1, code |-> b]
      <4>1. Feed(d0, SubSeq(M, 0 + 1, j - 1)) = [d0 EXCEPT !.src = <<>> \o y]
        BY DEF Feed
      <4> HIDE DEF y
      <4>2. <<>> \o y = y
        BY <3>4
      <4> QED BY <4>1, <4>2
    <3>6. Head(x) = b /\ Tail(x) = y
      <4>1. Head(x) = b
        <5>1. 1 \in 1..j /\ x # <<>>
          BY <1>6, <1>7, <2>3, <2>5
        <5>2. Head(x) = x[1]
          BY <1>6, <5>1
        <5> QED BY <1>1, <2>3, <5>1, <5>2
      <4>2. /\ Tail(x) \in Seq(Nat) /\ Len(Tail(x)) = j - 1
            /\ \A i \in 1..(j - 1) : Tail(x)[i] = x[i + 1]
        BY <1>6, <1>7, <2>3, <2>5
      <4>3. ASSUME NEW i \in 1..(j - 1) PROVE Tail(x)[i] = y[i]
        <5>1. i + 1 \in 1..j /\ i \in 1..Len(M)
          BY <1>2, <1>7, <3>1 DEF lm
        <5>2. E[i + 1] = M[i]
          BY <1>1, <3>1, <5>1
        <5> HIDE DEF y
        <5> QED BY <2>3, <3>4, <4>2, <5>1, <5>2
      <4> HIDE DEF y
      <4>4. Tail(x) = y
        BY <3>4, <4>2, <4>3, SeqEqual
      <4> QED BY <4>1, <4>4
    <3> HIDE DEF y
    <3>7. TakeCode(c1) = [src |-> y, len |-> -1, code |-> b]
      <4>1. c1.code = -1 /\ c1.len = -1
        BY <1>10, <2>1
      <4>2. [c1 EXCEPT !.code = b, !.src = y] = [src |-> y, len |-> c1.len, code |-> b]
        <5>1. b \in Int
          BY <1>1
        <5>2. y \in Seq(Nat) /\ c1 \in Decoder
          BY <1>6, <3>4
        <5> QED BY <5>1, <5>2, DecoderExcept, Zenon
      <4> QED BY <1>10, <3>6, <4>1, <4>2 DEF TakeCode
    <3>8. 0 \in Nat /\ 0 < j - 1 /\ Len(x) >= 2
      BY <1>7, <2>3, <2>5
    <3> HIDE DEF d0
    <3> QED BY <1>11, <2>5, <3>1, <3>2, <3>3, <3>5, <3>7, <3>8
  <2> QED BY <1>7, <2>4, <2>5
<1>13. CASE k >= 2 /\ small /\ c.code = b /\ Reads(c, data, k - 1)
  <2> DEFINE m == k - 1
             lv == Len(Header(data))
             y == SubSeq(M, m + 1, j - 1)
  <2>1. m \in Nat /\ m >= 1 /\ m < j - 1 /\ j >= 2 /\ j - 1 <= lm /\ m + 1 = k /\ j - 1 \in Nat
    BY <1>2, <1>7, <1>13
  <2>2. /\ y \in Seq(Nat) /\ Len(y) = j - k
        /\ \A i \in 1..(j - k) : y[i] = M[k + i - 1]
    <3>1. m + 1 \in 1..(Len(M) + 1) /\ j - 1 \in ((m + 1) - 1)..Len(M)
      BY <2>1, <1>2 DEF lm
    <3>2. /\ y \in Seq(Nat) /\ Len(y) = (j - 1) - (m + 1) + 1
          /\ \A i \in 1..((j - 1) - (m + 1) + 1) : y[i] = M[(m + 1) + i - 1]
      BY <1>1, <3>1, SubSeqBytes
    <3> HIDE DEF y
    <3>3. (j - 1) - (m + 1) + 1 = j - k
      BY <1>7
    <3> QED BY <2>1, <3>2, <3>3
  <2>3. SubSeq(E, k + 1, j) = y
    <3> DEFINE z == SubSeq(E, k + 1, j)
    <3>1. k + 1 \in 1..(Len(E) + 1) /\ j \in ((k + 1) - 1)..Len(E)
      BY <1>7 DEF le
    <3>2. /\ z \in Seq(Nat) /\ Len(z) = j - (k + 1) + 1
          /\ \A i \in 1..(j - (k + 1) + 1) : z[i] = E[(k + 1) + i - 1]
      BY <1>1, <3>1, SubSeqBytes
    <3> HIDE DEF y, z
    <3>3. j - (k + 1) + 1 = j - k
      BY <1>7
    <3>4. ASSUME NEW i \in 1..(j - k) PROVE z[i] = y[i]
      <4>1. (k + 1) + i - 1 = 1 + (k + i - 1) /\ k + i - 1 \in 1..Len(M)
        BY <1>2, <1>7, <1>13 DEF lm
      <4> DEFINE p == k + i - 1
      <4>2. E[1 + p] = M[p]
        <5> HIDE DEF p
        <5>1. p \in 1..Len(M)
          BY <4>1 DEF p
        <5> QED BY <1>1, <1>13, <5>1
      <4>3. i \in 1..(j - (k + 1) + 1)
        BY <3>3
      <4> QED BY <2>2, <3>2, <4>1, <4>2, <4>3
    <3>5. z = y
      <4>1. y \in Seq(Nat) /\ z \in Seq(Nat) /\ Len(z) = j - k /\ Len(y) = j - k
        BY <2>2, <3>2, <3>3
      <4>2. \A i \in 1..Len(z) : z[i] = y[i]
        BY <3>4, <4>1
      <4> QED BY <4>1, <4>2, SeqEqual
    <3> QED BY <3>5 DEF z
  <2>4. x = c.src \o y
    BY <2>3 DEF x
  <2>5. c1 = Feed(c, y) /\ TakeCode(c1) = c1
    <3>1. [c EXCEPT !.src = x] = c1
      BY <1>4, <1>6, DecoderExcept DEF c1
    <3> HIDE DEF y
    <3>2. c1.code # -1
      BY <1>1, <1>10, <1>13
    <3> QED BY <2>4, <3>1, <3>2 DEF Feed, TakeCode
  <2>6. CASE Len(x) >= 2
    <3>1. TakeCode(c1) = Feed(c, SubSeq(M, m + 1, j - 1))
      BY <2>5
    <3> HIDE DEF m, y
    <3>2. Reads(c, data, m)
      BY <1>13 DEF m
    <3> QED BY <1>11, <1>13, <2>1, <2>5, <2>6, <3>1, <3>2
  <2>7. CASE Len(x) <= 1
    <3>1. awaits_bytes(c1)
      BY <1>10, <2>7 DEF awaits_bytes
    <3>2. r = [codec |-> c1, item |-> None]
      BY <3>1 DEF r, decode_response
    <3>3. Len(x) = Len(c.src) + (j - k) /\ Len(c.src) \in Nat
      <4> HIDE DEF y
      <4>1. y \in Seq(Nat) /\ Len(y) = j - k
        BY <2>2
      <4>2. c.src \in Seq(Nat)
        BY <1>4
      <4> DEFINE s == c.src
      <4> HIDE DEF s
      <4>3. Len(s \o y) = Len(s) + Len(y) /\ Len(s) \in Nat
        <5>1. s \in Seq(Nat)
          BY <4>2 DEF s
        <5>2. y \in Seq(Nat)
          BY <4>1
        <5> QED BY <5>1, <5>2
      <4>4. x = s \o y
        BY <2>4 DEF s
      <4> QED BY <4>1, <4>3, <4>4 DEF s
    <3>4. c.src = <<>>
      <4>1. Len(c.src) = 0
        BY <1>7, <2>7, <3>3
      <4> QED BY <1>4, <4>1
    <3>5. /\ lv \in Nat \ {0} /\ Len(FrameEncoder(data)) \in Nat /\ lm = lv + Len(FrameEncoder(data))
          /\ data = <<>> => FrameEncoder(data) = <<>>
          /\ data # <<>> => Len(FrameEncoder(data)) = 1 + Blocks(Len(data)) + Len(data)
      BY MessageBytes DEF lm, M
    <3>6. c.len = Len(data) /\ m >= lv /\ c.src = SubSeq(M, lv + 1, m) /\ m <= lm - 1
      <4>1. m \in 0..(lm - 1)
        BY <1>13 DEF Reads, M, lm
      <4>2. c.src # SubSeq(M, 1, m)
        <5>1. 1 \in 1..(Len(M) + 1) /\ m \in (1 - 1)..Len(M)
          BY <1>2, <2>1, <4>1 DEF lm
        <5>2. Len(SubSeq(M, 1, m)) = m - 1 + 1
          BY <1>1, <5>1, SubSeqBytes
        <5> HIDE DEF m
        <5>3. Len(SubSeq(M, 1, m)) # 0
          BY <2>1, <5>2
        <5>4. Len(<<>>) = 0
          OBVIOUS
        <5> QED BY <3>4, <5>3, <5>4
      <4>3. c.len = Len(data) /\ m >= lv /\ c.src = SubSeq(M, lv + 1, m)
        BY <1>13, <4>2 DEF Reads, M
      <4> QED BY <1>2, <4>1, <4>3
    <3>7. m = lv
      <4> HIDE DEF m, lv
      <4>1. lv + 1 \in 1..(Len(M) + 1) /\ m \in ((lv + 1) - 1)..Len(M)
        BY <1>2, <2>1, <3>5, <3>6 DEF lm
      <4>2. Len(SubSeq(M, lv + 1, m)) = m - (lv + 1) + 1
        BY <1>1, <4>1, SubSeqBytes
      <4>3. Len(<<>>) = 0
        OBVIOUS
      <4> QED BY <2>1, <3>4, <3>5, <3>6, <4>2, <4>3
    <3>8. j - 1 = lv + 1
      <4> HIDE DEF lv
      <4>1. j - k <= 1
        BY <1>7, <2>7, <3>3
      <4> QED BY <1>7, <2>1, <3>7, <4>1
    <3>9. j - 1 < lm
      <4> DEFINE lf == Len(FrameEncoder(data))
                 bl == Blocks(Len(data))
      <4>1. lf \in Nat /\ lf > 0
        <5> HIDE DEF m, lv, lf
        <5> QED BY <2>1, <3>5, <3>6, <3>7 DEF lf
      <4>2. data # <<>>
        BY <3>5, <4>1
      <4>3. bl \in Nat /\ Len(data) \in Nat \ {0}
        <5>1. Len(data) \in Nat \ {0}
          BY <4>2
        <5> QED BY <5>1, BlocksBound
      <4>4. lf = 1 + bl + Len(data) /\ lm = lv + lf /\ lv \in Nat
        BY <3>5, <4>2
      <4> HIDE DEF lf, bl, lv, m
      <4>5. lf >= 2
        BY <4>3, <4>4
      <4> QED BY <3>8, <4>1, <4>4, <4>5
    <3>10. x = SubSeq(M, lv + 1, j - 1)
      <4>1. lv + 1 \in 1..(Len(M) + 1) /\ m \in ((lv + 1) - 1)..Len(M) /\ j - 1 \in m..Len(M)
        <5> HIDE DEF lv, m
        <5> QED BY <1>2, <2>1, <3>5, <3>6 DEF lm
      <4>2. SubSeq(M, lv + 1, m) \o SubSeq(M, m + 1, j - 1) = SubSeq(M, lv + 1, j - 1)
        BY <1>1, <4>1, ConcatAdjacentSubSeq
      <4> QED BY <2>4, <3>6, <4>2
    <3>11. Reads(c1, data, j - 1)
      <4>1. j - 1 \in 0..(lm - 1) /\ j - 1 >= lv
        <5> HIDE DEF lv, m
        <5> QED BY <1>2, <2>1, <3>5, <3>6, <3>9
      <4> QED BY <1>10, <3>6, <3>10, <4>1 DEF Reads, M, lm
    <3>12. ResponseReads(c1, coded, data, j)
      BY <1>10, <1>13, <2>1, <3>11 DEF ResponseReads, small, b
    <3>13. j # le
      BY <1>2, <1>7, <1>13, <3>9
    <3> QED BY <1>6, <3>2, <3>12, <3>13
  <2>8. Len(x) >= 2 \/ Len(x) <= 1
    <3>1. Len(x) \in Nat
      BY <1>6
    <3> QED BY <3>1
  <2> QED BY <2>6, <2>7, <2>8
<1> QED BY <1>8, <1>12, <1>13 DEF ResponseReads, b, small

-----------------------------------------------------------------------------
(* The messages of a call                                                  *)

\* Data are bytes.
LEMMA DataBytes == ASSUME NEW d \in Data PROVE d \in Seq(Nat)
<1>1. PICK n \in 0..MaxLen : d = [k \in 1..n |-> k]
  BY DEF Data
<1>2. n \in Nat
  BY StreamAssumption
<1>3. \A k \in 1..n : k \in Nat
  OBVIOUS
<1> QED BY <1>1, <1>2, <1>3, SeqDef

\* A request is a message, never None, and without data for MetaData.
LEMMA RequestMessage ==
    ASSUME NEW req \in Request
    PROVE  /\ req = [kind |-> "Request", proto |-> req.proto, data |-> req.data]
           /\ req # None /\ req.data \in Seq(Nat)
           /\ req.proto = "MetaData" => req.data = <<>>
<1>1. CASE \E p \in Protos \ {"MetaData"}, d \in Data :
              req = [kind |-> "Request", proto |-> p, data |-> d]
  <2>1. PICK p \in Protos \ {"MetaData"}, d \in Data :
              req = [kind |-> "Request", proto |-> p, data |-> d]
    BY <1>1
  <2>2. d \in Seq(Nat)
    BY DataBytes
  <2> QED BY <2>1, <2>2 DEF None
<1>2. CASE \E p \in Protos \cap {"MetaData"} :
              req = [kind |-> "Request", proto |-> p, data |-> <<>>]
  <2>1. <<>> \in Seq(Nat)
    OBVIOUS
  <2> QED BY <1>2, <2>1 DEF None
<1> QED BY <1>1, <1>2 DEF Request

\* A response is a message with one of the known codes.
LEMMA ResponseMessage ==
    ASSUME NEW resp \in Response
    PROVE  /\ resp = [kind |-> "Response", coded |-> resp.coded, data |-> resp.data]
           /\ resp # None /\ resp.data \in Seq(Nat) /\ resp.coded \in ResponseCode
<1>1. resp.data \in Data /\ resp.coded \in Coded
  BY DEF Response
<1>2. resp.data \in Seq(Nat)
  BY <1>1, DataBytes
<1>3. resp.coded \in ResponseCode
  BY <1>1, StreamAssumption DEF ResponseCode
<1>4. resp = [kind |-> "Response", coded |-> resp.coded, data |-> resp.data]
  BY DEF Response
<1>5. resp.kind # None.kind
  BY <1>4 DEF None
<1> QED BY <1>2, <1>3, <1>4, <1>5

\* No message is longer than one of the largest size.
LEMMA LargestMessage ==
    ASSUME NEW data \in Seq(Nat), Len(data) <= max_packet_size
    PROVE  Largest \in Nat /\ Len(Message(data)) + 1 <= Largest
<1> USE CodecAssumption
<1> DEFINE full == [k \in 1..max_packet_size |-> k]
           L  == Len(data)
           lv == Len(Header(data))
           lf == Len(FrameEncoder(data))
           mv == Len(varint[max_packet_size])
           mf == Len(FrameEncoder(full))
           bl == Blocks(L)
           bm == Blocks(max_packet_size)
<1>1. full \in Seq(Nat) /\ Len(full) = max_packet_size /\ full # <<>>
  <2>1. \A k \in 1..max_packet_size : k \in Nat
    OBVIOUS
  <2>2. full \in Seq(Nat)
    BY <2>1, SeqDef
  <2>3. Len(full) = max_packet_size
    OBVIOUS
  <2>4. Len(<<>>) = 0 /\ max_packet_size # 0
    OBVIOUS
  <2> HIDE DEF full
  <2> QED BY <2>2, <2>3, <2>4
<1>2. L \in Nat /\ L <= max_packet_size
  OBVIOUS
<1>3. mf = 1 + bm + max_packet_size
  BY <1>1, MessageBytes
<1>4. /\ lv \in Nat /\ lf \in Nat /\ Len(Message(data)) = lv + lf
      /\ data = <<>> => lf = 0
      /\ data # <<>> => lf = 1 + bl + L
  BY MessageBytes
<1>5. lv <= mv /\ mv \in Nat
  <2>1. \A m \in 0..max_packet_size : Len(varint[m]) <= Len(varint[max_packet_size])
    BY VarintMonotone
  <2>2. L \in 0..max_packet_size
    BY <1>2
  <2>3. mv \in Nat
    BY VarintBytes
  <2> QED BY <2>1, <2>2, <2>3 DEF Header
<1>6. bl <= bm /\ bl \in Nat /\ bm \in Nat
  <2>1. L + BLOCK - 1 \in Nat /\ max_packet_size + BLOCK - 1 \in Nat
        /\ L + BLOCK - 1 <= max_packet_size + BLOCK - 1
    BY <1>2
  <2> QED BY <2>1, DivMonotone, DivMod DEF Blocks
<1>7. Largest = mv + mf + 1
  BY DEF Largest
<1> HIDE DEF L, lv, lf, mv, mf, bl, bm
<1>8. lf <= mf /\ mf \in Nat
  BY <1>2, <1>3, <1>4, <1>6
<1> QED BY <1>4, <1>5, <1>7, <1>8

\* A decoder holds no more than it has had, nor a length above the limit.
LEMMA ReadsSize ==
    ASSUME NEW data \in Seq(Nat), Len(data) <= max_packet_size,
           NEW c \in Decoder, NEW k \in Nat, Reads(c, data, k)
    PROVE  Len(c.src) <= k /\ c.len \in -1..max_packet_size
<1> USE CodecAssumption
<1> DEFINE M  == Message(data)
           lm == Len(M)
           lv == Len(Header(data))
<1>1. M \in Seq(Nat) /\ lm \in Nat /\ lv \in Nat \ {0} /\ lv <= lm
  <2> DEFINE lf == Len(FrameEncoder(data))
  <2>1. M \in Seq(Nat) /\ lv \in Nat \ {0} /\ lf \in Nat /\ lm = lv + lf
    BY MessageBytes
  <2> HIDE DEF lf, lm, lv
  <2> QED BY <2>1
<1>2. k \in 0..(lm - 1)
  BY DEF Reads
<1> HIDE DEF M, lm, lv
<1>3. CASE c.len = -1 /\ c.src = SubSeq(M, 1, k)
  <2>1. 1 \in 1..(Len(M) + 1) /\ k \in (1 - 1)..Len(M)
    BY <1>1, <1>2 DEF lm
  <2>2. Len(c.src) = k - 1 + 1
    BY <1>1, <1>3, <2>1, SubSeqBytes
  <2> QED BY <1>3, <2>2
<1>4. CASE c.len = Len(data) /\ k >= lv /\ c.src = SubSeq(M, lv + 1, k)
  <2>1. lv + 1 \in 1..(Len(M) + 1) /\ k \in ((lv + 1) - 1)..Len(M)
    BY <1>1, <1>2, <1>4 DEF lm
  <2>2. Len(c.src) = k - (lv + 1) + 1
    BY <1>1, <1>4, <2>1, SubSeqBytes
  <2>3. Len(data) \in Nat
    OBVIOUS
  <2> QED BY <1>1, <1>4, <2>2, <2>3
<1> QED BY <1>3, <1>4 DEF Reads, M, lv

\* The same for the decoder of responses.
LEMMA ResponseReadsSize ==
    ASSUME NEW coded \in ResponseCode, NEW data \in Seq(Nat),
           NEW c \in Decoder, NEW k \in 0..Len(encode_response(coded, data).dst),
           ResponseReads(c, coded, data, k)
    PROVE  Len(c.src) <= k /\ c.len \in -1..max_packet_size
<1> USE CodecAssumption
<1> DEFINE E == encode_response(coded, data).dst
<1>1. E \in Seq(Nat)
  BY ResponseBytes
<1>2. CASE k \in {0, 1} /\ c = [src |-> SubSeq(E, 1, k), len |-> -1, code |-> -1]
  <2>1. 1 \in 1..(Len(E) + 1) /\ k \in (1 - 1)..Len(E)
    <3>1. Len(E) \in Nat /\ k \in 0..Len(E)
      BY <1>1
    <3> QED BY <3>1
  <2>2. Len(SubSeq(E, 1, k)) = k - 1 + 1
    BY <1>1, <2>1, SubSeqBytes
  <2> HIDE DEF E
  <2>3. c.src = SubSeq(E, 1, k) /\ c.len = -1
    BY <1>2
  <2>4. k \in Int
    BY <1>2
  <2>5. Len(c.src) = k
    BY <2>2, <2>3, <2>4
  <2> QED BY <2>3, <2>4, <2>5
<1>3. CASE k >= 2 /\ Len(data) <= max_packet_size /\ Reads(c, data, k - 1)
  <2>1. k \in Nat /\ k - 1 \in Nat
    BY <1>3
  <2>2. Len(c.src) <= k - 1 /\ c.len \in -1..max_packet_size
    BY <1>3, <2>1, ReadsSize
  <2>3. Len(c.src) \in Nat
    BY DEF Decoder
  <2> QED BY <2>1, <2>2, <2>3
<1> QED BY <1>2, <1>3 DEF ResponseReads

-----------------------------------------------------------------------------
(* The inductive invariant                                                 *)

\* What has been encoded for this half of the stream.
RequestSent(req) ==
    IF req = None THEN <<>>
    ELSE IF req.proto = "MetaData" \/ Len(req.data) > max_packet_size THEN <<>>
    ELSE Message(req.data)

ResponseSent(resp) ==
    IF resp = None THEN <<>> ELSE encode_response(resp.coded, resp.data).dst

Sent(h) == IF h = "request" THEN RequestSent(request) ELSE ResponseSent(response)

\* The reader of this half has no result yet.
Waits(h) == IF h = "request" THEN received = None ELSE outcome = None

\* The decoder of this half has had the first k bytes, and they are not a
\* message that it would have reported.
Decoding(h, k) ==
    IF Sent(h) = <<>> THEN codec[h] = NewDecoder
    ELSE IF h = "request" THEN Reads(codec[h], request.data, k)
    ELSE ResponseReads(codec[h], response.coded, response.data, k)

\* The first k bytes have been read, the others are on the wire and in dst, in
\* the order in which they were encoded.
Flow(h, k) ==
    /\ wire[h] \o dst[h] = SubSeq(Sent(h), k + 1, Len(Sent(h)))
    /\ Len(codec[h].src) <= k /\ codec[h].len \in -1..max_packet_size
    /\ Waits(h) => Decoding(h, k)

Flows(h) == \E k \in 0..Len(Sent(h)) : Flow(h, k)

\* The types, without the bounds on the buffers.
StreamTypes ==
    /\ request \in Request \cup {None} /\ response \in Response \cup {None}
    /\ dst \in [Half -> Seq(Nat)] /\ wire \in [Half -> Seq(Nat)]
    /\ shut \in [Half -> BOOLEAN] /\ codec \in [Half -> Decoder]
    /\ dropped \subseteq {"initiator", "responder", "connection"}
    /\ fault \in BOOLEAN

\* The encoder of the initiator refuses the request.
Oversized == request.proto # "MetaData" /\ Len(request.data) > max_packet_size

\* What an error of a side may be put down to before there is a response.
Excuse == fault \/ ~Carries(request) \/ expects_none(request)

\* Nobody has a result before there is a call, what was received is the request, and
\* an error has a reason.
CallInv ==
    /\ request = None => received = None /\ outcome = None
    /\ response # None => request # None /\ received = request /\ ~expects_none(request)
    /\ received # None => \/ received = request /\ Carries(request)
                          \/ received.kind = "Err" /\ Excuse
    /\ outcome # None => Excuse \/ response # None

\* A half that is closed has been sent in full.
CloseInv ==
    /\ shut["request"] => request # None /\ dst["request"] = <<>> /\ ~Oversized
    /\ shut["response"] => response # None /\ dst["response"] = <<>>

\* Who has let go of the stream, and why.
DropInv ==
    /\ "initiator" \in dropped <=> outcome # None
    /\ request # None /\ Oversized => "initiator" \in dropped
    /\ "responder" \in dropped => received # None /\ (received = request => expects_none(request))
    /\ "connection" \in dropped => fault

StreamInv ==
    StreamTypes /\ (\A h \in Half : Flows(h)) /\ CallInv /\ CloseInv /\ DropInv

\* What is encoded for a request is at most the largest message.
LEMMA RequestSentBytes ==
    ASSUME NEW req \in Request \cup {None}
    PROVE  /\ RequestSent(req) \in Seq(Nat) /\ Len(RequestSent(req)) \in Nat
           /\ Len(RequestSent(req)) <= Largest /\ Largest \in Nat
<1> USE CodecAssumption
<1>0. Largest \in Nat /\ Len(<<>>) = 0 /\ <<>> \in Seq(Nat)
  <2>1. <<>> \in Seq(Nat) /\ Len(<<>>) = 0
    OBVIOUS
  <2>2. Len(<<>>) <= max_packet_size
    BY <2>1
  <2> QED BY <2>1, <2>2, LargestMessage
<1>1. CASE req = None \/ req.proto = "MetaData" \/ Len(req.data) > max_packet_size
  <2>1. RequestSent(req) = <<>>
    BY <1>1 DEF RequestSent
  <2> QED BY <1>0, <2>1
<1>2. CASE ~ (req = None \/ req.proto = "MetaData" \/ Len(req.data) > max_packet_size)
  <2>1. req.data \in Seq(Nat)
    BY <1>2, RequestMessage
  <2>2. Len(req.data) <= max_packet_size
    BY <1>2, <2>1
  <2>3. RequestSent(req) = Message(req.data)
    BY <1>2 DEF RequestSent
  <2>4. Message(req.data) \in Seq(Nat)
    BY <2>1, MessageBytes
  <2>5. Len(Message(req.data)) \in Nat
    BY <2>4
  <2>6. Len(Message(req.data)) + 1 <= Largest
    BY <2>1, <2>2, LargestMessage
  <2> QED BY <1>0, <2>3, <2>4, <2>5, <2>6
<1> QED BY <1>1, <1>2

\* The same for a response.
LEMMA ResponseSentBytes ==
    ASSUME NEW resp \in Response \cup {None}
    PROVE  /\ ResponseSent(resp) \in Seq(Nat) /\ Len(ResponseSent(resp)) \in Nat
           /\ Len(ResponseSent(resp)) <= Largest /\ Largest \in Nat
<1> USE CodecAssumption
<1>0. Largest \in Nat /\ Len(<<>>) = 0 /\ <<>> \in Seq(Nat) /\ 1 <= Largest
  <2>1. <<>> \in Seq(Nat) /\ Len(<<>>) = 0
    OBVIOUS
  <2>2. Len(<<>>) <= max_packet_size
    BY <2>1
  <2>3. Message(<<>>) \in Seq(Nat)
    BY <2>1, MessageBytes
  <2>4. Len(Message(<<>>)) + 1 <= Largest /\ Largest \in Nat
    BY <2>1, <2>2, LargestMessage
  <2>5. Len(Message(<<>>)) \in Nat
    BY <2>3
  <2> QED BY <2>1, <2>4, <2>5
<1>1. CASE resp = None
  <2>1. ResponseSent(resp) = <<>>
    BY <1>1 DEF ResponseSent
  <2> QED BY <1>0, <2>1
<1>2. CASE resp # None
  <2> DEFINE cd == resp.coded
             D == resp.data
             E == encode_response(cd, D).dst
  <2>1. D \in Seq(Nat) /\ cd \in ResponseCode
    BY <1>2, ResponseMessage
  <2>2. ResponseSent(resp) = E
    BY <1>2 DEF ResponseSent
  <2> HIDE DEF cd, D
  <2>3. /\ E \in Seq(Nat)
        /\ Len(E) = IF Len(D) <= max_packet_size THEN 1 + Len(Message(D)) ELSE 1
    BY <2>1, ResponseBytes
  <2>4. CASE Len(D) <= max_packet_size
    <3>1. Message(D) \in Seq(Nat)
      BY <2>1, MessageBytes
    <3>2. Len(Message(D)) \in Nat
      BY <3>1
    <3>3. Len(Message(D)) + 1 <= Largest
      BY <2>1, <2>4, LargestMessage
    <3> QED BY <1>0, <2>2, <2>3, <2>4, <3>2, <3>3
  <2>5. CASE ~ (Len(D) <= max_packet_size)
    BY <1>0, <2>2, <2>3, <2>5
  <2> QED BY <2>4, <2>5
<1> QED BY <1>1, <1>2

\* The same for either half of the stream.
LEMMA SentBytes ==
    ASSUME StreamTypes, NEW h \in Half
    PROVE  Sent(h) \in Seq(Nat) /\ Len(Sent(h)) \in Nat /\ Len(Sent(h)) <= Largest /\ Largest \in Nat
BY RequestSentBytes, ResponseSentBytes DEF Sent, StreamTypes

\* The invariant gives the bound on the buffers.
LEMMA StreamInvType == StreamInv => StreamTypeOK
<1> SUFFICES ASSUME StreamInv PROVE StreamTypeOK
  OBVIOUS
<1>1. StreamTypes
  BY DEF StreamInv
<1>2. ASSUME NEW h \in Half
      PROVE  /\ Len(dst[h]) + Len(wire[h]) + Len(codec[h].src) <= Largest
             /\ codec[h].len \in -1..max_packet_size
  <2>1. PICK k \in 0..Len(Sent(h)) : Flow(h, k)
    BY DEF StreamInv, Flows
  <2> DEFINE S == Sent(h)
             w == wire[h]
             d == dst[h]
             c == Len(codec[h].src)
  <2>2. S \in Seq(Nat) /\ Len(S) \in Nat /\ Len(S) <= Largest /\ Largest \in Nat
    BY <1>1, SentBytes
  <2>3. w \in Seq(Nat) /\ d \in Seq(Nat) /\ c \in Nat
    BY <1>1 DEF StreamTypes, Decoder
  <2>4. w \o d = SubSeq(S, k + 1, Len(S)) /\ c <= k /\ codec[h].len \in -1..max_packet_size
    BY <2>1 DEF Flow
  <2> HIDE DEF S, w, d, c
  <2>5. k \in Nat /\ k <= Len(S)
    BY <2>2 DEF S
  <2>6. Len(SubSeq(S, k + 1, Len(S))) = Len(S) - (k + 1) + 1
    <3>1. k + 1 \in 1..(Len(S) + 1) /\ Len(S) \in ((k + 1) - 1)..Len(S)
      BY <2>2, <2>5
    <3> QED BY <2>2, <3>1, SubSeqBytes
  <2>7. Len(w \o d) = Len(w) + Len(d) /\ Len(w) \in Nat /\ Len(d) \in Nat
    BY <2>3
  <2>8. Len(d) + Len(w) + c <= Largest
    BY <2>2, <2>3, <2>4, <2>5, <2>6, <2>7
  <2> QED BY <2>4, <2>8 DEF w, d, c
<1> QED BY <1>1, <1>2 DEF StreamTypeOK, StreamTypes

-----------------------------------------------------------------------------
(* The bytes of a half                                                     *)

\* The piece from the first to the last byte is all of it.
LEMMA SubSeqWhole == ASSUME NEW s \in Seq(Nat) PROVE SubSeq(s, 1, Len(s)) = s
<1> DEFINE t == SubSeq(s, 1, Len(s))
<1>1. 1 \in 1..(Len(s) + 1) /\ Len(s) \in (1 - 1)..Len(s) /\ Len(s) \in Nat
  OBVIOUS
<1>2. /\ t \in Seq(Nat) /\ Len(t) = Len(s) - 1 + 1
      /\ \A i \in 1..(Len(s) - 1 + 1) : t[i] = s[1 + i - 1]
  BY <1>1, SubSeqBytes
<1> HIDE DEF t
<1>3. Len(t) = Len(s) /\ \A i \in 1..Len(s) : t[i] = s[i]
  BY <1>1, <1>2
<1>4. t = s
  BY <1>2, <1>3, SeqEqual
<1> QED BY <1>4 DEF t

\* The bytes of two pieces, one after the other.
LEMMA ConcatBytes ==
    ASSUME NEW s \in Seq(Nat), NEW t \in Seq(Nat)
    PROVE  /\ s \o t \in Seq(Nat) /\ Len(s \o t) = Len(s) + Len(t)
           /\ \A i \in 1..Len(s) : (s \o t)[i] = s[i]
           /\ \A i \in 1..Len(t) : (s \o t)[Len(s) + i] = t[i]
OBVIOUS

\* Pieces may be put together in any order of the joints.
LEMMA BytesAssociative ==
    ASSUME NEW s \in Seq(Nat), NEW t \in Seq(Nat), NEW u \in Seq(Nat)
    PROVE  (s \o t) \o u = s \o (t \o u)
<1>1. \A S : \A x, y, z \in Seq(S) : (x \o y) \o z = x \o (y \o z)
  BY ConcatAssociative, Zenon
<1> QED BY <1>1

\* The reader takes n bytes off the wire: they are the next ones of S, and the
\* others are still there.
Cut(S, w, d, k, n) ==
    /\ n \in 1..(Len(S) - k) /\ k + n \in 0..Len(S) /\ k \in Nat
    /\ SubSeq(w, 1, n) = SubSeq(S, k + 1, k + n)
    /\ SubSeq(w, n + 1, Len(w)) \in Seq(Nat)
    /\ SubSeq(w, n + 1, Len(w)) \o d = SubSeq(S, (k + n) + 1, Len(S))

\* What is left after reading from the wire is the rest of the message.
LEMMA CutWire ==
    ASSUME NEW S \in Seq(Nat), NEW w \in Seq(Nat), NEW d \in Seq(Nat), NEW k \in 0..Len(S),
           w \o d = SubSeq(S, k + 1, Len(S)), NEW n \in 1..Len(w)
    PROVE  Cut(S, w, d, k, n)
<1> DEFINE ls == Len(S)
           lw == Len(w)
           ld == Len(d)
           R  == SubSeq(S, k + 1, Len(S))
<1>1. ls \in Nat /\ lw \in Nat /\ ld \in Nat /\ k \in Nat /\ k <= ls /\ n \in Nat /\ 1 <= n /\ n <= lw
  OBVIOUS
<1>2. /\ R \in Seq(Nat) /\ Len(R) = ls - k
      /\ \A i \in 1..(ls - k) : R[i] = S[k + i]
  <2>1. k + 1 \in 1..(Len(S) + 1) /\ Len(S) \in ((k + 1) - 1)..Len(S)
    BY <1>1
  <2>2. /\ R \in Seq(Nat) /\ Len(R) = Len(S) - (k + 1) + 1
        /\ \A i \in 1..(Len(S) - (k + 1) + 1) : R[i] = S[(k + 1) + i - 1]
    BY <2>1, SubSeqBytes
  <2> HIDE DEF R
  <2>3. ls - (k + 1) + 1 = ls - k
    BY <1>1
  <2>4. ASSUME NEW i \in 1..(ls - k) PROVE R[i] = S[k + i]
    <3>1. (k + 1) + i - 1 = k + i
      BY <1>1
    <3> QED BY <2>2, <2>3, <3>1
  <2> QED BY <2>2, <2>3, <2>4
<1>3. /\ Len(w \o d) = lw + ld
      /\ \A i \in 1..lw : (w \o d)[i] = w[i]
      /\ \A i \in 1..ld : (w \o d)[lw + i] = d[i]
  BY ConcatBytes
<1>4. w \o d = R
  OBVIOUS
<1> HIDE DEF R, ls, lw, ld
<1>5. lw + ld = ls - k
  BY <1>2, <1>3, <1>4
<1>6. n \in 1..(ls - k) /\ k + n \in 0..ls
  BY <1>1, <1>5
<1>7. ASSUME NEW i \in 1..lw PROVE w[i] = S[k + i]
  <2>1. i \in 1..(ls - k)
    BY <1>1, <1>5
  <2> QED BY <1>2, <1>3, <1>4, <2>1
<1>8. ASSUME NEW i \in 1..ld PROVE d[i] = S[k + lw + i]
  <2>1. lw + i \in 1..(ls - k) /\ k + (lw + i) = k + lw + i
    BY <1>1, <1>5
  <2> QED BY <1>2, <1>3, <1>4, <2>1
<1>9. SubSeq(w, 1, n) = SubSeq(S, k + 1, k + n)
  <2> DEFINE a == SubSeq(w, 1, n)
             b == SubSeq(S, k + 1, k + n)
  <2>1. 1 \in 1..(Len(w) + 1) /\ n \in (1 - 1)..Len(w)
    BY <1>1 DEF lw
  <2>2. /\ a \in Seq(Nat) /\ Len(a) = n - 1 + 1
        /\ \A i \in 1..(n - 1 + 1) : a[i] = w[1 + i - 1]
    BY <2>1, SubSeqBytes
  <2>3. k + 1 \in 1..(Len(S) + 1) /\ k + n \in ((k + 1) - 1)..Len(S)
    BY <1>1, <1>6 DEF ls
  <2>4. /\ b \in Seq(Nat) /\ Len(b) = (k + n) - (k + 1) + 1
        /\ \A i \in 1..((k + n) - (k + 1) + 1) : b[i] = S[(k + 1) + i - 1]
    BY <2>3, SubSeqBytes
  <2> HIDE DEF a, b
  <2>5. n - 1 + 1 = n /\ (k + n) - (k + 1) + 1 = n
    BY <1>1
  <2>6. ASSUME NEW i \in 1..n PROVE a[i] = b[i]
    <3>1. 1 + i - 1 = i /\ (k + 1) + i - 1 = k + i /\ i \in 1..lw
      BY <1>1
    <3>2. a[i] = w[i] /\ b[i] = S[k + i]
      BY <2>2, <2>4, <2>5, <3>1
    <3> QED BY <1>7, <3>1, <3>2
  <2>7. Len(a) = n /\ Len(b) = n
    BY <2>2, <2>4, <2>5
  <2>8. a = b
    BY <2>2, <2>4, <2>6, <2>7, SeqEqual
  <2> QED BY <2>8 DEF a, b
<1>10. /\ SubSeq(w, n + 1, Len(w)) \in Seq(Nat)
       /\ SubSeq(w, n + 1, Len(w)) \o d = SubSeq(S, (k + n) + 1, Len(S))
  <2> DEFINE a == SubSeq(w, n + 1, Len(w))
             b == SubSeq(S, (k + n) + 1, Len(S))
  <2>1. n + 1 \in 1..(Len(w) + 1) /\ Len(w) \in ((n + 1) - 1)..Len(w)
    BY <1>1 DEF lw
  <2>2. /\ a \in Seq(Nat) /\ Len(a) = Len(w) - (n + 1) + 1
        /\ \A i \in 1..(Len(w) - (n + 1) + 1) : a[i] = w[(n + 1) + i - 1]
    BY <2>1, SubSeqBytes
  <2>3. (k + n) + 1 \in 1..(Len(S) + 1) /\ Len(S) \in (((k + n) + 1) - 1)..Len(S)
    BY <1>1, <1>6 DEF ls
  <2>4. /\ b \in Seq(Nat) /\ Len(b) = Len(S) - ((k + n) + 1) + 1
        /\ \A i \in 1..(Len(S) - ((k + n) + 1) + 1) : b[i] = S[((k + n) + 1) + i - 1]
    BY <2>3, SubSeqBytes
  <2> HIDE DEF a, b
  <2>5. lw - (n + 1) + 1 = lw - n /\ ls - ((k + n) + 1) + 1 = ls - (k + n)
    BY <1>1
  <2>6. /\ Len(a) = lw - n /\ Len(b) = ls - (k + n)
        /\ \A i \in 1..(lw - n) : a[i] = w[(n + 1) + i - 1]
        /\ \A i \in 1..(ls - (k + n)) : b[i] = S[((k + n) + 1) + i - 1]
    BY <2>2, <2>4, <2>5 DEF lw, ls
  <2> DEFINE e == a \o d
  <2>7. /\ e \in Seq(Nat) /\ Len(e) = (lw - n) + ld
        /\ \A i \in 1..(lw - n) : e[i] = a[i]
        /\ \A i \in 1..ld : e[(lw - n) + i] = d[i]
    <3>1. /\ e \in Seq(Nat) /\ Len(e) = Len(a) + Len(d)
          /\ \A i \in 1..Len(a) : e[i] = a[i]
          /\ \A i \in 1..Len(d) : e[Len(a) + i] = d[i]
      BY <2>2, ConcatBytes
    <3> HIDE DEF e
    <3> QED BY <2>6, <3>1 DEF ld
  <2> HIDE DEF e
  <2>8. Len(e) = ls - (k + n)
    BY <1>1, <1>5, <2>7
  <2>9. ASSUME NEW i \in 1..(ls - (k + n)) PROVE e[i] = b[i]
    <3>1. ((k + n) + 1) + i - 1 = k + (n + i) /\ i \in Int
      BY <1>1
    <3>2. b[i] = S[k + (n + i)]
      BY <2>6, <3>1
    <3>3. CASE i <= lw - n
      <4>1. i \in 1..(lw - n) /\ (n + 1) + i - 1 = n + i /\ n + i \in 1..lw
        BY <1>1, <3>3
      <4>2. e[i] = w[n + i]
        BY <2>6, <2>7, <4>1
      <4> QED BY <1>7, <3>2, <4>1, <4>2
    <3>4. CASE i > lw - n
      <4> DEFINE p == i - (lw - n)
      <4>1. p \in 1..ld /\ (lw - n) + p = i /\ k + lw + p = k + (n + i)
        BY <1>1, <1>5, <3>1, <3>4
      <4> HIDE DEF p
      <4>2. e[i] = d[p]
        BY <2>7, <4>1
      <4> QED BY <1>8, <3>2, <4>1, <4>2
    <3> QED BY <1>1, <3>1, <3>3, <3>4
  <2>10. e = b
    BY <2>4, <2>6, <2>7, <2>8, <2>9, SeqEqual
  <2> QED BY <2>2, <2>10 DEF a, b, e
<1> QED BY <1>1, <1>6, <1>9, <1>10 DEF ls, Cut

\* The writer moves n bytes from dst to the wire.
LEMMA CutBuffer ==
    ASSUME NEW w \in Seq(Nat), NEW d \in Seq(Nat), NEW n \in 1..Len(d)
    PROVE  /\ w \o SubSeq(d, 1, n) \in Seq(Nat) /\ SubSeq(d, n + 1, Len(d)) \in Seq(Nat)
           /\ (w \o SubSeq(d, 1, n)) \o SubSeq(d, n + 1, Len(d)) = w \o d
<1> DEFINE a == SubSeq(d, 1, n)
           b == SubSeq(d, n + 1, Len(d))
<1>1. /\ 1 \in 1..(Len(d) + 1) /\ n \in (1 - 1)..Len(d) /\ Len(d) \in n..Len(d)
      /\ n + 1 \in 1..(Len(d) + 1) /\ Len(d) \in ((n + 1) - 1)..Len(d) /\ n \in Nat
  OBVIOUS
<1>2. a \in Seq(Nat) /\ b \in Seq(Nat)
  BY <1>1, SubSeqBytes
<1>3. a \o b = SubSeq(d, 1, Len(d))
  BY <1>1, ConcatAdjacentSubSeq
<1>4. SubSeq(d, 1, Len(d)) = d
  BY SubSeqWhole
<1> HIDE DEF a, b
<1>5. (w \o a) \o b = w \o (a \o b)
  BY <1>2, BytesAssociative
<1>6. w \o a \in Seq(Nat)
  BY <1>2
<1> QED BY <1>2, <1>3, <1>4, <1>5, <1>6 DEF a, b

-----------------------------------------------------------------------------
(* What the actions do to the flow of bytes                                *)

\* An action that moves no byte past the reader keeps the flow.
LEMMA FlowKept ==
    ASSUME NEW h \in Half, Flows(h),
           h = "request" => request' = request,
           h = "response" => response' = response,
           wire'[h] \o dst'[h] = wire[h] \o dst[h], codec'[h] = codec[h],
           h = "request" /\ received' = None => received = None,
           h = "response" /\ outcome' = None => outcome = None
    PROVE  Flows(h)'
<1>1. Sent(h)' = Sent(h)
  BY DEF Sent, Half
<1>2. PICK k \in 0..Len(Sent(h)) : Flow(h, k)
  BY DEF Flows
<1>3. Waits(h)' => Waits(h)
  BY DEF Waits, Half
<1>4. Decoding(h, k) => Decoding(h, k)'
  BY <1>1 DEF Decoding, Half
<1>5. Flow(h, k)'
  BY <1>1, <1>2, <1>3, <1>4 DEF Flow
<1> QED BY <1>1, <1>2, <1>5 DEF Flows

\* Nothing has been encoded yet.
LEMMA FlowEmpty ==
    ASSUME StreamTypes, NEW h \in Half, Flows(h), Sent(h) = <<>>
    PROVE  /\ wire[h] = <<>> /\ dst[h] = <<>> /\ codec[h].src = <<>>
           /\ codec[h].len \in -1..max_packet_size
           /\ Waits(h) => codec[h] = NewDecoder
<1>1. PICK k \in 0..Len(Sent(h)) : Flow(h, k)
  BY DEF Flows
<1>2. k = 0
  <2>1. Len(<<>>) = 0
    OBVIOUS
  <2> QED BY <1>1, <2>1
<1> DEFINE w == wire[h]
           d == dst[h]
           s == codec[h].src
<1>3. w \in Seq(Nat) /\ d \in Seq(Nat) /\ s \in Seq(Nat)
  BY DEF StreamTypes, Decoder
<1>4. w \o d = SubSeq(<<>>, 1, 0)
  <2>1. Len(<<>>) = 0
    OBVIOUS
  <2> QED BY <1>1, <1>2, <2>1 DEF Flow
<1>5. SubSeq(<<>>, 1, 0) = <<>>
  <2>1. <<>> \in Seq(Nat)
    OBVIOUS
  <2> QED BY <2>1, SubSeqEmpty
<1>6. Len(s) <= 0 /\ codec[h].len \in -1..max_packet_size /\ (Waits(h) => codec[h] = NewDecoder)
  BY <1>1, <1>2 DEF Flow, Decoding
<1> HIDE DEF w, d, s
<1>7. s = <<>>
  <2>1. Len(s) = 0
    BY <1>3, <1>6
  <2> QED BY <1>3, <2>1
<1>8. w = <<>> /\ d = <<>>
  <2>1. Len(w \o d) = Len(w) + Len(d) /\ Len(w) \in Nat /\ Len(d) \in Nat
    BY <1>3
  <2>2. Len(w \o d) = 0
    BY <1>4, <1>5
  <2>3. Len(w) = 0 /\ Len(d) = 0
    BY <2>1, <2>2
  <2> QED BY <1>3, <2>3
<1> QED BY <1>6, <1>7, <1>8 DEF w, d, s

\* A message has just been encoded into dst.
LEMMA FlowBegins ==
    ASSUME StreamTypes, StreamTypes', NEW h \in Half, Flows(h), Sent(h) = <<>>,
           dst'[h] = Sent(h)', wire'[h] = wire[h], codec'[h] = codec[h],
           Waits(h)' => Waits(h)
    PROVE  Flows(h)'
<1> DEFINE S == Sent(h)'
<1>1. /\ wire[h] = <<>> /\ codec[h].src = <<>> /\ codec[h].len \in -1..max_packet_size
      /\ Waits(h) => codec[h] = NewDecoder
  BY FlowEmpty
<1>2. S \in Seq(Nat) /\ Len(S) \in Nat
  BY RequestSentBytes, ResponseSentBytes DEF Sent, StreamTypes
<1>3. wire'[h] \o dst'[h] = SubSeq(S, 0 + 1, Len(S))
  <2>1. wire'[h] \o dst'[h] = <<>> \o S
    BY <1>1
  <2> HIDE DEF S
  <2>2. <<>> \o S = S /\ SubSeq(S, 1, Len(S)) = S
    BY <1>2, SubSeqWhole
  <2> QED BY <2>1, <2>2
<1>4. Len(codec'[h].src) <= 0 /\ codec'[h].len \in -1..max_packet_size
  BY <1>1
<1>5. ASSUME Waits(h)' PROVE Decoding(h, 0)'
  <2>1. codec'[h] = NewDecoder
    BY <1>1, <1>5
  <2>2. CASE S = <<>>
    BY <2>1, <2>2 DEF Decoding
  <2>3. CASE S # <<>> /\ h = "request"
    <3>1. request' # None /\ S = Message(request'.data)
      BY <2>3 DEF Sent, RequestSent
    <3>2. request' \in Request
      BY <3>1 DEF StreamTypes
    <3> DEFINE D == request'.data
    <3>3. D \in Seq(Nat)
      BY <3>2, RequestMessage
    <3> HIDE DEF D
    <3>4. Reads(NewDecoder, D, 0)
      <4>1. Message(D) \in Seq(Nat) /\ Len(Header(D)) \in Nat \ {0}
            /\ Len(FrameEncoder(D)) \in Nat
            /\ Len(Message(D)) = Len(Header(D)) + Len(FrameEncoder(D))
        BY <3>3, MessageBytes
      <4>2. 0 \in 0..(Len(Message(D)) - 1) /\ 0 < Len(Header(D))
        BY <4>1
      <4>3. SubSeq(Message(D), 1, 0) = <<>>
        BY <4>1, SubSeqEmpty
      <4> QED BY <4>2, <4>3 DEF Reads, NewDecoder
    <3> QED BY <2>1, <2>3, <3>4 DEF Decoding, D
  <2>4. CASE S # <<>> /\ h = "response"
    <3>1. response' # None
      BY <2>4 DEF Sent, ResponseSent
    <3>2. response' \in Response
      BY <3>1 DEF StreamTypes
    <3> DEFINE D  == response'.data
               cd == response'.coded
               E  == encode_response(cd, D).dst
    <3>3. D \in Seq(Nat) /\ cd \in ResponseCode
      BY <3>2, ResponseMessage
    <3> HIDE DEF D, cd
    <3>4. ResponseReads(NewDecoder, cd, D, 0)
      <4>1. E \in Seq(Nat)
        BY <3>3, ResponseBytes
      <4>2. SubSeq(E, 1, 0) = <<>>
        BY <4>1, SubSeqEmpty
      <4> QED BY <4>2 DEF ResponseReads, NewDecoder
    <3> QED BY <2>1, <2>4, <3>4 DEF Decoding, D, cd
  <2> QED BY <2>2, <2>3, <2>4 DEF Half
<1>6. Flow(h, 0)'
  BY <1>3, <1>4, <1>5 DEF Flow
<1>7. 0 \in 0..Len(S)
  BY <1>2
<1> QED BY <1>6, <1>7 DEF Flows

\* The responder reads: it waits for more of the request, or has it all, and a
\* request without data is the only one that it refuses then.
LEMMA ReadRequest ==
    ASSUME StreamInv, poll_next("request")
    PROVE  /\ Flows("request")'
           /\ wire' \in [Half -> Seq(Nat)] /\ codec' \in [Half -> Decoder]
           /\ wire'["response"] = wire["response"] /\ codec'["response"] = codec["response"]
           /\ outcome' = outcome /\ request # None /\ received = None
           /\ \/ UNCHANGED <<received, dropped>>
              \/ /\ received' = request /\ Carries(request)
                 /\ expects_none(request) => dropped' = dropped \cup {"responder"}
                 /\ ~expects_none(request) => dropped' = dropped
              \/ /\ received' = Err("IncompleteStream") /\ ~Carries(request)
                 /\ dropped' = dropped \cup {"responder"}
<1> USE CodecAssumption
<1> DEFINE h == "request"
           w == wire["request"]
           d == dst["request"]
           c == codec["request"]
           S == Sent("request")
           D == request.data
<1>1. StreamTypes /\ Flows("request") /\ "request" \in Half
  BY DEF StreamInv, Half
<1>2. request # None /\ received = None /\ request.proto # "MetaData"
  BY DEF poll_next, awaits
<1>3. PICK n \in 1..Len(w) :
         LET r == decode("request", [c EXCEPT !.src = @ \o SubSeq(w, 1, n)])
         IN  /\ wire'  = [wire EXCEPT !["request"] = SubSeq(@, n + 1, Len(@))]
             /\ codec' = [codec EXCEPT !["request"] = r.codec]
             /\ IF r.item = None THEN UNCHANGED <<received, outcome, dropped>>
                                 ELSE take("request", r.item)
  BY DEF poll_next
<1>4. request' = request /\ response' = response /\ dst' = dst
  BY DEF poll_next
<1> DEFINE c1 == Feed(c, SubSeq(w, 1, n))
           r  == decode_request(request.proto, c1)
<1>5. /\ wire'  = [wire EXCEPT !["request"] = SubSeq(w, n + 1, Len(w))]
      /\ codec' = [codec EXCEPT !["request"] = r.codec]
      /\ IF r.item = None THEN UNCHANGED <<received, outcome, dropped>>
                          ELSE take_request(r.item)
  BY <1>3 DEF decode, take, Feed
<1>6. w \in Seq(Nat) /\ d \in Seq(Nat) /\ c \in Decoder
  BY <1>1 DEF StreamTypes
<1>7. request \in Request
  BY <1>1, <1>2 DEF StreamTypes
<1>8. D \in Seq(Nat) /\ request = [kind |-> "Request", proto |-> request.proto, data |-> D]
  BY <1>7, RequestMessage
<1>9. S # <<>> /\ S = Message(D) /\ Len(D) <= max_packet_size
  <2>1. w # <<>>
    <3> HIDE DEF w
    <3>1. Len(<<>>) = 0
      OBVIOUS
    <3> QED BY <1>3, <3>1
  <2>2. S # <<>>
    BY <1>1, <2>1, FlowEmpty
  <2>3. S = Message(D) /\ ~ (Len(D) > max_packet_size)
    BY <1>2, <2>2 DEF Sent, RequestSent
  <2>4. Len(D) \in Nat
    BY <1>8
  <2> QED BY <2>2, <2>3, <2>4
<1>10. PICK k \in 0..Len(S) : Flow("request", k)
  BY <1>1 DEF Flows
<1>11. w \o d = SubSeq(S, k + 1, Len(S)) /\ Reads(c, D, k)
  BY <1>2, <1>9, <1>10 DEF Flow, Waits, Decoding
<1> HIDE DEF c1, r, w, d, c, S, D
<1>12. S \in Seq(Nat)
  BY <1>8, <1>9, MessageBytes
<1>13. /\ n \in 1..(Len(S) - k) /\ k + n \in 0..Len(S) /\ k \in Nat
       /\ SubSeq(w, 1, n) = SubSeq(S, k + 1, k + n)
       /\ SubSeq(w, n + 1, Len(w)) \in Seq(Nat)
       /\ SubSeq(w, n + 1, Len(w)) \o d = SubSeq(S, (k + n) + 1, Len(S))
  <2>1. n \in 1..Len(w) /\ k \in 0..Len(S) /\ w \o d = SubSeq(S, k + 1, Len(S))
    BY <1>11 DEF w, S
  <2>2. Cut(S, w, d, k, n)
    BY <1>6, <1>12, <2>1, CutWire
  <2> QED BY <2>2 DEF Cut
<1>14. AfterRequest(r, request.proto, D, k + n)
  <2>1. n \in 1..(Len(Message(D)) - k) /\ k \in Nat
    BY <1>9, <1>13
  <2>2. AfterRequest(decode_request(request.proto, Feed(c, SubSeq(Message(D), k + 1, k + n))),
                     request.proto, D, k + n)
    BY <1>2, <1>6, <1>8, <1>9, <1>11, <2>1, RequestStep
  <2> QED BY <1>9, <1>13, <2>2 DEF r, c1
<1>15. r.codec \in Decoder /\ Sent("request")' = S
  BY <1>4, <1>14 DEF AfterRequest, Sent, S
<1>16. /\ wire' \in [Half -> Seq(Nat)] /\ codec' \in [Half -> Decoder]
       /\ wire'["response"] = wire["response"] /\ codec'["response"] = codec["response"]
       /\ wire'["request"] = SubSeq(w, n + 1, Len(w)) /\ codec'["request"] = r.codec
  <2>1. wire \in [Half -> Seq(Nat)] /\ codec \in [Half -> Decoder] /\ "response" \in Half
    BY <1>1 DEF StreamTypes, Half
  <2> QED BY <1>1, <1>5, <1>13, <1>15, <2>1
<1>17. wire'["request"] \o dst'["request"] = SubSeq(S, (k + n) + 1, Len(S))
  BY <1>4, <1>13, <1>16 DEF d
<1>18. CASE k + n < Len(S)
  <2>1. r.item = None /\ Reads(r.codec, D, k + n)
    BY <1>9, <1>14, <1>18 DEF AfterRequest
  <2>2. UNCHANGED <<received, outcome, dropped>>
    BY <1>5, <2>1
  <2>3. Len(r.codec.src) <= k + n /\ r.codec.len \in -1..max_packet_size
    <3>1. k + n \in Nat
      BY <1>13
    <3> QED BY <1>8, <1>9, <1>15, <2>1, <3>1, ReadsSize
  <2>4. Decoding("request", k + n)'
    BY <1>4, <1>9, <1>15, <1>16, <2>1 DEF Decoding, D
  <2>5. Flow("request", k + n)'
    BY <1>15, <1>16, <1>17, <2>3, <2>4 DEF Flow
  <2>6. Flows("request")'
    BY <1>13, <1>15, <2>5 DEF Flows
  <2> QED BY <1>2, <1>16, <2>2, <2>6
<1>19. CASE k + n = Len(S)
  <2>1. /\ r.codec.src = <<>> /\ r.codec.len = -1
        /\ r.item = IF D # <<>> THEN [kind |-> "Request", proto |-> request.proto, data |-> D]
                    ELSE Err("InvalidData")
    BY <1>9, <1>14, <1>19 DEF AfterRequest
  <2>2. r.item # None /\ take_request(r.item)
    BY <1>5, <2>1 DEF None, Err
  <2>3. Carries(request) <=> D # <<>>
    BY <1>2, <1>9 DEF Carries, valid_request, D
  <2>4. Len(r.codec.src) <= k + n /\ r.codec.len \in -1..max_packet_size
    <3>1. k + n \in Nat /\ Len(<<>>) = 0
      BY <1>13
    <3> QED BY <2>1, <3>1
  <2>5. received' # None
    BY <2>1, <2>2 DEF take_request, None, Err
  <2>6. Flow("request", k + n)'
    BY <1>15, <1>16, <1>17, <2>4, <2>5 DEF Flow, Waits
  <2>7. Flows("request")'
    BY <1>13, <1>15, <2>6 DEF Flows
  <2>8. CASE D # <<>>
    <3>1. r.item = request /\ request.kind = "Request"
      BY <1>8, <2>1, <2>8
    <3>2. /\ received' = request /\ outcome' = outcome
          /\ IF ~expects_none(request) THEN UNCHANGED dropped ELSE Drop("responder")
      BY <2>2, <3>1 DEF take_request
    <3> QED BY <1>2, <1>16, <2>3, <2>7, <2>8, <3>2 DEF Drop
  <2>9. CASE D = <<>>
    <3>1. r.item.kind = "Err"
      BY <2>1, <2>9 DEF Err
    <3>2. received' = Err("IncompleteStream") /\ outcome' = outcome /\ Drop("responder")
      BY <2>2, <3>1 DEF take_request
    <3> QED BY <1>2, <1>16, <2>3, <2>7, <2>9, <3>2 DEF Drop
  <2> QED BY <2>8, <2>9
<1>20. k + n < Len(S) \/ k + n = Len(S)
  <2>1. Len(S) \in Nat
    BY <1>12
  <2> QED BY <1>13, <2>1
<1> QED BY <1>18, <1>19, <1>20

\* The initiator reads: the same for the response, where a success without data
\* is refused.
LEMMA ReadResponse ==
    ASSUME StreamInv, poll_next("response")
    PROVE  /\ Flows("response")'
           /\ wire' \in [Half -> Seq(Nat)] /\ codec' \in [Half -> Decoder]
           /\ wire'["request"] = wire["request"] /\ codec'["request"] = codec["request"]
           /\ received' = received /\ request # None /\ outcome = None /\ response # None
           /\ \/ UNCHANGED <<outcome, dropped>>
              \/ /\ outcome' = response /\ CarriesResponse(request, response)
                 /\ dropped' = dropped \cup {"initiator"}
              \/ /\ outcome' = Err("InvalidData") /\ ~CarriesResponse(request, response)
                 /\ dropped' = dropped \cup {"initiator"}
<1> USE CodecAssumption
<1> DEFINE w == wire["response"]
           d == dst["response"]
           c == codec["response"]
           S == Sent("response")
           D == response.data
           cd == response.coded
<1>1. StreamTypes /\ Flows("response") /\ "response" \in Half /\ CallInv
  BY DEF StreamInv, Half
<1>2. request # None /\ outcome = None
  BY DEF poll_next, awaits
<1>3. PICK n \in 1..Len(w) :
         LET r == decode("response", [c EXCEPT !.src = @ \o SubSeq(w, 1, n)])
         IN  /\ wire'  = [wire EXCEPT !["response"] = SubSeq(@, n + 1, Len(@))]
             /\ codec' = [codec EXCEPT !["response"] = r.codec]
             /\ IF r.item = None THEN UNCHANGED <<received, outcome, dropped>>
                                 ELSE take("response", r.item)
  BY DEF poll_next
<1>4. request' = request /\ response' = response /\ dst' = dst
  BY DEF poll_next
<1> DEFINE c1 == Feed(c, SubSeq(w, 1, n))
           r  == decode_response(request.proto, c1)
<1>5. /\ wire'  = [wire EXCEPT !["response"] = SubSeq(w, n + 1, Len(w))]
      /\ codec' = [codec EXCEPT !["response"] = r.codec]
      /\ IF r.item = None THEN UNCHANGED <<received, outcome, dropped>>
                          ELSE take_response(r.item)
  BY <1>3 DEF decode, take, Feed
<1>6. w \in Seq(Nat) /\ d \in Seq(Nat) /\ c \in Decoder
  BY <1>1 DEF StreamTypes
<1>7. S # <<>>
  <2>1. w # <<>>
    <3> HIDE DEF w
    <3>1. Len(<<>>) = 0
      OBVIOUS
    <3> QED BY <1>3, <3>1
  <2> QED BY <1>1, <2>1, FlowEmpty
<1>8. response # None /\ S = encode_response(cd, D).dst
  BY <1>7 DEF Sent, ResponseSent
<1>80. request.proto # "Goodbye"
  BY <1>1, <1>8 DEF CallInv, expects_none
<1>9. /\ D \in Seq(Nat) /\ cd \in ResponseCode
      /\ response = [kind |-> "Response", coded |-> cd, data |-> D]
  <2>1. response \in Response
    BY <1>1, <1>8 DEF StreamTypes
  <2> QED BY <2>1, ResponseMessage
<1>10. PICK k \in 0..Len(S) : Flow("response", k)
  BY <1>1 DEF Flows
<1>11. w \o d = SubSeq(S, k + 1, Len(S)) /\ ResponseReads(c, cd, D, k)
  BY <1>2, <1>7, <1>10 DEF Flow, Waits, Decoding
<1> HIDE DEF c1, r, w, d, c, S, D, cd
<1>12. S \in Seq(Nat)
  BY <1>1, SentBytes DEF S
<1>13. /\ n \in 1..(Len(S) - k) /\ k + n \in 0..Len(S) /\ k \in Nat
       /\ SubSeq(w, 1, n) = SubSeq(S, k + 1, k + n)
       /\ SubSeq(w, n + 1, Len(w)) \in Seq(Nat)
       /\ SubSeq(w, n + 1, Len(w)) \o d = SubSeq(S, (k + n) + 1, Len(S))
  <2>1. n \in 1..Len(w) /\ k \in 0..Len(S) /\ w \o d = SubSeq(S, k + 1, Len(S))
    BY <1>11 DEF w, S
  <2>2. Cut(S, w, d, k, n)
    BY <1>6, <1>12, <2>1, CutWire
  <2> QED BY <2>2 DEF Cut
<1>14. AfterResponse(r, cd, D, k + n)
  <2> DEFINE E == encode_response(cd, D).dst
  <2>1. n \in 1..(Len(E) - k) /\ k \in Nat
    BY <1>8, <1>13
  <2>2. AfterResponse(decode_response(request.proto, Feed(c, SubSeq(E, k + 1, k + n))),
                      cd, D, k + n)
    BY <1>6, <1>80, <1>9, <1>11, <2>1, ResponseStep
  <2> QED BY <1>8, <1>13, <2>2 DEF r, c1
<1>15. r.codec \in Decoder /\ Sent("response")' = S
  BY <1>4, <1>14 DEF AfterResponse, Sent, S
<1>16. /\ wire' \in [Half -> Seq(Nat)] /\ codec' \in [Half -> Decoder]
       /\ wire'["request"] = wire["request"] /\ codec'["request"] = codec["request"]
       /\ wire'["response"] = SubSeq(w, n + 1, Len(w)) /\ codec'["response"] = r.codec
  <2>1. wire \in [Half -> Seq(Nat)] /\ codec \in [Half -> Decoder] /\ "request" \in Half
    BY <1>1 DEF StreamTypes, Half
  <2> QED BY <1>1, <1>5, <1>13, <1>15, <2>1
<1>17. wire'["response"] \o dst'["response"] = SubSeq(S, (k + n) + 1, Len(S))
  BY <1>4, <1>13, <1>16 DEF d
<1>170. Len(D) \in Nat
  BY <1>9
<1>18. CASE k + n < Len(S) \/ Len(D) > max_packet_size
  <2>1. r.item = None /\ ResponseReads(r.codec, cd, D, k + n)
    BY <1>8, <1>14, <1>18 DEF AfterResponse
  <2>2. UNCHANGED <<received, outcome, dropped>>
    BY <1>5, <2>1
  <2>3. Len(r.codec.src) <= k + n /\ r.codec.len \in -1..max_packet_size
    <3>1. k + n \in 0..Len(encode_response(cd, D).dst)
      BY <1>8, <1>13
    <3> QED BY <1>9, <1>15, <2>1, <3>1, ResponseReadsSize
  <2>4. Decoding("response", k + n)'
    BY <1>4, <1>7, <1>15, <1>16, <2>1 DEF Decoding, D, cd
  <2>5. Flow("response", k + n)'
    BY <1>15, <1>16, <1>17, <2>3, <2>4 DEF Flow
  <2>6. Flows("response")'
    BY <1>13, <1>15, <2>5 DEF Flows
  <2> QED BY <1>2, <1>8, <1>16, <2>2, <2>6
<1>19. CASE k + n = Len(S) /\ Len(D) <= max_packet_size
  <2>1. /\ r.codec.src = <<>> /\ r.codec.len = -1
        /\ r.item = IF cd # "Success" \/ D # <<>>
                    THEN [kind |-> "Response", coded |-> cd, data |-> D]
                    ELSE Err("InvalidData")
    BY <1>8, <1>14, <1>19 DEF AfterResponse
  <2>2. r.item # None /\ take_response(r.item) /\ r.item.kind # "End"
    BY <1>5, <2>1 DEF None, Err
  <2>3. CarriesResponse(request, response) <=> (cd # "Success" \/ D # <<>>)
    BY <1>19 DEF CarriesResponse, D, cd
  <2>4. Len(r.codec.src) <= k + n /\ r.codec.len \in -1..max_packet_size
    <3>1. k + n \in Nat /\ Len(<<>>) = 0
      BY <1>13
    <3> QED BY <2>1, <3>1
  <2>5. outcome' = r.item /\ dropped' = dropped \cup {"initiator"} /\ received' = received
    BY <2>2 DEF take_response, Drop
  <2>6. Flow("response", k + n)'
    BY <1>15, <1>16, <1>17, <2>2, <2>4, <2>5 DEF Flow, Waits
  <2>7. Flows("response")'
    BY <1>13, <1>15, <2>6 DEF Flows
  <2>8. CASE cd # "Success" \/ D # <<>>
    BY <1>2, <1>8, <1>9, <1>16, <2>1, <2>3, <2>5, <2>7, <2>8
  <2>9. CASE ~ (cd # "Success" \/ D # <<>>)
    BY <1>2, <1>8, <1>16, <2>1, <2>3, <2>5, <2>7, <2>9
  <2> QED BY <2>8, <2>9
<1>20. k + n < Len(S) \/ k + n = Len(S)
  <2>1. Len(S) \in Nat
    BY <1>12
  <2> QED BY <1>13, <2>1
<1>21. Len(D) > max_packet_size \/ Len(D) <= max_packet_size
  BY <1>170
<1> QED BY <1>18, <1>19, <1>20, <1>21

\* The end of the request is never read as such: the responder has the whole
\* request with its last byte.
LEMMA NoEndOfRequest ==
    ASSUME StreamInv, poll_next_eof("request")
    PROVE  FALSE
<1> USE CodecAssumption
<1>1. /\ StreamTypes /\ Flows("request") /\ "request" \in Half /\ CloseInv
      /\ request # None /\ received = None /\ request.proto # "MetaData"
      /\ shut["request"] /\ wire["request"] = <<>>
  BY DEF StreamInv, Half, poll_next_eof, awaits
<1>2. dst["request"] = <<>> /\ ~ (Len(request.data) > max_packet_size)
  BY <1>1 DEF CloseInv, Oversized
<1> DEFINE S == Sent("request")
<1>3. S = Message(request.data)
  BY <1>1, <1>2 DEF Sent, RequestSent
<1>4. request.data \in Seq(Nat)
  <2>1. request \in Request
    BY <1>1 DEF StreamTypes
  <2> QED BY <2>1, RequestMessage
<1>5. S \in Seq(Nat) /\ Len(S) \in Nat /\ Len(S) > 0
  <2> DEFINE lv == Len(Header(request.data))
             lf == Len(FrameEncoder(request.data))
  <2>1. Message(request.data) \in Seq(Nat) /\ lv \in Nat \ {0} /\ lf \in Nat
        /\ Len(Message(request.data)) = lv + lf
    BY <1>4, MessageBytes
  <2> HIDE DEF lv, lf
  <2>2. lv + lf \in Nat /\ lv + lf > 0
    BY <2>1
  <2> QED BY <1>3, <2>1, <2>2
<1>6. PICK k \in 0..Len(S) : Flow("request", k)
  BY <1>1 DEF Flows
<1>7. S # <<>>
  <2> HIDE DEF S
  <2>1. Len(<<>>) = 0
    OBVIOUS
  <2> QED BY <1>5, <2>1
<1>8. <<>> \o <<>> = SubSeq(S, k + 1, Len(S)) /\ Reads(codec["request"], request.data, k)
  BY <1>1, <1>2, <1>6, <1>7 DEF Flow, Waits, Decoding
<1>9. k \in 0..(Len(S) - 1)
  BY <1>3, <1>8 DEF Reads
<1> HIDE DEF S
<1>10. Len(SubSeq(S, k + 1, Len(S))) = Len(S) - (k + 1) + 1
  <2>1. k + 1 \in 1..(Len(S) + 1) /\ Len(S) \in ((k + 1) - 1)..Len(S)
    BY <1>5, <1>9
  <2> QED BY <1>5, <2>1, SubSeqBytes
<1>11. Len(<<>> \o <<>>) = 0
  OBVIOUS
<1>12. Len(S) - (k + 1) + 1 = 0
  BY <1>8, <1>10, <1>11, Zenon
<1> QED BY <1>5, <1>9, <1>12

\* The end of the response is read as such only if the response was too large
\* to be encoded, and then its code is still there.
LEMMA EndOfResponse ==
    ASSUME StreamInv, poll_next_eof("response")
    PROVE  /\ request # None /\ outcome = None /\ received' = received
           /\ response # None /\ ~CarriesResponse(request, response)
           /\ outcome' = Err("IoError") /\ dropped' = dropped \cup {"initiator"}
<1> USE CodecAssumption
<1>1. /\ StreamTypes /\ Flows("response") /\ "response" \in Half /\ CloseInv
      /\ request # None /\ outcome = None
      /\ shut["response"] /\ wire["response"] = <<>>
      /\ take_response(decode_eof("response", codec["response"]))
  BY DEF StreamInv, Half, poll_next_eof, awaits, take
<1>2. response # None /\ dst["response"] = <<>>
  BY <1>1 DEF CloseInv
<1> DEFINE S == Sent("response")
           D == response.data
           cd == response.coded
           c == codec["response"]
<1>3. S = encode_response(cd, D).dst
  BY <1>2 DEF Sent, ResponseSent
<1>4. D \in Seq(Nat) /\ cd \in ResponseCode
  <2>1. response \in Response
    BY <1>1, <1>2 DEF StreamTypes
  <2> QED BY <2>1, ResponseMessage
<1>5. PICK k \in 0..Len(S) : Flow("response", k)
  BY <1>1 DEF Flows
<1>6. c \in Decoder
  BY <1>1 DEF StreamTypes
<1> HIDE DEF D, cd
<1>7. /\ S \in Seq(Nat) /\ S[1] = as_u8[cd]
      /\ Len(S) = IF Len(D) <= max_packet_size THEN 1 + Len(Message(D)) ELSE 1
  <2> DEFINE E == encode_response(cd, D).dst
  <2>1. /\ E \in Seq(Nat) /\ E[1] = as_u8[cd]
        /\ Len(E) = IF Len(D) <= max_packet_size THEN 1 + Len(Message(D)) ELSE 1
    BY <1>4, ResponseBytes
  <2> HIDE DEF E
  <2>2. S = E
    BY <1>3 DEF E
  <2> HIDE DEF S
  <2> QED BY <2>1, <2>2
<1>8. Len(Message(D)) \in Nat \ {0} /\ Len(D) \in Nat
  <2> DEFINE lv == Len(Header(D))
             lf == Len(FrameEncoder(D))
  <2>1. lv \in Nat \ {0} /\ lf \in Nat /\ Len(Message(D)) = lv + lf
    BY <1>4, MessageBytes
  <2> HIDE DEF lv, lf
  <2>2. lv + lf \in Nat \ {0}
    BY <2>1
  <2>3. Len(D) \in Nat
    BY <1>4
  <2> QED BY <2>1, <2>2, <2>3
<1>9. Len(S) \in Nat \ {0}
  <2> HIDE DEF S
  <2> QED BY <1>7, <1>8
<1>10. S # <<>>
  <2> HIDE DEF S
  <2>1. Len(<<>>) = 0
    OBVIOUS
  <2> QED BY <1>9, <2>1
<1>11. <<>> \o <<>> = SubSeq(S, k + 1, Len(S)) /\ ResponseReads(c, cd, D, k)
  BY <1>1, <1>2, <1>5, <1>10 DEF Flow, Waits, Decoding, D, cd
<1> HIDE DEF S, c
<1>12. k = Len(S)
  <2>0. k \in 0..Len(S)
    BY DEF S
  <2>1. k + 1 \in 1..(Len(S) + 1) /\ Len(S) \in ((k + 1) - 1)..Len(S)
    BY <1>9, <2>0
  <2>2. Len(SubSeq(S, k + 1, Len(S))) = Len(S) - (k + 1) + 1
    BY <1>7, <2>1, SubSeqBytes
  <2>3. Len(<<>> \o <<>>) = 0
    OBVIOUS
  <2>4. Len(S) - (k + 1) + 1 = 0
    BY <1>11, <2>2, <2>3, Zenon
  <2> QED BY <1>9, <2>0, <2>4
<1>13. ~ (Len(D) <= max_packet_size) /\ k = 1
  <2>1. CASE k \in {0, 1}
    BY <1>7, <1>8, <1>9, <1>12, <2>1
  <2>2. CASE k >= 2 /\ Len(D) <= max_packet_size /\ Reads(c, D, k - 1)
    <3>1. k - 1 \in 0..(Len(Message(D)) - 1)
      BY <2>2 DEF Reads
    <3>2. k = 1 + Len(Message(D))
      BY <1>7, <1>12, <2>2
    <3> QED BY <1>8, <3>1, <3>2
  <2> QED BY <1>11, <2>1, <2>2 DEF ResponseReads
<1>14. c = [src |-> SubSeq(S, 1, 1), len |-> -1, code |-> -1]
  BY <1>3, <1>11, <1>13 DEF ResponseReads
<1>15. c.src = SubSeq(S, 1, 1) /\ Len(c.src) = 1 /\ c.src # <<>>
  <2>1. 1 \in 1..(Len(S) + 1) /\ 1 \in (1 - 1)..Len(S)
    BY <1>9
  <2>2. Len(SubSeq(S, 1, 1)) = 1 - 1 + 1
    BY <1>7, <2>1, SubSeqBytes
  <2>3. c.src = SubSeq(S, 1, 1)
    BY <1>14
  <2>4. Len(<<>>) = 0 /\ 1 - 1 + 1 = 1
    OBVIOUS
  <2>5. Len(c.src) = 1
    BY <2>2, <2>3, <2>4
  <2>6. c.src # <<>>
    <3>1. 1 # 0
      OBVIOUS
    <3> QED BY <2>4, <2>5, <3>1, Zenon
  <2> QED BY <2>3, <2>5, <2>6
<1>16. decode_eof("response", c) = Err("IoError")
  <2>1. decode_response(request.proto, c) = [codec |-> c, item |-> None]
    BY <1>15 DEF decode_response, awaits_bytes
  <2>2. decode("response", c) = [codec |-> c, item |-> None]
    BY <2>1 DEF decode
  <2> QED BY <1>15, <2>2 DEF decode_eof
<1>17. outcome' = Err("IoError") /\ dropped' = dropped \cup {"initiator"} /\ received' = received
  BY <1>1, <1>16 DEF take_response, Drop, Err, c
<1>18. ~CarriesResponse(request, response)
  BY <1>13 DEF CarriesResponse, D
<1> QED BY <1>1, <1>2, <1>17, <1>18

-----------------------------------------------------------------------------
(* The invariant is inductive                                              *)

\* Nothing has been sent, nobody has let go.
LEMMA StreamInitInv == Init => StreamInv
<1> SUFFICES ASSUME Init PROVE StreamInv
  OBVIOUS
<1>1. <<>> \in Seq(Nat) /\ NewDecoder \in Decoder
  BY DEF NewDecoder, Decoder
<1>2. StreamTypes
  BY <1>1 DEF Init, StreamTypes
<1>3. ASSUME NEW h \in Half PROVE Flows(h)
  <2>1. Sent(h) = <<>> /\ wire[h] = <<>> /\ dst[h] = <<>> /\ codec[h] = NewDecoder
    BY DEF Init, Sent, RequestSent, ResponseSent
  <2>2. SubSeq(<<>>, 0 + 1, 0) = <<>> /\ <<>> \o <<>> = <<>> /\ Len(<<>>) = 0
    <3>1. SubSeq(<<>>, 1, 0) = <<>>
      BY <1>1, SubSeqEmpty
    <3> QED BY <3>1
  <2>3. wire[h] \o dst[h] = SubSeq(Sent(h), 0 + 1, Len(Sent(h)))
    BY <2>1, <2>2
  <2>4. Len(codec[h].src) <= 0 /\ codec[h].len \in -1..max_packet_size
    <3>1. codec[h].src = <<>> /\ codec[h].len = -1
      BY <2>1 DEF NewDecoder
    <3> QED BY <2>2, <3>1, CodecAssumption
  <2>5. Flow(h, 0)
    BY <2>1, <2>3, <2>4 DEF Flow, Decoding
  <2>6. 0 \in 0..Len(Sent(h))
    BY <2>1, <2>2
  <2> QED BY <2>5, <2>6 DEF Flows
<1>4. CallInv /\ CloseInv /\ DropInv
  BY DEF Init, CallInv, CloseInv, DropInv, Half
<1> QED BY <1>2, <1>3, <1>4 DEF StreamInv

\* The encoder writes the request, unless it is too large.
LEMMA EncodeRequest ==
    ASSUME NEW req \in Request
    PROVE  LET enc == encode_request(req.proto, req.data)
           IN  /\ req.proto = "MetaData" \/ Len(req.data) <= max_packet_size =>
                     enc.kind = "Ok" /\ enc.bytes = RequestSent(req)
               /\ ~ (req.proto = "MetaData" \/ Len(req.data) <= max_packet_size) =>
                     enc.kind # "Ok" /\ RequestSent(req) = <<>> /\ ~Carries(req)
<1> USE CodecAssumption
<1> DEFINE enc == encode_request(req.proto, req.data)
<1>1. req # None /\ Len(req.data) \in Nat
  <2>1. req # None /\ req.data \in Seq(Nat)
    BY RequestMessage
  <2> QED BY <2>1
<1>2. CASE req.proto = "MetaData"
  BY <1>1, <1>2 DEF encode_request, RequestSent
<1>3. CASE req.proto # "MetaData" /\ Len(req.data) <= max_packet_size
  <2>1. ~ (Len(req.data) > max_packet_size)
    BY <1>1, <1>3
  <2>2. enc = [kind |-> "Ok", bytes |-> Message(req.data)]
    BY <1>3, <2>1 DEF encode_request, snappy_encode, Message, Header
  <2>3. RequestSent(req) = Message(req.data)
    BY <1>1, <1>3, <2>1 DEF RequestSent
  <2> HIDE DEF enc
  <2>4. enc.kind = "Ok" /\ enc.bytes = RequestSent(req)
    BY <2>2, <2>3
  <2> QED BY <1>3, <2>4 DEF enc
<1>4. CASE req.proto # "MetaData" /\ ~ (Len(req.data) <= max_packet_size)
  <2>1. Len(req.data) > max_packet_size
    BY <1>1, <1>4
  <2>2. enc = Err("InternalError")
    BY <1>4, <2>1 DEF encode_request, snappy_encode
  <2>3. RequestSent(req) = <<>> /\ ~Carries(req)
    BY <1>1, <1>4, <2>1 DEF RequestSent, Carries
  <2> HIDE DEF enc
  <2>4. enc.kind # "Ok"
    BY <2>2 DEF Err
  <2> QED BY <1>4, <2>3, <2>4 DEF enc
<1> QED BY <1>2, <1>3, <1>4

\* What upgrade_outbound does, apart from the bytes.
LEMMA UpgradeOutbound ==
    ASSUME StreamInv, NEW req \in Request, upgrade_outbound(req)
    PROVE  /\ request = None /\ received = None /\ response = None /\ outcome = None
           /\ request' = req /\ received' = None /\ response' = None /\ fault' = fault
           /\ wire' = wire /\ shut' = shut /\ codec' = codec
           /\ dst' = [dst EXCEPT !["request"] = RequestSent(req)]
           /\ \/ outcome' = None /\ dropped' = dropped
                 /\ (req.proto = "MetaData" \/ Len(req.data) <= max_packet_size)
              \/ outcome' = Err("InternalError") /\ dropped' = dropped \cup {"initiator"}
                 /\ ~Carries(req)
<1> DEFINE enc == encode_request(req.proto, req.data)
           fits == req.proto = "MetaData" \/ Len(req.data) <= max_packet_size
<1>1. /\ request = None /\ request' = req /\ received' = received /\ response' = response
      /\ fault' = fault /\ wire' = wire /\ shut' = shut /\ codec' = codec
  BY DEF upgrade_outbound
<1>2. IF enc.kind = "Ok"
      THEN dst' = [dst EXCEPT !["request"] = enc.bytes] /\ outcome' = outcome /\ dropped' = dropped
      ELSE outcome' = Err("InternalError") /\ dropped' = dropped \cup {"initiator"} /\ dst' = dst
  BY DEF upgrade_outbound, Drop
<1>3. received = None /\ response = None /\ outcome = None
  BY <1>1 DEF StreamInv, CallInv
<1>4. /\ fits => enc.kind = "Ok" /\ enc.bytes = RequestSent(req)
      /\ ~fits => enc.kind # "Ok" /\ RequestSent(req) = <<>> /\ ~Carries(req)
  BY EncodeRequest
<1> HIDE DEF enc
<1>5. CASE fits
  BY <1>1, <1>2, <1>3, <1>4, <1>5
<1>6. CASE ~fits
  <2>1. dst["request"] = <<>>
    <3>1. StreamTypes /\ "request" \in Half /\ Flows("request")
      BY DEF StreamInv, Half
    <3>2. Sent("request") = <<>>
      BY <1>1 DEF Sent, RequestSent
    <3> QED BY <3>1, <3>2, FlowEmpty
  <2>2. dst' = [dst EXCEPT !["request"] = RequestSent(req)]
    <3>1. dst \in [Half -> Seq(Nat)]
      BY DEF StreamInv, StreamTypes
    <3>2. dst' = dst /\ RequestSent(req) = dst["request"]
      BY <1>2, <1>4, <1>6, <2>1
    <3> QED BY <3>1, <3>2
  <2> HIDE DEF fits
  <2> QED BY <1>1, <1>2, <1>3, <1>4, <1>6, <2>2
<1> QED BY <1>5, <1>6

\* Sending a request keeps the invariant.
LEMMA UpgradeOutboundInv ==
    ASSUME StreamInv, NEW req \in Request, upgrade_outbound(req)
    PROVE  StreamInv'
<1>1. /\ request = None /\ received = None /\ response = None /\ outcome = None
      /\ request' = req /\ received' = None /\ response' = None /\ fault' = fault
      /\ wire' = wire /\ shut' = shut /\ codec' = codec
      /\ dst' = [dst EXCEPT !["request"] = RequestSent(req)]
      /\ \/ outcome' = None /\ dropped' = dropped
            /\ (req.proto = "MetaData" \/ Len(req.data) <= max_packet_size)
         \/ outcome' = Err("InternalError") /\ dropped' = dropped \cup {"initiator"}
            /\ ~Carries(req)
  BY UpgradeOutbound
<1>2. StreamTypes /\ (\A h \in Half : Flows(h)) /\ CallInv /\ CloseInv /\ DropInv
  BY DEF StreamInv
<1>3. RequestSent(req) \in Seq(Nat)
  BY RequestSentBytes
<1>4. StreamTypes'
  BY <1>1, <1>2, <1>3 DEF StreamTypes
<1>5. dst'["request"] = RequestSent(req) /\ dst'["response"] = dst["response"]
  BY <1>1, <1>2 DEF StreamTypes, Half
<1>6. Flows("request")'
  <2>1. Sent("request") = <<>> /\ Sent("request")' = RequestSent(req)
    BY <1>1 DEF Sent, RequestSent
  <2>2. Waits("request")' => Waits("request")
    BY <1>1 DEF Waits
  <2> QED BY <1>1, <1>2, <1>4, <1>5, <2>1, <2>2, FlowBegins DEF Half
<1>7. Flows("response")'
  BY <1>1, <1>2, <1>5, FlowKept DEF Half
<1>8. req # None /\ Err("InternalError") # None
  BY RequestMessage DEF Err, None
<1>9. CallInv'
  BY <1>1, <1>8 DEF CallInv, Excuse
<1>10. CloseInv'
  BY <1>1, <1>2 DEF CloseInv
<1>11. DropInv'
  <2>1. "initiator" \notin dropped /\ "responder" \notin dropped /\ ("connection" \in dropped => fault)
    BY <1>1, <1>2 DEF DropInv
  <2>2. "initiator" \in dropped' <=> outcome' # None
    BY <1>1, <1>8, <2>1
  <2>3. Oversized' => "initiator" \in dropped'
    <3>1. Len(req.data) \in Nat
      <4>1. req.data \in Seq(Nat)
        BY RequestMessage
      <4> QED BY <4>1
    <3>2. Oversized' => ~ (req.proto = "MetaData" \/ Len(req.data) <= max_packet_size)
      BY <1>1, <3>1, CodecAssumption DEF Oversized
    <3> QED BY <1>1, <3>2
  <2>4. "responder" \notin dropped' /\ ("connection" \in dropped' => fault')
    BY <1>1, <2>1
  <2> QED BY <2>2, <2>3, <2>4 DEF DropInv
<1> QED BY <1>4, <1>6, <1>7, <1>9, <1>10, <1>11 DEF StreamInv, Half

-----------------------------------------------------------------------------
(* Each action is a step of the call                                       *)

\* Sending the request is that of the call, with its error if it is too large.
LEMMA UpgradeOutboundCall ==
    ASSUME StreamInv, NEW req \in Request, upgrade_outbound(req)
    PROVE  Call!Request
<1>1. /\ request = None /\ received = None /\ response = None /\ outcome = None
      /\ request' = req /\ received' = None /\ response' = None /\ fault' = fault
      /\ \/ outcome' = None
         \/ outcome' = Err("InternalError") /\ ~Carries(req)
  BY UpgradeOutbound
<1>2. req # None
  BY RequestMessage
<1>3. Err("InternalError").kind = "Err"
  BY DEF Err
<1> QED BY <1>1, <1>2, <1>3 DEF Call!Request, Call!Failed

\* So is sending the response.
LEMMA StartSendCall ==
    ASSUME NEW coded \in Coded, NEW data \in Data, start_send(coded, data)
    PROVE  Call!Respond
<1>1. response'.kind = "Response"
  BY DEF start_send
<1>2. response' # None
  BY <1>1 DEF None
<1> QED BY <1>2 DEF start_send, Call!Respond

\* Flushing moves bytes, which the call does not see.
LEMMA PollFlushCall == ASSUME NEW h \in Half, poll_flush(h) PROVE UNCHANGED Call!vars
BY DEF poll_flush, Call!vars

\* Closing ends the call where no response is expected, and is not seen otherwise.
LEMMA PollCloseCall ==
    ASSUME StreamInv, NEW h \in Half, poll_close(h)
    PROVE  Call!Return \/ UNCHANGED Call!vars
<1>1. CASE h = "request" /\ expects_none(request)
  <2>1. /\ request # None /\ "initiator" \notin dropped
        /\ outcome' = [kind |-> "NoResponse"]
        /\ UNCHANGED <<request, received, response, fault>>
    BY <1>1 DEF poll_close, writer
  <2>2. outcome = None
    BY <2>1 DEF StreamInv, DropInv
  <2>3. outcome'.kind # "Err" /\ outcome' # None
    BY <2>1 DEF None
  <2> QED BY <1>1, <2>1, <2>2, <2>3 DEF Call!Return, Call!Failed
<1>2. CASE ~ (h = "request" /\ expects_none(request))
  BY <1>2 DEF poll_close, Call!vars
<1> QED BY <1>1, <1>2

\* Reading bytes completes a message, or the call does not see it.
LEMMA PollNextCall ==
    ASSUME StreamInv, NEW h \in Half, poll_next(h)
    PROVE  Call!Receive \/ Call!Return \/ UNCHANGED Call!vars
<1>0. UNCHANGED <<request, response, fault>>
  BY DEF poll_next
<1>1. CASE h = "request"
  <2>1. /\ outcome' = outcome /\ request # None /\ received = None
        /\ \/ received' = received
           \/ received' = request /\ Carries(request)
           \/ received' = Err("IncompleteStream") /\ ~Carries(request)
    BY <1>1, ReadRequest
  <2>2. Err("IncompleteStream").kind = "Err"
    BY DEF Err
  <2> QED BY <1>0, <2>1, <2>2 DEF Call!Receive, Call!Failed, Call!vars
<1>2. CASE h = "response"
  <2>1. /\ received' = received /\ request # None /\ outcome = None /\ response # None
        /\ \/ outcome' = outcome
           \/ outcome' = response /\ CarriesResponse(request, response)
           \/ outcome' = Err("InvalidData") /\ ~CarriesResponse(request, response)
    BY <1>2, ReadResponse
  <2>2. Err("InvalidData").kind = "Err" /\ Err("InvalidData") # None
    BY DEF Err, None
  <2> QED BY <1>0, <2>1, <2>2 DEF Call!Return, Call!Failed, Call!vars
<1> QED BY <1>1, <1>2 DEF Half

\* The end of the stream ends the call.
LEMMA PollNextEofCall ==
    ASSUME StreamInv, NEW h \in Half, poll_next_eof(h)
    PROVE  Call!Return
<1>1. h # "request"
  BY NoEndOfRequest
<1>2. h = "response"
  BY <1>1 DEF Half
<1>3. /\ request # None /\ outcome = None /\ received' = received
      /\ response # None /\ ~CarriesResponse(request, response)
      /\ outcome' = Err("IoError")
  BY <1>2, EndOfResponse
<1>4. UNCHANGED <<request, response, fault>>
  BY DEF poll_next_eof
<1>5. Err("IoError").kind = "Err" /\ Err("IoError") # None
  BY DEF Err, None
<1> QED BY <1>3, <1>4, <1>5 DEF Call!Return, Call!Failed

\* A request without bytes is received as it was sent.
LEMMA MetadataCall ==
    ASSUME StreamInv, upgrade_inbound_metadata
    PROVE  Call!Receive
<1>1. /\ request # None /\ request.proto = "MetaData" /\ received = None /\ received' = request
      /\ UNCHANGED <<request, response, outcome, fault>>
  BY DEF upgrade_inbound_metadata
<1>2. request \in Request
  BY <1>1 DEF StreamInv, StreamTypes
<1>3. request.data = <<>>
  BY <1>1, <1>2, RequestMessage
<1>4. Carries(request)
  <2>1. Len(<<>>) <= max_packet_size
    BY CodecAssumption
  <2> QED BY <1>1, <1>3, <2>1 DEF Carries, valid_request
<1> QED BY <1>1, <1>4 DEF Call!Receive

\* A connection that breaks is a fault.
LEMMA BreakCall == ASSUME break PROVE Call!Disturb
BY DEF break, Call!Disturb

\* A side that finds the stream gone: the other one has let go of it, which it
\* does after an error of its own, or the connection is broken.
LEMMA StreamGoneCall ==
    ASSUME StreamInv, stream_gone
    PROVE  Call!Receive \/ Call!Return
<1>1. request # None /\ UNCHANGED <<request, response, fault>>
  BY DEF stream_gone
<1>2. \A e \in StreamError : e.kind = "Err" /\ e # None
  BY DEF StreamError, Err, None
<1>3. CallInv /\ DropInv
  BY DEF StreamInv
<1>4. CASE /\ received = None /\ dropped \cap {"initiator", "connection"} # {}
           /\ \E e \in StreamError : take_request(e)
  <2>1. received' = Err("IncompleteStream") /\ outcome' = outcome
    BY <1>2, <1>4 DEF take_request
  <2>2. fault \/ ~Carries(request) \/ expects_none(request)
    <3>1. CASE "connection" \in dropped
      BY <1>3, <3>1 DEF DropInv
    <3>2. CASE "initiator" \in dropped
      <4>1. outcome # None /\ response = None
        BY <1>1, <1>3, <1>4, <3>2 DEF DropInv, CallInv
      <4> QED BY <1>3, <4>1 DEF CallInv, Excuse
    <3> QED BY <1>4, <3>1, <3>2
  <2>3. Err("IncompleteStream").kind = "Err"
    BY DEF Err
  <2> QED BY <1>1, <1>4, <2>1, <2>2, <2>3 DEF Call!Receive, Call!Failed
<1>5. CASE /\ outcome = None /\ dropped \cap {"responder", "connection"} # {}
           /\ \E e \in StreamError : take_response(e)
  <2>1. outcome'.kind = "Err" /\ outcome' # None /\ received' = received
    <3>1. PICK e \in StreamError : take_response(e)
      BY <1>5
    <3>2. e.kind = "Err" /\ e # None
      BY <1>2
    <3>3. outcome' = e /\ received' = received
      BY <3>1, <3>2 DEF take_response
    <3> QED BY <3>2, <3>3
  <2>2. fault \/ ~Carries(request) \/ expects_none(request)
    <3>1. CASE "connection" \in dropped
      BY <1>3, <3>1 DEF DropInv
    <3>2. CASE "responder" \in dropped
      <4>1. received # None /\ (received = request => expects_none(request))
        BY <1>3, <3>2 DEF DropInv
      <4> QED BY <1>3, <4>1 DEF CallInv, Excuse
    <3> QED BY <1>5, <3>1, <3>2
  <2> QED BY <1>1, <1>5, <2>1, <2>2 DEF Call!Return, Call!Failed
<1> QED BY <1>4, <1>5 DEF stream_gone

\* A timer that fires ends the call for its side, with an error.
LEMMA TimeoutCall ==
    ASSUME timeout
    PROVE  Call!Receive \/ Call!Return
<1>1. request # None /\ UNCHANGED <<request, response>> /\ fault' = TRUE
  BY DEF timeout
<1>2. Err("StreamTimeout").kind = "Err" /\ Err("IncompleteStream").kind = "Err"
      /\ Err("StreamTimeout") # None
  BY DEF Err, None
<1>3. CASE received = None /\ received' \in {Err("StreamTimeout"), Err("IncompleteStream")}
           /\ UNCHANGED outcome
  BY <1>1, <1>2, <1>3 DEF Call!Receive, Call!Failed
<1>4. CASE outcome = None /\ outcome' = Err("StreamTimeout") /\ UNCHANGED received
  BY <1>1, <1>2, <1>4 DEF Call!Return, Call!Failed
<1> QED BY <1>3, <1>4 DEF timeout

-----------------------------------------------------------------------------
(* ... and keeps the invariant                                             *)

\* A step of the call, other than sending, keeps what the invariant says of it.
LEMMA CallKept ==
    ASSUME StreamInv, Call!Receive \/ Call!Return \/ Call!Disturb \/ UNCHANGED Call!vars
    PROVE  /\ CallInv' /\ request' = request /\ response' = response /\ (fault => fault')
           /\ received' = received \/ received = None
           /\ outcome' = outcome \/ (outcome = None /\ outcome' # None)
<1>1. CallInv
  BY DEF StreamInv
<1>2. CASE Call!Receive
  BY <1>1, <1>2 DEF Call!Receive, Call!Failed, CallInv, Excuse
<1>3. CASE Call!Return
  BY <1>1, <1>3 DEF Call!Return, Call!Failed, CallInv, Excuse
<1>4. CASE Call!Disturb
  BY <1>1, <1>4 DEF Call!Disturb, CallInv, Excuse
<1>5. CASE UNCHANGED Call!vars
  BY <1>1, <1>5 DEF Call!vars, CallInv, Excuse
<1> QED BY <1>2, <1>3, <1>4, <1>5

\* A side lets go when it has its result, the connection after a fault.
LEMMA DropKept ==
    ASSUME StreamInv, Call!Receive \/ Call!Return \/ Call!Disturb \/ UNCHANGED Call!vars,
           \/ dropped' = dropped /\ outcome' = outcome
           \/ /\ dropped' = dropped \cup {"initiator"} /\ outcome' # None /\ received' = received
           \/ /\ dropped' = dropped \cup {"responder"} /\ outcome' = outcome
              /\ received' # None /\ (received' = request => expects_none(request))
           \/ /\ dropped' = dropped \cup {"connection"} /\ fault' = TRUE
              /\ UNCHANGED <<received, outcome>>
    PROVE  DropInv' /\ dropped' \subseteq {"initiator", "responder", "connection"}
<1>1. /\ request' = request /\ (fault => fault')
      /\ received' = received \/ received = None
  BY CallKept
<1>2. DropInv /\ dropped \subseteq {"initiator", "responder", "connection"}
  BY DEF StreamInv, StreamTypes
<1>3. dropped \subseteq dropped' /\ dropped' \subseteq {"initiator", "responder", "connection"}
  BY <1>2
<1>4. "initiator" \in dropped' <=> outcome' # None
  BY <1>2 DEF DropInv
<1>5. request' # None /\ Oversized' => "initiator" \in dropped'
  BY <1>1, <1>2, <1>3 DEF DropInv, Oversized
<1>6. "responder" \in dropped' => received' # None /\ (received' = request' => expects_none(request'))
  BY <1>1, <1>2 DEF DropInv
<1>7. "connection" \in dropped' => fault'
  BY <1>1, <1>2 DEF DropInv
<1> QED BY <1>3, <1>4, <1>5, <1>6, <1>7 DEF DropInv

\* The actions that leave the bytes alone.
LEMMA QuietInv ==
    ASSUME StreamInv, Call!Receive \/ Call!Return \/ Call!Disturb \/ UNCHANGED Call!vars,
           UNCHANGED halfVars, fault' \in BOOLEAN,
           DropInv', dropped' \subseteq {"initiator", "responder", "connection"}
    PROVE  StreamInv'
<1>1. /\ CallInv' /\ request' = request /\ response' = response
      /\ received' = received \/ received = None
      /\ outcome' = outcome \/ (outcome = None /\ outcome' # None)
  BY CallKept
<1>2. StreamTypes /\ (\A h \in Half : Flows(h)) /\ CloseInv
  BY DEF StreamInv
<1>3. dst' = dst /\ wire' = wire /\ shut' = shut /\ codec' = codec
  BY DEF halfVars
<1>4. StreamTypes'
  BY <1>1, <1>2, <1>3 DEF StreamTypes
<1>5. ASSUME NEW h \in Half PROVE Flows(h)'
  BY <1>1, <1>2, <1>3, FlowKept
<1>6. CloseInv'
  BY <1>1, <1>2, <1>3 DEF CloseInv, Oversized
<1> QED BY <1>1, <1>4, <1>5, <1>6 DEF StreamInv

\* Sending a response keeps the invariant.
LEMMA StartSendInv ==
    ASSUME StreamInv, NEW coded \in Coded, NEW data \in Data, start_send(coded, data)
    PROVE  StreamInv'
<1> DEFINE resp == [kind |-> "Response", coded |-> coded, data |-> data]
<1>1. /\ received # None /\ received = request /\ ~expects_none(request) /\ response = None
      /\ response' = resp /\ dst' = [dst EXCEPT !["response"] = encode_response(coded, data).dst]
      /\ UNCHANGED <<request, received, outcome, wire, shut, codec, dropped, fault>>
  BY DEF start_send
<1>2. StreamTypes /\ (\A h \in Half : Flows(h)) /\ CallInv /\ CloseInv /\ DropInv
  BY DEF StreamInv
<1>3. resp \in Response /\ resp.coded = coded /\ resp.data = data
  BY DEF Response
<1> HIDE DEF resp
<1>4. resp # None
  BY <1>3, ResponseMessage
<1>5. ResponseSent(resp) = encode_response(coded, data).dst
  BY <1>3, <1>4 DEF ResponseSent
<1>6. ResponseSent(resp) \in Seq(Nat)
  BY <1>3, ResponseSentBytes
<1>7. dst' = [dst EXCEPT !["response"] = ResponseSent(resp)]
  BY <1>1, <1>5
<1>8. StreamTypes'
  BY <1>1, <1>2, <1>3, <1>6, <1>7 DEF StreamTypes
<1>9. dst'["response"] = ResponseSent(resp) /\ dst'["request"] = dst["request"]
  BY <1>2, <1>7 DEF StreamTypes, Half
<1>10. Flows("response")'
  <2>1. Sent("response") = <<>> /\ Sent("response")' = ResponseSent(resp)
    BY <1>1 DEF Sent, ResponseSent
  <2>2. Waits("response")' => Waits("response")
    BY <1>1 DEF Waits
  <2> QED BY <1>1, <1>2, <1>8, <1>9, <2>1, <2>2, FlowBegins DEF Half
<1>11. Flows("request")'
  BY <1>1, <1>2, <1>9, FlowKept DEF Half
<1>12. CallInv'
  BY <1>1, <1>2, <1>4 DEF CallInv, Excuse
<1>13. CloseInv'
  BY <1>1, <1>2, <1>4, <1>9 DEF CloseInv, Oversized
<1>14. DropInv'
  BY <1>1, <1>2 DEF DropInv, Oversized
<1> QED BY <1>8, <1>10, <1>11, <1>12, <1>13, <1>14 DEF StreamInv, Half

\* Flushing keeps it: bytes go from dst to the wire in order.
LEMMA PollFlushInv ==
    ASSUME StreamInv, NEW h \in Half, poll_flush(h)
    PROVE  StreamInv'
<1>1. /\ dst[h] # <<>>
      /\ UNCHANGED <<request, received, response, outcome, shut, codec, dropped, fault>>
  BY DEF poll_flush
<1>2. PICK n \in 1..Len(dst[h]) :
         /\ wire' = [wire EXCEPT ![h] = wire[h] \o SubSeq(dst[h], 1, n)]
         /\ dst'  = [dst EXCEPT ![h] = SubSeq(dst[h], n + 1, Len(dst[h]))]
  BY DEF poll_flush
<1>3. StreamTypes /\ (\A g \in Half : Flows(g)) /\ CallInv /\ CloseInv /\ DropInv
  BY DEF StreamInv
<1> DEFINE w == wire[h]
           d == dst[h]
           w1 == w \o SubSeq(d, 1, n)
           d1 == SubSeq(d, n + 1, Len(d))
<1>4. wire \in [Half -> Seq(Nat)] /\ dst \in [Half -> Seq(Nat)]
  BY <1>3 DEF StreamTypes
<1>5. w \in Seq(Nat) /\ d \in Seq(Nat)
  BY <1>4
<1>6. w1 \in Seq(Nat) /\ d1 \in Seq(Nat) /\ w1 \o d1 = w \o d
  BY <1>5, CutBuffer
<1>7. wire' = [wire EXCEPT ![h] = w1] /\ dst' = [dst EXCEPT ![h] = d1]
  BY <1>2
<1> HIDE DEF w1, d1
<1>8. wire' \in [Half -> Seq(Nat)] /\ dst' \in [Half -> Seq(Nat)]
  BY <1>4, <1>6, <1>7
<1>9. StreamTypes'
  BY <1>1, <1>3, <1>8 DEF StreamTypes
<1>10. wire'[h] = w1 /\ dst'[h] = d1
       /\ \A g \in Half \ {h} : wire'[g] = wire[g] /\ dst'[g] = dst[g]
  BY <1>4, <1>7
<1>11. ASSUME NEW g \in Half PROVE Flows(g)'
  <2>1. wire'[g] \o dst'[g] = wire[g] \o dst[g]
    <3>1. CASE g = h
      BY <1>6, <1>10, <3>1
    <3>2. CASE g # h
      BY <1>10, <3>2
    <3> QED BY <3>1, <3>2
  <2> QED BY <1>1, <1>3, <2>1, FlowKept
<1>12. CallInv' /\ DropInv'
  BY <1>1, <1>3 DEF CallInv, DropInv, Excuse, Oversized
<1>13. CloseInv'
  <2>1. ~ shut[h]
    BY <1>1, <1>3 DEF CloseInv, Half
  <2>2. \A g \in Half : shut[g] => dst'[g] = dst[g]
    BY <1>10, <2>1
  <2> QED BY <1>1, <1>3, <2>2 DEF CloseInv, Oversized, Half
<1> QED BY <1>9, <1>11, <1>12, <1>13 DEF StreamInv

\* Closing keeps it: dst is empty.
LEMMA PollCloseInv ==
    ASSUME StreamInv, NEW h \in Half, poll_close(h)
    PROVE  StreamInv'
<1>1. /\ (IF h = "request" THEN request ELSE response) # None /\ dst[h] = <<>>
      /\ dropped \cap {writer(h), "connection"} = {} /\ shut' = [shut EXCEPT ![h] = TRUE]
      /\ UNCHANGED <<request, received, response, dst, wire, codec, fault>>
  BY DEF poll_close
<1>2. StreamTypes /\ (\A g \in Half : Flows(g)) /\ CallInv /\ CloseInv /\ DropInv
  BY DEF StreamInv
<1>3. Call!Return \/ UNCHANGED Call!vars
  BY PollCloseCall
<1>4. /\ CallInv'
      /\ outcome' = outcome \/ (outcome = None /\ outcome' # None)
  BY <1>3, CallKept
<1>5. \/ dropped' = dropped /\ outcome' = outcome
      \/ dropped' = dropped \cup {"initiator"} /\ outcome' # None /\ received' = received
  <2>1. [kind |-> "NoResponse"] # None
    BY DEF None
  <2> QED BY <1>1, <2>1 DEF poll_close, Drop
<1>6. DropInv' /\ dropped' \subseteq {"initiator", "responder", "connection"}
  BY <1>3, <1>5, DropKept
<1>7. shut' \in [Half -> BOOLEAN]
  BY <1>1, <1>2 DEF StreamTypes
<1>8. StreamTypes'
  BY <1>1, <1>2, <1>6, <1>7 DEF StreamTypes
<1>9. ASSUME NEW g \in Half PROVE Flows(g)'
  BY <1>1, <1>2, <1>4, FlowKept
<1>10. CloseInv'
  <2>1. \A g \in Half : shut'[g] => shut[g] \/ g = h
    BY <1>1, <1>2 DEF StreamTypes
  <2>2. h = "request" => request # None /\ ~Oversized
    BY <1>1, <1>2 DEF DropInv, writer
  <2> QED BY <1>1, <1>2, <2>1, <2>2 DEF CloseInv, Oversized, Half
<1> QED BY <1>4, <1>6, <1>8, <1>9, <1>10 DEF StreamInv

\* Reading keeps it: the decoder is at its new place or has given up the message.
LEMMA PollNextInv ==
    ASSUME StreamInv, NEW h \in Half, poll_next(h)
    PROVE  StreamInv'
<1>1. UNCHANGED <<request, response, dst, shut, fault>>
  BY DEF poll_next
<1>2. StreamTypes /\ (\A g \in Half : Flows(g)) /\ CallInv /\ CloseInv /\ DropInv
  BY DEF StreamInv
<1>3. Call!Receive \/ Call!Return \/ UNCHANGED Call!vars
  BY PollNextCall
<1>4. CallInv'
  BY <1>3, CallKept
<1>5. /\ wire' \in [Half -> Seq(Nat)] /\ codec' \in [Half -> Decoder]
      /\ \A g \in Half : Flows(g)'
      /\ \/ dropped' = dropped /\ outcome' = outcome
         \/ dropped' = dropped \cup {"initiator"} /\ outcome' # None /\ received' = received
         \/ /\ dropped' = dropped \cup {"responder"} /\ outcome' = outcome
            /\ received' # None /\ (received' = request => expects_none(request))
  <2>1. CASE h = "request"
    <3>1. /\ Flows("request")'
          /\ wire' \in [Half -> Seq(Nat)] /\ codec' \in [Half -> Decoder]
          /\ wire'["response"] = wire["response"] /\ codec'["response"] = codec["response"]
          /\ outcome' = outcome /\ request # None /\ received = None
          /\ \/ UNCHANGED <<received, dropped>>
             \/ /\ received' = request /\ Carries(request)
                /\ expects_none(request) => dropped' = dropped \cup {"responder"}
                /\ ~expects_none(request) => dropped' = dropped
             \/ /\ received' = Err("IncompleteStream") /\ ~Carries(request)
                /\ dropped' = dropped \cup {"responder"}
      BY <2>1, ReadRequest
    <3>2. Flows("response")'
      BY <1>1, <1>2, <3>1, FlowKept DEF Half
    <3>3. Err("IncompleteStream") # None /\ Err("IncompleteStream") # request
      <4>1. request.kind = "Request"
        <5>1. request \in Request
          BY <1>2, <3>1 DEF StreamTypes
        <5> QED BY <5>1, RequestMessage
      <4> QED BY <4>1 DEF Err, None
    <3> QED BY <3>1, <3>2, <3>3 DEF Half
  <2>2. CASE h = "response"
    <3>1. /\ Flows("response")'
          /\ wire' \in [Half -> Seq(Nat)] /\ codec' \in [Half -> Decoder]
          /\ wire'["request"] = wire["request"] /\ codec'["request"] = codec["request"]
          /\ received' = received /\ response # None
          /\ \/ UNCHANGED <<outcome, dropped>>
             \/ outcome' = response /\ dropped' = dropped \cup {"initiator"}
             \/ outcome' = Err("InvalidData") /\ dropped' = dropped \cup {"initiator"}
      BY <2>2, ReadResponse
    <3>2. Flows("request")'
      BY <1>1, <1>2, <3>1, FlowKept DEF Half
    <3>3. Err("InvalidData") # None
      BY DEF Err, None
    <3> QED BY <3>1, <3>2, <3>3 DEF Half
  <2> QED BY <2>1, <2>2 DEF Half
<1>6. DropInv' /\ dropped' \subseteq {"initiator", "responder", "connection"}
  BY <1>3, <1>5, DropKept
<1>7. StreamTypes'
  BY <1>1, <1>2, <1>5, <1>6 DEF StreamTypes
<1>8. CloseInv'
  BY <1>1, <1>2 DEF CloseInv, Oversized
<1> QED BY <1>4, <1>5, <1>6, <1>7, <1>8 DEF StreamInv

\* Reading the end keeps it.
LEMMA PollNextEofInv ==
    ASSUME StreamInv, NEW h \in Half, poll_next_eof(h)
    PROVE  StreamInv'
<1>1. h = "response"
  BY NoEndOfRequest DEF Half
<1>2. /\ outcome' = Err("IoError") /\ dropped' = dropped \cup {"initiator"}
      /\ received' = received
  BY <1>1, EndOfResponse
<1>3. Call!Return
  BY PollNextEofCall
<1>4. outcome' # None
  BY <1>2 DEF Err, None
<1>5. DropInv' /\ dropped' \subseteq {"initiator", "responder", "connection"}
  BY <1>2, <1>3, <1>4, DropKept
<1>6. UNCHANGED halfVars /\ fault' \in BOOLEAN
  BY DEF poll_next_eof, StreamInv, StreamTypes
<1> QED BY <1>3, <1>5, <1>6, QuietInv

\* Taking a request without bytes keeps it.
LEMMA MetadataInv ==
    ASSUME StreamInv, upgrade_inbound_metadata
    PROVE  StreamInv'
<1>1. Call!Receive
  BY MetadataCall
<1>2. dropped' = dropped /\ outcome' = outcome /\ UNCHANGED halfVars /\ fault' \in BOOLEAN
  BY DEF upgrade_inbound_metadata, StreamInv, StreamTypes
<1>3. DropInv' /\ dropped' \subseteq {"initiator", "responder", "connection"}
  BY <1>1, <1>2, DropKept
<1> QED BY <1>1, <1>2, <1>3, QuietInv

\* A broken connection keeps it.
LEMMA BreakInv ==
    ASSUME StreamInv, break
    PROVE  StreamInv'
<1>1. Call!Disturb
  BY BreakCall
<1>2. /\ dropped' = dropped \cup {"connection"} /\ fault' = TRUE
      /\ UNCHANGED <<received, outcome>> /\ UNCHANGED halfVars
  BY DEF break, Drop
<1>3. DropInv' /\ dropped' \subseteq {"initiator", "responder", "connection"}
  BY <1>1, <1>2, DropKept
<1> QED BY <1>1, <1>2, <1>3, QuietInv

\* Of the two sides, one gives up.
LEMMA GivesUp ==
    ASSUME StreamInv, Call!Receive \/ Call!Return,
           \/ received'.kind = "Err" /\ Drop("responder") /\ UNCHANGED outcome /\ request # None
           \/ outcome'.kind = "Err" /\ Drop("initiator") /\ UNCHANGED received,
           UNCHANGED halfVars, fault' \in BOOLEAN
    PROVE  StreamInv'
<1>1. received'.kind = "Err" => received' # None
  BY DEF None
<1>2. outcome'.kind = "Err" => outcome' # None
  BY DEF None
<1>3. request # None => request.kind = "Request"
  <2>1. request # None => request \in Request
    BY DEF StreamInv, StreamTypes
  <2> QED BY <2>1, RequestMessage
<1>4. received'.kind = "Err" /\ request # None => received' # request
  BY <1>3
<1>5. DropInv' /\ dropped' \subseteq {"initiator", "responder", "connection"}
  BY <1>1, <1>2, <1>4, DropKept DEF Drop
<1> QED BY <1>5, QuietInv

\* Finding the stream gone keeps it.
LEMMA StreamGoneInv ==
    ASSUME StreamInv, stream_gone
    PROVE  StreamInv'
<1>1. \A e \in StreamError : e.kind = "Err"
  BY DEF StreamError, Err
<1>2. request # None /\ UNCHANGED halfVars /\ fault' \in BOOLEAN
  BY DEF stream_gone, StreamInv, StreamTypes
<1>3. ASSUME NEW e \in StreamError, take_request(e)
      PROVE  received'.kind = "Err" /\ Drop("responder") /\ UNCHANGED outcome
  <2>1. e.kind = "Err"
    BY <1>1
  <2>2. received' = Err("IncompleteStream") /\ Drop("responder") /\ UNCHANGED outcome
    BY <1>3, <2>1 DEF take_request
  <2> QED BY <2>2 DEF Err
<1>4. ASSUME NEW e \in StreamError, take_response(e)
      PROVE  outcome'.kind = "Err" /\ Drop("initiator") /\ UNCHANGED received
  <2>1. e.kind = "Err"
    BY <1>1
  <2> QED BY <1>4, <2>1 DEF take_response
<1>5. \/ \E e \in StreamError : take_request(e)
      \/ \E e \in StreamError : take_response(e)
  BY DEF stream_gone
<1>6. Call!Receive \/ Call!Return
  BY StreamGoneCall
<1> QED BY <1>2, <1>3, <1>4, <1>5, <1>6, GivesUp

\* A timer that fires keeps it.
LEMMA TimeoutInv ==
    ASSUME StreamInv, timeout
    PROVE  StreamInv'
<1>1. Call!Receive \/ Call!Return
  BY TimeoutCall
<1>2. request # None /\ UNCHANGED halfVars /\ fault' \in BOOLEAN
  BY DEF timeout
<1>3. \/ received' \in {Err("StreamTimeout"), Err("IncompleteStream")}
         /\ Drop("responder") /\ UNCHANGED outcome
      \/ outcome' = Err("StreamTimeout") /\ Drop("initiator") /\ UNCHANGED received
  BY DEF timeout
<1>4. Err("StreamTimeout").kind = "Err" /\ Err("IncompleteStream").kind = "Err"
  BY DEF Err
<1> QED BY <1>1, <1>2, <1>3, <1>4, GivesUp

\* Every step keeps the invariant.
LEMMA StreamNextInv == StreamInv /\ [Next]_vars => StreamInv'
<1> SUFFICES ASSUME StreamInv, [Next]_vars PROVE StreamInv'
  OBVIOUS
<1>1. ASSUME NEW req \in Request, upgrade_outbound(req) PROVE StreamInv'
  BY <1>1, UpgradeOutboundInv
<1>2. ASSUME NEW coded \in Coded, NEW data \in Data, start_send(coded, data) PROVE StreamInv'
  BY <1>2, StartSendInv
<1>3. ASSUME NEW h \in Half, poll_flush(h) PROVE StreamInv'
  BY <1>3, PollFlushInv
<1>4. ASSUME NEW h \in Half, poll_close(h) PROVE StreamInv'
  BY <1>4, PollCloseInv
<1>5. ASSUME NEW h \in Half, poll_next(h) PROVE StreamInv'
  BY <1>5, PollNextInv
<1>6. ASSUME NEW h \in Half, poll_next_eof(h) PROVE StreamInv'
  BY <1>6, PollNextEofInv
<1>7. CASE upgrade_inbound_metadata
  BY <1>7, MetadataInv
<1>8. CASE break
  BY <1>8, BreakInv
<1>9. CASE stream_gone
  BY <1>9, StreamGoneInv
<1>10. CASE timeout
  BY <1>10, TimeoutInv
<1>11. CASE UNCHANGED vars
  <2>1. UNCHANGED Call!vars /\ UNCHANGED halfVars /\ UNCHANGED dropped
    BY <1>11 DEF vars, Call!vars, halfVars
  <2>2. fault' \in BOOLEAN /\ outcome' = outcome
    BY <2>1 DEF StreamInv, StreamTypes, Call!vars
  <2>3. DropInv' /\ dropped' \subseteq {"initiator", "responder", "connection"}
    BY <2>1, <2>2, DropKept
  <2> QED BY <2>1, <2>2, <2>3, QuietInv
<1> QED BY <1>1, <1>2, <1>3, <1>4, <1>5, <1>6, <1>7, <1>8, <1>9, <1>10, <1>11 DEF Next

\* In every reachable state the bytes that are read, on the wire and in dst are
\* the encoded message, cut in three.
THEOREM StreamInvariant == Spec => []StreamInv
<1>1. Init => StreamInv
  BY StreamInitInv
<1>2. StreamInv /\ [Next]_vars => StreamInv'
  BY StreamNextInv
<1> QED BY <1>1, <1>2, PTL DEF Spec

\* For messages of any length, blocks and digits of any size, and bytes that
\* arrive in any pieces: the encoder's buffer, the wire and the decoder's buffer
\* (Framed in protocol.rs) together never hold more than the largest message,
\* and a length that a decoder goes by is within max_packet_size.
THEOREM StreamTypeCorrect == Spec => []StreamTypeOK
<1>1. StreamInv => StreamTypeOK
  BY StreamInvType
<1> QED BY <1>1, StreamInvariant, PTL

\* Every step is one of the call or leaves it as it was.
LEMMA CallStep == StreamInv /\ [Next]_vars => [Call!Next]_(Call!vars)
<1> SUFFICES ASSUME StreamInv, [Next]_vars PROVE Call!Next \/ UNCHANGED Call!vars
  OBVIOUS
<1> USE DEF Call!Next
<1>1. ASSUME NEW req \in Request, upgrade_outbound(req) PROVE Call!Next
  BY <1>1, UpgradeOutboundCall
<1>2. ASSUME NEW coded \in Coded, NEW data \in Data, start_send(coded, data) PROVE Call!Next
  BY <1>2, StartSendCall
<1>3. ASSUME NEW h \in Half, poll_flush(h) PROVE UNCHANGED Call!vars
  BY <1>3, PollFlushCall
<1>4. ASSUME NEW h \in Half, poll_close(h) PROVE Call!Next \/ UNCHANGED Call!vars
  BY <1>4, PollCloseCall
<1>5. ASSUME NEW h \in Half, poll_next(h) PROVE Call!Next \/ UNCHANGED Call!vars
  BY <1>5, PollNextCall
<1>6. ASSUME NEW h \in Half, poll_next_eof(h) PROVE Call!Next
  BY <1>6, PollNextEofCall
<1>7. CASE upgrade_inbound_metadata
  BY <1>7, MetadataCall
<1>8. CASE break
  BY <1>8, BreakCall
<1>9. CASE stream_gone
  BY <1>9, StreamGoneCall
<1>10. CASE timeout
  BY <1>10, TimeoutCall
<1>11. CASE UNCHANGED vars
  BY <1>11 DEF vars, Call!vars
<1> QED BY <1>1, <1>2, <1>3, <1>4, <1>5, <1>6, <1>7, <1>8, <1>9, <1>10, <1>11 DEF Next

\* The streams implement the call: for messages of any length and bytes that
\* arrive in any pieces, upgrade_inbound returns the request that was encoded,
\* the handler reports the response that was encoded, and an error is reported
\* only after a fault or for a message that the codecs refuse.
THEOREM StreamImplementsCall == Spec => ImplementsCall
<1>1. Init => Call!Init
  BY DEF Init, Call!Init
<1>2. StreamInv /\ [Next]_vars => [Call!Next]_(Call!vars)
  BY CallStep
<1> QED BY <1>1, <1>2, StreamInvariant, PTL DEF Spec, ImplementsCall, Call!Spec

=============================================================================
