--------------------------- MODULE MeshConfigProofs ---------------------------
(***************************************************************************)
(* Proofs about MeshConfig: the lines uapiConfig writes, read by the device*)
(* one after the other, mean what the config means, for any peers.  Three  *)
(* parts: how FlattenSeq lays out the blocks of lines; what the lines of a *)
(* config say, and from which entry each line comes; and what the device   *)
(* makes of lines with such an origin.                                     *)
(***************************************************************************)
EXTENDS MeshConfig, FiniteSetTheorems, SequenceTheorems, TLAPS

(* Induction, from the well-foundedness of strict inclusion of finite sets.*)

\* Every nonempty set of naturals has a least element.
LEMMA LeastNatural ==
    ASSUME NEW T \in SUBSET Nat, T # {}
    PROVE  \E m \in T : \A k \in T : m <= k
<1> DEFINE F == {0 .. m : m \in T}
<1>1. F \subseteq FiniteSubsetsOf(Nat) /\ F # {}
  <2>1. \A m \in T : 0 .. m \in SUBSET Nat /\ IsFiniteSet(0 .. m)
    BY FS_Interval
  <2> QED
    BY <2>1 DEF FiniteSubsetsOf
<1>2. PICK x \in F : \A y \in F : ~ (<<y, x>> \in StrictSubsetOrdering(Nat))
  BY <1>1, FS_StrictSubsetOrderingWellFounded, WFMin
<1>3. PICK m \in T : x = 0 .. m
  OBVIOUS
<1>4. ASSUME NEW k \in T, ~(m <= k) PROVE FALSE
  <2>1. 0 .. k \subseteq 0 .. m /\ 0 .. k # 0 .. m
    <3>1. k < m /\ k \in Nat /\ m \in Nat
      BY <1>4
    <3>2. m \in 0 .. m /\ m \notin 0 .. k
      BY <3>1
    <3> QED
      BY <3>1, <3>2
  <2>2. 0 .. k \in F /\ 0 .. k \in SUBSET Nat /\ 0 .. m \in SUBSET Nat
    OBVIOUS
  <2>3. <<0 .. k, 0 .. m>> \in StrictSubsetOrdering(Nat)
    BY <2>1, <2>2 DEF StrictSubsetOrdering
  <2> QED
    BY <1>2, <1>3, <2>2, <2>3
<1> QED
  BY <1>4

\* A set that holds 0 and the successor of each natural in it holds them all.
LEMMA SetInduction ==
    ASSUME NEW T, 0 \in T, \A n \in Nat : n \in T => n + 1 \in T
    PROVE  Nat \subseteq T
<1> SUFFICES ASSUME Nat \ T # {} PROVE FALSE
  OBVIOUS
<1>1. PICK m \in Nat \ T : \A k \in Nat \ T : m <= k
  BY LeastNatural
<1>2. m - 1 \in Nat /\ m - 1 \notin Nat \ T
  BY <1>1
<1> QED
  BY <1>1, <1>2

\* Max is the greatest element, where there is one.
LEMMA MaxOf ==
    ASSUME NEW S \in SUBSET Nat, S # {}, NEW n \in Nat, \A x \in S : x <= n
    PROVE  Max(S) \in S /\ \A x \in S : x <= Max(S)
<1> DEFINE B == {m \in Nat : \A x \in S : x <= m}
<1>1. PICK m \in B : \A k \in B : m <= k
  BY LeastNatural
<1>2. m \in S
  <2> SUFFICES ASSUME m \notin S PROVE FALSE
    OBVIOUS
  <2>1. \A x \in S : x <= m - 1
    BY <1>1
  <2>2. m - 1 \in Nat
    <3> PICK x \in S : TRUE
      OBVIOUS
    <3> QED
      BY <2>1
  <2>3. m - 1 \in B
    BY <2>1, <2>2
  <2> QED
    BY <1>1, <2>3
<1>3. \E x \in S : \A y \in S : x >= y
  BY <1>1, <1>2
<1> QED
  BY <1>3 DEF Max

-----------------------------------------------------------------------------
(* FlattenSeq.                                                             *)

\* The folding behind FlattenSeq appends one sequence after the other.
LEMMA FlattenStep ==
    ASSUME NEW S, NEW ss \in Seq(Seq(S)), ss # <<>>
    PROVE  \E g \in [1 .. Len(ss) -> Seq(S)] :
             /\ FlattenSeq(ss) = g[Len(ss)]
             /\ \A i \in 1 .. Len(ss) :
                  g[i] = IF i = 1 THEN ss[i] ELSE g[i - 1] \o ss[i]
<1> DEFINE n == Len(ss)
           Body(g, i) == IF i = 1 THEN ss[i] ELSE g[i - 1] \o ss[i]
           f == CHOOSE g : g = [i \in 1 .. n |-> Body(g, i)]
<1>1. n \in Nat /\ n >= 1 /\ \A i \in 1 .. n : ss[i] \in Seq(S)
  BY EmptySeq, LenProperties, ElementOfSeq
<1> DEFINE P(k) == \E g \in [1 .. k -> Seq(S)] : \A i \in 1 .. k : g[i] = Body(g, i)
           T == {k \in Nat : k <= n => P(k)}
<1>2. P(0)
  <2>1. [i \in 1 .. 0 |-> <<>>] \in [1 .. 0 -> Seq(S)]
    OBVIOUS
  <2>2. \A i \in 1 .. 0 : FALSE
    OBVIOUS
  <2> QED
    BY <2>1, <2>2
<1>3. ASSUME NEW k \in Nat, P(k), k + 1 <= n PROVE P(k + 1)
  <2>1. PICK g \in [1 .. k -> Seq(S)] : \A i \in 1 .. k : g[i] = Body(g, i)
    BY <1>3
  <2> DEFINE h == [i \in 1 .. k + 1 |-> IF i <= k THEN g[i] ELSE Body(g, i)]
  <2>2. Body(g, k + 1) \in Seq(S)
    <3>1. CASE k = 0
      BY <1>1, <1>3, <3>1
    <3>2. CASE k # 0
      <4>1. g[k] \in Seq(S) /\ ss[k + 1] \in Seq(S) /\ (k + 1) - 1 = k
        BY <1>1, <1>3, <3>2
      <4>2. g[k] \o ss[k + 1] \in Seq(S)
        BY <4>1, ConcatProperties
      <4> QED
        BY <4>1, <4>2, <3>2
    <3> QED
      BY <3>1, <3>2
  <2>3. \A i \in 1 .. k + 1 : i \in 1 .. k \/ i = k + 1
    OBVIOUS
  <2> HIDE DEF Body
  <2>4. h \in [1 .. k + 1 -> Seq(S)]
    BY <2>1, <2>2, <2>3
  <2>5. \A i \in 1 .. k + 1 : h[i] = Body(g, i)
    BY <2>1, <2>3
  <2>6. \A i \in 1 .. k + 1 : i # 1 => h[i - 1] = g[i - 1]
    OBVIOUS
  <2>7. \A i \in 1 .. k + 1 : h[i] = Body(h, i)
    BY <2>5, <2>6 DEF Body
  <2> HIDE DEF h
  <2> QED
    BY <2>4, <2>7
<1>4. PICK g \in [1 .. n -> Seq(S)] : \A i \in 1 .. n : g[i] = Body(g, i)
  <2> HIDE DEF P
  <2>1. 0 \in T /\ \A k \in Nat : k \in T => k + 1 \in T
    BY <1>2, <1>3
  <2> HIDE DEF T
  <2>2. n \in T
    BY <1>1, <2>1, SetInduction
  <2>3. P(n)
    BY <1>1, <2>2 DEF T
  <2> QED
    BY <2>3 DEF P
<1>5. g = [i \in 1 .. n |-> Body(g, i)]
  BY <1>4
<1>6. f = [i \in 1 .. n |-> Body(f, i)]
  BY <1>5
<1>7. FlattenSeq(ss) = f[n]
  BY <1>1 DEF FlattenSeq
<1>8. \A i \in 1 .. n : f[i] = g[i]
  <2> DEFINE D == {i \in 1 .. n : f[i] # g[i]}
  <2> SUFFICES ASSUME D # {} PROVE FALSE
    OBVIOUS
  <2> HIDE DEF f
  <2>1. D \in SUBSET Nat
    BY <1>1
  <2>2. PICK m \in D : \A k \in D : m <= k
    BY <2>1, LeastNatural
  <2>3. m # 1 => m - 1 \in 1 .. n /\ f[m - 1] = g[m - 1]
    BY <1>1, <2>2
  <2>4. m \in 1 .. n /\ f[m] = Body(f, m) /\ g[m] = Body(g, m) /\ f[m] # g[m]
    BY <1>4, <1>6, <2>2
  <2> QED
    BY <2>3, <2>4
<1> HIDE DEF f
<1>9. FlattenSeq(ss) = g[n]
  BY <1>1, <1>7, <1>8
<1> HIDE DEF f, T, P
<1> QED
  BY <1>4, <1>9

\* Position p of flat is position off[p] of the own[p]-th sequence of ss, all of
\* them in order and each once.
Coordinates(flat, ss, own, off) ==
    /\ own \in [1 .. Len(flat) -> 1 .. Len(ss)]
    /\ off \in [1 .. Len(flat) -> Nat]
    /\ \A p \in 1 .. Len(flat) :
         off[p] \in 1 .. Len(ss[own[p]]) /\ flat[p] = ss[own[p]][off[p]]
    /\ \A p, q \in 1 .. Len(flat) :
         p < q => own[p] < own[q] \/ (own[p] = own[q] /\ off[p] < off[q])
    /\ \A i \in 1 .. Len(ss) : \A j \in 1 .. Len(ss[i]) :
         \E p \in 1 .. Len(flat) : own[p] = i /\ off[p] = j

\* One more sequence at the end keeps every position's coordinates.
LEMMA CoordinatesConcat ==
    ASSUME NEW S, NEW ss \in Seq(Seq(S)), NEW k \in Nat, k + 1 <= Len(ss),
           NEW flat \in Seq(S), NEW own, NEW off,
           Coordinates(flat, SubSeq(ss, 1, k), own, off)
    PROVE  \E o, f : Coordinates(flat \o ss[k + 1], SubSeq(ss, 1, k + 1), o, f)
<1> DEFINE s == SubSeq(ss, 1, k)
           t == SubSeq(ss, 1, k + 1)
           b == ss[k + 1]
           n == Len(flat)
           all == flat \o b
           o == [p \in 1 .. n + Len(b) |-> IF p <= n THEN own[p] ELSE k + 1]
           f == [p \in 1 .. n + Len(b) |-> IF p <= n THEN off[p] ELSE p - n]
<1>1. /\ Len(ss) \in Nat /\ \A i \in 1 .. Len(ss) : ss[i] \in Seq(S)
      /\ b \in Seq(S)
  BY LenProperties, ElementOfSeq
<1>2. /\ s \in Seq(Seq(S)) /\ Len(s) = k /\ \A i \in 1 .. k : s[i] = ss[i]
      /\ t \in Seq(Seq(S)) /\ Len(t) = k + 1
      /\ \A i \in 1 .. k + 1 : t[i] = ss[i]
  <2>1. \A i \in 1 .. k + 1 : ss[i] \in Seq(S)
    BY <1>1
  <2>2. /\ s \in Seq(Seq(S)) /\ Len(s) = k
        /\ \A i \in 1 .. k : s[i] = ss[1 + i - 1]
    BY <2>1, SubSeqProperties
  <2>3. /\ t \in Seq(Seq(S)) /\ Len(t) = k + 1
        /\ \A i \in 1 .. k + 1 : t[i] = ss[1 + i - 1]
    BY <2>1, SubSeqProperties
  <2> HIDE DEF s, t
  <2> QED
    BY <2>2, <2>3
<1>3. /\ n \in Nat /\ Len(b) \in Nat /\ Len(all) = n + Len(b)
      /\ \A p \in 1 .. n + Len(b) : all[p] = IF p <= n THEN flat[p] ELSE b[p - n]
  BY <1>1, LenProperties, ConcatProperties
<1> HIDE DEF s, t, b, n, all
<1>4. Coordinates(flat, s, own, off) /\ Len(flat) = n
  BY DEF s, n
<1>5. /\ own \in [1 .. n -> 1 .. k]
      /\ off \in [1 .. n -> Nat]
  BY ONLY <1>2, <1>4 DEF Coordinates
<1>6. \A p \in 1 .. n : /\ off[p] \in 1 .. Len(ss[own[p]])
                         /\ flat[p] = ss[own[p]][off[p]]
                         /\ own[p] \in 1 .. k
  <2>1. \A p \in 1 .. n : off[p] \in 1 .. Len(s[own[p]]) /\ flat[p] = s[own[p]][off[p]]
    BY ONLY <1>4 DEF Coordinates
  <2> QED
    BY <1>2, <1>5, <2>1
<1>7. \A p, q \in 1 .. n :
        p < q => own[p] < own[q] \/ (own[p] = own[q] /\ off[p] < off[q])
  BY ONLY <1>4 DEF Coordinates
<1>8. \A i \in 1 .. k : \A j \in 1 .. Len(ss[i]) :
        \E p \in 1 .. n : own[p] = i /\ off[p] = j
  <2>1. \A i \in 1 .. k : \A j \in 1 .. Len(s[i]) :
          \E p \in 1 .. n : own[p] = i /\ off[p] = j
    <3>1. Len(s) = k
      BY <1>2
    <3> QED
      BY ONLY <1>4, <3>1 DEF Coordinates
  <2> QED
    BY <1>2, <2>1
<1>9. \A p \in 1 .. Len(all) :
        \/ p \in 1 .. n /\ o[p] = own[p] /\ f[p] = off[p] /\ all[p] = flat[p]
        \/ /\ p > n /\ p - n \in 1 .. Len(b)
           /\ o[p] = k + 1 /\ f[p] = p - n /\ all[p] = b[p - n]
  BY <1>3
<1>10. DOMAIN o = 1 .. Len(all) /\ DOMAIN f = 1 .. Len(all)
  BY <1>3
<1>11. o = [p \in 1 .. Len(all) |-> o[p]] /\ f = [p \in 1 .. Len(all) |-> f[p]]
  BY <1>3
<1> HIDE DEF o, f
<1>12. o \in [1 .. Len(all) -> 1 .. Len(t)] /\ f \in [1 .. Len(all) -> Nat]
  <2>1. \A p \in 1 .. Len(all) : o[p] \in 1 .. k + 1 /\ f[p] \in Nat
    <3> TAKE p \in 1 .. Len(all)
    <3>1. CASE p \in 1 .. n /\ o[p] = own[p] /\ f[p] = off[p]
      <4>1. own[p] \in 1 .. k /\ off[p] \in Nat
        BY <1>5, <3>1
      <4> QED
        BY <3>1, <4>1
    <3>2. CASE p - n \in 1 .. Len(b) /\ o[p] = k + 1 /\ f[p] = p - n
      BY <1>3, <3>2
    <3> QED
      BY <1>9, <3>1, <3>2
  <2> QED
    BY <1>2, <1>11, <2>1
<1>13. ASSUME NEW p \in 1 .. Len(all)
       PROVE  f[p] \in 1 .. Len(t[o[p]]) /\ all[p] = t[o[p]][f[p]]
  <2>1. CASE p \in 1 .. n /\ o[p] = own[p] /\ f[p] = off[p] /\ all[p] = flat[p]
    <3>1. t[own[p]] = ss[own[p]]
      <4>1. own[p] \in 1 .. k + 1
        BY <1>5, <2>1
      <4> QED
        BY <1>2, <4>1
    <3>2. off[p] \in 1 .. Len(ss[own[p]]) /\ flat[p] = ss[own[p]][off[p]]
      BY <1>6, <2>1
    <3> QED
      BY <2>1, <3>1, <3>2
  <2>2. CASE /\ p > n /\ p - n \in 1 .. Len(b)
             /\ o[p] = k + 1 /\ f[p] = p - n /\ all[p] = b[p - n]
    BY <1>2, <2>2 DEF b
  <2> QED
    BY <1>9, <2>1, <2>2
<1>14. ASSUME NEW p \in 1 .. Len(all), NEW q \in 1 .. Len(all), p < q
       PROVE  o[p] < o[q] \/ (o[p] = o[q] /\ f[p] < f[q])
  <2>1. CASE p \in 1 .. n /\ q \in 1 .. n
    BY <1>3, <1>7, <1>9, <1>14, <2>1
  <2>2. CASE p \in 1 .. n /\ q > n
    <3>1. own[p] \in 1 .. k /\ o[p] = own[p]
      <4>1. own[p] \in 1 .. k
        BY <1>5, <2>2
      <4>2. ~(p > n)
        BY <1>3, <2>2
      <4> QED
        BY <1>9, <4>1, <4>2
    <3>2. o[q] = k + 1
      <4>1. ~(q \in 1 .. n)
        BY <1>3, <2>2
      <4> QED
        BY <1>9, <4>1
    <3> QED
      BY <3>1, <3>2
  <2>3. CASE p > n /\ q > n
    <3>1. /\ o[p] = k + 1 /\ f[p] = p - n
          /\ o[q] = k + 1 /\ f[q] = q - n
      <4>1. ~(p \in 1 .. n) /\ ~(q \in 1 .. n)
        BY <1>3, <2>3
      <4> QED
        BY <1>9, <4>1
    <3>2. p - n < q - n
      BY <1>3, <1>14, <2>3
    <3> QED
      BY <3>1, <3>2
  <2>4. n \in Nat /\ \A x \in 1 .. Len(all) : x \in 1 .. n \/ x > n
    BY <1>3
  <2>5. p > n => q > n
    BY <1>3, <1>14
  <2> QED
    BY <2>1, <2>2, <2>3, <2>4, <2>5
<1>15. ASSUME NEW i \in 1 .. Len(t), NEW j \in 1 .. Len(t[i])
       PROVE  \E p \in 1 .. Len(all) : o[p] = i /\ f[p] = j
  <2>1. CASE i <= k
    <3>1. i \in 1 .. k /\ j \in 1 .. Len(ss[i])
      <4>1. Len(t) = k + 1 /\ \A h \in 1 .. k + 1 : t[h] = ss[h]
        BY <1>2
      <4>2. i \in 1 .. k /\ i \in 1 .. k + 1
        BY <2>1, <4>1
      <4> QED
        BY <4>1, <4>2
    <3>2. PICK p \in 1 .. n : own[p] = i /\ off[p] = j
      BY <1>8, <3>1
    <3>3. p \in 1 .. Len(all) /\ ~(p > n)
      BY <1>3
    <3>4. o[p] = own[p] /\ f[p] = off[p]
      BY <1>9, <3>3
    <3> QED
      BY <3>2, <3>3, <3>4
  <2>2. CASE i = k + 1
    <3>1. j \in 1 .. Len(b)
      BY <1>2, <2>2 DEF b
    <3>2. n + j \in 1 .. Len(all) /\ ~(n + j \in 1 .. n) /\ (n + j) - n = j
      BY <1>3, <3>1
    <3> QED
      BY <1>9, <2>2, <3>2
  <2>3. i \in 1 .. k + 1
    BY <1>2
  <2> QED
    BY <2>1, <2>2, <2>3
<1>16. Coordinates(all, t, o, f)
  BY ONLY <1>12, <1>13, <1>14, <1>15 DEF Coordinates
<1> QED
  BY <1>16 DEF all, t, b

\* No sequence, no position.
LEMMA EmptyCoordinates ==
    ASSUME NEW S, NEW ss \in Seq(Seq(S))
    PROVE  \E own, off : Coordinates(<<>>, SubSeq(ss, 1, 0), own, off)
<1> DEFINE e == [p \in 1 .. 0 |-> 0]
<1>1. Len(<<>>) = 0 /\ SubSeq(ss, 1, 0) = <<>>
  BY EmptySeq, SubSeqEmpty
<1>2. e \in [1 .. 0 -> 1 .. 0] /\ e \in [1 .. 0 -> Nat] /\ \A p \in 1 .. 0 : FALSE
  OBVIOUS
<1> HIDE DEF e
<1>3. Coordinates(<<>>, <<>>, e, e)
  BY <1>1, <1>2 DEF Coordinates
<1> QED
  BY <1>1, <1>3

\* Whatever is flattened, each position has its coordinates.
LEMMA FlattenCoordinates ==
    ASSUME NEW S, NEW ss \in Seq(Seq(S))
    PROVE  /\ FlattenSeq(ss) \in Seq(S)
           /\ \E own, off : Coordinates(FlattenSeq(ss), ss, own, off)
<1>1. CASE ss = <<>>
  <2>1. FlattenSeq(ss) = <<>> /\ SubSeq(ss, 1, 0) = ss /\ <<>> \in Seq(S)
    BY <1>1, EmptySeq, SubSeqEmpty DEF FlattenSeq
  <2> QED
    BY <2>1, EmptyCoordinates
<1>2. CASE ss # <<>>
  <2> DEFINE n == Len(ss)
  <2>1. n \in Nat /\ n >= 1 /\ \A i \in 1 .. n : ss[i] \in Seq(S)
    BY <1>2, EmptySeq, LenProperties, ElementOfSeq
  <2>2. PICK g \in [1 .. n -> Seq(S)] :
          /\ FlattenSeq(ss) = g[n]
          /\ \A i \in 1 .. n : g[i] = IF i = 1 THEN ss[i] ELSE g[i - 1] \o ss[i]
    BY <1>2, FlattenStep
  <2> DEFINE P(k) == \E own, off : Coordinates(g[k], SubSeq(ss, 1, k), own, off)
             T == {k \in Nat : k + 1 <= n => P(k + 1)}
  <2>3. P(1)
    <3> HIDE DEF P, T, n
    <3>1. ss[1] \in Seq(S) /\ g[1] = ss[1]
      <4>1. 1 \in 1 .. n
        BY <2>1
      <4> QED
        BY <2>1, <2>2, <4>1
    <3>2. <<>> \in Seq(S) /\ <<>> \o ss[1] = ss[1]
      BY <3>1, EmptySeq, ConcatEmptySeq
    <3>3. PICK own, off : Coordinates(<<>>, SubSeq(ss, 1, 0), own, off)
      BY EmptyCoordinates
    <3>4. 0 \in Nat /\ 0 + 1 <= Len(ss) /\ 0 + 1 = 1
      BY <2>1 DEF n
    <3>5. \E o, f : Coordinates(<<>> \o ss[0 + 1], SubSeq(ss, 1, 0 + 1), o, f)
      BY <3>2, <3>3, <3>4, CoordinatesConcat
    <3> QED
      BY <3>1, <3>2, <3>4, <3>5 DEF P
  <2>4. ASSUME NEW k \in Nat, k + 2 <= n, P(k + 1) PROVE P(k + 2)
    <3>1. k + 1 \in Nat /\ (k + 1) + 1 = k + 2 /\ k + 1 \in 1 .. n /\ k + 2 \in 1 .. n
      BY <2>1, <2>4
    <3>2. g[k + 1] \in Seq(S) /\ g[k + 2] = g[k + 1] \o ss[k + 2]
      <4>1. k + 2 # 1 /\ (k + 2) - 1 = k + 1
        OBVIOUS
      <4> QED
        BY <2>2, <3>1, <4>1
    <3>3. \E o, f : Coordinates(g[k + 1] \o ss[(k + 1) + 1],
                                SubSeq(ss, 1, (k + 1) + 1), o, f)
      BY <2>4, <3>1, <3>2, CoordinatesConcat
    <3> QED
      BY <3>1, <3>2, <3>3
  <2> HIDE DEF P
  <2>5. 0 \in T /\ \A k \in Nat : k \in T => k + 1 \in T
    <3>1. \A k \in Nat : (k + 1) + 1 = k + 2
      OBVIOUS
    <3> QED
      BY <2>1, <2>3, <2>4, <3>1
  <2>6. P(n)
    <3> HIDE DEF T
    <3>1. Nat \subseteq T
      BY <2>5, SetInduction
    <3>2. n - 1 \in Nat /\ (n - 1) + 1 = n
      BY <2>1
    <3>3. n - 1 \in T
      BY <3>1, <3>2
    <3>4. P((n - 1) + 1)
      BY <2>1, <3>2, <3>3 DEF T
    <3> QED
      BY <3>2, <3>4
  <2>7. SubSeq(ss, 1, n) = ss
    BY SubSeqFull
  <2>8. g[n] \in Seq(S)
    <3>1. n \in 1 .. n
      BY <2>1
    <3> HIDE DEF n
    <3> QED
      BY <2>2, <3>1
  <2> QED
    BY <2>2, <2>6, <2>7, <2>8 DEF P
<1> QED
  BY <1>1, <1>2

-----------------------------------------------------------------------------

(* What lines say.                                                         *)

Fields == {"private_key", "public_key", "preshared_key", "endpoint",
           "persistent_keepalive_interval", "allowed_ip"}

Line == [set : Fields, to : Text \cup Int]

\* A line of L sets f to v.
Sets(L, f, v) == \E j \in 1 .. Len(L) : L[j].set = f /\ L[j].to = v

\* The first line of L opens a peer, no other does.
Opens(L) ==
    /\ Len(L) >= 1 /\ L[1].set = "public_key"
    /\ \A j \in 2 .. Len(L) : L[j].set # "public_key"

\* An entry p sets f to v.
Says(p, f, v) ==
    \/ f = "public_key" /\ v = p.pub
    \/ f = "preshared_key" /\ v = p.psk /\ p.psk # Unset
    \/ f = "endpoint" /\ v = p.endpoint /\ p.endpoint # Unset
    \/ f = "persistent_keepalive_interval" /\ v = p.keepalive /\ p.keepalive > 0
    \/ f = "allowed_ip" /\ \E i \in 1 .. Len(p.allowed) : v = p.allowed[i]

\* A sequence of one line.
ALine(g, w) == <<[set |-> g, to |-> w]>>

\* It says one thing.
LEMMA OneLine ==
    ASSUME NEW g \in Fields, NEW w \in Text \cup Int
    PROVE  /\ ALine(g, w) \in Seq(Line)
           /\ \A f, v : Sets(ALine(g, w), f, v) <=> f = g /\ v = w
           /\ g = "public_key" => Opens(ALine(g, w))
<1> DEFINE l == [set |-> g, to |-> w]
<1>1. l \in Line /\ l.set = g /\ l.to = w
  BY DEF Line
<1> HIDE DEF l
<1>2. <<l>> \in Seq(Line) /\ Len(<<l>>) = 1 /\ <<l>>[1] = l
  BY <1>1
<1>3. (\A j \in 1 .. 1 : j = 1) /\ (\A j \in 2 .. 1 : FALSE)
  OBVIOUS
<1>4. \A f, v : Sets(<<l>>, f, v) <=> f = g /\ v = w
  BY <1>1, <1>2, <1>3 DEF Sets
<1>5. g = "public_key" => Opens(<<l>>)
  BY <1>1, <1>2, <1>3 DEF Opens
<1>6. <<l>> = ALine(g, w)
  BY DEF l, ALine
<1> QED
  BY <1>2, <1>4, <1>5, <1>6

\* No line says nothing.
LEMMA NoLine == <<>> \in Seq(Line) /\ \A f, v : ~Sets(<<>>, f, v)
<1>1. <<>> \in Seq(Line) /\ Len(<<>>) = 0
  BY EmptySeq
<1>2. \A j \in 1 .. 0 : FALSE
  OBVIOUS
<1> QED
  BY <1>1, <1>2 DEF Sets

\* Together two sequences say what either says, and the first one opens.
LEMMA ConcatLines ==
    ASSUME NEW s \in Seq(Line), NEW t \in Seq(Line)
    PROVE  /\ s \o t \in Seq(Line)
           /\ \A f, v : Sets(s \o t, f, v) <=> Sets(s, f, v) \/ Sets(t, f, v)
           /\ Opens(s) /\ (\A v : ~Sets(t, "public_key", v)) => Opens(s \o t)
<1> DEFINE m == Len(s)
           n == Len(t)
           u == s \o t
<1>1. /\ m \in Nat /\ n \in Nat /\ u \in Seq(Line) /\ Len(u) = m + n
      /\ \A i \in 1 .. m + n : u[i] = IF i <= m THEN s[i] ELSE t[i - m]
  BY LenProperties, ConcatProperties
<1> HIDE DEF u, m, n
<1>2. ASSUME NEW j \in 1 .. m PROVE j \in 1 .. m + n /\ u[j] = s[j]
  BY <1>1
<1>3. ASSUME NEW j \in 1 .. n PROVE m + j \in 1 .. m + n /\ u[m + j] = t[j]
  BY <1>1
<1>4. ASSUME NEW j \in 1 .. m + n
      PROVE  (j \in 1 .. m /\ u[j] = s[j]) \/ (j - m \in 1 .. n /\ u[j] = t[j - m])
  BY <1>1
<1>5. ASSUME NEW f, NEW v
      PROVE  Sets(u, f, v) <=> Sets(s, f, v) \/ Sets(t, f, v)
  <2>1. Sets(u, f, v) <=> \E j \in 1 .. m + n : u[j].set = f /\ u[j].to = v
    BY <1>1 DEF Sets
  <2>2. Sets(s, f, v) <=> \E j \in 1 .. m : s[j].set = f /\ s[j].to = v
    BY DEF Sets, m
  <2>3. Sets(t, f, v) <=> \E j \in 1 .. n : t[j].set = f /\ t[j].to = v
    BY DEF Sets, n
  <2>4. Sets(u, f, v) => Sets(s, f, v) \/ Sets(t, f, v)
    BY <1>4, <2>1, <2>2, <2>3
  <2>5. Sets(s, f, v) => Sets(u, f, v)
    BY <1>2, <2>1, <2>2
  <2>6. Sets(t, f, v) => Sets(u, f, v)
    BY <1>3, <2>1, <2>3
  <2> QED
    BY <2>4, <2>5, <2>6
<1>6. ASSUME Opens(s), \A v : ~Sets(t, "public_key", v) PROVE Opens(u)
  <2>1. m >= 1 /\ s[1].set = "public_key"
        /\ \A j \in 2 .. m : s[j].set # "public_key"
    BY <1>6 DEF Opens, m
  <2>2. \A j \in 1 .. n : t[j].set # "public_key"
    BY <1>6 DEF Sets, n
  <2>3. ASSUME NEW j \in 2 .. m + n PROVE u[j].set # "public_key"
    <3>1. j \in 1 .. m + n /\ (j \in 1 .. m => j \in 2 .. m)
      BY <1>1
    <3> QED
      BY <1>4, <2>1, <2>2, <3>1
  <2>4. u[1] = s[1] /\ m + n >= 1
    BY <1>1, <1>2, <2>1
  <2> QED
    BY <1>1, <2>1, <2>3, <2>4 DEF Opens
<1> QED
  BY <1>1, <1>5, <1>6 DEF u

\* The loop over the allowed networks says each of them and nothing else.
LEMMA AllowedLines ==
    ASSUME NEW a \in Seq(Text)
    PROVE  LET L == [i \in DOMAIN a |-> [set |-> "allowed_ip", to |-> a[i]]] IN
           /\ L \in Seq(Line)
           /\ \A f, v : Sets(L, f, v) <=>
                f = "allowed_ip" /\ \E i \in 1 .. Len(a) : v = a[i]
<1> DEFINE L == [i \in DOMAIN a |-> [set |-> "allowed_ip", to |-> a[i]]]
           n == Len(a)
<1>1. n \in Nat /\ DOMAIN a = 1 .. n /\ \A i \in 1 .. n : a[i] \in Text
  BY LenProperties, ElementOfSeq
<1>2. \A w \in Text : [set |-> "allowed_ip", to |-> w] \in Line
  BY DEF Line, Fields
<1>3. L \in [1 .. n -> Line]
  BY <1>1, <1>2
<1>4. L \in Seq(Line) /\ Len(L) = n
  BY <1>1, <1>3
<1>5. \A i \in 1 .. n : L[i].set = "allowed_ip" /\ L[i].to = a[i]
  BY <1>1
<1> HIDE DEF L, n
<1>6. ASSUME NEW f, NEW v
      PROVE  Sets(L, f, v) <=> f = "allowed_ip" /\ \E i \in 1 .. n : v = a[i]
  BY <1>4, <1>5 DEF Sets
<1> QED
  BY <1>4, <1>6 DEF L, n

\* The lines of an entry say what the entry says, and open its peer first.
LEMMA PeerLinesSay ==
    ASSUME NEW p \in WGPeer
    PROVE  /\ PeerLines(p) \in Seq(Line)
           /\ Opens(PeerLines(p))
           /\ \A f, v : Sets(PeerLines(p), f, v) <=> Says(p, f, v)
<1> DEFINE a == Opt(TRUE, "public_key", p.pub)
           b == Opt(p.psk # Unset, "preshared_key", p.psk)
           c == Opt(p.endpoint # Unset, "endpoint", p.endpoint)
           d == Opt(p.keepalive > 0, "persistent_keepalive_interval", p.keepalive)
           e == [i \in DOMAIN p.allowed |-> [set |-> "allowed_ip", to |-> p.allowed[i]]]
<1>1. /\ p.pub \in Text /\ p.psk \in Text /\ p.endpoint \in Text
      /\ p.keepalive \in Int /\ p.allowed \in Seq(Text)
  BY DEF WGPeer
<1>2. a \in Seq(Line) /\ Opens(a) /\ \A f, v : Sets(a, f, v) <=> f = "public_key" /\ v = p.pub
  <2>1. a = ALine("public_key", p.pub)
      /\ "public_key" \in Fields /\ p.pub \in Text \cup Int
    BY <1>1 DEF Opt, ALine, Fields
  <2> HIDE DEF a
  <2> QED
    BY <1>1, <2>1, OneLine
<1>3. /\ b \in Seq(Line)
      /\ \A f, v : Sets(b, f, v) <=> p.psk # Unset /\ f = "preshared_key" /\ v = p.psk
  <2>1. CASE p.psk # Unset
    <3>1. b = ALine("preshared_key", p.psk)
          /\ "preshared_key" \in Fields /\ p.psk \in Text \cup Int
      BY <1>1, <2>1 DEF Opt, ALine, Fields
    <3> HIDE DEF b
    <3> QED
      BY <1>1, <2>1, <3>1, OneLine
  <2>2. CASE ~(p.psk # Unset)
    <3>1. b = <<>>
      BY <2>2 DEF Opt
    <3> HIDE DEF b
    <3> QED
      BY <2>2, <3>1, NoLine
  <2> QED
    BY <2>1, <2>2
<1>4. /\ c \in Seq(Line)
      /\ \A f, v : Sets(c, f, v) <=> p.endpoint # Unset /\ f = "endpoint" /\ v = p.endpoint
  <2>1. CASE p.endpoint # Unset
    <3>1. c = ALine("endpoint", p.endpoint)
          /\ "endpoint" \in Fields /\ p.endpoint \in Text \cup Int
      BY <1>1, <2>1 DEF Opt, ALine, Fields
    <3> HIDE DEF c
    <3> QED
      BY <1>1, <2>1, <3>1, OneLine
  <2>2. CASE ~(p.endpoint # Unset)
    <3>1. c = <<>>
      BY <2>2 DEF Opt
    <3> HIDE DEF c
    <3> QED
      BY <2>2, <3>1, NoLine
  <2> QED
    BY <2>1, <2>2
<1>5. /\ d \in Seq(Line)
      /\ \A f, v : Sets(d, f, v) <=> p.keepalive > 0 /\ f = "persistent_keepalive_interval" /\ v = p.keepalive
  <2>1. CASE p.keepalive > 0
    <3>1. d = ALine("persistent_keepalive_interval", p.keepalive)
          /\ "persistent_keepalive_interval" \in Fields /\ p.keepalive \in Text \cup Int
      BY <1>1, <2>1 DEF Opt, ALine, Fields
    <3> HIDE DEF d
    <3> QED
      BY <1>1, <2>1, <3>1, OneLine
  <2>2. CASE ~(p.keepalive > 0)
    <3>1. d = <<>>
      BY <2>2 DEF Opt
    <3> HIDE DEF d
    <3> QED
      BY <2>2, <3>1, NoLine
  <2> QED
    BY <2>1, <2>2
<1>6. /\ e \in Seq(Line)
      /\ \A f, v : Sets(e, f, v) <=>
           f = "allowed_ip" /\ \E i \in 1 .. Len(p.allowed) : v = p.allowed[i]
  BY <1>1, AllowedLines
<1>7. PeerLines(p) = (((a \o b) \o c) \o d) \o e
  BY DEF PeerLines
<1> HIDE DEF a, b, c, d, e
<1> DEFINE ab == a \o b
           abc == ab \o c
           abcd == abc \o d
           all == abcd \o e
<1>8. PeerLines(p) = all
  BY <1>7
<1>9. (\A v : ~Sets(b, "public_key", v)) /\ (\A v : ~Sets(c, "public_key", v))
       /\ (\A v : ~Sets(d, "public_key", v)) /\ (\A v : ~Sets(e, "public_key", v))
  BY <1>3, <1>4, <1>5, <1>6
<1>10. /\ ab \in Seq(Line) /\ Opens(ab)
      /\ \A f, v : Sets(ab, f, v) <=> Sets(a, f, v) \/ Sets(b, f, v)
  BY <1>2, <1>3, <1>9, ConcatLines
<1> HIDE DEF ab
<1>11. /\ abc \in Seq(Line) /\ Opens(abc)
       /\ \A f, v : Sets(abc, f, v) <=> Sets(ab, f, v) \/ Sets(c, f, v)
  BY <1>4, <1>10, <1>9, ConcatLines
<1> HIDE DEF abc
<1>12. /\ abcd \in Seq(Line) /\ Opens(abcd)
       /\ \A f, v : Sets(abcd, f, v) <=> Sets(abc, f, v) \/ Sets(d, f, v)
  BY <1>5, <1>11, <1>9, ConcatLines
<1> HIDE DEF abcd
<1>13. /\ all \in Seq(Line) /\ Opens(all)
       /\ \A f, v : Sets(all, f, v) <=> Sets(abcd, f, v) \/ Sets(e, f, v)
  BY <1>6, <1>12, <1>9, ConcatLines
<1> HIDE DEF all
<1>14. ASSUME NEW f, NEW v PROVE Sets(PeerLines(p), f, v) <=> Says(p, f, v)
  <2>1. Sets(PeerLines(p), f, v) <=>
          \/ Sets(a, f, v) \/ Sets(b, f, v) \/ Sets(c, f, v)
          \/ Sets(d, f, v) \/ Sets(e, f, v)
    BY <1>8, <1>10, <1>11, <1>12, <1>13
  <2>2. Sets(a, f, v) <=> f = "public_key" /\ v = p.pub
    BY <1>2
  <2>3. Sets(b, f, v) <=> p.psk # Unset /\ f = "preshared_key" /\ v = p.psk
    BY <1>3
  <2>4. Sets(c, f, v) <=> p.endpoint # Unset /\ f = "endpoint" /\ v = p.endpoint
    BY <1>4
  <2>5. Sets(d, f, v) <=> p.keepalive > 0 /\ f = "persistent_keepalive_interval"
                          /\ v = p.keepalive
    BY <1>5
  <2>6. Sets(e, f, v) <=> f = "allowed_ip" /\ \E i \in 1 .. Len(p.allowed) : v = p.allowed[i]
    BY <1>6
  <2> QED
    BY <2>1, <2>2, <2>3, <2>4, <2>5, <2>6 DEF Says
<1> QED
  BY <1>8, <1>13, <1>14
-----------------------------------------------------------------------------

\* A line made from entry i sets f to v.
Has(L, own, i, f, v) ==
    \E q \in 2 .. Len(L) : own[q] = i /\ L[q].set = f /\ L[q].to = v

\* The line at each position but the first comes from the entry own names.
Renders(L, c, own) ==
    /\ L \in Seq(Line) /\ Len(L) >= 1
    /\ L[1].set = "private_key" /\ L[1].to = c.private
    /\ own \in [2 .. Len(L) -> 1 .. Len(c.peers)]
    /\ \A q \in 2 .. Len(L) : Says(c.peers[own[q]], L[q].set, L[q].to)
    /\ \A i \in 1 .. Len(c.peers) : \A f, v : Says(c.peers[i], f, v) => Has(L, own, i, f, v)
    /\ \A q, r \in 2 .. Len(L) : q < r => own[q] <= own[r]
    /\ \A q \in 2 .. Len(L) : \E o \in 2 .. Len(L) :
         /\ o <= q /\ own[o] = own[q] /\ L[o].set = "public_key"
         /\ \A x \in 2 .. Len(L) : o < x /\ x <= q => L[x].set # "public_key"

\* Every config is rendered so: uapiConfig loses, repeats and moves no entry.
LEMMA Rendered ==
    ASSUME NEW c, IsWGConfig(c)
    PROVE  \E own : Renders(uapiConfig(c), c, own)
<1> DEFINE m == Len(c.peers)
           B == [i \in DOMAIN c.peers |-> PeerLines(c.peers[i])]
           F == FlattenSeq(B)
           k == Len(F)
           P == Opt(TRUE, "private_key", c.private)
           L == P \o F
<1>1. /\ c.private \in Text /\ c.peers \in Seq(WGPeer) /\ m \in Nat
      /\ DOMAIN c.peers = 1 .. m /\ \A i \in 1 .. m : c.peers[i] \in WGPeer
  BY LenProperties, ElementOfSeq DEF IsWGConfig
<1>2. \A i \in 1 .. m : PeerLines(c.peers[i]) \in Seq(Line)
  BY <1>1, PeerLinesSay
<1>3. B \in Seq(Seq(Line)) /\ Len(B) = m /\ \A i \in 1 .. m : B[i] = PeerLines(c.peers[i])
  <2>1. B \in [1 .. m -> Seq(Line)] /\ DOMAIN B = 1 .. m
    BY <1>1, <1>2
  <2>2. \A i \in 1 .. m : B[i] = PeerLines(c.peers[i])
    BY <1>1
  <2> HIDE DEF B
  <2> QED
    BY <1>1, <2>1, <2>2
<1> HIDE DEF B
<1>4. /\ \A i \in 1 .. m : \A f, v : Sets(B[i], f, v) <=> Says(c.peers[i], f, v)
      /\ \A i \in 1 .. m : Opens(B[i]) /\ B[i] \in Seq(Line)
  BY <1>1, <1>3, PeerLinesSay
<1>5. F \in Seq(Line) /\ \E own, off : Coordinates(F, B, own, off)
  BY <1>3, FlattenCoordinates
<1>6. PICK own, off : Coordinates(F, B, own, off)
  BY <1>5
<1> HIDE DEF F
<1>7. k \in Nat /\ own \in [1 .. k -> 1 .. m] /\ off \in [1 .. k -> Nat]
  BY <1>3, <1>5, <1>6, LenProperties DEF Coordinates
<1> DEFINE o == [q \in 2 .. k + 1 |-> own[q - 1]]
<1>8. \A p \in 1 .. k : Says(c.peers[own[p]], F[p].set, F[p].to)
  <2> SUFFICES ASSUME NEW p \in 1 .. k PROVE Says(c.peers[own[p]], F[p].set, F[p].to)
    OBVIOUS
  <2>1. own[p] \in 1 .. m /\ off[p] \in 1 .. Len(B[own[p]]) /\ F[p] = B[own[p]][off[p]]
    BY <1>6, <1>7 DEF Coordinates
  <2>2. Sets(B[own[p]], F[p].set, F[p].to)
    BY <2>1 DEF Sets
  <2> QED
    BY <1>4, <2>1, <2>2
<1>9. \A i \in 1 .. m : \A f, v : Says(c.peers[i], f, v) =>
         \E p \in 1 .. k : own[p] = i /\ F[p].set = f /\ F[p].to = v
  <2> SUFFICES ASSUME NEW i \in 1 .. m, NEW f, NEW v, Says(c.peers[i], f, v)
               PROVE  \E p \in 1 .. k : own[p] = i /\ F[p].set = f /\ F[p].to = v
    OBVIOUS
  <2>1. Sets(B[i], f, v)
    BY <1>4
  <2>2. PICK j \in 1 .. Len(B[i]) : B[i][j].set = f /\ B[i][j].to = v
    BY <2>1 DEF Sets
  <2>3. PICK p \in 1 .. k : own[p] = i /\ off[p] = j
    BY <1>3, <1>6 DEF Coordinates
  <2>4. F[p] = B[i][j]
    BY <1>6, <2>3 DEF Coordinates
  <2> QED
    BY <2>2, <2>3, <2>4
<1>10. \A p, q \in 1 .. k : p < q => own[p] < own[q] \/ (own[p] = own[q] /\ off[p] < off[q])
  BY <1>6 DEF Coordinates
<1>11. \A q \in 1 .. k : \E p \in 1 .. k :
         /\ p <= q /\ own[p] = own[q] /\ F[p].set = "public_key"
         /\ \A x \in 1 .. k : p < x /\ x <= q => F[x].set # "public_key"
  <2> SUFFICES ASSUME NEW q \in 1 .. k
               PROVE  \E p \in 1 .. k :
                        /\ p <= q /\ own[p] = own[q] /\ F[p].set = "public_key"
                        /\ \A x \in 1 .. k : p < x /\ x <= q => F[x].set # "public_key"
    OBVIOUS
  <2>1. own[q] \in 1 .. m /\ off[q] \in 1 .. Len(B[own[q]])
    BY <1>6, <1>7 DEF Coordinates
  <2>2. /\ 1 \in 1 .. Len(B[own[q]]) /\ B[own[q]][1].set = "public_key"
        /\ \A j \in 2 .. Len(B[own[q]]) : B[own[q]][j].set # "public_key"
    <3>1. Opens(B[own[q]]) /\ Len(B[own[q]]) \in Nat
      BY <1>4, <2>1, LenProperties
    <3> QED
      BY <3>1 DEF Opens
  <2>3. PICK p \in 1 .. k : own[p] = own[q] /\ off[p] = 1
    BY <1>3, <1>6, <2>1, <2>2 DEF Coordinates
  <2>4. F[p].set = "public_key"
    BY <1>6, <2>2, <2>3 DEF Coordinates
  <2>5. p <= q
    <3>1. q < p => own[q] < own[p] \/ (own[q] = own[p] /\ off[q] < off[p])
      BY <1>10
    <3>2. own[p] \in Nat /\ own[q] \in Nat
      BY <1>7, <2>1, <2>3
    <3> QED
      BY <1>7, <2>1, <2>3, <3>1, <3>2
  <2>6. ASSUME NEW x \in 1 .. k, p < x, x <= q PROVE F[x].set # "public_key"
    <3>1. own[p] < own[x] \/ (own[p] = own[x] /\ off[p] < off[x])
      BY <1>10, <2>6
    <3>2. x = q \/ own[x] < own[q] \/ own[x] = own[q]
      BY <1>7, <1>10, <2>6
    <3>3. own[x] \in 1 .. m /\ off[x] \in Nat
      BY <1>7
    <3>4. own[x] = own[q] /\ off[x] > 1
      BY <2>1, <2>3, <3>1, <3>2, <3>3
    <3>5. off[x] \in 1 .. Len(B[own[q]]) /\ F[x] = B[own[q]][off[x]]
      BY <1>6, <3>4 DEF Coordinates
    <3>6. off[x] \in 2 .. Len(B[own[q]])
      BY <3>4, <3>5
    <3> QED
      BY <2>2, <3>5, <3>6
  <2> QED
    BY <2>3, <2>4, <2>5, <2>6
<1>12. P \in Seq(Line) /\ Len(P) = 1 /\ P[1].set = "private_key" /\ P[1].to = c.private
  <2>1. P = ALine("private_key", c.private) /\ "private_key" \in Fields
        /\ c.private \in Text \cup Int
    BY <1>1 DEF Opt, ALine, Fields
  <2>2. /\ Len(ALine("private_key", c.private)) = 1
        /\ ALine("private_key", c.private)[1].set = "private_key"
        /\ ALine("private_key", c.private)[1].to = c.private
    BY DEF ALine
  <2> HIDE DEF P
  <2> QED
    BY <2>1, <2>2, OneLine
<1> HIDE DEF P
<1>13. /\ L \in Seq(Line) /\ Len(L) = k + 1 /\ L[1] = P[1]
       /\ \A q \in 2 .. k + 1 : L[q] = F[q - 1]
  <2>1. /\ L \in Seq(Line) /\ Len(L) = 1 + k
        /\ \A i \in 1 .. 1 + k : L[i] = IF i <= 1 THEN P[i] ELSE F[i - 1]
    <3>1. /\ L \in Seq(Line) /\ Len(L) = Len(P) + Len(F)
          /\ \A i \in 1 .. Len(P) + Len(F) :
               L[i] = IF i <= Len(P) THEN P[i] ELSE F[i - Len(P)]
      BY <1>5, <1>12, ConcatProperties
    <3> HIDE DEF L
    <3> QED
      BY <1>12, <3>1
  <2> HIDE DEF L
  <2> QED
    BY <1>7, <2>1
<1>14. uapiConfig(c) = L
  BY DEF uapiConfig, L, P, F, B
<1> HIDE DEF L, k
<1>15. /\ \A q \in 2 .. k + 1 : q - 1 \in 1 .. k /\ o[q] = own[q - 1]
       /\ \A p \in 1 .. k : p + 1 \in 2 .. k + 1 /\ (p + 1) - 1 = p
  BY <1>7
<1>16. o \in [2 .. k + 1 -> 1 .. m]
  BY <1>7
<1> HIDE DEF o, m
<1>17. \A q \in 2 .. k + 1 : Says(c.peers[o[q]], L[q].set, L[q].to)
  BY <1>8, <1>13, <1>15
<1>18. \A i \in 1 .. m : \A f, v : Says(c.peers[i], f, v) =>
         \E q \in 2 .. k + 1 : o[q] = i /\ L[q].set = f /\ L[q].to = v
  <2> SUFFICES ASSUME NEW i \in 1 .. m, NEW f, NEW v, Says(c.peers[i], f, v)
               PROVE  \E q \in 2 .. k + 1 : o[q] = i /\ L[q].set = f /\ L[q].to = v
    OBVIOUS
  <2>1. PICK p \in 1 .. k : own[p] = i /\ F[p].set = f /\ F[p].to = v
    BY <1>9
  <2>2. p + 1 \in 2 .. k + 1 /\ o[p + 1] = own[p] /\ L[p + 1] = F[p]
    BY <1>13, <1>15
  <2> QED
    BY <2>1, <2>2
<1>19. \A q, r \in 2 .. k + 1 : q < r => o[q] <= o[r]
  <2> SUFFICES ASSUME NEW q \in 2 .. k + 1, NEW r \in 2 .. k + 1, q < r PROVE o[q] <= o[r]
    OBVIOUS
  <2>1. q - 1 < r - 1 /\ q - 1 \in 1 .. k /\ r - 1 \in 1 .. k
    BY <1>7
  <2>2. own[q - 1] < own[r - 1] \/ own[q - 1] = own[r - 1]
    BY <1>10, <2>1
  <2>3. own[q - 1] \in Nat /\ own[r - 1] \in Nat
    BY <1>7, <2>1
  <2> QED
    BY <1>15, <2>2, <2>3
<1>20. \A q \in 2 .. k + 1 : \E p \in 2 .. k + 1 :
         /\ p <= q /\ o[p] = o[q] /\ L[p].set = "public_key"
         /\ \A x \in 2 .. k + 1 : p < x /\ x <= q => L[x].set # "public_key"
  <2> SUFFICES ASSUME NEW q \in 2 .. k + 1
               PROVE  \E p \in 2 .. k + 1 :
                        /\ p <= q /\ o[p] = o[q] /\ L[p].set = "public_key"
                        /\ \A x \in 2 .. k + 1 : p < x /\ x <= q => L[x].set # "public_key"
    OBVIOUS
  <2>1. PICK p \in 1 .. k :
          /\ p <= q - 1 /\ own[p] = own[q - 1] /\ F[p].set = "public_key"
          /\ \A x \in 1 .. k : p < x /\ x <= q - 1 => F[x].set # "public_key"
    BY <1>11, <1>15
  <2>2. p + 1 \in 2 .. k + 1 /\ o[p + 1] = own[p] /\ L[p + 1] = F[p] /\ p + 1 <= q
    BY <1>7, <1>13, <1>15, <2>1
  <2>3. ASSUME NEW x \in 2 .. k + 1, p + 1 < x, x <= q PROVE L[x].set # "public_key"
    <3>1. x - 1 \in 1 .. k /\ p < x - 1 /\ x - 1 <= q - 1
      BY <1>7, <2>3
    <3> QED
      BY <1>13, <2>1, <3>1
  <2> QED
    BY <1>15, <2>1, <2>2, <2>3
<1>21. Renders(L, c, o)
  <2>1. Len(L) = k + 1 /\ Len(c.peers) = m /\ k + 1 >= 1
    BY <1>7, <1>13 DEF m
  <2> QED
    BY <1>12, <1>13, <1>16, <1>17, <1>18, <1>19, <1>20, <2>1 DEF Renders, Has
<1> QED
  BY <1>14, <1>21
-----------------------------------------------------------------------------

(* What the device makes of them; IpcSet's own definitions, one by one.    *)

Places(L, f) == {i \in DOMAIN L : L[i].set = f}
Opened(L, i) == {j \in Places(L, "public_key") : j <= i}
PeerAt(L, i) == L[Max(Opened(L, i))].to
Latest(L, which, default) == IF which = {} THEN default ELSE L[Max(which)].to
Value(L, k, f, default) == Latest(L, {i \in Places(L, f) : PeerAt(L, i) = k}, default)
Values(L, f) == {L[i].to : i \in Places(L, f)}

Takeable(L) ==
    \A i \in DOMAIN L :
      /\ L[i].to \in Takes[L[i].set]
      /\ L[i].set # "private_key" => Opened(L, i) # {}

Device(L) ==
    [private |-> Latest(L, Places(L, "private_key"), Unset),
     peer |-> [k \in Values(L, "public_key") |->
       [psk |-> Value(L, k, "preshared_key", Unset),
        endpoint |-> Value(L, k, "endpoint", Unset),
        keepalive |-> Value(L, k, "persistent_keepalive_interval", 0)]],
     route |-> [n \in Values(L, "allowed_ip") |->
       PeerAt(L, Max({i \in Places(L, "allowed_ip") : L[i].to = n}))]]

\* They are IpcSet's.
LEMMA IpcSetIs ==
    ASSUME NEW L
    PROVE  IpcSet(L) = IF Takeable(L) THEN Device(L) ELSE Rejected
<1>1. CASE Takeable(L)
  BY <1>1 DEF IpcSet, Takeable, Device, Latest, Value, Values, PeerAt, Places, Opened
<1>2. CASE ~Takeable(L)
  BY <1>2 DEF IpcSet, Takeable, Device, Latest, Value, Values, PeerAt, Places, Opened
<1> QED
  BY <1>1, <1>2

\* The types of a rendering's parts.
LEMMA Typed ==
    ASSUME NEW c, IsWGConfig(c), NEW L, NEW own, Renders(L, c, own)
    PROVE  /\ Len(c.peers) \in Nat /\ DOMAIN c.peers = 1 .. Len(c.peers)
           /\ \A i \in 1 .. Len(c.peers) : c.peers[i] \in WGPeer
           /\ Len(L) \in Nat \ {0} /\ DOMAIN L = 1 .. Len(L)
           /\ \A q \in 2 .. Len(L) : q \in 1 .. Len(L) /\ own[q] \in 1 .. Len(c.peers)
           /\ \A q \in 1 .. Len(L) : q = 1 \/ q \in 2 .. Len(L)
<1>1. c.peers \in Seq(WGPeer) /\ L \in Seq(Line) /\ Len(L) >= 1
  BY DEF IsWGConfig, Renders
<1>2. own \in [2 .. Len(L) -> 1 .. Len(c.peers)]
  BY DEF Renders
<1>3. /\ Len(c.peers) \in Nat /\ DOMAIN c.peers = 1 .. Len(c.peers)
      /\ \A i \in 1 .. Len(c.peers) : c.peers[i] \in WGPeer
      /\ Len(L) \in Nat /\ DOMAIN L = 1 .. Len(L)
  BY <1>1, LenProperties, ElementOfSeq
<1> QED
  BY <1>1, <1>2, <1>3

\* What an entry says is in some line made from it.
LEMMA Spoken ==
    ASSUME NEW c, NEW L, NEW own, Renders(L, c, own),
           NEW i \in 1 .. Len(c.peers), NEW f, NEW v, Says(c.peers[i], f, v)
    PROVE  Has(L, own, i, f, v)
BY DEF Renders

\* Only the first line sets the private key.
LEMMA LineAt ==
    ASSUME NEW c, IsWGConfig(c), NEW L, NEW own, Renders(L, c, own),
           NEW f \in Fields \ {"private_key"}, NEW q
    PROVE  q \in Places(L, f) <=> q \in 2 .. Len(L) /\ L[q].set = f
<1>1. L[1].set = "private_key"
  BY DEF Renders
<1> QED
  BY <1>1, Typed DEF Places

\* The peer a line configures is that of the entry it comes from.
LEMMA Opener ==
    ASSUME NEW c, IsWGConfig(c), NEW L, NEW own, Renders(L, c, own),
           NEW q \in 2 .. Len(L)
    PROVE  Opened(L, q) # {} /\ PeerAt(L, q) = c.peers[own[q]].pub
<1> DEFINE O == Opened(L, q)
<1>1. PICK o \in 2 .. Len(L) :
        /\ o <= q /\ own[o] = own[q] /\ L[o].set = "public_key"
        /\ \A x \in 2 .. Len(L) : o < x /\ x <= q => L[x].set # "public_key"
  BY DEF Renders
<1>2. \A x : x \in O <=> x \in 2 .. Len(L) /\ L[x].set = "public_key" /\ x <= q
  <2>1. "public_key" \in Fields \ {"private_key"}
    BY DEF Fields
  <2> QED
    BY <2>1, LineAt DEF Opened
<1> HIDE DEF O
<1>3. Len(L) \in Nat /\ o \in O /\ O \in SUBSET Nat /\ q \in Nat /\ \A x \in O : x <= q
  BY <1>1, <1>2, Typed
<1>4. Max(O) \in O /\ \A x \in O : x <= Max(O)
  BY <1>3, MaxOf
<1>5. Max(O) = o
  BY <1>1, <1>2, <1>3, <1>4
<1>6. L[o].to = c.peers[own[q]].pub
  <2>1. Says(c.peers[own[o]], L[o].set, L[o].to)
    BY DEF Renders
  <2> QED
    BY <1>1, <2>1 DEF Says
<1> QED
  BY <1>3, <1>5, <1>6 DEF PeerAt, O

\* The lines of Q come from the entries of W, from all of them.
Covers(own, Q, W) ==
    /\ \A q \in Q : own[q] \in W
    /\ \A i \in W : \E q \in Q : own[q] = i

\* The last of those lines comes from the last of those entries.
LEMMA LastLine ==
    ASSUME NEW c, IsWGConfig(c), NEW L, NEW own, Renders(L, c, own),
           NEW Q \in SUBSET (2 .. Len(L)), NEW W \in SUBSET (1 .. Len(c.peers)),
           Covers(own, Q, W)
    PROVE  /\ Q = {} <=> W = {}
           /\ Q # {} => Max(Q) \in Q /\ own[Max(Q)] = Max(W)
<1>1. (\A q \in Q : own[q] \in W) /\ \A i \in W : \E q \in Q : own[q] = i
  BY DEF Covers
<1>2. Q = {} <=> W = {}
  BY <1>1
<1>3. ASSUME Q # {} PROVE Max(Q) \in Q /\ own[Max(Q)] = Max(W)
  <2>1. /\ Q \in SUBSET Nat /\ W \in SUBSET Nat /\ Len(L) \in Nat /\ Len(c.peers) \in Nat
        /\ (\A x \in Q : x <= Len(L)) /\ (\A x \in W : x <= Len(c.peers))
    BY Typed
  <2>2. Max(Q) \in Q /\ \A x \in Q : x <= Max(Q)
    BY <1>3, <2>1, MaxOf
  <2>3. Max(W) \in W /\ \A x \in W : x <= Max(W)
    BY <1>2, <1>3, <2>1, MaxOf
  <2>4. PICK q \in Q : own[q] = Max(W)
    BY <1>1, <2>3
  <2>5. own[q] <= own[Max(Q)]
    <3>1. CASE q = Max(Q)
      BY <2>1, <2>3, <2>4, <3>1
    <3>2. CASE q < Max(Q)
      <4>1. \A x, y \in 2 .. Len(L) : x < y => own[x] <= own[y]
        BY DEF Renders
      <4>2. q \in 2 .. Len(L) /\ Max(Q) \in 2 .. Len(L)
        BY <2>2
      <4> QED
        BY <3>2, <4>1, <4>2
    <3>3. q \in Nat /\ Max(Q) \in Nat /\ q <= Max(Q)
      BY <2>1, <2>2
    <3>4. q = Max(Q) \/ q < Max(Q)
      BY <3>3
    <3> QED
      BY <3>1, <3>2, <3>4
  <2>6. own[Max(Q)] \in W /\ Max(W) \in Nat /\ own[Max(Q)] \in Nat
    BY <1>1, <1>3, <2>1, <2>2, <2>3
  <2>7. own[Max(Q)] <= Max(W) /\ Max(W) <= own[Max(Q)]
    BY <2>3, <2>4, <2>5, <2>6
  <2>8. own[Max(Q)] = Max(W)
    BY <2>6, <2>7
  <2> QED
    BY <2>2, <2>8
<1> QED
  BY <1>2, <1>3

\* The entries of G, and they only, set f, to what they hold in g.
Gives(c, G, f, g) ==
    \A i \in 1 .. Len(c.peers) : \A v :
      Says(c.peers[i], f, v) <=> i \in G /\ v = c.peers[i][g]

\* The entries of G for the peer k.
WithKey(c, G, k) == {i \in G : c.peers[i].pub = k}

\* What the device keeps in a field of a peer: the value of the last entry of
\* that peer that sets it.
LEMMA FieldValue ==
    ASSUME NEW c, IsWGConfig(c), NEW L, NEW own, Renders(L, c, own),
           NEW f \in Fields \ {"private_key"}, NEW g, NEW default, NEW k,
           NEW G \in SUBSET (1 .. Len(c.peers)), Gives(c, G, f, g)
    PROVE  Value(L, k, f, default) = LastSet(c, WithKey(c, G, k), g, default)
<1> DEFINE Q == {i \in Places(L, f) : PeerAt(L, i) = k}
           W == WithKey(c, G, k)
<1>1. \A q : q \in Q <=> q \in 2 .. Len(L) /\ L[q].set = f /\ c.peers[own[q]].pub = k
  BY LineAt, Opener
<1>2. \A i : i \in W <=> i \in G /\ c.peers[i].pub = k
  BY DEF WithKey
<1>3. \A i \in 1 .. Len(c.peers) : \A v :
        Says(c.peers[i], f, v) <=> i \in G /\ v = c.peers[i][g]
  BY DEF Gives
<1> HIDE DEF Q, W
<1>4. ASSUME NEW q \in Q PROVE own[q] \in W /\ L[q].to = c.peers[own[q]][g]
  <2>1. q \in 2 .. Len(L) /\ own[q] \in 1 .. Len(c.peers) /\ L[q].set = f
    BY <1>1, Typed
  <2>2. Says(c.peers[own[q]], f, L[q].to)
    BY <2>1 DEF Renders
  <2> QED
    BY <1>1, <1>2, <1>3, <2>1, <2>2
<1>5. ASSUME NEW i \in W PROVE \E q \in Q : own[q] = i
  <2>1. i \in 1 .. Len(c.peers) /\ Says(c.peers[i], f, c.peers[i][g])
    BY <1>2, <1>3
  <2> DEFINE w == c.peers[i][g]
  <2>2. i \in 1 .. Len(c.peers) /\ Says(c.peers[i], f, w)
    BY <2>1
  <2> HIDE DEF w
  <2>3. Has(L, own, i, f, w)
    BY <2>2, Spoken
  <2>4. PICK q \in 2 .. Len(L) : own[q] = i /\ L[q].set = f
    BY <2>3 DEF Has
  <2> QED
    BY <1>1, <1>2, <2>4
<1>6. Q \in SUBSET (2 .. Len(L)) /\ W \in SUBSET (1 .. Len(c.peers))
  BY <1>1, <1>2
<1>7. (Q = {} <=> W = {}) /\ (Q # {} => Max(Q) \in Q /\ own[Max(Q)] = Max(W))
  <2>1. Covers(own, Q, W)
    BY <1>4, <1>5 DEF Covers
  <2> QED
    <3>1. Q \in SUBSET (2 .. Len(L)) /\ W \in SUBSET (1 .. Len(c.peers))
      BY <1>6
    <3>2. IsWGConfig(c) /\ Renders(L, c, own)
      OBVIOUS
    <3> QED
      BY ONLY <2>1, <3>1, <3>2, LastLine
<1>8. Q # {} => L[Max(Q)].to = c.peers[Max(W)][g]
  BY <1>4, <1>7
<1>9. Latest(L, Q, default) = LastSet(c, W, g, default)
  BY <1>7, <1>8 DEF Latest, LastSet
<1> QED
  BY <1>9 DEF Value, Q, W
\* Range, by positions.
LEMMA RangeOfAllowed ==
    ASSUME NEW a \in Seq(Text), NEW n
    PROVE  n \in Range(a) <=> \E j \in 1 .. Len(a) : n = a[j]
<1>1. DOMAIN a = 1 .. Len(a)
  BY LenProperties
<1> QED
  BY <1>1 DEF Range

\* The device takes every line exactly when it would take every value.
LEMMA TakeableIff ==
    ASSUME NEW c, IsWGConfig(c), NEW L, NEW own, Renders(L, c, own)
    PROVE  Takeable(L) <=> Acceptable(c)
<1> DEFINE m == Len(c.peers)
           n == Len(L)
<1>1. /\ DOMAIN c.peers = 1 .. m /\ DOMAIN L = 1 .. n /\ 1 \in 1 .. n
      /\ (\A q \in 2 .. n : q \in 1 .. n /\ own[q] \in 1 .. m)
      /\ (\A q \in 1 .. n : q = 1 \/ q \in 2 .. n)
      /\ \A i \in 1 .. m : c.peers[i] \in WGPeer
  BY Typed
<1>2. L[1].set = "private_key" /\ L[1].to = c.private /\ Takes["private_key"] = Peers
  BY DEF Renders, Takes
<1>3. /\ \A q \in 2 .. n : Says(c.peers[own[q]], L[q].set, L[q].to)
      /\ \A q \in 2 .. n : Opened(L, q) # {}
  <2>1. \A q \in 2 .. n : Says(c.peers[own[q]], L[q].set, L[q].to)
    BY DEF Renders
  <2>2. \A q \in 2 .. n : Opened(L, q) # {}
    BY Opener
  <2> QED
    BY <2>1, <2>2
<1>4. ASSUME NEW p \in WGPeer
      PROVE  (\A f, v : Says(p, f, v) => v \in Takes[f]) <=>
               /\ p.pub \in Peers
               /\ p.psk \in Secrets \cup {Unset}
               /\ p.endpoint \in Hosts \cup {Unset}
               /\ p.keepalive <= MaxKeepalive
               /\ Range(p.allowed) \subseteq Networks
  <2>1. MaxKeepalive \in Nat
    BY SMT DEF MaxKeepalive
  <2>2. /\ Takes["public_key"] = Peers /\ Takes["preshared_key"] = Secrets
        /\ Takes["endpoint"] = Hosts /\ Takes["allowed_ip"] = Networks
        /\ Takes["persistent_keepalive_interval"] = 0 .. MaxKeepalive
    BY DEF Takes
  <2>3. p.keepalive \in Int /\ p.allowed \in Seq(Text)
    BY DEF WGPeer
  <2>4. \A x : x \in Range(p.allowed) <=> \E j \in 1 .. Len(p.allowed) : x = p.allowed[j]
    BY <2>3, RangeOfAllowed
  <2>5. ASSUME \A f, v : Says(p, f, v) => v \in Takes[f]
        PROVE  /\ p.pub \in Peers
               /\ p.psk \in Secrets \cup {Unset}
               /\ p.endpoint \in Hosts \cup {Unset}
               /\ p.keepalive <= MaxKeepalive
               /\ Range(p.allowed) \subseteq Networks
    <3>1. p.pub \in Peers
      <4>1. Says(p, "public_key", p.pub)
        BY DEF Says
      <4> QED
        BY <2>2, <2>5, <4>1
    <3>2. p.psk \in Secrets \cup {Unset}
      <4>1. p.psk # Unset => Says(p, "preshared_key", p.psk)
        BY DEF Says
      <4> QED
        BY <2>2, <2>5, <4>1
    <3>3. p.endpoint \in Hosts \cup {Unset}
      <4>1. p.endpoint # Unset => Says(p, "endpoint", p.endpoint)
        BY DEF Says
      <4> QED
        BY <2>2, <2>5, <4>1
    <3>4. p.keepalive <= MaxKeepalive
      <4>1. p.keepalive > 0 => Says(p, "persistent_keepalive_interval", p.keepalive)
        BY DEF Says
      <4>2. p.keepalive > 0 => p.keepalive \in 0 .. MaxKeepalive
        BY <2>2, <2>5, <4>1
      <4> QED
        BY <2>1, <2>3, <4>2
    <3>5. ASSUME NEW x \in Range(p.allowed) PROVE x \in Networks
      <4>1. Says(p, "allowed_ip", x)
        BY <2>4, <3>5 DEF Says
      <4> QED
        BY <2>2, <2>5, <4>1
    <3> QED
      BY <3>1, <3>2, <3>3, <3>4, <3>5
  <2>6. ASSUME p.pub \in Peers, p.psk \in Secrets \cup {Unset},
               p.endpoint \in Hosts \cup {Unset}, p.keepalive <= MaxKeepalive,
               Range(p.allowed) \subseteq Networks,
               NEW f, NEW v, Says(p, f, v)
        PROVE  v \in Takes[f]
    <3>1. CASE f = "public_key" /\ v = p.pub
      BY <2>2, <2>6, <3>1
    <3>2. CASE f = "preshared_key" /\ v = p.psk /\ p.psk # Unset
      BY <2>2, <2>6, <3>2
    <3>3. CASE f = "endpoint" /\ v = p.endpoint /\ p.endpoint # Unset
      BY <2>2, <2>6, <3>3
    <3>4. CASE f = "persistent_keepalive_interval" /\ v = p.keepalive /\ p.keepalive > 0
      <4>1. p.keepalive \in 0 .. MaxKeepalive
        BY <2>1, <2>3, <2>6, <3>4
      <4> QED
        BY <2>2, <3>4, <4>1
    <3>5. CASE f = "allowed_ip" /\ \E j \in 1 .. Len(p.allowed) : v = p.allowed[j]
      <4>1. v \in Networks
        BY <2>4, <2>6, <3>5
      <4> QED
        BY <2>2, <3>5, <4>1
    <3> QED
      BY <2>6, <3>1, <3>2, <3>3, <3>4, <3>5 DEF Says
  <2> QED
    BY <2>5, <2>6
<1>5. Acceptable(c) <=> /\ c.private \in Peers
                        /\ \A i \in 1 .. m : \A f, v :
                             Says(c.peers[i], f, v) => v \in Takes[f]
  BY <1>1, <1>4 DEF Acceptable
<1> HIDE DEF m, n
<1>6. ASSUME Takeable(L) PROVE Acceptable(c)
  <2>1. \A q \in 1 .. n : L[q].to \in Takes[L[q].set]
    BY <1>1, <1>6 DEF Takeable
  <2>2. ASSUME NEW i \in 1 .. m, NEW f, NEW v, Says(c.peers[i], f, v)
        PROVE  v \in Takes[f]
    <3>1. Has(L, own, i, f, v)
      BY <2>2, Spoken DEF m
    <3>2. PICK q \in 2 .. n : L[q].set = f /\ L[q].to = v
      BY <3>1 DEF Has, n
    <3> QED
      BY <1>1, <2>1, <3>2
  <2>3. c.private \in Peers
    BY <1>1, <1>2, <2>1
  <2> QED
    BY <1>5, <2>2, <2>3
<1>7. ASSUME Acceptable(c) PROVE Takeable(L)
  <2>1. ASSUME NEW q \in 1 .. n
        PROVE  L[q].to \in Takes[L[q].set]
               /\ (L[q].set # "private_key" => Opened(L, q) # {})
    <3>1. CASE q = 1
      BY <1>2, <1>5, <1>7, <3>1
    <3>2. CASE q \in 2 .. n
      BY <1>1, <1>3, <1>5, <1>7, <3>2
    <3> QED
      BY <1>1, <3>1, <3>2
  <2> QED
    BY <1>1, <2>1 DEF Takeable
<1> QED
  BY <1>6, <1>7

\* The device then is what the config describes.
LEMMA DeviceIs ==
    ASSUME NEW c, IsWGConfig(c), NEW L, NEW own, Renders(L, c, own)
    PROVE  Device(L) = Intended(c)
<1> DEFINE m == Len(c.peers)
<1>1. /\ DOMAIN c.peers = 1 .. m /\ Len(L) \in Nat \ {0} /\ m \in Nat
      /\ DOMAIN L = 1 .. Len(L)
      /\ (\A q \in 2 .. Len(L) : own[q] \in 1 .. m)
      /\ \A i \in 1 .. m : c.peers[i] \in WGPeer
  BY Typed
<1>2. \A q \in 2 .. Len(L) : Says(c.peers[own[q]], L[q].set, L[q].to)
  BY DEF Renders
<1>3. Latest(L, Places(L, "private_key"), Unset) = c.private
  <2>1. L[1].set = "private_key" /\ L[1].to = c.private
    BY DEF Renders
  <2>2. \A q \in 2 .. Len(L) : L[q].set # "private_key"
    BY <1>2 DEF Says
  <2>3. \A q \in 1 .. Len(L) : q = 1 \/ q \in 2 .. Len(L)
    BY <1>1
  <2>4. Places(L, "private_key") = {1}
    BY <1>1, <2>1, <2>2, <2>3 DEF Places
  <2>5. Max({1}) = 1
    <3>1. {1} \in SUBSET Nat /\ {1} # {} /\ 1 \in Nat /\ \A x \in {1} : x <= 1
      OBVIOUS
    <3>2. Max({1}) \in {1}
      BY <3>1, MaxOf
    <3> QED
      BY <3>2
  <2> QED
    BY <2>1, <2>4, <2>5 DEF Latest
<1>4. Values(L, "public_key") = {c.peers[i].pub : i \in 1 .. m}
  <2>1. ASSUME NEW q \in Places(L, "public_key")
        PROVE  \E i \in 1 .. m : L[q].to = c.peers[i].pub
    <3>1. q \in 2 .. Len(L) /\ L[q].set = "public_key"
      BY LineAt DEF Fields
    <3> QED
      BY <1>1, <1>2, <3>1 DEF Says
  <2>2. ASSUME NEW i \in 1 .. m
        PROVE  \E q \in Places(L, "public_key") : c.peers[i].pub = L[q].to
    <3> DEFINE w == c.peers[i].pub
    <3>1. Says(c.peers[i], "public_key", w) /\ i \in 1 .. Len(c.peers)
      BY DEF Says
    <3> HIDE DEF w
    <3>2. Has(L, own, i, "public_key", w)
      BY <3>1, Spoken
    <3>3. PICK q \in 2 .. Len(L) : L[q].set = "public_key" /\ L[q].to = w
      BY <3>2 DEF Has
    <3>4. q \in Places(L, "public_key")
      BY <3>3, LineAt DEF Fields
    <3> QED
      BY <3>3, <3>4 DEF w
  <2> DEFINE W == {c.peers[i].pub : i \in 1 .. m}
  <2>3. Values(L, "public_key") \subseteq W
    <3> SUFFICES ASSUME NEW x \in Values(L, "public_key") PROVE x \in W
      OBVIOUS
    <3>1. PICK q \in Places(L, "public_key") : x = L[q].to
      BY DEF Values
    <3> QED
      BY <2>1, <3>1
  <2>4. W \subseteq Values(L, "public_key")
    BY <2>2 DEF Values
  <2> QED
    BY <2>3, <2>4
<1>5. ASSUME NEW k
      PROVE  Value(L, k, "preshared_key", Unset)
               = LastSet(c, {i \in {j \in 1 .. m : c.peers[j].pub = k} :
                             c.peers[i].psk # Unset}, "psk", Unset)
  <2> DEFINE G == {i \in 1 .. m : c.peers[i].psk # Unset}
  <2>1. Gives(c, G, "preshared_key", "psk")
    BY DEF Gives, Says
  <2>2. {i \in {j \in 1 .. m : c.peers[j].pub = k} : c.peers[i].psk # Unset}
          = WithKey(c, G, k)
    BY DEF WithKey
  <2>3. "preshared_key" \in Fields \ {"private_key"} /\ G \in SUBSET (1 .. m)
    BY DEF Fields
  <2> HIDE DEF G
  <2>4. Value(L, k, "preshared_key", Unset)
          = LastSet(c, WithKey(c, G, k), "psk", Unset)
    BY <2>1, <2>3, FieldValue
  <2> QED
    BY <2>2, <2>4
<1>6. ASSUME NEW k
      PROVE  Value(L, k, "endpoint", Unset)
               = LastSet(c, {i \in {j \in 1 .. m : c.peers[j].pub = k} :
                             c.peers[i].endpoint # Unset}, "endpoint", Unset)
  <2> DEFINE G == {i \in 1 .. m : c.peers[i].endpoint # Unset}
  <2>1. Gives(c, G, "endpoint", "endpoint")
    BY DEF Gives, Says
  <2>2. {i \in {j \in 1 .. m : c.peers[j].pub = k} : c.peers[i].endpoint # Unset}
          = WithKey(c, G, k)
    BY DEF WithKey
  <2>3. "endpoint" \in Fields \ {"private_key"} /\ G \in SUBSET (1 .. m)
    BY DEF Fields
  <2> HIDE DEF G
  <2>4. Value(L, k, "endpoint", Unset)
          = LastSet(c, WithKey(c, G, k), "endpoint", Unset)
    BY <2>1, <2>3, FieldValue
  <2> QED
    BY <2>2, <2>4
<1>7. ASSUME NEW k
      PROVE  Value(L, k, "persistent_keepalive_interval", 0)
               = LastSet(c, {i \in {j \in 1 .. m : c.peers[j].pub = k} :
                             c.peers[i].keepalive > 0}, "keepalive", 0)
  <2> DEFINE G == {i \in 1 .. m : c.peers[i].keepalive > 0}
  <2>1. Gives(c, G, "persistent_keepalive_interval", "keepalive")
    BY DEF Gives, Says
  <2>2. {i \in {j \in 1 .. m : c.peers[j].pub = k} : c.peers[i].keepalive > 0}
          = WithKey(c, G, k)
    BY DEF WithKey
  <2>3. "persistent_keepalive_interval" \in Fields \ {"private_key"}
        /\ G \in SUBSET (1 .. m)
    BY DEF Fields
  <2> HIDE DEF G
  <2>4. Value(L, k, "persistent_keepalive_interval", 0)
          = LastSet(c, WithKey(c, G, k), "keepalive", 0)
    BY <2>1, <2>3, FieldValue
  <2> QED
    BY <2>2, <2>4
<1>8. \A i \in 1 .. m : \A v :
        v \in Range(c.peers[i].allowed) <=> Says(c.peers[i], "allowed_ip", v)
  <2> SUFFICES ASSUME NEW i \in 1 .. m, NEW v
               PROVE  v \in Range(c.peers[i].allowed)
                        <=> Says(c.peers[i], "allowed_ip", v)
    OBVIOUS
  <2>1. c.peers[i].allowed \in Seq(Text)
    BY <1>1 DEF WGPeer
  <2> QED
    BY <2>1, RangeOfAllowed DEF Says
<1>9. ASSUME NEW v
      PROVE  LET Q == {q \in Places(L, "allowed_ip") : L[q].to = v}
                 W == {i \in 1 .. m : v \in Range(c.peers[i].allowed)}
             IN  /\ Q = {} <=> W = {}
                 /\ Q # {} => PeerAt(L, Max(Q)) = LastSet(c, W, "pub", Unset)
  <2> DEFINE Q == {q \in Places(L, "allowed_ip") : L[q].to = v}
             W == {i \in 1 .. m : v \in Range(c.peers[i].allowed)}
  <2>1. \A q : q \in Q <=> q \in 2 .. Len(L) /\ L[q].set = "allowed_ip" /\ L[q].to = v
    BY LineAt DEF Fields
  <2>2. \A i : i \in W <=> i \in 1 .. m /\ Says(c.peers[i], "allowed_ip", v)
    BY <1>8
  <2> HIDE DEF Q, W
  <2>3. ASSUME NEW q \in Q PROVE own[q] \in W
    BY <1>1, <1>2, <2>1, <2>2
  <2>4. ASSUME NEW i \in W PROVE \E q \in Q : own[q] = i
    <3>1. Has(L, own, i, "allowed_ip", v)
      BY <2>2, Spoken
    <3>2. PICK q \in 2 .. Len(L) : own[q] = i /\ L[q].set = "allowed_ip" /\ L[q].to = v
      BY <3>1 DEF Has
    <3> QED
      BY <2>1, <3>2
  <2>5. Q \in SUBSET (2 .. Len(L)) /\ W \in SUBSET (1 .. Len(c.peers))
    BY <2>1, <2>2
  <2>6. (Q = {} <=> W = {}) /\ (Q # {} => Max(Q) \in Q /\ own[Max(Q)] = Max(W))
    <3>1. Covers(own, Q, W)
      BY <2>3, <2>4 DEF Covers
    <3> QED
      BY <2>5, <3>1, LastLine
  <2>7. ASSUME Q # {} PROVE PeerAt(L, Max(Q)) = c.peers[Max(W)].pub
    <3>1. Max(Q) \in 2 .. Len(L) /\ own[Max(Q)] = Max(W)
      BY <2>5, <2>6, <2>7
    <3> QED
      BY <3>1, Opener
  <2>8. W # {} => LastSet(c, W, "pub", Unset) = c.peers[Max(W)].pub
    BY DEF LastSet
  <2> QED
    BY <2>6, <2>7, <2>8 DEF Q, W
<1>10. Values(L, "allowed_ip") = UNION {Range(c.peers[i].allowed) : i \in 1 .. m}
  <2>1. ASSUME NEW v
        PROVE  v \in Values(L, "allowed_ip")
                 <=> {q \in Places(L, "allowed_ip") : L[q].to = v} # {}
    BY DEF Values
  <2>2. ASSUME NEW v
        PROVE  v \in UNION {Range(c.peers[i].allowed) : i \in 1 .. m}
                 <=> {i \in 1 .. m : v \in Range(c.peers[i].allowed)} # {}
    OBVIOUS
  <2> QED
    BY <1>9, <2>1, <2>2
<1> DEFINE Own(k) == {j \in 1 .. m : c.peers[j].pub = k}
           Psk(k) == LastSet(c, {i \in Own(k) : c.peers[i].psk # Unset}, "psk", Unset)
           Endpoint(k) == LastSet(c, {i \in Own(k) : c.peers[i].endpoint # Unset},
                                  "endpoint", Unset)
           Keepalive(k) == LastSet(c, {i \in Own(k) : c.peers[i].keepalive > 0},
                                   "keepalive", 0)
           Route(n) == LastSet(c, {i \in 1 .. m : n \in Range(c.peers[i].allowed)},
                               "pub", Unset)
           Keys == {c.peers[i].pub : i \in 1 .. m}
           Nets == UNION {Range(c.peers[i].allowed) : i \in 1 .. m}
<1>11. Intended(c) =
         [private |-> c.private,
          peer |-> [k \in Keys |-> [psk |-> Psk(k), endpoint |-> Endpoint(k),
                                    keepalive |-> Keepalive(k)]],
          route |-> [n \in Nets |-> Route(n)]]
  BY <1>1 DEF Intended
<1>12. ASSUME NEW n \in Nets
       PROVE  PeerAt(L, Max({i \in Places(L, "allowed_ip") : L[i].to = n})) = Route(n)
  <2>1. n \in Values(L, "allowed_ip")
    BY <1>10
  <2>2. {i \in Places(L, "allowed_ip") : L[i].to = n} # {}
    BY <2>1 DEF Values
  <2> QED
    BY <1>9, <2>2
<1>13. /\ \A k : Value(L, k, "preshared_key", Unset) = Psk(k)
       /\ \A k : Value(L, k, "endpoint", Unset) = Endpoint(k)
       /\ \A k : Value(L, k, "persistent_keepalive_interval", 0) = Keepalive(k)
  BY <1>5, <1>6, <1>7
<1> HIDE DEF Psk, Endpoint, Keepalive, Route, Keys, Nets
<1>14. Device(L) =
         [private |-> c.private,
          peer |-> [k \in Keys |-> [psk |-> Psk(k), endpoint |-> Endpoint(k),
                                    keepalive |-> Keepalive(k)]],
          route |-> [n \in Nets |-> Route(n)]]
  <2>1. Values(L, "public_key") = Keys /\ Values(L, "allowed_ip") = Nets
    BY <1>4, <1>10 DEF Keys, Nets
  <2> QED
    BY <1>3, <1>12, <1>13, <2>1 DEF Device
<1> QED
  BY <1>11, <1>14

\* What the device makes of uapiConfig's text (wgmesh.go) is what the config
\* means, entries with one public key merged and the last claim to a network
\* winning, or nothing if one value is not acceptable: for every config.
THEOREM MeshRendering ==
    ASSUME NEW c, IsWGConfig(c)
    PROVE  IpcSet(uapiConfig(c)) = IF Acceptable(c) THEN Intended(c) ELSE Rejected
<1>1. PICK own : Renders(uapiConfig(c), c, own)
  BY Rendered
<1>2. Takeable(uapiConfig(c)) <=> Acceptable(c)
  BY <1>1, TakeableIff
<1>3. Device(uapiConfig(c)) = Intended(c)
  BY <1>1, DeviceIs
<1> QED
  BY <1>2, <1>3, IpcSetIs
=============================================================================
