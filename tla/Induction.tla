------------------------------ MODULE Induction ------------------------------
(***************************************************************************)
(* Induction over the natural numbers and over sequences in a form whose   *)
(* hypothesis is a set, so that the provers can instantiate it: a property *)
(* P is shown of every n by taking S == {n \in Nat : P(n)}.                *)
(***************************************************************************)
EXTENDS Integers, SequencesExt, SequenceTheorems, WellFoundedInduction, TLAPS

(* A set that holds 0 and the successor of each of its members holds every *)
(* natural number: the least of those it lacks would have a predecessor.   *)
LEMMA SetInduction ==
  ASSUME NEW S, 0 \in S, \A n \in Nat : n \in S => n + 1 \in S
  PROVE  Nat \subseteq S
<1>. DEFINE Less == {p \in Nat \X Nat : p[1] < p[2]}
<1>. DEFINE Rest == Nat \ S
<1>. SUFFICES ASSUME Rest # {} PROVE FALSE
  OBVIOUS
<1>1. IsWellFoundedOn(Less, Nat)
  BY ONLY NatLessThanWellFounded DEF OpToRel
<1>2. PICK m \in Rest : \A k \in Rest : ~(<<k, m>> \in Less)
  <2>1. Rest \subseteq Nat
    OBVIOUS
  <2>. HIDE DEF Less, Rest
  <2>2. \E x \in Rest : \A y \in Rest : ~(<<y, x>> \in Less)
    BY <1>1, <2>1, WFMin
  <2>3. QED BY <2>2
<1>3. m \in Nat /\ m \notin S /\ m # 0
  OBVIOUS
<1>4. m - 1 \in Nat /\ m - 1 < m /\ (m - 1) + 1 = m
  BY <1>3
<1>5. m - 1 \in S
  BY <1>2, <1>3, <1>4
<1>6. QED BY <1>3, <1>4, <1>5

(* The same for sequences, which grow at their end.                        *)
LEMMA SequenceInduction ==
  ASSUME NEW T, NEW S, <<>> \in S,
         \A s \in Seq(T), e \in T : s \in S => Append(s, e) \in S
  PROVE  Seq(T) \subseteq S
<1>. DEFINE N == {n \in Nat : \A s \in Seq(T) : Len(s) = n => s \in S}
<1>1. 0 \in N
  BY EmptySeq
<1>2. ASSUME NEW n \in Nat, n \in N PROVE n + 1 \in N
  <2>. SUFFICES ASSUME NEW s \in Seq(T), Len(s) = n + 1 PROVE s \in S
    OBVIOUS
  <2>. DEFINE t == SubSeq(s, 1, n)
  <2>1. Len(s) = n + 1 /\ \A i \in 1..(n + 1) : s[i] \in T
    BY ElementOfSeq
  <2>2. t \in Seq(T) /\ Len(t) = n /\ \A i \in 1..n : t[i] = s[i]
    BY <2>1, SubSeqProperties
  <2>3. s = Append(t, s[n + 1])
    <3>. HIDE DEF t
    <3>. QED  BY <2>1, <2>2
  <2>4. t \in S
    <3>. HIDE DEF t
    <3>. QED  BY <1>2, <2>2
  <2>5. s[n + 1] \in T
    BY <2>1
  <2>. HIDE DEF t, N
  <2>. QED  BY <2>2, <2>3, <2>4, <2>5
<1>3. Nat \subseteq N
  <2>. HIDE DEF N
  <2>. QED  BY <1>1, <1>2, SetInduction
<1>. QED  BY <1>3, LenProperties

(* What is appended to a sequence is the function of its elements.         *)
LEMMA AppendIsFunction ==
  ASSUME NEW T, NEW s \in Seq(T), NEW e \in T
  PROVE  Append(s, e) = [i \in 1..(Len(s) + 1) |-> Append(s, e)[i]]
<1>1. Append(s, e) \in Seq(T) /\ Len(Append(s, e)) = Len(s) + 1
  BY LenProperties
<1>. DEFINE a == Append(s, e)
<1>. HIDE DEF a
<1>2. a \in [1..Len(a) -> T]
  BY <1>1, LenProperties DEF a
<1>3. a = [i \in 1..Len(a) |-> a[i]]
  BY ONLY <1>2
<1>. QED  BY ONLY <1>1, <1>3 DEF a

-----------------------------------------------------------------------------
(***************************************************************************)
(* FlattenSeq builds its result with a recursive function over the indices *)
(* of its argument, which Flattens describes.  That there is one, and only *)
(* one, is shown by induction over the index.                              *)
(***************************************************************************)
Flattens(f, ss, n) ==
  f = [i \in 1..n |-> IF i = 1 THEN ss[i] ELSE f[i-1] \o ss[i]]

LEMMA FlattenerExists == \A ss : \A n \in Nat : \E f : Flattens(f, ss, n)
<1>. SUFFICES ASSUME NEW ss PROVE \A n \in Nat : \E f : Flattens(f, ss, n)
  OBVIOUS
<1>. DEFINE S == {n \in Nat : \E f : Flattens(f, ss, n)}
<1>1. 0 \in S
  <2>. DEFINE f == [i \in 1..0 |-> ss[i]]
  <2>1. Flattens(f, ss, 0)
    BY DEF Flattens
  <2>. QED  BY <2>1
<1>2. ASSUME NEW n \in Nat, n \in S PROVE n + 1 \in S
  <2>1. PICK f : Flattens(f, ss, n)
    BY <1>2
  <2>. DEFINE next == IF n = 0 THEN ss[1] ELSE f[n] \o ss[n + 1]
  <2>. DEFINE g == [i \in 1..(n+1) |-> IF i <= n THEN f[i] ELSE next]
  <2>2. ASSUME NEW i \in 1..(n+1)
        PROVE  g[i] = IF i = 1 THEN ss[i] ELSE g[i-1] \o ss[i]
    <3>1. CASE i <= n
      <4>1. i \in 1..n
        BY <3>1
      <4>2. f[i] = IF i = 1 THEN ss[i] ELSE f[i-1] \o ss[i]
        BY <2>1, <4>1 DEF Flattens
      <4>3. g[i] = f[i] /\ (i # 1 => g[i-1] = f[i-1])
        BY <4>1
      <4>. QED  BY <4>2, <4>3
    <3>2. CASE i = n + 1
      BY <3>2
    <3>. QED  BY <3>1, <3>2
  <2>3. Flattens(g, ss, n + 1)
    BY <2>2 DEF Flattens
  <2>. QED  BY <2>3
<1>. QED
  <2>. HIDE DEF S
  <2>1. Nat \subseteq S
    BY <1>1, <1>2, SetInduction
  <2>. QED  BY <2>1 DEF S

Agree(f, g, n) == \A i \in 1..n : f[i] = g[i]

LEMMA FlattenerIsUnique ==
  ASSUME NEW ss, NEW tt, NEW n \in Nat, NEW m \in Nat, n <= m, NEW f, NEW g,
         Flattens(f, ss, n), Flattens(g, tt, m), Agree(ss, tt, n)
  PROVE  Agree(f, g, n)
<1>. DEFINE S == {i \in Nat : i \in 1..n => f[i] = g[i]}
<1>1. 0 \in S
  OBVIOUS
<1>2. ASSUME NEW i \in Nat, i \in S PROVE i + 1 \in S
  <2>. SUFFICES ASSUME i + 1 \in 1..n PROVE f[i + 1] = g[i + 1]
    OBVIOUS
  <2>1. i + 1 \in 1..m /\ ss[i + 1] = tt[i + 1]
    BY DEF Agree
  <2>2. /\ f[i + 1] = IF i + 1 = 1 THEN ss[i + 1] ELSE f[(i + 1) - 1] \o ss[i + 1]
        /\ g[i + 1] = IF i + 1 = 1 THEN tt[i + 1] ELSE g[(i + 1) - 1] \o tt[i + 1]
    BY <2>1 DEF Flattens
  <2>3. CASE i = 0
    BY <2>1, <2>2, <2>3
  <2>4. CASE i # 0
    <3>1. f[i] = g[i] /\ (i + 1) - 1 = i /\ i + 1 # 1
      BY <1>2, <2>4
    <3>. QED  BY <2>1, <2>2, <3>1
  <2>. QED  BY <2>3, <2>4
<1>. QED
  <2>. HIDE DEF S
  <2>1. Nat \subseteq S
    BY <1>1, <1>2, SetInduction
  <2>. QED  BY <2>1 DEF S, Agree

(* What FlattenSeq chooses is such a function.                             *)
LEMMA FlattenIsBuilt ==
  ASSUME NEW ss, Len(ss) \in Nat, Len(ss) # 0
  PROVE  \E f : Flattens(f, ss, Len(ss)) /\ FlattenSeq(ss) = f[Len(ss)]
<1>. DEFINE n == Len(ss)
<1>. DEFINE f == CHOOSE h : h = [i \in 1..n |-> IF i = 1 THEN ss[i] ELSE h[i-1] \o ss[i]]
<1>1. FlattenSeq(ss) = f[n]
  BY DEF FlattenSeq
<1>2. \E h : h = [i \in 1..n |-> IF i = 1 THEN ss[i] ELSE h[i-1] \o ss[i]]
  <2>1. PICK h : Flattens(h, ss, n)
    BY FlattenerExists
  <2>2. h = [i \in 1..n |-> IF i = 1 THEN ss[i] ELSE h[i-1] \o ss[i]]
    BY <2>1 DEF Flattens
  <2>. QED  BY <2>2
<1>3. f = [i \in 1..n |-> IF i = 1 THEN ss[i] ELSE f[i-1] \o ss[i]]
  BY <1>2
<1>4. Flattens(f, ss, n)
  BY <1>3 DEF Flattens
<1>. QED  BY <1>1, <1>4

LEMMA FlattenEmpty == FlattenSeq(<<>>) = <<>>
BY DEF FlattenSeq

(* The equation of the recursion.                                          *)
LEMMA FlattenAppend ==
  ASSUME NEW T, NEW ss \in Seq(Seq(T)), NEW s \in Seq(T)
  PROVE  FlattenSeq(Append(ss, s)) = FlattenSeq(ss) \o s
<1>. DEFINE n == Len(ss)
<1>. DEFINE tt == Append(ss, s)
<1>0. n \in Nat /\ Len(tt) = n + 1 /\ tt[n + 1] = s /\ \A i \in 1..n : ss[i] = tt[i]
  BY LenProperties
<1>1. PICK g : Flattens(g, tt, n + 1) /\ FlattenSeq(tt) = g[n + 1]
  <2>1. Len(tt) \in Nat /\ Len(tt) # 0
    BY ONLY <1>0
  <2>2. \E g : Flattens(g, tt, Len(tt)) /\ FlattenSeq(tt) = g[Len(tt)]
    <3>. HIDE DEF tt
    <3>. QED  BY ONLY <2>1, FlattenIsBuilt
  <2>. QED  BY ONLY <1>0, <2>2
<1>. HIDE DEF tt
<1>2. CASE n = 0
  <2>1. g[1] = s
    BY <1>0, <1>1, <1>2 DEF Flattens
  <2>2. ss = <<>>
    BY <1>2, EmptySeq
  <2>3. FlattenSeq(ss) \o s = s
    BY <2>2, FlattenEmpty, ConcatEmptySeq
  <2>. QED  BY <1>1, <1>2, <2>1, <2>3 DEF tt
<1>3. CASE n # 0
  <2>1. PICK f : Flattens(f, ss, n) /\ FlattenSeq(ss) = f[n]
    BY <1>0, <1>3, FlattenIsBuilt
  <2>2. f[n] = g[n]
    <3>1. n \in 1..n /\ n <= n + 1 /\ n + 1 \in Nat
      BY <1>0, <1>3
    <3>2. Agree(f, g, n)
      <4>1. n \in Nat /\ n + 1 \in Nat /\ n <= n + 1
        BY <1>0
      <4>2. Agree(ss, tt, n)
        BY ONLY <1>0 DEF Agree
      <4>. HIDE DEF n
      <4>. QED  BY <1>1, <2>1, <4>1, <4>2, FlattenerIsUnique
    <3>. QED  BY <3>1, <3>2 DEF Agree
  <2>3. g[n + 1] = g[n] \o s
    <3>1. n + 1 \in 1..(n + 1) /\ n + 1 # 1 /\ (n + 1) - 1 = n
      BY <1>0, <1>3
    <3>2. g[n + 1] = g[(n + 1) - 1] \o tt[n + 1]
      BY <1>1, <3>1 DEF Flattens
    <3>. QED  BY <1>0, <3>1, <3>2
  <2>. QED  BY <1>1, <2>1, <2>2, <2>3 DEF tt
<1>. QED  BY <1>2, <1>3

LEMMA FlattenTyped ==
  ASSUME NEW T
  PROVE  \A ss \in Seq(Seq(T)) : FlattenSeq(ss) \in Seq(T)
<1>. DEFINE S == {ss \in Seq(Seq(T)) : FlattenSeq(ss) \in Seq(T)}
<1>1. <<>> \in S
  BY FlattenEmpty, EmptySeq
<1>2. ASSUME NEW ss \in Seq(Seq(T)), NEW s \in Seq(T), ss \in S PROVE Append(ss, s) \in S
  <2>1. FlattenSeq(Append(ss, s)) \in Seq(T)
    BY <1>2, FlattenAppend, ConcatProperties
  <2>. QED  BY <2>1
<1>. QED
  <2>. HIDE DEF S
  <2>1. Seq(Seq(T)) \subseteq S
    BY <1>1, <1>2, SequenceInduction
  <2>. QED  BY <2>1 DEF S

LEMMA FlattenConcat ==
  ASSUME NEW T, NEW rr \in Seq(Seq(T))
  PROVE  \A ss \in Seq(Seq(T)) : FlattenSeq(rr \o ss) = FlattenSeq(rr) \o FlattenSeq(ss)
<1>. DEFINE S == {ss \in Seq(Seq(T)) : FlattenSeq(rr \o ss) = FlattenSeq(rr) \o FlattenSeq(ss)}
<1>1. <<>> \in S
  BY FlattenEmpty, FlattenTyped, EmptySeq, ConcatEmptySeq
<1>2. ASSUME NEW ss \in Seq(Seq(T)), NEW s \in Seq(T), ss \in S PROVE Append(ss, s) \in S
  <2>1. rr \o Append(ss, s) = Append(rr \o ss, s) /\ rr \o ss \in Seq(Seq(T))
    OBVIOUS
  <2>2. FlattenSeq(rr \o Append(ss, s)) = FlattenSeq(rr \o ss) \o s
    BY <2>1, FlattenAppend
  <2>3. FlattenSeq(Append(ss, s)) = FlattenSeq(ss) \o s
    BY FlattenAppend
  <2>4. FlattenSeq(rr) \in Seq(T) /\ FlattenSeq(ss) \in Seq(T)
    BY FlattenTyped
  <2>5. (FlattenSeq(rr) \o FlattenSeq(ss)) \o s = FlattenSeq(rr) \o (FlattenSeq(ss) \o s)
    BY ONLY <2>4, s \in Seq(T), ConcatAssociative
  <2>6. FlattenSeq(rr \o ss) = FlattenSeq(rr) \o FlattenSeq(ss)
    BY <1>2
  <2>7. FlattenSeq(rr \o Append(ss, s)) = FlattenSeq(rr) \o FlattenSeq(Append(ss, s))
    BY <2>2, <2>3, <2>5, <2>6
  <2>. QED  BY <2>7
<1>. QED
  <2>. HIDE DEF S
  <2>1. Seq(Seq(T)) \subseteq S
    BY <1>1, <1>2, SequenceInduction
  <2>. QED  BY <2>1 DEF S
-----------------------------------------------------------------------------
(* The elements of a concatenation are those of its parts.                 *)
LEMMA ConcatRange ==
  ASSUME NEW T, NEW s \in Seq(T), NEW t \in Seq(T)
  PROVE  Range(s \o t) = Range(s) \cup Range(t)
<1>1. /\ DOMAIN s = 1..Len(s) /\ Len(s) \in Nat /\ DOMAIN t = 1..Len(t) /\ Len(t) \in Nat
      /\ DOMAIN (s \o t) = 1..(Len(s) + Len(t))
      /\ \A i \in 1..Len(s) : (s \o t)[i] = s[i]
      /\ \A i \in (Len(s) + 1)..(Len(s) + Len(t)) : (s \o t)[i] = t[i - Len(s)]
  <2>1. s \o t \in Seq(T) /\ Len(s \o t) = Len(s) + Len(t)
    BY ConcatProperties
  <2>. QED  BY <2>1, ConcatProperties, LenProperties
<1>2. ASSUME NEW x \in Range(s \o t) PROVE x \in Range(s) \cup Range(t)
  <2>1. PICK i \in 1..(Len(s) + Len(t)) : x = (s \o t)[i]
    BY ONLY <1>1, <1>2 DEF Range
  <2>2. CASE i <= Len(s)
    BY ONLY <1>1, <2>1, <2>2 DEF Range
  <2>3. CASE i > Len(s)
    <3>1. i - Len(s) \in DOMAIN t /\ x = t[i - Len(s)]
      BY ONLY <1>1, <2>1, <2>3
    <3>. QED  BY ONLY <3>1 DEF Range
  <2>. QED  BY ONLY <1>1, <2>1, <2>2, <2>3
<1>3. ASSUME NEW x \in Range(s) PROVE x \in Range(s \o t)
  BY ONLY <1>1, <1>3 DEF Range
<1>4. ASSUME NEW x \in Range(t) PROVE x \in Range(s \o t)
  <2>1. PICK j \in 1..Len(t) : x = t[j]
    BY ONLY <1>1, <1>4 DEF Range
  <2>2. /\ Len(s) + j \in (Len(s) + 1)..(Len(s) + Len(t))
        /\ Len(s) + j \in DOMAIN (s \o t) /\ (Len(s) + j) - Len(s) = j
    BY ONLY <1>1
  <2>. QED  BY ONLY <1>1, <2>1, <2>2 DEF Range
<1>. QED  BY ONLY <1>2, <1>3, <1>4

(* A map over a sequence that grows at its end.                            *)
LEMMA MapAppend ==
  ASSUME NEW T, NEW U, NEW f \in [T -> U], NEW s \in Seq(T), NEW e \in T
  PROVE  /\ [i \in DOMAIN s |-> f[s[i]]] \in Seq(U)
         /\ [i \in DOMAIN Append(s, e) |-> f[Append(s, e)[i]]]
              = Append([i \in DOMAIN s |-> f[s[i]]], f[e])
<1>. DEFINE m == [i \in DOMAIN s |-> f[s[i]]]
<1>1. /\ Len(s) \in Nat /\ DOMAIN s = 1..Len(s) /\ DOMAIN Append(s, e) = 1..(Len(s) + 1)
      /\ Append(s, e)[Len(s) + 1] = e /\ \A i \in 1..Len(s) : Append(s, e)[i] = s[i] /\ s[i] \in T
  BY LenProperties, ElementOfSeq
<1>2. m \in [1..Len(s) -> U]
  BY ONLY <1>1, f \in [T -> U]
<1>3. /\ \A i \in 1..Len(s) : m[i] = f[s[i]]
      /\ f[e] \in U
  BY <1>1
<1>. HIDE DEF m
<1>4. m \in Seq(U) /\ Len(m) = Len(s)
  BY ONLY <1>1, <1>2, LenProperties
<1>5. /\ Append(m, f[e]) = [i \in 1..(Len(m) + 1) |-> Append(m, f[e])[i]]
      /\ Append(m, f[e])[Len(m) + 1] = f[e] /\ \A i \in 1..Len(m) : Append(m, f[e])[i] = m[i]
  BY ONLY <1>3, <1>4, AppendIsFunction, LenProperties
<1>6. \A i \in 1..(Len(s) + 1) : Append(m, f[e])[i] = f[Append(s, e)[i]]
  <2>1. \A i \in 1..(Len(s) + 1) : i \in 1..Len(s) \/ i = Len(s) + 1
    BY ONLY <1>1
  <2>. QED  BY ONLY <1>1, <1>3, <1>4, <1>5, <2>1
<1>7. [i \in DOMAIN Append(s, e) |-> f[Append(s, e)[i]]] = Append(m, f[e])
  BY ONLY <1>1, <1>4, <1>5, <1>6
<1>. QED  BY ONLY <1>4, <1>7 DEF m

(* And those of a flattened sequence are those of its members.             *)
LEMMA FlattenRange ==
  ASSUME NEW T
  PROVE  \A ss \in Seq(Seq(T)) : Range(FlattenSeq(ss)) = UNION {Range(ss[i]) : i \in DOMAIN ss}
<1>. DEFINE S == {ss \in Seq(Seq(T)) : Range(FlattenSeq(ss)) = UNION {Range(ss[i]) : i \in DOMAIN ss}}
<1>1. <<>> \in S
  <2>1. Range(<<>>) = {} /\ DOMAIN <<>> = {} /\ <<>> \in Seq(Seq(T))
    BY EmptySeq DEF Range
  <2>2. UNION {Range(<<>>[i]) : i \in DOMAIN <<>>} = {}
    BY ONLY <2>1
  <2>3. Range(FlattenSeq(<<>>)) = {}
    BY ONLY <2>1, FlattenEmpty
  <2>. QED  BY ONLY <2>1, <2>2, <2>3
<1>2. ASSUME NEW ss \in Seq(Seq(T)), NEW s \in Seq(T), ss \in S PROVE Append(ss, s) \in S
  <2>1. Range(FlattenSeq(Append(ss, s))) = Range(FlattenSeq(ss)) \cup Range(s)
    <3>1. FlattenSeq(Append(ss, s)) = FlattenSeq(ss) \o s /\ FlattenSeq(ss) \in Seq(T)
      BY FlattenAppend, FlattenTyped
    <3>. QED  BY ONLY <3>1, s \in Seq(T), ConcatRange
  <2>2. /\ Len(ss) \in Nat /\ DOMAIN ss = 1..Len(ss)
        /\ DOMAIN Append(ss, s) = 1..(Len(ss) + 1) /\ Append(ss, s)[Len(ss) + 1] = s
        /\ \A i \in 1..Len(ss) : Append(ss, s)[i] = ss[i]
    BY LenProperties
  <2>3. 1..(Len(ss) + 1) = 1..Len(ss) \cup {Len(ss) + 1}
    BY ONLY <2>2
  <2>4. UNION {Range(Append(ss, s)[i]) : i \in DOMAIN Append(ss, s)}
          = (UNION {Range(ss[i]) : i \in DOMAIN ss}) \cup Range(s)
    BY ONLY <2>2, <2>3
  <2>5. Append(ss, s) \in Seq(Seq(T))
    BY AppendProperties
  <2>. QED  BY ONLY <1>2, <2>1, <2>4, <2>5
<1>. QED
  <2>. HIDE DEF S
  <2>1. Seq(Seq(T)) \subseteq S
    BY <1>1, <1>2, SequenceInduction
  <2>. QED  BY <2>1 DEF S

(* A sequence is the concatenation of its elements.                        *)
LEMMA FlattenSingles ==
  ASSUME NEW T
  PROVE  \A s \in Seq(T) : FlattenSeq([i \in DOMAIN s |-> <<s[i]>>]) = s
<1>. DEFINE S == {s \in Seq(T) : FlattenSeq([i \in DOMAIN s |-> <<s[i]>>]) = s}
<1>. DEFINE f == [x \in T |-> <<x>>]
<1>0. f \in [T -> Seq(T)] /\ \A x \in T : f[x] = <<x>> /\ <<x>> \in Seq(T)
  OBVIOUS
<1>1. <<>> \in S
  BY EmptySeq, FlattenEmpty
<1>2. ASSUME NEW s \in Seq(T), NEW e \in T, s \in S PROVE Append(s, e) \in S
  <2>. HIDE DEF f
  <2>1. \A t \in Seq(T) : [i \in DOMAIN t |-> <<t[i]>>] = [i \in DOMAIN t |-> f[t[i]]]
    BY <1>0, LenProperties, ElementOfSeq
  <2>2. /\ [i \in DOMAIN s |-> f[s[i]]] \in Seq(Seq(T))
        /\ [i \in DOMAIN Append(s, e) |-> f[Append(s, e)[i]]]
             = Append([i \in DOMAIN s |-> f[s[i]]], f[e])
    BY <1>0, MapAppend
  <2>3. FlattenSeq([i \in DOMAIN Append(s, e) |-> f[Append(s, e)[i]]])
          = FlattenSeq([i \in DOMAIN s |-> f[s[i]]]) \o <<e>>
    BY <1>0, <2>2, FlattenAppend
  <2>4. Append(s, e) = s \o <<e>> /\ Append(s, e) \in Seq(T)
    BY AppendProperties
  <2>. QED  BY <1>2, <2>1, <2>3, <2>4
<1>. QED
  <2>. HIDE DEF S
  <2>1. Seq(T) \subseteq S
    BY <1>1, <1>2, SequenceInduction
  <2>. QED  BY <2>1 DEF S
=============================================================================
