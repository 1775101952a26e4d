------------------------- MODULE ConversionProofs ---------------------------
(***************************************************************************)
(* The limits of the HTTP core, the conversion of quotas and the forms,    *)
(* for every width of the integers and every value of the inputs.          *)
(***************************************************************************)
EXTENDS Decoders, FormEncoding, Induction, FiniteSetTheorems

(* An operation whose exact result fits in the type is not changed.        *)
LEMMA WrapInRange ==
  ASSUME NEW x \in Int, x >= -(MaxInt + 1), x <= MaxInt
  PROVE  Wrap(x) = x
BY LimitsAssumption DEF Wrap

(* One above the largest value is the smallest value.                      *)
LEMMA WrapAbove == Wrap(MaxInt + 1) = -(MaxInt + 1)
BY LimitsAssumption DEF Wrap

(* The early cap of retryAfter keeps the multiplication within the limit.  *)
LEMMA SecondsFit ==
  ASSUME NEW limit \in Nat, NEW n \in Nat, n <= limit \div Second
  PROVE  n * Second \in 0..limit
BY LimitsAssumption

(* A number of seconds is honoured exactly up to the cap: the client waits *)
(* n seconds if they fit and the cap if they do not, with no wrap of the   *)
(* int64 multiplication for any n.                                         *)
THEOREM SecondsAreClamped ==
  ASSUME NEW n \in Nat, NEW limit \in 1..MaxInt
  PROVE  RetryAfter([form |-> "seconds", n |-> n], limit) = Smaller(n * Second, limit)
<1>. DEFINE h == [form |-> "seconds", n |-> n]
<1>1. CASE n > limit \div Second
  <2>1. n * Second > limit
    BY <1>1, LimitsAssumption
  <2>2. RetryAfter(h, limit) = limit
    BY <1>1 DEF RetryAfter, Capped
  <2>. QED  BY <2>1, <2>2, LimitsAssumption DEF Smaller
<1>2. CASE n <= limit \div Second
  <2>1. n * Second \in 0..limit
    BY <1>2, SecondsFit
  <2>2. Wrap(n * Second) = n * Second
    BY <2>1, WrapInRange, LimitsAssumption
  <2>3. ~Capped(h, limit)
    BY <1>2, LimitsAssumption DEF Capped
  <2>4. Requested(h) = n * Second
    BY <2>2 DEF Requested
  <2>. QED  BY <2>1, <2>3, <2>4 DEF RetryAfter, Smaller
<1>. QED  BY <1>1, <1>2, LimitsAssumption

(* readBodyLimited returns the whole body or reports it as too large: the  *)
(* one byte it probes beyond the limit is always enough to tell, and the   *)
(* largest int64 as a limit means no limit instead of an empty body.       *)
THEOREM BodyIsNeverTruncated ==
  ASSUME NEW len \in 0..MaxInt, NEW limit \in 1..MaxInt
  PROVE  /\ TooLarge(len, limit) <=> len > limit
         /\ len <= limit => BytesRead(len, limit) = len
<1>1. CASE limit = MaxInt
  <2>1. Probe(limit) = MaxInt
    BY <1>1, WrapAbove, LimitsAssumption DEF Probe
  <2>. QED  BY <1>1, <2>1, LimitsAssumption DEF TooLarge, BytesRead, Smaller
<1>2. CASE limit < MaxInt
  <2>1. Wrap(limit + 1) = limit + 1
    BY <1>2, WrapInRange, LimitsAssumption
  <2>2. Probe(limit) = limit + 1
    BY <2>1, LimitsAssumption DEF Probe
  <2>. QED  BY <2>2, LimitsAssumption DEF TooLarge, BytesRead, Smaller
<1>. QED  BY <1>1, <1>2, LimitsAssumption

-----------------------------------------------------------------------------
(***************************************************************************)
(* Rounding to a float.  The step of a float is a power of two; a larger   *)
(* number has as large a step or a larger one.                             *)
(***************************************************************************)
(* A power of two above one has a half, and the next one is twice as large. *)
LEMMA PowersAreNat ==
  \A u \in PowersOfTwo :
    u \in Nat /\ u > 0 /\ (u > 1 => u \div 2 \in PowersOfTwo /\ 2 * (u \div 2) = u)
BY DEF PowersOfTwo

LEMMA PowersApart == \A u, w \in PowersOfTwo : u < w => 2 * u <= w
BY DEF PowersOfTwo

(* A number rounded to a multiple of u, a tie to the even one.             *)
Rounded(x, u) ==
  LET low == (x \div u) * u
  IN  IF \/ 2 * (x - low) < u
         \/ 2 * (x - low) = u /\ (x \div u) % 2 = 0
      THEN low ELSE low + u

LEMMA Divides ==
  ASSUME NEW x \in Nat, NEW u \in Nat \ {0}
  PROVE  x \div u \in Nat /\ (x \div u) * u <= x /\ x < (x \div u) * u + u
OBVIOUS

LEMMA QuotientIsUnique ==
  ASSUME NEW x \in Nat, NEW u \in Nat \ {0}, NEW q \in Nat, q * u <= x, x < q * u + u
  PROVE  x \div u = q
OBVIOUS

LEMMA ProductsKeepOrder ==
  ASSUME NEW a \in Nat, NEW b \in Nat, NEW u \in Nat, a <= b
  PROVE  a * u <= b * u /\ a * u \in Nat /\ b * u \in Nat
OBVIOUS

(* The step of x is the least power of two at which x has a float.         *)
LEMMA UlpFits ==
  ASSUME NEW x \in Nat, x < FloatMax * 8192
  PROVE  /\ Ulp(x) \in PowersOfTwo
         /\ x < FloatMax * Ulp(x)
         /\ Ulp(x) > 1 => x >= FloatMax * (Ulp(x) \div 2)
<1>. DEFINE Fits(u) == x < FloatMax * u /\ (u > 1 => x >= FloatMax * (u \div 2))
<1>1. \E u \in PowersOfTwo : Fits(u)
  BY DecodersAssumption DEF PowersOfTwo
<1>2. Ulp(x) = CHOOSE u \in PowersOfTwo : Fits(u)
  BY DEF Ulp
<1>3. Ulp(x) \in PowersOfTwo /\ Fits(Ulp(x))
  <2>. HIDE DEF Fits
  <2>. QED  BY ONLY <1>1, <1>2, Zenon
<1>. QED  BY <1>3

(* At one step, rounding keeps the order.                                  *)
LEMMA RoundedKeepsOrder ==
  ASSUME NEW x \in Nat, NEW y \in Nat, NEW u \in Nat \ {0}, x <= y
  PROVE  Rounded(x, u) \in Nat /\ Rounded(x, u) <= Rounded(y, u)
<1>. DEFINE p == x \div u
<1>. DEFINE q == y \div u
<1>1. p \in Nat /\ p * u <= x /\ x < p * u + u
  BY Divides
<1>2. q \in Nat /\ q * u <= y /\ y < q * u + u
  BY Divides
<1>3. p * u \in Nat /\ q * u \in Nat
  BY ONLY <1>1, <1>2, u \in Nat
<1>4. Rounded(x, u) \in {p * u, p * u + u} /\ Rounded(y, u) \in {q * u, q * u + u}
  BY DEF Rounded
<1>5. CASE p = q
  <2>. DEFINE low == p * u
  <2>1. Rounded(x, u) = IF 2 * (x - low) < u \/ (2 * (x - low) = u /\ p % 2 = 0)
                        THEN low ELSE low + u
    BY DEF Rounded
  <2>2. Rounded(y, u) = IF 2 * (y - low) < u \/ (2 * (y - low) = u /\ p % 2 = 0)
                        THEN low ELSE low + u
    BY <1>5 DEF Rounded
  <2>3. low \in Nat
    BY <1>3
  <2>. HIDE DEF low, p, q
  <2>. QED  BY ONLY <2>1, <2>2, <2>3, x \in Nat, y \in Nat, x <= y, u \in Nat
<1>6. CASE p < q
  <2>1. (p + 1) * u <= q * u
    BY <1>1, <1>2, <1>6, ProductsKeepOrder
  <2>2. (p + 1) * u = p * u + u
    BY ONLY <1>1, u \in Nat
  <2>. HIDE DEF p, q
  <2>. QED  BY ONLY <1>3, <1>4, <2>1, <2>2, u \in Nat
<1>7. CASE p > q
  <2>1. (q + 1) * u <= p * u
    BY <1>1, <1>2, <1>7, ProductsKeepOrder
  <2>2. (q + 1) * u = q * u + u
    BY ONLY <1>2, u \in Nat
  <2>. HIDE DEF p, q
  <2>. QED  BY ONLY <1>1, <1>2, <1>3, <2>1, <2>2, u \in Nat, x \in Nat, y \in Nat, x <= y
<1>. HIDE DEF p, q
<1>. QED  BY ONLY <1>1, <1>2, <1>5, <1>6, <1>7

(* A number that is a multiple of the step stays what it is.               *)
LEMMA MultiplesStay ==
  ASSUME NEW q \in Nat, NEW u \in Nat \ {0}
  PROVE  Rounded(q * u, u) = q * u
<1>1. q * u \in Nat
  OBVIOUS
<1>2. (q * u) \div u = q
  BY <1>1, QuotientIsUnique
<1>3. 2 * (q * u - q * u) < u
  BY <1>1
<1>. QED  BY <1>2, <1>3 DEF Rounded

(* Rounding commutes with a factor of the number and the step.             *)
LEMMA RoundedScales ==
  ASSUME NEW x \in Nat, NEW u \in Nat \ {0}, NEW p \in Nat \ {0}
  PROVE  Rounded(x * p, u * p) = Rounded(x, u) * p
<1>. DEFINE q == x \div u
<1>. DEFINE low == q * u
<1>1. q \in Nat /\ low <= x /\ x < low + u /\ low \in Nat
  BY Divides
<1>2. q * (u * p) = low * p
  <2>. HIDE DEF q
  <2>. QED  BY ONLY <1>1, u \in Nat, p \in Nat
<1>3. x * p \in Nat /\ u * p \in Nat \ {0} /\ low * p \in Nat /\ (low + u) * p = low * p + u * p
  BY <1>1
<1>4. low * p <= x * p /\ x * p < low * p + u * p
  <2>1. low * p <= x * p
    BY <1>1, ProductsKeepOrder
  <2>2. (x + 1) * p <= (low + u) * p
    BY <1>1, ProductsKeepOrder
  <2>3. (x + 1) * p = x * p + p
    OBVIOUS
  <2>. HIDE DEF low
  <2>. QED  BY ONLY <1>3, <2>1, <2>2, <2>3, p \in Nat \ {0}
<1>5. (x * p) \div (u * p) = q
  <2>. HIDE DEF q, low
  <2>. QED  BY <1>1, <1>2, <1>3, <1>4, QuotientIsUnique
<1>6. x * p - low * p = (x - low) * p /\ x - low \in Nat
  BY <1>1
<1>7. /\ 2 * (x * p - low * p) < u * p <=> 2 * (x - low) < u
      /\ 2 * (x * p - low * p) = u * p <=> 2 * (x - low) = u
  <2>. DEFINE d == 2 * (x - low)
  <2>1. d \in Nat /\ 2 * (x * p - low * p) = d * p
    BY <1>6
  <2>2. \A a, b \in Nat : (a * p < b * p <=> a < b) /\ (a * p = b * p <=> a = b)
    OBVIOUS
  <2>. HIDE DEF d
  <2>3. (d * p < u * p <=> d < u) /\ (d * p = u * p <=> d = u)
    BY ONLY <2>1, <2>2, u \in Nat
  <2>. USE DEF d
  <2>. QED  BY ONLY <2>1, <2>3
<1>. QED  BY <1>1, <1>2, <1>3, <1>5, <1>7 DEF Rounded

(* One step divides the other, with an even quotient if they differ.       *)
Nested(a, b) == a = b \/ \E k \in Nat \ {0} : b = (2 * k) * a \/ a = (2 * k) * b

(* x is a float of step u: u is the least for x, or x needs no rounding.   *)
IsStep(x, u) ==
  /\ u \in Nat \ {0}
  /\ x < FloatMax * u
  /\ \/ \E h \in Nat : u = 2 * h /\ x >= FloatMax * h
     \/ \E q \in Nat : x = q * u

(* Rounding does not pass a multiple of the step.                          *)
LEMMA SmallerRounded ==
  ASSUME NEW x \in Nat, NEW u \in Nat \ {0}, NEW q \in Nat
  PROVE  /\ x <= q * u => Rounded(x, u) <= q * u
         /\ x >= q * u => Rounded(x, u) >= q * u
<1>1. q * u \in Nat
  OBVIOUS
<1>2. Rounded(q * u, u) = q * u
  BY MultiplesStay
<1>. QED  BY <1>1, <1>2, RoundedKeepsOrder

(* Across steps, too, rounding keeps the order: at the bound between two   *)
(* steps there is a float of both.                                         *)
LEMMA RoundingKeepsOrder ==
  ASSUME NEW x \in Nat, NEW y \in Nat, x <= y, NEW u, NEW w,
         IsStep(x, u), IsStep(y, w), Nested(u, w)
  PROVE  Rounded(x, u) <= Rounded(y, w)
<1>1. u \in Nat \ {0} /\ w \in Nat \ {0} /\ x < FloatMax * u /\ y < FloatMax * w
  BY DEF IsStep
<1>2. PICK f \in Nat : FloatMax = 2 * f
  BY DecodersAssumption
<1>3. Rounded(x, u) \in Nat /\ Rounded(y, w) \in Nat
  BY <1>1, RoundedKeepsOrder
<1>4. CASE u = w
  BY <1>1, <1>4, RoundedKeepsOrder
<1>5. ASSUME NEW k \in Nat \ {0}, w = (2 * k) * u PROVE Rounded(x, u) <= Rounded(y, w)
  <2>1. Rounded(x, u) <= FloatMax * u
    <3>1. FloatMax \in Nat /\ x <= FloatMax * u
      BY <1>1, DecodersAssumption
    <3>. QED  BY <1>1, <3>1, SmallerRounded
  <2>2. ASSUME NEW h \in Nat, w = 2 * h, y >= FloatMax * h PROVE Rounded(x, u) <= Rounded(y, w)
    <3>1. h = k * u
      BY ONLY <1>1, <1>5, <2>2, k \in Nat, h \in Nat
    <3>2. u <= h
      BY ONLY <1>1, <3>1, k \in Nat \ {0}
    <3>3. FloatMax * h = f * w
      BY ONLY <1>2, <2>2, h \in Nat, f \in Nat
    <3>4. Rounded(y, w) >= f * w
      BY <1>1, <2>2, <3>3, SmallerRounded
    <3>5. u * FloatMax <= h * FloatMax /\ u * FloatMax \in Nat /\ h * FloatMax \in Nat
      BY <1>1, <3>2, ProductsKeepOrder, DecodersAssumption
    <3>6. u * FloatMax = FloatMax * u /\ h * FloatMax = FloatMax * h
      BY <1>1, DecodersAssumption
    <3>. QED  BY ONLY <1>3, <2>1, <3>3, <3>4, <3>5, <3>6
  <2>3. ASSUME NEW q \in Nat, y = q * w PROVE Rounded(x, u) <= Rounded(y, w)
    <3>1. Rounded(y, w) = y
      BY <1>1, <2>3, MultiplesStay
    <3>2. y = (q * (2 * k)) * u /\ q * (2 * k) \in Nat
      BY ONLY <1>1, <1>5, <2>3, q \in Nat, k \in Nat
    <3>3. Rounded(x, u) <= y
      BY <1>1, <3>2, SmallerRounded
    <3>. QED  BY <3>1, <3>3
  <2>. QED  BY <2>2, <2>3 DEF IsStep
<1>6. ASSUME NEW k \in Nat \ {0}, u = (2 * k) * w PROVE Rounded(x, u) <= Rounded(y, w)
  <2>1. ASSUME NEW h \in Nat, u = 2 * h, x >= FloatMax * h PROVE FALSE
    <3>1. h = k * w
      BY ONLY <1>1, <1>6, <2>1, k \in Nat, h \in Nat
    <3>2. w <= h
      BY ONLY <1>1, <3>1, k \in Nat \ {0}
    <3>3. w * FloatMax <= h * FloatMax /\ w * FloatMax \in Nat /\ h * FloatMax \in Nat
      BY <1>1, <3>2, ProductsKeepOrder, DecodersAssumption
    <3>4. w * FloatMax = FloatMax * w /\ h * FloatMax = FloatMax * h
      BY <1>1, DecodersAssumption
    <3>. QED  BY ONLY <1>1, <2>1, <3>3, <3>4, x \in Nat, y \in Nat, x <= y
  <2>2. ASSUME NEW q \in Nat, x = q * u PROVE Rounded(x, u) <= Rounded(y, w)
    <3>1. Rounded(x, u) = x
      BY <1>1, <2>2, MultiplesStay
    <3>2. x = (q * (2 * k)) * w /\ q * (2 * k) \in Nat
      BY ONLY <1>1, <1>6, <2>2, q \in Nat, k \in Nat
    <3>3. Rounded(y, w) >= x
      BY <1>1, <3>2, SmallerRounded
    <3>. QED  BY <3>1, <3>3
  <2>. QED  BY <2>1, <2>2 DEF IsStep
<1>. QED  BY <1>4, <1>5, <1>6 DEF Nested

LEMMA NestedDoubles ==
  ASSUME NEW p \in Nat \ {0}, \A u \in PowersOfTwo : Nested(u, p)
  PROVE  \A u \in PowersOfTwo : Nested(u, 2 * p)
<1>. SUFFICES ASSUME NEW u \in PowersOfTwo PROVE Nested(u, 2 * p)
  OBVIOUS
<1>1. CASE u = 1
  <2>1. 2 * p = (2 * p) * 1
    OBVIOUS
  <2>. QED  BY ONLY <1>1, <2>1, p \in Nat \ {0} DEF Nested
<1>2. CASE u > 1
  <2>1. u \div 2 \in PowersOfTwo /\ u = 2 * (u \div 2) /\ u \div 2 \in Nat
    BY <1>2, PowersAreNat
  <2>2. PICK h \in Nat : u = 2 * h /\ Nested(h, p)
    BY <2>1
  <2>3. ASSUME NEW k \in Nat \ {0}, p = (2 * k) * h PROVE Nested(u, 2 * p)
    <3>1. 2 * p = (2 * k) * u
      BY ONLY <2>2, <2>3, h \in Nat, k \in Nat
    <3>. QED  BY <3>1 DEF Nested
  <2>4. ASSUME NEW k \in Nat \ {0}, h = (2 * k) * p PROVE Nested(u, 2 * p)
    <3>1. u = (2 * k) * (2 * p)
      BY ONLY <2>2, <2>4, p \in Nat, k \in Nat
    <3>. QED  BY <3>1 DEF Nested
  <2>5. h = p => u = 2 * p
    BY <2>2
  <2>. QED  BY <2>2, <2>3, <2>4, <2>5 DEF Nested
<1>. QED  BY <1>1, <1>2, PowersAreNat

(* What a power of two and every product of them is: it is nested with all *)
(* steps.                                                                  *)
Scaling == {p \in Nat \ {0} : \A u \in PowersOfTwo : Nested(u, p)}

LEMMA ScalingDoubles == \A p \in Scaling : 2 * p \in Scaling
BY NestedDoubles DEF Scaling

LEMMA ScalingMultiplies ==
  ASSUME NEW p \in Scaling, NEW w \in PowersOfTwo
  PROVE  w * p \in Scaling
<1>. DEFINE S == {v \in Nat : v * p \in Scaling}
<1>1. p \in Nat
  BY DEF Scaling
<1>2. 1 \in S
  BY <1>1
<1>3. ASSUME NEW v \in S PROVE 2 * v \in S
  <2>1. v \in Nat /\ 2 * (v * p) = (2 * v) * p
    BY <1>1
  <2>2. 2 * (v * p) \in Scaling
    BY ScalingDoubles
  <2>. QED  BY <2>1, <2>2
<1>. HIDE DEF S
<1>4. 2 \in S /\ 4 \in S /\ 8 \in S /\ 16 \in S /\ 32 \in S /\ 64 \in S
  <2>1. 2 * 1 \in S /\ 2 * 2 = 4 /\ 2 * 4 = 8 /\ 2 * 8 = 16 /\ 2 * 16 = 32 /\ 2 * 32 = 64
    BY <1>2, <1>3
  <2>. QED  BY ONLY <2>1, <1>3
<1>5. 128 \in S /\ 256 \in S /\ 512 \in S /\ 1024 \in S
  <2>1. 2 * 64 = 128 /\ 2 * 128 = 256 /\ 2 * 256 = 512 /\ 2 * 512 = 1024
    OBVIOUS
  <2>. QED  BY ONLY <2>1, <1>3, <1>4
<1>6. 2048 \in S /\ 4096 \in S /\ 8192 \in S
  <2>1. 2 * 1024 = 2048 /\ 2 * 2048 = 4096 /\ 2 * 4096 = 8192
    OBVIOUS
  <2>. QED  BY ONLY <2>1, <1>3, <1>5
<1>7. w \in S
  BY ONLY <1>2, <1>4, <1>5, <1>6, w \in PowersOfTwo DEF PowersOfTwo
<1>. QED  BY ONLY <1>7 DEF S

(* What fits is rounded to a float of its step.                            *)
LEMMA FloatsRounded ==
  ASSUME NEW x \in Nat, x < FloatMax * 8192, NEW p \in Scaling
  PROVE  /\ RoundToFloat(x) * p = Rounded(x * p, Ulp(x) * p)
         /\ RoundToFloat(x) \in Nat
         /\ IsStep(x * p, Ulp(x) * p)
<1>. DEFINE u == Ulp(x)
<1>1. u \in PowersOfTwo /\ x < FloatMax * u /\ (u > 1 => x >= FloatMax * (u \div 2))
  BY UlpFits
<1>2. u \in Nat \ {0} /\ p \in Nat \ {0} /\ FloatMax \in Nat
  BY <1>1, PowersAreNat, DecodersAssumption DEF Scaling
<1>3. RoundToFloat(x) = Rounded(x, u)
  BY DEF RoundToFloat, Rounded
<1>4. u * p \in Nat \ {0} /\ x * p < FloatMax * (u * p)
  <2>. HIDE DEF u
  <2>1. (x + 1) * p <= (FloatMax * u) * p
    BY <1>1, <1>2, ProductsKeepOrder
  <2>2. (x + 1) * p = x * p + p /\ (FloatMax * u) * p = FloatMax * (u * p)
    BY ONLY <1>2, x \in Nat
  <2>3. u * p \in Nat \ {0} /\ x * p \in Nat /\ FloatMax * (u * p) \in Nat
    BY ONLY <1>2, x \in Nat
  <2>. QED  BY ONLY <1>2, <2>1, <2>2, <2>3
<1>5. \/ \E h \in Nat : u * p = 2 * h /\ x * p >= FloatMax * h
      \/ \E q \in Nat : x * p = q * (u * p)
  <2>1. CASE u > 1
    <3>1. PICK h \in Nat : u = 2 * h /\ x >= FloatMax * h
      BY <1>1, <2>1, PowersAreNat
    <3>. HIDE DEF u
    <3>2. u * p = 2 * (h * p) /\ h * p \in Nat
      BY ONLY <1>2, <3>1, h \in Nat
    <3>3. (FloatMax * h) * p <= x * p
      BY <1>2, <3>1, ProductsKeepOrder
    <3>4. (FloatMax * h) * p = FloatMax * (h * p) /\ x * p \in Nat
      BY ONLY <1>2, h \in Nat, x \in Nat
    <3>5. x * p >= FloatMax * (h * p)
      BY ONLY <1>2, <3>2, <3>3, <3>4
    <3>. QED  BY <3>2, <3>5
  <2>2. CASE u = 1
    <3>1. u * p = p
      BY <1>2, <2>2
    <3>. QED  BY <3>1
  <2>. QED  BY <1>2, <2>1, <2>2
<1>6. Rounded(x * p, u * p) = Rounded(x, u) * p
  <2>. HIDE DEF u
  <2>. QED  BY <1>2, RoundedScales
<1>7. Rounded(x, u) \in Nat
  <2>. HIDE DEF u
  <2>. QED  BY <1>2, RoundedKeepsOrder
<1>. QED  BY <1>3, <1>4, <1>5, <1>6, <1>7 DEF IsStep

(* The largest uint64 is no float: it is rounded up.                       *)
LEMMA BoundIsRoundedUp ==
  /\ 2 * MaxUint < FloatMax * 4096
  /\ RoundToFloat(2 * MaxUint) = 2 * (MaxUint + 1)
<1>1. PICK p \in PowersOfTwo \cap 2..2048 : MaxUint + 1 = FloatMax * p
  BY DecodersAssumption
<1>2. /\ FloatMax \in Nat /\ FloatMax >= 2 /\ MaxUint \in Nat
      /\ p \in Nat /\ p >= 2 /\ 2 * p \in PowersOfTwo
      /\ \E f \in Nat : FloatMax = 2 * f
  BY DecodersAssumption DEF PowersOfTwo
<1>. DEFINE x == 2 * MaxUint
<1>. DEFINE u == 2 * p
<1>3. FloatMax * u = 2 * (MaxUint + 1) /\ FloatMax * p = MaxUint + 1 /\ FloatMax * p \in Nat
  BY <1>1, <1>2
<1>4. x \in Nat /\ x < FloatMax * 4096
  <2>1. p * FloatMax <= 2048 * FloatMax
    BY <1>2, ProductsKeepOrder
  <2>. QED  BY ONLY <1>1, <1>2, <2>1
<1>5. x < FloatMax * u /\ x >= FloatMax * p /\ u \div 2 = p /\ u \in PowersOfTwo
  BY ONLY <1>2, <1>3
<1>6. Ulp(x) = u
  <2>1. /\ x < FloatMax * Ulp(x) /\ Ulp(x) \in PowersOfTwo
        /\ Ulp(x) > 1 => x >= FloatMax * (Ulp(x) \div 2)
    <3>. HIDE DEF x
    <3>1. x < FloatMax * 8192
      BY <1>2, <1>4
    <3>. QED  BY <1>4, <3>1, UlpFits
  <2>2. ASSUME NEW v \in Nat, NEW w \in Nat, FloatMax * v <= x, x < FloatMax * w PROVE v < w
    <3>1. w <= v => w * FloatMax <= v * FloatMax
      BY <1>2, ProductsKeepOrder
    <3>. QED  BY ONLY <1>2, <2>2, <3>1, <1>4
  <2>3. Ulp(x) \in Nat /\ u \in Nat /\ p < Ulp(x)
    <3>1. Ulp(x) \in Nat
      BY <2>1, PowersAreNat
    <3>. HIDE DEF x
    <3>2. p < Ulp(x)
      BY ONLY <1>2, <1>5, <2>1, <2>2, <3>1
    <3>. QED  BY <1>2, <3>1, <3>2
  <2>4. Ulp(x) >= u
    BY <1>2, <2>1, <2>3, PowersApart, PowersAreNat
  <2>5. Ulp(x) \div 2 < u
    BY <1>2, <1>5, <2>1, <2>2, <2>3, <2>4, PowersAreNat
  <2>6. ~ u < Ulp(x)
    BY <1>5, <2>1, <2>3, <2>5, PowersApart, PowersAreNat
  <2>. HIDE DEF x, u
  <2>. QED  BY ONLY <2>3, <2>4, <2>6
<1>7. x \div u = FloatMax - 1 /\ (FloatMax - 1) * u = FloatMax * u - u
  <2>1. (FloatMax - 1) * u = FloatMax * u - u
    BY ONLY <1>2
  <2>2. (FloatMax - 1) * u <= x /\ x < (FloatMax - 1) * u + u
    BY ONLY <1>2, <1>3, <2>1
  <2>3. u \in Nat \ {0} /\ FloatMax - 1 \in Nat
    BY ONLY <1>2
  <2>. HIDE DEF x, u
  <2>. QED  BY <1>4, <2>1, <2>2, <2>3, QuotientIsUnique
<1>8. RoundToFloat(x) = Rounded(x, u)
  BY <1>6 DEF RoundToFloat, Rounded
<1>9. Rounded(x, u) = FloatMax * u
  <2>1. 2 * (x - (FloatMax * u - u)) >= u /\ (FloatMax - 1) % 2 = 1
    BY ONLY <1>2, <1>3
  <2>2. Rounded(x, u) = (FloatMax * u - u) + u
    <3>. HIDE DEF x, u
    <3>1. ~(2 * (x - (FloatMax * u - u)) < u) /\ ~((FloatMax - 1) % 2 = 0)
      BY <2>1, <1>2, <1>4, <1>5, <1>3, PowersAreNat
    <3>. QED  BY <1>7, <3>1 DEF Rounded
  <2>. QED  BY ONLY <1>2, <1>3, <2>2
<1>. QED  BY <1>3, <1>4, <1>8, <1>9

(* The conversion of a quota to a uint64 never wraps and keeps the order,  *)
(* for the bound as a float is one more than the largest integer, as 2^64  *)
(* is: what is below the bound fits, and the rest saturates (TrafficSize). *)
THEOREM ConversionKeepsOrder ==
  ASSUME NEW a \in Nat, NEW b \in Nat, a <= b
  PROVE  ToUint(a) \in 0..MaxUint /\ ToUint(a) <= ToUint(b)
<1>1. ASSUME NEW h \in Nat
      PROVE  ToUint(h) = IF h >= 2 * (MaxUint + 1) THEN MaxUint ELSE h \div 2
  <2>1. CASE h >= 2 * (MaxUint + 1)
    BY <2>1, BoundIsRoundedUp DEF ToUint
  <2>2. CASE h < 2 * (MaxUint + 1)
    <3>1. h \div 2 \in 0..MaxUint
      BY ONLY <2>2, h \in Nat, DecodersAssumption
    <3>2. (h \div 2) % (MaxUint + 1) = h \div 2
      BY ONLY <3>1, DecodersAssumption
    <3>3. ~(h >= RoundToFloat(2 * MaxUint)) /\ ~(h >= 2 * (MaxUint + 1))
      BY <2>2, BoundIsRoundedUp, DecodersAssumption
    <3>. QED  BY ONLY <3>2, <3>3 DEF ToUint
  <2>3. 2 * (MaxUint + 1) \in Nat
    BY ONLY DecodersAssumption
  <2>. QED  BY ONLY <2>1, <2>2, <2>3, h \in Nat
<1>2. a \div 2 \in Nat /\ b \div 2 \in Nat /\ a \div 2 <= b \div 2
  BY ONLY a \in Nat, b \in Nat, a <= b
<1>3. \A h \in Nat : h < 2 * (MaxUint + 1) => h \div 2 <= MaxUint
  BY ONLY DecodersAssumption
<1>4. MaxUint \in Nat /\ 2 * (MaxUint + 1) \in Nat
  BY ONLY DecodersAssumption
<1>. QED  BY ONLY <1>1, <1>2, <1>3, <1>4, a \in Nat, b \in Nat, a <= b

-----------------------------------------------------------------------------
(***************************************************************************)
(* What the API reads in a form is what the client was given.              *)
(***************************************************************************)
LEMMA AmongEmpty == \A S : Among(<<>>, S) = <<>>
BY FlattenEmpty DEF Among

LEMMA AmongAppend ==
  ASSUME NEW T, NEW S, NEW s \in Seq(T), NEW e \in T
  PROVE  Among(Append(s, e), S) = Among(s, S) \o (IF e \in S THEN <<e>> ELSE <<>>)
<1>. DEFINE f == [x \in T |-> IF x \in S THEN <<x>> ELSE <<>>]
<1>1. f \in [T -> Seq(T)] /\ \A x \in T : f[x] = IF x \in S THEN <<x>> ELSE <<>>
  BY EmptySeq
<1>. HIDE DEF f
<1>2. ASSUME NEW t \in Seq(T)
      PROVE  Among(t, S) = FlattenSeq([i \in DOMAIN t |-> f[t[i]]])
  <2>1. [i \in DOMAIN t |-> IF t[i] \in S THEN <<t[i]>> ELSE <<>>] = [i \in DOMAIN t |-> f[t[i]]]
    BY <1>1, LenProperties, ElementOfSeq
  <2>. QED  BY <2>1 DEF Among
<1>3. /\ [i \in DOMAIN s |-> f[s[i]]] \in Seq(Seq(T)) /\ f[e] \in Seq(T)
      /\ [i \in DOMAIN Append(s, e) |-> f[Append(s, e)[i]]]
           = Append([i \in DOMAIN s |-> f[s[i]]], f[e])
  <2>1. f[e] \in Seq(T)
    BY <1>1
  <2>. DEFINE U == Seq(T)
  <2>2. f \in [T -> U]
    BY <1>1
  <2>. HIDE DEF U
  <2>3. /\ [i \in DOMAIN s |-> f[s[i]]] \in Seq(U)
        /\ [i \in DOMAIN Append(s, e) |-> f[Append(s, e)[i]]]
             = Append([i \in DOMAIN s |-> f[s[i]]], f[e])
    BY ONLY <2>2, s \in Seq(T), e \in T, MapAppend
  <2>. QED  BY ONLY <2>1, <2>3 DEF U
<1>4. FlattenSeq([i \in DOMAIN Append(s, e) |-> f[Append(s, e)[i]]])
        = FlattenSeq([i \in DOMAIN s |-> f[s[i]]]) \o f[e]
  BY ONLY <1>3, FlattenAppend
<1>5. Append(s, e) \in Seq(T)
  BY AppendProperties
<1>. QED  BY <1>1, <1>2, <1>4, <1>5

(* Among keeps the elements that are in S, and no other.                   *)
LEMMA AmongRange ==
  ASSUME NEW T, NEW S
  PROVE  \A s \in Seq(T) : Among(s, S) \in Seq(T) /\ Range(Among(s, S)) = Range(s) \cap S
<1>. DEFINE A == {s \in Seq(T) : Among(s, S) \in Seq(T) /\ Range(Among(s, S)) = Range(s) \cap S}
<1>1. <<>> \in A
  <2>1. Range(<<>>) = {} /\ <<>> \in Seq(T)
    BY EmptySeq DEF Range
  <2>. QED  BY <2>1, AmongEmpty
<1>2. ASSUME NEW s \in Seq(T), NEW e \in T, s \in A PROVE Append(s, e) \in A
  <2>. DEFINE p == IF e \in S THEN <<e>> ELSE <<>>
  <2>1. p \in Seq(T) /\ Range(p) = {e} \cap S
    <3>1. <<>> \in Seq(T) /\ <<e>> \in Seq(T) /\ Range(<<>>) = {} /\ Range(<<e>>) = {e}
      BY EmptySeq DEF Range
    <3>. QED  BY <3>1
  <2>2. Among(Append(s, e), S) = Among(s, S) \o p
    BY AmongAppend
  <2>. HIDE DEF p
  <2>3. Range(Among(s, S) \o p) = Range(Among(s, S)) \cup Range(p) /\ Among(s, S) \o p \in Seq(T)
    BY <1>2, <2>1, ConcatRange, ConcatProperties
  <2>4. Append(s, e) = s \o <<e>> /\ <<e>> \in Seq(T) /\ Append(s, e) \in Seq(T) /\ Range(<<e>>) = {e}
    BY AppendProperties DEF Range
  <2>5. Range(Append(s, e)) = Range(s) \cup {e}
    <3>. DEFINE q == <<e>>
    <3>1. q \in Seq(T)
      BY <2>4
    <3>. HIDE DEF q
    <3>2. Range(s \o q) = Range(s) \cup Range(q)
      BY ONLY <3>1, s \in Seq(T), ConcatRange
    <3>. QED  BY ONLY <2>4, <3>2 DEF q
  <2>. QED  BY <1>2, <2>1, <2>2, <2>3, <2>4, <2>5
<1>. QED
  <2>. HIDE DEF A
  <2>1. Seq(T) \subseteq A
    BY <1>1, <1>2, SequenceInduction
  <2>. QED  BY <2>1 DEF A

(* It acts on the parts of a concatenation.                                *)
LEMMA AmongConcat ==
  ASSUME NEW T, NEW S, NEW s \in Seq(T)
  PROVE  \A t \in Seq(T) : Among(s \o t, S) = Among(s, S) \o Among(t, S)
<1>. DEFINE A == {t \in Seq(T) : Among(s \o t, S) = Among(s, S) \o Among(t, S)}
<1>0. Among(s, S) \in Seq(T)
  BY AmongRange
<1>1. <<>> \in A
  <2>1. s \o <<>> = s /\ Among(s, S) \o <<>> = Among(s, S)
    BY <1>0, ConcatEmptySeq
  <2>. QED  BY <2>1, AmongEmpty, EmptySeq
<1>2. ASSUME NEW t \in Seq(T), NEW e \in T, t \in A PROVE Append(t, e) \in A
  <2>. DEFINE p == IF e \in S THEN <<e>> ELSE <<>>
  <2>1. p \in Seq(T) /\ Among(t, S) \in Seq(T)
    BY AmongRange, EmptySeq
  <2>2. Among(Append(t, e), S) = Among(t, S) \o p
    BY AmongAppend
  <2>3. s \o Append(t, e) = Append(s \o t, e) /\ s \o t \in Seq(T)
    OBVIOUS
  <2>4. Among(Append(s \o t, e), S) = Among(s \o t, S) \o p
    <3>. DEFINE st == s \o t
    <3>1. st \in Seq(T)
      BY <2>3
    <3>. HIDE DEF st
    <3>2. Among(Append(st, e), S) = Among(st, S) \o p
      BY ONLY <3>1, e \in T, AmongAppend
    <3>. QED  BY ONLY <3>2 DEF st
  <2>. HIDE DEF p
  <2>5. (Among(s, S) \o Among(t, S)) \o p = Among(s, S) \o (Among(t, S) \o p)
    BY ONLY <1>0, <2>1, ConcatAssociative
  <2>6. Among(s \o t, S) = Among(s, S) \o Among(t, S)
    BY <1>2
  <2>7. Among(s \o Append(t, e), S) = Among(s, S) \o Among(Append(t, e), S)
    BY ONLY <2>2, <2>3, <2>4, <2>5, <2>6
  <2>8. Append(t, e) \in Seq(T)
    BY AppendProperties
  <2>. QED  BY <2>7, <2>8
<1>. QED
  <2>. HIDE DEF A
  <2>1. Seq(T) \subseteq A
    BY <1>1, <1>2, SequenceInduction
  <2>. QED  BY <2>1 DEF A

(* It keeps a sequence whole whose elements are all in S.                  *)
LEMMA AmongAll ==
  ASSUME NEW T, NEW S, NEW s \in Seq(T), Range(s) \subseteq S
  PROVE  Among(s, S) = s
<1>1. [i \in DOMAIN s |-> IF s[i] \in S THEN <<s[i]>> ELSE <<>>] = [i \in DOMAIN s |-> <<s[i]>>]
  BY DEF Range
<1>. QED  BY <1>1, FlattenSingles DEF Among

LEMMA NothingInRange ==
  ASSUME NEW T, NEW s \in Seq(T)
  PROVE  Range(s) = {} <=> s = <<>>
<1>1. DOMAIN s = 1..Len(s) /\ Len(s) \in Nat
  BY LenProperties
<1>2. s # <<>> => s[1] \in Range(s)
  <2>1. s # <<>> => 1 \in DOMAIN s
    BY <1>1, EmptySeq
  <2>. QED  BY ONLY <2>1 DEF Range
<1>3. Range(<<>>) = {}
  BY DEF Range
<1>. QED  BY ONLY <1>2, <1>3

(* And leaves nothing of one that has none of them.                        *)
LEMMA AmongNone ==
  ASSUME NEW T, NEW S, NEW s \in Seq(T), Range(s) \cap S = {}
  PROVE  Among(s, S) = <<>>
BY AmongRange, NothingInRange

(* Sorting loses no key.                                                   *)
LEMMA KeysSorted ==
  ASSUME NEW keys, keys \subseteq Range(Names)
  PROVE  SortedKeys(keys) \in Seq(Range(Names)) /\ Range(SortedKeys(keys)) = keys
<1>1. Names \in Seq(Range(Names))
  BY DEF Names, Range
<1>2. Among(Names, keys) \in Seq(Range(Names)) /\ Range(Among(Names, keys)) = Range(Names) \cap keys
  BY ONLY <1>1, AmongRange
<1>. QED  BY <1>2 DEF SortedKeys

(* The pairs of a map, at prefix.                                          *)
PairsOf(map, prefix) == {Pair(Append(prefix, f), map[f]) : f \in DOMAIN map}

(* A map is sent as its pairs and nothing else.                            *)
LEMMA PairsAreAll ==
  ASSUME NEW map, DOMAIN map \subseteq Range(Names), NEW prefix
  PROVE  /\ Pairs(map, prefix) \in Seq(PairsOf(map, prefix))
         /\ Range(Pairs(map, prefix)) = PairsOf(map, prefix)
<1>. DEFINE keys == SortedKeys(DOMAIN map)
<1>. DEFINE P == PairsOf(map, prefix)
<1>1. keys \in Seq(Range(Names)) /\ Range(keys) = DOMAIN map
  BY KeysSorted
<1>2. Pairs(map, prefix) = [k \in DOMAIN keys |-> Pair(Append(prefix, keys[k]), map[keys[k]])]
  BY DEF Pairs
<1>. HIDE DEF keys
<1>3. DOMAIN keys = 1..Len(keys) /\ Len(keys) \in Nat
  BY <1>1, LenProperties
<1>4. \A k \in DOMAIN keys : keys[k] \in DOMAIN map
  BY <1>1 DEF Range
<1>5. Pairs(map, prefix) \in [1..Len(keys) -> P]
  BY ONLY <1>2, <1>3, <1>4 DEF PairsOf
<1>6. Range(Pairs(map, prefix)) = P
  <2>1. ASSUME NEW f \in DOMAIN map
        PROVE  Pair(Append(prefix, f), map[f]) \in Range(Pairs(map, prefix))
    <3>1. PICK k \in DOMAIN keys : keys[k] = f
      BY <1>1 DEF Range
    <3>. QED  BY ONLY <1>2, <3>1 DEF Range
  <2>2. \A k \in DOMAIN keys : Pairs(map, prefix)[k] \in P
    BY ONLY <1>3, <1>5
  <2>3. DOMAIN Pairs(map, prefix) = DOMAIN keys
    BY ONLY <1>2
  <2>. QED  BY ONLY <2>1, <2>2, <2>3 DEF Range, PairsOf
<1>. QED  BY <1>3, <1>5, <1>6

-----------------------------------------------------------------------------
(* A field is read from the pairs that have its key, whatever their order. *)
LEMMA FieldIsRead ==
  ASSUME NEW T, NEW body \in Seq(T), NEW key, NEW value,
         \E p \in Range(body) : p.key = key,
         \A p \in Range(body) : p.key = key => p.value = QueryEscape(value)
  PROVE  ReadField(body, key) = value
<1>. DEFINE found == Under(body, key)
<1>1. found \in Seq(T) /\ Range(found) = Range(body) \cap {p \in Range(body) : p.key = key}
  BY AmongRange DEF Under
<1>. HIDE DEF found
<1>2. Range(found) # {}
  BY ONLY <1>1, \E p \in Range(body) : p.key = key
<1>3. found # <<>>
  BY <1>1, <1>2, NothingInRange
<1>4. Last(found) \in Range(found)
  <2>1. Len(found) \in DOMAIN found
    BY <1>1, <1>3, LenProperties, EmptySeq
  <2>. QED  BY <2>1 DEF Last, Range
<1>5. Last(found).value = QueryEscape(value)
  BY <1>1, <1>4
<1>6. Read(QueryEscape(value)) = value
  BY DEF Read, QueryEscape
<1>. QED  BY <1>3, <1>5, <1>6 DEF ReadField, found

(* A field without a pair is read as unset.                                *)
LEMMA FieldIsUnset ==
  ASSUME NEW T, NEW body \in Seq(T), NEW key, \A p \in Range(body) : p.key # key
  PROVE  ReadField(body, key) = Unset
<1>1. Under(body, key) = <<>>
  BY AmongNone DEF Under
<1>. QED  BY <1>1 DEF ReadField

LEMMA KeyAppended ==
  ASSUME NEW a, NEW b, NEW c, NEW d
  PROVE  Append(<<>>, a) = <<a>> /\ Append(<<a, b, c>>, d) = <<a, b, c, d>>
<1>. DEFINE T == {a, b, c, d}
<1>1. <<>> \in Seq(T) /\ <<a, b, c>> \in Seq(T) /\ a \in T /\ d \in T
  OBVIOUS
<1>2. Append(<<>>, a) = <<a>>
  BY <1>1
<1>3. Append(<<a, b, c>>, d) = <<a, b, c, d>>
  <2>1. Len(<<a, b, c>>) = 3
    OBVIOUS
  <2>. DEFINE s == Append(<<a, b, c>>, d)
  <2>2. s[1] = a /\ s[2] = b /\ s[3] = c /\ s[4] = d /\ Len(s) = 4 /\ s \in Seq(T)
    BY <1>1, <2>1, AppendProperties
  <2>. HIDE DEF s, T
  <2>3. s = <<a, b, c, d>>
    BY ONLY <2>2
  <2>. QED  BY <2>3 DEF s
<1>. QED  BY <1>2, <1>3

(* Keys with different brackets are different keys.                        *)
LEMMA KeysApart ==
  ASSUME NEW a, NEW b, NEW c, NEW d, NEW e
  PROVE  /\ Len(<<a>>) = 1 /\ <<a>>[1] = a
         /\ Len(<<a, b, c, d>>) = 4 /\ <<a, b, c, d>>[2] = b /\ <<a, b, c, d>>[3] = c
         /\ <<a, b, c, d>>[4] = d
         /\ <<e>> # <<a, b, c, d>>
<1>1. /\ Len(<<a>>) = 1 /\ <<a>>[1] = a
      /\ Len(<<a, b, c, d>>) = 4 /\ <<a, b, c, d>>[2] = b /\ <<a, b, c, d>>[3] = c
      /\ <<a, b, c, d>>[4] = d /\ Len(<<e>>) = 1
  OBVIOUS
<1>. QED  BY ONLY <1>1

(* What is sent of the rules of a direction.                               *)
SentFields(rule) == {f \in DOMAIN rule : rule[f] # Unset} \cup {"action"}

RulePairs(d, i, rule) == {Pair(<<"rules", d, i, f>>, rule[f]) : f \in SentFields(rule)}

DirectionPairs(d, s) == UNION {RulePairs(d, i, s[i]) : i \in DOMAIN s}

Rulesets(fields, Values) == Seq([fields -> Values])

(* A rule is sent as the pairs of the fields it has, and of its action.    *)
LEMMA RuleIsSent ==
  ASSUME NEW rule, "action" \in DOMAIN rule, DOMAIN rule \subseteq Range(Names), NEW d, NEW i
  PROVE  /\ Pairs(EncodeRule(rule), <<"rules", d, i>>) \in Seq(RulePairs(d, i, rule))
         /\ Range(Pairs(EncodeRule(rule), <<"rules", d, i>>)) = RulePairs(d, i, rule)
<1>. DEFINE sent == EncodeRule(rule)
<1>1. DOMAIN sent = SentFields(rule) /\ \A f \in SentFields(rule) : sent[f] = rule[f]
  BY DEF EncodeRule, Restrict, SentFields
<1>2. SentFields(rule) \subseteq Range(Names)
  BY DEF SentFields
<1>. HIDE DEF sent
<1>. DEFINE prefix == <<"rules", d, i>>
<1>. HIDE DEF prefix
<1>3. /\ Pairs(sent, prefix) \in Seq(PairsOf(sent, prefix))
      /\ Range(Pairs(sent, prefix)) = PairsOf(sent, prefix)
  BY <1>1, <1>2, PairsAreAll
<1>4. PairsOf(sent, prefix) = RulePairs(d, i, rule)
  <2>1. \A f : Append(prefix, f) = <<"rules", d, i, f>>
    BY KeyAppended DEF prefix
  <2>2. \A f \in SentFields(rule) :
          Pair(Append(prefix, f), sent[f]) = Pair(<<"rules", d, i, f>>, rule[f])
    BY ONLY <1>1, <2>1
  <2>. QED  BY ONLY <1>1, <2>2 DEF PairsOf, RulePairs
<1>. QED  BY ONLY <1>3, <1>4 DEF sent, prefix

(* A concatenation of sequences, each over a set of its own.               *)
UnionOf(P, n) == UNION {P[i] : i \in 1..n}

LEMMA FlattenParts ==
  ASSUME NEW n \in Nat, NEW ss, ss = [i \in 1..n |-> ss[i]], NEW P,
         \A i \in 1..n : ss[i] \in Seq(P[i]) /\ Range(ss[i]) = P[i]
  PROVE  /\ FlattenSeq(ss) \in Seq(UnionOf(P, n)) /\ Range(FlattenSeq(ss)) = UnionOf(P, n)
<1>. DEFINE T == UnionOf(P, n)
<1>1. \A i \in 1..n : ss[i] \in Seq(T)
  <2>. SUFFICES ASSUME NEW i \in 1..n PROVE ss[i] \in Seq(T)
    OBVIOUS
  <2>1. ss[i] \in Seq(P[i]) /\ P[i] \subseteq T
    BY DEF UnionOf
  <2>2. Len(ss[i]) \in Nat /\ ss[i] \in [1..Len(ss[i]) -> P[i]]
    BY <2>1, LenProperties
  <2>. HIDE DEF T
  <2>3. ss[i] \in [1..Len(ss[i]) -> T]
    BY ONLY <2>1, <2>2
  <2>. QED  BY ONLY <2>2, <2>3
<1>. HIDE DEF T
<1>2. ss \in [1..n -> Seq(T)]
  BY ONLY <1>1, ss = [i \in 1..n |-> ss[i]]
<1>. DEFINE U == Seq(T)
<1>3. ss \in Seq(U) /\ DOMAIN ss = 1..n
  <2>. HIDE DEF U
  <2>. QED  BY ONLY <1>2, n \in Nat DEF U
<1>4. FlattenSeq(ss) \in Seq(T) /\ Range(FlattenSeq(ss)) = UNION {Range(ss[i]) : i \in DOMAIN ss}
  BY ONLY <1>3, FlattenTyped, FlattenRange
<1>5. UNION {Range(ss[i]) : i \in DOMAIN ss} = T
  BY <1>3 DEF T, UnionOf
<1>. QED  BY ONLY <1>4, <1>5 DEF T

(* All rules of a direction are sent, each with its index.                 *)
LEMMA DirectionIsSent ==
  ASSUME NEW fields, "action" \in fields, fields \subseteq Range(Names), NEW Values,
         NEW s \in Rulesets(fields, Values), NEW d
  PROVE  LET sent == FlattenSeq([i \in DOMAIN s |-> Pairs(EncodeRule(s[i]), <<"rules", d, i>>)])
         IN  sent \in Seq(DirectionPairs(d, s)) /\ Range(sent) = DirectionPairs(d, s)
<1>. DEFINE ss == [i \in DOMAIN s |-> Pairs(EncodeRule(s[i]), <<"rules", d, i>>)]
<1>. DEFINE P == [i \in DOMAIN s |-> RulePairs(d, i, s[i])]
<1>1. /\ Len(s) \in Nat /\ DOMAIN s = 1..Len(s)
      /\ \A i \in DOMAIN s : DOMAIN s[i] = fields
  BY LenProperties, ElementOfSeq DEF Rulesets
<1>2. ASSUME NEW i \in DOMAIN s PROVE ss[i] \in Seq(P[i]) /\ Range(ss[i]) = P[i]
  BY <1>1, RuleIsSent
<1>3. ss = [i \in 1..Len(s) |-> ss[i]] /\ \A i \in DOMAIN s : P[i] = RulePairs(d, i, s[i])
  BY <1>1
<1>. HIDE DEF ss, P
<1>4. /\ FlattenSeq(ss) \in Seq(UNION {P[i] : i \in 1..Len(s)})
      /\ Range(FlattenSeq(ss)) = UNION {P[i] : i \in 1..Len(s)}
  <2>. DEFINE n == Len(s)
  <2>1. n \in Nat /\ ss = [i \in 1..n |-> ss[i]]
    BY ONLY <1>1, <1>3
  <2>2. \A i \in 1..n : ss[i] \in Seq(P[i]) /\ Range(ss[i]) = P[i]
    BY ONLY <1>1, <1>2
  <2>. HIDE DEF n
  <2>3. FlattenSeq(ss) \in Seq(UnionOf(P, n)) /\ Range(FlattenSeq(ss)) = UnionOf(P, n)
    BY ONLY <2>1, <2>2, FlattenParts
  <2>. QED  BY ONLY <2>3 DEF n, UnionOf
<1>5. UNION {P[i] : i \in 1..Len(s)} = DirectionPairs(d, s)
  BY ONLY <1>1, <1>3 DEF DirectionPairs
<1>. QED  BY ONLY <1>4, <1>5 DEF ss

(* What is sent of the rules of all directions.                            *)
AllPairs(rules) == UNION {DirectionPairs(d, rules[d]) : d \in DOMAIN rules}

(* All directions are sent, those without rules as nothing.                *)
LEMMA RulesAreSent ==
  ASSUME NEW fields, "action" \in fields, fields \subseteq Range(Names), NEW Values,
         NEW rules, DOMAIN rules \subseteq Range(Names),
         \A d \in DOMAIN rules : rules[d] \in Rulesets(fields, Values),
         NEW extra, DOMAIN extra \subseteq Range(Names)
  PROVE  LET body == EncodeRules(rules, extra)
             all == PairsOf(extra, <<>>) \cup AllPairs(rules)
         IN  body \in Seq(all) /\ Range(body) = all
<1>. DEFINE mentioned == {d \in DOMAIN rules : rules[d] # <<>>}
<1>. DEFINE encoded == [d \in mentioned |-> [i \in DOMAIN rules[d] |-> EncodeRule(rules[d][i])]]
<1>. DEFINE directions == SortedKeys(mentioned)
<1>. DEFINE Direction(d) ==
       FlattenSeq([i \in DOMAIN rules[d] |-> Pairs(EncodeRule(rules[d][i]), <<"rules", d, i>>)])
<1>1. /\ directions \in Seq(Range(Names)) /\ Range(directions) = mentioned
      /\ Len(directions) \in Nat /\ DOMAIN directions = 1..Len(directions)
  BY KeysSorted, LenProperties
<1>2. \A k \in DOMAIN directions : directions[k] \in mentioned
  BY <1>1 DEF Range
<1>3. EncodeFirewallRules(encoded) = FlattenSeq([k \in DOMAIN directions |-> Direction(directions[k])])
  <2>1. DOMAIN encoded = mentioned
    OBVIOUS
  <2>2. ASSUME NEW d \in mentioned
        PROVE  FlattenSeq([i \in DOMAIN encoded[d] |-> Pairs(encoded[d][i], <<"rules", d, i>>)])
                 = Direction(d)
    <3>1. [i \in DOMAIN encoded[d] |-> Pairs(encoded[d][i], <<"rules", d, i>>)]
            = [i \in DOMAIN rules[d] |-> Pairs(EncodeRule(rules[d][i]), <<"rules", d, i>>)]
      OBVIOUS
    <3>. QED  BY ONLY <3>1
  <2>. HIDE DEF encoded, Direction
  <2>3. [k \in DOMAIN directions |->
           FlattenSeq([i \in DOMAIN encoded[directions[k]] |->
                         Pairs(encoded[directions[k]][i], <<"rules", directions[k], i>>)])]
          = [k \in DOMAIN directions |-> Direction(directions[k])]
    BY ONLY <1>2, <2>2
  <2>. QED  BY ONLY <2>1, <2>3 DEF EncodeFirewallRules
<1>. DEFINE ss == [k \in DOMAIN directions |-> Direction(directions[k])]
<1>. DEFINE P == [k \in DOMAIN directions |-> DirectionPairs(directions[k], rules[directions[k]])]
<1>4. ASSUME NEW k \in 1..Len(directions) PROVE ss[k] \in Seq(P[k]) /\ Range(ss[k]) = P[k]
  <2>1. directions[k] \in DOMAIN rules /\ k \in DOMAIN directions
    BY <1>1, <1>2
  <2>2. rules[directions[k]] \in Rulesets(fields, Values)
    BY <2>1
  <2>. DEFINE d == directions[k]
  <2>. HIDE DEF d
  <2>3. /\ Direction(d) \in Seq(DirectionPairs(d, rules[d]))
        /\ Range(Direction(d)) = DirectionPairs(d, rules[d])
    BY <2>2, DirectionIsSent DEF d
  <2>. QED  BY <2>1, <2>3 DEF d
<1>5. /\ ss = [k \in 1..Len(directions) |-> ss[k]]
      /\ \A k \in DOMAIN directions : P[k] = DirectionPairs(directions[k], rules[directions[k]])
  BY <1>1
<1>6. UNION {P[k] : k \in 1..Len(directions)} = AllPairs(rules)
  <2>1. \A d \in mentioned : \E k \in DOMAIN directions : d = directions[k]
    BY <1>1 DEF Range
  <2>2. \A d \in DOMAIN rules \ mentioned : DirectionPairs(d, rules[d]) = {}
    BY DEF DirectionPairs
  <2>. HIDE DEF P, directions
  <2>3. ASSUME NEW x \in AllPairs(rules) PROVE \E k \in DOMAIN directions : x \in P[k]
    BY ONLY <1>5, <2>1, <2>2, <2>3 DEF AllPairs
  <2>4. ASSUME NEW k \in DOMAIN directions PROVE P[k] \subseteq AllPairs(rules)
    BY ONLY <1>2, <1>5, <2>4 DEF AllPairs
  <2>. QED  BY ONLY <1>1, <2>3, <2>4
<1>. HIDE DEF ss, P
<1>7. /\ FlattenSeq(ss) \in Seq(UNION {P[k] : k \in 1..Len(directions)})
      /\ Range(FlattenSeq(ss)) = UNION {P[k] : k \in 1..Len(directions)}
  <2>. DEFINE n == Len(directions)
  <2>1. n \in Nat /\ ss = [k \in 1..n |-> ss[k]]
    BY ONLY <1>1, <1>5
  <2>2. \A k \in 1..n : ss[k] \in Seq(P[k]) /\ Range(ss[k]) = P[k]
    BY ONLY <1>4
  <2>. HIDE DEF n
  <2>3. FlattenSeq(ss) \in Seq(UnionOf(P, n)) /\ Range(FlattenSeq(ss)) = UnionOf(P, n)
    BY ONLY <2>1, <2>2, FlattenParts
  <2>. QED  BY ONLY <2>3 DEF n, UnionOf
<1>8. /\ Pairs(extra, <<>>) \in Seq(PairsOf(extra, <<>>))
      /\ Range(Pairs(extra, <<>>)) = PairsOf(extra, <<>>)
  BY PairsAreAll
<1>9. EncodeRules(rules, extra) = Pairs(extra, <<>>) \o FlattenSeq(ss)
  BY ONLY <1>3 DEF EncodeRules, EncodeToString, ss
<1>. QED
  <2>. DEFINE A == Pairs(extra, <<>>)
  <2>. DEFINE B == FlattenSeq(ss)
  <2>. DEFINE X == PairsOf(extra, <<>>)
  <2>. DEFINE Y == AllPairs(rules)
  <2>1. A \in Seq(X) /\ Range(A) = X /\ B \in Seq(Y) /\ Range(B) = Y
    BY ONLY <1>6, <1>7, <1>8
  <2>. HIDE DEF A, B, X, Y
  <2>2. A \in Seq(X \cup Y) /\ B \in Seq(X \cup Y)
    BY ONLY <2>1
  <2>3. Range(A \o B) = X \cup Y /\ A \o B \in Seq(X \cup Y)
    BY ONLY <2>1, <2>2, ConcatRange, ConcatProperties
  <2>. QED  BY ONLY <1>9, <2>3 DEF A, B, X, Y

-----------------------------------------------------------------------------
(* What the API finds in a body that was sent: the plain pairs and the     *)
(* pairs of the rules, and nothing else.                                   *)
IsPlain(p) == Len(p.key) = 1

LEMMA PairsFound ==
  ASSUME NEW rules, NEW extra
  PROVE  /\ \A f \in DOMAIN extra : Pair(<<f>>, extra[f]) \in PairsOf(extra, <<>>)
         /\ \A p \in PairsOf(extra, <<>>) :
              \E f \in DOMAIN extra : p.key = <<f>> /\ p.value = QueryEscape(extra[f])
         /\ \A p \in PairsOf(extra, <<>>) : IsPlain(p)
         /\ \A d \in DOMAIN rules : \A i \in DOMAIN rules[d] : \A f \in SentFields(rules[d][i]) :
              Pair(<<"rules", d, i, f>>, rules[d][i][f]) \in AllPairs(rules)
         /\ \A p \in AllPairs(rules) :
              \E d \in DOMAIN rules : \E i \in DOMAIN rules[d] : \E f \in SentFields(rules[d][i]) :
                p.key = <<"rules", d, i, f>> /\ p.value = QueryEscape(rules[d][i][f])
         /\ \A p \in AllPairs(rules) : ~IsPlain(p)
<1>0. \A k, v : Pair(k, v).key = k /\ Pair(k, v).value = QueryEscape(v)
  BY DEF Pair
<1>1. \A f : Append(<<>>, f) = <<f>>
  BY KeyAppended
<1>2. PairsOf(extra, <<>>) = {Pair(<<f>>, extra[f]) : f \in DOMAIN extra}
  BY ONLY <1>1 DEF PairsOf
<1>3. \A f \in DOMAIN extra : Pair(<<f>>, extra[f]) \in PairsOf(extra, <<>>)
  BY ONLY <1>2
<1>4. ASSUME NEW p \in PairsOf(extra, <<>>)
      PROVE  \E f \in DOMAIN extra : p.key = <<f>> /\ p.value = QueryEscape(extra[f])
  <2>1. PICK f \in DOMAIN extra : p = Pair(<<f>>, extra[f])
    BY ONLY <1>2, <1>4
  <2>. QED  BY ONLY <1>0, <2>1
<1>5. \A d \in DOMAIN rules : \A i \in DOMAIN rules[d] : \A f \in SentFields(rules[d][i]) :
        Pair(<<"rules", d, i, f>>, rules[d][i][f]) \in AllPairs(rules)
  BY ONLY TRUE DEF AllPairs, DirectionPairs, RulePairs
<1>6. ASSUME NEW p \in AllPairs(rules)
      PROVE  \E d \in DOMAIN rules : \E i \in DOMAIN rules[d] : \E f \in SentFields(rules[d][i]) :
               p.key = <<"rules", d, i, f>> /\ p.value = QueryEscape(rules[d][i][f])
  <2>1. PICK d \in DOMAIN rules : p \in DirectionPairs(d, rules[d])
    BY ONLY <1>6 DEF AllPairs
  <2>2. PICK i \in DOMAIN rules[d] : p \in RulePairs(d, i, rules[d][i])
    BY ONLY <2>1 DEF DirectionPairs
  <2>3. PICK f \in SentFields(rules[d][i]) : p = Pair(<<"rules", d, i, f>>, rules[d][i][f])
    BY ONLY <2>2 DEF RulePairs
  <2>. QED  BY ONLY <1>0, <2>3
<1>7. ASSUME NEW p \in PairsOf(extra, <<>>) PROVE IsPlain(p)
  BY ONLY <1>4, <1>7, KeysApart DEF IsPlain
<1>8. ASSUME NEW p \in AllPairs(rules) PROVE ~IsPlain(p)
  <2>1. \A d, i, f : p.key = <<"rules", d, i, f>> => ~IsPlain(p)
    BY ONLY KeysApart DEF IsPlain
  <2>. QED  BY ONLY <1>6, <1>8, <2>1
<1>. QED  BY ONLY <1>3, <1>4, <1>5, <1>6, <1>7, <1>8

(* The plain pairs of a body are read, whatever pairs with brackets it has *)
(* besides.                                                                *)
LEMMA ExtrasArrive ==
  ASSUME NEW extra, extra = [f \in DOMAIN extra |-> extra[f]], NEW bracketed,
         \A p \in bracketed : ~IsPlain(p),
         NEW body \in Seq(PairsOf(extra, <<>>) \cup bracketed),
         Range(body) = PairsOf(extra, <<>>) \cup bracketed
  PROVE  ReadExtras(body) = extra
<1>1. ASSUME NEW f \in DOMAIN extra PROVE ReadField(body, <<f>>) = extra[f]
  <2>0. \A p : p.key = <<f>> => IsPlain(p)
    BY ONLY KeysApart DEF IsPlain
  <2>1. \E p \in Range(body) : p.key = <<f>>
    <3>1. Pair(<<f>>, extra[f]) \in Range(body) /\ Pair(<<f>>, extra[f]).key = <<f>>
      BY PairsFound DEF Pair
    <3>. QED  BY ONLY <3>1
  <2>2. ASSUME NEW p \in Range(body), p.key = <<f>> PROVE p.value = QueryEscape(extra[f])
    <3>1. p \in PairsOf(extra, <<>>)
      BY <2>0, <2>2
    <3>2. PICK g \in DOMAIN extra : p.key = <<g>> /\ p.value = QueryEscape(extra[g])
      BY ONLY <3>1, PairsFound
    <3>3. f = g
      BY ONLY <2>2, <3>2, KeysApart
    <3>. QED  BY ONLY <3>2, <3>3
  <2>. QED  BY ONLY <2>1, <2>2, FieldIsRead, body \in Seq(PairsOf(extra, <<>>) \cup bracketed)
<1>2. {p.key[1] : p \in {q \in Range(body) : Len(q.key) = 1}} = DOMAIN extra
  <2>1. ASSUME NEW q \in Range(body), Len(q.key) = 1 PROVE q.key[1] \in DOMAIN extra
    <3>1. q \in PairsOf(extra, <<>>)
      BY <2>1 DEF IsPlain
    <3>2. PICK g \in DOMAIN extra : q.key = <<g>>
      BY ONLY <3>1, PairsFound
    <3>. QED  BY ONLY <3>2, KeysApart
  <2>2. ASSUME NEW f \in DOMAIN extra
        PROVE  \E q \in Range(body) : Len(q.key) = 1 /\ q.key[1] = f
    <3>1. Pair(<<f>>, extra[f]) \in Range(body) /\ Pair(<<f>>, extra[f]).key = <<f>>
      BY PairsFound DEF Pair
    <3>. QED  BY ONLY <3>1, KeysApart
  <2>. QED  BY ONLY <2>1, <2>2
<1>. QED  BY <1>1, <1>2 DEF ReadExtras

(* The API reads the fields and the rules that the caller gave, whatever   *)
(* their number, their order in the body and their values.                 *)
THEOREM RulesArrive ==
  ASSUME NEW fields, "action" \in fields, fields \subseteq Range(Names), NEW Values,
         NEW rules, DOMAIN rules \subseteq Range(Names),
         \A d \in DOMAIN rules : rules[d] \in Rulesets(fields, Values),
         NEW extra, extra = [f \in DOMAIN extra |-> extra[f]], DOMAIN extra \subseteq Range(Names)
  PROVE  /\ ReadExtras(EncodeRules(rules, extra)) = extra
         /\ \A d \in DOMAIN rules : ReadRules(EncodeRules(rules, extra), d, fields) = rules[d]
<1>. DEFINE body == EncodeRules(rules, extra)
<1>. DEFINE all == PairsOf(extra, <<>>) \cup AllPairs(rules)
<1>1. body \in Seq(all) /\ Range(body) = all
  BY RulesAreSent
<1>0. \A p \in PairsOf(extra, <<>>) : IsPlain(p)
  BY ONLY PairsFound
<1>. HIDE DEF body
<1>4. ReadExtras(body) = extra
  <2>1. \A p \in AllPairs(rules) : ~IsPlain(p)
    BY ONLY PairsFound
  <2>. DEFINE bracketed == AllPairs(rules)
  <2>. HIDE DEF bracketed
  <2>2. /\ body \in Seq(PairsOf(extra, <<>>) \cup bracketed)
        /\ Range(body) = PairsOf(extra, <<>>) \cup bracketed
        /\ \A p \in bracketed : ~IsPlain(p)
    BY ONLY <1>1, <2>1 DEF bracketed
  <2>. QED  BY ONLY <2>2, ExtrasArrive, extra = [f \in DOMAIN extra |-> extra[f]]
<1>5. ASSUME NEW d \in DOMAIN rules PROVE ReadRules(body, d, fields) = rules[d]
  <2>. DEFINE s == rules[d]
  <2>. DEFINE indices == {p.key[3] : p \in {q \in Range(body) : Len(q.key) = 4 /\ q.key[2] = d}}
  <2>1. /\ Len(s) \in Nat /\ DOMAIN s = 1..Len(s)
        /\ \A i \in DOMAIN s : s[i] = [f \in fields |-> s[i][f]] /\ DOMAIN s[i] = fields
        /\ s = [i \in 1..Len(s) |-> s[i]]
    BY LenProperties, ElementOfSeq DEF Rulesets
  <2>2. indices = 1..Len(s)
    <3>1. ASSUME NEW q \in Range(body), Len(q.key) = 4, q.key[2] = d PROVE q.key[3] \in DOMAIN s
      <4>1. q \notin PairsOf(extra, <<>>)
        BY ONLY <1>0, <3>1 DEF IsPlain
      <4>2. PICK e \in DOMAIN rules : \E i \in DOMAIN rules[e] : \E f \in SentFields(rules[e][i]) :
              q.key = <<"rules", e, i, f>>
        BY ONLY <1>1, <3>1, <4>1, PairsFound
      <4>3. PICK i \in DOMAIN rules[e] : \E f \in SentFields(rules[e][i]) : q.key = <<"rules", e, i, f>>
        BY ONLY <4>2
      <4>4. e = d /\ q.key[3] = i
        BY ONLY <3>1, <4>3, KeysApart
      <4>. QED  BY <4>4
    <3>2. ASSUME NEW i \in DOMAIN s
          PROVE  \E q \in Range(body) : Len(q.key) = 4 /\ q.key[2] = d /\ q.key[3] = i
      <4>. DEFINE q == Pair(<<"rules", d, i, "action">>, s[i]["action"])
      <4>1. q \in Range(body)
        BY <1>1, PairsFound DEF SentFields
      <4>2. q.key = <<"rules", d, i, "action">>
        BY DEF Pair
      <4>. HIDE DEF q
      <4>. QED  BY ONLY <4>1, <4>2, KeysApart
    <3>3. indices = DOMAIN s
      <4>. HIDE DEF s
      <4>. QED  BY ONLY <3>1, <3>2
    <3>. QED  BY ONLY <2>1, <3>3
  <2>3. Cardinality(1..Len(s)) = Len(s)
    BY ONLY <2>1, FS_Interval
  <2>4. ASSUME NEW i \in DOMAIN s, NEW f \in fields
        PROVE  ReadField(body, <<"rules", d, i, f>>) = s[i][f]
    <3>. DEFINE key == <<"rules", d, i, f>>
    <3>1. ASSUME NEW p \in Range(body), p.key = key
          PROVE  f \in SentFields(s[i]) /\ p.value = QueryEscape(s[i][f])
      <4>0. Len(p.key) = 4
        BY ONLY <3>1, KeysApart
      <4>1. p \notin PairsOf(extra, <<>>)
        BY ONLY <1>0, <4>0 DEF IsPlain
      <4>2. PICK e \in DOMAIN rules : \E j \in DOMAIN rules[e] : \E g \in SentFields(rules[e][j]) :
              p.key = <<"rules", e, j, g>> /\ p.value = QueryEscape(rules[e][j][g])
        BY ONLY <1>1, <3>1, <4>1, PairsFound
      <4>3. PICK j \in DOMAIN rules[e] : \E g \in SentFields(rules[e][j]) :
              p.key = <<"rules", e, j, g>> /\ p.value = QueryEscape(rules[e][j][g])
        BY ONLY <4>2
      <4>4. PICK g \in SentFields(rules[e][j]) :
              p.key = <<"rules", e, j, g>> /\ p.value = QueryEscape(rules[e][j][g])
        BY ONLY <4>3
      <4>5. e = d /\ j = i /\ g = f
        BY ONLY <3>1, <4>4, KeysApart
      <4>. QED  BY ONLY <4>4, <4>5 DEF s
    <3>2. CASE f \in SentFields(s[i])
      <4>1. Pair(key, s[i][f]) \in Range(body)
        BY <1>1, <3>2, PairsFound
      <4>2. \E p \in Range(body) : p.key = key
        BY ONLY <4>1 DEF Pair
      <4>. HIDE DEF key
      <4>. QED  BY <1>1, <3>1, <4>2, FieldIsRead DEF key
    <3>3. CASE f \notin SentFields(s[i])
      <4>1. s[i][f] = Unset
        BY <2>1, <3>3 DEF SentFields
      <4>2. \A p \in Range(body) : p.key # key
        BY ONLY <3>1, <3>3
      <4>. HIDE DEF key
      <4>. QED  BY <1>1, <4>1, <4>2, FieldIsUnset DEF key
    <3>. QED  BY <3>2, <3>3
  <2>5. ReadRules(body, d, fields) = [i \in 1..Len(s) |-> [f \in fields |-> s[i][f]]]
    <3>. HIDE DEF s
    <3>1. ReadRules(body, d, fields)
            = [i \in 1..Len(s) |-> [f \in fields |-> ReadField(body, <<"rules", d, i, f>>)]]
      BY ONLY <2>2, <2>3 DEF ReadRules
    <3>. QED  BY ONLY <2>1, <2>4, <3>1
  <2>. HIDE DEF s
  <2>6. ReadRules(body, d, fields) = s
    BY ONLY <2>1, <2>5
  <2>. QED  BY <2>6 DEF s
<1>. QED  BY <1>4, <1>5 DEF body

-----------------------------------------------------------------------------
(* A list is sent as pairs that have its name and empty brackets.          *)
Items(name, V) == {Pair(<<name, "[]">>, v) : v \in V}

(* The pairs of a list have its name and are not plain.                    *)
LEMMA ListIsSent ==
  ASSUME NEW name, NEW V, NEW values \in Seq(V)
  PROVE  /\ BracketArray(name, values) \in Seq(Items(name, V))
         /\ \A p \in Range(BracketArray(name, values)) : p.key = <<name, "[]">> /\ ~IsPlain(p)
<1>1. DOMAIN values = 1..Len(values) /\ Len(values) \in Nat /\ \A i \in DOMAIN values : values[i] \in V
  BY LenProperties, ElementOfSeq
<1>2. /\ BracketArray(name, values) = [i \in 1..Len(values) |-> Pair(<<name, "[]">>, values[i])]
      /\ \A i \in 1..Len(values) : Pair(<<name, "[]">>, values[i]) \in Items(name, V)
  BY ONLY <1>1 DEF BracketArray, Items
<1>3. BracketArray(name, values) \in [1..Len(values) -> Items(name, V)]
  BY ONLY <1>2
<1>4. BracketArray(name, values) \in Seq(Items(name, V))
  BY ONLY <1>1, <1>3
<1>5. \A p : p.key = <<name, "[]">> => ~IsPlain(p)
  BY DEF IsPlain
<1>6. ASSUME NEW p \in Range(BracketArray(name, values)) PROVE p.key = <<name, "[]">>
  <2>1. PICK i \in 1..Len(values) : p = Pair(<<name, "[]">>, values[i])
    BY ONLY <1>2, <1>6 DEF Range
  <2>. QED  BY ONLY <2>1 DEF Pair
<1>. QED  BY ONLY <1>4, <1>5, <1>6

(* A list is read as it was, in its order.                                 *)
LEMMA ListIsRead ==
  ASSUME NEW name, NEW V, NEW values \in Seq(V), NEW body,
         Under(body, <<name, "[]">>) = BracketArray(name, values)
  PROVE  ReadList(body, name) = values
<1>1. values = [i \in DOMAIN values |-> values[i]]
  BY LenProperties
<1>2. ReadList(body, name) = [i \in DOMAIN values |-> Read(Pair(<<name, "[]">>, values[i]).value)]
  <2>1. ReadList(body, name)
          = [i \in DOMAIN BracketArray(name, values) |-> Read(BracketArray(name, values)[i].value)]
    BY DEF ReadList
  <2>2. /\ DOMAIN BracketArray(name, values) = DOMAIN values
        /\ \A i \in DOMAIN values : BracketArray(name, values)[i] = Pair(<<name, "[]">>, values[i])
    BY ONLY TRUE DEF BracketArray
  <2>. QED  BY ONLY <2>1, <2>2
<1>3. \A k, v : Read(Pair(k, v).value) = v
  BY ONLY TRUE DEF Read, Pair, QueryEscape
<1>. QED  BY ONLY <1>1, <1>2, <1>3

LEMMA ThreeParts ==
  ASSUME NEW T, NEW a \in Seq(T), NEW b \in Seq(T), NEW c \in Seq(T)
  PROVE  a \o b \o c \in Seq(T) /\ Range(a \o b \o c) = Range(a) \cup Range(b) \cup Range(c)
<1>1. a \o b \in Seq(T) /\ Range(a \o b) = Range(a) \cup Range(b)
  BY ConcatProperties, ConcatRange
<1>. DEFINE d == a \o b
<1>. HIDE DEF d
<1>2. d \in Seq(T) /\ Range(d) = Range(a) \cup Range(b)
  BY <1>1 DEF d
<1>3. d \o c \in Seq(T)
  BY <1>2, ConcatProperties
<1>4. Range(d \o c) = Range(d) \cup Range(c)
  BY <1>2, ConcatRange
<1>. QED  BY ONLY <1>2, <1>3, <1>4 DEF d

(* A part of a body all of whose pairs have the key is read whole, and one *)
(* none of whose pairs has it is passed over.                              *)
LEMMA PartIsFound ==
  ASSUME NEW T, NEW a \in Seq(T), NEW b \in Seq(T), NEW c \in Seq(T), NEW key,
         \A p \in Range(a) : p.key # key
  PROVE  /\ (\A p \in Range(b) : p.key = key) /\ (\A p \in Range(c) : p.key # key)
              => Under(a \o b \o c, key) = b
         /\ (\A p \in Range(b) : p.key # key) /\ (\A p \in Range(c) : p.key = key)
              => Under(a \o b \o c, key) = c
<1>. DEFINE body == a \o b \o c
<1>. DEFINE S == {p \in Range(body) : p.key = key}
<1>1. Range(body) = Range(a) \cup Range(b) \cup Range(c)
  BY ThreeParts
<1>2. Under(body, key) = Among(a, S) \o Among(b, S) \o Among(c, S)
  <2>. HIDE DEF S
  <2>1. a \o b \in Seq(T) /\ Among(a \o b, S) = Among(a, S) \o Among(b, S)
    BY ConcatProperties, AmongConcat
  <2>. DEFINE d == a \o b
  <2>. HIDE DEF d
  <2>2. d \in Seq(T) /\ Among(d, S) = Among(a, S) \o Among(b, S)
    BY <2>1 DEF d
  <2>3. Among(d \o c, S) = Among(d, S) \o Among(c, S)
    BY <2>2, AmongConcat
  <2>. QED  BY <2>2, <2>3 DEF Under, S, d
<1>. HIDE DEF body
<1>3. Range(a) \cap S = {}
  OBVIOUS
<1>4. /\ (\A p \in Range(b) : p.key # key) => Range(b) \cap S = {}
      /\ (\A p \in Range(c) : p.key # key) => Range(c) \cap S = {}
  OBVIOUS
<1>5. /\ (\A p \in Range(b) : p.key = key) => Range(b) \subseteq S
      /\ (\A p \in Range(c) : p.key = key) => Range(c) \subseteq S
  BY <1>1
<1>. HIDE DEF S
<1>6. Among(a, S) = <<>>
  BY <1>3, AmongNone
<1>7. (\A p \in Range(b) : p.key = key) /\ (\A p \in Range(c) : p.key # key) => Under(body, key) = b
  <2>. SUFFICES ASSUME Range(b) \subseteq S, Range(c) \cap S = {} PROVE Under(body, key) = b
    BY <1>4, <1>5
  <2>1. Among(b, S) = b /\ Among(c, S) = <<>>
    BY AmongAll, AmongNone
  <2>. QED  BY <1>2, <1>6, <2>1, ConcatEmptySeq
<1>8. (\A p \in Range(b) : p.key # key) /\ (\A p \in Range(c) : p.key = key) => Under(body, key) = c
  <2>. SUFFICES ASSUME Range(c) \subseteq S, Range(b) \cap S = {} PROVE Under(body, key) = c
    BY <1>4, <1>5
  <2>1. Among(c, S) = c /\ Among(b, S) = <<>>
    BY AmongAll, AmongNone
  <2>. QED  BY <1>2, <1>6, <2>1, ConcatEmptySeq, EmptySeq
<1>. QED  BY <1>7, <1>8 DEF body

(* The API reads the servers of a vSwitch in the order given.              *)
LEMMA ServersArrive ==
  ASSUME NEW V, NEW servers \in Seq(V)
  PROVE  ReadList(ServersForm(servers), "server") = servers
<1>. DEFINE body == BracketArray("server", servers)
<1>1. body \in Seq(Items("server", V)) /\ \A p \in Range(body) : p.key = <<"server", "[]">>
  BY ListIsSent
<1>. HIDE DEF body
<1>2. Under(body, <<"server", "[]">>) = body
  BY <1>1, AmongAll DEF Under
<1>. QED  BY <1>2, ListIsRead DEF ServersForm, body

(* The plain fields a traffic query sends.                                 *)
AskedOf(params) ==
  [f \in {"type", "from", "to"} \cup (IF params.single THEN {"single_values"} ELSE {}) |->
     IF f = "single_values" THEN "true" ELSE params[f]]

(* A traffic query is the plain fields, the addresses and the subnets.     *)
LEMMA AskedIsSent ==
  ASSUME NEW params
  PROVE  TrafficForm(params) = Pairs(AskedOf(params), <<>>)
                                 \o BracketArray("ip", TrafficAddresses(params))
                                 \o BracketArray("subnet", params.subnets)
<1>. DEFINE given == [from |-> params.from, to |-> params.to, type |-> params.type]
<1>. DEFINE more == IF params.single THEN {"single_values"} ELSE {}
<1>1. DOMAIN given = {"type", "from", "to"}
  OBVIOUS
<1>2. given.from = params.from /\ given.to = params.to /\ given.type = params.type
  OBVIOUS
<1>3. \A f \in DOMAIN given : given[f] = params[f]
  <2>. HIDE DEF given
  <2>. QED  BY ONLY <1>1, <1>2
<1>4. more \subseteq {"single_values"}
  OBVIOUS
<1>. HIDE DEF given, more
<1>5. \A f \in DOMAIN given \cup more :
        (IF f = "single_values" THEN "true" ELSE given[f])
          = (IF f = "single_values" THEN "true" ELSE params[f])
  BY ONLY <1>3, <1>4
<1>6. [f \in DOMAIN given \cup more |-> IF f = "single_values" THEN "true" ELSE given[f]]
        = [f \in {"type", "from", "to"} \cup more |->
             IF f = "single_values" THEN "true" ELSE params[f]]
  BY ONLY <1>1, <1>5
<1>. QED  BY ONLY <1>6 DEF TrafficForm, AskedOf, given, more

(* The API reads the fields, the addresses and the subnets that the caller *)
(* asks for, and nothing else; the single address comes first.             *)
THEOREM QueriesArrive ==
  ASSUME NEW V, NEW params, params.ip \in V, params.ips \in Seq(V), params.subnets \in Seq(V)
  PROVE  /\ ReadList(TrafficForm(params), "ip")
              = (IF params.ip = Unset THEN <<>> ELSE <<params.ip>>) \o params.ips
         /\ ReadList(TrafficForm(params), "subnet") = params.subnets
         /\ ReadExtras(TrafficForm(params)) = AskedOf(params)
<1>. DEFINE asked == AskedOf(params)
<1>. DEFINE addresses == TrafficAddresses(params)
<1>. DEFINE subnets == params.subnets
<1>. DEFINE body == TrafficForm(params)
<1>1. asked = [f \in DOMAIN asked |-> asked[f]] /\ DOMAIN asked \subseteq Range(Names)
  <2>1. DOMAIN asked \subseteq {"type", "from", "to", "single_values"}
    BY DEF AskedOf
  <2>2. {"type", "from", "to", "single_values"} \subseteq Range(Names)
    <3>1. DOMAIN Names = 1..19
      BY DEF Names
    <3>2. Names[5] = "from" /\ Names[12] = "single_values" /\ Names[17] = "to" /\ Names[18] = "type"
      BY DEF Names
    <3>. QED  BY ONLY <3>1, <3>2 DEF Range
  <2>. QED  BY ONLY <2>1, <2>2 DEF AskedOf
<1>2. /\ addresses \in Seq(V)
      /\ addresses = (IF params.ip = Unset THEN <<>> ELSE <<params.ip>>) \o params.ips
  <2>1. <<params.ip>> \in Seq(V)
    OBVIOUS
  <2>2. <<params.ip>> \o params.ips \in Seq(V)
    BY <2>1, ConcatProperties
  <2>3. <<>> \o params.ips = params.ips
    BY ConcatEmptySeq
  <2>. QED  BY <2>2, <2>3 DEF TrafficAddresses
<1>. DEFINE a == Pairs(asked, <<>>)
<1>. DEFINE b == BracketArray("ip", addresses)
<1>. DEFINE c == BracketArray("subnet", subnets)
<1>. DEFINE plain == PairsOf(asked, <<>>)
<1>. DEFINE T == plain \cup (Items("ip", V) \cup Items("subnet", V))
<1>3. body = a \o b \o c
  BY AskedIsSent
<1>4. a \in Seq(plain) /\ Range(a) = plain /\ \A p \in plain : IsPlain(p)
  <2>1. \A p \in plain : IsPlain(p)
    BY ONLY PairsFound
  <2>. QED  BY ONLY <1>1, <2>1, PairsAreAll
<1>5. b \in Seq(Items("ip", V)) /\ \A p \in Range(b) : p.key = <<"ip", "[]">> /\ ~IsPlain(p)
  BY <1>2, ListIsSent
<1>6. c \in Seq(Items("subnet", V)) /\ \A p \in Range(c) : p.key = <<"subnet", "[]">> /\ ~IsPlain(p)
  BY ListIsSent
<1>. HIDE DEF body, a, b, c, plain, addresses, asked
<1>7. a \in Seq(T) /\ b \in Seq(T) /\ c \in Seq(T)
  BY ONLY <1>4, <1>5, <1>6
<1>8. /\ \A p : IsPlain(p) => p.key # <<"ip", "[]">> /\ p.key # <<"subnet", "[]">>
      /\ <<"ip", "[]">> # <<"subnet", "[]">>
  <2>1. \A name : \A p : p.key = <<name, "[]">> => ~IsPlain(p)
    <3>1. \A name : Len(<<name, "[]">>) = 2
      OBVIOUS
    <3>. QED  BY ONLY <3>1 DEF IsPlain
  <2>2. <<"ip", "[]">> # <<"subnet", "[]">>
    OBVIOUS
  <2>. QED  BY ONLY <2>1, <2>2
<1>. HIDE DEF T
<1>. DEFINE ip == <<"ip", "[]">>
<1>. DEFINE subnet == <<"subnet", "[]">>
<1>9. body \in Seq(T) /\ Range(body) = Range(a) \cup Range(b) \cup Range(c)
  BY <1>3, <1>7, ThreeParts
<1>15. /\ \A p \in Range(a) : p.key # ip /\ p.key # subnet /\ IsPlain(p)
       /\ \A p \in Range(b) : p.key = ip /\ p.key # subnet /\ ~IsPlain(p)
       /\ \A p \in Range(c) : p.key # ip /\ p.key = subnet /\ ~IsPlain(p)
  <2>1. \A p \in Range(a) : p.key # ip /\ p.key # subnet /\ IsPlain(p)
    BY ONLY <1>4, <1>8
  <2>2. \A p \in Range(b) : p.key = ip /\ p.key # subnet /\ ~IsPlain(p)
    BY ONLY <1>5, <1>8
  <2>3. \A p \in Range(c) : p.key # ip /\ p.key = subnet /\ ~IsPlain(p)
    BY ONLY <1>6, <1>8
  <2>. QED  BY ONLY <2>1, <2>2, <2>3
<1>. HIDE DEF ip, subnet
<1>10. Under(body, ip) = b
  <2>1. /\ \A p \in Range(a) : p.key # ip
        /\ \A p \in Range(b) : p.key = ip
        /\ \A p \in Range(c) : p.key # ip
    BY ONLY <1>15
  <2>2. Under(a \o b \o c, ip) = b
    BY ONLY <1>7, <2>1, PartIsFound
  <2>. QED  BY ONLY <1>3, <2>2
<1>11. Under(body, subnet) = c
  <2>1. /\ \A p \in Range(a) : p.key # subnet
        /\ \A p \in Range(b) : p.key # subnet
        /\ \A p \in Range(c) : p.key = subnet
    BY ONLY <1>15
  <2>2. Under(a \o b \o c, subnet) = c
    BY ONLY <1>7, <2>1, PartIsFound
  <2>. QED  BY ONLY <1>3, <2>2
<1>12. ReadList(body, "ip") = addresses
  BY <1>2, <1>10, ListIsRead DEF b, ip
<1>13. ReadList(body, "subnet") = subnets
  BY <1>11, ListIsRead DEF c, subnet
<1>14. ReadExtras(body) = asked
  <2>. DEFINE bracketed == Range(b) \cup Range(c)
  <2>1. \A p \in bracketed : ~IsPlain(p)
    BY <1>15
  <2>2. Range(body) = plain \cup bracketed
    BY ONLY <1>4, <1>9
  <2>. HIDE DEF bracketed
  <2>3. body \in Seq(plain \cup bracketed)
    <3>. DEFINE U == plain \cup bracketed
    <3>1. body \in [1..Len(body) -> T] /\ Len(body) \in Nat /\ DOMAIN body = 1..Len(body)
      BY ONLY <1>9, LenProperties
    <3>2. Range(body) = U
      BY ONLY <2>2
    <3>. HIDE DEF U
    <3>3. \A i \in 1..Len(body) : body[i] \in U
      BY ONLY <3>1, <3>2 DEF Range
    <3>4. body \in [1..Len(body) -> U]
      BY ONLY <3>1, <3>3
    <3>5. body \in Seq(U)
      BY ONLY <3>1, <3>4
    <3>. QED  BY ONLY <3>5 DEF U
  <2>. QED  BY ONLY <1>1, <2>1, <2>2, <2>3, ExtrasArrive DEF plain
<1>. QED  BY <1>2, <1>12, <1>13, <1>14 DEF body, asked, addresses
=============================================================================
