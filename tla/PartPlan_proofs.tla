--------------------------- MODULE PartPlan_proofs ---------------------------
(***************************************************************************)
(* What the part arithmetic of upload_multipart computes, for all file     *)
(* sizes, arguments and limits.                                            *)
(***************************************************************************)
EXTENDS PartPlan, TLAPS

\* Rounding up: CeilDiv(a, b) copies of b reach a, one fewer do not.
LEMMA CeilDivBounds ==
  ASSUME NEW a \in Nat \ {0}, NEW b \in Nat \ {0}
  PROVE  /\ CeilDiv(a, b) \in Nat \ {0}
         /\ (CeilDiv(a, b) - 1) * b < a
         /\ a <= CeilDiv(a, b) * b
<1> DEFINE s == a + b - 1
           q == s \div b
<1>1. s \in Nat /\ s >= b
  OBVIOUS
<1>2. /\ q \in Int
      /\ q * b <= s
      /\ s < q * b + b
  <2> HIDE DEF s
  <2> QED BY <1>1
<1>3. q >= 1
  <2>1. CASE q <= 0
    <3> HIDE DEF q
    <3>1. q * b <= 0
      BY <1>2, <2>1
    <3> QED BY <1>1, <1>2, <3>1
  <2> QED BY <1>2, <2>1
<1>4. (q - 1) * b = q * b - b
  <2> HIDE DEF q
  <2> QED BY <1>2
<1>5. (q - 1) * b < a /\ a <= q * b
  <2> HIDE DEF q
  <2> QED BY <1>2, <1>4
<1> QED BY <1>2, <1>3, <1>5 DEF CeilDiv

\* A quotient rounded up is at most c exactly when c copies suffice.
LEMMA CeilDivAtMost ==
  ASSUME NEW a \in Nat \ {0}, NEW b \in Nat \ {0}, NEW c \in Nat, a <= c * b
  PROVE  CeilDiv(a, b) <= c
<1> DEFINE q == CeilDiv(a, b)
<1>1. q \in Nat \ {0} /\ (q - 1) * b < a
  BY CeilDivBounds
<1> HIDE DEF q
<1>2. SUFFICES ASSUME q >= c + 1 PROVE FALSE
  BY <1>1 DEF q
<1>3. (q - 1) * b >= c * b
  BY <1>1, <1>2
<1> QED BY <1>1, <1>3

\* The plan of an accepted call respects every limit.
LEMMA PlanBounds ==
  ASSUME NEW total \in Nat, NEW part \in Int, NEW asked \in Int, NEW retries \in Int,
         Accepts(total, part, asked, retries)
  PROVE  LET eff == EffectiveSize(total, part)
             count == PartCount(total, eff)
             workers == BoundedWorkers(asked, count, eff)
         IN  /\ eff \in Nat \ {0} /\ MinPart <= eff /\ eff <= MaxBuffered
             /\ count \in Nat /\ 1 <= count /\ count <= MaxParts
             /\ (count - 1) * eff < total /\ total <= count * eff
             /\ workers \in Nat /\ 1 <= workers /\ workers <= count
             /\ workers * eff <= BufferMemory
<1> DEFINE required == CeilDiv(total, MaxParts)
           eff == EffectiveSize(total, part)
           count == PartCount(total, eff)
           room == BufferMemory \div eff
<1>1. /\ total \in Nat \ {0} /\ MinPart <= part /\ 1 <= asked
      /\ eff <= MaxBuffered
  BY LimitsAssumption DEF Accepts, LegalArguments, FitsBuffers
<1>2. /\ required \in Nat /\ total <= required * MaxParts
  BY <1>1, CeilDivBounds, LimitsAssumption
<1>3. /\ eff \in Nat \ {0} /\ MinPart <= eff /\ required <= eff
  <2> HIDE DEF required
  <2> QED BY <1>1, <1>2, LimitsAssumption DEF EffectiveSize, AtLeast, required
<1> HIDE DEF eff, required
<1>4. /\ count \in Nat \ {0}
      /\ (count - 1) * eff < total /\ total <= count * eff
  BY <1>1, <1>3, CeilDivBounds DEF PartCount
<1>5. count <= MaxParts
  <2>1. required * MaxParts <= eff * MaxParts
    BY <1>2, <1>3, LimitsAssumption
  <2>2. total <= MaxParts * eff
    BY <1>1, <1>2, <1>3, <2>1, LimitsAssumption
  <2> QED BY <1>1, <1>3, <2>2, CeilDivAtMost, LimitsAssumption DEF PartCount
<1>6. room \in Nat /\ room >= 1 /\ room * eff <= BufferMemory
  <2>1. room \in Int /\ room * eff <= BufferMemory /\ BufferMemory < room * eff + eff
    BY <1>3, LimitsAssumption
  <2>2. CASE room <= 0
    <3> HIDE DEF room
    <3>1. room * eff <= 0
      BY <1>3, <2>1, <2>2
    <3> QED BY <1>1, <1>3, <2>1, <3>1, LimitsAssumption
  <2> QED BY <2>1, <2>2
<1> HIDE DEF count, room
<1>7. LET w == BoundedWorkers(asked, count, eff) IN
      w \in Nat /\ 1 <= w /\ w <= count /\ w <= room
  BY <1>1, <1>4, <1>6 DEF BoundedWorkers, AtMost, AtLeast, room
<1>8. BoundedWorkers(asked, count, eff) * eff <= BufferMemory
  <2> DEFINE w == BoundedWorkers(asked, count, eff)
  <2>1. w \in Nat /\ w <= room
    BY <1>7
  <2> HIDE DEF w
  <2>2. w * eff <= room * eff
    BY <1>3, <1>6, <2>1
  <2>3. w * eff <= BufferMemory
    BY <1>3, <1>6, <2>1, <2>2, LimitsAssumption
  <2> QED BY <2>3 DEF w
<1> QED
  BY <1>1, <1>3, <1>4, <1>5, <1>7, <1>8 DEF eff, count

\* Part n of a plan reads a nonempty range inside the file that fits a buffer;
\* all parts but the last are full, and the last ends at the end of the file.
LEMMA RangeBounds ==
  ASSUME NEW t \in Nat, NEW part \in Int, NEW asked \in Int, NEW retries \in Int,
         Accepts(t, part, asked, retries),
         NEW n \in 1..PartCount(t, EffectiveSize(t, part))
  PROVE  LET eff == EffectiveSize(t, part)
             count == PartCount(t, eff)
             size == PartBytes(n, t, eff)
         IN  /\ Offset(n, eff) \in Nat /\ Offset(n, eff) = (n - 1) * eff
             /\ size \in Nat /\ 0 < size /\ size <= eff
             /\ n < count => size = eff
             /\ n = count => Offset(n, eff) + size = t
<1> DEFINE e == EffectiveSize(t, part)
           k == PartCount(t, e)
<1>1. /\ e \in Nat \ {0} /\ k \in Nat \ {0} /\ t \in Nat
      /\ (k - 1) * e < t /\ t <= k * e
  <2>1. /\ e \in Nat \ {0} /\ k \in Nat /\ 1 <= k
        /\ (k - 1) * e < t /\ t <= k * e
    BY PlanBounds, Zenon
  <2> HIDE DEF e, k
  <2> QED BY <2>1
<1>2. n \in 1..k
  OBVIOUS
<1> HIDE DEF e, k
<1>3. /\ (n - 1) * e \in Nat /\ n * e \in Nat /\ n * e = (n - 1) * e + e
      /\ (n - 1) * e <= (k - 1) * e
      /\ n < k => n * e <= (k - 1) * e
  <2>1. n \in Nat /\ k \in Nat /\ n - 1 \in Nat /\ k - 1 \in Nat /\ n - 1 <= k - 1
    BY <1>1, <1>2
  <2>2. (n - 1) * e <= (k - 1) * e
    BY <1>1, <2>1
  <2>3. n < k => n * e <= (k - 1) * e
    BY <1>1, <2>1
  <2>4. n * e = (n - 1) * e + e
    BY <1>1, <2>1
  <2>5. (n - 1) * e \in Nat /\ n * e \in Nat
    BY <1>1, <2>1
  <2> QED BY <2>2, <2>3, <2>4, <2>5
<1>4. (n - 1) * e < t
  BY <1>1, <1>3
<1>5. n < k => t - (n - 1) * e >= e
  BY <1>1, <1>3
<1>6. n = k => t - (n - 1) * e <= e
  BY <1>1, <1>3
<1> QED
  BY <1>1, <1>2, <1>3, <1>4, <1>5, <1>6 DEF Offset, PartBytes, AtMost, e, k
=============================================================================
