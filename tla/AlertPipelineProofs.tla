------------------------ MODULE AlertPipelineProofs -------------------------
(***************************************************************************)
(* Proofs about CandleFeeder and about AlertPipeline, which extends it, for*)
(* any markets, rules, stages, cache size and number of periods.           *)
(*                                                                         *)
(* A cache that has had no unexplained failure is a run of candles that    *)
(* reaches the window of the next request (CachesReach), so feeding it     *)
(* leaves the newest candles without a hole (MergeOfRun).                  *)
(***************************************************************************)
EXTENDS AlertPipeline, FiniteSetTheorems, SequenceTheorems, WellFoundedInduction, TLAPS

\* A bounded set of numbers has a greatest one.
LEMMA GreatestExists ==
    ASSUME NEW n \in Nat, NEW T \in SUBSET (1 .. n), T # {}
    PROVE  \E x \in T : \A y \in T : y <= x
<1> DEFINE R == OpToRel(<, Nat)
           U == {k \in Nat : \A y \in T : y <= k}
<1>1. \A x, y \in Nat : <<y, x>> \in R <=> y < x
  BY DEF OpToRel
<1>2. IsWellFoundedOn(R, Nat)
  BY NatLessThanWellFounded
<1> HIDE DEF R
<1>3. n \in U /\ U \subseteq Nat
  OBVIOUS
<1>4. PICK u \in U : \A v \in U : ~(<<v, u>> \in R)
  BY <1>2, <1>3, WFMin
<1>5. u \in Nat /\ \A y \in T : y <= u
  OBVIOUS
<1>6. u \in T
  <2> SUFFICES ASSUME u \notin T PROVE FALSE
    OBVIOUS
  <2>1. \A y \in T : y <= u - 1 /\ y >= 1
    BY <1>5
  <2>2. PICK y \in T : TRUE
    OBVIOUS
  <2>3. u - 1 \in Nat /\ u - 1 < u
    BY <1>5, <2>1, <2>2
  <2>4. u - 1 \in U
    BY <2>1, <2>3
  <2>5. <<u - 1, u>> \in R
    BY <1>1, <1>5, <2>3
  <2> QED
    BY <1>4, <2>4, <2>5
<1> QED
  BY <1>5, <1>6

-----------------------------------------------------------------------------
(* The operators of CandleFeeder *)

Ascending(s) == \A i, j \in 1 .. Len(s) : i < j => s[i] < s[j]

LEMMA CandlesAre ==
    ASSUME NEW f \in Int, NEW t \in Int
    PROVE  /\ Candles(f, t) \in Seq(Int)
           /\ f <= t + 1 => Len(Candles(f, t)) = t - f + 1
           /\ \A i \in 1 .. t - f + 1 : Candles(f, t)[i] = f + i - 1
<1>1. CASE f <= t + 1
  <2>1. t - f + 1 \in Nat
    BY <1>1
  <2>2. \A i \in 1 .. t - f + 1 : f + i - 1 \in Int
    OBVIOUS
  <2> QED
    BY <1>1, <2>1, <2>2 DEF Candles
<1>2. CASE ~(f <= t + 1)
  <2>1. 1 .. t - f + 1 = 1 .. 0
    BY <1>2
  <2>2. Candles(f, t) = <<>>
    BY <2>1 DEF Candles
  <2> QED
    BY <1>2, <2>1, <2>2
<1> QED
  BY <1>1, <1>2

LEMMA NewestIs ==
    ASSUME NEW s \in Seq(Int), NEW n \in Nat
    PROVE  /\ Newest(s, n) \in Seq(Int)
           /\ Len(Newest(s, n)) = IF Len(s) <= n THEN Len(s) ELSE n
           /\ \A i \in 1 .. Len(Newest(s, n)) :
                 Newest(s, n)[i] = s[Len(s) - Len(Newest(s, n)) + i]
<1>1. Len(s) \in Nat
  OBVIOUS
<1>2. CASE Len(s) <= n
  BY <1>1, <1>2 DEF Newest
<1>3. CASE ~(Len(s) <= n)
  <2> DEFINE k == Len(s) - n + 1
  <2>1. k \in 1 .. Len(s) + 1 /\ Len(s) \in 0 .. Len(s) /\ Len(s) - k + 1 = n
    BY <1>1, <1>3
  <2>2. Newest(s, n) = SubSeq(s, k, Len(s))
    BY <1>3 DEF Newest
  <2>3. /\ SubSeq(s, k, Len(s)) \in Seq(Int)
        /\ Len(SubSeq(s, k, Len(s))) = n
        /\ \A i \in 1 .. n : SubSeq(s, k, Len(s))[i] = s[k + i - 1]
    <3>1. k \in Int /\ Len(s) \in Int /\ \A i \in k .. Len(s) : s[i] \in Int
      BY <1>1, <1>3, <2>1
    <3> HIDE DEF k
    <3>2. /\ SubSeq(s, k, Len(s)) \in Seq(Int)
          /\ Len(SubSeq(s, k, Len(s))) = IF k <= Len(s) THEN Len(s) - k + 1 ELSE 0
          /\ \A i \in 1 .. Len(s) - k + 1 : SubSeq(s, k, Len(s))[i] = s[k + i - 1]
      BY <3>1, SubSeqProperties
    <3> QED
      BY <1>1, <2>1, <3>2
  <2>4. \A i \in 1 .. n : k + i - 1 = Len(s) - n + i
    BY <1>1
  <2> QED
    BY <1>3, <2>2, <2>3, <2>4
<1> QED
  BY <1>2, <1>3

\* Entries of a concatenation.
LEMMA Concatenated ==
    ASSUME NEW s \in Seq(Int), NEW t \in Seq(Int)
    PROVE  /\ s \o t \in Seq(Int) /\ Len(s \o t) = Len(s) + Len(t)
           /\ \A i \in 1 .. Len(s) : (s \o t)[i] = s[i]
           /\ \A i \in Len(s) + 1 .. Len(s) + Len(t) : (s \o t)[i] = t[i - Len(s)]
  BY ConcatProperties

LEMMA CardinalityOfFirst ==
    ASSUME NEW n \in Nat
    PROVE  IsFiniteSet(1 .. n) /\ Cardinality(1 .. n) = n
  BY FS_Interval

\* Of a time series no newer than the new candles, the candles before them stay.
LEMMA KeptIsPrefix ==
    ASSUME NEW old \in Seq(Int), Ascending(old), NEW f \in Int, NEW t \in Int, f <= t,
           \A i \in 1 .. Len(old) : old[i] <= t
    PROVE  \E n \in 0 .. Len(old) :
              /\ Kept(old, Candles(f, t)) = [k \in 1 .. n |-> old[k]]
              /\ \A i \in 1 .. n : old[i] < f
              /\ \A i \in n + 1 .. Len(old) : f <= old[i]
<1> DEFINE new == Candles(f, t)
           copies == {new[i] : i \in DOMAIN new}
           places == {i \in DOMAIN old : old[i] \notin copies}
           Nth(k) == CHOOSE i \in places : Cardinality(places \cap 1 .. i) = k
<1>1. Kept(old, new) = [k \in 1 .. Cardinality(places) |-> old[Nth(k)]]
  BY DEF Kept
<1>2. copies = f .. t
  <2>1. DOMAIN new = 1 .. t - f + 1 /\ \A i \in 1 .. t - f + 1 : new[i] = f + i - 1
    BY DEF Candles
  <2> HIDE DEF new
  <2>2. \A c \in f .. t : c - f + 1 \in DOMAIN new /\ new[c - f + 1] = c
    BY <2>1
  <2>3. \A i \in DOMAIN new : new[i] \in f .. t
    BY <2>1
  <2> QED
    BY <2>2, <2>3
<1>3. places = {i \in 1 .. Len(old) : old[i] < f}
  <2>1. DOMAIN old = 1 .. Len(old) /\ \A i \in 1 .. Len(old) : old[i] \in Int
    OBVIOUS
  <2> HIDE DEF new
  <2> QED
    BY <1>2, <2>1
<1>4. Len(old) \in Nat /\ \A i \in 1 .. Len(old) : old[i] \in Int
  OBVIOUS
<1> HIDE DEF new, copies
<1>5. PICK n \in 0 .. Len(old) : places = 1 .. n
  <2> HIDE DEF places
  <2>1. CASE places = {}
    BY <1>4, <2>1
  <2>2. CASE places # {}
    <3>1. PICK n \in places : \A y \in places : y <= n
      BY <1>3, <1>4, <2>2, GreatestExists
    <3>2. n \in 1 .. Len(old) /\ old[n] < f
      BY <1>3
    <3>3. ASSUME NEW i \in 1 .. n PROVE i \in places
      <4>1. i \in 1 .. Len(old) /\ old[i] <= old[n]
        BY <1>4, <3>2 DEF Ascending
      <4>2. old[i] < f
        BY <1>4, <3>2, <4>1
      <4> QED
        BY <1>3, <4>1, <4>2
    <3>4. \A i \in places : i \in 1 .. n
      BY <1>3, <3>1, <3>2
    <3>5. places = 1 .. n
      BY <3>3, <3>4
    <3> QED
      BY <1>4, <3>2, <3>5
  <2> QED
    BY <2>1, <2>2
<1>6. Cardinality(places) = n
  <2>1. Cardinality(1 .. n) = n
    BY <1>4, CardinalityOfFirst
  <2> HIDE DEF places
  <2> QED BY <1>5, <2>1
<1>7. ASSUME NEW k \in 1 .. n PROVE Nth(k) = k
  <2>1. ASSUME NEW i \in 1 .. n PROVE Cardinality(places \cap 1 .. i) = i
    <3>1. places \cap 1 .. i = 1 .. i
      BY <1>4, <1>5
    <3>2. Cardinality(1 .. i) = i
      BY <1>4, CardinalityOfFirst
    <3> HIDE DEF places
    <3> QED
      BY <3>1, <3>2
  <2>2. \A i \in places : Cardinality(places \cap 1 .. i) = k <=> i = k
    BY <1>5, <2>1
  <2>3. k \in places
    BY <1>5
  <2> HIDE DEF places
  <2> QED
    BY <2>2, <2>3
<1>8. Kept(old, new) = [k \in 1 .. n |-> old[k]]
  <2> HIDE DEF places
  <2>1. Kept(old, new) = [k \in 1 .. n |-> old[Nth(k)]]
    BY <1>1, <1>6
  <2> HIDE DEF Nth
  <2> QED
    BY <1>7, <2>1
<1>9. \A i \in 1 .. n : old[i] < f
  <2> HIDE DEF places
  <2> QED BY <1>3, <1>5
<1>10. \A i \in n + 1 .. Len(old) : f <= old[i]
  <2> HIDE DEF places
  <2>1. \A i \in n + 1 .. Len(old) : i \in 1 .. Len(old) /\ i \notin places
    BY <1>4, <1>5
  <2> QED BY <1>3, <1>4, <2>1
<1> QED
  BY <1>8, <1>9, <1>10 DEF new

\* What is fed to a time series leaves a time series of candleCacheNum candles at most.
LEMMA MergeIsSeries ==
    ASSUME NEW old \in Seq(Int), Ascending(old), NEW f \in Int, NEW t \in Int, f <= t,
           \A i \in 1 .. Len(old) : old[i] <= t
    PROVE  /\ Merge(old, Candles(f, t)) \in Seq(Int)
           /\ Len(Merge(old, Candles(f, t))) \in 1 .. CacheNum
           /\ Ascending(Merge(old, Candles(f, t)))
           /\ \A i \in 1 .. Len(Merge(old, Candles(f, t))) : Merge(old, Candles(f, t))[i] <= t
<1> DEFINE new == Candles(f, t)
           kept == Kept(old, new)
           all == kept \o new
           s == Newest(all, CacheNum)
<1>1. PICK n \in 0 .. Len(old) : /\ kept = [k \in 1 .. n |-> old[k]]
                                 /\ \A i \in 1 .. n : old[i] < f
  BY KeptIsPrefix
<1>2. /\ new \in Seq(Int) /\ Len(new) = t - f + 1
      /\ \A i \in 1 .. t - f + 1 : new[i] = f + i - 1
  <2>1. f <= t + 1
    OBVIOUS
  <2> QED BY <2>1, CandlesAre
<1>3. /\ n \in Nat /\ Len(old) \in Nat /\ n <= Len(old)
      /\ \A i \in 1 .. Len(old) : old[i] \in Int
  OBVIOUS
<1>4. /\ kept \in Seq(Int) /\ Len(kept) = n
      /\ \A i \in 1 .. n : kept[i] = old[i]
  BY <1>1, <1>3
<1> HIDE DEF new, kept
<1>5. /\ all \in Seq(Int) /\ Len(all) = n + Len(new) /\ Len(new) \in Nat
      /\ \A i \in 1 .. n : all[i] = old[i]
      /\ \A i \in n + 1 .. n + Len(new) : all[i] = new[i - n]
  <2>1. kept \in Seq(Int) /\ new \in Seq(Int) /\ Len(kept) = n
    BY <1>2, <1>4
  <2>2. /\ all \in Seq(Int) /\ Len(all) = Len(kept) + Len(new)
        /\ \A i \in 1 .. Len(kept) : all[i] = kept[i]
        /\ \A i \in Len(kept) + 1 .. Len(kept) + Len(new) : all[i] = new[i - Len(kept)]
    BY <2>1, Concatenated
  <2> HIDE DEF all
  <2> QED BY <1>2, <1>4, <2>1, <2>2
<1> HIDE DEF all
<1>6. /\ \A i \in 1 .. Len(all) : all[i] \in Int /\ all[i] <= t
      /\ \A i, j \in 1 .. Len(all) : i < j => all[i] < all[j]
  <2>1. ASSUME NEW i \in 1 .. Len(all)
        PROVE  /\ i <= n => all[i] = old[i] /\ i \in 1 .. Len(old) /\ old[i] < f
               /\ ~(i <= n) => all[i] = f + (i - n) - 1 /\ i - n \in 1 .. Len(new)
    <3>1. i \in Nat /\ 1 <= i /\ i <= n + Len(new)
      BY <1>3, <1>5
    <3>2. CASE i <= n
      <4>1. i \in 1 .. n /\ i \in 1 .. Len(old)
        BY <1>3, <3>1, <3>2
      <4> QED BY <1>1, <1>5, <3>2, <4>1
    <3>3. CASE ~(i <= n)
      <4>1. i \in n + 1 .. n + Len(new) /\ i - n \in 1 .. Len(new)
        BY <1>3, <1>5, <3>1, <3>3
      <4>2. all[i] = new[i - n] /\ new[i - n] = f + (i - n) - 1
        BY <1>2, <1>5, <4>1
      <4> QED BY <3>3, <4>1, <4>2
    <3> QED BY <3>2, <3>3
  <2>2. ASSUME NEW i \in 1 .. Len(all) PROVE all[i] \in Int /\ all[i] <= t
    <3>1. CASE i <= n
      BY <1>3, <2>1, <3>1
    <3>2. CASE ~(i <= n)
      BY <1>2, <1>3, <2>1, <3>2
    <3> QED BY <3>1, <3>2
  <2>3. ASSUME NEW i \in 1 .. Len(all), NEW j \in 1 .. Len(all), i < j PROVE all[i] < all[j]
    <3>1. i \in Nat /\ j \in Nat
      BY <1>5
    <3>2. CASE j <= n
      <4>1. i <= n
        BY <1>3, <2>3, <3>1, <3>2
      <4> QED BY <2>1, <2>3, <3>2, <4>1 DEF Ascending
    <3>3. CASE i <= n /\ ~(j <= n)
      <4>1. all[i] = old[i] /\ old[i] < f /\ all[j] = f + (j - n) - 1 /\ j - n >= 1 /\ old[i] \in Int
        <5>1. all[i] = old[i] /\ old[i] < f /\ old[i] \in Int
          BY <1>3, <2>1, <3>3
        <5>2. all[j] = f + (j - n) - 1 /\ j - n \in 1 .. Len(new)
          BY <2>1, <3>3
        <5> QED BY <5>1, <5>2
      <4> QED BY <1>3, <3>1, <4>1
    <3>4. CASE ~(i <= n) /\ ~(j <= n)
      <4>1. all[i] = f + (i - n) - 1 /\ all[j] = f + (j - n) - 1
        BY <2>1, <3>4
      <4> QED BY <1>3, <2>3, <3>1, <4>1
    <3> QED BY <1>3, <2>3, <3>1, <3>2, <3>3, <3>4
  <2> QED BY <2>2, <2>3
<1>7. /\ s \in Seq(Int)
      /\ Len(s) = IF Len(all) <= CacheNum THEN Len(all) ELSE CacheNum
      /\ \A i \in 1 .. Len(s) : s[i] = all[Len(all) - Len(s) + i]
  BY <1>5, NewestIs, CandleAssumption
<1>8. Merge(old, new) = s
  BY DEF Merge, all, kept
<1> HIDE DEF s
<1>9. Len(s) \in 1 .. CacheNum /\ Len(s) \in Nat /\ Len(s) <= Len(all) /\ Len(all) \in Nat
  BY <1>2, <1>3, <1>5, <1>7, CandleAssumption
<1>10. \A i \in 1 .. Len(s) : Len(all) - Len(s) + i \in 1 .. Len(all)
  BY <1>9
<1>11. \A i \in 1 .. Len(s) : s[i] <= t
  BY <1>6, <1>7, <1>10
<1>12. Ascending(s)
  <2> SUFFICES ASSUME NEW i \in 1 .. Len(s), NEW j \in 1 .. Len(s), i < j PROVE s[i] < s[j]
    BY DEF Ascending
  <2>1. Len(all) - Len(s) + i < Len(all) - Len(s) + j
    BY <1>9
  <2> QED BY <1>6, <1>7, <1>10, <2>1
<1> QED
  BY <1>7, <1>8, <1>9, <1>11, <1>12 DEF new

\* Candles that begin where a full cache ends, or before, leave the newest ones,
\* without a hole.
LEMMA MergeOfRun ==
    ASSUME NEW a \in Int, NEW b \in Int, CacheNum <= b - a + 1,
           NEW f \in Int, NEW t \in Int, f <= t, b <= t, f <= b + 1
    PROVE  Merge(Candles(a, b), Candles(f, t)) = Candles(t - CacheNum + 1, t)
<1> DEFINE old == Candles(a, b)
           new == Candles(f, t)
           kept == Kept(old, new)
           all == kept \o new
           s == Newest(all, CacheNum)
<1>0. CacheNum \in Nat /\ CacheNum >= 1
  BY CandleAssumption
<1>1. /\ old \in Seq(Int) /\ Len(old) = b - a + 1
      /\ \A i \in 1 .. b - a + 1 : old[i] = a + i - 1
  BY <1>0, CandlesAre
<1>2. /\ new \in Seq(Int) /\ Len(new) = t - f + 1
      /\ \A i \in 1 .. t - f + 1 : new[i] = f + i - 1
  <2>1. f <= t + 1
    OBVIOUS
  <2> QED BY <2>1, CandlesAre
<1> HIDE DEF old
<1>3. Ascending(old) /\ \A i \in 1 .. Len(old) : old[i] <= t
  BY <1>1 DEF Ascending
<1>4. PICK n \in 0 .. Len(old) : /\ kept = [k \in 1 .. n |-> old[k]]
                                 /\ \A i \in 1 .. n : old[i] < f
                                 /\ \A i \in n + 1 .. Len(old) : f <= old[i]
  BY <1>1, <1>3, KeptIsPrefix
<1>5. n \in Nat /\ n <= b - a + 1
  BY <1>0, <1>1
<1>6. /\ kept \in Seq(Int) /\ Len(kept) = n
      /\ \A i \in 1 .. n : kept[i] = old[i]
  BY <1>1, <1>4, <1>5
<1> HIDE DEF new, kept
\* What is kept ends where the new candles begin.
<1>7. n >= 1 => f = a + n
  <2> SUFFICES ASSUME n >= 1 PROVE f = a + n
    OBVIOUS
  <2>1. old[n] = a + n - 1 /\ old[n] < f
    BY <1>1, <1>4, <1>5
  <2>2. CASE n = b - a + 1
    BY <1>5, <2>1, <2>2
  <2>3. CASE n # b - a + 1
    <3>1. n + 1 \in n + 1 .. Len(old) /\ n + 1 \in 1 .. b - a + 1
      BY <1>1, <1>5, <2>3
    <3>2. f <= old[n + 1] /\ old[n + 1] = a + n
      BY <1>1, <1>4, <1>5, <3>1
    <3> QED BY <1>5, <2>1, <3>2
  <2> QED BY <2>2, <2>3
<1>8. n = 0 => f <= a
  <2> SUFFICES ASSUME n = 0 PROVE f <= a
    OBVIOUS
  <2>1. 1 \in n + 1 .. Len(old) /\ 1 \in 1 .. b - a + 1
    BY <1>0, <1>1
  <2>2. f <= old[1] /\ old[1] = a
    BY <1>1, <1>4, <2>1
  <2> QED BY <2>2
<1>9. /\ all \in Seq(Int) /\ Len(all) = n + (t - f + 1)
      /\ \A i \in 1 .. Len(all) : all[i] = t - Len(all) + i
  <2>1. /\ all \in Seq(Int) /\ Len(all) = n + Len(new) /\ Len(new) \in Nat
        /\ \A i \in 1 .. n : all[i] = old[i]
        /\ \A i \in n + 1 .. n + Len(new) : all[i] = new[i - n]
    <3>1. kept \in Seq(Int) /\ new \in Seq(Int) /\ Len(kept) = n
      BY <1>2, <1>6
    <3>2. /\ all \in Seq(Int) /\ Len(all) = Len(kept) + Len(new)
          /\ \A i \in 1 .. Len(kept) : all[i] = kept[i]
          /\ \A i \in Len(kept) + 1 .. Len(kept) + Len(new) : all[i] = new[i - Len(kept)]
      BY <3>1, Concatenated
    <3> HIDE DEF all
    <3> QED BY <1>2, <1>6, <3>1, <3>2
  <2> HIDE DEF all
  <2>2. ASSUME NEW i \in 1 .. Len(all) PROVE all[i] = t - Len(all) + i
    <3>0. i \in Nat /\ 1 <= i /\ i <= n + Len(new)
      BY <1>5, <2>1
    <3>1. CASE i <= n
      <4>1. i \in 1 .. n /\ i \in 1 .. b - a + 1
        BY <1>5, <3>0, <3>1
      <4>2. all[i] = a + i - 1
        BY <1>1, <2>1, <4>1
      <4>3. f = a + n
        BY <1>5, <1>7, <3>0, <3>1
      <4> QED BY <1>2, <1>5, <2>1, <3>0, <4>2, <4>3
    <3>2. CASE ~(i <= n)
      <4>1. i \in n + 1 .. n + Len(new) /\ i - n \in 1 .. t - f + 1
        BY <1>2, <1>5, <3>0, <3>2
      <4>2. all[i] = f + (i - n) - 1
        BY <1>2, <2>1, <4>1
      <4> QED BY <1>2, <1>5, <2>1, <3>0, <4>2
    <3> QED BY <3>1, <3>2
  <2> QED BY <1>2, <2>1, <2>2
<1> HIDE DEF all
<1>10. CacheNum <= Len(all) /\ Len(all) \in Nat
  BY <1>0, <1>5, <1>7, <1>8, <1>9
<1>11. /\ s \in Seq(Int) /\ Len(s) = CacheNum
       /\ \A i \in 1 .. CacheNum : s[i] = all[Len(all) - CacheNum + i]
  <2>1. /\ s \in Seq(Int)
        /\ Len(s) = IF Len(all) <= CacheNum THEN Len(all) ELSE CacheNum
        /\ \A i \in 1 .. Len(s) : s[i] = all[Len(all) - Len(s) + i]
    BY <1>9, NewestIs, CandleAssumption
  <2> HIDE DEF s
  <2>2. Len(s) = CacheNum
    BY <1>0, <1>10, <2>1
  <2> QED BY <2>1, <2>2
<1>12. Merge(old, new) = s
  BY DEF Merge, all, kept
<1> HIDE DEF s
<1>13. \A i \in 1 .. CacheNum : s[i] = t - CacheNum + i
  <2> SUFFICES ASSUME NEW i \in 1 .. CacheNum PROVE s[i] = t - CacheNum + i
    OBVIOUS
  <2>1. Len(all) - CacheNum + i \in 1 .. Len(all)
    BY <1>0, <1>10
  <2>2. s[i] = t - Len(all) + (Len(all) - CacheNum + i)
    BY <1>9, <1>11, <2>1
  <2> QED BY <1>0, <1>10, <2>2
<1>14. s = [i \in 1 .. CacheNum |-> s[i]]
  BY <1>0, <1>11
<1>15. Candles(t - CacheNum + 1, t) = [i \in 1 .. CacheNum |-> t - CacheNum + i]
  <2>1. t - (t - CacheNum + 1) + 1 = CacheNum
    BY <1>0
  <2>2. \A i \in 1 .. CacheNum : t - CacheNum + 1 + i - 1 = t - CacheNum + i
    BY <1>0
  <2> QED BY <2>1, <2>2 DEF Candles
<1>16. [i \in 1 .. CacheNum |-> s[i]] = [i \in 1 .. CacheNum |-> t - CacheNum + i]
  BY <1>13
<1> QED
  BY <1>12, <1>14, <1>15, <1>16 DEF old, new

-----------------------------------------------------------------------------
(* CandleFeeder *)

\* A time series of which nothing is newer than top, and that is longer than a cache
\* only as long as it is the initial feed.
Series(s, top) ==
    /\ s \in Seq(Int) /\ Ascending(s)
    /\ \A i \in 1 .. Len(s) : s[i] <= top
    /\ Len(s) > CacheNum => \A i \in 1 .. Len(s) : s[i] <= 0

\* A full cache without a hole that ends at reach or behind it.
Gapless(s, reach) ==
    \E a, b \in Int : s = Candles(a, b) /\ CacheNum <= b - a + 1 /\ reach <= b

\* Where the window of the next request for m begins, less the period that a cycle adds.
Reach(m) == start - missed - (IF pc = "poll" /\ m \in todo THEN 1 ELSE 0)

\* Nothing has gone wrong before the first cycle, which ends the program if it does.
BeforeThread ==
    pc \in {"initial", "dead"} =>
        /\ start = 0 /\ missed = 0 /\ overran = FALSE
        /\ \A m \in Markets : m \in todo <=> cache[m] = <<>>

\* A cycle has added a period per failure at most, and the next begins later.
Missing ==
    LET C == Cardinality(Markets)
    IN  /\ pc = "sleep" => start <= wakeAt /\ missed <= wakeAt * C
        /\ pc = "poll" => missed + Cardinality(todo) <= (start + 1) * C

CachesAreSeries == \A m \in Markets : Series(cache[m], start)

CachesAreFilled == pc \in {"sleep", "poll"} => \A m \in Markets : cache[m] # <<>>

CachesReach ==
    ~overran => \A m \in Markets \ forgot : cache[m] # <<>> => Gapless(cache[m], Reach(m))

FeederInv ==
    /\ TypeOK /\ start <= now
    /\ BeforeThread /\ Missing
    /\ CachesAreSeries /\ CachesAreFilled /\ CachesReach

LEMMA EmptySeries == \A top : Series(<<>>, top)
  BY DEF Series, Ascending

LEMMA CandlesAreSome ==
    ASSUME NEW f \in Int, NEW t \in Int, f <= t
    PROVE  Candles(f, t) # <<>>
<1>1. Len(Candles(f, t)) = t - f + 1 /\ f <= t + 1
  BY CandlesAre
<1> QED BY <1>1

LEMMA CandlesAscend ==
    ASSUME NEW f \in Int, NEW t \in Int, f <= t
    PROVE  Ascending(Candles(f, t)) /\ \A i \in 1 .. Len(Candles(f, t)) : Candles(f, t)[i] <= t
<1>1. f <= t + 1
  OBVIOUS
<1>2. /\ Len(Candles(f, t)) = t - f + 1
      /\ \A i \in 1 .. t - f + 1 : Candles(f, t)[i] = f + i - 1
  BY <1>1, CandlesAre
<1> QED BY <1>2 DEF Ascending

\* What feeding a market leaves in its cache, and in the others.
LEMMA Fed ==
    ASSUME FeederInv, NEW m \in Markets, NEW f \in Int, f <= start,
           pc = "initial" => start - f >= CacheNum - 1 /\ m \in todo,
           pc \in {"initial", "poll"},
           FeedChartData(m, Candles(f, start))
    PROVE  /\ cache' \in [Markets -> Seq(Int)]
           /\ Series(cache'[m], start) /\ cache'[m] # <<>>
           /\ \A q \in Markets : q # m => cache'[q] = cache[q]
           /\ cache[m] # <<>> /\ Gapless(cache[m], f - 1) => Gapless(cache'[m], start)
           /\ pc = "initial" => Gapless(cache'[m], start)
<1> USE DEF FeederInv
<1> DEFINE new == Candles(f, start)
<1>1. start \in Int /\ start >= 0 /\ cache \in [Markets -> Seq(Int)] /\ CacheNum \in Nat /\ CacheNum >= 1
  BY CandleAssumption DEF TypeOK
<1>2. /\ cache' = [cache EXCEPT ![m] = IF cache[m] = <<>> THEN new ELSE Merge(cache[m], new)]
  BY DEF FeedChartData
<1>3. new \in Seq(Int) /\ Ascending(new) /\ new # <<>> /\ \A i \in 1 .. Len(new) : new[i] <= start
  BY <1>1, CandlesAre, CandlesAscend, CandlesAreSome
<1> HIDE DEF new
<1>4. \A q \in Markets : q # m => cache'[q] = cache[q]
  BY <1>1, <1>2
<1>5. CASE cache[m] = <<>>
  <2>1. cache'[m] = new /\ cache' \in [Markets -> Seq(Int)]
    BY <1>1, <1>2, <1>3, <1>5
  <2>2. pc = "initial" /\ start = 0
    BY <1>5 DEF CachesAreFilled, BeforeThread
  <2>3. Series(new, start)
    BY <1>3, <2>2 DEF Series
  <2>4. Gapless(new, start)
    BY <1>1, <2>2 DEF Gapless, new
  <2> QED BY <1>3, <1>4, <1>5, <2>1, <2>3, <2>4
<1>6. CASE cache[m] # <<>>
  <2>1. cache'[m] = Merge(cache[m], new)
    BY <1>1, <1>2, <1>6
  <2>2. cache[m] \in Seq(Int) /\ Ascending(cache[m]) /\ \A i \in 1 .. Len(cache[m]) : cache[m][i] <= start
    BY DEF CachesAreSeries, Series
  <2>3. /\ Merge(cache[m], new) \in Seq(Int)
        /\ Len(Merge(cache[m], new)) \in 1 .. CacheNum
        /\ Ascending(Merge(cache[m], new))
        /\ \A i \in 1 .. Len(Merge(cache[m], new)) : Merge(cache[m], new)[i] <= start
    BY <1>1, <2>2, MergeIsSeries DEF new
  <2>4. Series(cache'[m], start) /\ cache'[m] # <<>>
    BY <1>1, <2>1, <2>3 DEF Series
  <2>5. cache' \in [Markets -> Seq(Int)]
    BY <1>1, <1>2, <1>3, <2>1, <2>3
  <2>6. pc # "initial"
    BY <1>6 DEF BeforeThread
  <2>7. ASSUME Gapless(cache[m], f - 1) PROVE Gapless(cache'[m], start)
    <3>1. PICK a \in Int, b \in Int : cache[m] = Candles(a, b) /\ CacheNum <= b - a + 1 /\ f - 1 <= b
      BY <2>7 DEF Gapless
    <3>2. b <= start
      <4>1. a <= b + 1 /\ b - a + 1 \in 1 .. b - a + 1 /\ a + (b - a + 1) - 1 = b
        BY <1>1, <3>1
      <4>2. Len(cache[m]) = b - a + 1 /\ cache[m][b - a + 1] = b
        BY <3>1, <4>1, CandlesAre
      <4> QED BY <2>2, <4>1, <4>2
    <3>3. f <= b + 1
      BY <3>1
    <3>4. Merge(Candles(a, b), Candles(f, start)) = Candles(start - CacheNum + 1, start)
      BY <1>1, <3>1, <3>2, <3>3, MergeOfRun
    <3>5. cache'[m] = Candles(start - CacheNum + 1, start)
      BY <2>1, <3>1, <3>4 DEF new
    <3>6. start - CacheNum + 1 \in Int /\ CacheNum <= start - (start - CacheNum + 1) + 1
      BY <1>1
    <3> QED BY <1>1, <3>5, <3>6 DEF Gapless
  <2> QED BY <1>4, <2>4, <2>5, <2>6, <2>7
<1> QED BY <1>5, <1>6

LEMMA InitFeederInv == Init => FeederInv
<1> SUFFICES ASSUME Init PROVE FeederInv
  OBVIOUS
<1>1. Cardinality(Markets) \in Nat
  BY FS_CardinalityType, CandleAssumption
<1>2. TypeOK
  <2>1. 0 \in 0 .. (0 + 1) * Cardinality(Markets)
    BY <1>1
  <2>2. 0 \in 0 .. MaxPeriod /\ 0 \in 0 .. MaxPeriod + 1
    BY CandleAssumption
  <2>3. missed \in 0 .. (start + 1) * Cardinality(Markets)
    BY <2>1 DEF Init
  <2>4. cache \in [Markets -> Seq(Int)]
    BY DEF Init
  <2>5. now \in 0 .. MaxPeriod /\ start \in 0 .. MaxPeriod /\ wakeAt \in 0 .. MaxPeriod + 1
    BY <2>2 DEF Init
  <2>6. /\ pc \in {"initial", "sleep", "poll", "dead"} /\ todo \in SUBSET Markets
        /\ overran \in BOOLEAN /\ forgot \in SUBSET Markets
    BY DEF Init
  <2> QED BY <2>3, <2>4, <2>5, <2>6 DEF TypeOK
<1>3. start <= now /\ BeforeThread /\ Missing /\ CachesAreFilled /\ CachesReach
  BY DEF Init, BeforeThread, Missing, CachesAreFilled, CachesReach
<1>4. CachesAreSeries
  BY EmptySeries DEF Init, CachesAreSeries
<1> QED BY <1>2, <1>3, <1>4 DEF FeederInv

LEMMA TimesGrow ==
    ASSUME NEW x \in Int, NEW y \in Int, NEW c \in Nat, x <= y
    PROVE  x * c <= y * c
  OBVIOUS

LEMMA ReachLess ==
    ASSUME NEW s, NEW x \in Int, NEW y \in Int, x <= y, Gapless(s, y)
    PROVE  Gapless(s, x)
  BY DEF Gapless

\* What the actions below keep as integers.
LEMMA FeederNumbers ==
    ASSUME FeederInv
    PROVE  /\ now \in Nat /\ start \in Nat /\ wakeAt \in Nat /\ missed \in Nat
           /\ MaxPeriod \in Nat /\ CacheNum \in Nat /\ CacheNum >= 1
           /\ now <= MaxPeriod /\ start <= now /\ wakeAt <= MaxPeriod + 1
           /\ Cardinality(Markets) \in Nat
           /\ IsFiniteSet(todo) /\ Cardinality(todo) \in Nat
           /\ missed <= (start + 1) * Cardinality(Markets)
           /\ \A q \in Markets : Reach(q) \in Int
<1>1. /\ now \in Nat /\ start \in Nat /\ wakeAt \in Nat /\ missed \in Nat
      /\ now <= MaxPeriod /\ start <= now /\ wakeAt <= MaxPeriod + 1
      /\ missed <= (start + 1) * Cardinality(Markets)
      /\ MaxPeriod \in Nat /\ CacheNum \in Nat /\ CacheNum >= 1
  BY CandleAssumption DEF FeederInv, TypeOK
<1>2. Cardinality(Markets) \in Nat /\ IsFiniteSet(todo)
  BY CandleAssumption, FS_CardinalityType, FS_Subset DEF FeederInv, TypeOK
<1>3. Cardinality(todo) \in Nat
  BY <1>2, FS_CardinalityType
<1>4. \A q \in Markets : Reach(q) \in Int
  BY <1>1 DEF Reach
<1> QED BY <1>1, <1>2, <1>3, <1>4

LEMMA FeederClockKeeps == ASSUME FeederInv, Clock PROVE FeederInv'
<1>1. TypeOK' /\ (start <= now)'
  BY FeederNumbers DEF Clock, FeederInv, TypeOK
<1>2. BeforeThread' /\ Missing' /\ CachesAreFilled'
  BY DEF Clock, FeederInv, BeforeThread, Missing, CachesAreFilled
<1>3. CachesAreSeries' /\ CachesReach'
  BY DEF Clock, FeederInv, CachesAreSeries, CachesReach, Reach
<1> QED BY <1>1, <1>2, <1>3 DEF FeederInv

LEMMA InitialFeedKeeps ==
    ASSUME FeederInv, NEW m \in Markets, NEW extra \in 0 .. 1, InitialFeed(m, extra)
    PROVE  FeederInv'
<1> DEFINE f == start - CacheNum + 1 - extra
<1>1. /\ pc = "initial" /\ m \in todo /\ todo' = todo \ {m}
      /\ UNCHANGED <<now, pc, start, wakeAt, missed, overran, forgot>>
      /\ FeedChartData(m, Candles(f, start))
  BY DEF InitialFeed
<1>2. f \in Int /\ f <= start /\ start - f >= CacheNum - 1
  BY FeederNumbers
<1> HIDE DEF f
<1>3. /\ cache' \in [Markets -> Seq(Int)]
      /\ Series(cache'[m], start) /\ cache'[m] # <<>> /\ Gapless(cache'[m], start)
      /\ \A q \in Markets : q # m => cache'[q] = cache[q]
  BY <1>1, <1>2, Fed
<1>4. TypeOK' /\ (start <= now)'
  BY <1>1, <1>3 DEF FeederInv, TypeOK
<1>5. BeforeThread' /\ Missing' /\ CachesAreFilled'
  BY <1>1, <1>3 DEF FeederInv, BeforeThread, Missing, CachesAreFilled
<1>6. CachesAreSeries'
  BY <1>1, <1>3 DEF FeederInv, CachesAreSeries
<1>7. CachesReach'
  <2> SUFFICES ASSUME NEW q \in Markets, q \notin forgot, ~overran, cache'[q] # <<>>
               PROVE  Gapless(cache'[q], Reach(q)')
    BY <1>1 DEF CachesReach
  <2>1. Reach(q)' = Reach(q) /\ Reach(q) = start
    BY <1>1, FeederNumbers DEF Reach, FeederInv, BeforeThread
  <2> QED BY <1>3, <2>1 DEF FeederInv, CachesReach
<1> QED BY <1>4, <1>5, <1>6, <1>7 DEF FeederInv

LEMMA QuietFeederKeeps ==
    ASSUME FeederInv, InitialFeedFails \/ StartThread \/ EndCycle PROVE FeederInv'
<1>1. UNCHANGED <<now, start, todo, missed, cache, overran, forgot>>
  BY DEF InitialFeedFails, StartThread, EndCycle
<1>2. \/ pc = "poll" /\ pc' = "sleep" /\ todo = {} /\ wakeAt' = now + 1
      \/ pc = "initial" /\ pc' = "dead" /\ wakeAt' = wakeAt
      \/ pc = "initial" /\ pc' = "sleep" /\ todo = {} /\ wakeAt' \in {now, now + 1}
  BY DEF InitialFeedFails, StartThread, EndCycle, NextMultiple
<1>3. TypeOK' /\ (start <= now)'
  <2>1. wakeAt' \in 0 .. MaxPeriod + 1
    BY <1>2, FeederNumbers
  <2>2. pc' \in {"initial", "sleep", "poll", "dead"}
    BY <1>2
  <2> QED BY <1>1, <2>1, <2>2 DEF FeederInv, TypeOK
<1>4. BeforeThread'
  BY <1>1, <1>2 DEF FeederInv, BeforeThread
<1>5. Missing'
  <2> DEFINE C == Cardinality(Markets)
  <2>1. pc' # "poll"
    BY <1>2
  <2>2. ASSUME pc' = "sleep" PROVE start <= wakeAt' /\ missed <= wakeAt' * C
    <3>1. CASE pc = "poll"
      <4>1. wakeAt' = now + 1 /\ start + 1 <= now + 1
        BY <1>2, <3>1, FeederNumbers
      <4>2. (start + 1) * C <= (now + 1) * C
        BY <4>1, FeederNumbers, TimesGrow
      <4>3. missed <= (start + 1) * C /\ (start + 1) * C \in Int /\ (now + 1) * C \in Int
        BY FeederNumbers
      <4>4. missed <= (now + 1) * C
        BY <4>2, <4>3, FeederNumbers
      <4> QED BY <4>1, <4>4, FeederNumbers
    <3>2. CASE pc = "initial"
      <4>0. start = 0 /\ missed = 0
        BY <3>2 DEF FeederInv, BeforeThread
      <4>1. wakeAt' \in Nat
        BY <1>2, <2>2, <3>2, FeederNumbers
      <4>2. 0 * C <= wakeAt' * C
        BY <4>1, FeederNumbers, TimesGrow
      <4>3. 0 * C = 0
        BY FeederNumbers
      <4> QED BY <4>0, <4>1, <4>2, <4>3
    <3> QED BY <1>2, <3>1, <3>2
  <2> QED BY <1>1, <2>1, <2>2 DEF Missing
<1>6. CachesAreSeries'
  BY <1>1 DEF FeederInv, CachesAreSeries
<1>7. CachesAreFilled'
  BY <1>1, <1>2 DEF FeederInv, CachesAreFilled, BeforeThread
<1>8. CachesReach'
  <2>1. \A q \in Markets : Reach(q)' = Reach(q)
    BY <1>1, <1>2 DEF Reach
  <2> QED BY <1>1, <2>1 DEF FeederInv, CachesReach
<1> QED BY <1>3, <1>4, <1>5, <1>6, <1>7, <1>8 DEF FeederInv

LEMMA FeederBeginCycleKeeps == ASSUME FeederInv, BeginCycle PROVE FeederInv'
<1> DEFINE C == Cardinality(Markets)
<1>1. /\ pc = "sleep" /\ now >= wakeAt /\ pc' = "poll" /\ start' = now /\ todo' = Markets
      /\ overran' = (overran \/ now > start + 1)
      /\ UNCHANGED <<now, wakeAt, missed, cache, forgot>>
  BY DEF BeginCycle
<1>2. missed <= now * C /\ now * C \in Int /\ (now + 1) * C = now * C + C
  <2>1. missed <= wakeAt * C /\ wakeAt * C \in Int /\ now * C \in Int /\ (now + 1) * C = now * C + C
    BY <1>1, FeederNumbers DEF FeederInv, Missing
  <2>2. wakeAt * C <= now * C
    BY <1>1, FeederNumbers, TimesGrow
  <2> QED BY <2>1, <2>2, FeederNumbers
<1>3. missed + C <= (now + 1) * C /\ missed <= (now + 1) * C
  <2> HIDE DEF C
  <2>1. C \in Nat
    BY FeederNumbers DEF C
  <2> QED BY <1>2, <2>1, FeederNumbers
<1>4. TypeOK' /\ (start <= now)'
  <2>1. (missed \in 0 .. (start + 1) * C)'
    BY <1>1, <1>2, <1>3, FeederNumbers
  <2>2. (start \in 0 .. MaxPeriod)' /\ (start <= now)'
    BY <1>1, FeederNumbers
  <2> QED BY <1>1, <2>1, <2>2 DEF FeederInv, TypeOK
<1>5. BeforeThread' /\ Missing'
  BY <1>1, <1>3 DEF BeforeThread, Missing
<1>6. CachesAreSeries' /\ CachesAreFilled'
  <2>1. CachesAreFilled'
    BY <1>1 DEF FeederInv, CachesAreFilled
  <2>2. ASSUME NEW q \in Markets PROVE Series(cache[q], now)
    <3>1. Series(cache[q], start)
      BY DEF FeederInv, CachesAreSeries
    <3>2. \A i \in 1 .. Len(cache[q]) : cache[q][i] \in Int /\ cache[q][i] <= start
      BY <3>1 DEF Series
    <3>3. \A i \in 1 .. Len(cache[q]) : cache[q][i] <= now
      BY <3>2, FeederNumbers
    <3> QED BY <3>1, <3>3 DEF Series
  <2> QED BY <1>1, <2>1, <2>2 DEF CachesAreSeries
<1>7. CachesReach'
  <2> SUFFICES ASSUME NEW q \in Markets, q \notin forgot, ~overran', cache[q] # <<>>
               PROVE  Gapless(cache[q], Reach(q)')
    BY <1>1 DEF CachesReach
  <2>1. Reach(q)' = now - missed - 1 /\ Reach(q) = start - missed
    BY <1>1, FeederNumbers DEF Reach
  <2>2. ~overran /\ now <= start + 1
    <3>1. ~(overran \/ now > start + 1)
      BY <1>1, Zenon
    <3> QED BY <3>1, FeederNumbers
  <2>3. Reach(q)' <= Reach(q) /\ Reach(q) \in Int /\ Reach(q)' \in Int
    BY <2>1, <2>2, FeederNumbers
  <2>4. Gapless(cache[q], Reach(q))
    BY <2>2 DEF FeederInv, CachesReach
  <2> QED BY <2>3, <2>4, ReachLess
<1> QED BY <1>4, <1>5, <1>6, <1>7 DEF FeederInv

\* A market has been visited, whatever has come of it.
LEMMA VisitKeeps ==
    ASSUME FeederInv, NEW m \in todo, pc = "poll", todo' = todo \ {m},
           missed' \in {0, missed + 1},
           UNCHANGED <<now, pc, start, wakeAt, overran>>, forgot' \in SUBSET Markets,
           cache' \in [Markets -> Seq(Int)],
           Series(cache'[m], start), cache'[m] # <<>>,
           \A q \in Markets : q # m => cache'[q] = cache[q]
    PROVE  /\ TypeOK' /\ (start <= now)' /\ BeforeThread' /\ Missing'
           /\ CachesAreSeries' /\ CachesAreFilled'
<1> DEFINE C == Cardinality(Markets)
           P == (start + 1) * C
<1>1. Cardinality(todo') = Cardinality(todo) - 1 /\ Cardinality(todo) >= 1
  <2>1. Cardinality(todo \ {m}) = Cardinality(todo) - 1
    BY FeederNumbers, FS_RemoveElement
  <2>2. Cardinality(todo) # 0
    BY FeederNumbers, FS_EmptySet
  <2> QED BY <2>1, <2>2, FeederNumbers
<1>2. missed + Cardinality(todo) <= P /\ P \in Nat
  BY FeederNumbers DEF FeederInv, Missing
<1>3. missed' \in 0 .. P /\ missed' + Cardinality(todo') <= P
  <2> HIDE DEF P
  <2>1. missed \in Nat /\ Cardinality(todo) \in Nat
    BY FeederNumbers
  <2>2. missed' = 0 \/ missed' = missed + 1
    OBVIOUS
  <2> QED BY <2>1, <2>2, <1>1, <1>2
<1>4. TypeOK' /\ (start <= now)'
  <2>1. (missed \in 0 .. (start + 1) * C)'
    BY <1>3
  <2> QED BY <2>1 DEF FeederInv, TypeOK
<1>5. Missing'
  BY <1>3 DEF Missing
<1>6. BeforeThread' /\ CachesAreFilled'
  BY DEF FeederInv, BeforeThread, CachesAreFilled
<1>7. CachesAreSeries'
  BY DEF FeederInv, CachesAreSeries
<1> QED BY <1>4, <1>5, <1>6, <1>7

LEMMA PollKeeps ==
    ASSUME FeederInv, NEW m \in Markets, NEW extra \in 0 .. 1, Poll(m, extra)
    PROVE  FeederInv'
<1> DEFINE f == start - missed - extra
<1>1. /\ pc = "poll" /\ m \in todo /\ todo' = todo \ {m} /\ missed' = 0
      /\ UNCHANGED <<now, pc, start, wakeAt, overran>>
      /\ forgot' = IF missed > 0 THEN forgot \cup (Markets \ {m}) ELSE forgot
      /\ FeedChartData(m, Candles(f, start))
  BY DEF Poll, Window
<1>2. f \in Int /\ f <= start
  BY FeederNumbers
<1>3. Reach(m) \in Int /\ f - 1 <= Reach(m)
  BY <1>1, FeederNumbers DEF Reach
<1> HIDE DEF f
<1>4. /\ cache' \in [Markets -> Seq(Int)]
      /\ Series(cache'[m], start) /\ cache'[m] # <<>>
      /\ \A q \in Markets : q # m => cache'[q] = cache[q]
      /\ cache[m] # <<>> /\ Gapless(cache[m], f - 1) => Gapless(cache'[m], start)
  BY <1>1, <1>2, Fed
<1>5. forgot \subseteq forgot' /\ forgot' \in SUBSET Markets
  BY <1>1 DEF FeederInv, TypeOK
<1>6. /\ TypeOK' /\ (start <= now)' /\ BeforeThread' /\ Missing'
      /\ CachesAreSeries' /\ CachesAreFilled'
  BY <1>1, <1>4, <1>5, VisitKeeps
<1>7. CachesReach'
  <2> SUFFICES ASSUME NEW q \in Markets, q \notin forgot', ~overran, cache'[q] # <<>>
               PROVE  Gapless(cache'[q], Reach(q)')
    BY <1>1 DEF CachesReach
  <2>1. CASE q = m
    <3>1. Reach(m)' = start
      BY <1>1, FeederNumbers DEF Reach
    <3>2. cache[m] # <<>>
      BY <1>1 DEF FeederInv, CachesAreFilled
    <3>3. Gapless(cache[m], Reach(m))
      BY <1>5, <2>1, <3>2 DEF FeederInv, CachesReach
    <3>4. Gapless(cache[m], f - 1)
      BY <1>2, <1>3, <3>3, ReachLess
    <3> QED BY <1>4, <2>1, <3>1, <3>2, <3>4
  <2>2. CASE q # m
    <3>1. missed = 0
      BY <1>1, <2>2, FeederNumbers
    <3>2. Reach(q)' = Reach(q)
      BY <1>1, <2>2, <3>1 DEF Reach
    <3> QED BY <1>4, <1>5, <2>2, <3>2 DEF FeederInv, CachesReach
  <2> QED BY <2>1, <2>2
<1> QED BY <1>6, <1>7 DEF FeederInv

LEMMA PollFailsKeeps ==
    ASSUME FeederInv, NEW m \in Markets, NEW extra \in 0 .. 1, PollFails(m, extra)
    PROVE  FeederInv'
<1> DEFINE f == start - missed - extra
<1>1. /\ pc = "poll" /\ m \in todo /\ todo' = todo \ {m} /\ missed' = missed + 1
      /\ UNCHANGED <<now, pc, start, wakeAt, overran, forgot>>
      /\ UNCHANGED cache \/ FeedChartData(m, Candles(f, start))
  BY DEF PollFails, Window, MissedAfterError
<1>2. f \in Int /\ f <= start
  BY FeederNumbers
<1>3. Reach(m) \in Int /\ f - 1 <= Reach(m) /\ Reach(m) <= start /\ start \in Int
  BY <1>1, FeederNumbers DEF Reach
<1>4. cache[m] # <<>>
  BY <1>1 DEF FeederInv, CachesAreFilled
<1> HIDE DEF f
<1>5. /\ cache' \in [Markets -> Seq(Int)]
      /\ Series(cache'[m], start) /\ cache'[m] # <<>>
      /\ \A q \in Markets : q # m => cache'[q] = cache[q]
      /\ Gapless(cache[m], Reach(m)) => Gapless(cache'[m], Reach(m))
  <2>1. CASE UNCHANGED cache
    BY <1>4, <2>1 DEF FeederInv, TypeOK, CachesAreSeries
  <2>2. CASE FeedChartData(m, Candles(f, start))
    <3>1. /\ cache' \in [Markets -> Seq(Int)]
          /\ Series(cache'[m], start) /\ cache'[m] # <<>>
          /\ \A q \in Markets : q # m => cache'[q] = cache[q]
          /\ cache[m] # <<>> /\ Gapless(cache[m], f - 1) => Gapless(cache'[m], start)
      BY <1>1, <1>2, <2>2, Fed
    <3>2. ASSUME Gapless(cache[m], Reach(m)) PROVE Gapless(cache'[m], Reach(m))
      <4>1. Gapless(cache[m], f - 1)
        BY <1>2, <1>3, <3>2, ReachLess
      <4>2. Gapless(cache'[m], start)
        BY <1>4, <3>1, <4>1
      <4> QED BY <1>3, <4>2, ReachLess
    <3> QED BY <3>1, <3>2
  <2> QED BY <1>1, <2>1, <2>2
<1>6. /\ TypeOK' /\ (start <= now)' /\ BeforeThread' /\ Missing'
      /\ CachesAreSeries' /\ CachesAreFilled'
  <2>1. forgot' \in SUBSET Markets
    BY <1>1 DEF FeederInv, TypeOK
  <2> QED BY <1>1, <1>5, <2>1, VisitKeeps
<1>7. CachesReach'
  <2> SUFFICES ASSUME NEW q \in Markets, q \notin forgot, ~overran, cache'[q] # <<>>
               PROVE  Gapless(cache'[q], Reach(q)')
    BY <1>1 DEF CachesReach
  <2>1. CASE q = m
    <3>1. Reach(m)' = Reach(m)
      BY <1>1, FeederNumbers DEF Reach
    <3>2. Gapless(cache[m], Reach(m))
      BY <1>4, <2>1 DEF FeederInv, CachesReach
    <3> QED BY <1>5, <2>1, <3>1, <3>2
  <2>2. CASE q # m
    <3>1. Reach(q)' \in Int /\ Reach(q) \in Int /\ Reach(q)' <= Reach(q)
      BY <1>1, <2>2, FeederNumbers DEF Reach
    <3>2. cache'[q] = cache[q]
      BY <1>5, <2>2
    <3>3. Gapless(cache[q], Reach(q))
      BY <3>2 DEF FeederInv, CachesReach
    <3> QED BY <3>1, <3>2, <3>3, ReachLess
  <2> QED BY <2>1, <2>2
<1> QED BY <1>6, <1>7 DEF FeederInv

LEMMA NextFeederInv == FeederInv /\ [Next]_vars => FeederInv'
<1> SUFFICES ASSUME FeederInv, [Next]_vars PROVE FeederInv'
  OBVIOUS
<1>1. CASE UNCHANGED vars
  BY <1>1 DEF vars, FeederInv, TypeOK, BeforeThread, Missing, CachesAreSeries,
              CachesAreFilled, CachesReach, Reach
<1> QED
  BY <1>1, FeederClockKeeps, InitialFeedKeeps, QuietFeederKeeps, FeederBeginCycleKeeps,
     PollKeeps, PollFailsKeeps DEF Next, Thread, Feed

LEMMA FeederInvIsEnough == FeederInv => CacheIsSeries /\ HolesAreExplained
<1> SUFFICES ASSUME FeederInv PROVE CacheIsSeries /\ HolesAreExplained
  OBVIOUS
<1>1. CacheIsSeries
  <2>1. ASSUME NEW m \in Markets, NEW i \in 1 .. Len(cache[m]) PROVE cache[m][i] <= now
    <3>1. cache[m][i] \in Int /\ cache[m][i] <= start
      BY DEF FeederInv, CachesAreSeries, Series
    <3> QED BY <3>1, FeederNumbers
  <2> QED BY <2>1 DEF FeederInv, CacheIsSeries, CachesAreSeries, Series, Ascending
<1>2. HolesAreExplained
  <2> SUFFICES ASSUME ~overran, NEW m \in Markets \ forgot PROVE Contiguous(cache[m])
    BY DEF HolesAreExplained
  <2>1. CASE cache[m] = <<>>
    BY <2>1 DEF Contiguous
  <2>2. CASE cache[m] # <<>>
    <3>1. PICK a \in Int, b \in Int : cache[m] = Candles(a, b) /\ CacheNum <= b - a + 1
      BY <2>2 DEF FeederInv, CachesReach, Gapless
    <3>2. a <= b + 1
      BY <3>1, FeederNumbers
    <3>3. /\ Len(cache[m]) = b - a + 1
          /\ \A i \in 1 .. b - a + 1 : cache[m][i] = a + i - 1
      BY <3>1, <3>2, CandlesAre
    <3>4. ASSUME NEW i \in 1 .. Len(cache[m]) - 1 PROVE cache[m][i + 1] = cache[m][i] + 1
      <4>1. i \in 1 .. b - a + 1 /\ i + 1 \in 1 .. b - a + 1
        BY <3>2, <3>3
      <4> QED BY <3>3, <4>1
    <3> QED BY <3>4 DEF Contiguous
  <2> QED BY <2>1, <2>2
<1> QED BY <1>1, <1>2

LEMMA FeederInvariance == Spec => []FeederInv
  BY InitFeederInv, NextFeederInv, PTL DEF Spec

\* Every variable keeps its type; cycleTimeMissedMs grows by a period per failure.
THEOREM FeederTypeCorrect == Spec => []TypeOK
  BY FeederInvariance, PTL DEF FeederInv

\* What Rule.addNewCandles leaves is a time series, whatever is fed twice or again.
THEOREM CachesStaySeries == Spec => []CacheIsSeries
  BY FeederInvariance, FeederInvIsEnough, PTL

\* PollingCandleChartFeeder fetches with the next success what failures missed, but
\* for late cycles and successes of other markets.
THEOREM NoUnexplainedHole == Spec => []HolesAreExplained
  BY FeederInvariance, FeederInvIsEnough, PTL

-----------------------------------------------------------------------------
(* The messages of AlertPipeline *)

\* Where no attempt has failed every stage has its template.
Restored(m) ==
    /\ text[m] = [s \in Stages |-> <<>>]
    /\ shown[m] # <<>> => shown[m][1] = shown[m][2]

MessagesInv ==
    /\ DOMAIN text = Markets /\ DOMAIN shown = Markets
    /\ \A m \in Markets \ failed : Restored(m)

LEMMA AlertInitKeeps == AlertInit => MessagesInv
  BY DEF AlertInit, MessagesInv, Restored

\* A message whose stages all have their template says what is the case now.
LEMMA SaysPresent ==
    ASSUME NEW m \in Markets, text[m] = [s \in Stages |-> <<>>], NEW present
    PROVE  Says(m, NumStages, present) = present
<1>1. \A k \in 1 .. NumStages : text[m][k] = <<>>
  BY DEF Stages
<1> QED
  BY <1>1 DEF Says

LEMMA DeliveredKeeps ==
    ASSUME MessagesInv, NEW m \in Markets, NEW present, Delivered(m, present)
    PROVE  MessagesInv'
<1>1. DOMAIN text' = Markets /\ DOMAIN shown' = Markets
  BY DEF MessagesInv, Delivered
<1>2. ASSUME NEW n \in Markets \ failed' PROVE Restored(n)'
  <2>1. n \in Markets \ failed /\ Restored(n)
    BY <1>2 DEF MessagesInv, Delivered
  <2>2. CASE n = m
    <3>1. Says(m, NumStages, present) = present
      BY <2>1, <2>2, SaysPresent DEF Restored
    <3>2. shown'[m] = <<present, present>>
      BY <3>1 DEF Delivered, MessagesInv
    <3> QED
      BY <2>1, <2>2, <3>2 DEF Delivered, Restored
  <2>3. CASE n # m
    <3>1. shown'[n] = shown[n] /\ text' = text
      BY <2>3 DEF Delivered, MessagesInv
    <3> QED
      BY <2>1, <3>1 DEF Restored
  <2> QED
    BY <2>2, <2>3
<1> QED
  BY <1>1, <1>2 DEF MessagesInv

LEMMA UndeliveredKeeps ==
    ASSUME MessagesInv, NEW m \in Markets, NEW present, NEW k \in Stages, Undelivered(m, k, present)
    PROVE  MessagesInv'
<1>1. DOMAIN text' = Markets /\ DOMAIN shown' = Markets
  BY DEF MessagesInv, Undelivered, NotReady, NotSent, Filled
<1>2. ASSUME NEW n \in Markets \ failed' PROVE Restored(n)'
  <2>1. n # m /\ n \in Markets \ failed
    BY <1>2 DEF Undelivered
  <2>2. text'[n] = text[n] /\ shown' = shown
    BY <2>1 DEF Undelivered, NotReady, NotSent, Filled, MessagesInv
  <2> QED
    BY <2>1, <2>2 DEF MessagesInv, Restored
<1> QED
  BY <1>1, <1>2 DEF MessagesInv

LEMMA UnchangedKeeps == MessagesInv /\ UNCHANGED <<text, shown, failed>> => MessagesInv'
  BY DEF MessagesInv, Restored

LEMMA WatchKeeps ==
    ASSUME MessagesInv, NEW m \in Markets, Watch(m)
    PROVE  MessagesInv'
<1>1. CASE UNCHANGED <<text, shown, failed>>
  BY <1>1, UnchangedKeeps
<1>2. CASE ~UNCHANGED <<text, shown, failed>>
  <2>1. DoStrategy(m, cache'[m][Len(cache'[m])])
    BY <1>2 DEF Watch, Check
  <2> QED
    BY <2>1, DeliveredKeeps, UndeliveredKeeps DEF DoStrategy
<1> QED
  BY <1>1, <1>2

LEMMA MessagesStep == MessagesInv /\ [AlertNext]_alertVars => MessagesInv'
<1> SUFFICES ASSUME MessagesInv, [AlertNext]_alertVars PROVE MessagesInv'
  OBVIOUS
<1>1. CASE PriceClock
  BY <1>1, UnchangedKeeps DEF PriceClock, watchVars
<1>2. CASE WatchedFeed
  BY <1>2, WatchKeeps DEF WatchedFeed
<1>3. CASE WatchedPollFails
  BY <1>3, UnchangedKeeps DEF WatchedPollFails, watchVars
<1>4. CASE QuietStep
  BY <1>4, UnchangedKeeps DEF QuietStep, watchVars
<1>5. CASE UNCHANGED alertVars
  BY <1>5, UnchangedKeeps DEF alertVars, watchVars
<1> QED
  BY <1>1, <1>2, <1>3, <1>4, <1>5 DEF AlertNext

\* A message tells of the candle that caused it unless one for the same market has
\* failed before (HTMLalertMessage.send).
THEOREM MessagesArePresent == AlertSpec => []ShownIsPresent
<1>1. MessagesInv => ShownIsPresent
  BY DEF MessagesInv, Restored, ShownIsPresent
<1> QED
  BY <1>1, AlertInitKeeps, MessagesStep, PTL DEF AlertSpec

-----------------------------------------------------------------------------
(* The types of AlertPipeline, and what the rules decide *)

\* A watcher checks no later than the feeder feeds, and alerts at a check.
ChecksInOrder == \A m \in Markets : firedAt[m] <= checkedAt[m] /\ checkedAt[m] <= start

\* A rule remembers on which side of its threshold the last check has found m.
Remembered(m) ==
    \A r \in Rules :
        last[m][r] = IF checkedAt[m] = Never THEN FirstFlag(r)
                     ELSE Flag(HoldsOf(r, m, History(r, checkedAt[m])))

SidesAreRemembered == ~overran => \A m \in Markets \ forgot : Remembered(m)

AlertInv == FeederInv /\ AlertTypeOK /\ ChecksInOrder /\ SidesAreRemembered

\* Every step of the pipeline is one of the feeder.
LEMMA AlertFeederStep == [AlertNext]_alertVars => [Next]_vars
  BY DEF AlertNext, alertVars, PriceClock, WatchedFeed, WatchedPollFails, QuietStep,
         Next, Thread, Feed

\* A watched market has just been fed up to the present period.
LEMMA VisitedIsCurrent ==
    ASSUME FeederInv, NEW m \in Markets, NEW extra \in 0 .. 1,
           InitialFeed(m, extra) \/ Poll(m, extra)
    PROVE  /\ FeederInv'
           /\ cache'[m] \in Seq(Int) /\ cache'[m] # <<>>
           /\ \A i \in 1 .. Len(cache'[m]) : cache'[m][i] <= start
           /\ UNCHANGED <<now, start, overran>> /\ forgot \subseteq forgot'
           /\ ~overran /\ m \notin forgot => Gapless(cache'[m], start)
<1>1. FeederInv'
  BY InitialFeedKeeps, PollKeeps
<1>2. /\ UNCHANGED <<now, start, overran, pc>> /\ forgot \subseteq forgot'
      /\ m \notin forgot => m \notin forgot'
      /\ m \notin todo' /\ pc \in {"initial", "poll"}
      /\ missed' = 0
  BY DEF InitialFeed, Poll, FeederInv, BeforeThread
<1>3. cache'[m] # <<>>
  BY <1>1, <1>2 DEF FeederInv, BeforeThread, CachesAreFilled
<1>4. Series(cache'[m], start)
  BY <1>1, <1>2 DEF FeederInv, CachesAreSeries
<1>5. ASSUME ~overran, m \notin forgot PROVE Gapless(cache'[m], start)
  <2>1. Reach(m)' = start
    BY <1>2, FeederNumbers DEF Reach
  <2> QED BY <1>1, <1>2, <1>3, <1>5, <2>1 DEF FeederInv, CachesReach
<1> QED BY <1>1, <1>2, <1>3, <1>4, <1>5 DEF Series

\* What a rule caches of a market without a hole is the market's history.
LEMMA CachedIsHistory ==
    ASSUME NEW s, NEW top \in Int, Gapless(s, top), \A i \in 1 .. Len(s) : s[i] <= top,
           NEW r \in Rules
    PROVE  Cached(r, s) = History(r, top)
<1>1. PICK a \in Int, b \in Int : s = Candles(a, b) /\ CacheNum <= b - a + 1 /\ top <= b
  BY DEF Gapless
<1>2. r.num \in Nat /\ r.num >= 1 /\ r.num <= CacheNum /\ CacheNum \in Nat
  BY AlertAssumption, CandleAssumption
<1>3. /\ s \in Seq(Int) /\ Len(s) = b - a + 1
      /\ \A i \in 1 .. b - a + 1 : s[i] = a + i - 1
  <2>1. a <= b + 1
    BY <1>1, <1>2
  <2> QED BY <1>1, <2>1, CandlesAre
<1>4. b = top
  <2>1. b - a + 1 \in 1 .. Len(s) /\ s[b - a + 1] = b
    BY <1>1, <1>2, <1>3
  <2> QED BY <1>1, <2>1
<1>5. /\ Cached(r, s) \in Seq(Int)
      /\ Len(Cached(r, s)) = r.num
      /\ \A i \in 1 .. r.num : Cached(r, s)[i] = s[Len(s) - r.num + i]
  <2>1. /\ Newest(s, r.num) \in Seq(Int)
        /\ Len(Newest(s, r.num)) = (IF Len(s) <= r.num THEN Len(s) ELSE r.num)
        /\ \A i \in 1 .. Len(Newest(s, r.num)) :
              Newest(s, r.num)[i] = s[Len(s) - Len(Newest(s, r.num)) + i]
    BY <1>2, <1>3, NewestIs
  <2>2. Len(Newest(s, r.num)) = r.num
    BY <1>1, <1>2, <1>3, <2>1
  <2> QED BY <2>1, <2>2 DEF Cached
<1>6. ASSUME NEW i \in 1 .. r.num PROVE Cached(r, s)[i] = top - r.num + i
  <2>1. Len(s) - r.num + i \in 1 .. b - a + 1
    <3>1. Len(s) = b - a + 1 /\ r.num <= b - a + 1 /\ r.num \in Nat /\ i >= 1 /\ i <= r.num
      BY <1>1, <1>2, <1>3
    <3>2. b - a + 1 - r.num + i \in 1 .. b - a + 1
      BY <3>1
    <3> QED BY <3>1, <3>2
  <2>2. s[Len(s) - r.num + i] = a + (Len(s) - r.num + i) - 1
    BY <1>3, <2>1
  <2>3. a + (Len(s) - r.num + i) - 1 = top - r.num + i
    BY <1>2, <1>3, <1>4
  <2> QED BY <1>5, <2>2, <2>3
<1>7. Cached(r, s) = [i \in 1 .. r.num |-> Cached(r, s)[i]]
  BY <1>5
<1> QED BY <1>6, <1>7 DEF History

\* Every kind of rule decides.
LEMMA RulesDecide ==
    ASSUME NEW r \in Rules, NEW s, NEW p
    PROVE  Holds(r, s, p) \in BOOLEAN
<1>1. r.kind \in Kinds
  BY AlertAssumption
<1>2. /\ PriceAbove(r, p) \in BOOLEAN /\ PriceBelow(r, p) \in BOOLEAN
      /\ SlowUnderQuick(r, p) \in BOOLEAN
  BY DEF PriceAbove, PriceBelow, SlowUnderQuick, LessThan
<1>3. Volatile(r, p) \in BOOLEAN /\ AcrossLine(r, s, p) \in BOOLEAN
  BY DEF Volatile, AcrossLine
<1>4. MAsAreClose(r, p) \in BOOLEAN
  <2>1. CASE LessThan(MovingAverage(p, r.quick), MovingAverage(p, r.num))
    BY <2>1 DEF MAsAreClose
  <2>2. CASE ~LessThan(MovingAverage(p, r.quick), MovingAverage(p, r.num))
    BY <2>2 DEF MAsAreClose
  <2> QED BY <2>1, <2>2
<1> QED BY <1>1, <1>2, <1>3, <1>4 DEF Holds, Kinds

\* The watched pipeline runs CandleFeeder: what the rules and the message do with the
\* candles, and the exceptions of the message, which AlertTestRuleWatcher catches, disturb
\* no step of the feeder.
THEOREM PipelineRunsTheFeeder == AlertSpec => Init /\ [][Next]_vars
<1>1. AlertInit => Init
  BY DEF AlertInit
<1> QED BY <1>1, AlertFeederStep, PTL DEF AlertSpec

\* A new price leaves the prices of the earlier candles alone.
LEMMA PastPricesStay ==
    ASSUME AlertInv, PriceClock, NEW m \in Markets, NEW r \in Rules, NEW c \in Int, c <= now
    PROVE  HoldsOf(r, m, History(r, c))' = HoldsOf(r, m, History(r, c))
<1>1. PICK p \in [Markets -> Levels] : price' = [q \in Markets |-> Append(price[q], p[q])]
  BY DEF PriceClock
<1>2. price[m] \in Seq(Levels) /\ Len(price[m]) = now /\ price'[m] = Append(price[m], p[m])
  BY <1>1 DEF AlertInv, AlertTypeOK
<1>3. r.num \in Nat /\ r.num >= 1 /\ now \in Nat
  BY AlertAssumption, CandleAssumption, FeederNumbers DEF AlertInv
<1>4. ASSUME NEW i \in 1 .. r.num PROVE PriceOf(m, c - r.num + i)' = PriceOf(m, c - r.num + i)
  <2> DEFINE d == c - r.num + i
  <2>1. d \in Int /\ d <= now
    BY <1>3
  <2> HIDE DEF d
  <2>2. d >= 1 => price'[m][d] = price[m][d]
    BY <1>2, <2>1
  <2> QED BY <2>2 DEF PriceOf, d
<1>5. PricesOf(m, History(r, c))' = PricesOf(m, History(r, c))
  BY <1>4 DEF PricesOf, History
<1> QED BY <1>5 DEF HoldsOf

LEMMA SaysACandle ==
    ASSUME text \in [Markets -> [Stages -> Seq(Int)]],
           NEW m \in Markets, NEW s \in Stages, NEW present \in Int
    PROVE  Says(m, s, present) \in Int
<1> DEFINE filled == {k \in 1 .. s : text[m][k] # <<>>}
<1>1. s \in Nat /\ NumStages \in Nat /\ \A k \in 1 .. s : k \in Stages
  BY AlertAssumption DEF Stages
<1>2. CASE filled = {}
  BY <1>2 DEF Says
<1>3. CASE filled # {}
  <2>1. \E x \in filled : \A y \in filled : y <= x
    BY <1>1, <1>3, GreatestExists
  <2>2. \A x, y \in filled : y <= x <=> x >= y
    BY <1>1
  <2> HIDE DEF filled
  <2>3. Max(filled) \in filled
    BY <2>1, <2>2 DEF Max
  <2>4. text[m][Max(filled)] \in Seq(Int) /\ text[m][Max(filled)] # <<>>
    BY <1>1, <2>3 DEF filled
  <2>5. text[m][Max(filled)][1] \in Int
    BY <2>4
  <2> QED BY <1>3, <2>5 DEF Says, filled
<1> QED BY <1>2, <1>3

LEMMA FilledTypes ==
    ASSUME text \in [Markets -> [Stages -> Seq(Int)]],
           NEW m \in Markets, NEW n, NEW present \in Int, Filled(m, n, present)
    PROVE  text' \in [Markets -> [Stages -> Seq(Int)]]
<1>1. \A s \in Stages : <<Says(m, s, present)>> \in Seq(Int)
  BY SaysACandle
<1>2. [s \in Stages |-> IF s <= n THEN <<Says(m, s, present)>> ELSE text[m][s]]
          \in [Stages -> Seq(Int)]
  BY <1>1
<1> QED BY <1>2 DEF Filled

LEMMA StrategyTypes ==
    ASSUME AlertInv, NEW m \in Markets, NEW present \in Int, DoStrategy(m, present)
    PROVE  /\ text' \in [Markets -> [Stages -> Seq(Int)]]
           /\ shown' \in [Markets -> Seq(Int)]
           /\ firedAt' = [firedAt EXCEPT ![m] = start]
           /\ failed' \in SUBSET Markets
<1>1. /\ text \in [Markets -> [Stages -> Seq(Int)]] /\ shown \in [Markets -> Seq(Int)]
      /\ failed \in SUBSET Markets
  BY DEF AlertInv, AlertTypeOK
<1>2. CASE Delivered(m, present)
  <2>1. NumStages \in Stages
    BY AlertAssumption DEF Stages
  <2>2. <<Says(m, NumStages, present), present>> \in Seq(Int)
    BY <1>1, <2>1, SaysACandle
  <2> QED BY <1>1, <1>2, <2>2 DEF Delivered, DoStrategy
<1>3. ASSUME NEW k \in Stages, Undelivered(m, k, present)
      PROVE  /\ text' \in [Markets -> [Stages -> Seq(Int)]]
             /\ shown' \in [Markets -> Seq(Int)] /\ failed' \in SUBSET Markets
  BY <1>1, <1>3, FilledTypes DEF Undelivered, NotReady, NotSent
<1> QED BY <1>2, <1>3 DEF DoStrategy

\* What a watcher's turn does to the variables of its own and of the other markets.
LEMMA WatchTypes ==
    ASSUME AlertInv, NEW m \in Markets, Watch(m),
           cache'[m] \in Seq(Int), cache'[m] # <<>>
    PROVE  /\ fed' \in [Markets -> BOOLEAN]
           /\ last' \in [Markets -> [Rules -> {"no", "yes", "null"}]]
           /\ \A q \in Markets, r \in Rules : last'[q][r] = "null" => r.kind = "average"
           /\ text' \in [Markets -> [Stages -> Seq(Int)]]
           /\ shown' \in [Markets -> Seq(Int)]
           /\ checkedAt' \in [Markets -> Never .. MaxPeriod]
           /\ firedAt' \in [Markets -> Never .. MaxPeriod]
           /\ failed' \in SUBSET Markets
           /\ \A q \in Markets \ {m} :
                 /\ checkedAt'[q] = checkedAt[q] /\ firedAt'[q] = firedAt[q]
                 /\ last'[q] = last[q]
           /\ ~fed[m] => UNCHANGED <<last, checkedAt, firedAt>>
           /\ fed[m] => checkedAt'[m] = start /\ firedAt'[m] \in {firedAt[m], start}
<1>1. /\ fed \in [Markets -> BOOLEAN]
      /\ last \in [Markets -> [Rules -> {"no", "yes", "null"}]]
      /\ \A q \in Markets, r \in Rules : last[q][r] = "null" => r.kind = "average"
      /\ text \in [Markets -> [Stages -> Seq(Int)]] /\ shown \in [Markets -> Seq(Int)]
      /\ checkedAt \in [Markets -> Never .. MaxPeriod]
      /\ firedAt \in [Markets -> Never .. MaxPeriod]
      /\ failed \in SUBSET Markets
  BY DEF AlertInv, AlertTypeOK
<1>2. fed' \in [Markets -> BOOLEAN]
  BY <1>1 DEF Watch
<1>3. CASE ~fed[m]
  BY <1>1, <1>2, <1>3 DEF Watch
<1>4. CASE fed[m]
  <2> DEFINE present == cache'[m][Len(cache'[m])]
             flags == Flags(m, cache'[m])
  <2>1. present \in Int
    OBVIOUS
  <2>2. start \in Never .. MaxPeriod
    BY FeederNumbers DEF AlertInv, Never
  <2>3. /\ last' = [last EXCEPT ![m] = flags]
        /\ checkedAt' = [checkedAt EXCEPT ![m] = start]
        /\ UNCHANGED <<text, shown, firedAt, failed>> \/ DoStrategy(m, present)
    BY <1>4 DEF Watch, Check
  <2>4. flags \in [Rules -> {"no", "yes"}]
    BY DEF Flags, Flag
  <2> HIDE DEF flags, present
  <2>5. /\ text' \in [Markets -> [Stages -> Seq(Int)]] /\ shown' \in [Markets -> Seq(Int)]
        /\ failed' \in SUBSET Markets
        /\ firedAt' = firedAt \/ firedAt' = [firedAt EXCEPT ![m] = start]
    BY <1>1, <2>1, <2>3, StrategyTypes
  <2>6. /\ last'[m] = flags /\ \A q \in Markets \ {m} : last'[q] = last[q]
        /\ last' \in [Markets -> [Rules -> {"no", "yes", "null"}]]
    BY <1>1, <2>3, <2>4
  <2>7. \A q \in Markets, r \in Rules : last'[q][r] = "null" => r.kind = "average"
    BY <1>1, <2>4, <2>6
  <2>8. /\ checkedAt' \in [Markets -> Never .. MaxPeriod]
        /\ firedAt' \in [Markets -> Never .. MaxPeriod]
        /\ checkedAt'[m] = start /\ firedAt'[m] \in {firedAt[m], start}
        /\ \A q \in Markets \ {m} : checkedAt'[q] = checkedAt[q] /\ firedAt'[q] = firedAt[q]
    BY <1>1, <2>2, <2>3, <2>5
  <2> QED BY <1>2, <1>4, <2>5, <2>6, <2>7, <2>8
<1> QED BY <1>3, <1>4

\* A rule fires exactly when its market has changed sides since the last check.
LEMMA FiresOnCrossing ==
    ASSUME NEW r \in Rules, NEW m \in Markets, Remembered(m)
    PROVE  Fires(r, last[m][r], HoldsOf(r, m, History(r, start))) <=> Crossed(r, m)
<1> DEFINE is == HoldsOf(r, m, History(r, start))
           was == HoldsOf(r, m, History(r, checkedAt[m]))
           old == last[m][r]
<1>1. is \in BOOLEAN /\ was \in BOOLEAN
  BY RulesDecide DEF HoldsOf
<1>2. old = IF checkedAt[m] = Never THEN FirstFlag(r) ELSE Flag(was)
  BY DEF Remembered
<1>3. Crossed(r, m) <=>
         CASE r.kind = "average" -> ~(checkedAt[m] = Never) /\ (~(checkedAt[m] = Never) /\ was) # is
           [] r.kind = "difference" -> (~(checkedAt[m] = Never) /\ was) # is
           [] OTHER -> is /\ ~(~(checkedAt[m] = Never) /\ was)
  BY DEF Crossed
<1> HIDE DEF is, was, old
<1>4. Fires(r, old, is) <=> Crossed(r, m)
  <2>1. CASE checkedAt[m] = Never
    BY <1>1, <1>2, <1>3, <2>1 DEF Fires, FirstFlag, Flag
  <2>2. CASE checkedAt[m] # Never
    BY <1>1, <1>2, <1>3, <2>2 DEF Fires, Flag
  <2> QED BY <2>1, <2>2
<1> QED BY <1>4 DEF is, old

\* A check of a market without a hole decides on its history.
LEMMA CheckDecides ==
    ASSUME AlertInv, NEW m \in Markets, NEW extra \in 0 .. 1,
           InitialFeed(m, extra) \/ Poll(m, extra), Check(m), UNCHANGED price,
           ~overran, m \notin forgot
    PROVE  /\ Remembered(m)'
           /\ IF \E r \in Rules : Crossed(r, m) THEN firedAt'[m] = start
              ELSE firedAt' = firedAt
<1> DEFINE s == cache'[m]
<1>1. /\ s \in Seq(Int) /\ \A i \in 1 .. Len(s) : s[i] <= start
      /\ start' = start /\ Gapless(s, start)
  BY VisitedIsCurrent DEF AlertInv
<1>2. start \in Int /\ start # Never
  BY FeederNumbers DEF AlertInv, Never
<1> DEFINE fires == {r \in Rules : Fires(r, last[m][r], HoldsOf(r, m, Cached(r, s)))}
<1>3. /\ last' = [last EXCEPT ![m] = Flags(m, s)]
      /\ checkedAt' = [checkedAt EXCEPT ![m] = start]
      /\ IF fires = {} THEN UNCHANGED <<text, shown, firedAt, failed>>
         ELSE DoStrategy(m, s[Len(s)])
  BY DEF Check
<1> HIDE DEF s
<1>4. \A r \in Rules : Cached(r, s) = History(r, start)
  BY <1>1, <1>2, CachedIsHistory
<1>5. /\ last \in [Markets -> [Rules -> {"no", "yes", "null"}]]
      /\ checkedAt \in [Markets -> Never .. MaxPeriod]
      /\ firedAt \in [Markets -> Never .. MaxPeriod]
  BY DEF AlertInv, AlertTypeOK
<1>6. Remembered(m)'
  <2>1. last'[m] = Flags(m, s) /\ checkedAt'[m] = start
    BY <1>3, <1>5
  <2>2. ASSUME NEW r \in Rules
        PROVE  last'[m][r] = Flag(HoldsOf(r, m, History(r, start)))
    BY <1>4, <2>1 DEF Flags
  <2>3. ASSUME NEW r \in Rules, NEW c
        PROVE  HoldsOf(r, m, History(r, c))' = HoldsOf(r, m, History(r, c))
    BY DEF HoldsOf, PricesOf, PriceOf, History
  <2> QED BY <1>2, <2>1, <2>2, <2>3 DEF Remembered, HoldsOf, PricesOf, PriceOf, History
<1>7. Remembered(m)
  BY DEF AlertInv, SidesAreRemembered
<1>8. fires = {r \in Rules : Crossed(r, m)}
  <2>1. \A r \in Rules : Fires(r, last[m][r], HoldsOf(r, m, Cached(r, s))) <=> Crossed(r, m)
    BY <1>4, <1>7, FiresOnCrossing
  <2> QED BY <2>1
<1> HIDE DEF fires
<1>9. CASE fires = {}
  BY <1>3, <1>6, <1>8, <1>9
<1>10. CASE fires # {}
  <2>1. firedAt' = [firedAt EXCEPT ![m] = start]
    BY <1>3, <1>10 DEF DoStrategy
  <2>2. firedAt'[m] = start /\ \E r \in Rules : Crossed(r, m)
    BY <1>5, <1>8, <1>10, <2>1
  <2> QED BY <1>6, <2>1, <2>2
<1> QED BY <1>9, <1>10

LEMMA AlertInitInv == AlertInit => AlertInv
<1> SUFFICES ASSUME AlertInit PROVE AlertInv
  OBVIOUS
<1>1. Init
  BY DEF AlertInit
<1>2. FeederInv
  BY <1>1, InitFeederInv
<1>3. 0 \in 0 .. MaxPeriod /\ Never \in Never .. MaxPeriod /\ start = 0 /\ now = 0
  BY <1>1, CandleAssumption DEF Init, Never
<1>4. AlertTypeOK
  <2>1. price \in [Markets -> Seq(Levels)] /\ \A m \in Markets : Len(price[m]) = now
    BY <1>3 DEF AlertInit
  <2>2. /\ last \in [Markets -> [Rules -> {"no", "yes", "null"}]]
        /\ \A m \in Markets, r \in Rules : last[m][r] = "null" => r.kind = "average"
    BY DEF AlertInit, FirstFlag
  <2>3. text \in [Markets -> [Stages -> Seq(Int)]] /\ shown \in [Markets -> Seq(Int)]
    BY DEF AlertInit
  <2>4. /\ fed \in [Markets -> BOOLEAN] /\ failed \in SUBSET Markets
        /\ checkedAt \in [Markets -> Never .. MaxPeriod]
        /\ firedAt \in [Markets -> Never .. MaxPeriod]
    BY <1>3 DEF AlertInit
  <2> QED BY <1>2, <2>1, <2>2, <2>3, <2>4 DEF AlertTypeOK, FeederInv
<1>5. ChecksInOrder
  BY <1>3 DEF AlertInit, ChecksInOrder, Never
<1>6. SidesAreRemembered
  BY DEF AlertInit, SidesAreRemembered, Remembered
<1> QED BY <1>2, <1>4, <1>5, <1>6 DEF AlertInv

LEMMA PriceClockKeeps == ASSUME AlertInv, PriceClock PROVE AlertInv'
<1>1. FeederInv'
  BY FeederClockKeeps DEF AlertInv, PriceClock
<1>2. UNCHANGED <<start, overran, forgot, fed, last, text, shown, checkedAt, firedAt, failed>>
  BY DEF PriceClock, Clock, watchVars
<1>3. PICK p \in [Markets -> Levels] : price' = [q \in Markets |-> Append(price[q], p[q])]
  BY DEF PriceClock
<1>4. /\ price' \in [Markets -> Seq(Levels)]
      /\ \A m \in Markets : Len(price'[m]) = now'
  <2>1. now' = now + 1
    BY DEF PriceClock, Clock
  <2>2. price \in [Markets -> Seq(Levels)] /\ \A m \in Markets : Len(price[m]) = now
    BY DEF AlertInv, AlertTypeOK
  <2> QED BY <1>3, <2>1, <2>2
<1>5. AlertTypeOK'
  BY <1>1, <1>2, <1>4 DEF AlertInv, AlertTypeOK, FeederInv
<1>6. ChecksInOrder'
  BY <1>2 DEF AlertInv, ChecksInOrder
<1>7. SidesAreRemembered'
  <2> SUFFICES ASSUME ~overran, NEW m \in Markets \ forgot PROVE Remembered(m)'
    BY <1>2 DEF SidesAreRemembered
  <2>1. Remembered(m)
    BY DEF AlertInv, SidesAreRemembered
  <2>2. PICK c : c = checkedAt[m]
    OBVIOUS
  <2>3. c \in Int /\ c <= now /\ checkedAt'[m] = c
    <3>1. checkedAt[m] \in Never .. MaxPeriod /\ checkedAt[m] <= start
      BY DEF AlertInv, AlertTypeOK, ChecksInOrder
    <3> QED BY <1>2, <2>2, <3>1, FeederNumbers DEF AlertInv, Never
  <2>4. ASSUME NEW r \in Rules
        PROVE  last'[m][r] = IF c = Never THEN FirstFlag(r)
                             ELSE Flag(HoldsOf(r, m, History(r, c))')
    <3>1. last'[m][r] = IF c = Never THEN FirstFlag(r) ELSE Flag(HoldsOf(r, m, History(r, c)))
      BY <1>2, <2>1, <2>2 DEF Remembered
    <3>2. HoldsOf(r, m, History(r, c))' = HoldsOf(r, m, History(r, c))
      BY <2>3, PastPricesStay
    <3> QED BY <3>1, <3>2
  <2> QED BY <2>3, <2>4 DEF Remembered, HoldsOf, PricesOf, PriceOf, History
<1> QED BY <1>1, <1>5, <1>6, <1>7 DEF AlertInv

\* What the markets remember stays as long as prices and checks do.
LEMMA SidesStay ==
    ASSUME NEW m \in Markets, Remembered(m), UNCHANGED price,
           last'[m] = last[m], checkedAt'[m] = checkedAt[m]
    PROVE  Remembered(m)'
  BY DEF Remembered, HoldsOf, PricesOf, PriceOf, History

LEMMA WatchedFeedKeeps ==
    ASSUME AlertInv, NEW m \in Markets, NEW extra \in 0 .. 1,
           InitialFeed(m, extra) \/ Poll(m, extra), Watch(m), UNCHANGED price
    PROVE  AlertInv'
<1>1. /\ FeederInv' /\ cache'[m] \in Seq(Int) /\ cache'[m] # <<>>
      /\ UNCHANGED <<now, start, overran>> /\ forgot \subseteq forgot'
  BY VisitedIsCurrent DEF AlertInv
<1>2. /\ fed' \in [Markets -> BOOLEAN]
      /\ last' \in [Markets -> [Rules -> {"no", "yes", "null"}]]
      /\ \A q \in Markets, r \in Rules : last'[q][r] = "null" => r.kind = "average"
      /\ text' \in [Markets -> [Stages -> Seq(Int)]]
      /\ shown' \in [Markets -> Seq(Int)]
      /\ checkedAt' \in [Markets -> Never .. MaxPeriod]
      /\ firedAt' \in [Markets -> Never .. MaxPeriod]
      /\ failed' \in SUBSET Markets
      /\ \A q \in Markets \ {m} :
            /\ checkedAt'[q] = checkedAt[q] /\ firedAt'[q] = firedAt[q]
            /\ last'[q] = last[q]
      /\ ~fed[m] => UNCHANGED <<last, checkedAt, firedAt>>
      /\ fed[m] => checkedAt'[m] = start /\ firedAt'[m] \in {firedAt[m], start}
  BY <1>1, WatchTypes
<1>3. AlertTypeOK'
  <2>1. price' \in [Markets -> Seq(Levels)] /\ \A q \in Markets : Len(price'[q]) = now'
    BY <1>1 DEF AlertInv, AlertTypeOK
  <2> QED BY <1>1, <1>2, <2>1 DEF AlertTypeOK, FeederInv
<1>4. ChecksInOrder'
  <2>1. /\ \A q \in Markets : firedAt[q] <= checkedAt[q] /\ checkedAt[q] <= start
        /\ firedAt[m] \in Int /\ checkedAt[m] \in Int /\ start \in Int
    BY FeederNumbers DEF AlertInv, AlertTypeOK, ChecksInOrder, Never
  <2>2. firedAt'[m] <= checkedAt'[m] /\ checkedAt'[m] <= start
    <3>1. CASE fed[m]
      BY <1>2, <2>1, <3>1
    <3>2. CASE ~fed[m]
      BY <1>2, <2>1, <3>2
    <3> QED BY <3>1, <3>2
  <2> QED BY <1>1, <1>2, <2>1, <2>2 DEF ChecksInOrder
<1>5. SidesAreRemembered'
  <2> SUFFICES ASSUME ~overran, NEW q \in Markets, q \notin forgot PROVE Remembered(q)'
    BY <1>1 DEF SidesAreRemembered
  <2>1. Remembered(q)
    BY DEF AlertInv, SidesAreRemembered
  <2>2. CASE q # m \/ ~fed[m]
    BY <1>2, <2>1, <2>2, SidesStay
  <2>3. CASE q = m /\ fed[m]
    BY <2>3, CheckDecides DEF Watch
  <2> QED BY <2>2, <2>3
<1> QED BY <1>1, <1>3, <1>4, <1>5 DEF AlertInv

\* The steps that feed no watcher.
LEMMA UnwatchedKeeps ==
    ASSUME AlertInv, FeederInv', UNCHANGED <<price, watchVars, now>>, start <= start',
           overran => overran', forgot \subseteq forgot'
    PROVE  AlertInv'
<1>1. AlertTypeOK'
  BY DEF AlertInv, AlertTypeOK, FeederInv, watchVars
<1>2. ChecksInOrder'
  <2> SUFFICES ASSUME NEW m \in Markets
               PROVE  firedAt[m] <= checkedAt[m] /\ checkedAt[m] <= start'
    BY DEF ChecksInOrder, watchVars
  <2>1. checkedAt[m] \in Int /\ start \in Int /\ start' \in Int
    BY FeederNumbers DEF AlertInv, AlertTypeOK, Never, FeederInv, TypeOK
  <2> QED BY <2>1 DEF AlertInv, ChecksInOrder
<1>3. SidesAreRemembered'
  BY SidesStay DEF AlertInv, SidesAreRemembered, watchVars
<1> QED BY <1>1, <1>2, <1>3 DEF AlertInv

LEMMA AlertStep == AlertInv /\ [AlertNext]_alertVars => AlertInv'
<1> SUFFICES ASSUME AlertInv, [AlertNext]_alertVars PROVE AlertInv'
  OBVIOUS
<1>1. FeederInv'
  BY AlertFeederStep, NextFeederInv DEF AlertInv
<1>2. CASE PriceClock
  BY <1>2, PriceClockKeeps
<1>3. CASE WatchedFeed
  BY <1>3, WatchedFeedKeeps DEF WatchedFeed
<1>4. start \in Int /\ start <= start /\ start <= now
  BY FeederNumbers DEF AlertInv
<1>5. CASE WatchedPollFails
  <2>1. UNCHANGED <<price, watchVars, now, start, overran, forgot>>
    BY <1>5 DEF WatchedPollFails, PollFails
  <2> QED BY <1>1, <1>4, <2>1, UnwatchedKeeps
<1>6. CASE QuietStep
  <2>1. UNCHANGED <<price, watchVars, now, forgot>> /\ start' \in {start, now}
    BY <1>6 DEF QuietStep, InitialFeedFails, StartThread, BeginCycle, EndCycle
  <2>2. overran => overran'
    <3>1. CASE BeginCycle
      BY <3>1, Zenon DEF BeginCycle
    <3>2. CASE InitialFeedFails \/ StartThread \/ EndCycle
      BY <3>2 DEF InitialFeedFails, StartThread, EndCycle
    <3> QED BY <1>6, <3>1, <3>2 DEF QuietStep
  <2> QED BY <1>1, <1>4, <2>1, <2>2, UnwatchedKeeps
<1>7. CASE UNCHANGED alertVars
  <2>1. UNCHANGED <<price, watchVars, now, start, overran, forgot>>
    BY <1>7 DEF alertVars, vars
  <2> QED BY <1>1, <1>4, <2>1, UnwatchedKeeps
<1> QED BY <1>2, <1>3, <1>5, <1>6, <1>7 DEF AlertNext

LEMMA AlertInvariance == AlertSpec => []AlertInv
  BY AlertInitInv, AlertStep, PTL DEF AlertSpec

\* Every variable of the watched pipeline keeps its type: a rule has no side only
\* if it compares moving averages.
THEOREM AlertTypeCorrect == AlertSpec => []AlertTypeOK
  BY AlertInvariance, PTL DEF AlertInv

LEMMA CrossingStep ==
    ASSUME AlertInv, [AlertNext]_alertVars, NEW m \in Markets,
           checkedAt'[m] # checkedAt[m], ~overran, m \notin forgot
    PROVE  firedAt'[m] = start <=> \E r \in Rules : Crossed(r, m)
<1>1. WatchedFeed
  BY DEF AlertNext, alertVars, PriceClock, WatchedPollFails, QuietStep, watchVars
<1>2. PICK q \in Markets, extra \in 0 .. 1 :
          (InitialFeed(q, extra) \/ Poll(q, extra)) /\ Watch(q) /\ UNCHANGED price
  BY <1>1 DEF WatchedFeed
<1>3. cache'[q] \in Seq(Int) /\ cache'[q] # <<>>
  BY <1>2, VisitedIsCurrent DEF AlertInv
<1>4. q = m /\ fed[m] /\ checkedAt'[m] = start
  BY <1>2, <1>3, WatchTypes
<1>5. IF \E r \in Rules : Crossed(r, m) THEN firedAt'[m] = start ELSE firedAt' = firedAt
  BY <1>2, <1>4, CheckDecides DEF Watch
<1>6. firedAt[m] # start
  <2>1. /\ firedAt[m] <= checkedAt[m] /\ checkedAt[m] <= start /\ checkedAt[m] # start
        /\ firedAt[m] \in Int /\ checkedAt[m] \in Int /\ start \in Int
    BY <1>4, FeederNumbers DEF AlertInv, AlertTypeOK, ChecksInOrder, Never
  <2> QED BY <2>1
<1> QED BY <1>5, <1>6

\* The trader is alerted at a check exactly when the market has crossed a rule's
\* threshold since the check before (RuleWatcher, Rule, PollingCandleChartFeeder),
\* whatever has failed in between, for all rules, prices and cache sizes.
THEOREM AlertsExactlyOnCrossings == AlertSpec => AlertsOnCrossings
<1>1. AlertInv /\ [AlertNext]_alertVars =>
        [\A m \in Markets :
            (checkedAt'[m] # checkedAt[m] /\ ~overran /\ m \notin forgot) =>
                (firedAt'[m] = start <=> \E r \in Rules : Crossed(r, m))]_alertVars
  BY CrossingStep
<1> QED BY <1>1, AlertInvariance, PTL DEF AlertSpec, AlertsOnCrossings
=============================================================================
