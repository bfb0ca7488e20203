------------------------------ MODULE SeqFacts ------------------------------
(***************************************************************************)
(* Facts about concatenating and splitting sequences without repetition,   *)
(* for the proofs about stacks and batches.                                *)
(***************************************************************************)
EXTENDS Integers, Sequences, Functions, FiniteSetTheorems,
        WellFoundedInduction, TLAPS

(* s is what it is made of: its elements are those at 1 .. Len(s). *)
LEMMA RangeOfSeq ==
  ASSUME NEW S, NEW s \in Seq(S)
  PROVE  /\ DOMAIN s = 1 .. Len(s)
         /\ \A i \in 1 .. Len(s) : s[i] \in Range(s)
         /\ \A x \in Range(s) : x \in S /\ \E i \in 1 .. Len(s) : s[i] = x
BY DEF Range

(* The elements of a concatenation. *)
LEMMA RangeConcat ==
  ASSUME NEW S, NEW s \in Seq(S), NEW t \in Seq(S)
  PROVE  /\ s \o t \in Seq(S)
         /\ Range(s \o t) = Range(s) \cup Range(t)
<1>1. s \o t \in Seq(S) /\ Len(s \o t) = Len(s) + Len(t)
  OBVIOUS
<1>2. \A i \in 1 .. Len(s) : (s \o t)[i] = s[i]
  OBVIOUS
<1>3. \A i \in 1 .. Len(t) : (s \o t)[Len(s) + i] = t[i]
  OBVIOUS
<1>4. ASSUME NEW i \in 1 .. Len(s) + Len(t)
      PROVE  (s \o t)[i] \in Range(s) \cup Range(t)
  <2>1. CASE i \in 1 .. Len(s)
    BY <1>2, <2>1 DEF Range
  <2>2. CASE i - Len(s) \in 1 .. Len(t)
    BY <1>3, <2>2 DEF Range
  <2>3. QED
    BY <2>1, <2>2
<1>5. ASSUME NEW x \in Range(s) PROVE x \in Range(s \o t)
  <2>1. PICK i \in 1 .. Len(s) : s[i] = x
    BY RangeOfSeq
  <2>2. i \in 1 .. Len(s \o t) /\ (s \o t)[i] = x
    BY <1>1, <1>2, <2>1
  <2>3. QED
    BY <1>1, <2>2, RangeOfSeq
<1>6. ASSUME NEW x \in Range(t) PROVE x \in Range(s \o t)
  <2>1. PICK i \in 1 .. Len(t) : t[i] = x
    BY RangeOfSeq
  <2>2. Len(s) + i \in 1 .. Len(s \o t) /\ (s \o t)[Len(s) + i] = x
    BY <1>1, <1>3, <2>1
  <2>3. QED
    BY <1>1, <2>2, RangeOfSeq
<1>7. ASSUME NEW x \in Range(s \o t) PROVE x \in Range(s) \cup Range(t)
  <2>1. x \in {(s \o t)[i] : i \in DOMAIN (s \o t)}
    BY Zenon DEF Range
  <2>2. PICK i \in DOMAIN (s \o t) : (s \o t)[i] = x
    BY <2>1, Zenon
  <2>3. i \in 1 .. Len(s) + Len(t)
    BY <1>1, <2>2
  <2>4. QED
    BY <1>4, <2>2, <2>3
<1>8. QED
  BY <1>1, <1>5, <1>6, <1>7

(* A concatenation of disjoint sequences without repetition has none. *)
LEMMA InjectiveConcat ==
  ASSUME NEW S, NEW s \in Seq(S), NEW t \in Seq(S),
         IsInjective(s), IsInjective(t), Range(s) \cap Range(t) = {}
  PROVE  IsInjective(s \o t)
<1>1. s \o t \in Seq(S) /\ Len(s \o t) = Len(s) + Len(t)
  OBVIOUS
<1>2. \A i \in 1 .. Len(s) : (s \o t)[i] = s[i]
  OBVIOUS
<1>3. \A i \in 1 .. Len(t) : (s \o t)[Len(s) + i] = t[i]
  OBVIOUS
<1>4. SUFFICES ASSUME NEW i \in 1 .. Len(s) + Len(t), NEW j \in 1 .. Len(s) + Len(t),
                      (s \o t)[i] = (s \o t)[j]
               PROVE  i = j
  BY <1>1 DEF IsInjective
<1>5. \A k \in 1 .. Len(s) + Len(t) :
         \/ k \in 1 .. Len(s) /\ (s \o t)[k] = s[k] /\ s[k] \in Range(s)
         \/ /\ k - Len(s) \in 1 .. Len(t)
            /\ (s \o t)[k] = t[k - Len(s)]
            /\ t[k - Len(s)] \in Range(t)
  <2>1. TAKE k \in 1 .. Len(s) + Len(t)
  <2>2. CASE k \in 1 .. Len(s)
    BY <1>2, <2>2 DEF Range
  <2>3. CASE k - Len(s) \in 1 .. Len(t)
    <3>1. (s \o t)[Len(s) + (k - Len(s))] = t[k - Len(s)]
      BY <1>3, <2>3
    <3>2. QED
      BY <2>3, <3>1 DEF Range
  <2>4. QED
    BY <2>2, <2>3
<1>6. CASE i \in 1 .. Len(s) /\ j \in 1 .. Len(s)
  BY <1>2, <1>4, <1>6 DEF IsInjective
<1>7. CASE i - Len(s) \in 1 .. Len(t) /\ j - Len(s) \in 1 .. Len(t)
  <2>1. t[i - Len(s)] = t[j - Len(s)]
    BY <1>4, <1>5, <1>7
  <2>2. i - Len(s) = j - Len(s)
    BY <1>7, <2>1 DEF IsInjective
  <2>3. QED
    BY <2>2
<1>8. QED
  BY <1>4, <1>5, <1>6, <1>7

(* A stack without its top n elements, and these as they are popped. *)
Bottom(s, n) == SubSeq(s, 1, Len(s) - n)
TopDown(s, n) == [i \in 1 .. n |-> s[Len(s) + 1 - i]]

LEMMA SplitSeq ==
  ASSUME NEW S, NEW s \in Seq(S), IsInjective(s), NEW n \in 0 .. Len(s)
  PROVE  /\ Bottom(s, n) \in Seq(S) /\ IsInjective(Bottom(s, n))
         /\ TopDown(s, n) \in Seq(S) /\ IsInjective(TopDown(s, n))
         /\ Len(TopDown(s, n)) = n
         /\ Range(Bottom(s, n)) \cap Range(TopDown(s, n)) = {}
         /\ Range(Bottom(s, n)) \cup Range(TopDown(s, n)) = Range(s)
<1> DEFINE low == SubSeq(s, 1, Len(s) - n)
           top == [i \in 1 .. n |-> s[Len(s) + 1 - i]]
<1>0. Bottom(s, n) = low /\ TopDown(s, n) = top
  BY DEF Bottom, TopDown
<1>1. low \in Seq(S) /\ Len(low) = Len(s) - n /\ \A i \in 1 .. Len(s) - n : low[i] = s[i]
  OBVIOUS
<1>2. top \in Seq(S) /\ Len(top) = n
  <2>1. \A i \in 1 .. n : Len(s) + 1 - i \in 1 .. Len(s) /\ s[Len(s) + 1 - i] \in S
    OBVIOUS
  <2>2. QED
    BY <2>1
<1>3. IsInjective(low)
  BY <1>1 DEF IsInjective
<1>4. IsInjective(top)
  <2>1. SUFFICES ASSUME NEW i \in 1 .. n, NEW j \in 1 .. n, top[i] = top[j]
                 PROVE  i = j
    BY DEF IsInjective
  <2>2. Len(s) + 1 - i \in DOMAIN s /\ Len(s) + 1 - j \in DOMAIN s
    OBVIOUS
  <2>3. Len(s) + 1 - i = Len(s) + 1 - j
    BY <2>1, <2>2 DEF IsInjective
  <2>4. QED
    BY <2>3
<1>5. Range(low) \cap Range(top) = {}
  <2>1. ASSUME NEW i \in 1 .. Len(s) - n, NEW j \in 1 .. n, low[i] = top[j]
        PROVE  FALSE
    <3>1. s[i] = s[Len(s) + 1 - j] /\ i \in DOMAIN s /\ Len(s) + 1 - j \in DOMAIN s
      BY <1>1, <2>1
    <3>2. i = Len(s) + 1 - j
      BY <3>1 DEF IsInjective
    <3>3. QED
      BY <3>2
  <2> HIDE DEF low, top
  <2>2. \A x \in Range(low) : \E i \in 1 .. Len(s) - n : low[i] = x
    BY <1>1, RangeOfSeq
  <2>3. \A x \in Range(top) : \E j \in 1 .. n : top[j] = x
    BY <1>2, RangeOfSeq
  <2>4. QED
    BY <2>1, <2>2, <2>3
<1>6. Range(low) \cup Range(top) = Range(s)
  <2>1. ASSUME NEW x \in Range(low) \cup Range(top) PROVE x \in Range(s)
    <3>1. CASE x \in Range(low)
      BY <1>1, <3>1 DEF Range
    <3>2. CASE x \in Range(top)
      <4>1. PICK i \in 1 .. n : x = s[Len(s) + 1 - i]
        BY <3>2 DEF Range
      <4>2. Len(s) + 1 - i \in DOMAIN s
        OBVIOUS
      <4>3. QED
        BY <4>1, <4>2 DEF Range
    <3>3. QED
      BY <2>1, <3>1, <3>2
  <2>2. ASSUME NEW i \in 1 .. Len(s) PROVE s[i] \in Range(low) \cup Range(top)
    <3>1. CASE i \in 1 .. Len(s) - n
      <4>1. low[i] = s[i] /\ low[i] \in Range(low)
        BY <1>1, <3>1, RangeOfSeq
      <4>2. QED
        BY <4>1
    <3>2. CASE Len(s) + 1 - i \in 1 .. n
      <4>1. top[Len(s) + 1 - i] = s[i]
        BY <3>2
      <4>2. QED
        BY <3>2, <4>1 DEF Range
    <3>3. QED
      BY <3>1, <3>2
  <2>3. ASSUME NEW x \in Range(s) PROVE x \in Range(low) \cup Range(top)
    BY <2>2, RangeOfSeq
  <2>4. QED
    BY <2>1, <2>3
<1> HIDE DEF low, top
<1>7. QED
  BY <1>0, <1>1, <1>2, <1>3, <1>4, <1>5, <1>6

(* A slice of a sequence without repetition. *)
LEMMA SliceFacts ==
  ASSUME NEW S, NEW s \in Seq(S), IsInjective(s),
         NEW lo \in 1 .. Len(s), NEW hi \in lo .. Len(s)
  PROVE  LET b == SubSeq(s, lo, hi)
         IN  /\ b \in Seq(S) /\ b # <<>> /\ IsInjective(b)
             /\ \A x \in Range(b) : \E i \in lo .. hi : x = s[i]
<1> DEFINE b == SubSeq(s, lo, hi)
<1>1. /\ b \in Seq(S) /\ Len(b) = hi - lo + 1
      /\ \A i \in 1 .. hi - lo + 1 : b[i] = s[lo + i - 1]
  OBVIOUS
<1>2. b # <<>>
  BY <1>1
<1>3. IsInjective(b)
  <2>1. SUFFICES ASSUME NEW i \in 1 .. hi - lo + 1, NEW j \in 1 .. hi - lo + 1, b[i] = b[j]
                 PROVE  i = j
    BY <1>1 DEF IsInjective
  <2>2. s[lo + i - 1] = s[lo + j - 1]
    BY <1>1, <2>1
  <2>3. lo + i - 1 \in DOMAIN s /\ lo + j - 1 \in DOMAIN s
    OBVIOUS
  <2>4. lo + i - 1 = lo + j - 1
    BY <2>2, <2>3 DEF IsInjective
  <2>5. QED
    BY <2>4
<1>4. ASSUME NEW x \in Range(b) PROVE \E i \in lo .. hi : x = s[i]
  <2>1. PICK i \in 1 .. Len(b) : b[i] = x
    BY <1>1, RangeOfSeq
  <2>2. lo + i - 1 \in lo .. hi /\ x = s[lo + i - 1]
    BY <1>1, <2>1
  <2>3. QED
    BY <2>2
<1>5. QED
  BY <1>1, <1>2, <1>3, <1>4

(* A sequence without repetition has as many elements as it is long. *)
LEMMA RangeCardinality ==
  ASSUME NEW S, NEW s \in Seq(S), IsInjective(s)
  PROVE  IsFiniteSet(Range(s)) /\ Cardinality(Range(s)) = Len(s)
<1>1. Len(s) \in Nat /\ DOMAIN s = 1 .. Len(s)
  OBVIOUS
<1>2. s \in [1 .. Len(s) -> Range(s)]
  <2>1. s = [i \in 1 .. Len(s) |-> s[i]]
    BY <1>1
  <2> QED
    BY <2>1, RangeOfSeq
<1>3. s \in Bijection(1 .. Len(s), Range(s))
  BY <1>1, <1>2, RangeOfSeq DEF Bijection, Injection, Surjection
<1>4. IsFiniteSet(1 .. Len(s)) /\ Cardinality(1 .. Len(s)) = Len(s)
  BY <1>1, FS_Interval
<1>5. ExistsBijection(1 .. Len(s), Range(s))
  BY <1>3 DEF ExistsBijection
<1> QED
  BY <1>4, <1>5, FS_Bijection

(* A set of numbers that holds 0, and the successor of every number it     *)
(* holds, holds them all.                                                  *)
LEMMA SetInduction ==
  ASSUME NEW S, 0 \in S, \A n \in Nat : n \in S => n + 1 \in S
  PROVE  Nat \subseteq S
<1> DEFINE T == Nat \ S
           R == OpToRel(<, Nat)
<1>1. SUFFICES ASSUME T # {} PROVE FALSE
  OBVIOUS
<1>2. IsWellFoundedOn(R, Nat)
  BY NatLessThanWellFounded
<1>3. PICK n \in T : \A m \in T : ~ (<<m, n>> \in R)
  BY <1>1, <1>2, WFMin
<1>4. n # 0 /\ n - 1 \in Nat /\ n - 1 < n
  OBVIOUS
<1>5. <<n - 1, n>> \in R
  BY <1>4 DEF OpToRel
<1>6. n - 1 \notin T
  BY <1>3, <1>5
<1>7. (n - 1) + 1 \in S
  BY <1>4, <1>6
<1> QED
  BY <1>4, <1>7

(* The first n elements of a queue without repetition, and the others.     *)
Firsts(s, n) == SubSeq(s, 1, n)
Others(s, n) == SubSeq(s, n + 1, Len(s))

LEMMA SplitQueue ==
  ASSUME NEW S, NEW s \in Seq(S), IsInjective(s), NEW n \in 0 .. Len(s)
  PROVE  /\ Firsts(s, n) \in Seq(S) /\ IsInjective(Firsts(s, n))
         /\ Others(s, n) \in Seq(S) /\ IsInjective(Others(s, n))
         /\ Len(Firsts(s, n)) = n /\ Len(Others(s, n)) = Len(s) - n
         /\ \A i \in 1 .. n : Firsts(s, n)[i] = s[i]
         /\ \A i \in 1 .. Len(s) - n : Others(s, n)[i] = s[n + i]
         /\ Range(Firsts(s, n)) \cap Range(Others(s, n)) = {}
         /\ Range(Firsts(s, n)) \cup Range(Others(s, n)) = Range(s)
<1> DEFINE fst == Firsts(s, n)
           oth == Others(s, n)
<1>1. Len(s) \in Nat /\ n \in Nat /\ n <= Len(s)
  OBVIOUS
<1>2. fst \in Seq(S) /\ Len(fst) = n /\ \A i \in 1 .. n : fst[i] = s[i]
  BY <1>1 DEF Firsts
<1>3. oth \in Seq(S) /\ Len(oth) = Len(s) - n /\ \A i \in 1 .. Len(s) - n : oth[i] = s[n + i]
  <2>1. CASE n = Len(s)
    <3>1. oth = <<>>
      BY <1>1, <2>1 DEF Others
    <3>2. QED
      BY <2>1, <3>1
  <2>2. CASE n < Len(s)
    BY <1>1, <2>2 DEF Others
  <2>3. QED
    BY <1>1, <2>1, <2>2
<1> HIDE DEF fst, oth
<1>4. \A i \in 1 .. Len(s) - n : n + i \in 1 .. Len(s) /\ n + i > n
  BY <1>1
<1>5. \A i, j \in 1 .. Len(s) : s[i] = s[j] => i = j
  BY DEF IsInjective
<1>6. IsInjective(fst)
  BY <1>1, <1>2, <1>5 DEF IsInjective
<1>7. IsInjective(oth)
  <2>1. SUFFICES ASSUME NEW i \in 1 .. Len(s) - n, NEW j \in 1 .. Len(s) - n, oth[i] = oth[j]
                 PROVE  i = j
    BY <1>3 DEF IsInjective
  <2>2. n + i = n + j
    BY <1>3, <1>4, <1>5, <2>1
  <2>3. QED
    BY <2>2
<1>8. \A x \in Range(fst) : \E i \in 1 .. n : s[i] = x
  BY <1>2, RangeOfSeq
<1>9. \A x \in Range(oth) : \E i \in 1 .. Len(s) - n : s[n + i] = x
  <2>1. \A x \in Range(oth) : \E i \in 1 .. Len(oth) : oth[i] = x
    BY <1>3, RangeOfSeq
  <2>2. QED
    BY <1>3, <2>1
<1>10. Range(fst) \cap Range(oth) = {}
  <2>1. SUFFICES ASSUME NEW i \in 1 .. n, NEW j \in 1 .. Len(s) - n, s[i] = s[n + j]
                 PROVE  FALSE
    BY <1>8, <1>9
  <2>2. i = n + j
    BY <1>1, <1>4, <1>5, <2>1
  <2>3. QED
    BY <1>4, <2>2
<1>11. Range(fst) \cup Range(oth) \subseteq Range(s)
  <2>1. \A i \in 1 .. n : s[i] \in Range(s)
    BY <1>1, RangeOfSeq
  <2>2. \A i \in 1 .. Len(s) - n : s[n + i] \in Range(s)
    BY <1>4, RangeOfSeq
  <2>3. QED
    BY <1>8, <1>9, <2>1, <2>2
<1>12. ASSUME NEW x \in Range(s) PROVE x \in Range(fst) \cup Range(oth)
  <2>1. PICK i \in 1 .. Len(s) : s[i] = x
    BY RangeOfSeq
  <2>2. CASE i \in 1 .. n
    BY <1>2, <2>1, <2>2, RangeOfSeq
  <2>3. CASE i - n \in 1 .. Len(s) - n
    <3>1. oth[i - n] = s[n + (i - n)] /\ n + (i - n) = i
      BY <1>1, <1>3, <2>3
    <3>2. oth[i - n] \in Range(oth)
      BY <1>3, <2>3, RangeOfSeq
    <3>3. QED
      BY <2>1, <3>1, <3>2
  <2>4. QED
    BY <1>1, <2>2, <2>3
<1>13. QED
  BY <1>2, <1>3, <1>6, <1>7, <1>10, <1>11, <1>12 DEF fst, oth

(* The head of a queue without repetition, and what is behind it. *)
LEMMA TailFacts ==
  ASSUME NEW S, NEW s \in Seq(S), s # <<>>, IsInjective(s)
  PROVE  /\ Head(s) \in Range(s) /\ Head(s) = s[1]
         /\ Tail(s) \in Seq(S) /\ Len(Tail(s)) = Len(s) - 1 /\ IsInjective(Tail(s))
         /\ \A i \in 1 .. Len(s) - 1 : Tail(s)[i] = s[i + 1]
         /\ Range(Tail(s)) = Range(s) \ {Head(s)}
<1>1. /\ Len(s) \in Nat \ {0} /\ Head(s) = s[1] /\ 1 \in 1 .. Len(s)
      /\ Tail(s) \in Seq(S) /\ Len(Tail(s)) = Len(s) - 1
      /\ \A i \in 1 .. Len(s) - 1 : Tail(s)[i] = s[i + 1]
  OBVIOUS
<1> DEFINE t == Tail(s)
<1> HIDE DEF t
<1>2. Head(s) \in Range(s)
  BY <1>1, RangeOfSeq
<1>3. \A i, j \in 1 .. Len(s) : s[i] = s[j] => i = j
  BY DEF IsInjective
<1>4. \A i \in 1 .. Len(s) - 1 : i + 1 \in 1 .. Len(s) /\ i + 1 # 1
  BY <1>1
<1>5. IsInjective(t)
  <2>1. SUFFICES ASSUME NEW i \in 1 .. Len(s) - 1, NEW j \in 1 .. Len(s) - 1, t[i] = t[j]
                 PROVE  i = j
    BY <1>1 DEF IsInjective, t
  <2>2. i + 1 = j + 1
    BY <1>1, <1>3, <1>4, <2>1 DEF t
  <2>3. QED
    BY <2>2
<1>6. ASSUME NEW x \in Range(t) PROVE x \in Range(s) \ {Head(s)}
  <2>0. t \in Seq(S) /\ Len(t) = Len(s) - 1
    BY <1>1 DEF t
  <2>1. PICK i \in 1 .. Len(s) - 1 : t[i] = x
    BY <2>0, RangeOfSeq
  <2>2. s[i + 1] = x /\ i + 1 \in 1 .. Len(s) /\ i + 1 # 1
    BY <1>1, <1>4, <2>1 DEF t
  <2>3. QED
    BY <1>1, <1>3, <2>2, RangeOfSeq
<1>7. ASSUME NEW x \in Range(s) \ {Head(s)} PROVE x \in Range(t)
  <2>1. PICK i \in 1 .. Len(s) : s[i] = x
    BY RangeOfSeq
  <2>2. i - 1 \in 1 .. Len(s) - 1 /\ (i - 1) + 1 = i
    BY <1>1, <1>7, <2>1
  <2>3. t[i - 1] = x
    BY <1>1, <2>1, <2>2 DEF t
  <2>4. i - 1 \in 1 .. Len(t) /\ t \in Seq(S)
    BY <1>1, <2>2 DEF t
  <2>5. QED
    BY <2>3, <2>4, RangeOfSeq
<1>8. QED
  BY <1>1, <1>2, <1>5, <1>6, <1>7 DEF t
=============================================================================
