------------------------ MODULE ScrapySchedulerProofs ------------------------
(***************************************************************************)
(* Machine-checked facts about ScrapyScheduler, for every set of requests  *)
(* of whatever kinds and every number of resumptions: its queues keep      *)
(* their order, and it implements RequestStore.                            *)
(***************************************************************************)
EXTENDS ScrapyScheduler, SeqFacts, TLAPS

-----------------------------------------------------------------------------
(* The invariant. *)

(* q came before r, in the order w that requests came in. *)
Earlier(w, q, r) == \E i, j \in DOMAIN w : i < j /\ w[i] = q /\ w[j] = r

(* A line of the queue of s under the key k holds requests of that slot    *)
(* and key in the order they came in.                                      *)
LineOK(w, s, k, line) ==
  /\ line \in Seq(Request)
  /\ \A i \in DOMAIN line : Key(line[i]) = k /\ kind[line[i]].slot = s
  /\ \A i, j \in DOMAIN line : i < j => Earlier(w, line[i], line[j])

QueueOK(w, s, q) ==
  /\ q = [lines |-> q.lines, cur |-> q.cur]
  /\ DOMAIN q.lines \subseteq Int \X BOOLEAN /\ IsFiniteSet(DOMAIN q.lines)
  /\ \A k \in DOMAIN q.lines : LineOK(w, s, k, q.lines[k])
  /\ q.cur \subseteq Int /\ \A c, d \in q.cur : c = d
  /\ CurprioLeads(q)

StoreOK(w, store) ==
  /\ store = [pqueues |-> store.pqueues, last |-> store.last]
  /\ DOMAIN store.pqueues \subseteq Nat \ {0}
  /\ \A s \in DOMAIN store.pqueues : QueueOK(w, s, store.pqueues[s])

(* What a refusal can come from: an empty line, or a slot without lines.   *)
BlanksOf(q) ==
  IF DOMAIN q.lines = {} THEN {<<>>} ELSE {k \in DOMAIN q.lines : q.lines[k] = <<>>}
Blanks(store) ==
  UNION {{<<s, k>> : k \in BlanksOf(store.pqueues[s])} : s \in DOMAIN store.pqueues}

Types ==
  /\ jobdir \in BOOLEAN /\ kind \in Kindings /\ restarts \in 0 .. MaxRestarts
  /\ seen \in Seq(Request) /\ IsInjective(seen)

Queues == StoreOK(seen, mqs) /\ StoreOK(seen, dqs)

Places ==
  /\ given \cup Contents(mqs) \cup Contents(dqs) \subseteq Range(seen)
  /\ Contents(mqs) \cap Contents(dqs) = {}
  /\ given \cap (Contents(mqs) \cup Contents(dqs)) = {}
  /\ finished \cap active = {} /\ finished \cup active \subseteq given

(* Every refusal is accounted for by a request that could not be stored;   *)
(* there is none from the queues in memory.                                *)
Accounts ==
  /\ Blanks(mqs) = {} /\ IsFiniteSet(Blanks(dqs))
  /\ owed \in Int /\ Cardinality(Blanks(dqs)) <= owed /\ owed <= Len(seen)

IInv == Types /\ Queues /\ Places /\ Accounts

-----------------------------------------------------------------------------
(* The least of a set of integers. *)
LEMMA FiniteMin ==
  ASSUME NEW P \in SUBSET Int, IsFiniteSet(P), P # {}
  PROVE  Min(P) \in P /\ \A p \in P : Min(P) <= p
<1> DEFINE Has(T) == \E m \in T : \A x \in T : m <= x
           S == {n \in Nat : \A T \in SUBSET Int :
                   IsFiniteSet(T) /\ Cardinality(T) = n /\ T # {} => Has(T)}
<1>1. 0 \in S
  <2>1. \A T \in SUBSET Int : ~ (IsFiniteSet(T) /\ Cardinality(T) = 0 /\ T # {})
    BY FS_EmptySet
  <2>2. QED
    BY <2>1
<1>2. ASSUME NEW n \in Nat, n \in S PROVE n + 1 \in S
  <2>1. SUFFICES ASSUME NEW T \in SUBSET Int, IsFiniteSet(T), Cardinality(T) = n + 1, T # {}
                 PROVE  Has(T)
    BY <1>2
  <2>2. PICK x \in T : x \in Int
    BY <2>1
  <2> DEFINE rest == T \ {x}
  <2>3. IsFiniteSet(rest) /\ Cardinality(rest) = n /\ rest \in SUBSET Int
    <3>1. /\ IsFiniteSet(T \ {x})
          /\ Cardinality(T \ {x}) = IF x \in T THEN Cardinality(T) - 1 ELSE Cardinality(T)
      BY <2>1, FS_RemoveElement
    <3>2. QED
      BY <2>1, <2>2, <3>1
  <2>4. \A y \in T : y = x \/ y \in rest
    OBVIOUS
  <2>5. rest \subseteq T
    OBVIOUS
  <2> HIDE DEF rest
  <2>6. CASE rest = {}
    BY <2>2, <2>4, <2>6
  <2>7. CASE rest # {}
    <3>1. PICK m \in rest : \A y \in rest : m <= y
      BY <1>2, <2>3, <2>7
    <3>2. m \in T /\ m \in Int /\ \A y \in T : y \in Int
      BY <2>1, <2>5, <3>1
    <3>3. CASE m <= x
      BY <2>4, <3>1, <3>2, <3>3
    <3>4. CASE ~ (m <= x)
      BY <2>2, <2>3, <2>4, <3>1, <3>2, <3>4
    <3>5. QED
      BY <3>3, <3>4
  <2>8. QED
    BY <2>6, <2>7
<1>3. Nat \subseteq S
  <2> HIDE DEF S
  <2> QED
    BY <1>1, <1>2, SetInduction
<1>4. Has(P)
  BY <1>3, FS_CardinalityType
<1>5. QED
  BY <1>4 DEF Min

LEMMA NaturalMin ==
  ASSUME NEW P \in SUBSET Nat, P # {}
  PROVE  Min(P) \in P /\ \A p \in P : Min(P) <= p
<1>1. PICK n \in P : n \in Nat
  OBVIOUS
<1> DEFINE Low == P \cap (0 .. n)
<1>2. IsFiniteSet(Low) /\ Low \in SUBSET Int /\ n \in Low
  <2>1. IsFiniteSet(0 .. n)
    BY <1>1, FS_Interval
  <2>2. QED
    BY <1>1, <2>1, FS_Subset
<1>3. \A p \in P : p \in Low \/ (p \in Nat /\ p > n)
  BY <1>1
<1> HIDE DEF Low
<1>4. Min(Low) \in Low /\ \A p \in Low : Min(Low) <= p
  BY <1>2, FiniteMin
<1> DEFINE m == Min(Low)
<1>5. m \in P /\ m <= n /\ m \in Nat
  BY <1>2, <1>4 DEF Low
<1> HIDE DEF m
<1>6. \A p \in P : m <= p
  BY <1>1, <1>3, <1>4, <1>5 DEF m
<1>7. QED
  BY <1>5, <1>6 DEF Min

LEMMA LeastFacts ==
  ASSUME NEW P \in SUBSET Int, IsFiniteSet(P)
  PROVE  \/ P = {} /\ Least(P) = {}
         \/ \E c \in P : Least(P) = {c} /\ \A p \in P : c <= p
BY FiniteMin DEF Least

(* The priorities of a queue's lines. *)
LEMMA PriosFacts ==
  ASSUME NEW K \in SUBSET (Int \X BOOLEAN), IsFiniteSet(K)
  PROVE  /\ Prios(K) \in SUBSET Int /\ IsFiniteSet(Prios(K))
         /\ \A k \in K : k[1] \in Prios(K)
         /\ \A p \in Prios(K) : \E k \in K : k[1] = p
<1>1. /\ Prios(K) \in SUBSET Int
      /\ \A k \in K : k[1] \in Prios(K)
      /\ \A p \in Prios(K) : \E k \in K : k[1] = p
  BY DEF Prios
<1> DEFINE f == [k \in K |-> k[1]]
<1>2. f \in Surjection(K, Prios(K))
  BY <1>1 DEF Surjection
<1>3. IsFiniteSet(Prios(K))
  <2> HIDE DEF f
  <2> QED
    BY <1>2, FS_Surjection
<1>4. QED
  BY <1>1, <1>3

-----------------------------------------------------------------------------
(* The order requests came in, and the lines that keep it. *)
LEMMA EarlierFacts ==
  ASSUME NEW w \in Seq(Request), IsInjective(w), NEW q, NEW r, Earlier(w, q, r)
  PROVE  q \in Range(w) /\ r \in Range(w) /\ q # r /\ ~ Earlier(w, r, q)
<1>1. PICK i, j \in DOMAIN w : i < j /\ w[i] = q /\ w[j] = r
  BY DEF Earlier
<1>2. DOMAIN w = 1 .. Len(w) /\ Len(w) \in Nat
  OBVIOUS
<1>3. q \in Range(w) /\ r \in Range(w)
  BY <1>1 DEF Range
<1>4. q # r
  BY <1>1, <1>2 DEF IsInjective
<1>5. ASSUME Earlier(w, r, q) PROVE FALSE
  <2>1. PICK a, b \in DOMAIN w : a < b /\ w[a] = r /\ w[b] = q
    BY <1>5 DEF Earlier
  <2>2. a = j /\ b = i
    BY <1>1, <2>1 DEF IsInjective
  <2>3. QED
    BY <1>1, <1>2, <2>1, <2>2
<1>6. QED
  BY <1>3, <1>4, <1>5

LEMMA NewComer ==
  ASSUME NEW w \in Seq(Request), IsInjective(w), NEW r \in Request, r \notin Range(w)
  PROVE  /\ Append(w, r) \in Seq(Request) /\ IsInjective(Append(w, r))
         /\ Range(Append(w, r)) = Range(w) \cup {r} /\ Len(Append(w, r)) = Len(w) + 1
         /\ \A x, y : Earlier(w, x, y) => Earlier(Append(w, r), x, y)
         /\ \A x \in Range(w) : Earlier(Append(w, r), x, r)
<1> DEFINE v == Append(w, r)
<1>1. /\ v \in Seq(Request) /\ Len(v) = Len(w) + 1 /\ Len(w) \in Nat
      /\ DOMAIN v = 1 .. Len(w) + 1 /\ DOMAIN w = 1 .. Len(w)
      /\ v[Len(w) + 1] = r /\ \A i \in DOMAIN w : v[i] = w[i]
  OBVIOUS
<1> HIDE DEF v
<1>2. \A i \in DOMAIN v : i \in DOMAIN w \/ i = Len(w) + 1
  BY <1>1
<1>3. Range(v) = Range(w) \cup {r}
  <2>1. \A x \in Range(v) : x \in Range(w) \/ x = r
    BY <1>1, <1>2 DEF Range
  <2>2. \A x \in Range(w) : x \in Range(v)
    BY <1>1 DEF Range
  <2>3. r \in Range(v)
    BY <1>1 DEF Range
  <2>4. QED
    BY <2>1, <2>2, <2>3
<1>4. IsInjective(v)
  <2>1. SUFFICES ASSUME NEW i \in DOMAIN v, NEW j \in DOMAIN v, v[i] = v[j]
                 PROVE  i = j
    BY DEF IsInjective
  <2>2. \A n \in DOMAIN w : v[n] # r
    BY <1>1 DEF Range
  <2>3. QED
    BY <1>1, <1>2, <2>1, <2>2 DEF IsInjective
<1>5. ASSUME NEW x, NEW y, Earlier(w, x, y) PROVE Earlier(v, x, y)
  <2>1. PICK i, j \in DOMAIN w : i < j /\ w[i] = x /\ w[j] = y
    BY <1>5 DEF Earlier
  <2>2. i \in DOMAIN v /\ j \in DOMAIN v /\ v[i] = x /\ v[j] = y
    BY <1>1, <2>1
  <2>3. QED
    BY <2>1, <2>2 DEF Earlier
<1>6. ASSUME NEW x \in Range(w) PROVE Earlier(v, x, r)
  <2>1. PICK i \in DOMAIN w : w[i] = x
    BY DEF Range
  <2>2. /\ i \in DOMAIN v /\ Len(w) + 1 \in DOMAIN v /\ i < Len(w) + 1
        /\ v[i] = x /\ v[Len(w) + 1] = r
    BY <1>1, <2>1
  <2>3. QED
    BY <2>2 DEF Earlier
<1>7. QED
  BY <1>1, <1>3, <1>4, <1>5, <1>6 DEF v

LEMMA LineGrows ==
  ASSUME NEW w \in Seq(Request), IsInjective(w), NEW r \in Request, r \notin Range(w),
         NEW s, NEW k, NEW line, LineOK(w, s, k, line)
  PROVE  LineOK(Append(w, r), s, k, line)
BY NewComer DEF LineOK

LEMMA JoinsLine ==
  ASSUME NEW w \in Seq(Request), IsInjective(w), NEW r \in Request, r \notin Range(w),
         NEW s, NEW k, NEW line, LineOK(w, s, k, line), Range(line) \subseteq Range(w),
         Key(r) = k, kind[r].slot = s
  PROVE  /\ LineOK(Append(w, r), s, k, Append(line, r))
         /\ ToSet(Append(line, r)) = ToSet(line) \cup {r}
         /\ Append(line, r) # <<>>
<1> DEFINE long == Append(line, r)
<1>1. line \in Seq(Request)
  BY DEF LineOK
<1>2. /\ long \in Seq(Request) /\ Len(long) = Len(line) + 1 /\ Len(line) \in Nat
      /\ DOMAIN long = 1 .. Len(line) + 1 /\ DOMAIN line = 1 .. Len(line)
      /\ long[Len(line) + 1] = r /\ \A i \in DOMAIN line : long[i] = line[i]
  BY <1>1
<1>3. \A i \in DOMAIN long : i \in DOMAIN line \/ i = Len(line) + 1
  BY <1>2
<1>4. \A i \in DOMAIN line : line[i] \in Range(w)
  BY DEF Range
<1> HIDE DEF long
<1>5. \A i \in DOMAIN long : Key(long[i]) = k /\ kind[long[i]].slot = s
  BY <1>2, <1>3 DEF LineOK
<1>6. ASSUME NEW i \in DOMAIN long, NEW j \in DOMAIN long, i < j
      PROVE  Earlier(Append(w, r), long[i], long[j])
  <2>1. i \in DOMAIN line
    BY <1>2, <1>3, <1>6
  <2>2. CASE j \in DOMAIN line
    BY <1>2, <1>6, <2>1, <2>2, NewComer DEF LineOK
  <2>3. CASE j = Len(line) + 1
    BY <1>2, <1>4, <2>1, <2>3, NewComer
  <2>4. QED
    BY <1>3, <2>2, <2>3
<1>7. LineOK(Append(w, r), s, k, long)
  BY <1>2, <1>5, <1>6 DEF LineOK
<1>8. ToSet(long) = ToSet(line) \cup {r}
  <2>1. \A x \in ToSet(long) : x \in ToSet(line) \/ x = r
    BY <1>2, <1>3 DEF ToSet
  <2>2. \A x \in ToSet(line) : x \in ToSet(long)
    BY <1>2 DEF ToSet
  <2>3. r \in ToSet(long)
    BY <1>2 DEF ToSet
  <2>4. QED
    BY <2>1, <2>2, <2>3
<1>9. long # <<>>
  BY <1>2
<1>10. QED
  BY <1>7, <1>8, <1>9 DEF long

(* Whose turn it is in a line: the first of the start requests, the last   *)
(* of the others.                                                          *)
Next1(line, start) == IF start THEN Head(line) ELSE Last(line)

LEMMA LeavesLine ==
  ASSUME NEW w \in Seq(Request), IsInjective(w), NEW s, NEW k, NEW line,
         LineOK(w, s, k, line), line # <<>>, NEW start \in BOOLEAN
  PROVE  /\ LineOK(w, s, k, Shorter(line, start))
         /\ Next1(line, start) \in ToSet(line) /\ Next1(line, start) \in Request
         /\ ToSet(Shorter(line, start)) = ToSet(line) \ {Next1(line, start)}
         /\ \A x \in ToSet(line) \ {Next1(line, start)} :
              IF start THEN Earlier(w, Next1(line, start), x)
                       ELSE Earlier(w, x, Next1(line, start))
<1>1. /\ line \in Seq(Request) /\ Len(line) \in Nat \ {0} /\ DOMAIN line = 1 .. Len(line)
      /\ \A i \in DOMAIN line : Key(line[i]) = k /\ kind[line[i]].slot = s
      /\ \A i, j \in DOMAIN line : i < j => Earlier(w, line[i], line[j])
  BY DEF LineOK
<1>2. CASE start
  <2> DEFINE rest == Tail(line)
             x == Head(line)
  <2>1. /\ rest \in Seq(Request) /\ Len(rest) = Len(line) - 1 /\ x = line[1]
        /\ DOMAIN rest = 1 .. Len(line) - 1
        /\ \A i \in DOMAIN rest : rest[i] = line[i + 1] /\ i + 1 \in DOMAIN line
    BY <1>1
  <2> HIDE DEF rest, x
  <2>2. x \in ToSet(line) /\ x \in Request /\ 1 \in DOMAIN line
    BY <1>1, <2>1 DEF ToSet
  <2>3. \A i \in DOMAIN line : i # 1 => i - 1 \in DOMAIN rest /\ rest[i - 1] = line[i]
    BY <1>1, <2>1
  <2>4. \A i \in DOMAIN line : i # 1 => Earlier(w, x, line[i])
    BY <1>1, <2>1, <2>2
  <2>5. \A i \in DOMAIN line : i # 1 => line[i] # x
    BY <2>4, EarlierFacts
  <2>6. ToSet(rest) = ToSet(line) \ {x}
    <3>1. \A y \in ToSet(rest) : y \in ToSet(line) /\ y # x
      BY <1>1, <2>1, <2>5 DEF ToSet
    <3>2. \A y \in ToSet(line) : y # x => y \in ToSet(rest)
      BY <2>1, <2>3 DEF ToSet
    <3>3. QED
      BY <3>1, <3>2
  <2>7. \A y \in ToSet(line) \ {x} : Earlier(w, x, y)
    BY <2>1, <2>4 DEF ToSet
  <2>8. LineOK(w, s, k, rest)
    <3>1. \A i, j \in DOMAIN rest : i < j => Earlier(w, rest[i], rest[j])
      BY <1>1, <2>1
    <3>2. QED
      BY <1>1, <2>1, <3>1 DEF LineOK
  <2>9. Shorter(line, start) = rest /\ Next1(line, start) = x
    BY <1>2 DEF Shorter, Next1, rest, x
  <2>10. QED
    BY <1>2, <2>2, <2>6, <2>7, <2>8, <2>9
<1>3. CASE ~ start
  <2> DEFINE rest == Front(line)
             x == Last(line)
             n == Len(line)
  <2>1. /\ rest \in Seq(Request) /\ x = line[n]
        /\ DOMAIN rest = 1 .. n - 1
        /\ \A i \in DOMAIN rest : rest[i] = line[i] /\ i \in DOMAIN line
    BY <1>1 DEF Front, Last
  <2>2. n \in DOMAIN line /\ n \in Nat
    BY <1>1
  <2> HIDE DEF rest, x, n
  <2>3. x \in ToSet(line) /\ x \in Request
    BY <1>1, <2>1, <2>2 DEF ToSet
  <2>4. \A i \in DOMAIN line : i # n => i \in DOMAIN rest /\ rest[i] = line[i] /\ i < n
    BY <1>1, <2>1 DEF n
  <2>5. \A i \in DOMAIN line : i # n => Earlier(w, line[i], x)
    BY <1>1, <2>1, <2>2, <2>4
  <2>6. \A i \in DOMAIN line : i # n => line[i] # x
    BY <2>5, EarlierFacts
  <2>7. \A i \in DOMAIN rest : i # n
    BY <2>1, <2>2
  <2>8. ToSet(rest) = ToSet(line) \ {x}
    <3>1. \A y \in ToSet(rest) : y \in ToSet(line) /\ y # x
      BY <2>1, <2>6, <2>7 DEF ToSet
    <3>2. \A y \in ToSet(line) : y # x => y \in ToSet(rest)
      BY <2>1, <2>4 DEF ToSet
    <3>3. QED
      BY <3>1, <3>2
  <2>9. \A y \in ToSet(line) \ {x} : Earlier(w, y, x)
    BY <2>1, <2>5 DEF ToSet
  <2>10. LineOK(w, s, k, rest)
    <3>1. \A i, j \in DOMAIN rest : i < j => Earlier(w, rest[i], rest[j])
      BY <1>1, <2>1
    <3>2. QED
      BY <1>1, <2>1, <3>1 DEF LineOK
  <2>11. Shorter(line, start) = rest /\ Next1(line, start) = x
    BY <1>3 DEF Shorter, Next1, rest, x
  <2>12. QED
    BY <1>3, <2>3, <2>8, <2>9, <2>10, <2>11
<1>4. QED
  BY <1>2, <1>3

-----------------------------------------------------------------------------
(* The lines of a queue. *)
LEMMA WithFacts ==
  ASSUME NEW f, NEW k, NEW s
  PROVE  /\ DOMAIN With(f, k, s) = DOMAIN f \cup {k}
         /\ With(f, k, s)[k] = s
         /\ \A x \in DOMAIN f : x # k => With(f, k, s)[x] = f[x]
         /\ DOMAIN Without(f, k) = DOMAIN f \ {k}
         /\ \A x \in DOMAIN f : x # k => Without(f, k)[x] = f[x]
BY DEF With, Without

LEMMA QueueFacts ==
  ASSUME NEW w, NEW s, NEW q, QueueOK(w, s, q)
  PROVE  /\ \A k \in DOMAIN q.lines : k[1] \in Int /\ k[2] \in BOOLEAN /\ k = <<k[1], k[2]>>
         /\ \A x \in Requests(q) :
              /\ x \in Request /\ kind[x].slot = s
              /\ Key(x) \in Busy(q.lines) /\ x \in ToSet(q.lines[Key(x)])
         /\ \A k \in DOMAIN q.lines : \A x \in ToSet(q.lines[k]) : x \in Requests(q) /\ Key(x) = k
         /\ Busy(q.lines) \subseteq DOMAIN q.lines
         /\ Busy(q.lines) = {} <=> Requests(q) = {}
<1>1. \A k \in DOMAIN q.lines : k[1] \in Int /\ k[2] \in BOOLEAN /\ k = <<k[1], k[2]>>
  BY DEF QueueOK
<1>2. Busy(q.lines) \subseteq DOMAIN q.lines
  BY DEF Busy
<1>3. ASSUME NEW k \in DOMAIN q.lines, NEW x \in ToSet(q.lines[k])
      PROVE  /\ x \in Requests(q) /\ Key(x) = k /\ x \in Request /\ kind[x].slot = s
             /\ k \in Busy(q.lines)
  <2>1. x \in Requests(q)
    BY <1>3 DEF Requests
  <2>2. PICK i \in DOMAIN q.lines[k] : x = q.lines[k][i]
    BY <1>3 DEF ToSet
  <2>3. LineOK(w, s, k, q.lines[k])
    BY DEF QueueOK
  <2>4. x \in Request /\ Key(x) = k /\ kind[x].slot = s
    BY <2>2, <2>3 DEF LineOK
  <2>5. q.lines[k] # <<>>
    BY <2>2
  <2>6. QED
    BY <2>1, <2>4, <2>5 DEF Busy
<1>4. \A x \in Requests(q) : \E k \in DOMAIN q.lines : x \in ToSet(q.lines[k])
  BY DEF Requests
<1>5. \A k \in Busy(q.lines) : \E x : x \in ToSet(q.lines[k])
  <2>1. TAKE k \in Busy(q.lines)
  <2>2. q.lines[k] \in Seq(Request) /\ q.lines[k] # <<>>
    BY DEF QueueOK, LineOK, Busy
  <2>3. 1 \in DOMAIN q.lines[k]
    BY <2>2
  <2>4. q.lines[k][1] \in ToSet(q.lines[k])
    BY <2>3 DEF ToSet
  <2>5. QED
    BY <2>4
<1>6. QED
  BY <1>1, <1>2, <1>3, <1>4, <1>5

(* The loop of pop comes to at most one line, none is more urgent, and to  *)
(* none only when nothing is queued.                                       *)
LEMMA TurnFacts ==
  ASSUME NEW w, NEW s, NEW q, QueueOK(w, s, q)
  PROVE  /\ \A k \in Turn(q) :
              /\ k \in DOMAIN q.lines
              /\ \A l \in Busy(q.lines) : k[1] <= l[1]
              /\ k[2] => <<k[1], FALSE>> \notin DOMAIN q.lines
              /\ \A l \in Turn(q) : k = l
         /\ Turn(q) = {} => Requests(q) = {}
<1> DEFINE keys == DOMAIN q.lines
           busy == Busy(q.lines)
           c == IF q.cur \subseteq Prios(keys) THEN q.cur ELSE Least(Prios(busy))
<1>1. /\ \A k \in keys : k[1] \in Int /\ k[2] \in BOOLEAN /\ k = <<k[1], k[2]>>
      /\ busy \subseteq keys /\ (busy = {} <=> Requests(q) = {})
  BY QueueFacts
<1>2. /\ keys \in SUBSET (Int \X BOOLEAN) /\ IsFiniteSet(keys)
      /\ q.cur \subseteq Int /\ (\A a, b \in q.cur : a = b)
      /\ (q.cur = {} => Requests(q) = {})
      /\ \A a \in q.cur, p \in Prios(busy) : a <= p
  BY DEF QueueOK, CurprioLeads
<1>3. busy \in SUBSET (Int \X BOOLEAN) /\ IsFiniteSet(busy)
  BY <1>1, <1>2, FS_Subset
<1>4. /\ Turn(q) = {k \in keys : k[1] \in c /\ (k[2] => <<k[1], FALSE>> \notin keys)}
  BY DEF Turn
<1>5. /\ Prios(keys) \in SUBSET Int
      /\ \A k \in keys : k[1] \in Prios(keys)
      /\ \A p \in Prios(keys) : \E k \in keys : k[1] = p
  BY <1>2, PriosFacts
<1>6. /\ Prios(busy) \in SUBSET Int /\ IsFiniteSet(Prios(busy))
      /\ \A k \in busy : k[1] \in Prios(busy)
      /\ \A p \in Prios(busy) : \E k \in busy : k[1] = p
  BY <1>3, PriosFacts
<1>7. /\ c \subseteq Prios(keys) /\ \A a, b \in c : a = b
      /\ \A a \in c, p \in Prios(busy) : a <= p
      /\ c = {} => Requests(q) = {}
  <2>1. CASE q.cur \subseteq Prios(keys)
    BY <1>2, <2>1
  <2>2. CASE ~ (q.cur \subseteq Prios(keys))
    <3>1. c = Least(Prios(busy))
      BY <2>2
    <3>2. Prios(busy) \subseteq Prios(keys)
      BY <1>1, <1>5, <1>6
    <3>3. CASE Prios(busy) = {} /\ Least(Prios(busy)) = {}
      <4>1. busy = {}
        BY <1>6, <3>3
      <4>2. QED
        BY <1>1, <3>1, <3>3, <4>1
    <3>4. CASE \E a \in Prios(busy) : Least(Prios(busy)) = {a} /\ \A p \in Prios(busy) : a <= p
      BY <3>1, <3>2, <3>4
    <3>5. QED
      BY <1>6, <3>3, <3>4, LeastFacts
  <2>3. QED
    BY <2>1, <2>2
<1> HIDE DEF c, busy, keys
<1>8. ASSUME NEW k \in Turn(q)
      PROVE  /\ k \in keys /\ k[1] \in c /\ (k[2] => <<k[1], FALSE>> \notin keys)
             /\ \A l \in busy : k[1] <= l[1]
  BY <1>4, <1>6, <1>7, <1>8
<1>9. ASSUME NEW k \in Turn(q), NEW l \in Turn(q) PROVE k = l
  <2>1. k[1] = l[1] /\ k = <<k[1], k[2]>> /\ l = <<l[1], l[2]>>
        /\ k[2] \in BOOLEAN /\ l[2] \in BOOLEAN /\ k \in keys /\ l \in keys
    BY <1>1, <1>7, <1>8
  <2>2. (k[2] => <<k[1], FALSE>> # l) /\ (l[2] => <<l[1], FALSE>> # k)
    BY <1>8
  <2>3. CASE k[2] = l[2]
    BY <2>1, <2>3
  <2>4. CASE k[2] # l[2]
    <3>1. \/ k[2] = TRUE /\ l[2] = FALSE
          \/ k[2] = FALSE /\ l[2] = TRUE
      BY <2>1, <2>4
    <3>2. QED
      BY <2>1, <2>2, <3>1
  <2>5. QED
    BY <2>3, <2>4
<1>10. ASSUME c # {} PROVE Turn(q) # {}
  <2>1. PICK a \in c : TRUE
    BY <1>10
  <2>2. PICK k \in keys : k[1] = a
    BY <1>5, <1>7, <2>1
  <2>3. k = <<a, k[2]>> /\ k[2] \in BOOLEAN
    BY <1>1, <2>2
  <2>4. CASE <<a, FALSE>> \in keys
    <3>1. PICK z \in keys : z = <<a, FALSE>>
      BY <2>4
    <3>2. z[1] = a /\ ~ z[2]
      BY <3>1
    <3>3. QED
      BY <1>4, <2>1, <3>2
  <2>5. CASE <<a, FALSE>> \notin keys
    BY <1>4, <2>1, <2>2, <2>5
  <2>6. QED
    BY <2>4, <2>5
<1>11. QED
  BY <1>7, <1>8, <1>9, <1>10 DEF keys, busy

(* A request that is queued joins its line; of one that cannot be stored   *)
(* an empty line may stay.                                                 *)
LEMMA PushFacts ==
  ASSUME NEW w \in Seq(Request), IsInjective(w), NEW r \in Request, r \notin Range(w),
         NEW s, kind[r].slot = s, kind[r].prio \in Int, kind[r].start \in BOOLEAN,
         NEW q, QueueOK(w, s, q), Requests(q) \subseteq Range(w), NEW fits \in BOOLEAN
  PROVE  /\ QueueOK(Append(w, r), s, Push(q, r, fits))
         /\ Requests(Push(q, r, fits)) = Requests(q) \cup (IF fits THEN {r} ELSE {})
         /\ BlanksOf(Push(q, r, fits)) \subseteq
              {k \in DOMAIN q.lines : q.lines[k] = <<>>} \cup (IF fits THEN {} ELSE {Key(r)})
<1> DEFINE key == Key(r)
           old == IF key \in DOMAIN q.lines THEN q.lines[key] ELSE <<>>
           line == IF fits THEN Append(old, r) ELSE old
           lines == With(q.lines, key, line)
           cur == IF fits /\ \A c \in q.cur : kind[r].prio < c THEN {kind[r].prio} ELSE q.cur
           n == Push(q, r, fits)
           v == Append(w, r)
<1>1. n = [lines |-> lines, cur |-> cur] /\ n.lines = lines /\ n.cur = cur
  BY DEF Push
<1>2. /\ key[1] = kind[r].prio /\ key \in Int \X BOOLEAN
  BY DEF Key
<1>3. /\ DOMAIN lines = DOMAIN q.lines \cup {key} /\ lines[key] = line
      /\ \A k \in DOMAIN q.lines : k # key => lines[k] = q.lines[k]
  BY DEF With
<1>4. LineOK(w, s, key, old) /\ ToSet(old) \subseteq Requests(q)
  <2>1. CASE key \in DOMAIN q.lines
    BY <2>1 DEF QueueOK, Requests
  <2>2. CASE key \notin DOMAIN q.lines
    <3>1. old = <<>>
      BY <2>2
    <3>2. QED
      <4> HIDE DEF old
      <4>1. DOMAIN old = {} /\ old \in Seq(Request)
        BY <3>1
      <4>2. QED
        BY <4>1 DEF LineOK, ToSet
  <2>3. QED
    BY <2>1, <2>2
<1>5. Range(old) \subseteq Range(w)
  BY <1>4 DEF Range, ToSet
<1>6. /\ LineOK(v, s, key, line)
      /\ ToSet(line) = ToSet(old) \cup (IF fits THEN {r} ELSE {})
      /\ fits => line # <<>>
  <2>1. CASE fits
    <3> HIDE DEF old, v
    <3>1. /\ LineOK(Append(w, r), s, key, Append(old, r))
          /\ ToSet(Append(old, r)) = ToSet(old) \cup {r} /\ Append(old, r) # <<>>
      BY <1>4, <1>5, JoinsLine
    <3>2. QED
      BY <2>1, <3>1 DEF v
  <2>2. CASE ~ fits
    <3>1. line = old
      BY <2>2
    <3> HIDE DEF old, line
    <3>2. LineOK(Append(w, r), s, key, old)
      BY <1>4, LineGrows
    <3>3. QED
      BY <2>2, <3>1, <3>2
  <2>3. QED
    BY <2>1, <2>2
<1>7. \A k \in DOMAIN q.lines : LineOK(v, s, k, q.lines[k])
  <2>1. TAKE k \in DOMAIN q.lines
  <2>2. LineOK(w, s, k, q.lines[k])
    BY DEF QueueOK
  <2>3. QED
    BY <2>2, LineGrows
<1>8. /\ DOMAIN q.lines \subseteq Int \X BOOLEAN /\ IsFiniteSet(DOMAIN q.lines)
      /\ q.cur \subseteq Int /\ (\A c, d \in q.cur : c = d)
      /\ (q.cur = {} => Requests(q) = {})
      /\ \A c \in q.cur, p \in Prios(Busy(q.lines)) : c <= p
  BY DEF QueueOK, CurprioLeads
<1>9. Requests(n) = Requests(q) \cup (IF fits THEN {r} ELSE {})
  <2> HIDE DEF n, lines, line, key
  <2>1. \A x \in Requests(n) : \E k \in DOMAIN lines : x \in ToSet(lines[k])
    BY <1>1 DEF Requests
  <2>2. \A k \in DOMAIN lines : \A x \in ToSet(lines[k]) : x \in Requests(n)
    BY <1>1 DEF Requests
  <2>3. \A x \in Requests(q) : \E k \in DOMAIN q.lines : x \in ToSet(q.lines[k])
    BY DEF Requests
  <2>4. \A k \in DOMAIN q.lines : \A x \in ToSet(q.lines[k]) : x \in Requests(q)
    BY DEF Requests
  <2>5. \A x \in Requests(n) : x \in Requests(q) \/ (fits /\ x = r)
    BY <1>3, <1>4, <1>6, <2>1, <2>4
  <2>6. \A x \in Requests(q) : x \in Requests(n)
    <3>1. SUFFICES ASSUME NEW x \in Requests(q) PROVE x \in Requests(n)
      OBVIOUS
    <3>2. PICK k \in DOMAIN q.lines : x \in ToSet(q.lines[k])
      BY <2>3
    <3>3. k = key => old = q.lines[k]
      BY <3>2
    <3>4. x \in ToSet(lines[k]) /\ k \in DOMAIN lines
      BY <1>3, <1>6, <3>2, <3>3
    <3>5. QED
      BY <2>2, <3>4
  <2>7. fits => r \in Requests(n)
    BY <1>3, <1>6, <2>2
  <2>8. QED
    BY <2>5, <2>6, <2>7
<1>10. BlanksOf(n) \subseteq
         {k \in DOMAIN q.lines : q.lines[k] = <<>>} \cup (IF fits THEN {} ELSE {key})
  <2>1. \A k \in BlanksOf(n) : k \in DOMAIN lines /\ lines[k] = <<>>
    BY <1>1, <1>3 DEF BlanksOf
  <2> HIDE DEF n, lines, line, key
  <2>2. QED
    BY <1>3, <1>6, <2>1
<1>11. \A p \in Prios(Busy(lines)) : p \in Prios(Busy(q.lines)) \/ (fits /\ p = kind[r].prio)
  <2> HIDE DEF lines, line, key
  <2>1. SUFFICES ASSUME NEW p \in Prios(Busy(lines))
                 PROVE  p \in Prios(Busy(q.lines)) \/ (fits /\ p = kind[r].prio)
    OBVIOUS
  <2>2. PICK k \in DOMAIN lines : lines[k] # <<>> /\ p = k[1]
    BY DEF Prios, Busy
  <2>3. CASE k \in DOMAIN q.lines /\ lines[k] = q.lines[k]
    <3>1. k \in Busy(q.lines)
      BY <2>2, <2>3 DEF Busy
    <3>2. QED
      BY <2>2, <3>1 DEF Prios
  <2>4. CASE k = key /\ fits
    BY <1>2, <2>2, <2>4
  <2>5. CASE k = key /\ ~ fits
    <3>1. lines[k] = old
      BY <1>3, <2>5 DEF line
    <3>2. k \in DOMAIN q.lines /\ old = q.lines[k]
      BY <2>2, <2>5, <3>1
    <3>3. QED
      BY <2>3, <3>1, <3>2
  <2>6. QED
    BY <1>3, <2>2, <2>3, <2>4, <2>5
<1>12. cur \subseteq Int /\ \A c, d \in cur : c = d
  BY <1>8
<1>13. (cur = {} => Requests(n) = {}) /\ \A c \in cur, p \in Prios(Busy(lines)) : c <= p
  <2>1. CASE ~ fits
    <3>1. cur = q.cur
      BY <2>1
    <3> HIDE DEF cur, n, lines
    <3>2. Requests(n) = Requests(q)
      BY <1>9, <2>1
    <3>3. QED
      BY <1>8, <1>11, <2>1, <3>1, <3>2
  <2>2. CASE fits /\ \A c \in q.cur : kind[r].prio < c
    <3>1. cur = {kind[r].prio}
      BY <2>2
    <3> HIDE DEF cur, n, lines
    <3>2. ASSUME NEW p \in Prios(Busy(q.lines)) PROVE kind[r].prio <= p
      <4>1. Busy(q.lines) # {}
        BY <3>2 DEF Prios
      <4>2. q.cur # {}
        BY <1>8, <4>1, QueueFacts
      <4>3. PICK c \in q.cur : c \in Int
        BY <1>8, <4>2
      <4>4. p \in Int
        BY <3>2, QueueFacts DEF Prios
      <4>5. QED
        BY <1>8, <2>2, <4>3, <4>4
    <3>3. \A p \in Prios(Busy(lines)) : kind[r].prio <= p
      BY <1>11, <3>2
    <3>4. QED
      BY <3>1, <3>3
  <2>3. CASE fits /\ ~ \A c \in q.cur : kind[r].prio < c
    <3>1. cur = q.cur
      BY <2>3
    <3> HIDE DEF cur, n, lines
    <3>2. PICK c \in q.cur : ~ (kind[r].prio < c)
      BY <2>3
    <3>3. \A d \in q.cur : d <= kind[r].prio
      BY <1>8, <3>2
    <3>4. QED
      BY <1>8, <1>11, <3>1, <3>2, <3>3
  <2>4. QED
    BY <2>1, <2>2, <2>3
<1>14. DOMAIN lines \subseteq Int \X BOOLEAN /\ IsFiniteSet(DOMAIN lines)
  BY <1>2, <1>3, <1>8, FS_AddElement
<1>15. \A k \in DOMAIN lines : LineOK(v, s, k, lines[k])
  <2> HIDE DEF v, lines, line, key
  <2>1. QED
    BY <1>3, <1>6, <1>7
<1>16. QueueOK(v, s, n)
  <2>1. n = [lines |-> n.lines, cur |-> n.cur]
    BY <1>1
  <2> HIDE DEF v, n, lines, cur
  <2>2. CurprioLeads(n)
    BY <1>1, <1>13 DEF CurprioLeads
  <2>3. QED
    BY <1>1, <1>12, <1>14, <1>15, <2>1, <2>2 DEF QueueOK
<1>17. QED
  BY <1>9, <1>10, <1>16

(* The order that a queue promises: of the requests of a slot that came in *)
(* the order w, x goes before y.                                           *)
Sooner(w, x, y) ==
  \/ kind[x].prio < kind[y].prio
  \/ /\ kind[x].prio = kind[y].prio
     /\ \/ ~ kind[x].start /\ kind[y].start
        \/ ~ kind[x].start /\ ~ kind[y].start /\ Earlier(w, y, x)
        \/ kind[x].start /\ kind[y].start /\ Earlier(w, x, y)

(* pop takes the request that goes before all others, or closes a line     *)
(* that is empty.                                                          *)
LEMMA PopLineFacts ==
  ASSUME NEW w \in Seq(Request), IsInjective(w), NEW s, NEW q, QueueOK(w, s, q),
         NEW k \in Turn(q)
  PROVE  /\ QueueOK(w, s, PopLine(q, k))
         /\ q.lines[k] = <<>> =>
              /\ Requests(PopLine(q, k)) = Requests(q)
              /\ k \in BlanksOf(q) /\ k \notin DOMAIN PopLine(q, k).lines
         /\ q.lines[k] # <<>> =>
              /\ Next1(q.lines[k], k[2]) \in Requests(q)
              /\ Requests(PopLine(q, k)) = Requests(q) \ {Next1(q.lines[k], k[2])}
              /\ \A y \in Requests(q) \ {Next1(q.lines[k], k[2])} :
                   Sooner(w, Next1(q.lines[k], k[2]), y)
         /\ \A l \in DOMAIN PopLine(q, k).lines :
              PopLine(q, k).lines[l] = <<>> => l \in BlanksOf(q)
<1> DEFINE line == q.lines[k]
           rest == Shorter(line, k[2])
           left == IF rest = <<>> THEN Without(q.lines, k) ELSE With(q.lines, k, rest)
           cur == IF rest = <<>> /\ (k[2] \/ \A l \in DOMAIN q.lines : ~ l[2])
                  THEN Least(Prios(Busy(left))) ELSE {k[1]}
           n == PopLine(q, k)
           x == Next1(line, k[2])
<1>1. n = [lines |-> left, cur |-> cur] /\ n.lines = left /\ n.cur = cur
  BY DEF PopLine
<1>2. /\ k \in DOMAIN q.lines
      /\ \A l \in Busy(q.lines) : k[1] <= l[1]
      /\ k[2] => <<k[1], FALSE>> \notin DOMAIN q.lines
  BY TurnFacts
<1>3. /\ \A l \in DOMAIN q.lines : l[1] \in Int /\ l[2] \in BOOLEAN /\ l = <<l[1], l[2]>>
      /\ \A y \in Requests(q) :
              /\ y \in Request /\ kind[y].slot = s
              /\ Key(y) \in Busy(q.lines) /\ y \in ToSet(q.lines[Key(y)])
      /\ \A l \in DOMAIN q.lines : \A y \in ToSet(q.lines[l]) : y \in Requests(q) /\ Key(y) = l
      /\ Busy(q.lines) \subseteq DOMAIN q.lines
  BY QueueFacts
<1>4. /\ DOMAIN q.lines \subseteq Int \X BOOLEAN /\ IsFiniteSet(DOMAIN q.lines)
      /\ \A l \in DOMAIN q.lines : LineOK(w, s, l, q.lines[l])
  BY DEF QueueOK
<1>5. line \in Seq(Request) /\ LineOK(w, s, k, line)
  BY <1>2, <1>4 DEF LineOK
<1>6. line = <<>> => rest = <<>>
  BY DEF Shorter
<1>7. line # <<>> =>
        /\ LineOK(w, s, k, rest)
        /\ x \in ToSet(line) /\ x \in Request
        /\ ToSet(rest) = ToSet(line) \ {x}
        /\ \A y \in ToSet(line) \ {x} : IF k[2] THEN Earlier(w, x, y) ELSE Earlier(w, y, x)
  <2> HIDE DEF line
  <2>1. k[2] \in BOOLEAN
    BY <1>2, <1>3
  <2>2. QED
    BY <1>5, <2>1, LeavesLine
<1>8. /\ DOMAIN left = DOMAIN q.lines \ (IF rest = <<>> THEN {k} ELSE {})
      /\ \A l \in DOMAIN q.lines : l # k => left[l] = q.lines[l]
      /\ rest # <<>> => left[k] = rest
  <2> HIDE DEF rest
  <2>1. QED
    BY <1>2 DEF With, Without
<1>9. ToSet(<<>>) = {}
  BY DEF ToSet
<1>10. /\ \A y \in Requests(n) : \E l \in DOMAIN left : y \in ToSet(left[l])
       /\ \A l \in DOMAIN left : \A y \in ToSet(left[l]) : y \in Requests(n)
  <2> HIDE DEF n, left
  <2>1. QED
    BY <1>1 DEF Requests
<1>11. \A l \in DOMAIN q.lines : q.lines[l] = <<>> => l \in BlanksOf(q)
  BY DEF BlanksOf
<1>12. \A l \in DOMAIN left : left[l] = <<>> => l \in BlanksOf(q)
  <2> HIDE DEF left, rest
  <2>1. QED
    BY <1>2, <1>8, <1>11
<1>13. DOMAIN left \subseteq DOMAIN q.lines /\ IsFiniteSet(DOMAIN left)
       /\ \A l \in DOMAIN left : LineOK(w, s, l, left[l])
  <2> HIDE DEF left, rest, line
  <2>1. DOMAIN left \subseteq DOMAIN q.lines
    BY <1>8
  <2>2. IsFiniteSet(DOMAIN left)
    BY <1>4, <2>1, FS_Subset
  <2>3. \A l \in DOMAIN left : LineOK(w, s, l, left[l])
    BY <1>4, <1>6, <1>7, <1>8
  <2>4. QED
    BY <2>1, <2>2, <2>3
<1>14. Busy(left) \subseteq Busy(q.lines)
  <2> HIDE DEF left, rest
  <2>1. \A l \in DOMAIN left : left[l] # <<>> => l \in DOMAIN q.lines /\ q.lines[l] # <<>>
    BY <1>2, <1>6, <1>8 DEF line
  <2>2. QED
    BY <2>1 DEF Busy
<1>15. Requests(n) = {} \/ Busy(left) # {}
  <2> HIDE DEF left, n
  <2>1. \A l \in DOMAIN left : l \notin Busy(left) => left[l] = <<>>
    BY DEF Busy
  <2>2. QED
    BY <1>9, <1>10, <2>1
<1>16. cur \subseteq Int /\ (\A c, d \in cur : c = d)
       /\ (cur = {} => Requests(n) = {})
       /\ \A c \in cur, p \in Prios(Busy(left)) : c <= p
  <2> HIDE DEF left, n, rest
  <2>1. Busy(left) \in SUBSET (Int \X BOOLEAN) /\ IsFiniteSet(Busy(left))
    <3>1. Busy(left) \subseteq DOMAIN left
      BY DEF Busy
    <3>2. QED
      BY <1>4, <1>13, <3>1, FS_Subset
  <2>2. /\ Prios(Busy(left)) \in SUBSET Int /\ IsFiniteSet(Prios(Busy(left)))
        /\ \A l \in Busy(left) : l[1] \in Prios(Busy(left))
        /\ \A p \in Prios(Busy(left)) : \E l \in Busy(left) : l[1] = p
    BY <2>1, PriosFacts
  <2>3. CASE cur = {k[1]}
    <3> HIDE DEF cur
    <3>1. \A p \in Prios(Busy(left)) : k[1] <= p
      BY <1>2, <1>14, <2>2
    <3>2. QED
      BY <1>2, <1>3, <2>3, <3>1
  <2>4. CASE cur = Least(Prios(Busy(left)))
    <3> HIDE DEF cur
    <3>1. CASE Prios(Busy(left)) = {} /\ Least(Prios(Busy(left))) = {}
      BY <1>15, <2>2, <2>4, <3>1
    <3>2. CASE \E c \in Prios(Busy(left)) :
                 Least(Prios(Busy(left))) = {c} /\ \A p \in Prios(Busy(left)) : c <= p
      BY <2>2, <2>4, <3>2
    <3>3. QED
      BY <2>2, <3>1, <3>2, LeastFacts
  <2>5. QED
    BY <2>3, <2>4
<1>17. QueueOK(w, s, n)
  <2>1. n = [lines |-> n.lines, cur |-> n.cur]
    BY <1>1
  <2> HIDE DEF n, left, cur
  <2>2. CurprioLeads(n)
    BY <1>1, <1>16 DEF CurprioLeads
  <2>3. QED
    BY <1>1, <1>4, <1>13, <1>16, <2>1, <2>2 DEF QueueOK
<1>18. ASSUME line = <<>>
       PROVE  Requests(n) = Requests(q) /\ k \in BlanksOf(q) /\ k \notin DOMAIN n.lines
  <2> HIDE DEF n, left, rest
  <2>1. k \in BlanksOf(q)
    BY <1>2, <1>11, <1>18
  <2>2. k \notin DOMAIN n.lines
    BY <1>1, <1>6, <1>8, <1>18
  <2>3. \A y \in Requests(q) : Key(y) # k /\ Key(y) \in DOMAIN left
    BY <1>3, <1>6, <1>8, <1>18 DEF Busy
  <2>4. \A y \in Requests(q) : y \in Requests(n)
    BY <1>3, <1>8, <1>10, <2>3
  <2>5. \A y \in Requests(n) : y \in Requests(q)
    BY <1>3, <1>6, <1>8, <1>10, <1>18
  <2>6. QED
    BY <2>1, <2>2, <2>4, <2>5
<1>19. ASSUME line # <<>>
       PROVE  /\ x \in Requests(q) /\ Requests(n) = Requests(q) \ {x}
              /\ \A y \in Requests(q) \ {x} : Sooner(w, x, y)
  <2> HIDE DEF n, left, rest, x
  <2>1. x \in Requests(q) /\ Key(x) = k
    BY <1>2, <1>3, <1>7, <1>19
  <2>2. \A y \in Requests(q) \ {x} : y \in Requests(n)
    <3>1. SUFFICES ASSUME NEW y \in Requests(q) \ {x} PROVE y \in Requests(n)
      OBVIOUS
    <3>2. CASE Key(y) = k
      <4>1. y \in ToSet(rest)
        BY <1>3, <1>7, <1>19, <3>2
      <4>2. rest # <<>>
        BY <1>9, <4>1
      <4>3. QED
        BY <1>2, <1>8, <1>10, <4>1, <4>2
    <3>3. CASE Key(y) # k
      BY <1>3, <1>8, <1>10, <3>3
    <3>4. QED
      BY <3>2, <3>3
  <2>3. \A y \in Requests(n) : y \in Requests(q) /\ y # x
    <3>1. SUFFICES ASSUME NEW y \in Requests(n) PROVE y \in Requests(q) /\ y # x
      OBVIOUS
    <3>2. PICK l \in DOMAIN left : y \in ToSet(left[l])
      BY <1>10
    <3>3. CASE l = k
      BY <1>2, <1>3, <1>7, <1>8, <1>19, <3>2, <3>3
    <3>4. CASE l # k
      BY <1>3, <1>8, <2>1, <3>2, <3>4
    <3>5. QED
      BY <3>3, <3>4
  <2>4. ASSUME NEW y \in Requests(q) \ {x} PROVE Sooner(w, x, y)
    <3>1. /\ kind[x].prio = k[1] /\ kind[x].start = k[2]
          /\ kind[y].prio = Key(y)[1] /\ kind[y].start = Key(y)[2]
      BY <2>1 DEF Key
    <3>2. /\ Key(y) \in DOMAIN q.lines /\ Key(y) \in Busy(q.lines)
          /\ k[1] \in Int /\ Key(y)[1] \in Int /\ k[1] <= Key(y)[1]
          /\ k[2] \in BOOLEAN /\ Key(y)[2] \in BOOLEAN
      BY <1>2, <1>3, <2>4
    <3>3. CASE k[1] < Key(y)[1]
      BY <3>1, <3>3 DEF Sooner
    <3>4. CASE k[1] = Key(y)[1] /\ k[2] # Key(y)[2]
      <4>1. k[2] => Key(y)[2]
        <5>1. Key(y) = <<k[1], Key(y)[2]>>
          BY <1>3, <3>2, <3>4
        <5>2. QED
          BY <1>2, <3>2, <5>1
      <4>2. QED
        BY <3>1, <3>2, <3>4, <4>1 DEF Sooner
    <3>5. CASE k[1] = Key(y)[1] /\ k[2] = Key(y)[2]
      <4>1. Key(y) = k
        BY <1>2, <1>3, <3>2, <3>5
      <4>2. y \in ToSet(line) \ {x}
        BY <1>3, <2>4, <4>1
      <4>3. IF k[2] THEN Earlier(w, x, y) ELSE Earlier(w, y, x)
        BY <1>7, <1>19, <4>2
      <4>4. QED
        BY <3>1, <3>5, <4>3 DEF Sooner
    <3>6. QED
      BY <3>2, <3>3, <3>4, <3>5
  <2>5. QED
    BY <2>1, <2>2, <2>3, <2>4
<1>20. QED
  <2> HIDE DEF n, left, rest, x
  <2>1. QED
    BY <1>1, <1>12, <1>17, <1>18, <1>19 DEF n, x, line

LEMMA PopFacts ==
  ASSUME NEW w \in Seq(Request), IsInjective(w), NEW s, NEW q, QueueOK(w, s, q)
  PROVE  /\ QueueOK(w, s, Pop(q))
         /\ Out(q) \subseteq Requests(q) /\ \A x, y \in Out(q) : x = y
         /\ Requests(Pop(q)) = Requests(q) \ Out(q)
         /\ \A x \in Out(q), y \in Requests(q) \ Out(q) : Sooner(w, x, y)
         /\ Requests(Pop(q)) # {} => BlanksOf(Pop(q)) \subseteq BlanksOf(q)
         /\ Out(q) = {} => \E b \in BlanksOf(q) :
                             Requests(Pop(q)) # {} => b \notin BlanksOf(Pop(q))
<1> DEFINE n == Pop(q)
<1>1. Requests(n) # {} => BlanksOf(n) = {k \in DOMAIN n.lines : n.lines[k] = <<>>}
  BY DEF BlanksOf, Requests
<1>2. CASE Turn(q) = {}
  <2>1. q = [lines |-> q.lines, cur |-> q.cur] /\ CurprioLeads(q)
    BY DEF QueueOK
  <2>2. n = [lines |-> q.lines, cur |-> {}] /\ n.lines = q.lines /\ n.cur = {}
    <3>1. n = [q EXCEPT !.cur = {}]
      BY <1>2 DEF Pop
    <3>2. QED
      BY <2>1, <3>1
  <2> HIDE DEF n
  <2>3. Requests(q) = {} /\ Requests(n) = Requests(q)
    <3>1. Requests(q) = {}
      BY <1>2, TurnFacts
    <3>2. Requests(n) = Requests(q)
      BY <2>2 DEF Requests
    <3>3. QED
      BY <3>1, <3>2
  <2>4. Out(q) = {}
    BY <1>2 DEF Out
  <2>5. QueueOK(w, s, n)
    <3>1. CurprioLeads(n)
      BY <2>2, <2>3 DEF CurprioLeads
    <3>2. QED
      BY <2>2, <3>1 DEF QueueOK
  <2>6. BlanksOf(q) # {}
    <3>1. CASE DOMAIN q.lines = {}
      BY <3>1 DEF BlanksOf
    <3>2. CASE DOMAIN q.lines # {}
      <4>1. Busy(q.lines) = {}
        BY <2>3, QueueFacts
      <4>2. QED
        BY <3>2, <4>1 DEF BlanksOf, Busy
    <3>3. QED
      BY <3>1, <3>2
  <2>7. QED
    BY <2>3, <2>4, <2>5, <2>6 DEF n
<1>3. ASSUME NEW k \in Turn(q)
      PROVE  /\ n = PopLine(q, k)
             /\ Out(q) = IF q.lines[k] = <<>> THEN {} ELSE {Next1(q.lines[k], k[2])}
  <2>1. /\ k \in DOMAIN q.lines /\ \A l \in Turn(q) : l = k
    BY <1>3, TurnFacts
  <2>2. Turn(q) = {k}
    BY <1>3, <2>1
  <2>3. n = PopLine(q, k)
    <3>1. {PopLine(q, l) : l \in Turn(q)} = {PopLine(q, k)}
      BY <2>2
    <3>2. QED
      BY <2>2, <3>1 DEF Pop
  <2>4. CASE q.lines[k] = <<>>
    <3>1. Turn(q) \cap Busy(q.lines) = {}
      BY <2>2, <2>4 DEF Busy
    <3>2. QED
      BY <2>3, <2>4, <3>1 DEF Out
  <2>5. CASE q.lines[k] # <<>>
    <3>1. Turn(q) \cap Busy(q.lines) = {k}
      BY <2>1, <2>2, <2>5 DEF Busy
    <3>2. Out(q) = {Next1(q.lines[l], l[2]) : l \in {k}}
      BY <3>1 DEF Out, Next1
    <3>3. Out(q) = {Next1(q.lines[k], k[2])}
      BY <3>2
    <3>4. QED
      BY <2>3, <2>5, <3>3
  <2>6. QED
    BY <2>4, <2>5
<1>4. ASSUME NEW k \in Turn(q)
      PROVE  /\ QueueOK(w, s, n)
             /\ Out(q) \subseteq Requests(q) /\ \A x, y \in Out(q) : x = y
             /\ Requests(n) = Requests(q) \ Out(q)
             /\ \A x \in Out(q), y \in Requests(q) \ Out(q) : Sooner(w, x, y)
             /\ Requests(n) # {} => BlanksOf(n) \subseteq BlanksOf(q)
             /\ Out(q) = {} => \E b \in BlanksOf(q) : Requests(n) # {} => b \notin BlanksOf(n)
  <2> DEFINE m == PopLine(q, k)
             x == Next1(q.lines[k], k[2])
  <2>1. /\ QueueOK(w, s, m)
        /\ q.lines[k] = <<>> =>
              Requests(m) = Requests(q) /\ k \in BlanksOf(q) /\ k \notin DOMAIN m.lines
        /\ q.lines[k] # <<>> =>
              /\ x \in Requests(q) /\ Requests(m) = Requests(q) \ {x}
              /\ \A y \in Requests(q) \ {x} : Sooner(w, x, y)
        /\ \A l \in DOMAIN m.lines : m.lines[l] = <<>> => l \in BlanksOf(q)
    BY <1>4, PopLineFacts
  <2>2. n = m /\ Out(q) = IF q.lines[k] = <<>> THEN {} ELSE {x}
    BY <1>3
  <2> HIDE DEF m, x, n
  <2>3. Requests(n) # {} => BlanksOf(n) \subseteq BlanksOf(q)
    BY <1>1, <2>1, <2>2
  <2>4. CASE q.lines[k] = <<>>
    BY <1>1, <2>1, <2>2, <2>3, <2>4
  <2>5. CASE q.lines[k] # <<>>
    BY <2>1, <2>2, <2>3, <2>5
  <2>6. QED
    BY <2>4, <2>5
<1>5. QED
  BY <1>2, <1>4

LEMMA ReopenFacts ==
  ASSUME NEW w, NEW s, NEW q, QueueOK(w, s, q)
  PROVE  /\ QueueOK(w, s, Reopened(q, Prios(DOMAIN q.lines)))
         /\ Requests(Reopened(q, Prios(DOMAIN q.lines))) = Requests(q)
         /\ BlanksOf(Reopened(q, Prios(DOMAIN q.lines))) # {} =>
              /\ BlanksOf(Reopened(q, Prios(DOMAIN q.lines))) = {<<>>}
              /\ BlanksOf(q) # {}
<1> DEFINE prios == Prios(DOMAIN q.lines)
           files == {k \in Busy(q.lines) : k[1] \in prios}
           lines == [k \in files |-> q.lines[k]]
           n == Reopened(q, prios)
<1>1. n = [lines |-> lines, cur |-> Least(prios)] /\ n.lines = lines /\ n.cur = Least(prios)
  BY DEF Reopened
<1>2. /\ DOMAIN q.lines \in SUBSET (Int \X BOOLEAN) /\ IsFiniteSet(DOMAIN q.lines)
      /\ \A k \in DOMAIN q.lines : LineOK(w, s, k, q.lines[k])
  BY DEF QueueOK
<1>3. Busy(q.lines) \subseteq DOMAIN q.lines /\ (Busy(q.lines) = {} <=> Requests(q) = {})
  BY QueueFacts
<1>4. /\ prios \in SUBSET Int /\ IsFiniteSet(prios)
      /\ \A k \in DOMAIN q.lines : k[1] \in prios
      /\ \A p \in prios : \E k \in DOMAIN q.lines : k[1] = p
  BY <1>2, PriosFacts
<1>5. files = Busy(q.lines)
  BY <1>3, <1>4
<1>6. DOMAIN lines = Busy(q.lines) /\ \A k \in Busy(q.lines) : lines[k] = q.lines[k]
  BY <1>5
<1> HIDE DEF files, lines, prios, n
<1>7. Busy(lines) = Busy(q.lines)
  BY <1>6 DEF Busy
<1>8. Requests(n) = Requests(q)
  <2>1. \A x \in Requests(n) : \E k \in Busy(q.lines) : x \in ToSet(q.lines[k])
    BY <1>1, <1>6 DEF Requests
  <2>2. \A k \in Busy(q.lines) : \A x \in ToSet(q.lines[k]) : x \in Requests(n)
    BY <1>1, <1>6 DEF Requests
  <2>3. /\ \A x \in Requests(q) : Key(x) \in Busy(q.lines) /\ x \in ToSet(q.lines[Key(x)])
        /\ \A k \in DOMAIN q.lines : \A x \in ToSet(q.lines[k]) : x \in Requests(q)
    BY QueueFacts
  <2>4. QED
    BY <1>3, <2>1, <2>2, <2>3
<1>9. \A p \in Prios(Busy(lines)) : p \in prios
  BY <1>3, <1>4, <1>7 DEF Prios
<1>10. /\ n.cur \subseteq Int /\ (\A c, d \in n.cur : c = d)
       /\ (n.cur = {} => prios = {})
       /\ \A c \in n.cur, p \in prios : c <= p
  <2>1. CASE prios = {} /\ Least(prios) = {}
    BY <1>1, <2>1
  <2>2. CASE \E c \in prios : Least(prios) = {c} /\ \A p \in prios : c <= p
    BY <1>1, <1>4, <2>2
  <2>3. QED
    BY <1>4, <2>1, <2>2, LeastFacts
<1>11. CurprioLeads(n)
  <2>1. prios = {} => Requests(q) = {}
    BY <1>3, <1>4
  <2>2. QED
    BY <1>1, <1>8, <1>9, <1>10, <2>1 DEF CurprioLeads
<1>12. QueueOK(w, s, n)
  <2>1. n = [lines |-> n.lines, cur |-> n.cur]
    BY <1>1
  <2>2. IsFiniteSet(Busy(q.lines))
    BY <1>2, <1>3, FS_Subset
  <2>3. QED
    BY <1>1, <1>2, <1>3, <1>6, <1>10, <1>11, <2>1, <2>2 DEF QueueOK
<1>13. ASSUME BlanksOf(n) # {} PROVE BlanksOf(n) = {<<>>} /\ BlanksOf(q) # {}
  <2>1. \A k \in DOMAIN lines : lines[k] # <<>>
    BY <1>6 DEF Busy
  <2>2. DOMAIN lines = {}
    BY <1>1, <1>13, <2>1 DEF BlanksOf
  <2>3. BlanksOf(n) = {<<>>}
    BY <1>1, <2>2 DEF BlanksOf
  <2>4. \A k \in DOMAIN q.lines : q.lines[k] = <<>>
    BY <1>6, <2>2 DEF Busy
  <2>5. BlanksOf(q) # {}
    BY <2>4 DEF BlanksOf
  <2>6. QED
    BY <2>3, <2>5
<1>14. QED
  BY <1>8, <1>12, <1>13 DEF n, prios

LEMMA QueueGrows ==
  ASSUME NEW w \in Seq(Request), IsInjective(w), NEW r \in Request, r \notin Range(w),
         NEW s, NEW q, QueueOK(w, s, q)
  PROVE  QueueOK(Append(w, r), s, q)
<1>1. \A k \in DOMAIN q.lines : LineOK(Append(w, r), s, k, q.lines[k])
  <2>1. TAKE k \in DOMAIN q.lines
  <2>2. LineOK(w, s, k, q.lines[k])
    BY DEF QueueOK
  <2>3. QED
    BY <2>2, LineGrows
<1>2. QED
  BY <1>1 DEF QueueOK

-----------------------------------------------------------------------------
(* The queues of the slots. *)
LEMMA StoreFacts ==
  ASSUME NEW w, NEW store, StoreOK(w, store)
  PROVE  /\ \A x \in Contents(store) :
              /\ x \in Request /\ kind[x].slot \in DOMAIN store.pqueues
              /\ x \in Requests(store.pqueues[kind[x].slot])
         /\ \A s \in DOMAIN store.pqueues : \A x \in Requests(store.pqueues[s]) :
              x \in Contents(store) /\ kind[x].slot = s
         /\ \A b \in Blanks(store) :
              b[1] \in DOMAIN store.pqueues /\ b = <<b[1], b[2]>>
              /\ b[2] \in BlanksOf(store.pqueues[b[1]])
         /\ \A s \in DOMAIN store.pqueues : \A k \in BlanksOf(store.pqueues[s]) :
              <<s, k>> \in Blanks(store)
<1>1. \A s \in DOMAIN store.pqueues : \A x \in Requests(store.pqueues[s]) :
         x \in Contents(store) /\ kind[x].slot = s /\ x \in Request
  <2>1. TAKE s \in DOMAIN store.pqueues
  <2>2. QueueOK(w, s, store.pqueues[s])
    BY DEF StoreOK
  <2>3. \A x \in Requests(store.pqueues[s]) : x \in Contents(store)
    BY DEF Contents
  <2>4. QED
    BY <2>2, <2>3, QueueFacts
<1>2. \A x \in Contents(store) : \E s \in DOMAIN store.pqueues : x \in Requests(store.pqueues[s])
  BY DEF Contents
<1>3. \A b \in Blanks(store) :
         /\ b[1] \in DOMAIN store.pqueues /\ b = <<b[1], b[2]>>
         /\ b[2] \in BlanksOf(store.pqueues[b[1]])
  BY DEF Blanks
<1>4. \A s \in DOMAIN store.pqueues : \A k \in BlanksOf(store.pqueues[s]) :
         <<s, k>> \in Blanks(store)
  BY DEF Blanks
<1>5. QED
  BY <1>1, <1>2, <1>3, <1>4

(* What pushing does to the queues of a store. *)
LEMMA PushSlotFacts ==
  ASSUME NEW w \in Seq(Request), IsInjective(w), NEW r \in Request, r \notin Range(w),
         kind[r] \in Kind, NEW store, StoreOK(w, store), Contents(store) \subseteq Range(w),
         NEW fits \in BOOLEAN
  PROVE  /\ StoreOK(Append(w, r), PushSlot(store, r, fits))
         /\ Contents(PushSlot(store, r, fits)) = Contents(store) \cup (IF fits THEN {r} ELSE {})
         /\ Blanks(PushSlot(store, r, fits)) \subseteq
              Blanks(store) \cup (IF fits THEN {} ELSE {<<kind[r].slot, Key(r)>>})
<1> DEFINE s == kind[r].slot
           slots == DOMAIN store.pqueues
           q == IF s \in slots THEN store.pqueues[s] ELSE EmptyQueue
           p == Push(q, r, fits)
           queues == With(store.pqueues, s, p)
           n == PushSlot(store, r, fits)
           v == Append(w, r)
<1>1. /\ s \in Nat \ {0} /\ kind[r].prio \in Int /\ kind[r].start \in BOOLEAN
  BY DEF Kind
<1>2. /\ store = [pqueues |-> store.pqueues, last |-> store.last] /\ slots \subseteq Nat \ {0}
      /\ \A t \in slots : QueueOK(w, t, store.pqueues[t])
  BY DEF StoreOK
<1>3. n = [pqueues |-> queues, last |-> store.last] /\ n.pqueues = queues
  <2>1. n = [store EXCEPT !.pqueues = With(@, s, p)]
    BY DEF PushSlot
  <2> HIDE DEF p, s, n
  <2>2. QED
    BY <1>2, <2>1
<1>4. DOMAIN queues = slots \cup {s} /\ queues[s] = p
      /\ \A t \in slots : t # s => queues[t] = store.pqueues[t]
  BY DEF With
<1>5. /\ QueueOK(w, s, q) /\ Requests(q) \subseteq Contents(store)
      /\ s \notin slots => Requests(q) = {} /\ DOMAIN q.lines = {}
      /\ s \in slots => q = store.pqueues[s]
  <2>1. CASE s \in slots
    <3>1. q = store.pqueues[s]
      BY <2>1
    <3>2. Requests(store.pqueues[s]) \subseteq Contents(store)
      BY <2>1 DEF Contents
    <3>3. QED
      BY <1>2, <2>1, <3>1, <3>2
  <2>2. CASE s \notin slots
    <3>1. q = [lines |-> <<>>, cur |-> {}]
      BY <2>2 DEF EmptyQueue
    <3> HIDE DEF q, s, slots
    <3>2. q.lines = <<>> /\ q.cur = {} /\ DOMAIN q.lines = {}
      BY <3>1
    <3>3. Requests(q) = {} /\ Busy(q.lines) = {}
      BY <3>2 DEF Requests, Busy
    <3>4. CurprioLeads(q)
      BY <3>2, <3>3 DEF CurprioLeads
    <3>5. QueueOK(w, s, q)
      BY <3>1, <3>2, <3>4, FS_EmptySet DEF QueueOK
    <3>6. QED
      BY <2>2, <3>2, <3>3, <3>5
  <2>3. QED
    BY <2>1, <2>2
<1>6. /\ QueueOK(v, s, p)
      /\ Requests(p) = Requests(q) \cup (IF fits THEN {r} ELSE {})
      /\ BlanksOf(p) \subseteq
           {k \in DOMAIN q.lines : q.lines[k] = <<>>} \cup (IF fits THEN {} ELSE {Key(r)})
  <2>1. Requests(q) \subseteq Range(w)
    BY <1>5
  <2> HIDE DEF q, s
  <2>2. kind[r].slot = s
    BY DEF s
  <2>3. /\ QueueOK(Append(w, r), s, Push(q, r, fits))
        /\ Requests(Push(q, r, fits)) = Requests(q) \cup (IF fits THEN {r} ELSE {})
        /\ BlanksOf(Push(q, r, fits)) \subseteq
             {k \in DOMAIN q.lines : q.lines[k] = <<>>} \cup (IF fits THEN {} ELSE {Key(r)})
    BY <1>1, <1>5, <2>1, <2>2, PushFacts
  <2>4. QED
    BY <2>3
<1> HIDE DEF q, p, queues, n, v, s, slots
<1>7. \A t \in slots : QueueOK(v, t, store.pqueues[t])
  BY <1>2, QueueGrows DEF v
<1>8. StoreOK(v, n)
  <2>1. \A t \in DOMAIN n.pqueues : QueueOK(v, t, n.pqueues[t])
    BY <1>3, <1>4, <1>6, <1>7
  <2>2. QED
    BY <1>1, <1>2, <1>3, <1>4, <2>1 DEF StoreOK
<1>9. Contents(n) = Contents(store) \cup (IF fits THEN {r} ELSE {})
  <2>1. \A x \in Contents(n) : \E t \in DOMAIN queues : x \in Requests(queues[t])
    BY <1>3 DEF Contents
  <2>2. \A t \in DOMAIN queues : \A x \in Requests(queues[t]) : x \in Contents(n)
    BY <1>3 DEF Contents
  <2>3. \A x \in Contents(store) : \E t \in slots : x \in Requests(store.pqueues[t])
    BY DEF Contents, slots
  <2>4. \A t \in slots : \A x \in Requests(store.pqueues[t]) : x \in Contents(store)
    BY DEF Contents, slots
  <2>5. \A x \in Contents(n) : x \in Contents(store) \/ (fits /\ x = r)
    BY <1>4, <1>5, <1>6, <2>1, <2>4
  <2>6. \A x \in Contents(store) : x \in Contents(n)
    BY <1>4, <1>5, <1>6, <2>2, <2>3
  <2>7. fits => r \in Contents(n)
    BY <1>4, <1>6, <2>2
  <2>8. QED
    BY <2>5, <2>6, <2>7
<1>10. ASSUME NEW b \in Blanks(n)
       PROVE  b \in Blanks(store) \/ (~ fits /\ b = <<s, Key(r)>>)
  <2>1. /\ b[1] \in DOMAIN queues /\ b = <<b[1], b[2]>> /\ b[2] \in BlanksOf(queues[b[1]])
    BY <1>3, <1>8, StoreFacts
  <2>2. \A t \in slots : \A k \in BlanksOf(store.pqueues[t]) : <<t, k>> \in Blanks(store)
    BY StoreFacts DEF slots
  <2>3. CASE b[1] # s
    <3>1. b[1] \in slots /\ b[2] \in BlanksOf(store.pqueues[b[1]])
      BY <1>4, <2>1, <2>3
    <3>2. QED
      BY <2>1, <2>2, <3>1
  <2>4. CASE b[1] = s /\ b[2] \in DOMAIN q.lines /\ q.lines[b[2]] = <<>>
    <3>1. s \in slots /\ q = store.pqueues[s]
      BY <1>5, <2>4
    <3>2. b[2] \in BlanksOf(q)
      BY <2>4 DEF BlanksOf
    <3>3. QED
      BY <2>1, <2>2, <2>4, <3>1, <3>2
  <2>5. CASE b[1] = s /\ b[2] = Key(r) /\ ~ fits
    BY <2>1, <2>5
  <2>6. QED
    BY <1>4, <1>6, <2>1, <2>3, <2>4, <2>5
<1>11. QED
  BY <1>8, <1>9, <1>10 DEF n, v, s

(* There is a next slot as long as there are slots. *)
LEMMA NextSlotFacts ==
  ASSUME IsFiniteSet(active), NEW w, NEW store, StoreOK(w, store), DOMAIN store.pqueues # {}
  PROVE  NextSlot(store) \in DOMAIN store.pqueues
<1> DEFINE slots == DOMAIN store.pqueues
           loads == {Downloads(s) : s \in slots}
           best == {s \in slots : \A t \in slots : Downloads(s) <= Downloads(t)}
           after == {s \in best : s > store.last}
<1>1. slots \subseteq Nat /\ slots # {}
  BY DEF StoreOK
<1>2. \A s \in slots : Downloads(s) \in Nat
  <2>1. TAKE s \in slots
  <2>2. {r \in active : kind[r].slot = s} \subseteq active
    OBVIOUS
  <2>3. IsFiniteSet({r \in active : kind[r].slot = s})
    BY <2>2, FS_Subset
  <2>4. QED
    BY <2>3, FS_CardinalityType DEF Downloads
<1>3. loads \in SUBSET Nat /\ loads # {}
  BY <1>1, <1>2
<1>4. Min(loads) \in loads /\ \A n \in loads : Min(loads) <= n
  <2> HIDE DEF loads
  <2>1. QED
    BY <1>3, NaturalMin
<1>5. best # {} /\ best \subseteq slots
  <2>1. PICK s \in slots : Downloads(s) = Min(loads)
    BY <1>4
  <2>2. \A t \in slots : Downloads(s) <= Downloads(t)
    BY <1>4, <2>1
  <2>3. QED
    BY <2>2
<1> DEFINE choice == IF after # {} THEN after ELSE best
<1>6. choice # {} /\ choice \in SUBSET Nat /\ choice \subseteq slots
  BY <1>1, <1>5
<1>7. NextSlot(store) = Min(choice)
  BY DEF NextSlot
<1>8. QED
  <2> HIDE DEF choice
  <2>1. QED
    BY <1>6, <1>7, NaturalMin

(* What popping does to the queues of a store, and gives out.              *)
LEMMA PopSlotFacts ==
  ASSUME IsFiniteSet(active), NEW w \in Seq(Request), IsInjective(w),
         NEW store, StoreOK(w, store)
  PROVE  /\ StoreOK(w, PopSlot(store))
         /\ SlotOut(store) \subseteq Contents(store) /\ \A x, y \in SlotOut(store) : x = y
         /\ Contents(PopSlot(store)) = Contents(store) \ SlotOut(store)
         /\ \A x \in SlotOut(store), y \in Contents(store) \ SlotOut(store) :
              kind[x].slot = kind[y].slot => Sooner(w, x, y)
         /\ Blanks(PopSlot(store)) \subseteq Blanks(store)
         /\ SlotOut(store) = {} /\ Contents(store) # {} =>
              \E b \in Blanks(store) : b \notin Blanks(PopSlot(store))
<1> DEFINE slots == DOMAIN store.pqueues
           s == NextSlot(store)
           q == store.pqueues[s]
           p == Pop(q)
           n == PopSlot(store)
<1>1. CASE slots = {}
  <2>1. n = store /\ SlotOut(store) = {} /\ Contents(store) = {}
    BY <1>1 DEF PopSlot, SlotOut, Contents
  <2>2. QED
    BY <2>1
<1>2. CASE slots # {}
  <2>1. s \in slots
    BY <1>2, NextSlotFacts
  <2>2. /\ store = [pqueues |-> store.pqueues, last |-> store.last] /\ slots \subseteq Nat \ {0}
        /\ \A t \in slots : QueueOK(w, t, store.pqueues[t])
    BY DEF StoreOK
  <2>3. SlotOut(store) = Out(q)
    BY <1>2 DEF SlotOut
  <2>4. n = Popped(store, s, p)
    <3>1. UNION {{Popped(store, t, u) : u \in {Pop(store.pqueues[t])}} : t \in {NextSlot(store)}}
          = {Popped(store, s, p)}
      BY Zenon
    <3>2. n = CHOOSE left \in {Popped(store, s, p)} : TRUE
      BY <1>2, <3>1 DEF PopSlot
    <3> HIDE DEF s, p, n
    <3>3. QED
      BY <3>2
  <2>5. /\ QueueOK(w, s, p)
        /\ Out(q) \subseteq Requests(q) /\ (\A x, y \in Out(q) : x = y)
        /\ Requests(p) = Requests(q) \ Out(q)
        /\ \A x \in Out(q), y \in Requests(q) \ Out(q) : Sooner(w, x, y)
        /\ Requests(p) # {} => BlanksOf(p) \subseteq BlanksOf(q)
        /\ Out(q) = {} => \E b \in BlanksOf(q) : Requests(p) # {} => b \notin BlanksOf(p)
    <3> HIDE DEF q, s
    <3>1. QueueOK(w, s, q)
      BY <2>1, <2>2 DEF q
    <3>2. QED
      BY <3>1, PopFacts
  <2> DEFINE out == Out(q)
             queues == IF Requests(p) = {} THEN Without(store.pqueues, s)
                                           ELSE With(store.pqueues, s, p)
  <2>6. n = [pqueues |-> queues, last |-> s] /\ n.pqueues = queues
    BY <2>4 DEF Popped
  <2> HIDE DEF p, s, n
  <2>7. /\ DOMAIN queues = slots \ (IF Requests(p) = {} THEN {s} ELSE {})
        /\ \A t \in slots : t # s => queues[t] = store.pqueues[t]
        /\ Requests(p) # {} => queues[s] = p
    BY <2>1 DEF With, Without
  <2>8. q = store.pqueues[s]
    OBVIOUS
  <2> HIDE DEF queues, q, out, slots
  <2>9. StoreOK(w, n)
    <3>1. \A t \in DOMAIN n.pqueues : QueueOK(w, t, n.pqueues[t])
      BY <2>2, <2>5, <2>6, <2>7
    <3>2. QED
      BY <2>2, <2>6, <2>7, <3>1 DEF StoreOK
  <2>10. /\ \A x \in Contents(store) :
               kind[x].slot \in slots /\ x \in Requests(store.pqueues[kind[x].slot])
         /\ \A t \in slots : \A x \in Requests(store.pqueues[t]) :
               x \in Contents(store) /\ kind[x].slot = t
    BY StoreFacts DEF slots
  <2>11. SlotOut(store) = out /\ out \subseteq Contents(store) /\ \A x, y \in out : x = y
    BY <2>1, <2>3, <2>5, <2>8, <2>10 DEF out
  <2>12. Contents(n) = Contents(store) \ out
    <3>1. /\ \A x \in Contents(n) :
               kind[x].slot \in DOMAIN queues /\ x \in Requests(queues[kind[x].slot])
          /\ \A t \in DOMAIN queues : \A x \in Requests(queues[t]) : x \in Contents(n)
      BY <2>6, <2>9, StoreFacts
    <3>2. ASSUME NEW x \in Contents(n) PROVE x \in Contents(store) /\ x \notin out
      <4>1. CASE kind[x].slot = s
        BY <2>1, <2>5, <2>7, <2>8, <2>10, <3>1, <4>1 DEF out
      <4>2. CASE kind[x].slot # s
        <5>1. x \in Contents(store)
          BY <2>7, <2>10, <3>1, <4>2
        <5>2. \A y \in out : kind[y].slot = s
          BY <2>1, <2>5, <2>8, <2>10 DEF out
        <5>3. QED
          BY <4>2, <5>1, <5>2
      <4>3. QED
        BY <4>1, <4>2
    <3>3. ASSUME NEW x \in Contents(store), x \notin out PROVE x \in Contents(n)
      <4>1. CASE kind[x].slot = s
        <5>1. x \in Requests(p)
          BY <2>5, <2>8, <2>10, <3>3, <4>1 DEF out
        <5>2. QED
          BY <2>1, <2>7, <3>1, <5>1
      <4>2. CASE kind[x].slot # s
        BY <2>7, <2>10, <3>1, <4>2
      <4>3. QED
        BY <4>1, <4>2
    <3>4. QED
      BY <3>2, <3>3
  <2>13. ASSUME NEW x \in out, NEW y \in Contents(store) \ out, kind[x].slot = kind[y].slot
         PROVE  Sooner(w, x, y)
    <3>1. kind[x].slot = s
      BY <2>1, <2>5, <2>8, <2>10 DEF out
    <3>2. y \in Requests(q)
      BY <2>8, <2>10, <2>13, <3>1
    <3>3. QED
      BY <2>5, <3>2 DEF out
  <2>14. /\ \A b \in Blanks(store) :
              b[1] \in slots /\ b = <<b[1], b[2]>> /\ b[2] \in BlanksOf(store.pqueues[b[1]])
         /\ \A t \in slots : \A k \in BlanksOf(store.pqueues[t]) : <<t, k>> \in Blanks(store)
    BY StoreFacts DEF slots
  <2>15. \A b \in Blanks(n) :
              b[1] \in DOMAIN queues /\ b = <<b[1], b[2]>> /\ b[2] \in BlanksOf(queues[b[1]])
    BY <2>6, <2>9, StoreFacts
  <2>16. ASSUME NEW b \in Blanks(n) PROVE b \in Blanks(store)
    <3>1. CASE b[1] = s
      BY <2>1, <2>5, <2>7, <2>8, <2>14, <2>15, <3>1
    <3>2. CASE b[1] # s
      BY <2>7, <2>14, <2>15, <3>2
    <3>3. QED
      BY <3>1, <3>2
  <2>17. ASSUME out = {} PROVE \E b \in Blanks(store) : b \notin Blanks(n)
    <3>1. PICK k \in BlanksOf(q) : Requests(p) # {} => k \notin BlanksOf(p)
      BY <2>5, <2>17 DEF out
    <3>2. PICK b \in Blanks(store) : b = <<s, k>>
      BY <2>1, <2>8, <2>14
    <3>3. b[1] = s /\ b[2] = k
      BY <3>2
    <3>4. b \notin Blanks(n)
      BY <2>7, <2>15, <3>1, <3>3
    <3>5. QED
      BY <3>4
  <2>18. QED
    BY <2>9, <2>11, <2>12, <2>13, <2>16, <2>17 DEF n
<1>3. QED
  BY <1>1, <1>2

LEMMA StoreGrows ==
  ASSUME NEW w \in Seq(Request), IsInjective(w), NEW r \in Request, r \notin Range(w),
         NEW store, StoreOK(w, store)
  PROVE  StoreOK(Append(w, r), store)
<1>1. \A s \in DOMAIN store.pqueues : QueueOK(Append(w, r), s, store.pqueues[s])
  <2>1. TAKE s \in DOMAIN store.pqueues
  <2>2. QueueOK(w, s, store.pqueues[s])
    BY DEF StoreOK
  <2>3. QED
    BY <2>2, QueueGrows
<1>2. QED
  BY <1>1 DEF StoreOK

(* A slot without requests is a blank. *)
LEMMA IdleSlot ==
  ASSUME NEW w, NEW store, StoreOK(w, store), NEW s \in DOMAIN store.pqueues,
         Requests(store.pqueues[s]) = {}
  PROVE  Blanks(store) # {}
<1> DEFINE q == store.pqueues[s]
<1>1. QueueOK(w, s, q) /\ Requests(q) = {}
  BY DEF StoreOK
<1> HIDE DEF q
<1>2. Busy(q.lines) = {}
  BY <1>1, QueueFacts
<1>3. BlanksOf(q) # {}
  BY <1>2 DEF BlanksOf, Busy
<1>4. QED
  BY <1>3, StoreFacts DEF q

(* The queues on disk, opened again. *)
ReopenedStore(store) ==
  [pqueues |-> [s \in DOMAIN store.pqueues |->
                  Reopened(store.pqueues[s], Prios(DOMAIN store.pqueues[s].lines))],
   last |-> 0]

LEMMA ReopenStoreFacts ==
  ASSUME NEW w, NEW store, StoreOK(w, store), IsFiniteSet(Blanks(store))
  PROVE  /\ StoreOK(w, ReopenedStore(store))
         /\ Contents(ReopenedStore(store)) = Contents(store)
         /\ IsFiniteSet(Blanks(ReopenedStore(store)))
         /\ Cardinality(Blanks(ReopenedStore(store))) <= Cardinality(Blanks(store))
<1> DEFINE slots == DOMAIN store.pqueues
           old(s) == store.pqueues[s]
           new(s) == Reopened(old(s), Prios(DOMAIN old(s).lines))
           n == ReopenedStore(store)
<1>1. /\ n = [pqueues |-> n.pqueues, last |-> n.last] /\ DOMAIN n.pqueues = slots
      /\ \A s \in slots : n.pqueues[s] = new(s)
  BY DEF ReopenedStore
<1>2. slots \subseteq Nat \ {0} /\ \A s \in slots : QueueOK(w, s, old(s))
  BY DEF StoreOK
<1>3. ASSUME NEW s \in slots
      PROVE  /\ QueueOK(w, s, new(s)) /\ Requests(new(s)) = Requests(old(s))
             /\ BlanksOf(new(s)) # {} => BlanksOf(new(s)) = {<<>>} /\ BlanksOf(old(s)) # {}
  <2> DEFINE q == old(s)
  <2>1. QueueOK(w, s, q)
    BY <1>2
  <2> HIDE DEF q
  <2>2. /\ QueueOK(w, s, Reopened(q, Prios(DOMAIN q.lines)))
        /\ Requests(Reopened(q, Prios(DOMAIN q.lines))) = Requests(q)
        /\ BlanksOf(Reopened(q, Prios(DOMAIN q.lines))) # {} =>
              /\ BlanksOf(Reopened(q, Prios(DOMAIN q.lines))) = {<<>>}
              /\ BlanksOf(q) # {}
    BY <2>1, ReopenFacts
  <2>3. QED
    BY <2>2 DEF q
<1> HIDE DEF old, new, n
<1>4. StoreOK(w, n)
  BY <1>1, <1>2, <1>3 DEF StoreOK
<1>5. Contents(n) = Contents(store)
  <2>1. \A s \in slots : Requests(n.pqueues[s]) = Requests(store.pqueues[s])
    BY <1>1, <1>3 DEF old
  <2>2. QED
    BY <1>1, <2>1 DEF Contents
<1>6. ASSUME NEW b \in Blanks(n)
      PROVE  b[2] = <<>> /\ b = <<b[1], b[2]>> /\ \E c \in Blanks(store) : c[1] = b[1]
  <2>1. b[1] \in slots /\ b = <<b[1], b[2]>> /\ b[2] \in BlanksOf(n.pqueues[b[1]])
    BY <1>1, <1>4, StoreFacts
  <2>2. b[2] = <<>> /\ BlanksOf(old(b[1])) # {}
    BY <1>1, <1>3, <2>1
  <2>3. PICK k \in BlanksOf(store.pqueues[b[1]]) : <<b[1], k>> \in Blanks(store)
    BY <2>1, <2>2, StoreFacts DEF old
  <2>4. <<b[1], k>>[1] = b[1]
    OBVIOUS
  <2>5. QED
    BY <2>1, <2>2, <2>3, <2>4
<1> DEFINE f == [b \in Blanks(n) |-> CHOOSE c \in Blanks(store) : c[1] = b[1]]
<1>7. f \in Injection(Blanks(n), Blanks(store))
  <2>1. \A b \in Blanks(n) : f[b] \in Blanks(store) /\ f[b][1] = b[1]
    BY <1>6
  <2>2. f \in [Blanks(n) -> Blanks(store)]
    BY <2>1
  <2> HIDE DEF f
  <2>3. \A a, b \in Blanks(n) : f[a] = f[b] => a = b
    BY <1>6, <2>1
  <2>4. QED
    BY <2>2, <2>3 DEF Injection, IsInjective
<1>8. IsFiniteSet(Blanks(n)) /\ Cardinality(Blanks(n)) <= Cardinality(Blanks(store))
  <2> HIDE DEF f
  <2>1. QED
    BY <1>7, FS_Injection
<1>9. QED
  BY <1>4, <1>5, <1>8 DEF n

-----------------------------------------------------------------------------
(* The steps. *)
LEMMA InitIInv == Init => IInv
<1> SUFFICES ASSUME Init PROVE IInv
  OBVIOUS
<1>1. /\ EmptyStore = [pqueues |-> <<>>, last |-> 0] /\ EmptyStore.pqueues = <<>>
      /\ DOMAIN EmptyStore.pqueues = {}
  BY DEF EmptyStore
<1>2. /\ Contents(EmptyStore) = {} /\ Blanks(EmptyStore) = {}
  BY <1>1 DEF Contents, Blanks
<1>3. StoreOK(seen, EmptyStore)
  BY <1>1 DEF StoreOK, EmptyStore
<1>4. dqs = EmptyStore /\ mqs = EmptyStore /\ seen = <<>>
  BY DEF Init
<1>5. Queues
  BY <1>3, <1>4 DEF Queues
<1>6. Types
  <2>1. IsInjective(seen) /\ seen \in Seq(Request)
    BY <1>4 DEF IsInjective
  <2>2. jobdir \in BOOLEAN /\ kind \in Kindings /\ restarts = 0
    BY DEF Init
  <2>3. QED
    BY <2>1, <2>2, RestartsAssumption DEF Types
<1>7. Places
  BY <1>2, <1>4 DEF Init, Places
<1>8. Accounts
  <2>1. Blanks(mqs) = {} /\ Blanks(dqs) = {}
    BY <1>2, <1>4
  <2>2. owed = 0 /\ Len(seen) = 0
    BY DEF Init
  <2>3. QED
    BY <2>1, <2>2, FS_EmptySet DEF Accounts
<1>9. QED
  BY <1>5, <1>6, <1>7, <1>8 DEF IInv

(* The kinds of the requests do not change. *)
LEMMA QueuesKept ==
  ASSUME kind' = kind, StoreOK(seen', mqs'), StoreOK(seen', dqs')
  PROVE  Queues'
<1>1. ASSUME NEW w, NEW s, NEW k, NEW line, LineOK(w, s, k, line)
      PROVE  LineOK(w, s, k, line)'
  BY <1>1 DEF LineOK, Key
<1>2. ASSUME NEW w, NEW s, NEW q, QueueOK(w, s, q)
      PROVE  QueueOK(w, s, q)'
  BY <1>1, <1>2 DEF QueueOK
<1>3. ASSUME NEW w, NEW store, StoreOK(w, store)
      PROVE  StoreOK(w, store)'
  BY <1>2, <1>3 DEF StoreOK
<1>4. QED
  BY <1>3 DEF Queues

LEMMA ActiveFinite ==
  ASSUME IInv
  PROVE  IsFiniteSet(active)
<1>1. seen \in Seq(Request) /\ IsInjective(seen)
  BY DEF IInv, Types
<1>2. IsFiniteSet(Range(seen))
  BY <1>1, RangeCardinality
<1>3. active \subseteq Range(seen)
  BY DEF IInv, Places
<1>4. QED
  BY <1>2, <1>3, FS_Subset

LEMMA SeenFacts ==
  ToSet(seen) = Range(seen)
BY DEF ToSet, Range

(* What enqueue_request leaves of a store: as it was, or with the request, *)
(* or with a blank for it.                                                 *)
LEMMA EnqueueStores ==
  ASSUME IInv, NEW r \in Request, EnqueueRequest(r)
  PROVE  /\ r \notin Range(seen) /\ seen' = Append(seen, r)
         /\ StoreOK(seen', mqs') /\ StoreOK(seen', dqs')
         /\ Contents(mqs') = Contents(mqs) \cup
              (IF jobdir /\ kind[r].storable THEN {} ELSE {r})
         /\ Contents(dqs') = Contents(dqs) \cup
              (IF jobdir /\ kind[r].storable THEN {r} ELSE {})
         /\ Blanks(mqs') = {}
         /\ Blanks(dqs') \subseteq Blanks(dqs) \cup
              (IF jobdir /\ ~ kind[r].storable THEN {<<kind[r].slot, Key(r)>>} ELSE {})
<1>1. /\ r \notin ToSet(seen) /\ seen' = Append(seen, r)
      /\ dqs' = (IF jobdir THEN PushSlot(dqs, r, kind[r].storable) ELSE dqs)
      /\ mqs' = (IF jobdir /\ kind[r].storable THEN mqs ELSE PushSlot(mqs, r, TRUE))
  BY DEF EnqueueRequest
<1>2. r \notin Range(seen)
  BY <1>1, SeenFacts
<1>3. /\ seen \in Seq(Request) /\ IsInjective(seen) /\ kind \in Kindings /\ jobdir \in BOOLEAN
      /\ StoreOK(seen, mqs) /\ StoreOK(seen, dqs)
      /\ Contents(mqs) \subseteq Range(seen) /\ Contents(dqs) \subseteq Range(seen)
      /\ Blanks(mqs) = {}
  BY DEF IInv, Types, Queues, Places, Accounts
<1>4. kind[r] \in Kind
  BY <1>3, KindingsAssumption
<1>5. kind[r].storable \in BOOLEAN
  BY <1>4 DEF Kind
<1>6. StoreOK(Append(seen, r), mqs) /\ StoreOK(Append(seen, r), dqs)
  BY <1>2, <1>3, StoreGrows
<1>7. /\ StoreOK(Append(seen, r), PushSlot(mqs, r, TRUE))
      /\ Contents(PushSlot(mqs, r, TRUE)) = Contents(mqs) \cup (IF TRUE THEN {r} ELSE {})
      /\ Blanks(PushSlot(mqs, r, TRUE)) \subseteq
           Blanks(mqs) \cup (IF TRUE THEN {} ELSE {<<kind[r].slot, Key(r)>>})
  BY <1>2, <1>3, <1>4, PushSlotFacts
<1>8. /\ StoreOK(Append(seen, r), PushSlot(dqs, r, kind[r].storable))
      /\ Contents(PushSlot(dqs, r, kind[r].storable)) =
           Contents(dqs) \cup (IF kind[r].storable THEN {r} ELSE {})
      /\ Blanks(PushSlot(dqs, r, kind[r].storable)) \subseteq
           Blanks(dqs) \cup (IF kind[r].storable THEN {} ELSE {<<kind[r].slot, Key(r)>>})
  BY <1>2, <1>3, <1>4, <1>5, PushSlotFacts
<1>9. StoreOK(seen', mqs') /\ StoreOK(seen', dqs')
  BY <1>1, <1>6, <1>7, <1>8
<1>10. /\ Contents(mqs') = Contents(mqs) \cup
            (IF jobdir /\ kind[r].storable THEN {} ELSE {r})
       /\ Blanks(mqs') = {}
  BY <1>1, <1>3, <1>7
<1>11. /\ Contents(dqs') = Contents(dqs) \cup
            (IF jobdir /\ kind[r].storable THEN {r} ELSE {})
       /\ Blanks(dqs') \subseteq Blanks(dqs) \cup
            (IF jobdir /\ ~ kind[r].storable THEN {<<kind[r].slot, Key(r)>>} ELSE {})
  BY <1>1, <1>8
<1>12. QED
  BY <1>1, <1>2, <1>9, <1>10, <1>11

LEMMA EnqueueIInv ==
  ASSUME IInv, NEW r \in Request, EnqueueRequest(r)
  PROVE  IInv'
<1>1. /\ r \notin Range(seen) /\ seen' = Append(seen, r)
      /\ StoreOK(seen', mqs') /\ StoreOK(seen', dqs')
      /\ Contents(mqs') = Contents(mqs) \cup
           (IF jobdir /\ kind[r].storable THEN {} ELSE {r})
      /\ Contents(dqs') = Contents(dqs) \cup
           (IF jobdir /\ kind[r].storable THEN {r} ELSE {})
      /\ Blanks(mqs') = {}
      /\ Blanks(dqs') \subseteq Blanks(dqs) \cup
           (IF jobdir /\ ~ kind[r].storable THEN {<<kind[r].slot, Key(r)>>} ELSE {})
  BY EnqueueStores
<1>2. /\ UNCHANGED <<jobdir, kind, given, active, finished, restarts>>
      /\ owed' = IF jobdir /\ ~ kind[r].storable THEN owed + 1 ELSE owed
  BY DEF EnqueueRequest
<1>3. seen \in Seq(Request) /\ IsInjective(seen)
  BY DEF IInv, Types
<1>4. /\ seen' \in Seq(Request) /\ IsInjective(seen')
      /\ Range(seen') = Range(seen) \cup {r} /\ Len(seen') = Len(seen) + 1
  BY <1>1, <1>3, NewComer
<1>5. Types'
  BY <1>2, <1>4 DEF IInv, Types
<1>6. Queues'
  BY <1>1, <1>2, QueuesKept
<1>7. Places'
  <2>1. /\ given \cup Contents(mqs) \cup Contents(dqs) \subseteq Range(seen)
        /\ Contents(mqs) \cap Contents(dqs) = {}
        /\ given \cap (Contents(mqs) \cup Contents(dqs)) = {}
        /\ finished \cap active = {} /\ finished \cup active \subseteq given
    BY DEF IInv, Places
  <2>2. CASE jobdir /\ kind[r].storable
    BY <1>1, <1>2, <1>4, <2>1, <2>2 DEF Places
  <2>3. CASE ~ (jobdir /\ kind[r].storable)
    BY <1>1, <1>2, <1>4, <2>1, <2>3 DEF Places
  <2>4. QED
    BY <2>2, <2>3
<1>8. Accounts'
  <2> DEFINE B == Blanks(dqs)
             C == Blanks(dqs')
             x == <<kind[r].slot, Key(r)>>
             D == B \cup {x}
  <2>1. /\ IsFiniteSet(B) /\ owed \in Int /\ Cardinality(B) <= owed /\ owed <= Len(seen)
    BY DEF IInv, Accounts
  <2>2. Len(seen) \in Nat /\ Cardinality(B) \in Nat
    BY <1>3, <2>1, FS_CardinalityType
  <2> HIDE DEF B, C, x
  <2>3. IsFiniteSet(D) /\ Cardinality(D) <= Cardinality(B) + 1
    <3>1. /\ IsFiniteSet(B \cup {x})
          /\ Cardinality(B \cup {x}) = IF x \in B THEN Cardinality(B) ELSE Cardinality(B) + 1
      BY <2>1, FS_AddElement
    <3>2. QED
      BY <2>2, <3>1
  <2> HIDE DEF D
  <2>4. CASE jobdir /\ ~ kind[r].storable
    <3>1. C \subseteq D
      BY <1>1, <2>4 DEF B, C, D, x
    <3>2. IsFiniteSet(C) /\ Cardinality(C) <= Cardinality(D)
      BY <2>3, <3>1, FS_Subset
    <3>3. Cardinality(C) \in Nat /\ Cardinality(D) \in Nat
      BY <2>3, <3>2, FS_CardinalityType
    <3>4. owed' = owed + 1
      BY <1>2, <2>4
    <3>5. owed' \in Int /\ Cardinality(C) <= owed' /\ owed' <= Len(seen')
      BY <1>4, <2>1, <2>2, <2>3, <3>2, <3>3, <3>4
    <3>6. QED
      BY <1>1, <3>2, <3>5 DEF Accounts, C
  <2>5. CASE ~ (jobdir /\ ~ kind[r].storable)
    <3>1. C \subseteq B
      BY <1>1, <2>5 DEF B, C
    <3>2. IsFiniteSet(C) /\ Cardinality(C) <= Cardinality(B)
      BY <2>1, <3>1, FS_Subset
    <3>3. Cardinality(C) \in Nat
      BY <3>2, FS_CardinalityType
    <3>4. owed' = owed
      BY <1>2, <2>5
    <3>5. owed' \in Int /\ Cardinality(C) <= owed' /\ owed' <= Len(seen')
      BY <1>4, <2>1, <2>2, <3>2, <3>3, <3>4
    <3>6. QED
      BY <1>1, <3>2, <3>5 DEF Accounts, C
  <2>6. QED
    BY <2>4, <2>5
<1>9. QED
  BY <1>5, <1>6, <1>7, <1>8 DEF IInv

(* What popping leaves of the stores.  From memory next_request never gets *)
(* None while something is queued there.                                   *)
LEMMA NextRequestStores ==
  ASSUME IInv
  PROVE  /\ StoreOK(seen, PopSlot(mqs)) /\ StoreOK(seen, PopSlot(dqs))
         /\ SlotOut(mqs) \subseteq Contents(mqs) /\ \A x, y \in SlotOut(mqs) : x = y
         /\ SlotOut(dqs) \subseteq Contents(dqs) /\ \A x, y \in SlotOut(dqs) : x = y
         /\ Contents(PopSlot(mqs)) = Contents(mqs) \ SlotOut(mqs)
         /\ Contents(PopSlot(dqs)) = Contents(dqs) \ SlotOut(dqs)
         /\ \A x \in SlotOut(mqs), y \in Contents(mqs) \ SlotOut(mqs) :
              kind[x].slot = kind[y].slot => Sooner(seen, x, y)
         /\ \A x \in SlotOut(dqs), y \in Contents(dqs) \ SlotOut(dqs) :
              kind[x].slot = kind[y].slot => Sooner(seen, x, y)
         /\ Blanks(PopSlot(mqs)) = {} /\ Blanks(PopSlot(dqs)) \subseteq Blanks(dqs)
         /\ SlotOut(mqs) = {} => Contents(mqs) = {}
         /\ SlotOut(dqs) = {} /\ Contents(dqs) # {} =>
              \E b \in Blanks(dqs) : b \notin Blanks(PopSlot(dqs))
<1>1. /\ seen \in Seq(Request) /\ IsInjective(seen)
      /\ StoreOK(seen, mqs) /\ StoreOK(seen, dqs) /\ Blanks(mqs) = {}
  BY DEF IInv, Types, Queues, Accounts
<1>2. IsFiniteSet(active)
  BY ActiveFinite
<1>3. /\ StoreOK(seen, PopSlot(mqs))
      /\ SlotOut(mqs) \subseteq Contents(mqs) /\ \A x, y \in SlotOut(mqs) : x = y
      /\ Contents(PopSlot(mqs)) = Contents(mqs) \ SlotOut(mqs)
      /\ \A x \in SlotOut(mqs), y \in Contents(mqs) \ SlotOut(mqs) :
              kind[x].slot = kind[y].slot => Sooner(seen, x, y)
      /\ Blanks(PopSlot(mqs)) \subseteq Blanks(mqs)
      /\ SlotOut(mqs) = {} /\ Contents(mqs) # {} =>
           \E b \in Blanks(mqs) : b \notin Blanks(PopSlot(mqs))
  BY <1>1, <1>2, PopSlotFacts
<1>4. /\ StoreOK(seen, PopSlot(dqs))
      /\ SlotOut(dqs) \subseteq Contents(dqs) /\ \A x, y \in SlotOut(dqs) : x = y
      /\ Contents(PopSlot(dqs)) = Contents(dqs) \ SlotOut(dqs)
      /\ \A x \in SlotOut(dqs), y \in Contents(dqs) \ SlotOut(dqs) :
              kind[x].slot = kind[y].slot => Sooner(seen, x, y)
      /\ Blanks(PopSlot(dqs)) \subseteq Blanks(dqs)
      /\ SlotOut(dqs) = {} /\ Contents(dqs) # {} =>
           \E b \in Blanks(dqs) : b \notin Blanks(PopSlot(dqs))
  BY <1>1, <1>2, PopSlotFacts
<1>5. Blanks(PopSlot(mqs)) = {} /\ (SlotOut(mqs) = {} => Contents(mqs) = {})
  BY <1>1, <1>3
<1>6. QED
  BY <1>3, <1>4, <1>5

(* Which store a step of next_request takes from, and what it gives out:   *)
(* a request, or None, at the cost of a blank if there are requests.       *)
FromMemory ==
  /\ SlotOut(mqs) # {}
  /\ mqs' = PopSlot(mqs) /\ dqs' = dqs
  /\ given' = given \cup SlotOut(mqs) /\ owed' = owed

FromDisk ==
  /\ SlotOut(mqs) = {}
  /\ mqs' = PopSlot(mqs) /\ dqs' = PopSlot(dqs)
  /\ given' = given \cup SlotOut(dqs)
  /\ owed' = IF SlotOut(dqs) = {} /\ Contents(dqs) # {} THEN owed - 1 ELSE owed

LEMMA NextRequestCases ==
  ASSUME IInv, NextRequest
  PROVE  /\ FromMemory \/ FromDisk
         /\ UNCHANGED <<jobdir, kind, seen, active, finished, restarts>>
         /\ FromDisk /\ SlotOut(dqs) = {} /\ Contents(dqs) # {} =>
              owed > 0 /\ Cardinality(Blanks(dqs')) < Cardinality(Blanks(dqs))
<1>1. /\ SlotOut(mqs) = {} => Contents(mqs) = {}
      /\ Blanks(PopSlot(dqs)) \subseteq Blanks(dqs)
      /\ SlotOut(dqs) = {} /\ Contents(dqs) # {} =>
           \E b \in Blanks(dqs) : b \notin Blanks(PopSlot(dqs))
  BY NextRequestStores
<1>2. /\ IsFiniteSet(Blanks(dqs)) /\ owed \in Int /\ Cardinality(Blanks(dqs)) <= owed
  BY DEF IInv, Accounts
<1>3. owed >= 0
  BY <1>2, FS_CardinalityType
<1>4. UNCHANGED <<jobdir, kind, seen, active, finished, restarts>>
  BY DEF NextRequest
<1>5. FromMemory \/ FromDisk
  <2>1. CASE SlotOut(mqs) # {}
    BY <2>1 DEF NextRequest, FromMemory
  <2>2. CASE SlotOut(mqs) = {}
    BY <1>3, <2>2 DEF NextRequest, FromDisk
  <2>3. QED
    BY <2>1, <2>2
<1>6. ASSUME FromDisk, SlotOut(dqs) = {}, Contents(dqs) # {}
      PROVE  owed > 0 /\ Cardinality(Blanks(dqs')) < Cardinality(Blanks(dqs))
  <2>1. SlotOut(mqs) = {} /\ dqs' = PopSlot(dqs)
    BY <1>6 DEF FromDisk
  <2>2. PICK b \in Blanks(dqs) : b \notin Blanks(PopSlot(dqs))
    BY <1>1, <1>6
  <2> DEFINE B == Blanks(dqs)
             C == Blanks(dqs')
  <2>3. C \subseteq B /\ b \in B /\ b \notin C /\ IsFiniteSet(B)
    BY <1>1, <1>2, <2>1, <2>2
  <2> HIDE DEF B, C
  <2>4. IsFiniteSet(C) /\ Cardinality(C) <= Cardinality(B)
        /\ (Cardinality(C) = Cardinality(B) => C = B)
    BY <2>3, FS_Subset
  <2>5. Cardinality(C) \in Nat /\ Cardinality(B) \in Nat
    BY <2>3, <2>4, FS_CardinalityType
  <2>6. Cardinality(C) < Cardinality(B)
    BY <2>3, <2>4, <2>5
  <2>7. owed > 0
    BY <1>2, <2>5, <2>6 DEF B
  <2>8. QED
    BY <2>6, <2>7 DEF B, C
<1>7. QED
  BY <1>4, <1>5, <1>6

LEMMA NextRequestIInv ==
  ASSUME IInv, NextRequest
  PROVE  IInv'
<1>1. /\ FromMemory \/ FromDisk
      /\ UNCHANGED <<jobdir, kind, seen, active, finished, restarts>>
      /\ FromDisk /\ SlotOut(dqs) = {} /\ Contents(dqs) # {} =>
           Cardinality(Blanks(dqs')) < Cardinality(Blanks(dqs))
  BY NextRequestCases
<1>2. /\ StoreOK(seen, PopSlot(mqs)) /\ StoreOK(seen, PopSlot(dqs))
      /\ SlotOut(mqs) \subseteq Contents(mqs) /\ SlotOut(dqs) \subseteq Contents(dqs)
      /\ Contents(PopSlot(mqs)) = Contents(mqs) \ SlotOut(mqs)
      /\ Contents(PopSlot(dqs)) = Contents(dqs) \ SlotOut(dqs)
      /\ Blanks(PopSlot(mqs)) = {} /\ Blanks(PopSlot(dqs)) \subseteq Blanks(dqs)
  BY NextRequestStores
<1>3. /\ StoreOK(seen, dqs) /\ seen \in Seq(Request)
      /\ given \cup Contents(mqs) \cup Contents(dqs) \subseteq Range(seen)
      /\ Contents(mqs) \cap Contents(dqs) = {}
      /\ given \cap (Contents(mqs) \cup Contents(dqs)) = {}
      /\ finished \cap active = {} /\ finished \cup active \subseteq given
      /\ IsFiniteSet(Blanks(dqs)) /\ owed \in Int
      /\ Cardinality(Blanks(dqs)) <= owed /\ owed <= Len(seen)
  BY DEF IInv, Types, Queues, Places, Accounts
<1>4. Types'
  BY <1>1 DEF IInv, Types
<1>5. mqs' = PopSlot(mqs) /\ (dqs' = dqs \/ dqs' = PopSlot(dqs))
  BY <1>1 DEF FromMemory, FromDisk
<1>6. Queues'
  <2>1. StoreOK(seen', mqs') /\ StoreOK(seen', dqs')
    BY <1>1, <1>2, <1>3, <1>5
  <2>2. QED
    BY <1>1, <2>1, QueuesKept
<1>7. Places'
  <2>1. CASE FromMemory
    <3>1. /\ Contents(mqs') = Contents(mqs) \ SlotOut(mqs) /\ Contents(dqs') = Contents(dqs)
          /\ given' = given \cup SlotOut(mqs)
      BY <1>2, <2>1 DEF FromMemory
    <3>2. QED
      BY <1>1, <1>2, <1>3, <3>1 DEF Places
  <2>2. CASE FromDisk
    <3>1. /\ Contents(mqs') = Contents(mqs) \ SlotOut(mqs)
          /\ Contents(dqs') = Contents(dqs) \ SlotOut(dqs)
          /\ given' = given \cup SlotOut(dqs)
      BY <1>2, <2>2 DEF FromDisk
    <3>2. QED
      BY <1>1, <1>2, <1>3, <3>1 DEF Places
  <2>3. QED
    BY <1>1, <2>1, <2>2
<1>8. Accounts'
  <2> DEFINE B == Blanks(dqs)
             C == Blanks(dqs')
  <2>1. Blanks(mqs') = {} /\ C \subseteq B
    BY <1>2, <1>5
  <2>2. owed' = owed \/ (owed' = owed - 1 /\ Cardinality(C) < Cardinality(B))
    BY <1>1 DEF FromMemory, FromDisk
  <2>3. IsFiniteSet(B) /\ Cardinality(B) <= owed
    BY <1>3
  <2> HIDE DEF B, C
  <2>4. IsFiniteSet(C) /\ Cardinality(C) <= Cardinality(B)
    BY <2>1, <2>3, FS_Subset
  <2>5. Cardinality(C) \in Nat /\ Cardinality(B) \in Nat /\ Len(seen) \in Nat
    BY <1>3, <2>3, <2>4, FS_CardinalityType
  <2>6. owed' \in Int /\ Cardinality(C) <= owed' /\ owed' <= Len(seen)
    BY <1>3, <2>2, <2>3, <2>4, <2>5
  <2>7. QED
    BY <1>1, <2>1, <2>4, <2>6 DEF Accounts, C
<1>9. QED
  BY <1>4, <1>6, <1>7, <1>8 DEF IInv

LEMMA RestartIInv ==
  ASSUME IInv, Restart
  PROVE  IInv' /\ Contents(dqs') = Contents(dqs) /\ Contents(mqs') = {}
<1>1. /\ restarts < MaxRestarts /\ restarts' = restarts + 1
      /\ dqs' = ReopenedStore(dqs) /\ mqs' = EmptyStore
      /\ UNCHANGED <<jobdir, kind, seen, given, active, finished, owed>>
  BY DEF Restart, ReopenedStore
<1>2. /\ EmptyStore = [pqueues |-> <<>>, last |-> 0] /\ EmptyStore.pqueues = <<>>
      /\ DOMAIN EmptyStore.pqueues = {}
  BY DEF EmptyStore
<1>3. /\ Contents(mqs') = {} /\ Blanks(mqs') = {} /\ StoreOK(seen, mqs')
  <2>1. Contents(EmptyStore) = {} /\ Blanks(EmptyStore) = {}
    BY <1>2 DEF Contents, Blanks
  <2>2. StoreOK(seen, EmptyStore)
    BY <1>2 DEF StoreOK, EmptyStore
  <2>3. QED
    BY <1>1, <2>1, <2>2
<1>4. StoreOK(seen, dqs) /\ IsFiniteSet(Blanks(dqs))
  BY DEF IInv, Queues, Accounts
<1>5. /\ StoreOK(seen, dqs') /\ Contents(dqs') = Contents(dqs)
      /\ IsFiniteSet(Blanks(dqs')) /\ Cardinality(Blanks(dqs')) <= Cardinality(Blanks(dqs))
  <2>1. /\ StoreOK(seen, ReopenedStore(dqs))
        /\ Contents(ReopenedStore(dqs)) = Contents(dqs)
        /\ IsFiniteSet(Blanks(ReopenedStore(dqs)))
        /\ Cardinality(Blanks(ReopenedStore(dqs))) <= Cardinality(Blanks(dqs))
    BY <1>4, ReopenStoreFacts
  <2>2. QED
    BY <1>1, <2>1
<1>6. Types'
  <2>1. restarts \in 0 .. MaxRestarts
    BY DEF IInv, Types
  <2>2. restarts' \in 0 .. MaxRestarts
    BY <1>1, <2>1, RestartsAssumption
  <2>3. QED
    BY <1>1, <2>2 DEF IInv, Types
<1>7. Queues'
  BY <1>1, <1>3, <1>5, QueuesKept
<1>8. Places'
  BY <1>1, <1>3, <1>5 DEF IInv, Places
<1>9. Accounts'
  <2>1. Cardinality(Blanks(dqs)) \in Nat /\ Cardinality(Blanks(dqs')) \in Nat
    BY <1>4, <1>5, FS_CardinalityType
  <2>2. owed \in Int /\ Cardinality(Blanks(dqs)) <= owed /\ owed <= Len(seen)
    BY DEF IInv, Accounts
  <2>3. Cardinality(Blanks(dqs')) <= owed
    BY <1>5, <2>1, <2>2
  <2>4. QED
    BY <1>1, <1>3, <1>5, <2>2, <2>3 DEF Accounts
<1>10. QED
  BY <1>3, <1>5, <1>6, <1>7, <1>8, <1>9 DEF IInv

LEMMA NextIInv ==
  ASSUME IInv, [Next]_vars
  PROVE  IInv'
<1>1. CASE \E r \in Request : EnqueueRequest(r)
  BY <1>1, EnqueueIInv
<1>2. CASE NextRequest
  BY <1>2, NextRequestIInv
<1>3. CASE Restart
  BY <1>3, RestartIInv
<1>4. CASE \/ \E r \in Request : Download(r) \/ Downloaded(r)
           \/ UNCHANGED vars
  <2>1. UNCHANGED <<jobdir, kind, seen, dqs, mqs, given, owed, restarts>>
    BY <1>4 DEF Download, Downloaded, vars
  <2>2. finished' \cap active' = {} /\ finished' \cup active' \subseteq given'
    <3>1. finished \cap active = {} /\ finished \cup active \subseteq given
      BY DEF IInv, Places
    <3>2. CASE \E r \in Request : Download(r)
      BY <3>1, <3>2 DEF Download
    <3>3. CASE \E r \in Request : Downloaded(r)
      BY <3>1, <3>3 DEF Downloaded
    <3>4. CASE UNCHANGED vars
      BY <3>1, <3>4 DEF vars
    <3>5. QED
      BY <1>4, <3>2, <3>3, <3>4
  <2>3. Types' /\ Accounts'
    BY <2>1 DEF IInv, Types, Accounts
  <2>4. Places'
    BY <2>1, <2>2 DEF IInv, Places
  <2>5. StoreOK(seen', mqs') /\ StoreOK(seen', dqs')
    BY <2>1 DEF IInv, Queues
  <2>6. Queues'
    BY <2>1, <2>5, QueuesKept
  <2>7. QED
    BY <2>3, <2>4, <2>6 DEF IInv
<1>5. QED
  BY <1>1, <1>2, <1>3, <1>4 DEF Next

(* The invariant holds in every reachable state, for every set of requests *)
(* of whatever slots, priorities and kinds, and however often the crawl is *)
(* stopped and resumed.                                                    *)
THEOREM InvariantTheorem == Spec => []IInv
<1>1. Init => IInv
  BY InitIInv
<1>2. IInv /\ [Next]_vars => IInv'
  BY NextIInv
<1>3. QED
  BY <1>1, <1>2, PTL DEF Spec

LEMMA TypesFollow == IInv => TypeOK
<1> SUFFICES ASSUME IInv PROVE TypeOK
  OBVIOUS
<1>1. /\ jobdir \in BOOLEAN /\ restarts \in 0 .. MaxRestarts
      /\ seen \in Seq(Request) /\ IsInjective(seen)
  BY DEF IInv, Types
<1>2. StoreOK(seen, mqs) /\ StoreOK(seen, dqs) /\ Blanks(mqs) = {}
  BY DEF IInv, Queues, Accounts
<1>3. \A s \in DOMAIN mqs.pqueues : Requests(mqs.pqueues[s]) # {}
  BY <1>2, IdleSlot
<1>4. \A store \in {mqs, dqs} : \A s \in DOMAIN store.pqueues : CurprioLeads(store.pqueues[s])
  BY <1>2 DEF StoreOK, QueueOK
<1>5. /\ given \cup Pending \subseteq ToSet(seen)
      /\ Contents(mqs) \cap Contents(dqs) = {} /\ given \cap Pending = {}
      /\ finished \cap active = {} /\ finished \cup active \subseteq given
  BY SeenFacts DEF IInv, Places, Pending
<1>6. owed \in 0 .. Len(seen)
  <2>1. IsFiniteSet(Blanks(dqs)) /\ owed \in Int /\ Cardinality(Blanks(dqs)) <= owed
        /\ owed <= Len(seen) /\ Len(seen) \in Nat
    BY <1>1 DEF IInv, Accounts
  <2>2. Cardinality(Blanks(dqs)) \in Nat
    BY <2>1, FS_CardinalityType
  <2>3. QED
    BY <2>1, <2>2
<1>7. QED
  BY <1>1, <1>3, <1>4, <1>5, <1>6 DEF TypeOK

(* No request is queued twice, or again once it was given; a slot that is  *)
(* kept in memory has a request; curprio is never less urgent than what is *)
(* queued, so pop passes nothing over; and there are never more refusals   *)
(* than requests that could not be stored.                                 *)
THEOREM TypeCorrect == Spec => []TypeOK
BY InvariantTheorem, TypesFollow, PTL

-----------------------------------------------------------------------------
(* The implementation of RequestStore. *)

(* What goes sooner is not behind. *)
LEMMA SoonerFacts ==
  ASSUME IInv, NEW x \in Range(seen), NEW y \in Range(seen)
  PROVE  /\ ~ Promise!Before(x, x)
         /\ Sooner(seen, x, y) => ~ Promise!Before(y, x)
<1>1. /\ seen \in Seq(Request) /\ IsInjective(seen) /\ kind \in Kindings
  BY DEF IInv, Types
<1>2. \A r \in Request : kind[r].prio \in Int /\ kind[r].start \in BOOLEAN
  BY <1>1, KindingsAssumption DEF Kind
<1>3. /\ x \in Request /\ y \in Request
      /\ DOMAIN seen \subseteq Int
  BY <1>1, RangeOfSeq
<1>4. ASSUME NEW r \in Range(seen)
      PROVE  Promise!Position(r) \in DOMAIN seen /\ seen[Promise!Position(r)] = r
  <2>1. \E i \in DOMAIN seen : seen[i] = r
    BY DEF Range
  <2>2. QED
    BY <2>1 DEF Promise!Position
<1>5. ASSUME NEW a \in Range(seen), NEW b \in Range(seen), Earlier(seen, a, b)
      PROVE  Promise!Position(a) < Promise!Position(b)
  <2>1. PICK i, j \in DOMAIN seen : i < j /\ seen[i] = a /\ seen[j] = b
    BY <1>5 DEF Earlier
  <2>2. i = Promise!Position(a) /\ j = Promise!Position(b)
    BY <1>1, <1>4, <2>1 DEF IsInjective
  <2>3. QED
    BY <2>1, <2>2
<1>6. Promise!Position(x) \in Int /\ Promise!Position(y) \in Int
  BY <1>3, <1>4
<1>7. ~ Promise!Before(x, x)
  <2> DEFINE p == Promise!Position(x)
  <2>1. p \in Int
    BY <1>6
  <2> HIDE DEF p
  <2>2. ~ (p < p) /\ ~ (p > p)
    BY <2>1
  <2>3. ~ (kind[x].prio < kind[x].prio)
    BY <1>2, <1>3
  <2>4. QED
    BY <2>2, <2>3 DEF Promise!Before, p
<1>8. ASSUME Sooner(seen, x, y) PROVE ~ Promise!Before(y, x)
  <2>1. /\ kind[x].prio \in Int /\ kind[y].prio \in Int
        /\ kind[x].start \in BOOLEAN /\ kind[y].start \in BOOLEAN
    BY <1>2, <1>3
  <2>2. CASE kind[x].prio < kind[y].prio
    <3>1. ~ (kind[y].prio < kind[x].prio) /\ kind[y].prio # kind[x].prio
      BY <2>1, <2>2
    <3>2. QED
      BY <3>1 DEF Promise!Before
  <2>3. CASE kind[x].prio = kind[y].prio /\ ~ kind[x].start /\ kind[y].start
    <3>1. ~ (kind[y].prio < kind[x].prio)
      BY <2>1, <2>3
    <3>2. QED
      BY <2>3, <3>1 DEF Promise!Before
  <2>4. CASE /\ kind[x].prio = kind[y].prio /\ ~ kind[x].start /\ ~ kind[y].start
             /\ Earlier(seen, y, x)
    <3>1. ~ (kind[y].prio < kind[x].prio)
      BY <2>1, <2>4
    <3>2. ~ (Promise!Position(y) > Promise!Position(x))
      BY <1>5, <1>6, <2>4
    <3>3. QED
      BY <2>4, <3>1, <3>2 DEF Promise!Before
  <2>5. CASE /\ kind[x].prio = kind[y].prio /\ kind[x].start /\ kind[y].start
             /\ Earlier(seen, x, y)
    <3>1. ~ (kind[y].prio < kind[x].prio)
      BY <2>1, <2>5
    <3>2. ~ (Promise!Position(y) < Promise!Position(x))
      BY <1>5, <1>6, <2>5
    <3>3. QED
      BY <2>5, <3>1, <3>2 DEF Promise!Before
  <2>6. QED
    BY <1>8, <2>2, <2>3, <2>4, <2>5 DEF Sooner
<1>9. QED
  BY <1>7, <1>8

LEMMA InitPromise == Init => Promise!Init
<1>1. Contents(EmptyStore) = {}
  BY DEF Contents, EmptyStore
<1>2. QED
  BY <1>1 DEF Init, Promise!Init

LEMMA EnqueuePromise ==
  ASSUME IInv, NEW r \in Request, EnqueueRequest(r)
  PROVE  Promise!Accept(r)
<1>1. /\ r \notin Range(seen) /\ seen' = Append(seen, r)
      /\ Contents(mqs') = Contents(mqs) \cup
           (IF jobdir /\ kind[r].storable THEN {} ELSE {r})
      /\ Contents(dqs') = Contents(dqs) \cup
           (IF jobdir /\ kind[r].storable THEN {r} ELSE {})
  BY EnqueueStores
<1>2. /\ kind' = kind /\ given' = given
      /\ owed' = IF jobdir /\ ~ kind[r].storable THEN owed + 1 ELSE owed
  BY DEF EnqueueRequest
<1>3. \A i \in DOMAIN seen : seen[i] # r
  BY <1>1 DEF Range
<1>4. CASE jobdir /\ kind[r].storable
  BY <1>1, <1>2, <1>3, <1>4 DEF Promise!Accept
<1>5. CASE ~ (jobdir /\ kind[r].storable)
  <2>1. Contents(mqs') = Contents(mqs) \cup {r} /\ Contents(dqs') = Contents(dqs)
    BY <1>1, <1>5
  <2>2. owed' \in {owed, owed + 1}
    BY <1>2
  <2>3. QED
    BY <1>1, <1>2, <1>3, <2>1, <2>2 DEF Promise!Accept
<1>6. QED
  BY <1>4, <1>5

LEMMA NextRequestPromise ==
  ASSUME IInv, NextRequest
  PROVE  \/ (\E r \in Request : Promise!Give(r)) \/ Promise!Refuse
         \/ UNCHANGED Promise!vars
<1>1. /\ FromMemory \/ FromDisk
      /\ kind' = kind /\ seen' = seen
      /\ FromDisk /\ SlotOut(dqs) = {} /\ Contents(dqs) # {} => owed > 0
  BY NextRequestCases
<1>2. /\ SlotOut(mqs) \subseteq Contents(mqs) /\ \A x, y \in SlotOut(mqs) : x = y
      /\ SlotOut(dqs) \subseteq Contents(dqs) /\ \A x, y \in SlotOut(dqs) : x = y
      /\ Contents(PopSlot(mqs)) = Contents(mqs) \ SlotOut(mqs)
      /\ Contents(PopSlot(dqs)) = Contents(dqs) \ SlotOut(dqs)
      /\ \A x \in SlotOut(mqs), y \in Contents(mqs) \ SlotOut(mqs) :
           kind[x].slot = kind[y].slot => Sooner(seen, x, y)
      /\ \A x \in SlotOut(dqs), y \in Contents(dqs) \ SlotOut(dqs) :
           kind[x].slot = kind[y].slot => Sooner(seen, x, y)
      /\ SlotOut(mqs) = {} => Contents(mqs) = {}
  BY NextRequestStores
<1>3. /\ Contents(mqs) \subseteq Range(seen) /\ Contents(dqs) \subseteq Range(seen)
      /\ Contents(mqs) \cap Contents(dqs) = {} /\ Range(seen) \subseteq Request
  BY RangeOfSeq DEF IInv, Types, Places
<1>4. ASSUME NEW x \in Range(seen), NEW y \in Range(seen),
             x = y \/ (kind[x].slot = kind[y].slot => Sooner(seen, x, y))
      PROVE  ~ Promise!Before(y, x)
  <2>1. CASE kind[x].slot # kind[y].slot
    BY <2>1 DEF Promise!Before
  <2>2. CASE kind[x].slot = kind[y].slot
    BY <1>4, <2>2, SoonerFacts
  <2>3. QED
    BY <2>1, <2>2
<1>5. CASE FromMemory
  <2>1. /\ SlotOut(mqs) # {} /\ mqs' = PopSlot(mqs) /\ dqs' = dqs
        /\ given' = given \cup SlotOut(mqs) /\ owed' = owed
    BY <1>5 DEF FromMemory
  <2>2. PICK x \in SlotOut(mqs) : SlotOut(mqs) = {x}
    BY <1>2, <2>1
  <2>3. \A y \in Contents(mqs) : ~ Promise!Before(y, x)
    BY <1>2, <1>3, <1>4, <2>2
  <2>4. /\ x \in Contents(mqs) /\ Contents(mqs) # {} /\ x \in Request
        /\ Contents(mqs') = Contents(mqs) \ {x} /\ Contents(dqs') = Contents(dqs) \ {x}
        /\ given' = given \cup {x}
    BY <1>2, <1>3, <2>1, <2>2
  <2>5. Promise!Give(x)
    BY <1>1, <2>1, <2>3, <2>4 DEF Promise!Give
  <2>6. QED
    BY <2>4, <2>5
<1>6. CASE FromDisk /\ SlotOut(dqs) # {}
  <2>1. /\ SlotOut(mqs) = {} /\ mqs' = PopSlot(mqs) /\ dqs' = PopSlot(dqs)
        /\ given' = given \cup SlotOut(dqs) /\ owed' = owed
    BY <1>6 DEF FromDisk
  <2>2. PICK x \in SlotOut(dqs) : SlotOut(dqs) = {x}
    BY <1>2, <1>6
  <2>3. \A y \in Contents(dqs) : ~ Promise!Before(y, x)
    BY <1>2, <1>3, <1>4, <2>2
  <2>4. /\ x \in Contents(dqs) /\ Contents(mqs) = {} /\ x \in Request
        /\ Contents(mqs') = Contents(mqs) \ {x} /\ Contents(dqs') = Contents(dqs) \ {x}
        /\ given' = given \cup {x}
    BY <1>2, <1>3, <2>1, <2>2
  <2>5. Promise!Give(x)
    BY <1>1, <2>1, <2>3, <2>4 DEF Promise!Give
  <2>6. QED
    BY <2>4, <2>5
<1>7. CASE FromDisk /\ SlotOut(dqs) = {}
  <2>1. /\ SlotOut(mqs) = {} /\ mqs' = PopSlot(mqs) /\ dqs' = PopSlot(dqs)
        /\ given' = given
        /\ owed' = IF Contents(dqs) # {} THEN owed - 1 ELSE owed
    BY <1>7 DEF FromDisk
  <2>2. /\ Contents(mqs) = {} /\ Contents(mqs') = Contents(mqs)
        /\ Contents(dqs') = Contents(dqs) /\ (Contents(dqs) # {} => owed > 0)
    BY <1>1, <1>2, <1>7, <2>1
  <2>3. CASE Contents(dqs) # {}
    BY <1>1, <2>1, <2>2, <2>3 DEF Promise!Refuse
  <2>4. CASE Contents(dqs) = {}
    BY <1>1, <2>1, <2>2, <2>4 DEF Promise!vars
  <2>5. QED
    BY <2>3, <2>4
<1>8. QED
  BY <1>1, <1>5, <1>6, <1>7

LEMMA NextPromise ==
  ASSUME IInv, [Next]_vars
  PROVE  [Promise!Next]_(Promise!vars)
<1>1. CASE \E r \in Request : EnqueueRequest(r)
  BY <1>1, EnqueuePromise DEF Promise!Next
<1>2. CASE NextRequest
  BY <1>2, NextRequestPromise DEF Promise!Next
<1>3. CASE Restart
  <2>1. /\ Contents(dqs') = Contents(dqs) /\ Contents(mqs') = {}
    BY <1>3, RestartIInv
  <2>2. UNCHANGED <<kind, seen, given, owed>>
    BY <1>3 DEF Restart
  <2>3. Promise!Resume
    BY <2>1, <2>2 DEF Promise!Resume
  <2>4. QED
    BY <2>3 DEF Promise!Next
<1>4. CASE \/ \E r \in Request : Download(r) \/ Downloaded(r)
           \/ UNCHANGED vars
  <2>1. UNCHANGED <<kind, seen, dqs, mqs, given, owed>>
    BY <1>4 DEF Download, Downloaded, vars
  <2>2. QED
    BY <2>1 DEF Promise!vars
<1>5. QED
  BY <1>1, <1>2, <1>3, <1>4 DEF Next

(* The scheduler implements RequestStore: a request is accepted once and   *)
(* given out once; of a slot's requests that are in memory, and of those   *)
(* on disk, the most urgent goes first, but any in memory goes before a    *)
(* more urgent one on disk; only a request that could not be stored lets   *)
(* next_request return None while others are stored, and only once; and    *)
(* stopping and resuming the crawl changes nothing for what is stored.     *)
THEOREM PromiseTheorem == Spec => KeepsPromise
<1>1. Init => Promise!Init
  BY InitPromise
<1>2. IInv /\ [Next]_vars => [Promise!Next]_(Promise!vars)
  BY NextPromise
<1>3. QED
  BY <1>1, <1>2, InvariantTheorem, PTL DEF Spec, KeepsPromise, Promise!Spec
=============================================================================
