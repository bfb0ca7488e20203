----------------------- MODULE ScrapyDownloaderProofs -----------------------
(***************************************************************************)
(* Machine-checked facts about ScrapyDownloader, for every set of requests *)
(* and slots, concurrency, delay and age of the garbage collector.         *)
(***************************************************************************)
EXTENDS ScrapyDownloader, SeqFacts, TLAPS

LEMMA MembersAreRange == \A seq : Members(seq) = Range(seq)
BY DEF Members, Range

-----------------------------------------------------------------------------
(* Cancelling timers takes them out of the loop's queue and leaves the     *)
(* rest of it in order.                                                    *)
Handle == Request \cup SlotKey

Sublist(q, n, keys) ==
  /\ q \in Seq(Handle)
  /\ \A i \in 1 .. Len(q) : \E a \in 1 .. n : q[i] = ready[a] /\ ready[a] \notin keys
  /\ \A a \in 1 .. n : ready[a] \notin keys => \E i \in 1 .. Len(q) : q[i] = ready[a]
  /\ \A i, j \in 1 .. Len(q) :
       i < j => \E a, b \in 1 .. n : a < b /\ q[i] = ready[a] /\ q[j] = ready[b]

LEMMA SublistEmpty == ASSUME NEW keys PROVE Sublist(<<>>, 0, keys)
BY DEF Sublist

LEMMA SublistSkip ==
  ASSUME ready \in Seq(Handle), NEW keys, NEW n \in Nat, n + 1 \in 1 .. Len(ready),
         NEW q, Sublist(q, n, keys), ready[n + 1] \in keys
  PROVE  Sublist(q, n + 1, keys)
<1>1. 1 .. n + 1 = (1 .. n) \cup {n + 1}
  OBVIOUS
<1>2. \A a \in 1 .. n + 1 : ready[a] \notin keys => a \in 1 .. n
  BY <1>1
<1>3. \A a \in 1 .. n : a \in 1 .. n + 1
  BY <1>1
<1>4. QED
  BY <1>2, <1>3 DEF Sublist

LEMMA SublistAppend ==
  ASSUME ready \in Seq(Handle), NEW keys, NEW n \in Nat, n + 1 \in 1 .. Len(ready),
         NEW q, Sublist(q, n, keys), ready[n + 1] \notin keys
  PROVE  Sublist(Append(q, ready[n + 1]), n + 1, keys)
<1> DEFINE x == ready[n + 1]
           p == Append(q, x)
<1>1. 1 .. n + 1 = (1 .. n) \cup {n + 1}
  OBVIOUS
<1>2. q \in Seq(Handle) /\ x \in Handle
  BY DEF Sublist
<1>3. /\ p \in Seq(Handle) /\ Len(p) = Len(q) + 1 /\ Len(q) \in Nat
      /\ p[Len(q) + 1] = x
      /\ \A i \in 1 .. Len(q) : p[i] = q[i]
  BY <1>2
<1> HIDE DEF x, p
<1>4. \A i \in 1 .. Len(p) : i \in 1 .. Len(q) \/ i = Len(q) + 1
  BY <1>3
<1>5. ASSUME NEW i \in 1 .. Len(p)
      PROVE  \E a \in 1 .. n + 1 : p[i] = ready[a] /\ ready[a] \notin keys
  <2>1. CASE i \in 1 .. Len(q)
    <3>1. PICK a \in 1 .. n : q[i] = ready[a] /\ ready[a] \notin keys
      BY <2>1 DEF Sublist
    <3>2. a \in 1 .. n + 1 /\ p[i] = q[i]
      BY <1>1, <1>3, <2>1
    <3>3. QED
      BY <3>1, <3>2
  <2>2. CASE i = Len(q) + 1
    <3>1. p[i] = ready[n + 1] /\ n + 1 \in 1 .. n + 1
      BY <1>3, <2>2 DEF x
    <3>2. QED
      BY <3>1
  <2>3. QED
    BY <1>4, <2>1, <2>2
<1>6. ASSUME NEW a \in 1 .. n + 1, ready[a] \notin keys
      PROVE  \E i \in 1 .. Len(p) : p[i] = ready[a]
  <2>1. CASE a \in 1 .. n
    <3>1. PICK i \in 1 .. Len(q) : q[i] = ready[a]
      BY <1>6, <2>1 DEF Sublist
    <3>2. i \in 1 .. Len(p) /\ p[i] = q[i]
      BY <1>3
    <3>3. QED
      BY <3>1, <3>2
  <2>2. CASE a = n + 1
    <3>1. Len(q) + 1 \in 1 .. Len(p)
      BY <1>3
    <3>2. QED
      BY <1>3, <2>2, <3>1 DEF x
  <2>3. QED
    BY <1>1, <2>1, <2>2
<1>7. ASSUME NEW i \in 1 .. Len(p), NEW j \in 1 .. Len(p), i < j
      PROVE  \E a, b \in 1 .. n + 1 : a < b /\ p[i] = ready[a] /\ p[j] = ready[b]
  <2>1. i \in 1 .. Len(q) /\ p[i] = q[i]
    BY <1>3, <1>7
  <2>2. CASE j \in 1 .. Len(q)
    <3>1. PICK a \in 1 .. n, b \in 1 .. n : a < b /\ q[i] = ready[a] /\ q[j] = ready[b]
      BY <1>7, <2>1, <2>2 DEF Sublist
    <3>2. p[j] = q[j]
      BY <1>3, <2>2
    <3>3. QED
      BY <1>1, <2>1, <3>1, <3>2
  <2>3. CASE j = Len(q) + 1
    <3>1. PICK a \in 1 .. n : q[i] = ready[a]
      BY <2>1 DEF Sublist
    <3>2. a < n + 1 /\ a \in 1 .. n + 1 /\ n + 1 \in 1 .. n + 1
      OBVIOUS
    <3>3. p[j] = ready[n + 1]
      BY <1>3, <2>3 DEF x
    <3>4. QED
      BY <2>1, <3>1, <3>2, <3>3
  <2>4. QED
    BY <1>4, <2>2, <2>3
<1>8. QED
  BY <1>3, <1>5, <1>6, <1>7 DEF Sublist, p, x

(* The recursive function of Cancel, and a function it equals. *)
KeptStep(keys, kept) ==
  [n \in 0 .. Len(ready) |->
     IF n = 0 THEN <<>>
     ELSE IF ready[n] \in keys THEN kept[n - 1] ELSE Append(kept[n - 1], ready[n])]

Kept(keys) == CHOOSE kept : kept = KeptStep(keys, kept)

LEMMA CancelIsKept == \A keys : Cancel(keys) = Kept(keys)[Len(ready)]
BY DEF Cancel, Kept, KeptStep

LEMMA KeptExists ==
  ASSUME ready \in Seq(Handle), NEW keys
  PROVE  Kept(keys) = KeptStep(keys, Kept(keys))
<1> DEFINE next(kept, n) == IF n = 0 THEN <<>>
                            ELSE IF ready[n] \in keys THEN kept[n - 1]
                                 ELSE Append(kept[n - 1], ready[n])
           upTo(n) == \E kept : kept = [m \in 0 .. n |-> next(kept, m)]
           S == {n \in Nat : upTo(n)}
<1> HIDE DEF next
<1>1. \A f, g, n : n # 0 /\ f[n - 1] = g[n - 1] => next(f, n) = next(g, n)
  BY DEF next
<1>2. \A f, g : next(f, 0) = next(g, 0)
  BY DEF next
<1>3. 0 \in S
  <2>1. PICK f : f = [m \in 0 .. 0 |-> next(<<>>, m)]
    OBVIOUS
  <2>2. f = [m \in 0 .. 0 |-> next(f, m)]
    <3>1. \A m \in 0 .. 0 : next(<<>>, m) = next(f, m)
      BY <1>2
    <3>2. QED
      BY <2>1, <3>1
  <2>3. QED
    BY <2>2
<1>4. ASSUME NEW n \in Nat, n \in S PROVE n + 1 \in S
  <2>1. PICK f : f = [m \in 0 .. n |-> next(f, m)]
    BY <1>4
  <2>2. PICK g : g = [m \in 0 .. n + 1 |-> IF m \in 0 .. n THEN f[m] ELSE next(f, m)]
    OBVIOUS
  <2>3. ASSUME NEW m \in 0 .. n + 1 PROVE g[m] = next(g, m)
    <3>1. CASE m = 0
      <4>1. g[0] = f[0]
        BY <2>2
      <4>2. f[0] = next(f, 0)
        BY <2>1
      <4>3. QED
        BY <1>2, <3>1, <4>1, <4>2
    <3>2. CASE m # 0
      <4>1. m - 1 \in 0 .. n /\ g[m - 1] = f[m - 1]
        BY <2>2, <3>2
      <4>2. next(f, m) = next(g, m)
        BY <1>1, <3>2, <4>1
      <4>3. g[m] = next(f, m)
        <5>1. CASE m \in 0 .. n
          BY <2>1, <2>2, <5>1
        <5>2. CASE m \notin 0 .. n
          BY <2>2, <5>2
        <5>3. QED
          BY <5>1, <5>2
      <4>4. QED
        BY <4>2, <4>3
    <3>3. QED
      BY <3>1, <3>2
  <2>4. g = [m \in 0 .. n + 1 |-> next(g, m)]
    BY <2>2, <2>3
  <2>5. QED
    BY <2>4
<1>5. Len(ready) \in S
  <2>1. Len(ready) \in Nat
    OBVIOUS
  <2> HIDE DEF S
  <2>2. QED
    BY <1>3, <1>4, <2>1, SetInduction
<1>6. \E kept : kept = KeptStep(keys, kept)
  BY <1>5 DEF KeptStep, next
<1>7. QED
  BY <1>6 DEF Kept

LEMMA CancelFacts ==
  ASSUME ready \in Seq(Handle), NEW keys
  PROVE  Sublist(Cancel(keys), Len(ready), keys)
<1> DEFINE kept == Kept(keys)
           S == {n \in Nat : n <= Len(ready) => Sublist(kept[n], n, keys)}
<1>1. /\ kept[0] = <<>>
      /\ \A n \in Nat : n + 1 <= Len(ready) =>
           kept[n + 1] = IF ready[n + 1] \in keys THEN kept[n]
                         ELSE Append(kept[n], ready[n + 1])
  <2>1. kept = KeptStep(keys, kept) /\ Len(ready) \in Nat
    BY KeptExists
  <2> HIDE DEF kept
  <2>2. \A n \in 0 .. Len(ready) :
          kept[n] = IF n = 0 THEN <<>>
                    ELSE IF ready[n] \in keys THEN kept[n - 1]
                         ELSE Append(kept[n - 1], ready[n])
    BY <2>1 DEF KeptStep
  <2>3. ASSUME NEW n \in Nat, n + 1 <= Len(ready)
        PROVE  kept[n + 1] = IF ready[n + 1] \in keys THEN kept[n]
                             ELSE Append(kept[n], ready[n + 1])
    <3>1. n + 1 \in 0 .. Len(ready) /\ n + 1 # 0 /\ (n + 1) - 1 = n
      BY <2>1, <2>3
    <3>2. QED
      BY <2>2, <3>1
  <2>4. QED
    BY <2>1, <2>2, <2>3
<1> HIDE DEF kept
<1>2. 0 \in S
  BY <1>1, SublistEmpty
<1>3. ASSUME NEW n \in Nat, n \in S PROVE n + 1 \in S
  <2>1. SUFFICES ASSUME n + 1 <= Len(ready) PROVE Sublist(kept[n + 1], n + 1, keys)
    OBVIOUS
  <2>2. n + 1 \in 1 .. Len(ready) /\ Sublist(kept[n], n, keys)
    BY <1>3, <2>1
  <2>3. CASE ready[n + 1] \in keys
    BY <1>1, <2>1, <2>2, <2>3, SublistSkip
  <2>4. CASE ready[n + 1] \notin keys
    BY <1>1, <2>1, <2>2, <2>4, SublistAppend
  <2>5. QED
    BY <2>3, <2>4
<1>4. Len(ready) \in S
  <2>1. Len(ready) \in Nat
    OBVIOUS
  <2> HIDE DEF S
  <2>2. QED
    BY <1>2, <1>3, <2>1, SetInduction
<1>5. QED
  BY <1>4, CancelIsKept DEF kept
-----------------------------------------------------------------------------
(* What one pass of _process_queue leaves, having popped n requests and    *)
(* with this timer.                                                        *)
Served(k, s, tasks, st, n, timer) ==
  LET popped == Firsts(s.queue, n)
      started == IF asyncio THEN {} ELSE Range(popped)
  IN  /\ slots' = [j \in DOMAIN slots \cup {k} |->
           IF j # k THEN slots[j]
           ELSE [active |-> s.active, queue |-> Others(s.queue, n),
                 transferring |-> s.transferring \cup started,
                 since |-> IF n > 0 THEN 0 ELSE s.since,
                 timer |-> timer]]
      /\ stage' = [r \in Request |->
           IF r \notin Range(popped) THEN st[r]
           ELSE IF asyncio THEN "launched" ELSE "transferring"]
      /\ ready' = IF asyncio THEN tasks \o popped ELSE tasks
      /\ quiet' = IF n > 0 THEN [quiet EXCEPT ![k] = 0] ELSE quiet

(* When a pass pops, and how much. *)
Allowed(k, s, n, timer) ==
  /\ s.timer # Idle => n = 0 /\ timer = s.timer
  /\ n > 0 => Cardinality(s.transferring) < Concurrency[k]
  /\ n > 0 /\ Delay[k] > 0 =>
       n = 1 /\ timer > 0 /\ \E d \in Delays[k] : d <= s.since
  /\ Delay[k] = 0 /\ ~ asyncio /\ n > 0 =>
       n <= Concurrency[k] - Cardinality(s.transferring)

LEMMA DelayFacts ==
  ASSUME NEW k \in SlotKey
  PROVE  /\ Concurrency[k] \in Nat \ {0} /\ Delay[k] \in Nat /\ LongAgo \in Nat
         /\ Delay[k] = 0 => Delays[k] = {0}
         /\ Delay[k] > 0 => \A d \in Delays[k] : d \in 1 .. LongAgo
         /\ \A d \in Delays[k] : d \in 0 .. LongAgo
         /\ Delay[k] > 0 => \E d \in Delays[k] : d <= Delay[k]
         /\ GcAge \in Nat /\ GcAge + Delay[k] < LongAgo
<1>1. /\ Concurrency[k] \in Nat \ {0} /\ Delay[k] \in Nat /\ LongAgo \in Nat
      /\ GcAge \in Nat /\ GcAge + Delay[k] < LongAgo
      /\ Delay[k] = 0 => Delays[k] = {0}
      /\ Delay[k] # 0 => Delays[k] \subseteq 1 .. LongAgo
                         /\ \E d \in Delays[k] : d <= Delay[k]
  BY SlotsAssumption
<1>2. QED
  BY <1>1

LEMMA ProcessEffect ==
  ASSUME NEW k \in SlotKey, NEW s \in Slot, IsFiniteSet(s.transferring),
         NEW tasks, NEW st, ProcessQueue(k, s, tasks, st)
  PROVE  \E n \in 0 .. Len(s.queue), timer \in Idle .. LongAgo :
           Served(k, s, tasks, st, n, timer) /\ Allowed(k, s, n, timer)
<1>1. PICK delay \in Delays[k], again \in Delays[k] :
        LET blocked == s.timer # Idle
            penalty == delay - s.since
            n == IF blocked \/ penalty > 0 THEN 0 ELSE Pops(k, s, delay)
            popped == SubSeq(s.queue, 1, n)
            started == IF asyncio THEN {} ELSE Members(popped)
        IN  /\ slots' = [j \in DOMAIN slots \cup {k} |->
                 IF j # k THEN slots[j]
                 ELSE [active |-> s.active,
                       queue |-> SubSeq(s.queue, n + 1, Len(s.queue)),
                       transferring |-> s.transferring \cup started,
                       since |-> IF n > 0 THEN 0 ELSE s.since,
                       timer |-> IF blocked THEN s.timer
                                 ELSE IF penalty > 0 THEN penalty
                                 ELSE IF n > 0 /\ delay > 0 THEN again
                                 ELSE Idle]]
            /\ stage' = [r \in Request |->
                 IF r \notin Members(popped) THEN st[r]
                 ELSE IF asyncio THEN "launched" ELSE "transferring"]
            /\ ready' = IF asyncio THEN tasks \o popped ELSE tasks
            /\ quiet' = IF n > 0 THEN [quiet EXCEPT ![k] = 0] ELSE quiet
  BY Zenon DEF ProcessQueue
<1> DEFINE blocked == s.timer # Idle
           penalty == delay - s.since
           n == IF blocked \/ penalty > 0 THEN 0 ELSE Pops(k, s, delay)
           timer == IF blocked THEN s.timer
                    ELSE IF penalty > 0 THEN penalty
                    ELSE IF n > 0 /\ delay > 0 THEN again
                    ELSE Idle
<1>2. Served(k, s, tasks, st, n, timer)
  BY <1>1, MembersAreRange, Zenon DEF Served, Firsts, Others
<1>3. /\ s.queue \in Seq(Request) /\ Len(s.queue) \in Nat
      /\ s.since \in 0 .. LongAgo /\ s.timer \in Idle .. LongAgo
      /\ Cardinality(s.transferring) \in Nat
  BY FS_CardinalityType DEF Slot
<1>4. /\ delay \in 0 .. LongAgo /\ again \in 0 .. LongAgo
      /\ Delay[k] > 0 => delay > 0 /\ again > 0
      /\ Delay[k] = 0 => delay = 0
      /\ Concurrency[k] \in Nat /\ LongAgo \in Nat /\ Delay[k] \in Nat
  BY DelayFacts
<1> DEFINE free == Concurrency[k] - Cardinality(s.transferring)
           waiting == Len(s.queue)
<1>5. /\ n = 0 \/ (~ blocked /\ ~ penalty > 0 /\ n = Pops(k, s, delay))
      /\ Pops(k, s, delay) =
           IF free <= 0 \/ waiting = 0 THEN 0
           ELSE IF delay > 0 THEN 1
           ELSE IF asyncio \/ waiting <= free THEN waiting
           ELSE free
  BY DEF Pops, FreeTransferSlots
<1>6. n \in 0 .. Len(s.queue)
  BY <1>3, <1>4, <1>5
<1>7. timer \in Idle .. LongAgo
  BY <1>3, <1>4 DEF Idle
<1>8. Allowed(k, s, n, timer)
  <2>1. s.timer # Idle => n = 0 /\ timer = s.timer
    OBVIOUS
  <2>2. n > 0 => ~ blocked /\ ~ penalty > 0 /\ free > 0 /\ n = Pops(k, s, delay)
    BY <1>3, <1>4, <1>5
  <2>3. n > 0 => timer = IF delay > 0 THEN again ELSE Idle
    BY <2>2
  <2>4. n > 0 => delay <= s.since
    BY <1>3, <1>4, <2>2
  <2> HIDE DEF n, timer
  <2>5. n > 0 /\ Delay[k] > 0 => n = 1 /\ timer > 0 /\ \E d \in Delays[k] : d <= s.since
    BY <1>3, <1>4, <1>5, <2>2, <2>3, <2>4
  <2>6. n > 0 => Cardinality(s.transferring) < Concurrency[k]
    BY <1>3, <1>4, <2>2
  <2>7. Delay[k] = 0 /\ ~ asyncio /\ n > 0 => n <= free
    BY <1>3, <1>4, <1>5, <2>2
  <2>8. QED
    BY <2>1, <2>5, <2>6, <2>7 DEF Allowed
<1> HIDE DEF n, timer
<1>9. QED
  BY <1>2, <1>6, <1>7, <1>8

-----------------------------------------------------------------------------
(* Where requests and timers are, the slots being sl, the loop's queue tk  *)
(* and the stages st: _process_queue starts from a configuration that no   *)
(* state holds, its caller having changed the slot before.                 *)
During(st, k, stages) == {r \in Request : keyOf[r] = k /\ st[r] \in stages}

Waits(sl, st, k) ==
  /\ sl[k].active = During(st, k, InSlot)
  /\ sl[k].transferring = During(st, k, {"transferring", "failing"})
  /\ Range(sl[k].queue) = During(st, k, {"queued"})
  /\ IsInjective(sl[k].queue)

LoopQueue(sl, tk, st) ==
  /\ tk \in Seq(Handle) /\ IsInjective(tk)
  /\ \A r \in Request : r \in Range(tk) <=> st[r] = "launched"
  /\ \A k \in SlotKey : k \in Range(tk) => k \in DOMAIN sl /\ sl[k].timer = 0

Placement(sl, tk, st) ==
  /\ st \in [Request -> Stages]
  /\ DOMAIN sl \subseteq SlotKey
  /\ \A k \in DOMAIN sl : sl[k] \in Slot
  /\ \A r \in Request : st[r] \in InSlot => keyOf[r] \in DOMAIN sl
  /\ \A k \in DOMAIN sl : Waits(sl, st, k)
  /\ LoopQueue(sl, tk, st)

Fetched == active = {r \in Request : stage[r] \notin {"new", "done"}}

Types ==
  /\ asyncio \in BOOLEAN /\ total \in Nat /\ gc \in BOOLEAN /\ closed \in BOOLEAN
  /\ keyOf \in [Request -> SlotKey]
  /\ quiet \in [SlotKey -> 0 .. LongAgo]

Core == Types /\ Fetched /\ IsFiniteSet(active) /\ Placement(slots, ready, stage)

(* The slots while _process_queue runs. *)
With(k, s) == [j \in DOMAIN slots \cup {k} |-> IF j = k THEN s ELSE slots[j]]

LEMMA ServedPlacement ==
  ASSUME Types, NEW k \in SlotKey, NEW s \in Slot, NEW tasks, NEW st,
         Placement(With(k, s), tasks, st),
         NEW n \in 0 .. Len(s.queue), NEW timer \in Idle .. LongAgo,
         Served(k, s, tasks, st, n, timer), Allowed(k, s, n, timer)
  PROVE  /\ Placement(slots', ready', stage')
         /\ Range(Firsts(s.queue, n)) \subseteq During(st, k, {"queued"})
<1> DEFINE popped == Firsts(s.queue, n)
           rest == Others(s.queue, n)
           went == IF asyncio THEN "launched" ELSE "transferring"
<1>1. /\ DOMAIN With(k, s) = DOMAIN slots \cup {k}
      /\ With(k, s)[k] = s
      /\ \A j \in DOMAIN slots \ {k} : With(k, s)[j] = slots[j]
  BY DEF With
<1>2. /\ s.queue \in Seq(Request) /\ IsInjective(s.queue)
      /\ s.active = During(st, k, InSlot)
      /\ s.transferring = During(st, k, {"transferring", "failing"})
      /\ Range(s.queue) = During(st, k, {"queued"})
  <2>1. Waits(With(k, s), st, k)
    BY <1>1 DEF Placement
  <2>2. QED
    BY <1>1, <2>1 DEF Waits, Slot
<1>3. /\ popped \in Seq(Request) /\ IsInjective(popped)
      /\ rest \in Seq(Request) /\ IsInjective(rest)
      /\ Range(popped) \cap Range(rest) = {}
      /\ Range(popped) \cup Range(rest) = Range(s.queue)
  BY <1>2, SplitQueue
<1> HIDE DEF popped, rest
<1>4. /\ DOMAIN slots' = DOMAIN slots \cup {k}
      /\ \A j \in DOMAIN slots' \ {k} : slots'[j] = slots[j]
      /\ slots'[k] = [active |-> s.active, queue |-> rest,
                      transferring |-> s.transferring \cup
                                         (IF asyncio THEN {} ELSE Range(popped)),
                      since |-> IF n > 0 THEN 0 ELSE s.since,
                      timer |-> timer]
  BY DEF Served, popped, rest
<1>5. /\ \A r \in Request : stage'[r] = IF r \in Range(popped) THEN went ELSE st[r]
      /\ stage' = [r \in Request |-> stage'[r]]
  BY DEF Served, popped
<1>6. st \in [Request -> Stages]
  BY DEF Placement
<1>7. Range(popped) \subseteq During(st, k, {"queued"})
  BY <1>2, <1>3
<1>8. stage' \in [Request -> Stages]
  BY <1>5, <1>6 DEF Stages
<1>9. slots'[k] \in Slot
  <2>1. Range(popped) \subseteq Request
    BY <1>7 DEF During
  <2>2. LongAgo \in Nat
    BY DelayFacts
  <2>3. QED
    BY <1>3, <1>4, <2>1, <2>2 DEF Slot
<1>10. Waits(slots', stage', k)
  <2>1. During(stage', k, InSlot) = During(st, k, InSlot)
    BY <1>5, <1>7 DEF During, InSlot
  <2>2. During(stage', k, {"queued"}) = During(st, k, {"queued"}) \ Range(popped)
    BY <1>5 DEF During
  <2>3. During(stage', k, {"transferring", "failing"}) =
          During(st, k, {"transferring", "failing"})
            \cup (IF asyncio THEN {} ELSE Range(popped))
    BY <1>5, <1>7 DEF During
  <2>4. QED
    <3>1. slots'[k].active = During(stage', k, InSlot)
      BY <1>2, <1>4, <2>1
    <3>2. slots'[k].transferring = During(stage', k, {"transferring", "failing"})
      BY <1>2, <1>4, <2>3
    <3>3. Range(slots'[k].queue) = During(stage', k, {"queued"}) /\ IsInjective(slots'[k].queue)
      <4>1. slots'[k].queue = rest
        BY <1>4
      <4>2. Range(rest) = During(st, k, {"queued"}) \ Range(popped)
        BY <1>2, <1>3
      <4>3. QED
        BY <1>3, <2>2, <4>1, <4>2
    <3>4. QED
      BY <3>1, <3>2, <3>3, Zenon DEF Waits
<1>11. ASSUME NEW j \in DOMAIN slots' \ {k}
       PROVE  slots'[j] \in Slot /\ Waits(slots', stage', j)
  <2>1. j \in DOMAIN With(k, s) /\ slots'[j] = With(k, s)[j]
    BY <1>1, <1>4
  <2>2. \A stages : During(stage', j, stages) = During(st, j, stages)
    BY <1>5, <1>7, <1>11 DEF During
  <2>3. With(k, s)[j] \in Slot /\ Waits(With(k, s), st, j)
    BY <2>1 DEF Placement
  <2>4. QED
    BY <2>1, <2>2, <2>3 DEF Waits
<1>12. \A r \in Request : stage'[r] \in InSlot => keyOf[r] \in DOMAIN slots'
  <2>1. \A r \in Request : st[r] \in InSlot => keyOf[r] \in DOMAIN slots'
    BY <1>1, <1>4 DEF Placement
  <2>2. \A r \in Range(popped) : keyOf[r] = k
    BY <1>7 DEF During
  <2>3. QED
    BY <1>4, <1>5, <2>1, <2>2
<1>13. LoopQueue(slots', ready', stage')
  <2>1. LoopQueue(With(k, s), tasks, st)
    BY DEF Placement
  <2>2. \A r \in Range(popped) : r \in Request /\ st[r] = "queued"
    BY <1>7 DEF During
  <2>3. Range(tasks) \cap Range(popped) = {}
    BY <2>1, <2>2 DEF LoopQueue
  <2>4. tasks \in Seq(Handle) /\ popped \in Seq(Handle)
    BY <1>3, <2>1 DEF LoopQueue, Handle
  <2>5. /\ ready' \in Seq(Handle) /\ IsInjective(ready')
        /\ Range(ready') = Range(tasks) \cup (IF asyncio THEN Range(popped) ELSE {})
    <3>1. CASE asyncio
      <4>1. ready' = tasks \o popped
        BY <3>1 DEF Served, popped
      <4>2. QED
        BY <1>3, <2>1, <2>3, <2>4, <3>1, <4>1, RangeConcat, InjectiveConcat DEF LoopQueue
    <3>2. CASE ~ asyncio
      <4>1. ready' = tasks
        BY <3>2 DEF Served
      <4>2. QED
        BY <2>1, <3>2, <4>1 DEF LoopQueue
    <3>3. QED
      BY <3>1, <3>2
  <2>6. \A r \in Request : r \in Range(ready') <=> stage'[r] = "launched"
    BY <1>5, <2>1, <2>2, <2>5 DEF LoopQueue
  <2>7. ASSUME NEW j \in SlotKey, j \in Range(ready')
        PROVE  j \in DOMAIN slots' /\ slots'[j].timer = 0
    <3>1. j \in Range(tasks)
      BY <2>2, <2>5, <2>7, SlotsAssumption
    <3>2. j \in DOMAIN With(k, s) /\ With(k, s)[j].timer = 0
      BY <2>1, <3>1 DEF LoopQueue
    <3>3. CASE j = k
      <4>1. s.timer = 0
        BY <1>1, <3>2, <3>3
      <4>2. timer = s.timer
        BY <4>1 DEF Allowed, Idle
      <4>3. QED
        BY <1>4, <3>3, <4>1, <4>2
    <3>4. CASE j # k
      BY <1>1, <1>4, <3>2, <3>4
    <3>5. QED
      BY <3>3, <3>4
  <2>8. QED
    BY <2>5, <2>6, <2>7 DEF LoopQueue
<1>14. DOMAIN slots' \subseteq SlotKey
  BY <1>1, <1>4 DEF Placement
<1>15. /\ \A j \in DOMAIN slots' : slots'[j] \in Slot
       /\ \A j \in DOMAIN slots' : Waits(slots', stage', j)
  BY <1>9, <1>10, <1>11
<1>16. QED
  BY <1>7, <1>8, <1>12, <1>13, <1>14, <1>15 DEF Placement, popped

-----------------------------------------------------------------------------
(* What the callers of _process_queue do first. *)

LEMMA EnqueueStart ==
  ASSUME Core, NEW r \in Request, stage[r] = "middleware"
  PROVE  LET k == keyOf[r]
             s == [SlotOf(k) EXCEPT !.active = @ \cup {r}, !.queue = Append(@, r)]
         IN  /\ k \in SlotKey /\ s \in Slot /\ IsFiniteSet(s.transferring)
             /\ Placement(With(k, s), ready, [stage EXCEPT ![r] = "queued"])
             /\ SlotOf(k).queue \in Seq(Request) /\ r \notin Range(SlotOf(k).queue)
<1> DEFINE k == keyOf[r]
           old == SlotOf(k)
           s == [old EXCEPT !.active = @ \cup {r}, !.queue = Append(@, r)]
           st == [stage EXCEPT ![r] = "queued"]
<1>1. k \in SlotKey /\ stage \in [Request -> Stages]
  BY DEF Core, Types, Placement
<1>2. /\ old \in Slot /\ IsInjective(old.queue)
      /\ old.active = During(stage, k, InSlot)
      /\ old.transferring = During(stage, k, {"transferring", "failing"})
      /\ Range(old.queue) = During(stage, k, {"queued"})
  <2>1. CASE k \in DOMAIN slots
    <3>1. slots[k] \in Slot /\ Waits(slots, stage, k)
      BY <2>1 DEF Core, Placement
    <3>2. old = slots[k]
      BY <2>1 DEF SlotOf
    <3>3. QED
      BY <3>1, <3>2 DEF Waits
  <2>2. CASE k \notin DOMAIN slots
    <3>1. old = NewSlot
      BY <2>2 DEF SlotOf
    <3>2. LongAgo \in Nat
      BY <1>1, DelayFacts
    <3>3. /\ old \in Slot /\ old.queue = <<>> /\ old.active = {} /\ old.transferring = {}
      BY <3>1, <3>2 DEF NewSlot, Slot, Idle
    <3>4. \A q \in Request : keyOf[q] = k => stage[q] \notin InSlot
      BY <2>2 DEF Core, Placement
    <3>5. \A stages \in SUBSET InSlot : During(stage, k, stages) = {}
      BY <3>4 DEF During
    <3>6. {"transferring", "failing"} \subseteq InSlot /\ {"queued"} \subseteq InSlot
      BY DEF InSlot
    <3>7. Range(old.queue) = {} /\ IsInjective(old.queue)
      BY <3>3 DEF Range, IsInjective
    <3>8. QED
      BY <3>3, <3>5, <3>6, <3>7
  <2>3. QED
    BY <2>1, <2>2
<1> HIDE DEF old
<1>3. /\ old.queue \in Seq(Request) /\ r \notin Range(old.queue)
      /\ old = [active |-> old.active, queue |-> old.queue,
                transferring |-> old.transferring, since |-> old.since, timer |-> old.timer]
  <2>1. stage[r] # "queued"
    OBVIOUS
  <2>2. QED
    BY <1>2, <2>1 DEF During, Slot
<1>4. /\ s = [active |-> old.active \cup {r}, queue |-> Append(old.queue, r),
              transferring |-> old.transferring, since |-> old.since, timer |-> old.timer]
      /\ s \in Slot
  <2>1. Append(old.queue, r) \in Seq(Request)
    BY <1>3
  <2>2. /\ old.active \cup {r} \in SUBSET Request /\ old.transferring \in SUBSET Request
        /\ old.since \in 0 .. LongAgo /\ old.timer \in Idle .. LongAgo
    BY <1>2 DEF Slot
  <2> DEFINE q == Append(old.queue, r)
             a == old.active \cup {r}
  <2> HIDE DEF q, a
  <2>3. s = [old EXCEPT !.active = a, !.queue = q]
    BY Zenon DEF q, a
  <2> HIDE DEF s
  <2>4. s = [active |-> a, queue |-> q, transferring |-> old.transferring,
             since |-> old.since, timer |-> old.timer]
    BY <1>2, <2>3 DEF Slot
  <2>5. s \in Slot
    BY <2>1, <2>2, <2>4 DEF Slot, q, a
  <2>6. QED
    BY <2>4, <2>5 DEF q, a
<1> HIDE DEF s
<1>5. \A q \in Request : st[q] = IF q = r THEN "queued" ELSE stage[q]
  BY <1>1
<1>6. st \in [Request -> Stages]
  BY <1>1 DEF Stages
<1> HIDE DEF st
<1>7. /\ Append(old.queue, r) = old.queue \o <<r>>
      /\ Range(<<r>>) = {r} /\ IsInjective(<<r>>) /\ <<r>> \in Seq(Request)
  BY <1>3 DEF Range, IsInjective
<1>8. IsInjective(s.queue) /\ Range(s.queue) = Range(old.queue) \cup {r}
  <2>1. Range(old.queue) \cap Range(<<r>>) = {}
    BY <1>3, <1>7
  <2>2. s.queue = old.queue \o <<r>>
    BY <1>4, <1>7
  <2> DEFINE one == <<r>>
             q == old.queue
  <2>3. /\ one \in Seq(Request) /\ IsInjective(one) /\ Range(q) \cap Range(one) = {}
        /\ q \in Seq(Request) /\ IsInjective(q)
    BY <1>2, <1>3, <1>7, <2>1
  <2> HIDE DEF one, q
  <2>4. Range(q \o one) = Range(q) \cup Range(one) /\ IsInjective(q \o one)
    BY <2>3, RangeConcat, InjectiveConcat
  <2>5. QED
    BY <1>7, <2>2, <2>4 DEF one, q
<1>9. Waits(With(k, s), st, k)
  <2>1. With(k, s)[k] = s
    BY DEF With
  <2>2. During(st, k, InSlot) = During(stage, k, InSlot) \cup {r}
    BY <1>5 DEF During, InSlot
  <2>3. During(st, k, {"queued"}) = During(stage, k, {"queued"}) \cup {r}
    BY <1>5 DEF During
  <2>4. During(st, k, {"transferring", "failing"})
          = During(stage, k, {"transferring", "failing"})
    BY <1>5 DEF During
  <2>5. s.active = old.active \cup {r} /\ s.transferring = old.transferring
    BY <1>4
  <2>6. QED
    BY <1>2, <1>8, <2>1, <2>2, <2>3, <2>4, <2>5, Zenon DEF Waits
<1>10. ASSUME NEW j \in DOMAIN slots \ {k} PROVE Waits(With(k, s), st, j)
  <2>1. With(k, s)[j] = slots[j]
    BY DEF With
  <2>2. \A stages : During(st, j, stages) = During(stage, j, stages)
    BY <1>5, <1>10 DEF During
  <2>3. Waits(slots, stage, j)
    BY DEF Core, Placement
  <2>4. QED
    BY <2>1, <2>2, <2>3 DEF Waits
<1>11. LoopQueue(With(k, s), ready, st)
  <2>1. LoopQueue(slots, ready, stage)
    BY DEF Core, Placement
  <2>2. \A q \in Request : stage[q] = "launched" <=> st[q] = "launched"
    BY <1>5
  <2>3. ASSUME NEW j \in SlotKey, j \in Range(ready)
        PROVE  j \in DOMAIN With(k, s) /\ With(k, s)[j].timer = 0
    <3>1. j \in DOMAIN slots /\ slots[j].timer = 0
      BY <2>1, <2>3 DEF LoopQueue
    <3>2. j = k => s.timer = 0
      BY <1>4, <3>1 DEF old, SlotOf
    <3>3. QED
      BY <3>1, <3>2 DEF With
  <2>4. QED
    BY <2>1, <2>2, <2>3 DEF LoopQueue
<1>12. Placement(With(k, s), ready, st)
  <2>1. DOMAIN With(k, s) = DOMAIN slots \cup {k}
    BY DEF With
  <2>2. DOMAIN With(k, s) \subseteq SlotKey
    BY <1>1, <2>1 DEF Core, Placement
  <2>3. \A j \in DOMAIN With(k, s) : With(k, s)[j] \in Slot
    BY <1>4 DEF Core, Placement, With
  <2>4. \A q \in Request : st[q] \in InSlot => keyOf[q] \in DOMAIN With(k, s)
    BY <1>5, <2>1 DEF Core, Placement
  <2>5. \A j \in DOMAIN With(k, s) : Waits(With(k, s), st, j)
    BY <1>9, <1>10, <2>1
  <2>6. QED
    BY <1>6, <1>11, <2>2, <2>3, <2>4, <2>5 DEF Placement
<1>13. IsFiniteSet(s.transferring)
  <2>1. s.transferring \subseteq active
    BY <1>2, <1>4 DEF During, Core, Fetched
  <2>2. QED
    BY <2>1, FS_Subset DEF Core
<1>14. QED
  BY <1>1, <1>3, <1>4, <1>12, <1>13 DEF s, old, st

LEMMA LeaveTransferStart ==
  ASSUME Core, NEW r \in Request, stage[r] \in {"transferring", "failing"}
  PROVE  LET k == keyOf[r]
             s == [slots[k] EXCEPT !.transferring = @ \ {r}]
         IN  /\ k \in DOMAIN slots /\ k \in SlotKey
             /\ s \in Slot /\ IsFiniteSet(s.transferring)
             /\ Placement(With(k, s), ready, [stage EXCEPT ![r] = "answered"])
<1> DEFINE k == keyOf[r]
           old == slots[k]
           s == [old EXCEPT !.transferring = @ \ {r}]
           st == [stage EXCEPT ![r] = "answered"]
<1>1. k \in SlotKey /\ stage \in [Request -> Stages] /\ k \in DOMAIN slots
  BY DEF Core, Types, Placement, InSlot
<1>2. /\ old \in Slot /\ IsInjective(old.queue)
      /\ old.active = During(stage, k, InSlot)
      /\ old.transferring = During(stage, k, {"transferring", "failing"})
      /\ Range(old.queue) = During(stage, k, {"queued"})
  <2>1. old \in Slot /\ Waits(slots, stage, k)
    BY <1>1 DEF Core, Placement
  <2>2. QED
    BY <2>1 DEF Waits
<1> HIDE DEF old
<1>3. /\ s = [active |-> old.active, queue |-> old.queue,
              transferring |-> old.transferring \ {r}, since |-> old.since,
              timer |-> old.timer]
      /\ s \in Slot
  <2>1. /\ old.active \in SUBSET Request /\ old.queue \in Seq(Request)
        /\ old.transferring \ {r} \in SUBSET Request
        /\ old.since \in 0 .. LongAgo /\ old.timer \in Idle .. LongAgo
    BY <1>2 DEF Slot
  <2> DEFINE tr == old.transferring \ {r}
  <2> HIDE DEF tr
  <2>2. s = [old EXCEPT !.transferring = tr]
    BY Zenon DEF tr
  <2>3. s = [active |-> old.active, queue |-> old.queue, transferring |-> tr,
             since |-> old.since, timer |-> old.timer]
    BY <1>2, <2>2 DEF Slot
  <2> HIDE DEF s
  <2>4. QED
    BY <2>1, <2>3 DEF Slot, tr
<1> HIDE DEF s
<1>4. \A q \in Request : st[q] = IF q = r THEN "answered" ELSE stage[q]
  BY <1>1
<1>5. st \in [Request -> Stages]
  BY <1>1 DEF Stages
<1> HIDE DEF st
<1>6. Waits(With(k, s), st, k)
  <2>1. With(k, s)[k] = s
    BY DEF With
  <2>2. During(st, k, InSlot) = During(stage, k, InSlot)
    BY <1>4 DEF During, InSlot
  <2>3. During(st, k, {"queued"}) = During(stage, k, {"queued"})
    BY <1>4 DEF During
  <2>4. During(st, k, {"transferring", "failing"})
          = During(stage, k, {"transferring", "failing"}) \ {r}
    BY <1>4 DEF During
  <2>5. /\ s.active = old.active /\ s.transferring = old.transferring \ {r}
        /\ s.queue = old.queue
    BY <1>3
  <2>6. QED
    BY <1>2, <2>1, <2>2, <2>3, <2>4, <2>5, Zenon DEF Waits
<1>7. ASSUME NEW j \in DOMAIN slots \ {k} PROVE Waits(With(k, s), st, j)
  <2>1. With(k, s)[j] = slots[j]
    BY DEF With
  <2>2. \A stages : During(st, j, stages) = During(stage, j, stages)
    BY <1>4, <1>7 DEF During
  <2>3. Waits(slots, stage, j)
    BY DEF Core, Placement
  <2>4. QED
    BY <2>1, <2>2, <2>3 DEF Waits
<1>8. LoopQueue(With(k, s), ready, st)
  <2>1. LoopQueue(slots, ready, stage)
    BY DEF Core, Placement
  <2>2. \A q \in Request : stage[q] = "launched" <=> st[q] = "launched"
    BY <1>4
  <2>3. ASSUME NEW j \in SlotKey, j \in Range(ready)
        PROVE  j \in DOMAIN With(k, s) /\ With(k, s)[j].timer = 0
    <3>1. j \in DOMAIN slots /\ slots[j].timer = 0
      BY <2>1, <2>3 DEF LoopQueue
    <3>2. j = k => s.timer = 0
      BY <1>3, <3>1 DEF old
    <3>3. QED
      BY <3>1, <3>2 DEF With
  <2>4. QED
    BY <2>1, <2>2, <2>3 DEF LoopQueue
<1>9. Placement(With(k, s), ready, st)
  <2>1. DOMAIN With(k, s) = DOMAIN slots
    BY <1>1 DEF With
  <2>2. DOMAIN With(k, s) \subseteq SlotKey
    BY <2>1 DEF Core, Placement
  <2>3. \A j \in DOMAIN With(k, s) : With(k, s)[j] \in Slot
    BY <1>3, <2>1 DEF Core, Placement, With
  <2>4. \A q \in Request : st[q] \in InSlot => keyOf[q] \in DOMAIN With(k, s)
    BY <1>1, <1>4, <2>1 DEF Core, Placement
  <2>5. \A j \in DOMAIN With(k, s) : Waits(With(k, s), st, j)
    BY <1>6, <1>7, <2>1
  <2>6. QED
    BY <1>5, <1>8, <2>2, <2>3, <2>4, <2>5 DEF Placement
<1>10. IsFiniteSet(s.transferring)
  <2>1. s.transferring \subseteq active
    BY <1>2, <1>3 DEF During, Core, Fetched
  <2>2. QED
    BY <2>1, FS_Subset DEF Core
<1>11. QED
  BY <1>1, <1>3, <1>9, <1>10 DEF s, old, st

LEMMA LatercallStart ==
  ASSUME Core, ready # <<>>, Head(ready) \in SlotKey
  PROVE  LET k == Head(ready)
             s == [slots[k] EXCEPT !.timer = Idle]
         IN  /\ k \in DOMAIN slots /\ k \in SlotKey
             /\ s \in Slot /\ IsFiniteSet(s.transferring)
             /\ Placement(With(k, s), Tail(ready), stage)
<1> DEFINE k == Head(ready)
           old == slots[k]
           s == [old EXCEPT !.timer = Idle]
<1>1. LoopQueue(slots, ready, stage) /\ stage \in [Request -> Stages]
  BY DEF Core, Placement
<1>2. /\ k \in Range(ready) /\ Tail(ready) \in Seq(Handle) /\ IsInjective(Tail(ready))
      /\ Range(Tail(ready)) = Range(ready) \ {k}
  BY <1>1, TailFacts DEF LoopQueue
<1>3. k \in DOMAIN slots /\ old.timer = 0
  BY <1>1, <1>2 DEF LoopQueue
<1>4. old \in Slot /\ Waits(slots, stage, k)
  BY <1>3 DEF Core, Placement
<1>5. old.transferring \subseteq active
  BY <1>4 DEF Waits, During, Core, Fetched
<1> HIDE DEF old
<1>6. /\ s = [active |-> old.active, queue |-> old.queue,
              transferring |-> old.transferring, since |-> old.since, timer |-> Idle]
      /\ s \in Slot
  <2>1. LongAgo \in Nat
    BY DelayFacts
  <2>2. QED
    BY <1>4, <2>1 DEF Slot, Idle
<1> HIDE DEF s
<1>7. /\ DOMAIN With(k, s) = DOMAIN slots /\ With(k, s)[k] = s
      /\ \A j \in DOMAIN slots \ {k} : With(k, s)[j] = slots[j]
  BY <1>3 DEF With
<1> HIDE DEF k
<1>8. \A j \in DOMAIN slots : Waits(With(k, s), stage, j)
  <2>1. Waits(With(k, s), stage, k)
    <3>1. /\ s.active = old.active /\ s.transferring = old.transferring
          /\ s.queue = old.queue
      BY <1>6
    <3>2. QED
      BY <1>4, <1>7, <3>1 DEF Waits, old
  <2>2. \A j \in DOMAIN slots \ {k} : Waits(With(k, s), stage, j)
    BY <1>7 DEF Waits, Core, Placement
  <2>3. QED
    BY <2>1, <2>2
<1>9. LoopQueue(With(k, s), Tail(ready), stage)
  <2>1. \A q \in Request : q # k
    BY SlotsAssumption DEF k
  <2>2. \A q \in Request : q \in Range(Tail(ready)) <=> stage[q] = "launched"
    BY <1>1, <1>2, <2>1 DEF LoopQueue, k
  <2>3. ASSUME NEW j \in SlotKey, j \in Range(Tail(ready))
        PROVE  j \in DOMAIN With(k, s) /\ With(k, s)[j].timer = 0
    BY <1>1, <1>2, <1>7, <2>3 DEF LoopQueue, k
  <2>4. QED
    BY <1>2, <2>2, <2>3 DEF LoopQueue
<1>10. Placement(With(k, s), Tail(ready), stage)
  <2>1. \A j \in DOMAIN slots : With(k, s)[j] \in Slot
    BY <1>6, <1>7 DEF Core, Placement
  <2>2. QED
    BY <1>1, <1>7, <1>8, <1>9, <2>1 DEF Core, Placement
<1>11. IsFiniteSet(s.transferring)
  BY <1>5, <1>6, FS_Subset DEF Core
<1>12. QED
  BY <1>3, <1>6, <1>10, <1>11 DEF s, old, k

-----------------------------------------------------------------------------
(* The other steps. *)

(* A stage changes and the request stays in the same sets. *)
LEMMA SameSets ==
  ASSUME Core, NEW r \in Request, NEW x \in Stages,
         \A S \in {InSlot, {"transferring", "failing"}, {"queued"}, {"launched"}} :
           x \in S <=> stage[r] \in S
  PROVE  Placement(slots, ready, [stage EXCEPT ![r] = x])
<1> DEFINE st == [stage EXCEPT ![r] = x]
<1>1. stage \in [Request -> Stages]
  BY DEF Core, Placement
<1>2. st \in [Request -> Stages] /\ \A q \in Request : st[q] = IF q = r THEN x ELSE stage[q]
  BY <1>1
<1> HIDE DEF st
<1>3. \A q \in Request :
        \A S \in {InSlot, {"transferring", "failing"}, {"queued"}, {"launched"}} :
          st[q] \in S <=> stage[q] \in S
  BY <1>2
<1>4. \A k : \A S \in {InSlot, {"transferring", "failing"}, {"queued"}} :
        During(st, k, S) = During(stage, k, S)
  BY <1>3 DEF During
<1>5. \A k \in DOMAIN slots : Waits(slots, st, k)
  BY <1>4 DEF Core, Placement, Waits
<1>6. LoopQueue(slots, ready, st)
  <2>1. \A q \in Request : st[q] = "launched" <=> stage[q] = "launched"
    BY <1>3
  <2>2. QED
    BY <2>1 DEF Core, Placement, LoopQueue
<1>7. \A q \in Request : st[q] \in InSlot => keyOf[q] \in DOMAIN slots
  BY <1>3 DEF Core, Placement
<1>8. QED
  BY <1>2, <1>5, <1>6, <1>7 DEF Core, Placement, st

LEMMA CoreNext ==
  ASSUME Types', Fetched', IsFiniteSet(active'), keyOf' = keyOf,
         Placement(slots', ready', stage')
  PROVE  Core'
<1>1. Placement(slots, ready, stage)'
  BY DEF Placement, Waits, LoopQueue, During
<1>2. QED
  BY <1>1 DEF Core

(* Where the stage of a fetched request changes and it stays fetched. *)
LEMMA StaysFetched ==
  ASSUME Core, NEW r \in Request, NEW x \in Stages \ {"new", "done"},
         stage[r] \notin {"new", "done"}, active' = active,
         stage' = [stage EXCEPT ![r] = x]
  PROVE  Fetched' /\ IsFiniteSet(active')
<1>1. stage \in [Request -> Stages]
  BY DEF Core, Placement
<1>2. \A q \in Request : stage'[q] \in {"new", "done"} <=> stage[q] \in {"new", "done"}
  BY <1>1
<1>3. QED
  BY <1>2 DEF Core, Fetched

LEMMA FetchCore == ASSUME Core, NEW r \in Request, Fetch(r) PROVE Core'
<1>1. /\ stage[r] = "new" /\ stage \in [Request -> Stages]
      /\ active' = active \cup {r}
      /\ stage' = [stage EXCEPT ![r] = "middleware"]
      /\ UNCHANGED <<asyncio, total, keyOf, slots, gc, closed, ready, quiet>>
  BY DEF Fetch, Core, Placement
<1>2. Placement(slots, ready, [stage EXCEPT ![r] = "middleware"])
  BY <1>1, SameSets DEF Stages, InSlot
<1>3. Fetched'
  BY <1>1 DEF Core, Fetched
<1>4. IsFiniteSet(active')
  BY <1>1, FS_AddElement DEF Core
<1>5. Types'
  BY <1>1 DEF Core, Types
<1>6. QED
  BY <1>1, <1>2, <1>3, <1>4, <1>5, CoreNext

LEMMA FetchReturnsCore == ASSUME Core, NEW r \in Request, FetchReturns(r) PROVE Core'
<1>1. /\ stage[r] = "leaving" /\ stage \in [Request -> Stages]
      /\ active' = active \ {r}
      /\ stage' = [stage EXCEPT ![r] = "done"]
      /\ UNCHANGED <<asyncio, total, keyOf, slots, gc, closed, ready, quiet>>
  BY DEF FetchReturns, Core, Placement
<1>2. Placement(slots, ready, [stage EXCEPT ![r] = "done"])
  BY <1>1, SameSets DEF Stages, InSlot
<1>3. Fetched'
  BY <1>1 DEF Core, Fetched
<1>4. IsFiniteSet(active')
  BY <1>1, FS_Subset DEF Core
<1>5. Types'
  BY <1>1 DEF Core, Types
<1>6. QED
  BY <1>1, <1>2, <1>3, <1>4, <1>5, CoreNext

LEMMA AnswerEarlyCore == ASSUME Core, NEW r \in Request, AnswerEarly(r) PROVE Core'
<1>1. /\ stage[r] = "middleware" /\ stage' = [stage EXCEPT ![r] = "leaving"]
      /\ UNCHANGED <<asyncio, total, keyOf, active, slots, gc, closed, ready, quiet>>
  BY DEF AnswerEarly
<1>2. Placement(slots, ready, [stage EXCEPT ![r] = "leaving"])
  BY <1>1, SameSets DEF Stages, InSlot
<1>3. Fetched' /\ IsFiniteSet(active')
  BY <1>1, StaysFetched DEF Stages
<1>4. Types'
  BY <1>1 DEF Core, Types
<1>5. QED
  BY <1>1, <1>2, <1>3, <1>4, CoreNext

LEMMA DownloadRaisesCore == ASSUME Core, NEW r \in Request, DownloadRaises(r) PROVE Core'
<1>1. /\ stage[r] = "transferring" /\ stage' = [stage EXCEPT ![r] = "failing"]
      /\ UNCHANGED <<asyncio, total, keyOf, active, slots, gc, closed, ready, quiet>>
  BY DEF DownloadRaises
<1>2. Placement(slots, ready, [stage EXCEPT ![r] = "failing"])
  BY <1>1, SameSets DEF Stages, InSlot
<1>3. Fetched' /\ IsFiniteSet(active')
  BY <1>1, StaysFetched DEF Stages
<1>4. Types'
  BY <1>1 DEF Core, Types
<1>5. QED
  BY <1>1, <1>2, <1>3, <1>4, CoreNext

(* A slot whose record changes. *)
LEMMA SlotChanges ==
  ASSUME NEW k \in DOMAIN slots, NEW s, slots' = [slots EXCEPT ![k] = s]
  PROVE  /\ DOMAIN slots' = DOMAIN slots /\ slots'[k] = s
         /\ \A j \in DOMAIN slots \ {k} : slots'[j] = slots[j]
OBVIOUS

LEMMA StartTaskCore == ASSUME Core, StartTask PROVE Core'
<1> DEFINE r == Head(ready)
           k == keyOf[r]
           tr == slots[k].transferring \cup {r}
<1>1. /\ ready # <<>> /\ r \in Request
      /\ stage' = [stage EXCEPT ![r] = "transferring"]
      /\ ready' = Tail(ready)
      /\ UNCHANGED <<asyncio, total, keyOf, active, gc, closed, quiet>>
  BY DEF StartTask
<1>2. slots' = [slots EXCEPT ![k] = [slots[k] EXCEPT !.transferring = tr]]
  BY Zenon DEF StartTask
<1>3. /\ stage \in [Request -> Stages] /\ LoopQueue(slots, ready, stage)
      /\ keyOf \in [Request -> SlotKey]
  BY DEF Core, Placement, Types
<1>4. /\ r \in Range(ready) /\ Tail(ready) \in Seq(Handle) /\ IsInjective(Tail(ready))
      /\ Range(Tail(ready)) = Range(ready) \ {r}
  BY <1>1, <1>3, TailFacts DEF LoopQueue
<1>5. stage[r] = "launched"
  BY <1>1, <1>3, <1>4 DEF LoopQueue
<1>6. k \in DOMAIN slots
  BY <1>1, <1>5 DEF Core, Placement, InSlot
<1>7. slots[k] \in Slot /\ Waits(slots, stage, k)
  BY <1>6 DEF Core, Placement
<1> HIDE DEF tr
<1>8. /\ DOMAIN slots' = DOMAIN slots
      /\ slots'[k] = [slots[k] EXCEPT !.transferring = tr]
      /\ \A j \in DOMAIN slots \ {k} : slots'[j] = slots[j]
  BY <1>2, <1>6, SlotChanges
<1>9. /\ slots'[k].active = slots[k].active /\ slots'[k].queue = slots[k].queue
      /\ slots'[k].transferring = tr /\ slots'[k].timer = slots[k].timer
  BY <1>7, <1>8 DEF Slot
<1>10. slots'[k] \in Slot
  <2>1. tr \in SUBSET Request
    BY <1>1, <1>7 DEF tr, Slot
  <2>2. QED
    BY <1>7, <1>8, <2>1 DEF Slot
<1> HIDE DEF r, k
<1>11. \A q \in Request : stage'[q] = IF q = r THEN "transferring" ELSE stage[q]
  BY <1>1, <1>3
<1>12. Waits(slots', stage', k)
  <2>1. During(stage', k, InSlot) = During(stage, k, InSlot)
    BY <1>5, <1>11 DEF During, InSlot
  <2>2. During(stage', k, {"queued"}) = During(stage, k, {"queued"})
    BY <1>5, <1>11 DEF During
  <2>3. During(stage', k, {"transferring", "failing"})
          = During(stage, k, {"transferring", "failing"}) \cup {r}
    BY <1>1, <1>11 DEF During, k
  <2>4. tr = slots[k].transferring \cup {r}
    BY DEF tr, r, k
  <2>5. QED
    BY <1>7, <1>9, <2>1, <2>2, <2>3, <2>4, Zenon DEF Waits
<1>13. ASSUME NEW j \in DOMAIN slots \ {k} PROVE Waits(slots', stage', j)
  <2>1. \A stages : During(stage', j, stages) = During(stage, j, stages)
    BY <1>11, <1>13 DEF During, k
  <2>2. Waits(slots, stage, j) /\ slots'[j] = slots[j]
    BY <1>8 DEF Core, Placement
  <2>3. QED
    BY <2>1, <2>2 DEF Waits
<1>14. LoopQueue(slots', ready', stage')
  <2>1. \A q \in Request : q \in Range(ready') <=> stage'[q] = "launched"
    BY <1>1, <1>3, <1>4, <1>11 DEF LoopQueue, r
  <2>2. ASSUME NEW j \in SlotKey, j \in Range(ready')
        PROVE  j \in DOMAIN slots' /\ slots'[j].timer = 0
    <3>1. j \in DOMAIN slots /\ slots[j].timer = 0
      BY <1>1, <1>3, <1>4, <2>2 DEF LoopQueue
    <3>2. QED
      BY <1>8, <1>9, <3>1
  <2>3. QED
    BY <1>1, <1>4, <2>1, <2>2 DEF LoopQueue
<1>15. Placement(slots', ready', stage')
  <2>1. stage' \in [Request -> Stages]
    BY <1>1, <1>3 DEF Stages
  <2>2. \A j \in DOMAIN slots' : slots'[j] \in Slot
    BY <1>8, <1>10 DEF Core, Placement
  <2>3. \A j \in DOMAIN slots' : Waits(slots', stage', j)
    BY <1>8, <1>12, <1>13
  <2>4. \A q \in Request : stage'[q] \in InSlot => keyOf[q] \in DOMAIN slots'
    BY <1>5, <1>8, <1>11 DEF Core, Placement, InSlot
  <2>5. DOMAIN slots' \subseteq SlotKey
    BY <1>8 DEF Core, Placement
  <2>6. QED
    BY <1>14, <2>1, <2>2, <2>3, <2>4, <2>5 DEF Placement
<1>16. Fetched' /\ IsFiniteSet(active')
  <2>1. r \in Request
    BY <1>1 DEF r
  <2>2. stage' = [stage EXCEPT ![r] = "transferring"]
    BY <1>1 DEF r
  <2>3. QED
    BY <1>1, <1>5, <2>1, <2>2, StaysFetched DEF Stages
<1>17. Types'
  BY <1>1 DEF Core, Types
<1>18. QED
  BY <1>1, <1>15, <1>16, <1>17, CoreNext

LEMMA LeaveSlotCore == ASSUME Core, NEW r \in Request, LeaveSlot(r) PROVE Core'
<1> DEFINE k == keyOf[r]
           ac == slots[k].active \ {r}
<1>1. /\ stage[r] = "answered" /\ stage' = [stage EXCEPT ![r] = "leaving"]
      /\ UNCHANGED <<asyncio, total, keyOf, active, gc, closed, ready, quiet>>
  BY DEF LeaveSlot
<1>2. slots' = [slots EXCEPT ![k] = [slots[k] EXCEPT !.active = ac]]
  BY Zenon DEF LeaveSlot
<1>3. /\ stage \in [Request -> Stages] /\ LoopQueue(slots, ready, stage)
      /\ keyOf \in [Request -> SlotKey]
  BY DEF Core, Placement, Types
<1>4. k \in DOMAIN slots
  BY <1>1 DEF Core, Placement, InSlot
<1>5. slots[k] \in Slot /\ Waits(slots, stage, k)
  BY <1>4 DEF Core, Placement
<1> HIDE DEF ac
<1>6. /\ DOMAIN slots' = DOMAIN slots
      /\ slots'[k] = [slots[k] EXCEPT !.active = ac]
      /\ \A j \in DOMAIN slots \ {k} : slots'[j] = slots[j]
  BY <1>2, <1>4, SlotChanges
<1>7. /\ slots'[k].active = ac /\ slots'[k].queue = slots[k].queue
      /\ slots'[k].transferring = slots[k].transferring /\ slots'[k].timer = slots[k].timer
  BY <1>5, <1>6 DEF Slot
<1>8. slots'[k] \in Slot
  <2>1. ac \in SUBSET Request
    BY <1>5 DEF ac, Slot
  <2>2. QED
    BY <1>5, <1>6, <2>1 DEF Slot
<1> HIDE DEF k
<1>9. \A q \in Request : stage'[q] = IF q = r THEN "leaving" ELSE stage[q]
  BY <1>1, <1>3
<1>10. Waits(slots', stage', k)
  <2>1. During(stage', k, InSlot) = During(stage, k, InSlot) \ {r}
    BY <1>9 DEF During, InSlot
  <2>2. During(stage', k, {"queued"}) = During(stage, k, {"queued"})
    BY <1>1, <1>9 DEF During
  <2>3. During(stage', k, {"transferring", "failing"})
          = During(stage, k, {"transferring", "failing"})
    BY <1>1, <1>9 DEF During
  <2>4. ac = slots[k].active \ {r}
    BY DEF ac, k
  <2>5. QED
    BY <1>5, <1>7, <2>1, <2>2, <2>3, <2>4, Zenon DEF Waits
<1>11. ASSUME NEW j \in DOMAIN slots \ {k} PROVE Waits(slots', stage', j)
  <2>1. \A stages : During(stage', j, stages) = During(stage, j, stages)
    BY <1>9, <1>11 DEF During, k
  <2>2. Waits(slots, stage, j) /\ slots'[j] = slots[j]
    BY <1>6 DEF Core, Placement
  <2>3. QED
    BY <2>1, <2>2 DEF Waits
<1>12. LoopQueue(slots', ready', stage')
  <2>1. \A q \in Request : q \in Range(ready') <=> stage'[q] = "launched"
    BY <1>1, <1>3, <1>9 DEF LoopQueue
  <2>2. ASSUME NEW j \in SlotKey, j \in Range(ready')
        PROVE  j \in DOMAIN slots' /\ slots'[j].timer = 0
    <3>1. j \in DOMAIN slots /\ slots[j].timer = 0
      BY <1>1, <1>3, <2>2 DEF LoopQueue
    <3>2. QED
      BY <1>6, <1>7, <3>1
  <2>3. QED
    BY <1>1, <1>3, <2>1, <2>2 DEF LoopQueue
<1>13. Placement(slots', ready', stage')
  <2>1. stage' \in [Request -> Stages]
    BY <1>1, <1>3 DEF Stages
  <2>2. \A j \in DOMAIN slots' : slots'[j] \in Slot
    BY <1>6, <1>8 DEF Core, Placement
  <2>3. \A j \in DOMAIN slots' : Waits(slots', stage', j)
    BY <1>6, <1>10, <1>11
  <2>4. \A q \in Request : stage'[q] \in InSlot => keyOf[q] \in DOMAIN slots'
    BY <1>6, <1>9 DEF Core, Placement, InSlot
  <2>5. DOMAIN slots' \subseteq SlotKey
    BY <1>6 DEF Core, Placement
  <2>6. QED
    BY <1>12, <2>1, <2>2, <2>3, <2>4, <2>5 DEF Placement
<1>14. Fetched' /\ IsFiniteSet(active')
  BY <1>1, StaysFetched DEF Stages
<1>15. Types'
  BY <1>1 DEF Core, Types
<1>16. QED
  BY <1>1, <1>13, <1>14, <1>15, CoreNext

(* Slots that keep their queue and sets, a due timer staying due, and those *)
(* dropped being empty.                                                     *)
LEMMA SlotsKept ==
  ASSUME Core, UNCHANGED <<asyncio, total, keyOf, stage, active>>,
         Types', DOMAIN slots' \subseteq DOMAIN slots,
         \A k \in DOMAIN slots' :
           /\ slots'[k] \in Slot
           /\ slots'[k].active = slots[k].active /\ slots'[k].queue = slots[k].queue
           /\ slots'[k].transferring = slots[k].transferring,
         \A k \in DOMAIN slots \ DOMAIN slots' : slots[k].active = {},
         LoopQueue(slots', ready', stage)
  PROVE  Core'
<1>1. \A k \in DOMAIN slots' : Waits(slots', stage, k)
  BY DEF Core, Placement, Waits
<1>2. ASSUME NEW r \in Request, stage[r] \in InSlot PROVE keyOf[r] \in DOMAIN slots'
  <2>1. keyOf[r] \in DOMAIN slots /\ Waits(slots, stage, keyOf[r])
    BY <1>2 DEF Core, Placement
  <2>2. r \in slots[keyOf[r]].active
    BY <1>2, <2>1 DEF Waits, During
  <2>3. QED
    BY <2>1, <2>2
<1>3. Placement(slots', ready', stage')
  BY <1>1, <1>2 DEF Core, Placement
<1>4. Fetched' /\ IsFiniteSet(active')
  BY DEF Core, Fetched
<1>5. QED
  BY <1>3, <1>4, CoreNext

LEMMA LaterType == ASSUME NEW t \in 0 .. LongAgo PROVE Later(t) \in 0 .. LongAgo
<1>1. LongAgo \in Nat
  BY SlotsAssumption
<1>2. QED
  BY <1>1 DEF Later

LEMMA TickCore == ASSUME Core, Tick PROVE Core'
<1>1. /\ DOMAIN slots' = DOMAIN slots
      /\ quiet' = [k \in SlotKey |-> Later(quiet[k])]
      /\ UNCHANGED <<asyncio, total, keyOf, stage, active, gc, closed, ready>>
  BY DEF Tick
<1>2. LoopQueue(slots, ready, stage) /\ LongAgo \in Nat
  BY SlotsAssumption DEF Core, Placement
<1>3. ASSUME NEW k \in DOMAIN slots
      PROVE  /\ slots'[k] \in Slot
             /\ slots'[k].active = slots[k].active /\ slots'[k].queue = slots[k].queue
             /\ slots'[k].transferring = slots[k].transferring
             /\ slots[k].timer = 0 => slots'[k].timer = 0
  <2>1. slots[k] \in Slot
    BY DEF Core, Placement
  <2> DEFINE since == Later(slots[k].since)
             timer == IF slots[k].timer > 0 THEN slots[k].timer - 1 ELSE slots[k].timer
  <2>2. since \in 0 .. LongAgo /\ timer \in Idle .. LongAgo
    <3>1. slots[k].since \in 0 .. LongAgo /\ slots[k].timer \in Idle .. LongAgo
      BY <2>1 DEF Slot
    <3>2. QED
      BY <1>2, <3>1, LaterType DEF Idle
  <2>3. slots[k].timer = 0 => timer = 0
    OBVIOUS
  <2>4. slots'[k] = [slots[k] EXCEPT !.since = since, !.timer = timer]
    BY Zenon DEF Tick
  <2> HIDE DEF since, timer
  <2>5. QED
    BY <2>1, <2>2, <2>3, <2>4 DEF Slot
<1>4. Types'
  BY <1>1, LaterType DEF Core, Types
<1>5. LoopQueue(slots', ready', stage)
  BY <1>1, <1>2, <1>3 DEF LoopQueue
<1>6. QED
  BY <1>1, <1>3, <1>4, <1>5, SlotsKept

LEMMA TimerDueCore == ASSUME Core, NEW k \in SlotKey, TimerDue(k) PROVE Core'
<1>1. /\ k \in DOMAIN slots /\ slots[k].timer = 0 /\ k \notin Range(ready)
      /\ ready' = Append(ready, k)
      /\ UNCHANGED <<asyncio, total, keyOf, stage, active, slots, gc, closed, quiet>>
  BY MembersAreRange DEF TimerDue
<1>2. LoopQueue(slots, ready, stage)
  BY DEF Core, Placement
<1>3. /\ Append(ready, k) = ready \o <<k>> /\ Range(<<k>>) = {k}
      /\ IsInjective(<<k>>) /\ <<k>> \in Seq(Handle)
      /\ ready \in Seq(Handle) /\ IsInjective(ready)
  BY <1>2 DEF LoopQueue, Handle, Range, IsInjective
<1>4. /\ ready' \in Seq(Handle) /\ IsInjective(ready')
      /\ Range(ready') = Range(ready) \cup {k}
  <2> DEFINE one == <<k>>
  <2>1. one \in Seq(Handle) /\ IsInjective(one) /\ Range(ready) \cap Range(one) = {}
    BY <1>1, <1>3
  <2>2. Range(one) = {k} /\ ready' = ready \o one
    BY <1>1, <1>3
  <2> HIDE DEF one
  <2>3. QED
    BY <1>3, <2>1, <2>2, RangeConcat, InjectiveConcat
<1>5. LoopQueue(slots', ready', stage)
  <2>1. \A r \in Request : r # k
    BY SlotsAssumption
  <2>2. QED
    BY <1>1, <1>2, <1>4, <2>1 DEF LoopQueue
<1>6. Types' /\ \A j \in DOMAIN slots : slots[j] \in Slot
  BY <1>1 DEF Core, Types, Placement
<1>7. QED
  BY <1>1, <1>5, <1>6, SlotsKept

(* Cancelling keeps the loop's queue right, whatever slots go. *)
LEMMA CancelQueue ==
  ASSUME Core, NEW keys \in SUBSET SlotKey
  PROVE  /\ Cancel(keys) \in Seq(Handle) /\ IsInjective(Cancel(keys))
         /\ Range(Cancel(keys)) = Range(ready) \ keys
         /\ \A i, j \in 1 .. Len(Cancel(keys)) :
              i < j => \E a, b \in 1 .. Len(ready) :
                         a < b /\ Cancel(keys)[i] = ready[a] /\ Cancel(keys)[j] = ready[b]
<1> DEFINE q == Cancel(keys)
<1>1. ready \in Seq(Handle) /\ IsInjective(ready)
  BY DEF Core, Placement, LoopQueue
<1>2. Sublist(q, Len(ready), keys)
  BY <1>1, CancelFacts
<1> HIDE DEF q
<1>3. q \in Seq(Handle) /\ Len(q) \in Nat
  BY <1>2 DEF Sublist
<1>4. \A i, j \in 1 .. Len(q) :
        i < j => \E a, b \in 1 .. Len(ready) : a < b /\ q[i] = ready[a] /\ q[j] = ready[b]
  BY <1>2 DEF Sublist
<1>5. IsInjective(q)
  <2>1. SUFFICES ASSUME NEW i \in 1 .. Len(q), NEW j \in 1 .. Len(q), q[i] = q[j], i # j
                 PROVE  FALSE
    BY <1>3 DEF IsInjective
  <2>2. \A a, b \in 1 .. Len(ready) : a < b => ready[a] # ready[b]
    BY <1>1 DEF IsInjective
  <2>3. CASE i < j
    BY <1>4, <2>1, <2>2, <2>3
  <2>4. CASE j < i
    BY <1>4, <2>1, <2>2, <2>4
  <2>5. QED
    BY <1>3, <2>1, <2>3, <2>4
<1>6. ASSUME NEW x \in Range(q) PROVE x \in Range(ready) \ keys
  <2>1. PICK i \in 1 .. Len(q) : q[i] = x
    BY <1>3, RangeOfSeq
  <2>2. PICK a \in 1 .. Len(ready) : x = ready[a] /\ ready[a] \notin keys
    BY <1>2, <2>1 DEF Sublist
  <2>3. QED
    BY <1>1, <2>2, RangeOfSeq
<1>7. ASSUME NEW x \in Range(ready) \ keys PROVE x \in Range(q)
  <2>1. PICK a \in 1 .. Len(ready) : ready[a] = x
    BY <1>1, RangeOfSeq
  <2>2. PICK i \in 1 .. Len(q) : q[i] = x
    BY <1>2, <1>7, <2>1 DEF Sublist
  <2>3. QED
    BY <1>3, <2>2, RangeOfSeq
<1>8. QED
  BY <1>3, <1>4, <1>5, <1>6, <1>7 DEF q

LEMMA SlotGcCore == ASSUME Core, SlotGc PROVE Core'
<1>1. /\ slots' = [k \in DOMAIN slots \ Stale |-> slots[k]]
      /\ ready' = Cancel(Stale)
      /\ UNCHANGED <<asyncio, total, keyOf, stage, active, gc, closed, quiet>>
  BY DEF SlotGc
<1>2. /\ DOMAIN slots \subseteq SlotKey /\ LoopQueue(slots, ready, stage)
      /\ \A k \in DOMAIN slots : slots[k] \in Slot
  BY DEF Core, Placement
<1>3. Stale \in SUBSET SlotKey /\ \A k \in Stale : slots[k].active = {}
  BY <1>2 DEF Stale
<1>4. /\ ready' \in Seq(Handle) /\ IsInjective(ready')
      /\ Range(ready') = Range(ready) \ Stale
  BY <1>1, <1>3, CancelQueue
<1>5. LoopQueue(slots', ready', stage)
  <2>1. \A r \in Request : r \notin Stale
    BY <1>3, SlotsAssumption
  <2>2. QED
    BY <1>1, <1>2, <1>4, <2>1 DEF LoopQueue
<1>6. Types'
  BY <1>1 DEF Core, Types
<1>7. QED
  BY <1>1, <1>2, <1>3, <1>5, <1>6, SlotsKept

LEMMA CloseCore == ASSUME Core, Close PROVE Core'
<1>1. /\ gc' = FALSE /\ closed' = TRUE
      /\ slots' = [k \in DOMAIN slots |-> [slots[k] EXCEPT !.timer = Idle]]
      /\ ready' = Cancel(SlotKey)
      /\ UNCHANGED <<asyncio, total, keyOf, stage, active, quiet>>
  BY DEF Close
<1>2. /\ DOMAIN slots \subseteq SlotKey /\ LoopQueue(slots, ready, stage)
      /\ \A k \in DOMAIN slots : slots[k] \in Slot
      /\ LongAgo \in Nat
  BY SlotsAssumption DEF Core, Placement
<1>3. /\ ready' \in Seq(Handle) /\ IsInjective(ready')
      /\ Range(ready') = Range(ready) \ SlotKey
  BY <1>1, CancelQueue
<1>4. LoopQueue(slots', ready', stage)
  <2>1. \A r \in Request : r \notin SlotKey
    BY SlotsAssumption
  <2>2. QED
    BY <1>2, <1>3, <2>1 DEF LoopQueue
<1>5. ASSUME NEW k \in DOMAIN slots
      PROVE  /\ slots'[k] \in Slot
             /\ slots'[k].active = slots[k].active /\ slots'[k].queue = slots[k].queue
             /\ slots'[k].transferring = slots[k].transferring
  <2>1. slots'[k] = [slots[k] EXCEPT !.timer = Idle] /\ slots[k] \in Slot
    BY <1>1, <1>2
  <2>2. Idle \in Idle .. LongAgo
    BY <1>2 DEF Idle
  <2>3. QED
    BY <2>1, <2>2 DEF Slot
<1>6. Types'
  <2>1. gc' \in BOOLEAN /\ closed' \in BOOLEAN
    BY <1>1, Zenon
  <2>2. QED
    BY <1>1, <2>1 DEF Core, Types
<1>7. QED
  BY <1>1, <1>4, <1>5, <1>6, SlotsKept

-----------------------------------------------------------------------------
(* The steps that end in _process_queue. *)

LEMMA ServedTypes ==
  ASSUME Types, NEW k \in SlotKey, NEW s, NEW tasks, NEW st, NEW n, NEW timer,
         Served(k, s, tasks, st, n, timer)
  PROVE  quiet' \in [SlotKey -> 0 .. LongAgo]
<1>1. 0 \in 0 .. LongAgo
  BY SlotsAssumption
<1>2. QED
  BY <1>1 DEF Served, Types

(* Who calls it, on which slot, with which loop queue and stages. *)
Enqueues(r, k, s, tasks, st) ==
  /\ stage[r] = "middleware" /\ k = keyOf[r]
  /\ s = [SlotOf(k) EXCEPT !.active = @ \cup {r}, !.queue = Append(@, r)]
  /\ tasks = ready /\ st = [stage EXCEPT ![r] = "queued"]

Leaves(r, k, s, tasks, st) ==
  /\ stage[r] \in {"transferring", "failing"} /\ k = keyOf[r]
  /\ s = [slots[k] EXCEPT !.transferring = @ \ {r}]
  /\ tasks = ready /\ st = [stage EXCEPT ![r] = "answered"]

TimerFires(k, s, tasks, st) ==
  /\ ready # <<>> /\ k = Head(ready)
  /\ s = [slots[k] EXCEPT !.timer = Idle]
  /\ tasks = Tail(ready) /\ st = stage

Called(k, s, tasks, st) ==
  \/ \E r \in Request : Enqueues(r, k, s, tasks, st) \/ Leaves(r, k, s, tasks, st)
  \/ TimerFires(k, s, tasks, st)

PassStep == Latercall \/ \E r \in Request : Enqueue(r) \/ Downloaded(r) \/ SleepEnds(r)

Pass(k, s, tasks, st, n, timer) ==
  /\ Called(k, s, tasks, st)
  /\ IsFiniteSet(s.transferring) /\ Placement(With(k, s), tasks, st)
  /\ Served(k, s, tasks, st, n, timer) /\ Allowed(k, s, n, timer)
  /\ Placement(slots', ready', stage')
  /\ Range(Firsts(s.queue, n)) \subseteq During(st, k, {"queued"})
  /\ UNCHANGED <<asyncio, total, keyOf, active, closed>> /\ gc' \in BOOLEAN

SomePass ==
  \E k \in SlotKey, s \in Slot : \E tasks, st :
    \E n \in 0 .. Len(s.queue), timer \in Idle .. LongAgo :
      Pass(k, s, tasks, st, n, timer)

LEMMA PassFrom ==
  ASSUME Core, NEW k \in SlotKey, NEW s \in Slot, NEW tasks, NEW st,
         Called(k, s, tasks, st), ProcessQueue(k, s, tasks, st),
         IsFiniteSet(s.transferring), Placement(With(k, s), tasks, st),
         UNCHANGED <<asyncio, total, keyOf, active, closed>>, gc' \in BOOLEAN
  PROVE  \E n \in 0 .. Len(s.queue), timer \in Idle .. LongAgo :
           Pass(k, s, tasks, st, n, timer)
<1>1. PICK n \in 0 .. Len(s.queue), timer \in Idle .. LongAgo :
        Served(k, s, tasks, st, n, timer) /\ Allowed(k, s, n, timer)
  BY ProcessEffect
<1>2. /\ Placement(slots', ready', stage')
      /\ Range(Firsts(s.queue, n)) \subseteq During(st, k, {"queued"})
  BY <1>1, ServedPlacement DEF Core
<1>3. QED
  BY <1>1, <1>2 DEF Pass

LEMMA PassFacts ==
  ASSUME Core, PassStep
  PROVE  SomePass
<1>1. ASSUME NEW r \in Request, Enqueue(r)
      PROVE  SomePass
  <2> DEFINE k == keyOf[r]
             s == [SlotOf(k) EXCEPT !.active = @ \cup {r}, !.queue = Append(@, r)]
             st == [stage EXCEPT ![r] = "queued"]
  <2>1. /\ stage[r] = "middleware"
        /\ gc' = (gc \/ k \notin DOMAIN slots)
        /\ ProcessQueue(k, s, ready, st)
        /\ UNCHANGED <<asyncio, total, keyOf, active, closed>>
    BY <1>1, Zenon DEF Enqueue
  <2>2. /\ k \in SlotKey /\ s \in Slot /\ IsFiniteSet(s.transferring)
        /\ Placement(With(k, s), ready, st)
    BY <2>1, EnqueueStart
  <2>3. gc' \in BOOLEAN
    BY <2>1, Zenon
  <2>4. Called(k, s, ready, st)
    BY <2>1, Zenon DEF Called, Enqueues
  <2> HIDE DEF s, st, k
  <2>5. QED
    BY <2>1, <2>2, <2>3, <2>4, PassFrom DEF SomePass
<1>2. ASSUME NEW r \in Request, Downloaded(r) \/ SleepEnds(r)
      PROVE  SomePass
  <2> DEFINE k == keyOf[r]
             s == [slots[k] EXCEPT !.transferring = @ \ {r}]
             st == [stage EXCEPT ![r] = "answered"]
  <2>1. /\ stage[r] \in {"transferring", "failing"}
        /\ ProcessQueue(k, s, ready, st)
        /\ UNCHANGED <<asyncio, total, keyOf, active, gc, closed>>
    BY <1>2, Zenon DEF Downloaded, SleepEnds, LeaveTransfer
  <2>2. /\ k \in SlotKey /\ s \in Slot /\ IsFiniteSet(s.transferring)
        /\ Placement(With(k, s), ready, st)
    BY <2>1, LeaveTransferStart
  <2>3. gc' \in BOOLEAN
    BY <2>1 DEF Core, Types
  <2>4. Called(k, s, ready, st)
    BY <2>1, Zenon DEF Called, Leaves
  <2> HIDE DEF s, st, k
  <2>5. QED
    BY <2>1, <2>2, <2>3, <2>4, PassFrom DEF SomePass
<1>3. ASSUME Latercall
      PROVE  SomePass
  <2> DEFINE k == Head(ready)
             s == [slots[k] EXCEPT !.timer = Idle]
  <2>1. /\ ready # <<>> /\ k \in SlotKey
        /\ ProcessQueue(k, s, Tail(ready), stage)
        /\ UNCHANGED <<asyncio, total, keyOf, active, gc, closed>>
    BY <1>3, Zenon DEF Latercall
  <2>2. /\ k \in SlotKey /\ s \in Slot /\ IsFiniteSet(s.transferring)
        /\ Placement(With(k, s), Tail(ready), stage)
    BY <2>1, LatercallStart
  <2>3. gc' \in BOOLEAN
    BY <2>1 DEF Core, Types
  <2>4. Called(k, s, Tail(ready), stage)
    BY <2>1, Zenon DEF Called, TimerFires
  <2> HIDE DEF s, k
  <2>5. QED
    BY <2>1, <2>2, <2>3, <2>4, PassFrom DEF SomePass
<1>4. QED
  BY <1>1, <1>2, <1>3 DEF PassStep

(* The stages a pass starts from are the old ones but for the caller's. *)
LEMMA CalledStages ==
  ASSUME Core, NEW k, NEW s, NEW tasks, NEW st, Called(k, s, tasks, st), NEW q \in Request
  PROVE  \/ st[q] = stage[q]
         \/ /\ Enqueues(q, k, s, tasks, st)
            /\ stage[q] = "middleware" /\ st[q] = "queued" /\ k = keyOf[q]
         \/ stage[q] \in {"transferring", "failing"} /\ st[q] = "answered" /\ k = keyOf[q]
<1>1. stage \in [Request -> Stages]
  BY DEF Core, Placement
<1>2. CASE TimerFires(k, s, tasks, st)
  BY <1>2 DEF TimerFires
<1>3. ASSUME NEW r \in Request, Enqueues(r, k, s, tasks, st)
      PROVE  \/ st[q] = stage[q]
             \/ /\ Enqueues(q, k, s, tasks, st)
                /\ stage[q] = "middleware" /\ st[q] = "queued" /\ k = keyOf[q]
  <2>1. CASE q = r
    <3>1. stage[q] = "middleware" /\ st[q] = "queued" /\ k = keyOf[q]
      BY <1>1, <1>3, <2>1 DEF Enqueues
    <3>2. QED
      BY <1>3, <2>1, <3>1
  <2>2. CASE q # r
    BY <1>1, <1>3, <2>2 DEF Enqueues
  <2>3. QED
    BY <2>1, <2>2
<1>4. ASSUME NEW r \in Request, Leaves(r, k, s, tasks, st)
      PROVE  \/ st[q] = stage[q]
             \/ stage[q] \in {"transferring", "failing"} /\ st[q] = "answered"
                /\ k = keyOf[q]
  BY <1>1, <1>4 DEF Leaves
<1>5. QED
  BY <1>2, <1>3, <1>4 DEF Called

(* A pass moves a request only out of the queue. *)
LEMMA PassStages ==
  ASSUME Core, NEW k \in SlotKey, NEW s \in Slot, NEW tasks, NEW st, NEW n, NEW timer,
         Pass(k, s, tasks, st, n, timer), NEW q \in Request
  PROVE  \/ q \notin Range(Firsts(s.queue, n)) /\ stage'[q] = st[q]
         \/ /\ q \in Range(Firsts(s.queue, n)) /\ st[q] = "queued" /\ keyOf[q] = k
            /\ stage[q] \in {"middleware", "queued"}
            /\ stage'[q] = IF asyncio THEN "launched" ELSE "transferring"
<1>1. stage'[q] = IF q \notin Range(Firsts(s.queue, n)) THEN st[q]
                  ELSE IF asyncio THEN "launched" ELSE "transferring"
  BY DEF Pass, Served
<1>2. q \in Range(Firsts(s.queue, n)) => st[q] = "queued" /\ keyOf[q] = k
  BY DEF Pass, During
<1>3. st[q] = "queued" => stage[q] \in {"middleware", "queued"}
  BY CalledStages DEF Pass
<1>4. QED
  BY <1>1, <1>2, <1>3

LEMMA PassCore == ASSUME Core, PassStep PROVE Core'
<1>1. PICK k \in SlotKey, s \in Slot : \E tasks, st :
        \E n \in 0 .. Len(s.queue), timer \in Idle .. LongAgo :
          Pass(k, s, tasks, st, n, timer)
  BY PassFacts DEF SomePass
<1>2. PICK tasks, st, n, timer :
        /\ n \in 0 .. Len(s.queue) /\ timer \in Idle .. LongAgo
        /\ Pass(k, s, tasks, st, n, timer)
  BY <1>1
<1>3. Fetched'
  <2>1. \A q \in Request : stage'[q] \in {"new", "done"} <=> stage[q] \in {"new", "done"}
    <3> SUFFICES ASSUME NEW q \in Request
                 PROVE  stage'[q] \in {"new", "done"} <=> stage[q] \in {"new", "done"}
      OBVIOUS
    <3>1. \/ stage'[q] = st[q]
          \/ /\ stage[q] \in {"middleware", "queued"}
             /\ stage'[q] \in {"launched", "transferring"}
      BY <1>2, PassStages
    <3>2. \/ st[q] = stage[q]
          \/ st[q] \in {"queued", "answered"}
             /\ stage[q] \in {"middleware", "transferring", "failing"}
      BY <1>2, CalledStages DEF Pass
    <3>3. QED
      BY <3>1, <3>2
  <2>2. active' = active
    BY <1>2 DEF Pass
  <2>3. QED
    BY <2>1, <2>2 DEF Core, Fetched
<1>4. Types'
  <2>1. quiet' \in [SlotKey -> 0 .. LongAgo]
    BY <1>2, ServedTypes DEF Core, Pass
  <2>2. QED
    BY <1>2, <2>1 DEF Core, Types, Pass
<1>5. QED
  BY <1>2, <1>3, <1>4, CoreNext DEF Core, Pass

-----------------------------------------------------------------------------
LEMMA InitCore == Init => Core
<1> SUFFICES ASSUME Init PROVE Core
  OBVIOUS
<1>1. LongAgo \in 0 .. LongAgo
  BY SlotsAssumption
<1>2. Types
  <2>1. asyncio \in BOOLEAN /\ total \in Nat /\ keyOf \in [Request -> SlotKey]
    BY SlotsAssumption DEF Init
  <2>2. gc \in BOOLEAN /\ closed \in BOOLEAN
    BY Zenon DEF Init
  <2>3. QED
    BY <1>1, <2>1, <2>2 DEF Init, Types
<1>3. Fetched /\ IsFiniteSet(active)
  BY FS_EmptySet DEF Init, Fetched
<1>4. DOMAIN slots = {} /\ Range(ready) = {} /\ ready \in Seq(Handle) /\ IsInjective(ready)
  BY DEF Init, Range, IsInjective
<1>5. \A r \in Request : stage[r] = "new"
  BY DEF Init
<1>6. stage \in [Request -> Stages]
  BY DEF Init, Stages
<1>7. Placement(slots, ready, stage)
  BY <1>4, <1>5, <1>6 DEF Placement, LoopQueue, InSlot
<1>8. QED
  BY <1>2, <1>3, <1>7 DEF Core

LEMMA NextCore == Core /\ [Next]_vars => Core'
<1> SUFFICES ASSUME Core, [Next]_vars PROVE Core'
  OBVIOUS
<1>1. ASSUME NEW r \in Request, Fetch(r) PROVE Core'
  BY <1>1, FetchCore
<1>2. ASSUME NEW r \in Request,
             AnswerEarly(r) \/ DownloadRaises(r) \/ LeaveSlot(r) \/ FetchReturns(r)
      PROVE  Core'
  BY <1>2, AnswerEarlyCore, DownloadRaisesCore, LeaveSlotCore, FetchReturnsCore
<1>3. CASE StartTask
  BY <1>3, StartTaskCore
<1>4. CASE PassStep
  BY <1>4, PassCore
<1>5. CASE Tick
  BY <1>5, TickCore
<1>6. CASE SlotGc
  BY <1>6, SlotGcCore
<1>7. CASE Close
  BY <1>7, CloseCore
<1>8. ASSUME NEW k \in SlotKey, TimerDue(k) PROVE Core'
  BY <1>8, TimerDueCore
<1>9. CASE UNCHANGED vars
  <2>1. Types' /\ Fetched' /\ IsFiniteSet(active') /\ keyOf' = keyOf
    BY <1>9 DEF vars, Core, Types, Fetched
  <2>2. Placement(slots', ready', stage')
    <3>1. slots' = slots /\ ready' = ready /\ stage' = stage
      BY <1>9 DEF vars
    <3>2. QED
      BY <3>1, Zenon DEF Core
  <2>3. QED
    BY <2>1, <2>2, CoreNext
<1>10. QED
  BY <1>1, <1>2, <1>3, <1>4, <1>5, <1>6, <1>7, <1>8, <1>9
     DEF Next, Progress, PassStep

(* Where a request's coroutine is suspended says which sets of its slot    *)
(* it is in, and the loop's queue which coroutines and timers are to run:  *)
(* the inductive invariant the other theorems rest on.                     *)
THEOREM CoreTheorem == Spec => []Core
BY InitCore, NextCore, PTL DEF Spec

(* The downloader's state keeps its shape, and a timer is in the loop's    *)
(* queue only when it is due.                                              *)
THEOREM TypeCorrect == Spec => []TypeOK
<1>1. Core => TypeOK
  BY MembersAreRange DEF Core, Types, Placement, LoopQueue, TypeOK, Handle, Fetched
<1>2. QED
  BY <1>1, CoreTheorem, PTL

(* No request is lost between the sets of a slot and none is in two, and   *)
(* the collector never drops a slot a suspended coroutine refers to.       *)
THEOREM NothingIsLost == Spec => []NothingLost
<1>1. Core => NothingLost
  <2> SUFFICES ASSUME Core PROVE NothingLost
    OBVIOUS
  <2>1. \A k, stages : At(k, stages) = During(stage, k, stages)
    BY DEF At, During
  <2>2. ASSUME NEW k \in DOMAIN slots
        PROVE  /\ slots[k].active = At(k, InSlot)
               /\ slots[k].transferring = At(k, {"transferring", "failing"})
               /\ Members(slots[k].queue) = At(k, {"queued"})
               /\ Len(slots[k].queue) = Cardinality(At(k, {"queued"}))
    <3>1. Waits(slots, stage, k) /\ slots[k].queue \in Seq(Request)
      BY DEF Core, Placement, Slot
    <3>2. Range(slots[k].queue) = At(k, {"queued"}) /\ IsInjective(slots[k].queue)
      BY <2>1, <3>1 DEF Waits
    <3>3. Cardinality(Range(slots[k].queue)) = Len(slots[k].queue)
      BY <3>1, <3>2, RangeCardinality
    <3>4. QED
      BY <2>1, <3>1, <3>2, <3>3, MembersAreRange DEF Waits
  <2>3. Members(ready) \cap Request = {r \in Request : stage[r] = "launched"}
    BY MembersAreRange DEF Core, Placement, LoopQueue
  <2>4. QED
    BY <2>2, <2>3 DEF NothingLost, Core, Fetched, Placement
<1>2. QED
  BY <1>1, CoreTheorem, PTL

-----------------------------------------------------------------------------
(* Only fetch adds to active, and it asks needs_backout for a scheduled    *)
(* request; those that bypass it can only make the answer come earlier.    *)
THEOREM BackoutTheorem == Spec => []BackoutBounds
<1>1. Init => BackoutBounds
  <2> SUFFICES ASSUME Init PROVE BackoutBounds
    OBVIOUS
  <2>1. Cardinality(active \cap Scheduled) = 0
    BY FS_EmptySet DEF Init
  <2>2. total \in Nat
    BY SlotsAssumption DEF Init
  <2>3. QED
    BY <2>1, <2>2 DEF BackoutBounds
<1>2. Core /\ BackoutBounds /\ [Next]_vars => BackoutBounds'
  <2> SUFFICES ASSUME Core, BackoutBounds, [Next]_vars PROVE BackoutBounds'
    OBVIOUS
  <2>1. /\ total \in Nat /\ IsFiniteSet(active) /\ Cardinality(active) \in Nat
        /\ IsFiniteSet(active \cap Scheduled)
        /\ Cardinality(active \cap Scheduled) \in Nat
        /\ Cardinality(active \cap Scheduled) <= Cardinality(active)
    BY FS_Subset, FS_CardinalityType DEF Core, Types
  <2>2. ASSUME NEW r \in Request, Fetch(r), r \in Scheduled PROVE BackoutBounds'
    <3>1. /\ total' = total /\ active' = active \cup {r}
          /\ total > 0 => Cardinality(active) < total
      BY <2>1, <2>2 DEF Fetch, NeedsBackout
    <3>2. active' \cap Scheduled = (active \cap Scheduled) \cup {r}
      BY <2>2, <3>1
    <3>3. Cardinality(active' \cap Scheduled) <= Cardinality(active \cap Scheduled) + 1
          /\ Cardinality(active' \cap Scheduled) \in Nat
      BY <2>1, <3>2, FS_AddElement
    <3>4. QED
      BY <2>1, <3>1, <3>3 DEF BackoutBounds
  <2>3. CASE active' \cap Scheduled \subseteq active \cap Scheduled /\ total' = total
    <3>1. /\ Cardinality(active' \cap Scheduled) <= Cardinality(active \cap Scheduled)
          /\ Cardinality(active' \cap Scheduled) \in Nat
      BY <2>1, <2>3, FS_Subset, FS_CardinalityType
    <3>2. QED
      BY <2>1, <2>3, <3>1 DEF BackoutBounds
  <2>4. ASSUME NEW r \in Request, Fetch(r), r \notin Scheduled
        PROVE  active' \cap Scheduled \subseteq active \cap Scheduled /\ total' = total
    BY <2>4 DEF Fetch
  <2>5. ASSUME NEW r \in Request,
               AnswerEarly(r) \/ DownloadRaises(r) \/ LeaveSlot(r) \/ FetchReturns(r)
        PROVE  active' \subseteq active /\ total' = total
    BY <2>5 DEF AnswerEarly, DownloadRaises, LeaveSlot, FetchReturns
  <2>6. CASE StartTask \/ Tick \/ SlotGc \/ Close \/ \E k \in SlotKey : TimerDue(k)
    BY <2>3, <2>6 DEF StartTask, Tick, SlotGc, Close, TimerDue
  <2>7. CASE PassStep
    <3>1. active' = active /\ total' = total
      BY <2>7 DEF PassStep, Latercall, Enqueue, Downloaded, SleepEnds, LeaveTransfer
    <3>2. QED
      BY <2>3, <3>1
  <2>8. CASE UNCHANGED vars
    BY <2>3, <2>8 DEF vars
  <2>9. QED
    BY <2>2, <2>3, <2>4, <2>5, <2>6, <2>7, <2>8 DEF Next, Progress, PassStep
<1>3. QED
  BY <1>1, <1>2, CoreTheorem, PTL DEF Spec

-----------------------------------------------------------------------------
(* The age of a slot is the time since its last pop, or the slot is so     *)
(* young that the last pop of its predecessor is long ago.                 *)
PoppedLong(k) == quiet[k] > GcAge + Delay[k]

SinceInv ==
  /\ \A k \in DOMAIN slots : slots[k].since = quiet[k] \/ PoppedLong(k)
  /\ \A k \in SlotKey \ DOMAIN slots : PoppedLong(k)

LEMMA CalledSlot ==
  ASSUME Core, NEW k \in SlotKey, NEW s, NEW tasks, NEW st, Called(k, s, tasks, st)
  PROVE  /\ s.since = SlotOf(k).since
         /\ \/ s.queue = SlotOf(k).queue
            \/ \E r \in Request :
                 Enqueues(r, k, s, tasks, st) /\ s.queue = Append(SlotOf(k).queue, r)
         /\ \/ s.timer = SlotOf(k).timer /\ tasks = ready
            \/ TimerFires(k, s, tasks, st)
<1>1. SlotOf(k) \in Slot
  <2>1. NewSlot \in Slot
    BY SlotsAssumption DEF NewSlot, Slot, Idle
  <2>2. QED
    BY <2>1 DEF SlotOf, Core, Placement
<1>2. ASSUME NEW r \in Request, Enqueues(r, k, s, tasks, st)
      PROVE  /\ s.since = SlotOf(k).since /\ s.timer = SlotOf(k).timer /\ tasks = ready
             /\ s.queue = Append(SlotOf(k).queue, r)
  <2> DEFINE q == Append(SlotOf(k).queue, r)
             ac == SlotOf(k).active \cup {r}
             o == SlotOf(k)
  <2>1. s = [o EXCEPT !.active = ac, !.queue = q] /\ tasks = ready
    BY <1>2, Zenon DEF Enqueues
  <2>2. o \in Slot
    BY <1>1
  <2> HIDE DEF q, ac, o
  <2>3. s.since = o.since /\ s.timer = o.timer /\ s.queue = q
    BY <2>1, <2>2 DEF Slot
  <2>4. QED
    BY <2>1, <2>3 DEF q, o
<1>3. ASSUME NEW r \in Request, Leaves(r, k, s, tasks, st)
      PROVE  /\ s.since = SlotOf(k).since /\ s.timer = SlotOf(k).timer /\ tasks = ready
             /\ s.queue = SlotOf(k).queue
  <2>1. k \in DOMAIN slots
    BY <1>3 DEF Leaves, Core, Placement, InSlot
  <2> DEFINE tr == slots[k].transferring \ {r}
  <2>2. s = [slots[k] EXCEPT !.transferring = tr] /\ tasks = ready
    BY <1>3, Zenon DEF Leaves
  <2> HIDE DEF tr
  <2>3. SlotOf(k) = slots[k]
    BY <2>1 DEF SlotOf
  <2>4. QED
    BY <1>1, <2>2, <2>3 DEF Slot
<1>4. ASSUME TimerFires(k, s, tasks, st)
      PROVE  s.since = SlotOf(k).since /\ s.queue = SlotOf(k).queue
  <2>1. LoopQueue(slots, ready, stage) /\ k = Head(ready) /\ ready # <<>>
    BY <1>4 DEF TimerFires, Core, Placement
  <2>2. k \in Range(ready)
    BY <2>1, TailFacts DEF LoopQueue
  <2>3. k \in DOMAIN slots /\ SlotOf(k) = slots[k]
    BY <2>1, <2>2 DEF LoopQueue, SlotOf
  <2>4. QED
    BY <1>1, <1>4, <2>3 DEF TimerFires, Slot
<1>5. QED
  BY <1>2, <1>3, <1>4 DEF Called

LEMMA PassSince ==
  ASSUME Core, SinceInv, PassStep
  PROVE  SinceInv'
<1>1. PICK k \in SlotKey, s \in Slot : \E tasks, st :
        \E n \in 0 .. Len(s.queue), timer \in Idle .. LongAgo :
          Pass(k, s, tasks, st, n, timer)
  BY PassFacts DEF SomePass
<1>2. PICK tasks, st, n, timer :
        /\ n \in 0 .. Len(s.queue) /\ timer \in Idle .. LongAgo
        /\ Pass(k, s, tasks, st, n, timer)
  BY <1>1
<1>3. /\ DOMAIN slots' = DOMAIN slots \cup {k}
      /\ slots'[k].since = IF n > 0 THEN 0 ELSE s.since
      /\ \A j \in DOMAIN slots \ {k} : slots'[j] = slots[j]
      /\ quiet' = IF n > 0 THEN [quiet EXCEPT ![k] = 0] ELSE quiet
  BY <1>2 DEF Pass, Served
<1>4. quiet \in [SlotKey -> 0 .. LongAgo]
  BY DEF Core, Types
<1>5. s.since = SlotOf(k).since
  BY <1>2, CalledSlot DEF Pass
<1>6. n = 0 => s.since = quiet[k] \/ PoppedLong(k)
  BY <1>5 DEF SinceInv, SlotOf
<1>7. /\ \A j \in SlotKey \ {k} : quiet'[j] = quiet[j]
      /\ n > 0 => quiet'[k] = 0
      /\ ~ n > 0 => quiet'[k] = quiet[k]
  BY <1>3, <1>4
<1>8. n = 0 \/ n > 0
  BY <1>2 DEF Slot
<1>9. slots'[k].since = quiet'[k] \/ PoppedLong(k)'
  BY <1>3, <1>6, <1>7, <1>8 DEF PoppedLong
<1>10. \A j \in SlotKey \ {k} : PoppedLong(j)' <=> PoppedLong(j)
  BY <1>7 DEF PoppedLong
<1>11. QED
  BY <1>3, <1>7, <1>9, <1>10 DEF SinceInv, Core, Placement

LEMMA SinceTheorem == Spec => []SinceInv
<1>1. Init => SinceInv
  BY SlotsAssumption DEF Init, SinceInv, PoppedLong
<1>2. Core /\ SinceInv /\ [Next]_vars => SinceInv'
  <2> SUFFICES ASSUME Core, SinceInv, [Next]_vars PROVE SinceInv'
    OBVIOUS
  <2>1. CASE PassStep
    BY <2>1, PassSince
  <2>2. CASE /\ quiet' = quiet /\ DOMAIN slots' = DOMAIN slots
             /\ \A k \in DOMAIN slots : slots'[k].since = slots[k].since
    BY <2>2 DEF SinceInv, PoppedLong
  <2>3. ASSUME NEW k \in DOMAIN slots, NEW x, slots[k] \in Slot,
               \/ slots' = [slots EXCEPT ![k] = [slots[k] EXCEPT !.active = x]]
               \/ slots' = [slots EXCEPT ![k] = [slots[k] EXCEPT !.transferring = x]]
        PROVE  /\ DOMAIN slots' = DOMAIN slots
               /\ \A j \in DOMAIN slots : slots'[j].since = slots[j].since
    BY <2>3 DEF Slot
  <2>4. ASSUME NEW r \in Request, LeaveSlot(r) PROVE SinceInv'
    <3>1. keyOf[r] \in DOMAIN slots /\ slots[keyOf[r]] \in Slot
      BY <2>4 DEF LeaveSlot, Core, Placement, InSlot
    <3> DEFINE k == keyOf[r]
               x == slots[k].active \ {r}
    <3>2. slots' = [slots EXCEPT ![k] = [slots[k] EXCEPT !.active = x]]
      BY <2>4, Zenon DEF LeaveSlot
    <3> HIDE DEF x, k
    <3>3. QED
      BY <2>2, <2>3, <2>4, <3>1, <3>2 DEF LeaveSlot, k
  <2>5. CASE StartTask
    <3> DEFINE r == Head(ready)
               k == keyOf[r]
               x == slots[k].transferring \cup {r}
    <3>1. slots' = [slots EXCEPT ![k] = [slots[k] EXCEPT !.transferring = x]]
      BY <2>5, Zenon DEF StartTask
    <3>2. LoopQueue(slots, ready, stage) /\ ready # <<>> /\ r \in Request
      BY <2>5 DEF StartTask, Core, Placement
    <3>3. stage[r] = "launched"
      BY <3>2, TailFacts DEF LoopQueue
    <3>4. k \in DOMAIN slots /\ slots[k] \in Slot
      BY <3>2, <3>3 DEF Core, Placement, InSlot
    <3> HIDE DEF x, k
    <3>5. QED
      BY <2>2, <2>3, <2>5, <3>1, <3>4 DEF StartTask
  <2>6. CASE Tick
    <3>1. /\ DOMAIN slots' = DOMAIN slots
          /\ quiet' = [k \in SlotKey |-> Later(quiet[k])]
      BY <2>6 DEF Tick
    <3>2. \A k \in DOMAIN slots : slots[k] \in Slot /\ k \in SlotKey
      BY DEF Core, Placement
    <3>3. ASSUME NEW k \in DOMAIN slots PROVE slots'[k].since = Later(slots[k].since)
      BY <2>6, <3>2 DEF Tick, Slot
    <3>4. \A k \in SlotKey : quiet'[k] = Later(quiet[k])
      BY <3>1
    <3>5. \A k \in SlotKey : PoppedLong(k) => PoppedLong(k)'
      <4> SUFFICES ASSUME NEW k \in SlotKey, PoppedLong(k) PROVE PoppedLong(k)'
        OBVIOUS
      <4>1. quiet[k] \in Nat /\ GcAge \in Nat /\ Delay[k] \in Nat /\ LongAgo \in Nat
        BY DelayFacts DEF Core, Types
      <4>2. Later(quiet[k]) >= quiet[k] /\ Later(quiet[k]) \in Nat
        BY <4>1 DEF Later
      <4>3. QED
        BY <3>4, <4>1, <4>2 DEF PoppedLong
    <3>6. QED
      BY <3>1, <3>2, <3>3, <3>4, <3>5 DEF SinceInv
  <2>7. CASE SlotGc
    <3>1. slots' = [k \in DOMAIN slots \ Stale |-> slots[k]] /\ quiet' = quiet
      BY <2>7 DEF SlotGc
    <3>2. \A k \in Stale : k \in DOMAIN slots /\ slots[k].since > GcAge + Delay[k]
      BY DEF Stale
    <3>3. \A k \in SlotKey \ DOMAIN slots' : PoppedLong(k)
      BY <3>1, <3>2 DEF SinceInv, PoppedLong
    <3>4. QED
      BY <3>1, <3>3 DEF SinceInv, PoppedLong
  <2>8. CASE Close
    <3>1. /\ slots' = [k \in DOMAIN slots |-> [slots[k] EXCEPT !.timer = Idle]]
          /\ quiet' = quiet
      BY <2>8 DEF Close
    <3>2. ASSUME NEW k \in DOMAIN slots PROVE slots'[k].since = slots[k].since
      BY <3>1 DEF Core, Placement, Slot
    <3>3. QED
      BY <2>2, <3>1, <3>2
  <2>9. ASSUME NEW r \in Request,
               Fetch(r) \/ AnswerEarly(r) \/ DownloadRaises(r) \/ FetchReturns(r)
        PROVE  quiet' = quiet /\ slots' = slots
    BY <2>9 DEF Fetch, AnswerEarly, DownloadRaises, FetchReturns
  <2>10. ASSUME NEW k \in SlotKey, TimerDue(k) PROVE quiet' = quiet /\ slots' = slots
    BY <2>10 DEF TimerDue
  <2>11. CASE UNCHANGED vars
    BY <2>2, <2>11 DEF vars
  <2>12. QED
    BY <2>1, <2>2, <2>4, <2>5, <2>6, <2>7, <2>8, <2>9, <2>10, <2>11
       DEF Next, Progress, PassStep
<1>3. QED
  BY <1>1, <1>2, CoreTheorem, PTL DEF Spec

(* Outside a pass nothing leaves a queue. *)
LEMMA OnlyPassesPop ==
  ASSUME Core, Next, ~ PassStep
  PROVE  /\ \A r \in Request : ~ PassesQueue(r)
         /\ \A k \in DOMAIN slots \cap DOMAIN slots' : slots'[k].queue = slots[k].queue
<1> USE DEF PassesQueue
<1>1. stage \in [Request -> Stages] /\ LoopQueue(slots, ready, stage)
      /\ \A k \in DOMAIN slots : slots[k] \in Slot
  BY DEF Core, Placement
<1>2. ASSUME NEW r \in Request,
             Fetch(r) \/ AnswerEarly(r) \/ DownloadRaises(r) \/ FetchReturns(r)
      PROVE  slots' = slots /\ \A q \in Request : ~ PassesQueue(q)
  BY <1>1, <1>2 DEF Fetch, AnswerEarly, DownloadRaises, FetchReturns
<1>3. ASSUME NEW r \in Request, LeaveSlot(r)
      PROVE  /\ \A q \in Request : ~ PassesQueue(q)
             /\ \A k \in DOMAIN slots : slots'[k].queue = slots[k].queue
  <2> DEFINE k == keyOf[r]
             x == slots[k].active \ {r}
  <2>1. slots' = [slots EXCEPT ![k] = [slots[k] EXCEPT !.active = x]]
    BY <1>3, Zenon DEF LeaveSlot
  <2>2. \A q \in Request : ~ PassesQueue(q)
    BY <1>1, <1>3 DEF LeaveSlot
  <2> HIDE DEF x, k
  <2>3. QED
    BY <1>1, <2>1, <2>2 DEF Slot
<1>4. ASSUME StartTask
      PROVE  /\ \A q \in Request : ~ PassesQueue(q)
             /\ \A k \in DOMAIN slots : slots'[k].queue = slots[k].queue
  <2> DEFINE r == Head(ready)
             k == keyOf[r]
             x == slots[k].transferring \cup {r}
  <2>1. slots' = [slots EXCEPT ![k] = [slots[k] EXCEPT !.transferring = x]]
    BY <1>4, Zenon DEF StartTask
  <2>2. ready # <<>> /\ r \in Request /\ stage' = [stage EXCEPT ![r] = "transferring"]
    BY <1>4 DEF StartTask
  <2>3. stage[r] = "launched"
    BY <1>1, <2>2, TailFacts DEF LoopQueue
  <2> HIDE DEF x, k, r
  <2>4. \A q \in Request : ~ PassesQueue(q)
    BY <1>1, <2>2, <2>3
  <2>5. QED
    BY <1>1, <2>1, <2>4 DEF Slot
<1>5. ASSUME Tick \/ SlotGc \/ Close
      PROVE  /\ \A q \in Request : ~ PassesQueue(q)
             /\ \A k \in DOMAIN slots \cap DOMAIN slots' : slots'[k].queue = slots[k].queue
  <2>1. stage' = stage
    BY <1>5 DEF Tick, SlotGc, Close
  <2>2. \A q \in Request : ~ PassesQueue(q)
    BY <2>1
  <2>3. CASE Tick
    BY <1>1, <2>2, <2>3 DEF Tick, Slot
  <2>4. CASE SlotGc
    BY <2>2, <2>4 DEF SlotGc
  <2>5. CASE Close
    BY <1>1, <2>2, <2>5 DEF Close, Slot
  <2>6. QED
    BY <1>5, <2>3, <2>4, <2>5
<1>6. ASSUME NEW k \in SlotKey, TimerDue(k)
      PROVE  slots' = slots /\ \A q \in Request : ~ PassesQueue(q)
  BY <1>6 DEF TimerDue
<1>7. QED
  BY <1>2, <1>3, <1>4, <1>5, <1>6 DEF Next, Progress, PassStep

(* Two requests of a slot with a delay are never popped closer than the    *)
(* shortest delay, whatever delays are drawn in between and even if the    *)
(* slot was dropped and created again.                                     *)
THEOREM SpacedTheorem == Spec => SpacedPops
<1>1. Core /\ SinceInv /\ [Next]_vars =>
        [\A k \in SlotKey :
           LET popped == {r \in Request : keyOf[r] = k /\ PassesQueue(r)}
           IN  popped # {} /\ Delay[k] > 0 =>
                 /\ Cardinality(popped) = 1
                 /\ \E d \in Delays[k] : d <= quiet[k]]_vars
  <2> SUFFICES ASSUME Core, SinceInv, Next, NEW j \in SlotKey, Delay[j] > 0,
                      NEW x \in {r \in Request : keyOf[r] = j /\ PassesQueue(r)}
               PROVE  /\ Cardinality({r \in Request : keyOf[r] = j /\ PassesQueue(r)}) = 1
                      /\ \E d \in Delays[j] : d <= quiet[j]
    OBVIOUS
  <2>1. PassStep
    BY OnlyPassesPop
  <2>2. PICK k \in SlotKey, s \in Slot : \E tasks, st :
          \E n \in 0 .. Len(s.queue), timer \in Idle .. LongAgo :
            Pass(k, s, tasks, st, n, timer)
    BY <2>1, PassFacts DEF SomePass
  <2>3. PICK tasks, st, n, timer :
          /\ n \in 0 .. Len(s.queue) /\ timer \in Idle .. LongAgo
          /\ Pass(k, s, tasks, st, n, timer)
    BY <2>2
  <2> DEFINE popped == Firsts(s.queue, n)
  <2>4. ASSUME NEW r \in Request, PassesQueue(r)
        PROVE  r \in Range(popped) /\ keyOf[r] = k
    <3>1. stage[r] \in {"middleware", "queued"} /\ stage'[r] \in {"launched", "transferring"}
      BY <2>4 DEF PassesQueue
    <3>2. st[r] = stage[r] \/ st[r] \in {"queued", "answered"}
      BY <2>3, CalledStages DEF Pass
    <3>3. QED
      BY <2>3, <3>1, <3>2, PassStages
  <2>5. j = k /\ x \in Range(popped)
    BY <2>4
  <2>6. s.queue \in Seq(Request) /\ IsInjective(s.queue) /\ Len(s.queue) \in Nat
    <3>1. Waits(With(k, s), st, k) /\ With(k, s)[k] = s
      BY <2>3 DEF Pass, Placement, With
    <3>2. QED
      BY <3>1 DEF Waits, Slot
  <2>7. /\ Len(popped) = n /\ popped \in Seq(Request)
        /\ \A i \in 1 .. n : popped[i] = s.queue[i]
    <3> DEFINE all == s.queue
    <3>1. all \in Seq(Request) /\ IsInjective(all) /\ n \in 0 .. Len(all)
      BY <2>3, <2>6
    <3> HIDE DEF all
    <3>2. /\ Len(Firsts(all, n)) = n /\ Firsts(all, n) \in Seq(Request)
          /\ \A i \in 1 .. n : Firsts(all, n)[i] = all[i]
      BY <3>1, SplitQueue
    <3>3. QED
      BY <3>2 DEF all
  <2> HIDE DEF popped
  <2>8. n > 0
    <3>1. PICK i \in 1 .. Len(popped) : popped[i] = x
      BY <2>5, <2>7, RangeOfSeq
    <3>2. QED
      BY <2>3, <2>6, <2>7, <3>1
  <2>9. n = 1 /\ \E d \in Delays[k] : d <= s.since
    BY <2>3, <2>5, <2>8 DEF Pass, Allowed
  <2>10. \A r \in Range(popped) : r = popped[1]
    BY <2>7, <2>9, RangeOfSeq
  <2>11. {r \in Request : keyOf[r] = j /\ PassesQueue(r)} = {x}
    BY <2>4, <2>5, <2>10
  <2>12. Cardinality({r \in Request : keyOf[r] = j /\ PassesQueue(r)}) = 1
    BY <2>11, FS_Singleton
  <2>13. \E d \in Delays[j] : d <= quiet[j]
    <3>1. s.since = SlotOf(k).since
      BY <2>3, CalledSlot DEF Pass
    <3>2. CASE s.since = quiet[k]
      BY <2>5, <2>9, <3>2
    <3>3. CASE PoppedLong(k)
      <4>1. PICK d \in Delays[k] : d <= Delay[k]
        BY <2>5, DelayFacts
      <4>2. d \in Int /\ Delay[k] \in Nat /\ GcAge \in Nat /\ quiet[k] \in Int
        BY <4>1, <2>5, DelayFacts DEF Core, Types
      <4>3. d <= quiet[k]
        BY <3>3, <4>1, <4>2 DEF PoppedLong
      <4>4. QED
        BY <2>5, <4>3
    <3>4. QED
      BY <3>1, <3>2, <3>3 DEF SinceInv, SlotOf
  <2>14. QED
    BY <2>12, <2>13
<1>2. QED
  BY <1>1, CoreTheorem, SinceTheorem, PTL DEF Spec, SpacedPops

-----------------------------------------------------------------------------
(* The requests a pass leaves waiting keep their places. *)
LEMMA SameTail ==
  ASSUME NEW S, NEW old \in Seq(S), NEW new \in Seq(S), NEW n \in 0 .. Len(old),
         Len(old) - n <= Len(new),
         \A i \in 1 .. Len(old) - n : new[i] = old[n + i]
  PROVE  SubSeq(old, n + 1, Len(old)) = SubSeq(new, 1, Len(old) - n)
<1>1. Len(old) \in Nat /\ Len(new) \in Nat /\ n \in Nat
  OBVIOUS
<1>2. CASE n = Len(old)
  <2>1. SubSeq(old, n + 1, Len(old)) = <<>> /\ SubSeq(new, 1, Len(old) - n) = <<>>
    BY <1>1, <1>2
  <2>2. QED
    BY <2>1
<1>3. CASE n < Len(old)
  <2>1. SubSeq(old, n + 1, Len(old)) = [i \in 1 .. Len(old) - n |-> old[n + i]]
    BY <1>1, <1>3
  <2>2. SubSeq(new, 1, Len(old) - n) = [i \in 1 .. Len(old) - n |-> new[i]]
    BY <1>1, <1>3
  <2>3. QED
    BY <2>1, <2>2
<1>4. QED
  BY <1>1, <1>2, <1>3

InOrder(old, new) ==
  \E n \in 0 .. Len(old) :
    /\ \A i \in 1 .. n : old[i] \notin Members(new)
    /\ Len(old) - n <= Len(new)
    /\ SubSeq(old, n + 1, Len(old)) = SubSeq(new, 1, Len(old) - n)

LEMMA PassInOrder ==
  ASSUME Core, PassStep, NEW j \in DOMAIN slots \cap DOMAIN slots'
  PROVE  /\ InOrder(slots[j].queue, slots'[j].queue)
         /\ \A r \in At(j, {"middleware"}) : PassesQueue(r) => slots'[j].queue = <<>>
<1>1. PICK k \in SlotKey, s \in Slot : \E tasks, st :
        \E n \in 0 .. Len(s.queue), timer \in Idle .. LongAgo :
          Pass(k, s, tasks, st, n, timer)
  BY PassFacts DEF SomePass
<1>2. PICK tasks, st, n, timer :
        /\ n \in 0 .. Len(s.queue) /\ timer \in Idle .. LongAgo
        /\ Pass(k, s, tasks, st, n, timer)
  BY <1>1
<1> DEFINE old == slots[j].queue
           new == slots'[j].queue
           all == s.queue
<1>3. old \in Seq(Request) /\ new \in Seq(Request) /\ Len(old) \in Nat
  BY <1>2 DEF Pass, Core, Placement, Slot
<1>4. ASSUME NEW r \in Request, PassesQueue(r), stage[r] = "middleware"
      PROVE  /\ keyOf[r] = k /\ r \in Range(Firsts(all, n))
             /\ Enqueues(r, k, s, tasks, st)
  <2>1. stage'[r] \in {"launched", "transferring"}
    BY <1>4 DEF PassesQueue
  <2>2. \/ st[r] = stage[r]
        \/ st[r] = "queued" /\ Enqueues(r, k, s, tasks, st)
    BY <1>2, <1>4, CalledStages DEF Pass
  <2>3. QED
    BY <1>2, <1>4, <2>1, <2>2, PassStages
<1>5. CASE j # k
  <2>1. new = old
    BY <1>2, <1>5 DEF Pass, Served
  <2>2. SubSeq(old, 0 + 1, Len(old)) = SubSeq(new, 1, Len(old) - 0)
    BY <1>3, <2>1
  <2>3. InOrder(old, new)
    BY <1>3, <2>1, <2>2 DEF InOrder
  <2>4. \A r \in At(j, {"middleware"}) : ~ PassesQueue(r)
    BY <1>4, <1>5 DEF At
  <2>5. QED
    BY <2>3, <2>4
<1>6. CASE j = k
  <2>1. all \in Seq(Request) /\ IsInjective(all) /\ Len(all) \in Nat
    <3>1. Waits(With(k, s), st, k) /\ With(k, s)[k] = s
      BY <1>2 DEF Pass, Placement, With
    <3>2. QED
      BY <3>1 DEF Waits, Slot
  <2>2. new = Others(all, n)
    BY <1>2, <1>6 DEF Pass, Served
  <2>3. /\ Len(new) = Len(all) - n
        /\ \A i \in 1 .. Len(all) - n : new[i] = all[n + i]
        /\ Range(Firsts(all, n)) \cap Range(new) = {}
        /\ \A i \in 1 .. n : Firsts(all, n)[i] = all[i]
        /\ Firsts(all, n) \in Seq(Request) /\ Len(Firsts(all, n)) = n
    <3>1. n \in 0 .. Len(all)
      BY <1>2
    <3> HIDE DEF all, new
    <3>2. /\ Len(Others(all, n)) = Len(all) - n
          /\ \A i \in 1 .. Len(all) - n : Others(all, n)[i] = all[n + i]
          /\ Range(Firsts(all, n)) \cap Range(Others(all, n)) = {}
          /\ \A i \in 1 .. n : Firsts(all, n)[i] = all[i]
          /\ Firsts(all, n) \in Seq(Request) /\ Len(Firsts(all, n)) = n
      BY <2>1, <3>1, SplitQueue
    <3>3. QED
      BY <2>2, <3>2
  <2>4. \A i \in 1 .. n : all[i] \notin Members(new)
    <3>1. \A i \in 1 .. n : all[i] \in Range(Firsts(all, n))
      BY <2>3, RangeOfSeq
    <3>2. QED
      BY <2>3, <3>1, MembersAreRange
  <2>5. SlotOf(k).queue = old
    BY <1>6 DEF SlotOf
  <2> HIDE DEF all, old, new
  <2>6. CASE all = old
    <3>1. SubSeq(old, n + 1, Len(old)) = SubSeq(new, 1, Len(old) - n)
      BY <1>2, <1>3, <2>3, <2>6, SameTail DEF all
    <3>2. InOrder(old, new)
      BY <1>2, <2>3, <2>4, <2>6, <3>1 DEF InOrder, all
    <3>3. \A r \in At(j, {"middleware"}) : ~ PassesQueue(r)
      <4> SUFFICES ASSUME NEW r \in Request, stage[r] = "middleware", PassesQueue(r)
                   PROVE  FALSE
        BY DEF At
      <4>1. r \in Range(Firsts(all, n))
        BY <1>4
      <4>2. r \in Range(all)
        BY <1>2, <2>1, <4>1, SplitQueue DEF all
      <4>3. Waits(slots, stage, j)
        BY DEF Core, Placement
      <4>4. stage[r] = "queued"
        BY <2>6, <4>2, <4>3 DEF Waits, During, old
      <4>5. QED
        BY <4>4
    <3>4. QED
      BY <3>2, <3>3 DEF old, new
  <2>7. ASSUME NEW q \in Request, all = Append(old, q), Enqueues(q, k, s, tasks, st)
        PROVE  /\ InOrder(old, new)
               /\ \A r \in At(j, {"middleware"}) : PassesQueue(r) => new = <<>>
    <3>1. /\ Len(all) = Len(old) + 1 /\ all[Len(old) + 1] = q
          /\ \A i \in 1 .. Len(old) : all[i] = old[i]
      BY <1>3, <2>7
    <3>2. CASE n \in 0 .. Len(old)
      <4>1. \A i \in 1 .. Len(old) - n : new[i] = old[n + i]
        <5>1. \A i \in 1 .. Len(old) - n : n + i \in 1 .. Len(old) /\ i \in 1 .. Len(all) - n
          BY <1>3, <3>1, <3>2
        <5>2. QED
          BY <2>3, <3>1, <5>1
      <4>2. Len(old) - n <= Len(new)
        BY <1>3, <2>3, <3>1, <3>2
      <4>3. new \in Seq(Request) /\ old \in Seq(Request)
        BY <1>3 DEF new, old
      <4>4. SubSeq(old, n + 1, Len(old)) = SubSeq(new, 1, Len(old) - n)
        BY <3>2, <4>1, <4>2, <4>3, SameTail
      <4>5. \A i \in 1 .. n : old[i] \notin Members(new)
        BY <1>3, <2>4, <3>1, <3>2
      <4>6. InOrder(old, new)
        BY <3>2, <4>2, <4>4, <4>5 DEF InOrder
      <4>7. \A r \in At(j, {"middleware"}) : ~ PassesQueue(r)
        <5> SUFFICES ASSUME NEW r \in Request, stage[r] = "middleware", PassesQueue(r)
                     PROVE  FALSE
          BY DEF At
        <5>1. r \in Range(Firsts(all, n)) /\ Enqueues(r, k, s, tasks, st)
          BY <1>4
        <5>2. r = q
          <6>1. stage \in [Request -> Stages]
            BY DEF Core, Placement
          <6>2. [stage EXCEPT ![r] = "queued"] = [stage EXCEPT ![q] = "queued"]
            BY <2>7, <5>1 DEF Enqueues
          <6>3. QED
            BY <5>1, <6>1, <6>2 DEF Enqueues
        <5>3. PICK i \in 1 .. n : all[i] = r
          <6>1. \E i \in 1 .. Len(Firsts(all, n)) : Firsts(all, n)[i] = r
            BY <2>3, <5>1, RangeOfSeq
          <6>2. QED
            BY <2>3, <6>1
        <5>4. i \in 1 .. Len(all) /\ Len(old) + 1 \in 1 .. Len(all) /\ i # Len(old) + 1
          BY <1>3, <3>1, <3>2
        <5>5. QED
          BY <2>1, <3>1, <5>2, <5>3, <5>4 DEF IsInjective
      <4>8. QED
        BY <4>6, <4>7
    <3>3. CASE n = Len(old) + 1
      <4>1. Len(new) = 0 /\ new \in Seq(Request)
        BY <1>3, <2>3, <3>1, <3>3 DEF new
      <4>2. new = <<>> /\ Members(new) = {}
        BY <4>1 DEF Members
      <4>3. SubSeq(old, Len(old) + 1, Len(old)) = SubSeq(new, 1, Len(old) - Len(old))
        <5>1. old \in Seq(Request) /\ Len(old) \in 0 .. Len(old)
              /\ Len(old) - Len(old) <= Len(new)
              /\ 1 .. Len(old) - Len(old) = {}
          BY <1>3, <4>1 DEF old
        <5>2. QED
          BY <4>1, <5>1, SameTail
      <4>4. Len(old) \in 0 .. Len(old) /\ Len(old) - Len(old) <= Len(new)
        BY <1>3, <4>1
      <4>5. InOrder(old, new)
        BY <4>2, <4>3, <4>4 DEF InOrder
      <4>6. QED
        BY <4>2, <4>5
    <3>4. QED
      BY <1>2, <1>3, <3>1, <3>2, <3>3 DEF all
  <2>8. all = old \/ \E q \in Request : all = Append(old, q) /\ Enqueues(q, k, s, tasks, st)
    BY <1>2, <2>5, CalledSlot DEF Pass, all
  <2>9. QED
    BY <2>6, <2>7, <2>8 DEF old, new
<1>7. QED
  BY <1>5, <1>6

(* A slot serves its requests in the order they were enqueued, and a       *)
(* newcomer goes straight through only if nobody is left waiting.          *)
THEOREM ServedInOrder == Spec => FirstInFirstOut
<1>1. Core /\ [Next]_vars =>
        [\A k \in DOMAIN slots \cap DOMAIN slots' :
           LET old == slots[k].queue
               new == slots'[k].queue
           IN  /\ \E n \in 0 .. Len(old) :
                    /\ \A i \in 1 .. n : old[i] \notin Members(new)
                    /\ Len(old) - n <= Len(new)
                    /\ SubSeq(old, n + 1, Len(old)) = SubSeq(new, 1, Len(old) - n)
               /\ \A r \in At(k, {"middleware"}) : PassesQueue(r) => new = <<>>]_vars
  <2> SUFFICES ASSUME Core, Next, NEW k \in DOMAIN slots \cap DOMAIN slots'
               PROVE  /\ InOrder(slots[k].queue, slots'[k].queue)
                      /\ \A r \in At(k, {"middleware"}) :
                           PassesQueue(r) => slots'[k].queue = <<>>
    BY DEF InOrder
  <2>1. CASE PassStep
    BY <2>1, PassInOrder
  <2>2. CASE ~ PassStep
    <3> DEFINE old == slots[k].queue
    <3>1. old \in Seq(Request) /\ slots'[k].queue = old
      BY <2>2, OnlyPassesPop DEF Core, Placement, Slot
    <3>2. SubSeq(old, 0 + 1, Len(old)) = SubSeq(old, 1, Len(old) - 0) /\ Len(old) \in Nat
      BY <3>1
    <3>3. InOrder(old, old)
      BY <3>2 DEF InOrder
    <3>4. \A r \in At(k, {"middleware"}) : ~ PassesQueue(r)
      BY <2>2, OnlyPassesPop DEF At
    <3>5. QED
      BY <3>1, <3>3, <3>4
  <2>3. QED
    BY <2>1, <2>2
<1>2. QED
  BY <1>1, CoreTheorem, PTL DEF Spec, FirstInFirstOut

-----------------------------------------------------------------------------
(* A request popped but not started holds no slot of transferring, so the  *)
(* next pass would not count it.  Where coroutines start at once there is  *)
(* none; in a slot with a delay the pass that popped it set the timer,     *)
(* which blocks every pass until it fires, and that is queued behind it,   *)
(* unless the downloader is closed, which cancels the timer.               *)
Ahead(tk, x, y) ==
  \A i, j \in 1 .. Len(tk) : tk[i] = x /\ tk[j] = y => i < j

LaunchInv ==
  \A r \in Request : stage[r] = "launched" =>
    /\ asyncio
    /\ Delay[keyOf[r]] > 0 /\ ~ closed =>
         slots[keyOf[r]].timer # Idle /\ Ahead(ready, r, keyOf[r])

Ongoing == {"launched", "transferring", "failing"}

LEMMA AheadConcat ==
  ASSUME NEW S, NEW s \in Seq(S), NEW p \in Seq(S), NEW x, NEW y,
         x \notin Range(p), Ahead(s, x, y)
  PROVE  Ahead(s \o p, x, y)
<1> SUFFICES ASSUME NEW i \in 1 .. Len(s \o p), NEW j \in 1 .. Len(s \o p),
                    (s \o p)[i] = x, (s \o p)[j] = y
             PROVE  i < j
  BY DEF Ahead
<1>1. Len(s) \in Nat /\ Len(p) \in Nat /\ Len(s \o p) = Len(s) + Len(p)
  OBVIOUS
<1>2. \A a \in 1 .. Len(s \o p) :
        (s \o p)[a] = IF a <= Len(s) THEN s[a] ELSE p[a - Len(s)]
  OBVIOUS
<1>3. i <= Len(s)
  <2>1. \A a \in 1 .. Len(p) : p[a] # x
    BY RangeOfSeq
  <2>2. ~ (i <= Len(s)) => i - Len(s) \in 1 .. Len(p)
    BY <1>1
  <2>3. QED
    BY <1>2, <2>1, <2>2
<1>4. CASE j <= Len(s)
  <2>1. i \in 1 .. Len(s) /\ j \in 1 .. Len(s) /\ s[i] = x /\ s[j] = y
    BY <1>1, <1>2, <1>3, <1>4
  <2>2. QED
    BY <2>1 DEF Ahead
<1>5. QED
  BY <1>1, <1>3, <1>4

LEMMA AheadTail ==
  ASSUME NEW S, NEW s \in Seq(S), s # <<>>, NEW x, NEW y, Ahead(s, x, y)
  PROVE  Ahead(Tail(s), x, y)
<1> SUFFICES ASSUME NEW i \in 1 .. Len(Tail(s)), NEW j \in 1 .. Len(Tail(s)),
                    Tail(s)[i] = x, Tail(s)[j] = y
             PROVE  i < j
  BY DEF Ahead
<1>1. i + 1 \in 1 .. Len(s) /\ j + 1 \in 1 .. Len(s) /\ s[i + 1] = x /\ s[j + 1] = y
  OBVIOUS
<1>2. i + 1 < j + 1
  BY <1>1 DEF Ahead
<1>3. QED
  BY <1>2

LEMMA AheadCancel ==
  ASSUME Core, NEW keys \in SUBSET SlotKey, NEW x, NEW y, x # y, Ahead(ready, x, y)
  PROVE  Ahead(Cancel(keys), x, y)
<1> DEFINE q == Cancel(keys)
<1>1. /\ q \in Seq(Handle)
      /\ \A i, j \in 1 .. Len(q) :
           i < j => \E a, b \in 1 .. Len(ready) : a < b /\ q[i] = ready[a] /\ q[j] = ready[b]
  BY CancelQueue
<1> HIDE DEF q
<1>2. SUFFICES ASSUME NEW i \in 1 .. Len(q), NEW j \in 1 .. Len(q),
                      q[i] = x, q[j] = y, j < i
               PROVE  FALSE
  BY <1>1 DEF Ahead, q
<1>3. PICK a, b \in 1 .. Len(ready) : a < b /\ ready[a] = y /\ ready[b] = x
  BY <1>1, <1>2
<1>4. b < a
  BY <1>3 DEF Ahead
<1>5. QED
  BY <1>3, <1>4

(* Where the launched requests, their timers and their order stay. *)
LEMMA LaunchKept ==
  ASSUME LaunchInv, asyncio' = asyncio, keyOf' = keyOf, closed \in BOOLEAN,
         closed' = closed \/ closed' = TRUE,
         \A r \in Request : stage'[r] = "launched" =>
           /\ stage[r] = "launched"
           /\ slots[keyOf[r]].timer # Idle => slots'[keyOf[r]].timer # Idle
           /\ Ahead(ready, r, keyOf[r]) => Ahead(ready', r, keyOf[r])
  PROVE  LaunchInv'
<1>1. ASSUME NEW r \in Request, stage'[r] = "launched"
      PROVE  /\ asyncio'
             /\ Delay[keyOf'[r]] > 0 /\ ~ closed' =>
                  slots'[keyOf'[r]].timer # Idle /\ Ahead(ready', r, keyOf'[r])
  BY <1>1 DEF LaunchInv
<1>2. QED
  BY <1>1 DEF LaunchInv, Ahead

LEMMA ClosedForGood == ASSUME Next PROVE closed' = closed \/ closed' = TRUE
<1>1. ASSUME NEW r \in Request, Fetch(r) \/ Progress(r)
      PROVE  closed' = closed
  BY <1>1, Zenon DEF Fetch, Progress, AnswerEarly, Enqueue, Downloaded, DownloadRaises,
                     SleepEnds, LeaveSlot, FetchReturns, LeaveTransfer
<1>2. ASSUME StartTask \/ Latercall \/ Tick \/ SlotGc PROVE closed' = closed
  BY <1>2, Zenon DEF StartTask, Latercall, Tick, SlotGc
<1>3. ASSUME Close PROVE closed' = TRUE
  BY <1>3, Zenon DEF Close
<1>4. ASSUME NEW k \in SlotKey, TimerDue(k) PROVE closed' = closed
  BY <1>4, Zenon DEF TimerDue
<1>5. QED
  BY <1>1, <1>2, <1>3, <1>4, Zenon DEF Next

LEMMA OthersLaunch ==
  ASSUME Core, Core', LaunchInv, Next, ~ PassStep
  PROVE  LaunchInv'
<1>1. /\ stage \in [Request -> Stages] /\ LoopQueue(slots, ready, stage)
      /\ DOMAIN slots \subseteq SlotKey /\ \A k \in DOMAIN slots : slots[k] \in Slot
      /\ \A r \in Request : stage[r] = "launched" => keyOf[r] \in DOMAIN slots
      /\ keyOf \in [Request -> SlotKey] /\ \A r \in Request : r \notin SlotKey
  BY SlotsAssumption DEF Core, Placement, Types, InSlot
<1>10. closed \in BOOLEAN /\ (closed' = closed \/ closed' = TRUE)
  <2>1. closed \in BOOLEAN
    BY DEF Core, Types
  <2>2. QED
    BY <2>1, ClosedForGood
<1>2. ASSUME NEW r \in Request,
             Fetch(r) \/ AnswerEarly(r) \/ DownloadRaises(r) \/ FetchReturns(r)
      PROVE  LaunchInv'
  <2>1. /\ asyncio' = asyncio /\ keyOf' = keyOf /\ slots' = slots /\ ready' = ready
        /\ \A q \in Request : stage'[q] = "launched" => stage[q] = "launched"
    BY <1>1, <1>2 DEF Fetch, AnswerEarly, DownloadRaises, FetchReturns
  <2>2. QED
    BY <1>10, <2>1, LaunchKept
<1>3. ASSUME NEW r \in Request, LeaveSlot(r) PROVE LaunchInv'
  <2> DEFINE k == keyOf[r]
             x == slots[k].active \ {r}
  <2>1. slots' = [slots EXCEPT ![k] = [slots[k] EXCEPT !.active = x]]
    BY <1>3, Zenon DEF LeaveSlot
  <2> HIDE DEF x, k
  <2>2. \A j \in DOMAIN slots : slots'[j].timer = slots[j].timer
    BY <1>1, <2>1 DEF Slot
  <2>3. /\ asyncio' = asyncio /\ keyOf' = keyOf /\ ready' = ready
        /\ \A q \in Request : stage'[q] = "launched" => stage[q] = "launched"
    BY <1>1, <1>3 DEF LeaveSlot
  <2>4. QED
    BY <1>1, <1>10, <2>2, <2>3, LaunchKept
<1>4. CASE StartTask
  <2> DEFINE r == Head(ready)
             k == keyOf[r]
             x == slots[k].transferring \cup {r}
  <2>1. slots' = [slots EXCEPT ![k] = [slots[k] EXCEPT !.transferring = x]]
    BY <1>4, Zenon DEF StartTask
  <2> HIDE DEF x, k
  <2>2. \A j \in DOMAIN slots : slots'[j].timer = slots[j].timer
    BY <1>1, <2>1 DEF Slot
  <2>3. /\ asyncio' = asyncio /\ keyOf' = keyOf /\ ready # <<>> /\ ready' = Tail(ready)
        /\ \A q \in Request : stage'[q] = "launched" => stage[q] = "launched"
    BY <1>1, <1>4 DEF StartTask
  <2>4. \A y, z : Ahead(ready, y, z) => Ahead(ready', y, z)
    BY <1>1, <2>3, AheadTail DEF LoopQueue
  <2>5. QED
    BY <1>1, <1>10, <2>2, <2>3, <2>4, LaunchKept
<1>5. CASE Tick
  <2>1. /\ asyncio' = asyncio /\ keyOf' = keyOf /\ ready' = ready /\ stage' = stage
        /\ \A k \in DOMAIN slots : slots'[k] =
             [slots[k] EXCEPT !.since = Later(@), !.timer = IF @ > 0 THEN @ - 1 ELSE @]
    BY <1>5 DEF Tick
  <2>2. ASSUME NEW k \in DOMAIN slots, slots[k].timer # Idle
        PROVE  slots'[k].timer # Idle
    <3>1. slots[k].timer \in Idle .. LongAgo /\ slots[k] \in Slot /\ LongAgo \in Nat
      BY <1>1, SlotsAssumption DEF Slot
    <3> DEFINE since == Later(slots[k].since)
               timer == IF slots[k].timer > 0 THEN slots[k].timer - 1 ELSE slots[k].timer
    <3>2. slots'[k] = [slots[k] EXCEPT !.since = since, !.timer = timer]
      BY <2>1, Zenon
    <3>3. timer # Idle
      BY <2>2, <3>1 DEF Idle
    <3> HIDE DEF since, timer
    <3>4. QED
      BY <3>1, <3>2, <3>3 DEF Slot
  <2>3. QED
    BY <1>1, <1>10, <2>1, <2>2, LaunchKept
<1>6. CASE SlotGc
  <2>1. /\ asyncio' = asyncio /\ keyOf' = keyOf /\ stage' = stage
        /\ slots' = [k \in DOMAIN slots \ Stale |-> slots[k]]
        /\ ready' = Cancel(Stale) /\ Stale \in SUBSET SlotKey
    BY <1>1, <1>6 DEF SlotGc, Stale
  <2>2. \A r \in Request : stage'[r] = "launched" => keyOf[r] \in DOMAIN slots'
    BY <2>1 DEF Core, Placement, InSlot
  <2>3. \A k \in DOMAIN slots' : slots'[k].timer = slots[k].timer
    BY <2>1
  <2>4. ASSUME NEW r \in Request
        PROVE  Ahead(ready, r, keyOf[r]) => Ahead(ready', r, keyOf[r])
    <3>1. r # keyOf[r]
      BY <1>1
    <3>2. QED
      BY <2>1, <3>1, AheadCancel
  <2>5. QED
    BY <1>10, <2>1, <2>2, <2>3, <2>4, LaunchKept
<1>7. CASE Close
  <2>1. closed' = TRUE /\ stage' = stage /\ asyncio' = asyncio
    BY <1>7 DEF Close
  <2>2. QED
    BY <2>1 DEF LaunchInv
<1>8. ASSUME NEW k \in SlotKey, TimerDue(k) PROVE LaunchInv'
  <2> DEFINE one == <<k>>
  <2>1. /\ asyncio' = asyncio /\ keyOf' = keyOf /\ stage' = stage /\ slots' = slots
        /\ ready' = Append(ready, k) /\ ready \in Seq(Handle)
    BY <1>1, <1>8 DEF TimerDue, LoopQueue
  <2>2. ready' = ready \o one /\ one \in Seq(Handle) /\ Range(one) = {k}
    BY <2>1 DEF Handle, Range
  <2>3. \A r \in Request : r \notin Range(one)
    BY <1>1, <2>2
  <2> HIDE DEF one
  <2>4. \A r \in Request : \A y : Ahead(ready, r, y) => Ahead(ready', r, y)
    BY <2>1, <2>2, <2>3, AheadConcat
  <2>5. QED
    BY <1>10, <2>1, <2>4, LaunchKept
<1>9. QED
  BY <1>2, <1>3, <1>4, <1>5, <1>6, <1>7, <1>8 DEF Next, Progress, PassStep

(* A pass that pops finds nothing launched in its slot. *)
LEMMA NoneLaunched ==
  ASSUME Core, LaunchInv, NEW k \in SlotKey, NEW s \in Slot, NEW tasks, NEW st,
         Called(k, s, tasks, st), s.timer = Idle, ~ asyncio \/ (Delay[k] > 0 /\ ~ closed),
         NEW q \in Request, keyOf[q] = k
  PROVE  st[q] # "launched"
<1> SUFFICES ASSUME st[q] = "launched" PROVE FALSE
  OBVIOUS
<1>1. stage[q] = "launched"
  BY CalledStages
<1>2. k \in DOMAIN slots /\ LoopQueue(slots, ready, stage)
  BY <1>1 DEF Core, Placement, InSlot
<1>3. slots[k].timer # Idle /\ Ahead(ready, q, k)
  BY <1>1 DEF LaunchInv
<1>4. TimerFires(k, s, tasks, st)
  BY <1>2, <1>3, CalledSlot DEF SlotOf
<1>5. ready \in Seq(Handle) /\ ready # <<>> /\ k = ready[1]
  BY <1>2, <1>4 DEF TimerFires, LoopQueue
<1>6. PICK i \in 1 .. Len(ready) : ready[i] = q
  BY <1>1, <1>2, <1>5, RangeOfSeq DEF LoopQueue
<1>7. 1 \in 1 .. Len(ready)
  BY <1>5
<1>8. QED
  BY <1>3, <1>5, <1>6, <1>7 DEF Ahead

LEMMA PassPopped ==
  ASSUME NEW k, NEW s \in Slot, NEW tasks, NEW st, NEW n \in 0 .. Len(s.queue),
         NEW timer, Pass(k, s, tasks, st, n, timer)
  PROVE  /\ Firsts(s.queue, n) \in Seq(Request) /\ IsInjective(Firsts(s.queue, n))
         /\ Len(Firsts(s.queue, n)) = n
<1> DEFINE all == s.queue
<1>1. all \in Seq(Request) /\ IsInjective(all) /\ n \in 0 .. Len(all)
  <2>1. Waits(With(k, s), st, k) /\ With(k, s)[k] = s
    BY DEF Pass, Placement, With
  <2>2. QED
    BY <2>1 DEF Waits, Slot
<1> HIDE DEF all
<1>2. /\ Firsts(all, n) \in Seq(Request) /\ IsInjective(Firsts(all, n))
      /\ Len(Firsts(all, n)) = n
  BY <1>1, SplitQueue
<1>3. QED
  BY <1>2 DEF all

LEMMA PassLaunch ==
  ASSUME Core, LaunchInv, PassStep
  PROVE  LaunchInv'
<1>1. PICK k \in SlotKey, s \in Slot : \E tasks, st :
        \E n \in 0 .. Len(s.queue), timer \in Idle .. LongAgo :
          Pass(k, s, tasks, st, n, timer)
  BY PassFacts DEF SomePass
<1>2. PICK tasks, st, n, timer :
        /\ n \in 0 .. Len(s.queue) /\ timer \in Idle .. LongAgo
        /\ Pass(k, s, tasks, st, n, timer)
  BY <1>1
<1> DEFINE popped == Firsts(s.queue, n)
<1>3. /\ slots'[k].timer = timer
      /\ \A j \in DOMAIN slots \ {k} : slots'[j] = slots[j]
      /\ ready' = IF asyncio THEN tasks \o popped ELSE tasks
      /\ keyOf' = keyOf /\ asyncio' = asyncio /\ closed' = closed
  BY <1>2 DEF Pass, Served
<1>4. LoopQueue(slots', ready', stage') /\ LoopQueue(slots, ready, stage)
      /\ LongAgo \in Nat /\ \A r \in Request : r \notin SlotKey
  BY <1>2, SlotsAssumption DEF Pass, Core, Placement
<1>5. popped \in Seq(Handle) /\ Len(popped) = n /\ n \in Nat
  <2>1. popped \in Seq(Request) /\ Len(popped) = n
    BY <1>2, PassPopped
  <2> HIDE DEF popped
  <2>2. n \in Nat
    BY <1>2 DEF Slot
  <2>3. QED
    BY <2>1, <2>2 DEF Handle
<1> HIDE DEF popped
<1>6. SUFFICES ASSUME NEW r \in Request, stage'[r] = "launched"
               PROVE  /\ asyncio
                      /\ Delay[keyOf[r]] > 0 /\ ~ closed =>
                           slots'[keyOf[r]].timer # Idle /\ Ahead(ready', r, keyOf[r])
  BY <1>3 DEF LaunchInv, Ahead
<1>7. CASE r \in Range(popped)
  <2>1. asyncio /\ keyOf[r] = k
    BY <1>2, <1>6, <1>7, PassStages DEF popped
  <2>2. n > 0
    <3>1. \E i \in 1 .. Len(popped) : popped[i] = r
      BY <1>5, <1>7, RangeOfSeq
    <3>2. QED
      BY <1>5, <3>1
  <2>3. Delay[k] > 0 => timer > 0
    BY <1>2, <2>2 DEF Pass, Allowed
  <2>4. Delay[k] > 0 => slots'[k].timer # Idle /\ slots'[k].timer # 0
    BY <1>2, <1>3, <2>3 DEF Idle
  <2>5. Delay[k] > 0 => k \notin Range(ready') /\ ready' \in Seq(Handle)
    BY <1>4, <2>4 DEF LoopQueue
  <2>6. Delay[k] > 0 => Ahead(ready', r, k)
    BY <2>5, RangeOfSeq DEF Ahead
  <2>7. QED
    BY <2>1, <2>4, <2>6
<1>8. CASE r \notin Range(popped)
  <2>1. st[r] = "launched"
    BY <1>2, <1>6, <1>8, PassStages DEF popped
  <2>2. stage[r] = "launched"
    BY <1>2, <2>1, CalledStages DEF Pass
  <2>3. asyncio /\ keyOf[r] \in DOMAIN slots /\ keyOf[r] \in SlotKey
    BY <2>2 DEF LaunchInv, Core, Placement, InSlot, Types
  <2>4. SUFFICES ASSUME Delay[keyOf[r]] > 0, ~ closed
                 PROVE  slots'[keyOf[r]].timer # Idle /\ Ahead(ready', r, keyOf[r])
    BY <2>3
  <2>5. slots[keyOf[r]].timer # Idle /\ Ahead(ready, r, keyOf[r])
    BY <2>2, <2>4 DEF LaunchInv
  <2>6. Ahead(tasks, r, keyOf[r]) /\ tasks \in Seq(Handle)
    <3>1. tasks = ready \/ (ready # <<>> /\ tasks = Tail(ready))
      BY <1>2, Zenon DEF Pass, Called, Enqueues, Leaves, TimerFires
    <3>2. ready \in Seq(Handle)
      BY <1>4 DEF LoopQueue
    <3>3. CASE tasks = ready
      BY <2>5, <3>2, <3>3
    <3>4. CASE ready # <<>> /\ tasks = Tail(ready)
      <4>1. Tail(ready) \in Seq(Handle)
        BY <3>2, <3>4
      <4>2. Ahead(Tail(ready), r, keyOf[r])
        BY <2>5, <3>2, <3>4, AheadTail
      <4>3. QED
        BY <3>4, <4>1, <4>2
    <3>5. QED
      BY <3>1, <3>3, <3>4
  <2>7. Ahead(ready', r, keyOf[r])
    BY <1>3, <1>5, <1>8, <2>3, <2>6, AheadConcat
  <2>8. CASE keyOf[r] # k
    BY <1>3, <2>3, <2>5, <2>7, <2>8
  <2>9. CASE keyOf[r] = k
    <3>1. s.timer # Idle
      BY <1>2, <2>1, <2>4, <2>9, NoneLaunched DEF Pass
    <3>2. timer = s.timer
      BY <1>2, <3>1 DEF Pass, Allowed
    <3>3. QED
      BY <1>3, <2>7, <2>9, <3>1, <3>2
  <2>10. QED
    BY <2>8, <2>9
<1>9. QED
  BY <1>7, <1>8

(* What a pass adds to a slot fits beside what the slot transfers. *)
LEMMA PassConcurrency ==
  ASSUME Core, LaunchInv, ConcurrencyWithDelay, PassStep
  PROVE  ConcurrencyWithDelay'
<1>1. PICK k \in SlotKey, s \in Slot : \E tasks, st :
        \E n \in 0 .. Len(s.queue), timer \in Idle .. LongAgo :
          Pass(k, s, tasks, st, n, timer)
  BY PassFacts DEF SomePass
<1>2. PICK tasks, st, n, timer :
        /\ n \in 0 .. Len(s.queue) /\ timer \in Idle .. LongAgo
        /\ Pass(k, s, tasks, st, n, timer)
  BY <1>1
<1>3. keyOf' = keyOf /\ asyncio' = asyncio /\ closed' = closed
  BY <1>2 DEF Pass
<1>4. \A j \in SlotKey :
        /\ IsFiniteSet(During(stage, j, Ongoing))
        /\ Cardinality(During(stage, j, Ongoing)) \in Nat
        /\ ~ asyncio \/ (Delay[j] > 0 /\ ~ closed) =>
             Cardinality(During(stage, j, Ongoing)) <= Concurrency[j]
  <2>1. \A j \in SlotKey : During(stage, j, Ongoing) \subseteq active
                           /\ During(stage, j, Ongoing) = Committed(j)
    BY DEF During, Core, Fetched, Ongoing, Committed, At
  <2>2. QED
    BY <2>1, FS_Subset, FS_CardinalityType DEF Core, ConcurrencyWithDelay
<1> DEFINE popped == Firsts(s.queue, n)
<1>5. ASSUME NEW q \in Request, stage'[q] \in Ongoing
      PROVE  \/ stage[q] \in Ongoing /\ st[q] \in Ongoing
             \/ q \in Range(popped) /\ keyOf[q] = k
  <2>1. \/ stage'[q] = st[q]
        \/ q \in Range(popped) /\ keyOf[q] = k
    BY <1>2, PassStages
  <2>2. st[q] = stage[q] \/ st[q] \in {"queued", "answered"}
    BY <1>2, CalledStages DEF Pass
  <2>3. QED
    BY <1>5, <2>1, <2>2 DEF Ongoing
<1>6. SUFFICES ASSUME NEW j \in SlotKey, ~ asyncio \/ (Delay[j] > 0 /\ ~ closed)
               PROVE  Cardinality(During(stage', j, Ongoing)) <= Concurrency[j]
  <2>1. \A j \in SlotKey : Committed(j)' = During(stage', j, Ongoing)
    BY <1>3 DEF During, Ongoing, Committed, At
  <2>2. QED
    BY <1>3, <2>1 DEF ConcurrencyWithDelay
<1>7. Concurrency[j] \in Nat /\ Delay[j] \in Nat
  BY DelayFacts
<1>8. CASE During(stage', j, Ongoing) \subseteq During(stage, j, Ongoing)
  <2>1. /\ Cardinality(During(stage', j, Ongoing)) <= Cardinality(During(stage, j, Ongoing))
        /\ Cardinality(During(stage', j, Ongoing)) \in Nat
    BY <1>4, <1>8, FS_Subset, FS_CardinalityType
  <2>2. QED
    BY <1>4, <1>6, <1>7, <2>1
<1>9. CASE j # k \/ n = 0
  <2>1. n = 0 => Range(popped) = {}
    <3>1. popped \in Seq(Request) /\ Len(popped) = n
      BY <1>2, PassPopped
    <3> HIDE DEF popped
    <3>2. Len(popped) = 0 => \A i \in 1 .. Len(popped) : FALSE
      OBVIOUS
    <3>3. QED
      BY <3>1, <3>2, RangeOfSeq
  <2> HIDE DEF popped
  <2>2. QED
    BY <1>5, <1>8, <1>9, <2>1 DEF During
<1>10. CASE j = k /\ n # 0
  <2>1. n > 0 /\ n \in Nat
    BY <1>2, <1>10 DEF Slot
  <2>2. /\ s.timer = Idle /\ IsFiniteSet(s.transferring)
        /\ Cardinality(s.transferring) < Concurrency[k]
        /\ Delay[k] > 0 => n = 1
        /\ Delay[k] = 0 => n <= Concurrency[k] - Cardinality(s.transferring)
    BY <1>2, <1>6, <1>10, <2>1 DEF Pass, Allowed
  <2>3. s.transferring = During(st, k, {"transferring", "failing"})
    <3>1. Waits(With(k, s), st, k) /\ With(k, s)[k] = s
      BY <1>2 DEF Pass, Placement, With
    <3>2. QED
      BY <3>1 DEF Waits
  <2>4. popped \in Seq(Request) /\ IsInjective(popped) /\ Len(popped) = n
    BY <1>2, PassPopped
  <2> HIDE DEF popped
  <2>5. Cardinality(Range(popped)) = n /\ IsFiniteSet(Range(popped))
    BY <2>4, RangeCardinality
  <2>6. During(stage', k, Ongoing) \subseteq s.transferring \cup Range(popped)
    <3> SUFFICES ASSUME NEW q \in Request, keyOf[q] = k, stage'[q] \in Ongoing,
                        q \notin Range(popped)
                 PROVE  q \in s.transferring
      BY DEF During
    <3>1. st[q] \in Ongoing
      BY <1>5
    <3>2. st[q] # "launched"
      BY <1>2, <1>6, <1>10, <2>2, NoneLaunched DEF Pass
    <3>3. QED
      BY <2>3, <3>1, <3>2 DEF During, Ongoing
  <2> DEFINE both == s.transferring \cup Range(popped)
             tr == s.transferring
  <2>7. /\ IsFiniteSet(both) /\ Cardinality(both) <= Cardinality(tr) + n
        /\ Cardinality(both) \in Nat /\ Cardinality(tr) \in Nat
    <3>1. /\ IsFiniteSet(both)
          /\ Cardinality(both)
               = Cardinality(tr) + Cardinality(Range(popped))
                 - Cardinality(tr \cap Range(popped))
      BY <2>2, <2>5, FS_Union
    <3>2. Cardinality(tr \cap Range(popped)) \in Nat
      BY <2>5, FS_Intersection, FS_CardinalityType
    <3>3. Cardinality(both) \in Nat /\ Cardinality(tr) \in Nat
      BY <2>2, <3>1, FS_CardinalityType
    <3> HIDE DEF both, tr
    <3>4. QED
      BY <2>1, <2>5, <3>1, <3>2, <3>3
  <2>8. /\ Cardinality(During(stage', k, Ongoing)) <= Cardinality(both)
        /\ Cardinality(During(stage', k, Ongoing)) \in Nat
    BY <2>6, <2>7, FS_Subset, FS_CardinalityType
  <2> HIDE DEF both, tr
  <2>9. Cardinality(tr) + n <= Concurrency[k]
    <3>1. /\ Cardinality(tr) < Concurrency[k]
          /\ Delay[k] > 0 => n = 1
          /\ Delay[k] = 0 => n <= Concurrency[k] - Cardinality(tr)
      BY <2>2 DEF tr
    <3>2. Concurrency[k] \in Nat /\ Delay[k] \in Nat
      BY <1>7, <1>10
    <3>3. QED
      BY <2>1, <2>7, <3>1, <3>2
  <2>10. QED
    BY <1>7, <1>10, <2>1, <2>7, <2>8, <2>9
<1>11. QED
  BY <1>9, <1>10

LEMMA OthersConcurrency ==
  ASSUME Core, ConcurrencyWithDelay, Next, ~ PassStep
  PROVE  ConcurrencyWithDelay'
<1>1. stage \in [Request -> Stages] /\ LoopQueue(slots, ready, stage)
  BY DEF Core, Placement
<1>2. /\ asyncio' = asyncio /\ keyOf' = keyOf
      /\ \A q \in Request : stage'[q] \in Ongoing => stage[q] \in Ongoing
  <2>1. ASSUME NEW r \in Request,
               Fetch(r) \/ AnswerEarly(r) \/ DownloadRaises(r) \/ LeaveSlot(r)
                 \/ FetchReturns(r)
        PROVE  /\ asyncio' = asyncio /\ keyOf' = keyOf
               /\ \A q \in Request : stage'[q] \in Ongoing => stage[q] \in Ongoing
    BY <1>1, <2>1
       DEF Fetch, AnswerEarly, DownloadRaises, LeaveSlot, FetchReturns, Ongoing
  <2>2. CASE StartTask
    <3> DEFINE r == Head(ready)
    <3>1. ready # <<>> /\ r \in Request /\ stage' = [stage EXCEPT ![r] = "transferring"]
          /\ asyncio' = asyncio /\ keyOf' = keyOf
      BY <2>2 DEF StartTask
    <3>2. stage[r] = "launched"
      BY <1>1, <3>1, TailFacts DEF LoopQueue
    <3> HIDE DEF r
    <3>3. QED
      BY <1>1, <3>1, <3>2 DEF Ongoing
  <2>3. CASE Tick \/ SlotGc \/ Close \/ \E k \in SlotKey : TimerDue(k)
    BY <2>3 DEF Tick, SlotGc, Close, TimerDue
  <2>4. QED
    BY <2>1, <2>2, <2>3 DEF Next, Progress, PassStep
<1>8. closed \in BOOLEAN /\ (closed' = closed \/ closed' = TRUE)
  <2>1. closed \in BOOLEAN
    BY DEF Core, Types
  <2>2. QED
    BY <2>1, ClosedForGood
<1>3. \A k : Committed(k)' \subseteq Committed(k)
  BY <1>2 DEF Committed, At, Ongoing
<1>4. ASSUME NEW k \in SlotKey
      PROVE  /\ Cardinality(Committed(k)') <= Cardinality(Committed(k))
             /\ Cardinality(Committed(k)) \in Nat /\ Cardinality(Committed(k)') \in Nat
             /\ Concurrency[k] \in Nat
  <2>1. Committed(k) \subseteq active /\ IsFiniteSet(active)
    BY DEF Committed, At, Core, Fetched
  <2>2. IsFiniteSet(Committed(k))
    BY <2>1, FS_Subset
  <2>3. Concurrency[k] \in Nat
    BY DelayFacts
  <2>4. QED
    BY <1>3, <2>2, <2>3, FS_Subset, FS_CardinalityType
<1>5. SUFFICES ASSUME NEW k \in SlotKey, ~ asyncio \/ (Delay[k] > 0 /\ ~ closed)
               PROVE  Cardinality(Committed(k)') <= Concurrency[k]
  BY <1>2, <1>8 DEF ConcurrencyWithDelay
<1>6. Cardinality(Committed(k)) <= Concurrency[k]
  BY <1>5 DEF ConcurrencyWithDelay
<1>7. QED
  BY <1>4, <1>6

(* Where coroutines start at once, and in slots with a delay while the     *)
(* downloader is open, a slot never has more requests past its queue than  *)
(* its concurrency.                                                        *)
THEOREM ConcurrencyTheorem == Spec => []ConcurrencyWithDelay
<1>1. Init => LaunchInv /\ ConcurrencyWithDelay
  <2> SUFFICES ASSUME Init PROVE LaunchInv /\ ConcurrencyWithDelay
    OBVIOUS
  <2>1. \A r \in Request : stage[r] = "new"
    BY DEF Init
  <2>2. \A k : Committed(k) = {}
    BY <2>1 DEF Committed, At
  <2>3. Cardinality({}) = 0 /\ \A k \in SlotKey : Concurrency[k] \in Nat
    BY FS_EmptySet, DelayFacts
  <2>4. ConcurrencyWithDelay
    BY <2>2, <2>3 DEF ConcurrencyWithDelay
  <2>5. QED
    BY <2>1, <2>4 DEF LaunchInv
<1>2. Core /\ Core' /\ LaunchInv /\ ConcurrencyWithDelay /\ [Next]_vars
        => LaunchInv' /\ ConcurrencyWithDelay'
  <2> SUFFICES ASSUME Core, Core', LaunchInv, ConcurrencyWithDelay, [Next]_vars
               PROVE  LaunchInv' /\ ConcurrencyWithDelay'
    OBVIOUS
  <2>1. CASE UNCHANGED vars
    BY <2>1 DEF vars, LaunchInv, Ahead, ConcurrencyWithDelay, Committed, At
  <2>2. QED
    BY <2>1, PassLaunch, PassConcurrency, OthersLaunch, OthersConcurrency
<1>3. QED
  BY <1>1, <1>2, CoreTheorem, PTL DEF Spec
=============================================================================
