---------------------------- MODULE PolicyProofs ----------------------------
(***************************************************************************)
(* The rate of the fixed-window counters: of one counter, atomic access by *)
(* atomic access, for any number of threads, any set of limits and any     *)
(* clock; and of every slot of the policy through its retunes.  Then the   *)
(* sliding logs: nothing is forgotten too early, and the window is precise *)
(* for readings in order.  Last, the account PnL: what a rolled-back       *)
(* assertion leaves behind.                                                *)
(***************************************************************************)
EXTENDS RateLimit, WindowCounter, AccountPnl, FiniteSetTheorems, SequenceTheorems,
        WellFoundedInduction, TLAPS

(* The inductive invariant LongRunRate rests on: the winners of a          *)
(* compare-exchange that have not yet reset the count.                     *)
Pending == {t \in Callers : pc[t] = "store"}

StartsInThePast ==
    /\ window_start <= time
    /\ \A t \in Callers : now[t] <= time /\ win_start[t] <= window_start

(* A thread on its way to the compare-exchange saw a window that is over.  *)
SawRollover ==
    \A t \in Callers : pc[t] = "cas" => now[t] >= win_start[t] + MinWindow

(* Every reset is earned by a window that has passed.                      *)
ResetsEarned ==
    /\ stores + Cardinality(Pending) = resets
    /\ resets * MinWindow <= window_start

(* Between two resets the count bounds what has been admitted.             *)
CountCovers ==
    Len(admits) <= stores * MaxOrders + (IF count < MaxOrders THEN count ELSE MaxOrders)

IInv ==
    TypeOK /\ StartsInThePast /\ SawRollover /\ ResetsEarned /\ CountCovers

(* A thread that leaves the set of pending winners takes one from its      *)
(* cardinality, one that enters adds one (rate_limit.rs:397-403).          *)
LEMMA PendingCount ==
    ASSUME TypeOK, NEW t \in Callers, NEW step \in Steps, GoTo(t, step)
    PROVE  /\ Cardinality(Pending) \in Nat /\ Cardinality(Pending') \in Nat
           /\ pc[t] # "store" /\ step = "store" =>
                  Cardinality(Pending') = Cardinality(Pending) + 1
           /\ pc[t] = "store" /\ step # "store" =>
                  Cardinality(Pending) = Cardinality(Pending') + 1
           /\ pc[t] # "store" /\ step # "store" =>
                  Cardinality(Pending') = Cardinality(Pending)
<1>1. IsFiniteSet(Pending) /\ IsFiniteSet(Pending')
  BY FS_Subset, BoundsAssumption DEF Pending
<1>2. Cardinality(Pending) \in Nat /\ Cardinality(Pending') \in Nat
  BY <1>1, FS_CardinalityType
<1>3. pc'[t] = step /\ \A u \in Callers \ {t} : pc'[u] = pc[u]
  BY DEF GoTo, TypeOK
<1>4. ASSUME pc[t] # "store", step = "store"
      PROVE  Cardinality(Pending') = Cardinality(Pending) + 1
  <2>1. Pending' = Pending \cup {t} /\ t \notin Pending
    BY <1>3, <1>4 DEF Pending
  <2>2. QED
    BY <1>1, <2>1, FS_AddElement
<1>5. ASSUME pc[t] = "store", step # "store"
      PROVE  Cardinality(Pending) = Cardinality(Pending') + 1
  <2>1. Pending = Pending' \cup {t} /\ t \notin Pending'
    BY <1>3, <1>5 DEF Pending
  <2>2. QED
    BY <1>1, <2>1, FS_AddElement
<1>6. ASSUME pc[t] # "store", step # "store"
      PROVE  Pending' = Pending
  BY <1>3, <1>6 DEF Pending
<1>7. QED
  BY <1>2, <1>4, <1>5, <1>6

(* A product grows by one factor when the other factor grows by one: the   *)
(* arithmetic the provers do not find by themselves.                       *)
LEMMA OneMore ==
    ASSUME NEW a \in Nat, NEW b \in Nat
    PROVE  (a + 1) * b = a * b + b /\ a * b \in Nat
OBVIOUS

(* The type invariant of the counter.                                      *)
THEOREM Typed == CounterSpec => []TypeOK
<1>1. CounterInit => TypeOK
  BY CounterAssumption DEF CounterInit, TypeOK, Steps
<1>2. TypeOK /\ [CounterNext]_counterVars => TypeOK'
  <2> SUFFICES ASSUME TypeOK, [CounterNext]_counterVars PROVE TypeOK'
    OBVIOUS
  <2> USE DEF TypeOK, Steps, GoTo, Answer
  <2>1. CASE CounterTick
    BY <2>1 DEF CounterTick
  <2>2. CASE CounterRetune
    BY <2>2 DEF CounterRetune
  <2>3. ASSUME NEW t \in Callers, CounterBegin(t) PROVE TypeOK'
    BY <2>3 DEF CounterBegin
  <2>4. ASSUME NEW t \in Callers, Load(t) PROVE TypeOK'
    BY <2>4 DEF Load
  <2>5. ASSUME NEW t \in Callers, CompareExchange(t) PROVE TypeOK'
    <3>1. window_start' \in Nat /\ resets' \in Nat
      BY <2>5 DEF CompareExchange
    <3>2. pc' \in [Callers -> Steps]
      BY <2>5 DEF CompareExchange
    <3>3. QED
      BY <2>5, <3>1, <3>2 DEF CompareExchange
  <2>6. ASSUME NEW t \in Callers, StoreCount(t) PROVE TypeOK'
    BY <2>6 DEF StoreCount
  <2>7. ASSUME NEW t \in Callers, FetchAdd(t) PROVE TypeOK'
    BY <2>7 DEF FetchAdd
  <2>8. ASSUME NEW t \in Callers, PeekStart(t) PROVE TypeOK'
    BY <2>8 DEF PeekStart
  <2>9. ASSUME NEW t \in Callers, PeekCount(t) PROVE TypeOK'
    BY <2>9 DEF PeekCount
  <2>10. CASE UNCHANGED counterVars
    BY <2>10 DEF counterVars
  <2>11. QED
    BY <2>1, <2>2, <2>3, <2>4, <2>5, <2>6, <2>7, <2>8, <2>9, <2>10
       DEF CounterNext, Thread
<1>3. QED
  BY <1>1, <1>2, PTL DEF CounterSpec

(* An answer admits at most one more order, and only within the limit.     *)
LEMMA AnswerAdmits ==
    ASSUME TypeOK, NEW t \in Callers, NEW n \in Nat, Answer(t, n)
    PROVE  \/ Len(admits') = Len(admits)
           \/ Len(admits') = Len(admits) + 1 /\ n <= MaxOrders
BY CounterAssumption DEF Answer, OverLimit, TypeOK

(* Init starts with nothing admitted and no window opened.                 *)
LEMMA InitIInv == CounterInit => IInv
<1> SUFFICES ASSUME CounterInit PROVE IInv
  OBVIOUS
<1>1. TypeOK
  BY CounterAssumption DEF CounterInit, TypeOK, Steps
<1>2. Pending = {}
  BY DEF CounterInit, Pending
<1>3. Cardinality(Pending) = 0
  BY <1>2, FS_EmptySet
<1>4. QED
  BY <1>1, <1>3, CounterAssumption
     DEF CounterInit, IInv, StartsInThePast, SawRollover, ResetsEarned, CountCovers

(* Every step keeps the inductive invariant: an increment is covered by    *)
(* the count, and a reset by a window the compare-exchange has closed.     *)
LEMMA NextIInv == IInv /\ TypeOK' /\ [CounterNext]_counterVars => IInv'
<1> SUFFICES ASSUME IInv, TypeOK', [CounterNext]_counterVars
             PROVE  StartsInThePast' /\ SawRollover' /\ ResetsEarned' /\ CountCovers'
  BY DEF IInv
<1> USE DEF IInv
<1>a. MinWindow \in Nat /\ MinWindow > 0 /\ MaxOrders \in Nat
  BY CounterAssumption
<1>b. \A t \in Callers : limit[t].window \in Nat /\ limit[t].window >= MinWindow
  BY CounterAssumption DEF TypeOK
<1>1. CASE CounterTick
  BY <1>1 DEF CounterTick, TypeOK, StartsInThePast, SawRollover, ResetsEarned,
     CountCovers, Pending
<1>2. CASE CounterRetune
  BY <1>2 DEF CounterRetune, TypeOK, StartsInThePast, SawRollover, ResetsEarned,
     CountCovers, Pending
<1>3. ASSUME NEW t \in Callers, CounterBegin(t)
      PROVE  StartsInThePast' /\ SawRollover' /\ ResetsEarned' /\ CountCovers'
  <2>1. PICK step \in {"load", "peek"} : GoTo(t, step)
    BY <1>3 DEF CounterBegin
  <2>2. Cardinality(Pending') = Cardinality(Pending)
    BY <1>3, <2>1, PendingCount DEF CounterBegin, Steps
  <2>3. StartsInThePast' /\ SawRollover'
    BY <1>3, <2>1 DEF CounterBegin, GoTo, TypeOK, StartsInThePast, SawRollover
  <2>4. QED
    BY <1>3, <2>2, <2>3 DEF CounterBegin, ResetsEarned, CountCovers
<1>4. ASSUME NEW t \in Callers, Load(t)
      PROVE  StartsInThePast' /\ SawRollover' /\ ResetsEarned' /\ CountCovers'
  <2>1. PICK step \in {"cas", "add"} :
            /\ GoTo(t, step)
            /\ step = "cas" => rolled_over(now[t], window_start, limit[t].window)
    BY <1>4 DEF Load
  <2>2. Cardinality(Pending') = Cardinality(Pending)
    BY <1>4, <2>1, PendingCount DEF Load, Steps
  <2>3. StartsInThePast'
    BY <1>4 DEF Load, TypeOK, StartsInThePast
  <2>4. SawRollover'
    BY <1>4, <2>1, <1>a, <1>b DEF Load, GoTo, TypeOK, SawRollover, rolled_over
  <2>5. QED
    BY <1>4, <2>2, <2>3, <2>4 DEF Load, ResetsEarned, CountCovers
<1>5. ASSUME NEW t \in Callers, CompareExchange(t)
      PROVE  StartsInThePast' /\ SawRollover' /\ ResetsEarned' /\ CountCovers'
  <2>1. CASE window_start = win_start[t]
    <3>1. GoTo(t, "store") /\ window_start' = now[t] /\ resets' = resets + 1
      BY <1>5, <2>1 DEF CompareExchange
    <3>2. Cardinality(Pending') = Cardinality(Pending) + 1 /\ Cardinality(Pending) \in Nat
      BY <1>5, <3>1, PendingCount DEF CompareExchange, Steps
    <3>3. now[t] >= window_start + MinWindow
      BY <1>5, <2>1 DEF CompareExchange, SawRollover
    <3>4. resets' * MinWindow = resets * MinWindow + MinWindow /\ resets * MinWindow \in Nat
      BY <3>1, <1>a, OneMore DEF TypeOK
    <3>5. ResetsEarned'
      BY <1>5, <3>1, <3>2, <3>3, <3>4, <1>a DEF CompareExchange, ResetsEarned, TypeOK
    <3>6. StartsInThePast'
      BY <1>5, <3>1, <3>3, <1>a DEF CompareExchange, StartsInThePast, TypeOK
    <3>7. SawRollover' /\ CountCovers'
      BY <1>5, <3>1 DEF CompareExchange, GoTo, SawRollover, CountCovers, TypeOK
    <3>8. QED
      BY <3>5, <3>6, <3>7
  <2>2. CASE window_start # win_start[t]
    <3>1. GoTo(t, "add") /\ UNCHANGED <<window_start, resets>>
      BY <1>5, <2>2 DEF CompareExchange
    <3>2. Cardinality(Pending') = Cardinality(Pending)
      BY <1>5, <3>1, PendingCount DEF CompareExchange, Steps
    <3>3. StartsInThePast' /\ SawRollover'
      BY <1>5, <3>1 DEF CompareExchange, GoTo, StartsInThePast, SawRollover, TypeOK
    <3>4. QED
      BY <1>5, <3>1, <3>2, <3>3 DEF CompareExchange, ResetsEarned, CountCovers
  <2>3. QED
    BY <2>1, <2>2
<1>6. ASSUME NEW t \in Callers, StoreCount(t)
      PROVE  StartsInThePast' /\ SawRollover' /\ ResetsEarned' /\ CountCovers'
  <2>1. GoTo(t, "idle") /\ Answer(t, 1)
    BY <1>6 DEF StoreCount, Answer, GoTo
  <2>2. Cardinality(Pending) = Cardinality(Pending') + 1 /\ Cardinality(Pending') \in Nat
    BY <1>6, <2>1, PendingCount DEF StoreCount, Steps
  <2>3. StartsInThePast' /\ SawRollover'
    BY <1>6, <2>1 DEF StoreCount, GoTo, StartsInThePast, SawRollover, TypeOK
  <2>4. ResetsEarned'
    BY <1>6, <2>2 DEF StoreCount, ResetsEarned, TypeOK
  <2>5. stores' * MaxOrders = stores * MaxOrders + MaxOrders /\ stores * MaxOrders \in Nat
    BY <1>6, <1>a, OneMore DEF StoreCount, TypeOK
  <2>6. \/ Len(admits') = Len(admits)
        \/ Len(admits') = Len(admits) + 1 /\ 1 <= MaxOrders
    BY <2>1, AnswerAdmits
  <2>7. Len(admits) \in Nat /\ count \in Nat /\ count' = 1
    BY <1>6 DEF StoreCount, TypeOK
  <2>8. CountCovers'
    BY <2>5, <2>6, <2>7, <1>a DEF CountCovers
  <2>9. QED
    BY <2>3, <2>4, <2>8
<1>7. ASSUME NEW t \in Callers, FetchAdd(t)
      PROVE  StartsInThePast' /\ SawRollover' /\ ResetsEarned' /\ CountCovers'
  <2>1. GoTo(t, "idle") /\ Answer(t, count + 1)
    BY <1>7 DEF FetchAdd, Answer, GoTo
  <2>2. Cardinality(Pending') = Cardinality(Pending)
    BY <1>7, <2>1, PendingCount DEF FetchAdd, Steps
  <2>3. StartsInThePast' /\ SawRollover'
    BY <1>7, <2>1 DEF FetchAdd, GoTo, StartsInThePast, SawRollover, TypeOK
  <2>4. ResetsEarned'
    BY <1>7, <2>2 DEF FetchAdd, ResetsEarned
  <2>5. count + 1 \in Nat /\ count \in Nat
    BY DEF TypeOK
  <2>6. \/ Len(admits') = Len(admits)
        \/ Len(admits') = Len(admits) + 1 /\ count + 1 <= MaxOrders
    BY <2>1, <2>5, AnswerAdmits
  <2>7. stores * MaxOrders \in Nat /\ Len(admits) \in Nat
    BY <1>a, OneMore DEF TypeOK
  <2>8. count' = count + 1 /\ stores' = stores
    BY <1>7 DEF FetchAdd
  <2>9. CountCovers'
    BY <2>5, <2>6, <2>7, <2>8, <1>a DEF CountCovers
  <2>10. QED
    BY <2>3, <2>4, <2>9
<1>8. ASSUME NEW t \in Callers, PeekStart(t)
      PROVE  StartsInThePast' /\ SawRollover' /\ ResetsEarned' /\ CountCovers'
  <2>1. PICK step \in {"idle", "peek_count"} : GoTo(t, step)
    BY <1>8 DEF PeekStart
  <2>2. Cardinality(Pending') = Cardinality(Pending)
    BY <1>8, <2>1, PendingCount DEF PeekStart, Steps
  <2>3. StartsInThePast' /\ SawRollover'
    BY <1>8, <2>1 DEF PeekStart, GoTo, StartsInThePast, SawRollover, TypeOK
  <2>4. QED
    BY <1>8, <2>2, <2>3 DEF PeekStart, ResetsEarned, CountCovers
<1>9. ASSUME NEW t \in Callers, PeekCount(t)
      PROVE  StartsInThePast' /\ SawRollover' /\ ResetsEarned' /\ CountCovers'
  <2>1. Cardinality(Pending') = Cardinality(Pending)
    BY <1>9, PendingCount DEF PeekCount, Steps
  <2>2. StartsInThePast' /\ SawRollover'
    BY <1>9 DEF PeekCount, GoTo, StartsInThePast, SawRollover, TypeOK
  <2>3. QED
    BY <1>9, <2>1, <2>2 DEF PeekCount, ResetsEarned, CountCovers
<1>10. CASE UNCHANGED counterVars
  BY <1>10 DEF counterVars, StartsInThePast, SawRollover, ResetsEarned, CountCovers, Pending
<1>11. QED
  BY <1>1, <1>2, <1>3, <1>4, <1>5, <1>6, <1>7, <1>8, <1>9, <1>10
     DEF CounterNext, Thread

(* The inductive invariant holds throughout.                               *)
THEOREM Inductive == CounterSpec => []IInv
BY InitIInv, NextIInv, Typed, PTL DEF CounterSpec

(* The number of whole windows in a span bounds the resets it can hold.    *)
LEMMA WholeWindows ==
    ASSUME NEW r \in Nat, NEW w \in Nat \ {0}, NEW c \in Nat, r * w <= c
    PROVE  r <= c \div w /\ c \div w \in Nat
<1>1. c = w * (c \div w) + (c % w) /\ c % w \in 0 .. (w - 1) /\ c \div w \in Int
  OBVIOUS
<1> DEFINE q == c \div w
<1> HIDE DEF q
<1>2. q \in Int /\ c < w * q + w
  BY <1>1 DEF q
<1>3. r <= q
  <2> SUFFICES ASSUME r >= q + 1 PROVE FALSE
    BY <1>2
  <2>1. PICK d \in Nat : r = q + 1 + d
    <3>1. r - (q + 1) \in Nat
      BY <1>2
    <3>2. r = q + 1 + (r - (q + 1))
      BY <1>2
    <3>3. QED
      BY <3>1, <3>2
  <2>2. r * w = q * w + w + d * w
    BY <2>1, <1>2
  <2>3. d * w >= 0 /\ q * w = w * q
    BY <1>2, <2>1
  <2>4. QED
    BY <1>2, <2>2, <2>3
<1>4. q >= 0
  BY <1>3, <1>2
<1>5. QED
  BY <1>2, <1>3, <1>4 DEF q

(* A counter never admits more than one budget per elapsed window and one  *)
(* more, for any number of threads, late readings and retunes.             *)
THEOREM Rate == CounterSpec => []LongRunRate
<1>1. IInv => LongRunRate
  <2> SUFFICES ASSUME IInv PROVE LongRunRate
    OBVIOUS
  <2>a. MinWindow \in Nat \ {0} /\ MaxOrders \in Nat
    BY CounterAssumption
  <2> DEFINE q == time \div MinWindow
  <2>1. resets * MinWindow <= time
    <3>1. resets * MinWindow \in Nat
      BY OneMore, <2>a DEF IInv, TypeOK
    <3>2. QED
      BY <3>1 DEF IInv, ResetsEarned, StartsInThePast, TypeOK
  <2>2. resets <= q /\ q \in Nat
    BY <2>1, <2>a, WholeWindows DEF IInv, TypeOK
  <2>3. Cardinality(Pending) \in Nat
    BY FS_Subset, FS_CardinalityType, BoundsAssumption DEF Pending
  <2>4. stores <= q
    BY <2>2, <2>3 DEF IInv, ResetsEarned, TypeOK
  <2> HIDE DEF q
  <2>5. PICK d \in Nat : q = stores + d
    <3>1. q - stores \in Nat /\ q = stores + (q - stores)
      BY <2>2, <2>4 DEF IInv, TypeOK
    <3>2. QED
      BY <3>1
  <2>6. MaxOrders * (1 + q) = stores * MaxOrders + MaxOrders + d * MaxOrders
    BY <2>5, <2>a DEF IInv, TypeOK
  <2>7. d * MaxOrders \in Nat /\ stores * MaxOrders \in Nat
    BY <2>5, <2>a, OneMore DEF IInv, TypeOK
  <2>8. Len(admits) <= stores * MaxOrders + MaxOrders
    BY <2>7, <2>a DEF IInv, CountCovers, TypeOK
  <2>9. Len(admits) <= MaxOrders * (1 + q)
    BY <2>6, <2>7, <2>8, <2>a DEF IInv, TypeOK
  <2>10. QED
    BY <2>9 DEF q, LongRunRate
<1>2. QED
  BY <1>1, Inductive, PTL

(* The window start only moves forward, for any number of threads.         *)
THEOREM Forward == CounterSpec => WindowStartForward
<1>1. IInv /\ [CounterNext]_counterVars => [window_start' >= window_start]_counterVars
  <2> SUFFICES ASSUME IInv, [CounterNext]_counterVars PROVE window_start' >= window_start
    OBVIOUS
  <2>1. window_start \in Nat /\ MinWindow \in Nat
    BY CounterAssumption DEF IInv, TypeOK
  <2>2. ASSUME NEW t \in Callers, CompareExchange(t)
        PROVE  window_start' >= window_start
    BY <2>1, <2>2 DEF CompareExchange, IInv, SawRollover, TypeOK
  <2>3. QED
    BY <2>1, <2>2 DEF CounterNext, Thread, CounterTick, CounterRetune, CounterBegin, Load, StoreCount,
       FetchAdd, PeekStart, PeekCount, counterVars
<1>2. QED
  BY <1>1, Inductive, PTL DEF CounterSpec, WindowStartForward

(***************************************************************************)
(* The slots of the policy, through its retunes.                           *)
(***************************************************************************)

\* What a push does to what a slot has let through.
LEMMA PushPaid ==
  ASSUME NEW c \in [start : Nat, count : Nat], NEW n \in Nat, Paid(c, n), NEW at \in Nat,
         NEW l \in [window : Nat, max_orders : Nat],
         l.window >= ShortestWindow, l.max_orders <= LargestBudget,
         NEW p, p = push(c, at, l.window)
  PROVE  /\ p \in [start : Nat, count : Nat] /\ (p.start = c.start \/ p.start = at)
         /\ over_limit(p.count, l) => Paid(p, n)
         /\ ~ over_limit(p.count, l) => Paid(p, n + 1)
<1> DEFINE W == ShortestWindow
           B == LargestBudget
<1>1. W \in Nat /\ W # 0 /\ B \in Nat /\ c.start \in Nat /\ c.count \in Nat
      /\ l.window \in Nat /\ l.max_orders \in Nat
  BY LimitsAssumption
<1>2. PICK k \in Nat : k * W <= c.start /\ n <= B * k + c.count /\ n <= B * k + B
  BY DEF Paid
<1>3. CASE window_over(c, at, l.window)
  <2>1. p = [start |-> at, count |-> 1] /\ at >= c.start /\ at - c.start >= l.window
    BY <1>3 DEF push, window_over
  <2>2. (k + 1) * W = k * W + W /\ B * (k + 1) = B * k + B /\ k + 1 \in Nat
    BY <1>1
  <2>3. k * W \in Nat /\ B * k \in Nat
    BY <1>1
  <2> HIDE DEF W, B
  <2>4. (k + 1) * W <= p.start
    BY <1>1, <1>2, <2>1, <2>2, <2>3 DEF W
  <2>5. n <= B * (k + 1) + p.count /\ n <= B * (k + 1) + B /\ n + 1 <= B * (k + 1) + p.count
    BY <1>1, <1>2, <2>1, <2>2, <2>3
  <2>6. Paid(p, n)
    BY <2>2, <2>4, <2>5 DEF Paid, W, B
  <2>7. ASSUME ~ over_limit(p.count, l)
        PROVE  Paid(p, n + 1)
    <3>1. 1 <= B
      BY <1>1, <2>1, <2>7 DEF over_limit, B
    <3>2. n + 1 <= B * (k + 1) + B
      BY <1>1, <1>2, <2>2, <2>3, <3>1
    <3> QED BY <2>2, <2>4, <2>5, <3>2 DEF Paid, W, B
  <2> QED BY <2>1, <2>6, <2>7
<1>4. CASE ~ window_over(c, at, l.window)
  <2>1. p = [c EXCEPT !.count = c.count + 1]
    BY <1>4 DEF push
  <2>2. p.start = c.start /\ p.count = c.count + 1 /\ p \in [start : Nat, count : Nat]
    BY <2>1
  <2>3. k * W \in Nat /\ B * k \in Nat
    BY <1>1
  <2> HIDE DEF W, B
  <2>4. n <= B * k + p.count /\ n + 1 <= B * k + p.count
    BY <1>1, <1>2, <2>2, <2>3
  <2>5. Paid(p, n)
    BY <1>2, <2>2, <2>4 DEF Paid, W, B
  <2>6. ASSUME ~ over_limit(p.count, l)
        PROVE  Paid(p, n + 1)
    <3>1. c.count + 1 <= B
      BY <1>1, <2>2, <2>6 DEF over_limit, B
    <3>2. n + 1 <= B * k + B
      BY <1>1, <1>2, <2>3, <3>1
    <3> QED BY <1>2, <2>2, <2>4, <3>2 DEF Paid, W, B
  <2> QED BY <2>2, <2>5, <2>6
<1> QED BY <1>3, <1>4

LEMMA FreshPaid == fresh_counter \in [start : Nat, count : Nat] /\ Paid(fresh_counter, 0)
<1>1. fresh_counter = [start |-> 0, count |-> 0]
  BY DEF fresh_counter
<1>2. 0 * ShortestWindow = 0 /\ LargestBudget * 0 = 0 /\ LargestBudget \in Nat
  BY LimitsAssumption
<1>3. /\ 0 * ShortestWindow <= fresh_counter.start
      /\ 0 <= LargestBudget * 0 + fresh_counter.count
      /\ 0 <= LargestBudget * 0 + LargestBudget
  BY <1>1, <1>2
<1> QED BY <1>1, <1>3 DEF Paid

\* Settings stay known while counters are added.
LEMMA KnownGrows ==
  ASSUME NEW n \in Nat, NEW m \in Nat, n <= m, NEW s, Known(s, n)
  PROVE  Known(s, m)
  BY DEF Known, KnownSlot

\* A slot of known settings, and its limit.
LEMMA KnownLimit ==
  ASSUME NEW n, NEW slot \in Slots, slot # None, KnownSlot(slot, n)
  PROVE  /\ slot.counter \in 1 .. n /\ slot.installed = slot.counter
         /\ slot.limit \in [window : Nat, max_orders : Nat]
         /\ slot.limit.window >= ShortestWindow /\ slot.limit.max_orders <= LargestBudget
<1>1. slot.limit \in AllLimits /\ slot.limit # None /\ validate_limit(slot.limit)
  BY DEF Slots, KnownSlot
<1> QED BY <1>1, LimitsAssumption DEF KnownSlot

\* The elements of a set, numbered.
LEMMA Numbered ==
  ASSUME NEW x \in Assets
  PROVE  (CHOOSE i \in DOMAIN SetToSeq(Assets) : SetToSeq(Assets)[i] = x)
            \in 1 .. Cardinality(Assets)
<1> DEFINE D == 1 .. Cardinality(Assets)
           f == SetToSeq(Assets)
<1>1. Cardinality(Assets) \in Nat /\ ExistsBijection(D, Assets)
  BY AssetsAssumption, FS_CardinalityType
<1>2. \E g \in [D -> Assets] : IsInjective(g)
  BY <1>1 DEF ExistsBijection, Bijection, Injection
<1>3. f \in [D -> Assets] /\ IsInjective(f)
  BY <1>2 DEF SetToSeq
<1>4. f \in Injection(D, Assets)
  BY <1>3 DEF Injection
<1>5. Cardinality(D) = Cardinality(Assets)
  BY <1>1, FS_Interval
<1> HIDE DEF D, f
<1>6. f \in Surjection(D, Assets)
  BY <1>4, <1>5, AssetsAssumption, FS_Injection
<1>7. \E i \in DOMAIN f : f[i] = x
  BY <1>3, <1>6 DEF Surjection
<1>8. DOMAIN f = D
  BY <1>3
<1> QED BY <1>7, <1>8 DEF D, f

Checks == [step : 0 .. 5, now : Nat, record : BOOLEAN,
           account : Accounts \cup {None}, asset : Assets \cup {None},
           snapshot : Settings \cup {None},
           over : SUBSET {"broker", "asset", "account", "account_asset"}]

AllPaid ==
  \A i \in DOMAIN counters : counters[i].start <= clock /\ Paid(counters[i], granted[i])

LEMMA Allocated ==
  ASSUME BudgetInv, NEW n \in Nat, Allocate(n), clock' = clock
  PROVE  /\ counters' \in Seq([start : Nat, count : Nat]) /\ granted' \in Seq(Nat)
         /\ Len(granted') = Len(counters') /\ Len(counters') = Len(counters) + n
         /\ AllPaid'
<1> DEFINE C == [start : Nat, count : Nat]
           cs == [i \in 1 .. n |-> fresh_counter]
           gs == [i \in 1 .. n |-> 0]
           L == Len(counters)
<1>1. /\ counters \in Seq(C) /\ granted \in Seq(Nat) /\ Len(granted) = L /\ clock \in Nat
      /\ \A i \in 1 .. L : counters[i].start <= clock /\ Paid(counters[i], granted[i])
      /\ L \in Nat
  BY DEF BudgetInv, BudgetTypeOK
<1>2. cs \in Seq(C) /\ gs \in Seq(Nat) /\ Len(cs) = n /\ Len(gs) = n
  BY FreshPaid
<1>3. counters' = counters \o cs /\ granted' = granted \o gs
  BY DEF Allocate
<1> HIDE DEF cs, gs, C
<1>4. /\ counters' \in Seq(C) /\ granted' \in Seq(Nat)
      /\ Len(counters') = L + n /\ Len(granted') = L + n
  <2>1. counters' \in Seq(C) /\ Len(counters') = L + n
    BY <1>1, <1>2, <1>3, ConcatProperties, ZenonT(60)
  <2>2. granted \o gs \in Seq(Nat) /\ Len(granted \o gs) = Len(granted) + Len(gs)
    BY <1>1, <1>2, ConcatProperties
  <2> QED BY <1>1, <1>2, <1>3, <2>1, <2>2
<1>5. ASSUME NEW i \in 1 .. (L + n)
      PROVE  counters'[i].start <= clock /\ Paid(counters'[i], granted'[i])
  <2>1. CASE i <= L
    <3>1. counters'[i] = counters[i] /\ granted'[i] = granted[i] /\ i \in 1 .. L
      BY <1>1, <1>2, <1>3, <2>1
    <3> QED BY <1>1, <3>1
  <2>2. CASE i > L
    <3>1. counters'[i] = cs[i - L] /\ granted'[i] = gs[i - L] /\ i - L \in 1 .. n
      BY <1>1, <1>2, <1>3, <2>2
    <3>2. cs[i - L] = fresh_counter /\ gs[i - L] = 0
      BY <3>1 DEF cs, gs
    <3>3. fresh_counter.start = 0
      BY DEF fresh_counter
    <3> QED BY <1>1, <3>1, <3>2, <3>3, FreshPaid
  <2> QED BY <1>1, <2>1, <2>2
<1>6. DOMAIN counters' = 1 .. (L + n)
  BY <1>4
<1>7. AllPaid'
  BY <1>5, <1>6 DEF AllPaid, Paid
<1> QED BY <1>4, <1>7 DEF C

LEMMA StartsAreTimes ==
  ASSUME BudgetInv
  PROVE  \A i \in DOMAIN counters : counters[i].start \in Nat
<1> DEFINE C == [start : Nat, count : Nat]
<1>1. counters \in Seq(C) /\ \A c \in C : c.start \in Nat
  BY DEF BudgetInv, BudgetTypeOK
<1> HIDE DEF C
<1>2. DOMAIN counters = 1 .. Len(counters)
  BY <1>1
<1> QED BY <1>1, <1>2, ElementOfSeq

\* A step of a check that counts on no fixed window.
LEMMA CheckMoves ==
  ASSUME BudgetInv, NEW t \in Threads, NEW c \in Checks, check' = [check EXCEPT ![t] = c],
         UNCHANGED <<settings, counters, clock, granted>>,
         c.step # 0 => /\ c.now <= clock /\ c.asset \in Assets
                       /\ Known(c.snapshot, Len(counters))
  PROVE  BudgetInv'
<1>1. check' \in [Threads -> Checks] /\ check'[t] = c
      /\ \A u \in Threads \ {t} : check'[u] = check[u]
  BY DEF BudgetInv, BudgetTypeOK, Checks
<1>2. BudgetTypeOK'
  BY <1>1 DEF BudgetInv, BudgetTypeOK, Checks
<1>3. UnderWay'
  BY <1>1 DEF BudgetInv, UnderWay
<1> QED BY <1>2, <1>3 DEF BudgetInv, Paid

\* A setter publishes known settings.
LEMMA Published ==
  ASSUME BudgetInv, Known(settings', Len(counters')), check' = check, clock' = clock,
         counters' \in Seq([start : Nat, count : Nat]), granted' \in Seq(Nat),
         Len(granted') = Len(counters'), Len(counters') >= Len(counters), AllPaid'
  PROVE  BudgetInv'
<1>1. BudgetTypeOK'
  BY DEF BudgetInv, BudgetTypeOK
<1>2. UnderWay'
  <2>1. Len(counters) \in Nat /\ Len(counters') \in Nat
    BY DEF BudgetInv, BudgetTypeOK
  <2>2. ASSUME NEW u \in Threads, check[u].step # 0
        PROVE  /\ check[u].now <= clock /\ check[u].asset \in Assets
               /\ Known(check[u].snapshot, Len(counters'))
    <3>1. /\ check[u].now <= clock /\ check[u].asset \in Assets
          /\ Known(check[u].snapshot, Len(counters))
      BY <2>2 DEF BudgetInv, UnderWay
    <3> QED BY <2>1, <3>1, KnownGrows
  <2> QED BY <2>2 DEF UnderWay
<1> QED BY <1>1, <1>2 DEF BudgetInv, AllPaid

LEMMA SlotKnown ==
  ASSUME NEW n \in Nat, NEW m \in Nat, n <= m, NEW old \in Slots, KnownSlot(old, n),
         NEW l \in AllLimits \cup {None}, validate_limit(l), NEW fresh \in 1 .. m
  PROVE  Slot(old, l, fresh) \in Slots /\ KnownSlot(Slot(old, l, fresh), m)
<1>1. CASE l = None
  BY <1>1 DEF Slot, Slots, KnownSlot
<1>2. CASE l # None /\ old = None
  <2>1. Slot(old, l, fresh) = [counter |-> fresh, installed |-> fresh, limit |-> l]
    BY <1>2 DEF Slot
  <2> QED BY <1>2, <2>1 DEF Slots, KnownSlot
<1>3. CASE l # None /\ old # None
  <2>1. Slot(old, l, fresh) = [old EXCEPT !.limit = l]
    BY <1>3 DEF Slot
  <2>2. /\ old \in [counter : Nat, installed : Nat, limit : AllLimits]
        /\ old.counter \in 1 .. n /\ old.installed = old.counter
    BY <1>3 DEF Slots, KnownSlot
  <2> QED BY <1>3, <2>1, <2>2 DEF Slots, KnownSlot
<1> QED BY <1>1, <1>2, <1>3

LEMMA SetBrokerKeeps ==
  ASSUME BudgetInv, set_broker
  PROVE  BudgetInv'
<1>1. check' = check /\ clock' = clock /\ Allocate(1)
  BY DEF set_broker, Retune
<1>2. PICK l \in BrokerLimits \cup {None} :
        /\ validate_limit(l)
        /\ settings' = [settings EXCEPT !.broker = Slot(settings.broker, l, Len(counters) + 1)]
  BY DEF set_broker
<1>3. /\ counters' \in Seq([start : Nat, count : Nat]) /\ granted' \in Seq(Nat)
      /\ Len(granted') = Len(counters') /\ Len(counters') = Len(counters) + 1 /\ AllPaid'
  BY <1>1, Allocated
<1>4. Known(settings, Len(counters)) /\ Len(counters) \in Nat
  BY DEF BudgetInv, BudgetTypeOK
<1> DEFINE new == Slot(settings.broker, l, Len(counters) + 1)
<1>5. new \in Slots /\ KnownSlot(new, Len(counters'))
  <2>1. settings.broker \in Slots /\ KnownSlot(settings.broker, Len(counters))
    BY <1>4 DEF Known, Settings
  <2>2. Len(counters') \in Nat /\ Len(counters) <= Len(counters')
        /\ Len(counters) + 1 \in 1 .. Len(counters')
    BY <1>3, <1>4
  <2>3. l \in AllLimits \cup {None} /\ validate_limit(l)
    BY <1>2 DEF AllLimits
  <2> QED BY <1>4, <2>1, <2>2, <2>3, SlotKnown
<1> HIDE DEF new
<1>6. settings' = [settings EXCEPT !.broker = new]
  BY <1>2 DEF new
<1>7. settings' \in Settings /\ settings'.broker = new /\ settings'.assets = settings.assets
  BY <1>4, <1>5, <1>6 DEF Known, Settings
<1>8. Known(settings, Len(counters'))
  BY <1>3, <1>4, KnownGrows
<1>9. Known(settings', Len(counters'))
  BY <1>5, <1>7, <1>8 DEF Known
<1> QED BY <1>1, <1>3, <1>4, <1>9, Published

LEMMA SetAssetsKeeps ==
  ASSUME BudgetInv, set_asset_barriers
  PROVE  BudgetInv'
<1> DEFINE L == Len(counters)
           n == Cardinality(Assets)
           id(x) == L + (CHOOSE i \in DOMAIN SetToSeq(Assets) : SetToSeq(Assets)[i] = x)
<1>1. check' = check /\ clock' = clock /\ Allocate(n)
  BY DEF set_asset_barriers, Retune
<1>2. PICK f \in [Assets -> AssetLimits \cup {None}] :
        /\ \A x \in Assets : validate_limit(f[x])
        /\ settings' = [settings EXCEPT !.assets =
                           [x \in Assets |-> Slot(settings.assets[x], f[x], id(x))]]
  BY DEF set_asset_barriers
<1>3. n \in Nat
  BY AssetsAssumption, FS_CardinalityType
<1>4. /\ counters' \in Seq([start : Nat, count : Nat]) /\ granted' \in Seq(Nat)
      /\ Len(granted') = Len(counters') /\ Len(counters') = L + n /\ AllPaid'
  BY <1>1, <1>3, Allocated
<1>5. Known(settings, L) /\ L \in Nat
  BY DEF BudgetInv, BudgetTypeOK
<1>6. ASSUME NEW x \in Assets
      PROVE  id(x) \in 1 .. (L + n)
  <2> DEFINE j == CHOOSE i \in DOMAIN SetToSeq(Assets) : SetToSeq(Assets)[i] = x
  <2>1. j \in 1 .. n
    BY Numbered
  <2>2. id(x) = L + j
    OBVIOUS
  <2> HIDE DEF j, n, L, id
  <2> QED BY <1>3, <1>5, <2>1, <2>2
<1> HIDE DEF id, L, n
<1> DEFINE new == [x \in Assets |-> Slot(settings.assets[x], f[x], id(x))]
<1>7. ASSUME NEW x \in Assets
      PROVE  new[x] \in Slots /\ KnownSlot(new[x], L + n)
  <2>1. settings.assets[x] \in Slots /\ KnownSlot(settings.assets[x], L)
    BY <1>5 DEF Known, Settings
  <2>2. f[x] \in AllLimits \cup {None} /\ validate_limit(f[x])
    BY <1>2 DEF AllLimits
  <2>3. id(x) \in 1 .. (L + n)
    BY <1>6
  <2>4. L + n \in Nat /\ L <= L + n
    BY <1>3, <1>5
  <2> QED BY <1>5, <2>1, <2>2, <2>3, <2>4, SlotKnown
<1>8. new \in [Assets -> Slots]
  BY <1>7
<1>9. settings' = [settings EXCEPT !.assets = new]
  BY <1>2
<1> HIDE DEF new
<1>10. settings' \in Settings /\ settings'.assets = new /\ settings'.broker = settings.broker
  BY <1>5, <1>8, <1>9 DEF Known, Settings
<1>11. Known(settings, L + n)
  BY <1>3, <1>5, KnownGrows
<1>12. Known(settings', Len(counters'))
  BY <1>4, <1>7, <1>10, <1>11 DEF Known
<1>13. Len(counters') >= Len(counters)
  BY <1>3, <1>4, <1>5 DEF L
<1> QED BY <1>1, <1>4, <1>12, <1>13, Published

LEMMA SetSlidingKeeps ==
  ASSUME BudgetInv, set_account_barriers \/ set_account_asset_barriers
  PROVE  BudgetInv'
<1>1. /\ check' = check /\ clock' = clock /\ UNCHANGED <<counters, granted>>
      /\ settings \in Settings /\ Known(settings, Len(counters))
  BY DEF set_account_barriers, set_account_asset_barriers, Retune, BudgetInv, BudgetTypeOK, Known
<1>2. settings' \in Settings /\ settings'.broker = settings.broker
      /\ settings'.assets = settings.assets
  <2>1. CASE set_account_barriers
    <3>1. PICK f \in [Accounts -> AccountLimits \cup {None}] :
                  settings' = [settings EXCEPT !.accounts = f]
      BY <2>1 DEF set_account_barriers
    <3> QED BY <1>1, <3>1 DEF Settings
  <2>2. CASE set_account_asset_barriers
    <3>1. PICK f \in [Pairs -> PairLimits \cup {None}] :
                  settings' = [settings EXCEPT !.pairs = f]
      BY <2>2 DEF set_account_asset_barriers
    <3> QED BY <1>1, <3>1 DEF Settings
  <2> QED BY <2>1, <2>2
<1>3. Known(settings', Len(counters'))
  BY <1>1, <1>2 DEF Known
<1>4. AllPaid'
  BY <1>1 DEF BudgetInv, AllPaid, Paid
<1>5. /\ counters' \in Seq([start : Nat, count : Nat]) /\ granted' \in Seq(Nat)
      /\ Len(granted') = Len(counters') /\ Len(counters') >= Len(counters)
  BY <1>1 DEF BudgetInv, BudgetTypeOK
<1> QED BY <1>1, <1>3, <1>4, <1>5, Published

LEMMA BeginKeeps ==
  ASSUME BudgetInv, NEW t \in Threads, Begin(t)
  PROVE  BudgetInv'
<1>1. UNCHANGED <<settings, counters, clock, granted>>
  BY DEF Begin
<1>2. CASE check' = check
  BY <1>1, <1>2 DEF BudgetInv, BudgetTypeOK, UnderWay, Paid
<1>3. CASE check' # check
  <2>1. PICK account \in Accounts, asset \in Assets, record \in BOOLEAN :
          check' = [check EXCEPT ![t] =
                      [step |-> 1, now |-> clock, record |-> record, account |-> account,
                       asset |-> asset, snapshot |-> settings, over |-> {}]]
    BY <1>3 DEF Begin
  <2> DEFINE c == [step |-> 1, now |-> clock, record |-> record, account |-> account,
                   asset |-> asset, snapshot |-> settings, over |-> {}]
  <2>2. clock \in Nat /\ Known(settings, Len(counters)) /\ settings \in Settings
    BY DEF BudgetInv, BudgetTypeOK, Known
  <2>3. c \in Checks
    BY <2>2 DEF Checks
  <2>4. c.now <= clock /\ c.asset \in Assets /\ Known(c.snapshot, Len(counters))
    BY <2>2
  <2>5. check' = [check EXCEPT ![t] = c]
    BY <2>1
  <2> HIDE DEF c
  <2> QED BY <1>1, <2>3, <2>4, <2>5, CheckMoves
<1> QED BY <1>2, <1>3

\* The check of a thread, and the next one after it has counted on an axis.
LEMMA JudgeMoves ==
  ASSUME BudgetInv, NEW t \in Threads, check[t].step \in 1 .. 4,
         NEW axis \in {"broker", "asset", "account", "account_asset"}, NEW over,
         Judge(t, axis, over)
  PROVE  \E c \in Checks : /\ check' = [check EXCEPT ![t] = c]
                           /\ c.now = check[t].now /\ c.asset = check[t].asset
                           /\ c.snapshot = check[t].snapshot
<1> DEFINE q == check[t]
           c == [q EXCEPT !.step = q.step + 1,
                          !.over = IF over THEN q.over \cup {axis} ELSE q.over]
<1>1. check \in [Threads -> Checks] /\ q \in Checks
  BY DEF BudgetInv, BudgetTypeOK, Checks
<1>2. check' = [check EXCEPT ![t] = c]
  BY <1>1 DEF Judge, Checks
<1>3. q.step + 1 \in 0 .. 5
  OBVIOUS
<1>4. (IF over THEN q.over \cup {axis} ELSE q.over)
         \in SUBSET {"broker", "asset", "account", "account_asset"}
  BY <1>1 DEF Checks
<1>5. c \in Checks
  BY <1>1, <1>3, <1>4 DEF Checks
<1>6. c.now = q.now /\ c.asset = q.asset /\ c.snapshot = q.snapshot
  BY <1>1 DEF Checks
<1> QED BY <1>2, <1>5, <1>6

LEMMA SlidingKeeps ==
  ASSUME BudgetInv, NEW t \in Threads, CountSliding(t) \/ SkipAxis(t) \/ Resolve(t)
  PROVE  BudgetInv'
<1> DEFINE q == check[t]
<1>1. q \in Checks /\ check \in [Threads -> Checks]
  BY DEF BudgetInv, BudgetTypeOK, Checks
<1>2. q.step # 0 => q.now <= clock /\ q.asset \in Assets /\ Known(q.snapshot, Len(counters))
  BY DEF BudgetInv, UnderWay
<1>3. CASE CountSliding(t)
  <2>1. /\ q.step \in 1 .. 4 /\ UNCHANGED <<settings, counters, clock, granted>>
        /\ Axes[q.step] \in {"account", "account_asset"}
    BY <1>3 DEF CountSliding, Sliding
  <2>2. PICK over : Judge(t, Axes[q.step], over)
    BY <1>3 DEF CountSliding
  <2>3. PICK c \in Checks : /\ check' = [check EXCEPT ![t] = c]
                            /\ c.now = q.now /\ c.asset = q.asset /\ c.snapshot = q.snapshot
    BY <2>1, <2>2, JudgeMoves
  <2>4. c.now <= clock /\ c.asset \in Assets /\ Known(c.snapshot, Len(counters))
    BY <1>2, <2>1, <2>3
  <2> QED BY <2>1, <2>3, <2>4, CheckMoves
<1>4. CASE SkipAxis(t)
  <2> DEFINE c == [q EXCEPT !.step = q.step + 1]
  <2>1. /\ q.step \in 1 .. 4 /\ UNCHANGED <<settings, counters, clock, granted>>
        /\ check' = [check EXCEPT ![t] = c]
    BY <1>4 DEF SkipAxis
  <2>2. c \in Checks /\ c.now = q.now /\ c.asset = q.asset /\ c.snapshot = q.snapshot
    BY <1>1, <2>1 DEF Checks
  <2>3. c.now <= clock /\ c.asset \in Assets /\ Known(c.snapshot, Len(counters))
    BY <1>2, <2>1, <2>2
  <2> HIDE DEF c
  <2> QED BY <2>1, <2>2, <2>3, CheckMoves
<1>5. CASE Resolve(t)
  <2>1. UNCHANGED <<settings, counters, clock, granted>> /\ check' = [check EXCEPT ![t] = Idle]
    BY <1>5 DEF Resolve
  <2>2. Idle \in Checks /\ Idle.step = 0
    BY DEF Idle, Checks
  <2> QED BY <2>1, <2>2, CheckMoves
<1> QED BY <1>3, <1>4, <1>5

LEMMA CountFixedKeeps ==
  ASSUME BudgetInv, NEW t \in Threads, CountFixed(t)
  PROVE  BudgetInv'
<1> DEFINE q == check[t]
           axis == Axes[q.step]
           slot == Barrier(q, axis)
           i == slot.counter
           p == push(counters[i], q.now, slot.limit.window)
           over == over_limit(p.count, slot.limit)
           C == [start : Nat, count : Nat]
<1>1. /\ q.step \in 1 .. 4 /\ axis \in {"broker", "asset"} /\ slot # None
      /\ Judge(t, axis, over) /\ UNCHANGED <<settings, clock>>
      /\ \/ UNCHANGED <<counters, granted>>
         \/ /\ counters' = [counters EXCEPT ![i] = p]
            /\ granted' = IF over THEN granted
                          ELSE [granted EXCEPT ![slot.installed] = granted[slot.installed] + 1]
  BY DEF CountFixed, Fixed
<1>2. /\ q.now \in Nat /\ q.now <= clock /\ q.asset \in Assets
      /\ Known(q.snapshot, Len(counters))
  <2>1. q \in Checks
    BY DEF BudgetInv, BudgetTypeOK, Checks
  <2>2. q.step # 0
    <3>1. q.step \in 1 .. 4
      BY DEF CountFixed
    <3> QED BY <3>1
  <2>3. /\ q.now <= clock /\ q.asset \in Assets /\ Known(q.snapshot, Len(counters))
    BY <2>2 DEF BudgetInv, UnderWay
  <2> QED BY <2>1, <2>3 DEF Checks
<1>3. slot \in Slots /\ KnownSlot(slot, Len(counters))
  <2>1. CASE axis = "broker"
    <3>1. slot = q.snapshot.broker
      BY <2>1 DEF Barrier
    <3> QED BY <1>2, <3>1 DEF Known, Settings
  <2>2. CASE axis = "asset"
    <3>1. slot = q.snapshot.assets[q.asset]
      BY <2>2 DEF Barrier
    <3> QED BY <1>2, <3>1 DEF Known, Settings
  <2> QED BY <1>1, <2>1, <2>2
<1> HIDE DEF slot
<1>4. /\ i \in 1 .. Len(counters) /\ slot.installed = i
      /\ slot.limit \in [window : Nat, max_orders : Nat]
      /\ slot.limit.window >= ShortestWindow /\ slot.limit.max_orders <= LargestBudget
  BY <1>1, <1>3, KnownLimit
<1>5. PICK c \in Checks : /\ check' = [check EXCEPT ![t] = c]
                          /\ c.now = q.now /\ c.asset = q.asset /\ c.snapshot = q.snapshot
  <2> HIDE DEF over, axis
  <2> QED BY <1>1, JudgeMoves
<1>6. /\ counters \in Seq(C) /\ granted \in Seq(Nat) /\ Len(granted) = Len(counters)
      /\ clock \in Nat /\ DOMAIN counters = 1 .. Len(counters)
      /\ \A j \in 1 .. Len(counters) : counters[j].start <= clock /\ Paid(counters[j], granted[j])
  BY SMTT(60) DEF BudgetInv, BudgetTypeOK
<1>7. counters[i] \in C /\ granted[i] \in Nat
  <2> HIDE DEF C
  <2> QED BY <1>4, <1>6, ElementOfSeq
<1>8. /\ p \in C /\ (p.start = counters[i].start \/ p.start = q.now)
      /\ over => Paid(p, granted[i])
      /\ ~ over => Paid(p, granted[i] + 1)
  <2>1. Paid(counters[i], granted[i])
    BY <1>4, <1>6
  <2> DEFINE l == slot.limit
             b == counters[i]
             n == granted[i]
             at == q.now
  <2>2. /\ b \in [start : Nat, count : Nat] /\ n \in Nat /\ at \in Nat /\ Paid(b, n)
        /\ l \in [window : Nat, max_orders : Nat]
        /\ l.window >= ShortestWindow /\ l.max_orders <= LargestBudget
        /\ p = push(b, at, l.window)
    BY <1>2, <1>4, <1>7, <2>1
  <2>3. (over <=> over_limit(p.count, l)) /\ p.start = p.start
    OBVIOUS
  <2> HIDE DEF p, l, b, n, at, over
  <2>4. /\ p \in [start : Nat, count : Nat] /\ (p.start = b.start \/ p.start = at)
        /\ over_limit(p.count, l) => Paid(p, n)
        /\ ~ over_limit(p.count, l) => Paid(p, n + 1)
    BY <2>2, PushPaid
  <2> QED BY <2>3, <2>4 DEF b, n, at
<1>9. CASE UNCHANGED <<counters, granted>>
  <2>1. c.now <= clock /\ c.asset \in Assets /\ Known(c.snapshot, Len(counters))
    BY <1>2, <1>5
  <2> QED BY <1>1, <1>5, <1>9, <2>1, CheckMoves
<1>10. CASE /\ counters' = [counters EXCEPT ![i] = p]
            /\ granted' = IF over THEN granted
                          ELSE [granted EXCEPT ![slot.installed] = granted[slot.installed] + 1]
  <2> HIDE DEF p, over, C, i, q
  <2>1. /\ counters' \in Seq(C) /\ Len(counters') = Len(counters) /\ counters'[i] = p
        /\ \A j \in 1 .. Len(counters) : j # i => counters'[j] = counters[j]
    BY <1>4, <1>6, <1>8, <1>10
  <2>2. granted[i] + 1 \in Nat
    BY <1>7
  <2>3. /\ granted' \in Seq(Nat) /\ Len(granted') = Len(granted)
        /\ granted'[i] = IF over THEN granted[i] ELSE granted[i] + 1
        /\ \A j \in 1 .. Len(counters) : j # i => granted'[j] = granted[j]
    <3>1. CASE over
      BY <1>6, <1>10, <3>1
    <3>2. CASE ~ over
      <4>1. granted' = [granted EXCEPT ![i] = granted[i] + 1] /\ i \in 1 .. Len(granted)
        BY <1>4, <1>6, <1>10, <3>2
      <4> QED BY <1>6, <2>2, <3>2, <4>1
    <3> QED BY <3>1, <3>2
  <2>4. ASSUME NEW j \in 1 .. Len(counters)
        PROVE  counters'[j].start <= clock /\ Paid(counters'[j], granted'[j])
    <3>1. CASE j = i
      <4>1. counters'[j] = p /\ granted'[j] = IF over THEN granted[i] ELSE granted[i] + 1
        BY <2>1, <2>3, <3>1
      <4>2. p.start <= clock
        BY <1>2, <1>4, <1>6, <1>8
      <4> QED BY <1>8, <4>1, <4>2
    <3>2. CASE j # i
      BY <1>6, <2>1, <2>3, <3>2
    <3> QED BY <3>1, <3>2
  <2>5. DOMAIN counters' = 1 .. Len(counters)
    BY <2>1
  <2>6. AllPaid'
    BY <1>1, <2>4, <2>5 DEF AllPaid, Paid
  <2>7. check' \in [Threads -> Checks] /\ check'[t] = c
        /\ \A u \in Threads \ {t} : check'[u] = check[u]
    BY <1>5 DEF BudgetInv, BudgetTypeOK, Checks
  <2>8. BudgetTypeOK'
    BY <1>1, <1>6, <2>1, <2>3, <2>7 DEF BudgetInv, BudgetTypeOK, Checks, C
  <2>9. UnderWay'
    BY <1>1, <1>2, <1>5, <2>1, <2>7 DEF BudgetInv, UnderWay
  <2> QED BY <2>6, <2>8, <2>9 DEF BudgetInv, AllPaid
<1> QED BY <1>1, <1>9, <1>10

LEMMA PolicyKeepsBudgets ==
  ASSUME BudgetInv, [Next]_vars
  PROVE  BudgetInv'
<1>1. CASE UNCHANGED vars
  BY <1>1 DEF vars, BudgetInv, BudgetTypeOK, UnderWay, Paid
<1>2. CASE Tick
  <2>1. clock \in Nat /\ clock' = clock + 1 /\ UNCHANGED <<settings, counters, check, granted>>
    BY <1>2 DEF Tick, BudgetInv, BudgetTypeOK
  <2>2. BudgetTypeOK'
    BY <2>1 DEF BudgetInv, BudgetTypeOK
  <2>3. UnderWay'
    <3>1. \A u \in Threads : check[u].now \in Nat
      BY DEF BudgetInv, BudgetTypeOK
    <3> QED BY <2>1, <3>1 DEF BudgetInv, UnderWay
  <2>4. \A i \in DOMAIN counters : counters[i].start \in Nat
    BY StartsAreTimes
  <2>5. AllPaid'
    BY <2>1, <2>4 DEF BudgetInv, AllPaid, Paid
  <2> QED BY <2>2, <2>3, <2>5 DEF BudgetInv, AllPaid
<1>3. ASSUME NEW a \in Accounts, retire_account(a)
      PROVE  BudgetInv'
  <2>1. UNCHANGED <<settings, counters, clock, check, granted>>
    BY <1>3 DEF retire_account
  <2> QED BY <2>1 DEF BudgetInv, BudgetTypeOK, UnderWay, Paid
<1> QED BY <1>1, <1>2, <1>3, BeginKeeps, CountFixedKeeps, SlidingKeeps, SetBrokerKeeps,
           SetAssetsKeeps, SetSlidingKeeps DEF Next

\* However checks, late readings and retunes interleave, what a slot has let
\* through since it was installed stays within one budget per elapsed window
\* and one more, for any limits the setters accept: a retune that keeps a
\* barrier keeps its counter.
THEOREM RetunesKeepBudgets == Spec => []RetuneKeepsBudget
<1>1. Init => BudgetInv
  <2> SUFFICES ASSUME Init PROVE BudgetInv
    OBVIOUS
  <2>1. settings \in Settings /\ Known(settings, 0)
    BY DEF Init, Settings, Slots, Known, KnownSlot
  <2>2. Idle \in Checks /\ Idle.step = 0
    BY DEF Idle, Checks
  <2>3. check \in [Threads -> Checks] /\ \A t \in Threads : check[t].step = 0
    BY <2>2 DEF Init
  <2>4. counters = <<>> /\ granted = <<>> /\ clock = 0
    BY DEF Init
  <2> QED BY <2>1, <2>3, <2>4 DEF BudgetInv, BudgetTypeOK, UnderWay, Checks
<1>2. BudgetInv /\ [Next]_vars => BudgetInv'
  BY PolicyKeepsBudgets
<1>3. BudgetInv => RetuneKeepsBudget
  <2> SUFFICES ASSUME BudgetInv, NEW i \in DOMAIN granted
               PROVE  granted[i] <= LargestBudget * (1 + clock \div ShortestWindow)
    BY DEF RetuneKeepsBudget
  <2> DEFINE W == ShortestWindow
             B == LargestBudget
             w == clock \div W
  <2>1. /\ W \in Nat \ {0} /\ B \in Nat /\ clock \in Nat /\ granted[i] \in Nat
        /\ i \in DOMAIN counters /\ counters[i].start \in Nat
    <3>1. i \in DOMAIN counters /\ clock \in Nat /\ granted[i] \in Nat
      BY DEF BudgetInv, BudgetTypeOK
    <3> QED BY <3>1, LimitsAssumption, StartsAreTimes
  <2>2. counters[i].start <= clock /\ Paid(counters[i], granted[i])
    BY <2>1 DEF BudgetInv
  <2>3. PICK k \in Nat : k * W <= counters[i].start /\ granted[i] <= B * k + B
    BY <2>2 DEF Paid
  <2>4. k * W <= clock
    <3>1. k * W \in Nat
      BY <2>1
    <3> HIDE DEF W
    <3> QED BY <2>1, <2>2, <2>3, <3>1
  <2>5. k <= w /\ w \in Nat
    <3> HIDE DEF W
    <3> QED BY <2>1, <2>4, WholeWindows
  <2> HIDE DEF w, W, B
  <2>6. PICK d \in Nat : w = k + d
    <3>1. w - k \in Nat /\ w = k + (w - k)
      BY <2>5
    <3> QED BY <3>1
  <2>7. B * (1 + w) = B + B * k + B * d /\ B * d \in Nat /\ B * k \in Nat
    BY <2>1, <2>5, <2>6
  <2>8. granted[i] <= B * (1 + w)
    BY <2>1, <2>3, <2>7
  <2> QED BY <2>8 DEF w, W, B
<1> QED BY <1>1, <1>2, <1>3, PTL DEF Spec

-----------------------------------------------------------------------------
(* The sliding logs.  Where the values of a sequence lie in a set.         *)
Hits(s, X) == {i \in DOMAIN s : s[i] \in X}

LEMMA HitsFinite ==
  ASSUME NEW s \in Seq(Nat), NEW X
  PROVE  IsFiniteSet(Hits(s, X)) /\ Cardinality(Hits(s, X)) \in Nat
<1>1. Len(s) \in Int /\ 1 \in Int /\ Hits(s, X) \in SUBSET (1 .. Len(s))
  BY DEF Hits
<1>2. IsFiniteSet(1 .. Len(s))
  BY <1>1, FS_Interval, Zenon
<1> QED BY <1>1, <1>2, FS_Subset, FS_CardinalityType, Zenon

LEMMA HitsGrow ==
  ASSUME NEW s \in Seq(Nat), NEW X, NEW U, \A i \in DOMAIN s : s[i] \in U => s[i] \in X
  PROVE  Cardinality(Hits(s, U)) <= Cardinality(Hits(s, X))
<1>1. Hits(s, U) \subseteq Hits(s, X)
  BY DEF Hits
<1> QED BY <1>1, HitsFinite, FS_Subset

\* A number below which all of a property's cases lie, for a log in order:
\* the first index at which it fails.
LEMMA FirstOf ==
  ASSUME NEW L \in Nat, NEW S, S \subseteq 1 .. L
  PROVE  \E n \in 0 .. L : (\A i \in 1 .. n : i \notin S) /\ (n < L => n + 1 \in S)
<1> DEFINE R == {ss \in Nat \X Nat : ss[1] < ss[2]}
<1>1. IsWellFoundedOn(R, Nat)
  BY NatLessThanWellFounded, Zenon DEF OpToRel
<1>2. ASSUME NEW x \in Nat, NEW y \in Nat, y < x PROVE <<y, x>> \in R
  <2>1. <<y, x>> \in Nat \X Nat /\ <<y, x>>[1] < <<y, x>>[2]
    BY <1>2
  <2> QED BY <2>1, Zenon DEF R
<1> HIDE DEF R
<1>3. CASE S = {}
  BY <1>3
<1>4. CASE S # {}
  <2>1. S \subseteq Nat
    OBVIOUS
  <2>2. PICK x \in S : \A y \in S : ~(<<y, x>> \in R)
    BY <1>1, <1>4, <2>1, WFMin, Zenon
  <2>3. \A y \in S : ~(y < x)
    BY <1>2, <2>1, <2>2
  <2>4. x - 1 \in 0 .. L /\ x \in 1 .. L
    OBVIOUS
  <2>5. (\A i \in 1 .. (x - 1) : i \notin S) /\ (x - 1) + 1 \in S
    BY <2>3, <2>4
  <2> QED BY <2>4, <2>5
<1> QED BY <1>3, <1>4

\* The partition point of the expired entries.
LEMMA PrefixIs ==
  ASSUME NEW s \in Seq(Nat), InOrder(s), NEW u \in Nat, NEW w \in Nat
  PROVE  LET n == ExpiredPrefix(s, u, w)
         IN  /\ n \in 0 .. Len(s)
             /\ \A i \in 1 .. n : entry_expired(s[i], u, w)
<1> DEFINE S == {i \in 1 .. Len(s) : ~entry_expired(s[i], u, w)}
           Q(n) == /\ \A i \in 1 .. n : entry_expired(s[i], u, w)
                   /\ n < Len(s) => ~entry_expired(s[n + 1], u, w)
<1>1. Len(s) \in Nat /\ S \subseteq 1 .. Len(s)
  OBVIOUS
<1>2. PICK n \in 0 .. Len(s) : (\A i \in 1 .. n : i \notin S) /\ (n < Len(s) => n + 1 \in S)
  <2> HIDE DEF S
  <2> QED BY <1>1, FirstOf
<1>3. n \in Nat /\ n <= Len(s)
  BY <1>1, <1>2
<1>4. \A i \in 1 .. n : i \in 1 .. Len(s)
  BY <1>1, <1>3
<1>5. Q(n)
  BY <1>2, <1>4
<1>6. ExpiredPrefix(s, u, w) = CHOOSE m \in 0 .. Len(s) : Q(m)
  BY DEF ExpiredPrefix
<1> HIDE DEF Q
<1>7. ExpiredPrefix(s, u, w) \in 0 .. Len(s) /\ Q(ExpiredPrefix(s, u, w))
  BY <1>2, <1>5, <1>6
<1> QED BY <1>7 DEF Q

\* The partition point of a late reading.
LEMMA NotAfterIs ==
  ASSUME NEW s \in Seq(Nat), InOrder(s), NEW u \in Nat
  PROVE  LET n == NotAfter(s, u)
         IN  /\ n \in 0 .. Len(s)
             /\ \A i \in 1 .. n : s[i] <= u
             /\ \A i \in 1 .. Len(s) : i > n => s[i] >= u
<1> DEFINE S == {i \in 1 .. Len(s) : s[i] > u}
           Q(n) == /\ \A i \in 1 .. n : s[i] <= u
                   /\ n < Len(s) => s[n + 1] > u
<1>1. Len(s) \in Nat /\ S \subseteq 1 .. Len(s) /\ \A i \in 1 .. Len(s) : s[i] \in Nat
  OBVIOUS
<1>2. PICK n \in 0 .. Len(s) : (\A i \in 1 .. n : i \notin S) /\ (n < Len(s) => n + 1 \in S)
  <2> HIDE DEF S
  <2> QED BY <1>1, FirstOf
<1>3. n \in Nat /\ n <= Len(s)
  BY <1>1, <1>2
<1>4. \A i \in 1 .. n : i \in 1 .. Len(s)
  BY <1>1, <1>3
<1>5. Q(n)
  BY <1>1, <1>2, <1>4
<1>6. NotAfter(s, u) = CHOOSE m \in 0 .. Len(s) : Q(m)
  BY DEF NotAfter
<1>7. ASSUME NEW m \in 0 .. Len(s), Q(m), NEW i \in 1 .. Len(s), i > m
      PROVE  s[i] >= u
  <2>1. m < Len(s) /\ m + 1 \in 1 .. Len(s) /\ m + 1 <= i
    BY <1>1, <1>7
  <2>2. s[m + 1] <= s[i] /\ s[m + 1] > u
    BY <1>7, <2>1 DEF InOrder
  <2> QED BY <1>1, <2>1, <2>2
<1> HIDE DEF Q
<1>8. NotAfter(s, u) \in 0 .. Len(s) /\ Q(NotAfter(s, u))
  BY <1>2, <1>5, <1>6
<1>9. \A i \in 1 .. Len(s) : i > NotAfter(s, u) => s[i] >= u
  BY <1>7, <1>8
<1> QED BY <1>8, <1>9 DEF Q

\* A match of the entries of one sequence with those of another.
LEMMA HitsPair ==
  ASSUME NEW S, NEW T, IsFiniteSet(S), NEW f \in [S -> T],
         \A i, j \in S : f[i] = f[j] => i = j,
         \A j \in T : \E i \in S : f[i] = j
  PROVE  IsFiniteSet(T) /\ Cardinality(T) = Cardinality(S)
<1>1. f \in Bijection(S, T)
  BY DEF Bijection, Injection, Surjection, IsInjective
<1> QED BY <1>1, FS_Bijection DEF ExistsBijection

\* The entries kept when a prefix outside X is dropped.
LEMMA Dropped ==
  ASSUME NEW s \in Seq(Nat), NEW n \in 0 .. Len(s)
  PROVE  LET z == SubSeq(s, n + 1, Len(s))
         IN  /\ z \in Seq(Nat) /\ Len(z) = Len(s) - n
             /\ \A i \in 1 .. Len(z) : z[i] = s[n + i] /\ n + i \in 1 .. Len(s)
<1> DEFINE z == SubSeq(s, n + 1, Len(s))
<1>1. Len(s) \in Nat /\ n \in Nat /\ n <= Len(s)
  OBVIOUS
<1>2. z \in Seq(Nat) /\ Len(z) = Len(s) - n
  BY <1>1
<1>3. ASSUME NEW i \in 1 .. Len(z) PROVE z[i] = s[n + i] /\ n + i \in 1 .. Len(s)
  BY <1>1, <1>2
<1> QED BY <1>2, <1>3

\* Dropping a prefix outside X leaves the count of X.
LEMMA DroppedHits ==
  ASSUME NEW s \in Seq(Nat), NEW n \in 0 .. Len(s), NEW X, \A i \in 1 .. n : s[i] \notin X
  PROVE  Cardinality(Hits(SubSeq(s, n + 1, Len(s)), X)) = Cardinality(Hits(s, X))
<1> DEFINE z == SubSeq(s, n + 1, Len(s))
           S == Hits(z, X)
           T == Hits(s, X)
           f == [i \in S |-> n + i]
<1>1. /\ z \in Seq(Nat) /\ Len(z) = Len(s) - n
      /\ \A i \in 1 .. Len(z) : z[i] = s[n + i] /\ n + i \in 1 .. Len(s)
  BY Dropped
<1> HIDE DEF z
<1>2. /\ S = {i \in 1 .. Len(z) : z[i] \in X} /\ T = {i \in 1 .. Len(s) : s[i] \in X}
      /\ Len(s) \in Nat /\ n \in Nat
  BY <1>1 DEF Hits
<1> HIDE DEF S, T
<1>3. f \in [S -> T]
  BY <1>1, <1>2
<1>4. \A i, j \in S : f[i] = f[j] => i = j
  BY <1>2
<1>5. ASSUME NEW j \in T PROVE \E i \in S : f[i] = j
  <2>1. j \in 1 .. Len(s) /\ s[j] \in X /\ j > n
    BY <1>2
  <2>2. j - n \in 1 .. Len(z) /\ n + (j - n) = j
    BY <1>1, <1>2, <2>1
  <2>3. j - n \in S
    BY <1>1, <1>2, <2>1, <2>2
  <2> QED BY <2>2, <2>3
<1>6. IsFiniteSet(S)
  BY <1>1, HitsFinite DEF S
<1> HIDE DEF f
<1>7. Cardinality(T) = Cardinality(S)
  BY <1>3, <1>4, <1>5, <1>6, HitsPair
<1> QED BY <1>7 DEF z, S, T

\* What is not dropped can be counted.
LEMMA KeptBounds ==
  ASSUME NEW s \in Seq(Nat), NEW n \in 0 .. Len(s), NEW X, \A i \in 1 .. n : s[i] \notin X
  PROVE  Cardinality(Hits(s, X)) <= Len(s) - n
<1>1. Len(s) \in Nat /\ n \in Nat /\ n <= Len(s) /\ n + 1 \in Int /\ Len(s) \in Int
  OBVIOUS
<1>2. Hits(s, X) \in SUBSET ((n + 1) .. Len(s))
  BY <1>1 DEF Hits
<1>3. /\ IsFiniteSet((n + 1) .. Len(s))
      /\ Cardinality((n + 1) .. Len(s)) = IF n + 1 > Len(s) THEN 0 ELSE Len(s) - (n + 1) + 1
  BY <1>1, FS_Interval
<1>4. Cardinality((n + 1) .. Len(s)) = Len(s) - n
  BY <1>1, <1>3
<1> QED BY <1>2, <1>3, <1>4, FS_Subset

\* z is s with u put in after the first p entries.
Spliced(s, u, z, p) ==
  /\ z \in Seq(Nat) /\ Len(z) = Len(s) + 1 /\ p \in 0 .. Len(s)
  /\ \A i \in 1 .. Len(z) :
        z[i] = IF i <= p THEN s[i] ELSE IF i = p + 1 THEN u ELSE s[i - 1]

\* Putting in one entry adds one to the count, if it lies in X.
LEMMA SplicedHits ==
  ASSUME NEW s \in Seq(Nat), NEW u \in Nat, NEW z, NEW p, Spliced(s, u, z, p), NEW X
  PROVE  Cardinality(Hits(z, X)) = Cardinality(Hits(s, X)) + IF u \in X THEN 1 ELSE 0
<1> DEFINE S == Hits(s, X)
           T == Hits(z, X) \ {p + 1}
           f == [i \in S |-> IF i <= p THEN i ELSE i + 1]
<1>1. /\ S = {i \in 1 .. Len(s) : s[i] \in X}
      /\ T = {i \in 1 .. Len(z) : z[i] \in X /\ i # p + 1}
      /\ Len(s) \in Nat /\ p \in Nat /\ p <= Len(s) /\ Len(z) = Len(s) + 1
  BY DEF Hits, Spliced
<1>2. \A i \in 1 .. Len(z) :
        z[i] = IF i <= p THEN s[i] ELSE IF i = p + 1 THEN u ELSE s[i - 1]
  BY DEF Spliced
<1> HIDE DEF S, T
<1>3. ASSUME NEW i \in S PROVE f[i] \in T
  <2>1. i \in 1 .. Len(s) /\ s[i] \in X /\ i \in 1 .. Len(z) /\ i + 1 \in 1 .. Len(z)
    BY <1>1
  <2>2. CASE i <= p
    BY <1>1, <1>2, <2>1, <2>2
  <2>3. CASE ~(i <= p)
    <3>1. i + 1 > p /\ i + 1 # p + 1 /\ (i + 1) - 1 = i /\ ~(i + 1 <= p)
      BY <1>1, <2>1, <2>3
    <3>2. z[i + 1] = s[i]
      BY <1>2, <2>1, <3>1
    <3> QED BY <1>1, <2>1, <2>3, <3>1, <3>2
  <2> QED BY <2>2, <2>3
<1>4. f \in [S -> T]
  BY <1>3
<1>5. \A i, j \in S : f[i] = f[j] => i = j
  BY <1>1
<1>6. ASSUME NEW j \in T PROVE \E i \in S : f[i] = j
  <2>1. j \in 1 .. Len(z) /\ z[j] \in X /\ j # p + 1
    BY <1>1
  <2>2. CASE j <= p
    <3>1. j \in S
      BY <1>1, <1>2, <2>1, <2>2
    <3> QED BY <2>2, <3>1
  <2>3. CASE ~(j <= p)
    <3>1. j - 1 \in 1 .. Len(s) /\ ~(j - 1 <= p) /\ (j - 1) + 1 = j
      BY <1>1, <2>1, <2>3
    <3>2. j - 1 \in S
      BY <1>1, <1>2, <2>1, <2>3, <3>1
    <3> QED BY <3>1, <3>2
  <2> QED BY <2>2, <2>3
<1>7. IsFiniteSet(S)
  BY HitsFinite DEF S
<1> HIDE DEF f
<1>8. IsFiniteSet(T) /\ Cardinality(T) = Cardinality(S)
  BY <1>4, <1>5, <1>6, <1>7, HitsPair
<1>9. p + 1 \in 1 .. Len(z) /\ z[p + 1] = u
  BY <1>1, <1>2
<1>10. Hits(z, X) = IF u \in X THEN T \cup {p + 1} ELSE T
  BY <1>9 DEF T, Hits, Spliced
<1>11. p + 1 \notin T
  BY <1>1
<1>12. Cardinality(T \cup {p + 1}) = Cardinality(T) + 1
  BY <1>8, <1>11, FS_AddElement
<1>13. Cardinality(S) \in Nat
  BY <1>7, FS_CardinalityType
<1> QED BY <1>8, <1>10, <1>12, <1>13 DEF S

\* insert_in_time_order puts the reading in its place.
LEMMA InsertSplices ==
  ASSUME NEW s \in Seq(Nat), InOrder(s), NEW u \in Nat
  PROVE  \E p \in 0 .. Len(s) : /\ Spliced(s, u, insert_in_time_order(s, u), p)
                                /\ \A i \in 1 .. Len(s) : i <= p => s[i] <= u
                                /\ \A i \in 1 .. Len(s) : i > p => s[i] >= u
<1>0. Len(s) \in Nat /\ \A i \in 1 .. Len(s) : s[i] \in Nat
  OBVIOUS
<1>1. CASE s # <<>> /\ Last(s) > u
  <2> DEFINE p == NotAfter(s, u)
             z == InsertAt(s, p + 1, u)
  <2>1. /\ p \in 0 .. Len(s) /\ \A i \in 1 .. p : s[i] <= u
        /\ \A i \in 1 .. Len(s) : i > p => s[i] >= u
    BY NotAfterIs
  <2>2. insert_in_time_order(s, u) = z
    BY <1>1 DEF insert_in_time_order
  <2> HIDE DEF p
  <2> DEFINE a == SubSeq(s, 1, p)
             b == SubSeq(s, p + 1, Len(s))
  <2>3. p \in Nat /\ p <= Len(s) /\ (p + 1) - 1 = p
    BY <1>0, <2>1
  <2>4. z = (a \o <<u>>) \o b
    BY <2>3 DEF InsertAt
  <2>5. a \in Seq(Nat) /\ Len(a) = p /\ \A i \in 1 .. p : a[i] = s[i]
    BY <1>0, <2>3
  <2>6. /\ b \in Seq(Nat) /\ Len(b) = Len(s) - p
        /\ \A i \in 1 .. Len(b) : b[i] = s[p + i] /\ p + i \in 1 .. Len(s)
    BY <2>1, Dropped
  <2> HIDE DEF a, b, z
  <2>7. z \in Seq(Nat) /\ Len(z) = Len(s) + 1
    <3>1. <<u>> \in Seq(Nat) /\ Len(<<u>>) = 1
      OBVIOUS
    <3>2. z \in Seq(Nat) /\ Len(z) = Len(a) + 1 + Len(b)
      BY <2>4, <2>5, <2>6, <3>1, SMTT(60)
    <3> QED BY <1>0, <2>3, <2>5, <2>6, <3>2
  <2>8. ASSUME NEW i \in 1 .. Len(z)
        PROVE  z[i] = IF i <= p THEN s[i] ELSE IF i = p + 1 THEN u ELSE s[i - 1]
    <3>1. a \o <<u>> \in Seq(Nat) /\ Len(a \o <<u>>) = p + 1
      BY <2>3, <2>5
    <3>2. CASE i <= p
      <4>1. (a \o <<u>>)[i] = a[i]
        BY <2>3, <2>5, <2>7, <2>8, <3>2
      <4> QED BY <2>3, <2>4, <2>5, <2>6, <2>7, <2>8, <3>1, <3>2, <4>1
    <3>3. CASE i = p + 1
      <4>1. (a \o <<u>>)[p + 1] = u
        <5>1. a \o <<u>> = Append(a, u)
          BY <2>5
        <5>2. Append(a, u)[Len(a) + 1] = u
          BY <2>5
        <5> QED BY <2>5, <5>1, <5>2
      <4>2. p + 1 # 0 /\ ~(p + 1 <= p) /\ p + 1 \in 1 .. (p + 1)
        BY <2>3
      <4> QED BY <2>3, <2>4, <2>6, <3>1, <3>3, <4>1, <4>2
    <3>4. CASE i > p + 1
      <4>1. i - (p + 1) \in 1 .. Len(b) /\ p + (i - (p + 1)) = i - 1 /\ ~(i <= p) /\ i # p + 1
        BY <1>0, <2>3, <2>6, <2>7, <2>8, <3>4
      <4>2. z[i] = b[i - (p + 1)]
        BY <2>3, <2>4, <2>6, <2>7, <2>8, <3>1, <3>4
      <4> QED BY <2>6, <4>1, <4>2
    <3> QED BY <2>3, <2>7, <2>8, <3>2, <3>3, <3>4
  <2>9. Spliced(s, u, z, p)
    BY <2>1, <2>7, <2>8 DEF Spliced
  <2> QED BY <2>1, <2>2, <2>9
<1>2. CASE ~(s # <<>> /\ Last(s) > u)
  <2>1. insert_in_time_order(s, u) = Append(s, u)
    BY <1>2 DEF insert_in_time_order
  <2>2. Spliced(s, u, Append(s, u), Len(s))
    BY <1>0 DEF Spliced
  <2>3. ASSUME NEW i \in 1 .. Len(s) PROVE s[i] <= u
    <3>1. s # <<>> /\ Len(s) \in 1 .. Len(s) /\ i <= Len(s)
      BY <1>0, <2>3
    <3>2. s[i] <= s[Len(s)] /\ s[Len(s)] = Last(s)
      BY <2>3, <3>1 DEF InOrder, Last
    <3> QED BY <1>0, <1>2, <3>1, <3>2
  <2>4. Len(s) \in 0 .. Len(s) /\ \A i \in 1 .. Len(s) : ~(i > Len(s))
    BY <1>0
  <2> QED BY <2>1, <2>2, <2>3, <2>4
<1> QED BY <1>1, <1>2

\* An insertion keeps the order and adds the reading.
LEMMA InsertOrdered ==
  ASSUME NEW s \in Seq(Nat), InOrder(s), NEW u \in Nat
  PROVE  LET z == insert_in_time_order(s, u)
         IN  /\ z \in Seq(Nat) /\ z # <<>> /\ InOrder(z) /\ Last(z) \in Nat
             /\ Last(z) >= u /\ \A i \in 1 .. Len(s) : Last(z) >= s[i]
             /\ \A X : Cardinality(Hits(z, X)) = Cardinality(Hits(s, X)) + IF u \in X THEN 1 ELSE 0
<1> DEFINE z == insert_in_time_order(s, u)
<1>0. Len(s) \in Nat /\ \A i \in 1 .. Len(s) : s[i] \in Nat
  OBVIOUS
<1>1. PICK p \in 0 .. Len(s) : /\ Spliced(s, u, z, p)
                               /\ \A i \in 1 .. Len(s) : i <= p => s[i] <= u
                               /\ \A i \in 1 .. Len(s) : i > p => s[i] >= u
  BY InsertSplices
<1> HIDE DEF z
<1>2. /\ z \in Seq(Nat) /\ Len(z) = Len(s) + 1 /\ p \in Nat /\ p <= Len(s) /\ z # <<>>
      /\ \A i \in 1 .. Len(z) : z[i] \in Nat
  BY <1>0, <1>1 DEF Spliced
<1>3. \A i \in 1 .. Len(z) :
        z[i] = IF i <= p THEN s[i] ELSE IF i = p + 1 THEN u ELSE s[i - 1]
  BY <1>1 DEF Spliced
<1>4. ASSUME NEW m \in 1 .. Len(z), NEW n \in 1 .. Len(z), m <= n
      PROVE  z[m] <= z[n]
  <2>1. \A i, j \in 1 .. Len(s) : i <= j => s[i] <= s[j]
    BY DEF InOrder
  <2>2. /\ m <= p => m \in 1 .. Len(s)
        /\ n <= p => n \in 1 .. Len(s)
        /\ m > p + 1 => m - 1 \in 1 .. Len(s) /\ m - 1 > p
        /\ n > p + 1 => n - 1 \in 1 .. Len(s) /\ n - 1 > p
    BY <1>0, <1>2
  <2>3. CASE n <= p
    <3>1. m <= p
      BY <1>2, <1>4, <2>3
    <3> QED BY <1>3, <1>4, <2>1, <2>2, <2>3, <3>1
  <2>4. CASE n = p + 1
    <3>1. z[n] = u
      BY <1>2, <1>3, <2>4
    <3>2. CASE m <= p
      BY <1>1, <1>3, <2>2, <3>1, <3>2
    <3>3. CASE m = n
      BY <1>2, <3>3
    <3> QED BY <1>2, <1>4, <2>4, <3>2, <3>3
  <2>5. CASE n > p + 1
    <3>1. z[n] = s[n - 1]
      BY <1>2, <1>3, <2>5
    <3>2. CASE m <= p
      <4>1. m <= n - 1
        BY <1>2, <2>5, <3>2
      <4> QED BY <1>3, <2>1, <2>2, <2>5, <3>1, <3>2, <4>1
    <3>3. CASE m = p + 1
      <4>1. z[m] = u
        BY <1>2, <1>3, <3>3
      <4>2. s[n - 1] >= u /\ s[n - 1] \in Nat
        <5>1. \A j \in 1 .. Len(s) : j > p => s[j] >= u /\ s[j] \in Nat
          BY <1>0, <1>1, Zenon
        <5>2. n - 1 \in 1 .. Len(s) /\ n - 1 > p
          BY <2>2, <2>5
        <5> QED BY <5>1, <5>2, Zenon
      <4> QED BY <3>1, <4>1, <4>2
    <3>4. CASE m > p + 1
      <4>1. z[m] = s[m - 1] /\ m - 1 <= n - 1
        BY <1>2, <1>3, <1>4, <3>4
      <4> QED BY <2>1, <2>2, <2>5, <3>1, <3>4, <4>1
    <3> QED BY <1>2, <3>2, <3>3, <3>4
  <2> QED BY <1>2, <2>3, <2>4, <2>5
<1>5. InOrder(z)
  BY <1>2, <1>4 DEF InOrder
<1>6. Len(z) \in 1 .. Len(z) /\ Last(z) = z[Len(z)] /\ Last(z) \in Nat
  BY <1>0, <1>2 DEF Last
<1>7. p + 1 \in 1 .. Len(z) /\ z[p + 1] = u
  BY <1>0, <1>2, <1>3
<1>8. Last(z) >= u
  <2>1. z[p + 1] <= z[Len(z)]
    BY <1>2, <1>4, <1>6, <1>7, SMTT(60)
  <2> QED BY <1>2, <1>6, <1>7, <2>1
<1>9. ASSUME NEW i \in 1 .. Len(s) PROVE Last(z) >= s[i]
  <2>1. CASE i <= p
    <3>1. z[i] = s[i] /\ i \in 1 .. Len(z)
      BY <1>0, <1>2, <1>3, <2>1
    <3>2. z[i] <= z[Len(z)]
      BY <1>2, <1>4, <1>6, <3>1
    <3> QED BY <1>0, <1>6, <3>1, <3>2
  <2>2. CASE ~(i <= p)
    <3>1. i + 1 \in 1 .. Len(z) /\ ~(i + 1 <= p) /\ i + 1 # p + 1 /\ (i + 1) - 1 = i
      BY <1>0, <1>2, <2>2
    <3>2. z[i + 1] = s[i] /\ i + 1 <= Len(z)
      BY <1>2, <1>3, <3>1
    <3>3. z[i + 1] <= z[Len(z)]
      BY <1>4, <1>6, <3>1, <3>2
    <3> QED BY <1>0, <1>6, <3>2, <3>3
  <2> QED BY <2>1, <2>2
<1>10. \A X : Cardinality(Hits(z, X)) = Cardinality(Hits(s, X)) + IF u \in X THEN 1 ELSE 0
  BY <1>1, SplicedHits
<1> QED BY <1>2, <1>5, <1>6, <1>8, <1>9, <1>10 DEF z

\* A check that records: the log stays in order, ends no earlier, and loses
\* only what its window has passed.
LEMMA LogRecords ==
  ASSUME NEW s \in Seq(Nat), InOrder(s), NEW u \in Nat, NEW w \in Nat
  PROVE  LET z == insert_in_time_order(advance_window(s, u, w), u)
         IN  /\ z \in Seq(Nat) /\ z # <<>> /\ InOrder(z) /\ Last(z) \in Nat
             /\ Last(z) >= u /\ (s # <<>> => Last(z) >= Last(s))
             /\ \A X : (\A v \in X : v \in Nat /\ v > u - w) =>
                   Cardinality(Hits(z, X)) = Cardinality(Hits(s, X)) + IF u \in X THEN 1 ELSE 0
<1> DEFINE n == ExpiredPrefix(s, u, w)
           y == SubSeq(s, n + 1, Len(s))
           z == insert_in_time_order(y, u)
<1>0. Len(s) \in Nat /\ \A i \in 1 .. Len(s) : s[i] \in Nat
  OBVIOUS
<1>1. n \in 0 .. Len(s) /\ \A i \in 1 .. n : entry_expired(s[i], u, w)
  BY PrefixIs
<1>2. advance_window(s, u, w) = y
  BY DEF advance_window
<1> HIDE DEF n
<1>3. /\ y \in Seq(Nat) /\ Len(y) = Len(s) - n
      /\ \A i \in 1 .. Len(y) : y[i] = s[n + i] /\ n + i \in 1 .. Len(s)
  BY <1>1, Dropped
<1>4. \A X : (\A i \in 1 .. n : s[i] \notin X) =>
               Cardinality(Hits(y, X)) = Cardinality(Hits(s, X))
  BY <1>1, DroppedHits
<1> HIDE DEF y
<1>5. InOrder(y)
  <2>1. \A i, j \in 1 .. Len(s) : i <= j => s[i] <= s[j]
    BY DEF InOrder
  <2>2. ASSUME NEW i \in 1 .. Len(y), NEW j \in 1 .. Len(y), i <= j PROVE y[i] <= y[j]
    <3>1. n + i <= n + j
      BY <1>1, <2>2
    <3> QED BY <1>3, <2>1, <3>1
  <2> QED BY <1>3, <2>2 DEF InOrder
<1>6. /\ z \in Seq(Nat) /\ z # <<>> /\ InOrder(z) /\ Last(z) \in Nat
      /\ Last(z) >= u /\ \A i \in 1 .. Len(y) : Last(z) >= y[i]
      /\ \A X : Cardinality(Hits(z, X)) = Cardinality(Hits(y, X)) + IF u \in X THEN 1 ELSE 0
  BY <1>3, <1>5, InsertOrdered
<1> HIDE DEF z
<1>7. \A i \in 1 .. n : s[i] <= u /\ u - s[i] >= w /\ i \in 1 .. Len(s)
  BY <1>0, <1>1 DEF entry_expired
<1>8. ASSUME s # <<>> PROVE Last(z) >= Last(s)
  <2>1. Len(s) \in 1 .. Len(s) /\ Last(s) = s[Len(s)]
    BY <1>0, <1>8 DEF Last
  <2>2. CASE n = Len(s)
    <3>1. s[Len(s)] <= u /\ s[Len(s)] \in Nat
      BY <1>0, <1>7, <2>1, <2>2
    <3> QED BY <1>6, <2>1, <3>1
  <2>3. CASE n # Len(s)
    <3>1. Len(y) \in 1 .. Len(y) /\ n + Len(y) = Len(s)
      BY <1>0, <1>1, <1>3, <2>3
    <3>2. y[Len(y)] = s[Len(s)]
      BY <1>3, <3>1
    <3> QED BY <1>6, <2>1, <3>1, <3>2
  <2> QED BY <2>2, <2>3
<1>9. ASSUME NEW X, \A v \in X : v \in Nat /\ v > u - w
      PROVE  Cardinality(Hits(z, X)) = Cardinality(Hits(s, X)) + IF u \in X THEN 1 ELSE 0
  <2>1. ASSUME NEW i \in 1 .. n PROVE s[i] \notin X
    <3>1. s[i] \in Nat /\ u - s[i] >= w
      BY <1>0, <1>7
    <3>2. ~(s[i] > u - w)
      BY <3>1
    <3> QED BY <1>9, <3>2
  <2>2. Cardinality(Hits(y, X)) = Cardinality(Hits(s, X))
    BY <1>4, <2>1, Zenon
  <2>3. Cardinality(Hits(z, X)) = Cardinality(Hits(y, X)) + IF u \in X THEN 1 ELSE 0
    BY <1>6, Zenon
  <2> QED BY <2>2, <2>3
<1>10. insert_in_time_order(advance_window(s, u, w), u) = z
  BY <1>2 DEF z
<1> QED BY <1>6, <1>8, <1>9, <1>10, Zenon

\* The entries at a reading and since one, as hits.
AsOf(r) == {x \in Nat : x >= r}

LEMMA AtIs ==
  ASSUME NEW s, NEW r PROVE At(s, r) = Cardinality(Hits(s, {r}))
<1>1. {i \in DOMAIN s : s[i] = r} = Hits(s, {r})
  BY DEF Hits
<1> QED BY <1>1 DEF At

LEMMA SinceIs ==
  ASSUME NEW s \in Seq(Nat), NEW r PROVE Since(s, r) = Cardinality(Hits(s, AsOf(r)))
<1>1. \A i \in DOMAIN s : s[i] \in Nat
  OBVIOUS
<1>2. {i \in DOMAIN s : s[i] >= r} = Hits(s, AsOf(r))
  BY <1>1 DEF Hits, AsOf
<1> QED BY <1>2 DEF Since

LEMMA AppendHits ==
  ASSUME NEW s \in Seq(Nat), NEW u \in Nat, NEW X
  PROVE  /\ Append(s, u) \in Seq(Nat)
         /\ Cardinality(Hits(Append(s, u), X)) = Cardinality(Hits(s, X)) + IF u \in X THEN 1 ELSE 0
<1>1. Spliced(s, u, Append(s, u), Len(s))
  BY DEF Spliced
<1>2. Append(s, u) \in Seq(Nat)
  OBVIOUS
<1> QED BY <1>1, <1>2, SplicedHits

\* What the two promises speak of, before and after.
LEMMA RecordedLog ==
  ASSUME NEW s \in Seq(Nat), InOrder(s), NEW u \in Nat, NEW w \in Nat, w >= ShortestWindow,
         NEW r \in Nat,
         r > Last(insert_in_time_order(advance_window(s, u, w), u)) - ShortestWindow
  PROVE  LET z == insert_in_time_order(advance_window(s, u, w), u)
         IN  /\ s # <<>> => r > Last(s) - ShortestWindow
             /\ At(z, r) = At(s, r) + IF u = r THEN 1 ELSE 0
             /\ Since(z, r) = Since(s, r) + IF u >= r THEN 1 ELSE 0
<1> DEFINE z == insert_in_time_order(advance_window(s, u, w), u)
<1>1. /\ z \in Seq(Nat) /\ Last(z) \in Nat
      /\ Last(z) >= u /\ (s # <<>> => Last(z) >= Last(s))
      /\ \A X : (\A v \in X : v \in Nat /\ v > u - w) =>
            Cardinality(Hits(z, X)) = Cardinality(Hits(s, X)) + IF u \in X THEN 1 ELSE 0
  BY LogRecords
<1>2. r > Last(z) - ShortestWindow /\ ShortestWindow \in Nat
  BY LimitsAssumption
<1> HIDE DEF z
<1>3. r > u - w
  BY <1>1, <1>2
<1>4. s # <<>> => r > Last(s) - ShortestWindow
  <2>1. s # <<>> => Last(s) \in Nat
    BY DEF Last
  <2> QED BY <1>1, <1>2, <2>1
<1>5. \A v \in {r} : v \in Nat /\ v > u - w
  BY <1>3
<1>6. \A v \in AsOf(r) : v \in Nat /\ v > u - w
  BY <1>3 DEF AsOf
<1>7. Cardinality(Hits(z, {r})) = Cardinality(Hits(s, {r})) + IF u \in {r} THEN 1 ELSE 0
  BY <1>1, <1>5, Zenon
<1>8. Cardinality(Hits(z, AsOf(r))) = Cardinality(Hits(s, AsOf(r))) + IF u \in AsOf(r) THEN 1 ELSE 0
  BY <1>1, <1>6, Zenon
<1>9. At(z, r) = At(s, r) + IF u = r THEN 1 ELSE 0
  <2>1. At(z, r) = Cardinality(Hits(z, {r})) /\ At(s, r) = Cardinality(Hits(s, {r}))
    BY AtIs, Zenon
  <2>2. u \in {r} <=> u = r
    OBVIOUS
  <2> QED BY <1>7, <2>1, <2>2, Zenon
<1>10. Since(z, r) = Since(s, r) + IF u >= r THEN 1 ELSE 0
  <2>1. u \in AsOf(r) <=> u >= r
    BY DEF AsOf
  <2>2. Since(z, r) = Cardinality(Hits(z, AsOf(r))) /\ Since(s, r) = Cardinality(Hits(s, AsOf(r)))
    BY <1>1, SinceIs, Zenon
  <2> QED BY <1>8, <2>1, <2>2, Zenon
<1> QED BY <1>4, <1>9, <1>10 DEF z

-----------------------------------------------------------------------------
(* The checks under way.                                                   *)

\* A check has counted on the account axis once it is past it, and on the
\* pair's when it is done with all.
HasCounted(c, k) ==
  c.record /\ \/ c.step > 3 /\ k = c.account /\ Barrier(c, "account") # None
              \/ c.step > 4 /\ k = <<c.account, c.asset>> /\ Barrier(c, "account_asset") # None

LEMMA CountedIs ==
  ASSUME NEW c \in Checks, NEW k
  PROVE  Counted(c, k) <=> HasCounted(c, k)
<1>1. c.step \in 0 .. 5
  BY DEF Checks
<1>2. /\ Axes[1] = "broker" /\ Axes[2] = "asset" /\ Axes[3] = "account"
      /\ Axes[4] = "account_asset"
  BY DEF Axes
<1>3. ASSUME NEW n \in 1 .. 4, Axes[n] \in Sliding PROVE n = 3 \/ n = 4
  <2>1. n = 1 \/ n = 2 \/ n = 3 \/ n = 4
    OBVIOUS
  <2> QED BY <1>2, <1>3, <2>1 DEF Sliding
<1>4. ASSUME Counted(c, k) PROVE HasCounted(c, k)
  <2>1. PICK n \in 1 .. 4 : /\ n < c.step /\ Axes[n] \in Sliding
                            /\ AxisKey(c, Axes[n]) = k /\ Barrier(c, Axes[n]) # None
    BY <1>4 DEF Counted
  <2>2. c.record
    BY <1>4 DEF Counted
  <2>3. CASE n = 3
    BY <1>1, <1>2, <2>1, <2>2, <2>3 DEF HasCounted, AxisKey
  <2>4. CASE n = 4
    BY <1>1, <1>2, <2>1, <2>2, <2>4 DEF HasCounted, AxisKey
  <2> QED BY <1>3, <2>1, <2>3, <2>4
<1>5. ASSUME HasCounted(c, k) PROVE Counted(c, k)
  <2>1. c.record
    BY <1>5 DEF HasCounted
  <2>2. CASE c.step > 3 /\ k = c.account /\ Barrier(c, "account") # None
    <3>1. 3 \in 1 .. 4 /\ 3 < c.step
      BY <1>1, <2>2
    <3> QED BY <1>2, <2>1, <2>2, <3>1 DEF Counted, AxisKey, Sliding
  <2>3. CASE c.step > 4 /\ k = <<c.account, c.asset>> /\ Barrier(c, "account_asset") # None
    <3>1. 4 \in 1 .. 4 /\ 4 < c.step
      BY <1>1, <2>3
    <3> QED BY <1>2, <2>1, <2>3, <3>1 DEF Counted, AxisKey, Sliding
  <2> QED BY <1>5, <2>2, <2>3 DEF HasCounted
<1> QED BY <1>4, <1>5

\* The threads under way with a reading of a key, when one check moves on.
LEMMA FlightFinite ==
  ASSUME NEW k, NEW r
  PROVE  /\ IsFiniteSet(InFlight(k, r)) /\ Cardinality(InFlight(k, r)) \in Nat
         /\ IsFiniteSet(Threads)
<1>1. InFlight(k, r) \in SUBSET Threads /\ IsFiniteSet(Threads)
  BY KeysAssumption DEF InFlight
<1> QED BY <1>1, FS_Subset, FS_CardinalityType

CheckTo(t, c) == check' = [check EXCEPT ![t] = c]

\* Where the check of one thread becomes c.
LEMMA FlightMoves ==
  ASSUME check \in [Threads -> Checks], NEW t \in Threads, NEW c \in Checks, CheckTo(t, c),
         NEW k, NEW r
  PROVE  /\ HasCounted(c, k) /\ c.now = r => InFlight(k, r)' = InFlight(k, r) \cup {t}
         /\ ~(HasCounted(c, k) /\ c.now = r) => InFlight(k, r)' = InFlight(k, r) \ {t}
         /\ t \in InFlight(k, r) <=> HasCounted(check[t], k) /\ check[t].now = r
<1>1. /\ check'[t] = c /\ \A x \in Threads : x # t => check'[x] = check[x]
      /\ \A x \in Threads : check[x] \in Checks
  BY DEF CheckTo
<1>2. InFlight(k, r)' = {x \in Threads : Counted(check'[x], k) /\ check'[x].now = r}
  BY DEF InFlight, Counted, Barrier, AxisKey
<1>3. Counted(c, k) <=> HasCounted(c, k)
  BY CountedIs
<1>4. Counted(check[t], k) <=> HasCounted(check[t], k)
  BY <1>1, CountedIs
<1>5. HasCounted(c, k) /\ c.now = r => InFlight(k, r)' = InFlight(k, r) \cup {t}
  BY <1>1, <1>2, <1>3, Zenon DEF InFlight
<1>6. ~(HasCounted(c, k) /\ c.now = r) => InFlight(k, r)' = InFlight(k, r) \ {t}
  BY <1>1, <1>2, <1>3, Zenon DEF InFlight
<1>7. t \in InFlight(k, r) <=> HasCounted(check[t], k) /\ check[t].now = r
  BY <1>4, Zenon DEF InFlight
<1> QED BY <1>5, <1>6, <1>7

\* A check that counts under the key as much as before.
LEMMA FlightStays ==
  ASSUME check \in [Threads -> Checks], NEW t \in Threads, NEW c \in Checks, CheckTo(t, c),
         NEW k, NEW r, c.now = check[t].now \/ ~HasCounted(c, k),
         HasCounted(c, k) <=> HasCounted(check[t], k)
  PROVE  InFlight(k, r)' = InFlight(k, r)
<1>1. /\ HasCounted(c, k) /\ c.now = r => InFlight(k, r)' = InFlight(k, r) \cup {t}
      /\ ~(HasCounted(c, k) /\ c.now = r) => InFlight(k, r)' = InFlight(k, r) \ {t}
      /\ t \in InFlight(k, r) <=> HasCounted(check[t], k) /\ check[t].now = r
  BY FlightMoves
<1>2. CASE HasCounted(c, k) /\ c.now = r
  <2>1. t \in InFlight(k, r)
    BY <1>1, <1>2
  <2> QED BY <1>1, <1>2, <2>1
<1>3. CASE ~(HasCounted(c, k) /\ c.now = r)
  <2>1. t \notin InFlight(k, r)
    BY <1>1, <1>3
  <2> QED BY <1>1, <1>3, <2>1
<1> QED BY <1>2, <1>3

\* What a step leaves of a key's log and history.
LogStill(k) ==
  /\ logs'[k] = logs[k] /\ done'[k] = done[k] /\ admitted'[k] = admitted[k]
  /\ k \notin late' => k \notin late
  /\ \A r \in Times : InFlight(k, r)' = InFlight(k, r)

\* Such a step keeps the invariant of the key.
LEMMA StillKeeps ==
  ASSUME NEW k, LogInv(k), LogStill(k)
  PROVE  LogInv(k)'
<1>1. /\ logs'[k] = logs[k] /\ done'[k] = done[k] /\ admitted'[k] = admitted[k]
      /\ (k \notin late' => k \notin late) /\ \A r \in Times : InFlight(k, r)' = InFlight(k, r)
  BY DEF LogStill
<1>2. Newest(k)' = Newest(k) /\ (Precise(k) => Precise(k)')
  BY <1>1 DEF Newest, Precise
<1>3. InOrder(logs[k])'
  BY <1>1 DEF LogInv, InOrder
<1>4. ASSUME NEW r \in Times, (r > Newest(k) - ShortestWindow)'
      PROVE  /\ (At(logs[k], r) >= done[k][r] + Cardinality(InFlight(k, r)))'
             /\ (Since(logs[k], r) >= Since(admitted[k], r))'
  <2>1. r > Newest(k) - ShortestWindow
    BY <1>2, <1>4
  <2>2. /\ At(logs[k], r) >= done[k][r] + Cardinality(InFlight(k, r))
        /\ Since(logs[k], r) >= Since(admitted[k], r)
    BY <2>1 DEF LogInv
  <2>3. At(logs[k], r)' = At(logs[k], r) /\ done'[k][r] = done[k][r]
        /\ InFlight(k, r)' = InFlight(k, r)
    BY <1>1 DEF At
  <2>4. Since(logs[k], r)' = Since(logs[k], r) /\ Since(admitted[k], r)' = Since(admitted[k], r)
    BY <1>1 DEF Since
  <2> QED BY <2>2, <2>3, <2>4
<1>5. (k \notin late => Precise(k))'
  BY <1>1, <1>2 DEF LogInv
<1> QED BY <1>3, <1>4, <1>5 DEF LogInv

\* A window of readings, as Precise counts them.
Span(from) == from .. from + ShortestWindow - 1

LEMMA PreciseIs ==
  ASSUME NEW k
  PROVE  Precise(k) <=> \A from \in Times : Cardinality(Hits(admitted[k], Span(from))) <= LargestBudget
<1>1. \A from : Hits(admitted[k], Span(from))
                = {i \in DOMAIN admitted[k] : admitted[k][i] \in from .. from + ShortestWindow - 1}
  BY DEF Hits, Span
<1> QED BY <1>1, Zenon DEF Precise

\* An order let through in the order of the readings keeps every window
\* within the budget: what the log has kept is all that its window can hold.
LEMMA StaysPrecise ==
  ASSUME NEW s \in Seq(Nat), InOrder(s), NEW u \in Nat, NEW w \in Nat, w >= ShortestWindow,
         NEW b \in Nat, b <= LargestBudget, window_count(s, u, w) <= b,
         \A i \in DOMAIN s : s[i] <= u,
         NEW d \in Seq(Nat), NEW from \in Nat,
         from > u - ShortestWindow => Since(s, from) >= Since(d, from),
         Cardinality(Hits(d, Span(from))) <= LargestBudget
  PROVE  Cardinality(Hits(Append(d, u), Span(from))) <= LargestBudget
<1> DEFINE n == ExpiredPrefix(s, u, w)
           N == Cardinality(Hits(d, Span(from)))
<1>0. ShortestWindow \in Nat /\ LargestBudget \in Nat
  BY LimitsAssumption
<1>1. Cardinality(Hits(Append(d, u), Span(from))) = N + IF u \in Span(from) THEN 1 ELSE 0
  BY AppendHits
<1>2. n \in 0 .. Len(s) /\ \A i \in 1 .. n : entry_expired(s[i], u, w)
  BY PrefixIs
<1>3. Len(s) - n + 1 <= b
  BY DEF window_count
<1> HIDE DEF n
<1>4. N \in Nat
  BY HitsFinite
<1>5. CASE u \notin Span(from)
  BY <1>1, <1>4, <1>5
<1>6. CASE u \in Span(from)
  <2>1. from <= u /\ from > u - ShortestWindow
    BY <1>0, <1>6 DEF Span
  <2>2. Since(s, from) >= Since(d, from)
    BY <2>1
  <2>3. Since(s, from) = Cardinality(Hits(s, AsOf(from))) /\ Since(d, from) = Cardinality(Hits(d, AsOf(from)))
    BY SinceIs
  <2>4. N <= Cardinality(Hits(d, AsOf(from)))
    <3>1. \A i \in DOMAIN d : d[i] \in Span(from) => d[i] \in AsOf(from)
      BY DEF Span, AsOf
    <3> QED BY <3>1, HitsGrow
  <2>5. ASSUME NEW i \in 1 .. n PROVE s[i] \notin AsOf(from)
    <3>1. i \in 1 .. Len(s)
      BY <1>2
    <3>2. s[i] \in Nat /\ u - s[i] >= w
      BY <1>2, <3>1 DEF entry_expired
    <3>3. ~(s[i] >= from)
      BY <1>0, <2>1, <3>2
    <3> QED BY <3>3 DEF AsOf
  <2>6. Cardinality(Hits(s, AsOf(from))) <= Len(s) - n
    BY <1>2, <2>5, KeptBounds
  <2>7. Cardinality(Hits(s, AsOf(from))) \in Nat /\ Cardinality(Hits(d, AsOf(from))) \in Nat
    BY HitsFinite
  <2>8. Len(s) \in Nat /\ n \in Nat
    BY <1>2
  <2>9. ASSUME NEW x1 \in Nat, NEW x2 \in Nat, NEW x3 \in Nat, NEW x4 \in Nat, NEW x5 \in Nat,
               NEW x6 \in Nat, x1 <= x2, x3 >= x2, x3 <= x4 - x5, x4 - x5 + 1 <= x6, x6 <= LargestBudget
        PROVE  x1 + 1 <= LargestBudget
    BY ONLY <1>0, <2>9
  <2>10. N + 1 <= LargestBudget
    BY ONLY <1>3, <1>4, <2>2, <2>3, <2>4, <2>6, <2>7, <2>8, <2>9, b \in Nat, b <= LargestBudget
  <2> QED BY <1>1, <1>6, <2>10
<1> QED BY <1>5, <1>6

-----------------------------------------------------------------------------
(* The steps of a check.                                                   *)

\* A check under way has a reading, an order and valid settings.
LEMMA AtWork ==
  ASSUME BudgetInv, LogsInv, NEW t \in Threads
  PROVE  /\ check \in [Threads -> Checks] /\ check[t] \in Checks
         /\ check[t].step # 0 =>
               /\ check[t].now \in Times /\ check[t].now \in Nat
               /\ check[t].account \in Accounts /\ check[t].asset \in Assets
               /\ check[t].snapshot \in Settings /\ Validated(check[t].snapshot)
<1>1. check \in [Threads -> Checks] /\ check[t] \in Checks
  BY DEF BudgetInv, BudgetTypeOK, Checks
<1>2. check[t].now \in Nat
  BY <1>1 DEF Checks
<1>3. ASSUME check[t].step # 0
      PROVE  /\ check[t].now <= clock /\ check[t].asset \in Assets
             /\ Known(check[t].snapshot, Len(counters))
  BY <1>3 DEF BudgetInv, UnderWay
<1>4. clock \in Times /\ MaxTime \in Nat
  BY LimitsAssumption DEF LogsInv, LogTypeOK
<1>5. ASSUME check[t].step # 0
      PROVE  Validated(check[t].snapshot) /\ check[t].account \in Accounts
  BY <1>5 DEF LogsInv, LogTypeOK
<1>6. ASSUME check[t].step # 0 PROVE check[t].now \in Times
  BY <1>2, <1>3, <1>4, <1>6 DEF Times
<1> QED BY <1>1, <1>2, <1>3, <1>5, <1>6 DEF Known

\* The limit of a sliding axis, and the log it counts in.
LEMMA SlidingLimit ==
  ASSUME BudgetInv, LogsInv, NEW t \in Threads, check[t].step # 0,
         NEW axis \in Sliding, Barrier(check[t], axis) # None
  PROVE  LET l == Barrier(check[t], axis)
         IN  /\ l.window \in Nat /\ l.window >= ShortestWindow
             /\ l.max_orders \in Nat /\ l.max_orders <= LargestBudget
             /\ AxisKey(check[t], axis) \in Keys
<1> DEFINE q == check[t]
           l == Barrier(q, axis)
<1>1. /\ q.account \in Accounts /\ q.asset \in Assets
      /\ q.snapshot \in Settings /\ Validated(q.snapshot)
  BY AtWork
<1> HIDE DEF q
<1>2. axis = "account" \/ axis = "account_asset"
  BY DEF Sliding
<1>3. <<q.account, q.asset>> \in Pairs
  BY <1>1 DEF Pairs
<1>4. AxisKey(q, axis) \in Keys
  BY <1>1, <1>3 DEF AxisKey, Keys
<1>5. l \in AllLimits \ {None} /\ validate_limit(l)
  <2>0. l # None
    BY DEF q
  <2>1. CASE axis = "account"
    <3>1. l = q.snapshot.accounts[q.account]
      BY <2>1 DEF Barrier
    <3>2. l \in AccountLimits \cup {None} /\ validate_limit(l)
      BY <1>1, <3>1 DEF Settings, Validated
    <3> QED BY <2>0, <3>2 DEF AllLimits
  <2>2. CASE axis = "account_asset"
    <3>1. l = q.snapshot.pairs[<<q.account, q.asset>>]
      BY <2>2 DEF Barrier
    <3>2. l \in PairLimits \cup {None} /\ validate_limit(l)
      BY <1>1, <1>3, <3>1 DEF Settings, Validated
    <3> QED BY <2>0, <3>2 DEF AllLimits
  <2> QED BY <1>2, <2>1, <2>2
<1> HIDE DEF l
<1>6. l \in [window : Nat, max_orders : Nat] /\ l.window >= ShortestWindow /\ l.max_orders <= LargestBudget
  BY <1>5, LimitsAssumption
<1>7. l.window \in Nat /\ l.max_orders \in Nat
  BY <1>6
<1> QED BY <1>4, <1>6, <1>7 DEF l, q

\* The check c goes on from q by one axis.
Onward(q, c) ==
  /\ q \in Checks /\ c \in Checks /\ q.step \in 1 .. 4 /\ c.step = q.step + 1
  /\ c.now = q.now /\ c.record = q.record /\ c.account = q.account
  /\ c.asset = q.asset /\ c.snapshot = q.snapshot

\* What the axis a check stands at adds to what it has counted.
CountsAt(q, k) ==
  /\ q.record /\ Axes[q.step] \in Sliding
  /\ k = AxisKey(q, Axes[q.step]) /\ Barrier(q, Axes[q.step]) # None

\* What a check has counted when it goes on to the next axis.
LEMMA OnwardCounts ==
  ASSUME NEW q, NEW c, Onward(q, c), NEW k
  PROVE  HasCounted(c, k) <=> HasCounted(q, k) \/ CountsAt(q, k)
<1>1. /\ Axes[1] = "broker" /\ Axes[2] = "asset" /\ Axes[3] = "account"
      /\ Axes[4] = "account_asset"
  BY DEF Axes
<1>2. Barrier(c, "account") = Barrier(q, "account")
      /\ Barrier(c, "account_asset") = Barrier(q, "account_asset")
  BY DEF Barrier, Onward
<1>3. q.step = 1 \/ q.step = 2 \/ q.step = 3 \/ q.step = 4
  BY DEF Onward
<1>4. /\ c.step = q.step + 1 /\ c.record = q.record /\ c.account = q.account
      /\ c.asset = q.asset
  BY DEF Onward
<1>5. CASE q.step = 1 \/ q.step = 2
  <2>1. ~(c.step > 3) /\ ~(q.step > 3) /\ ~(c.step > 4) /\ ~(q.step > 4)
    BY <1>4, <1>5
  <2>2. Axes[q.step] \notin Sliding
    BY <1>1, <1>5 DEF Sliding
  <2> QED BY <2>1, <2>2, Zenon DEF HasCounted, CountsAt
<1>6. CASE q.step = 3
  <2>1. c.step > 3 /\ ~(q.step > 3) /\ ~(c.step > 4) /\ ~(q.step > 4)
    BY <1>4, <1>6
  <2>2. /\ Axes[q.step] \in Sliding /\ AxisKey(q, Axes[q.step]) = q.account
        /\ Barrier(q, Axes[q.step]) = Barrier(q, "account")
    BY <1>1, <1>6 DEF Sliding, AxisKey
  <2> QED BY <1>2, <1>4, <2>1, <2>2, Zenon DEF HasCounted, CountsAt
<1>7. CASE q.step = 4
  <2>1. c.step > 3 /\ q.step > 3 /\ c.step > 4 /\ ~(q.step > 4)
    BY <1>4, <1>7
  <2>2. /\ Axes[q.step] \in Sliding /\ AxisKey(q, Axes[q.step]) = <<q.account, q.asset>>
        /\ Barrier(q, Axes[q.step]) = Barrier(q, "account_asset")
    BY <1>1, <1>7 DEF Sliding, AxisKey
  <2> QED BY <1>2, <1>4, <2>1, <2>2, Zenon DEF HasCounted, CountsAt
<1> QED BY <1>3, <1>5, <1>6, <1>7

\* An axis counts a check once: no other axis keeps its log.
LEMMA CountsOnce ==
  ASSUME NEW q \in Checks, q.step \in 1 .. 4, q.account \in Accounts, q.asset \in Assets,
         NEW k, CountsAt(q, k)
  PROVE  ~HasCounted(q, k)
<1>1. /\ Axes[1] = "broker" /\ Axes[2] = "asset" /\ Axes[3] = "account"
      /\ Axes[4] = "account_asset"
  BY DEF Axes
<1>2. Axes[q.step] \in Sliding /\ k = AxisKey(q, Axes[q.step])
  BY DEF CountsAt
<1>3. q.step = 3 \/ q.step = 4
  <2>1. q.step = 1 \/ q.step = 2 \/ q.step = 3 \/ q.step = 4
    OBVIOUS
  <2> QED BY <1>1, <1>2, <2>1 DEF Sliding
<1>4. CASE q.step = 3
  <2>1. ~(q.step > 3) /\ ~(q.step > 4)
    BY <1>4
  <2> QED BY <2>1 DEF HasCounted
<1>5. CASE q.step = 4
  <2>1. ~(q.step > 4) /\ k = <<q.account, q.asset>>
    BY <1>1, <1>2, <1>5 DEF AxisKey
  <2>2. k \in Pairs /\ k # q.account
    BY <2>1, KeysAssumption DEF Pairs
  <2> QED BY <2>1, <2>2 DEF HasCounted
<1> QED BY <1>3, <1>4, <1>5

LEMMA JudgeIs ==
  ASSUME BudgetInv, NEW t \in Threads, check[t].step \in 1 .. 4,
         NEW axis \in {"broker", "asset", "account", "account_asset"}, NEW over,
         Judge(t, axis, over)
  PROVE  \E c \in Checks : CheckTo(t, c) /\ Onward(check[t], c)
<1> DEFINE q == check[t]
           c == [q EXCEPT !.step = q.step + 1,
                          !.over = IF over THEN q.over \cup {axis} ELSE q.over]
<1>1. check \in [Threads -> Checks] /\ q \in Checks
  BY DEF BudgetInv, BudgetTypeOK, Checks
<1>2. check' = [check EXCEPT ![t] = c]
  BY <1>1 DEF Judge, Checks
<1>3. q.step + 1 \in 0 .. 5
  OBVIOUS
<1>4. (IF over THEN q.over \cup {axis} ELSE q.over)
         \in SUBSET {"broker", "asset", "account", "account_asset"}
  BY <1>1 DEF Checks
<1>5. c \in Checks
  BY <1>1, <1>3, <1>4 DEF Checks
<1>6. /\ c.step = q.step + 1 /\ c.now = q.now /\ c.record = q.record /\ c.account = q.account
      /\ c.asset = q.asset /\ c.snapshot = q.snapshot
  BY <1>1 DEF Checks
<1>7. Onward(q, c)
  BY <1>1, <1>5, <1>6 DEF Onward
<1> HIDE DEF c
<1> QED BY <1>2, <1>5, <1>7 DEF CheckTo

LEMMA SkipIs ==
  ASSUME BudgetInv, NEW t \in Threads, SkipAxis(t)
  PROVE  \E c \in Checks : CheckTo(t, c) /\ Onward(check[t], c)
<1> DEFINE q == check[t]
           c == [q EXCEPT !.step = q.step + 1]
<1>1. check \in [Threads -> Checks] /\ q \in Checks /\ q.step \in 1 .. 4
  BY DEF BudgetInv, BudgetTypeOK, Checks, SkipAxis
<1>2. check' = [check EXCEPT ![t] = c]
  BY <1>1 DEF SkipAxis, Checks
<1>3. q.step + 1 \in 0 .. 5
  BY <1>1
<1>5. c \in Checks
  BY <1>1, <1>3 DEF Checks
<1>6. /\ c.step = q.step + 1 /\ c.now = q.now /\ c.record = q.record /\ c.account = q.account
      /\ c.asset = q.asset /\ c.snapshot = q.snapshot
  BY <1>1 DEF Checks
<1>7. Onward(q, c)
  BY <1>1, <1>5, <1>6 DEF Onward
<1> HIDE DEF c
<1> QED BY <1>2, <1>5, <1>7 DEF CheckTo

\* The types of the logs and histories, when one check moves.
LEMMA LogTypesMove ==
  ASSUME BudgetInv, LogTypeOK, NEW t \in Threads, NEW c \in Checks, CheckTo(t, c),
         c.step # 0 => Validated(c.snapshot) /\ c.account \in Accounts,
         settings' = settings, clock' = clock,
         logs' \in [Keys -> Seq(Nat)], admitted' \in [Keys -> Seq(Nat)],
         done' \in [Keys -> [Times -> Nat]]
  PROVE  LogTypeOK'
<1>1. check \in [Threads -> Checks]
  BY DEF BudgetInv, BudgetTypeOK, Checks
<1>2. check'[t] = c /\ \A x \in Threads : x # t => check'[x] = check[x]
  BY <1>1 DEF CheckTo
<1>3. ASSUME NEW x \in Threads, check'[x].step # 0
      PROVE  Validated(check'[x].snapshot) /\ check'[x].account \in Accounts
  <2>1. CASE x = t
    BY <1>2, <1>3, <2>1
  <2>2. CASE x # t
    <3>1. check'[x] = check[x]
      BY <1>2, <2>2
    <3> QED BY <1>3, <3>1 DEF LogTypeOK
  <2> QED BY <2>1, <2>2
<1>4. Validated(settings)' /\ \A x \in Threads : Validated(check'[x].snapshot) => Validated(check[x].snapshot)'
  BY DEF LogTypeOK, Validated
<1>5. clock' \in Times
  BY DEF LogTypeOK
<1> QED BY <1>3, <1>4, <1>5 DEF LogTypeOK

\* A step of a check that touches no log.
LEMMA PassesBy ==
  ASSUME BudgetInv, LogsInv, NEW t \in Threads, NEW c \in Checks, CheckTo(t, c),
         UNCHANGED <<settings, logs, clock, done, admitted, late>>,
         c.step # 0 => Validated(c.snapshot) /\ c.account \in Accounts,
         \A k \in Keys : /\ c.now = check[t].now \/ ~HasCounted(c, k)
                         /\ HasCounted(c, k) <=> HasCounted(check[t], k)
  PROVE  LogsInv'
<1>1. check \in [Threads -> Checks]
  BY DEF BudgetInv, BudgetTypeOK, Checks
<1>2. LogTypeOK'
  <2>1. /\ logs' \in [Keys -> Seq(Nat)] /\ admitted' \in [Keys -> Seq(Nat)]
        /\ done' \in [Keys -> [Times -> Nat]]
    BY DEF LogsInv, LogTypeOK
  <2> QED BY <2>1, LogTypesMove DEF LogsInv
<1>3. ASSUME NEW k \in Keys PROVE LogInv(k)'
  <2>1. \A r \in Times : InFlight(k, r)' = InFlight(k, r)
    BY <1>1, FlightStays
  <2>2. LogStill(k)
    BY <2>1 DEF LogStill
  <2> QED BY <2>2, StillKeeps DEF LogsInv
<1> QED BY <1>2, <1>3 DEF LogsInv

\* A check starts: it has counted on no axis yet.
LEMMA BeginLogs ==
  ASSUME BudgetInv, LogsInv, NEW t \in Threads, Begin(t)
  PROVE  LogsInv'
<1>1. UNCHANGED <<settings, logs, clock, done, admitted, late>> /\ check[t].step = 0
  BY DEF Begin
<1>2. CASE check' = check
  <2>1. \A k \in Keys : LogStill(k)
    BY <1>1, <1>2 DEF LogStill, InFlight, Counted, Barrier, AxisKey
  <2>2. \A k \in Keys : LogInv(k)'
    BY <2>1, StillKeeps DEF LogsInv
  <2>3. LogTypeOK'
    BY <1>1, <1>2 DEF LogsInv, LogTypeOK, Validated
  <2> QED BY <2>2, <2>3 DEF LogsInv
<1>3. CASE check' # check
  <2>1. PICK account \in Accounts, asset \in Assets, record \in BOOLEAN :
          check' = [check EXCEPT ![t] =
                      [step |-> 1, now |-> clock, record |-> record, account |-> account,
                       asset |-> asset, snapshot |-> settings, over |-> {}]]
    BY <1>3 DEF Begin
  <2> DEFINE c == [step |-> 1, now |-> clock, record |-> record, account |-> account,
                   asset |-> asset, snapshot |-> settings, over |-> {}]
  <2>2. clock \in Nat /\ settings \in Settings
    BY DEF BudgetInv, BudgetTypeOK, Known
  <2>3. c \in Checks
    BY <2>2 DEF Checks
  <2>4. c.step = 1 /\ c.snapshot = settings /\ c.account \in Accounts
    OBVIOUS
  <2>5. CheckTo(t, c)
    BY <2>1 DEF CheckTo
  <2> HIDE DEF c
  <2>6. ~(c.step > 3) /\ ~(c.step > 4) /\ ~(check[t].step > 3) /\ ~(check[t].step > 4)
    BY <1>1, <2>4
  <2>7. \A k \in Keys : ~HasCounted(c, k) /\ ~HasCounted(check[t], k)
    BY <2>6, Zenon DEF HasCounted
  <2>8. Validated(c.snapshot)
    BY <2>4 DEF LogsInv, LogTypeOK
  <2> QED BY <1>1, <2>3, <2>4, <2>5, <2>7, <2>8, PassesBy
<1> QED BY <1>2, <1>3

\* An axis that keeps no log, or has no barrier, or is only peeked at.
LEMMA PassesAxis ==
  ASSUME BudgetInv, LogsInv, NEW t \in Threads, NEW c \in Checks, CheckTo(t, c),
         Onward(check[t], c), UNCHANGED <<settings, logs, clock, done, admitted, late>>,
         \A k \in Keys : ~CountsAt(check[t], k)
  PROVE  LogsInv'
<1>1. \A k \in Keys : HasCounted(c, k) <=> HasCounted(check[t], k)
  BY OnwardCounts
<1>2. c.now = check[t].now /\ c.snapshot = check[t].snapshot /\ c.account = check[t].account
      /\ check[t].step # 0
  BY DEF Onward
<1>3. Validated(check[t].snapshot) /\ check[t].account \in Accounts
  BY <1>2, AtWork
<1> QED BY <1>1, <1>2, <1>3, PassesBy

LEMMA FixedLogs ==
  ASSUME BudgetInv, LogsInv, NEW t \in Threads, CountFixed(t)
  PROVE  LogsInv'
<1>1. /\ check[t].step \in 1 .. 4 /\ Axes[check[t].step] \in Fixed
      /\ UNCHANGED <<settings, logs, clock, done, admitted, late>>
  BY DEF CountFixed
<1>2. PICK over : Judge(t, Axes[check[t].step], over)
  BY DEF CountFixed
<1>3. PICK c \in Checks : CheckTo(t, c) /\ Onward(check[t], c)
  BY <1>1, <1>2, JudgeIs DEF Fixed
<1>4. Axes[check[t].step] \notin Sliding
  BY <1>1 DEF Fixed, Sliding
<1>5. \A k \in Keys : ~CountsAt(check[t], k)
  BY <1>4, Zenon DEF CountsAt
<1> QED BY <1>1, <1>3, <1>5, PassesAxis

LEMMA SkipLogs ==
  ASSUME BudgetInv, LogsInv, NEW t \in Threads, SkipAxis(t)
  PROVE  LogsInv'
<1>1. /\ Barrier(check[t], Axes[check[t].step]) = None
      /\ UNCHANGED <<settings, logs, clock, done, admitted, late>>
  BY DEF SkipAxis
<1>2. PICK c \in Checks : CheckTo(t, c) /\ Onward(check[t], c)
  BY SkipIs
<1>3. \A k \in Keys : ~CountsAt(check[t], k)
  BY <1>1, Zenon DEF CountsAt
<1> QED BY <1>1, <1>2, <1>3, PassesAxis

\* A check that counts in the log of k: what it does there.
Records(t, k, l) ==
  /\ logs' = [logs EXCEPT ![k] =
                 insert_in_time_order(advance_window(@, check[t].now, l.window), check[t].now)]
  /\ late' = IF \E i \in DOMAIN logs[k] : logs[k][i] > check[t].now THEN late \cup {k} ELSE late
  /\ admitted' = IF window_count(logs[k], check[t].now, l.window) > l.max_orders THEN admitted
                 ELSE [admitted EXCEPT ![k] = Append(@, check[t].now)]

LEMMA SlidingIs ==
  ASSUME BudgetInv, NEW t \in Threads, CountSliding(t)
  PROVE  /\ check[t].step \in 1 .. 4 /\ check[t].step # 0 /\ Axes[check[t].step] \in Sliding
         /\ Barrier(check[t], Axes[check[t].step]) # None
         /\ UNCHANGED <<settings, clock, done>>
         /\ \E c \in Checks : CheckTo(t, c) /\ Onward(check[t], c)
         /\ check[t].record => Records(t, AxisKey(check[t], Axes[check[t].step]),
                                       Barrier(check[t], Axes[check[t].step]))
         /\ ~check[t].record => UNCHANGED <<logs, late, admitted>>
<1>1. /\ check[t].step \in 1 .. 4 /\ check[t].step # 0 /\ Axes[check[t].step] \in Sliding
      /\ Barrier(check[t], Axes[check[t].step]) # None
      /\ UNCHANGED <<settings, clock, done>>
  BY SMTT(60) DEF CountSliding
<1>2. PICK over : Judge(t, Axes[check[t].step], over)
  BY DEF CountSliding
<1>3. \E c \in Checks : CheckTo(t, c) /\ Onward(check[t], c)
  BY <1>1, <1>2, JudgeIs DEF Sliding
<1>4. check[t].record => Records(t, AxisKey(check[t], Axes[check[t].step]),
                                 Barrier(check[t], Axes[check[t].step]))
  BY DEF CountSliding, Records, over_limit
<1>5. ~check[t].record => UNCHANGED <<logs, late, admitted>>
  BY DEF CountSliding
<1> QED BY <1>1, <1>3, <1>4, <1>5

\* The log of the key itself: the entry is there for the check that counted,
\* and for the order if it was let through.
LEMMA RecordsKey ==
  ASSUME BudgetInv, LogsInv, NEW t \in Threads, NEW c \in Checks, CheckTo(t, c),
         Onward(check[t], c), NEW k \in Keys, CountsAt(check[t], k), done' = done, NEW l,
         l.window \in Nat, l.window >= ShortestWindow,
         l.max_orders \in Nat, l.max_orders <= LargestBudget, Records(t, k, l)
  PROVE  LogInv(k)' /\ logs'[k] \in Seq(Nat) /\ admitted'[k] \in Seq(Nat)
<1> DEFINE s == logs[k]
           u == check[t].now
           w == l.window
           z == insert_in_time_order(advance_window(s, u, w), u)
           d == admitted[k]
<1>0. check[t].step # 0 /\ check[t].step \in 1 .. 4 /\ c.now = u
  BY DEF Onward
<1>1. /\ check \in [Threads -> Checks] /\ check[t] \in Checks /\ u \in Times /\ u \in Nat
      /\ check[t].account \in Accounts /\ check[t].asset \in Assets
  BY <1>0, AtWork
<1>2. s \in Seq(Nat) /\ d \in Seq(Nat) /\ done[k] \in [Times -> Nat] /\ InOrder(s)
  BY DEF LogsInv, LogTypeOK, LogInv
<1>3. logs'[k] = z
  BY DEF Records, LogsInv, LogTypeOK
<1>4. /\ admitted'[k] = IF window_count(s, u, w) > l.max_orders THEN d ELSE Append(d, u)
  BY DEF Records, LogsInv, LogTypeOK
<1>5. k \notin late' => k \notin late /\ \A i \in DOMAIN s : ~(s[i] > u)
  BY DEF Records
<1>6. HasCounted(c, k) /\ ~HasCounted(check[t], k)
  BY <1>0, <1>1, OnwardCounts, CountsOnce
<1> HIDE DEF s, u, w, d
<1>7. /\ z \in Seq(Nat) /\ z # <<>> /\ InOrder(z) /\ Last(z) \in Nat /\ Last(z) >= u
  BY <1>1, <1>2, LogRecords DEF w
<1>8. \A r \in Nat : r > Last(z) - ShortestWindow =>
        /\ s # <<>> => r > Last(s) - ShortestWindow
        /\ At(z, r) = At(s, r) + IF u = r THEN 1 ELSE 0
        /\ Since(z, r) = Since(s, r) + IF u >= r THEN 1 ELSE 0
  BY <1>1, <1>2, RecordedLog DEF w
<1> HIDE DEF z
<1>9. Append(d, u) \in Seq(Nat) /\ \A X : Cardinality(Hits(Append(d, u), X))
                                          = Cardinality(Hits(d, X)) + IF u \in X THEN 1 ELSE 0
  BY <1>1, <1>2, AppendHits
<1>10. ShortestWindow \in Nat \ {0} /\ MaxTime \in Nat /\ LargestBudget \in Nat
  BY LimitsAssumption
<1>11. Newest(k)' = Last(z)
  BY <1>3, <1>7 DEF Newest
<1>12. Newest(k) = IF s = <<>> THEN 0 ELSE Last(s)
  BY DEF Newest, s
<1>13. ASSUME NEW r \in Times, r > Last(z) - ShortestWindow
       PROVE  /\ At(z, r) >= done[k][r] + Cardinality(InFlight(k, r)')
              /\ Since(z, r) >= Since(admitted'[k], r)
  <2>1. r \in Nat
    BY <1>10 DEF Times
  <2>2. /\ s # <<>> => r > Last(s) - ShortestWindow
        /\ At(z, r) = At(s, r) + IF u = r THEN 1 ELSE 0
        /\ Since(z, r) = Since(s, r) + IF u >= r THEN 1 ELSE 0
    BY <1>8, <1>13, <2>1
  <2>3. r > Newest(k) - ShortestWindow
    <3>1. CASE s = <<>>
      BY <1>10, <1>12, <2>1, <3>1
    <3>2. CASE s # <<>>
      BY <1>12, <2>2, <3>2
    <3> QED BY <3>1, <3>2
  <2>4. At(s, r) >= done[k][r] + Cardinality(InFlight(k, r)) /\ Since(s, r) >= Since(d, r)
    BY <2>3 DEF LogsInv, LogInv, s, d
  <2>5. At(s, r) \in Nat /\ Since(s, r) \in Nat /\ Since(d, r) \in Nat /\ done[k][r] \in Nat
    BY <1>2, AtIs, SinceIs, HitsFinite
  <2>6. IsFiniteSet(InFlight(k, r)) /\ Cardinality(InFlight(k, r)) \in Nat
    BY FlightFinite
  <2>7. /\ HasCounted(c, k) /\ c.now = r => InFlight(k, r)' = InFlight(k, r) \cup {t}
        /\ ~(HasCounted(c, k) /\ c.now = r) => InFlight(k, r)' = InFlight(k, r) \ {t}
        /\ t \in InFlight(k, r) <=> HasCounted(check[t], k) /\ check[t].now = r
    BY <1>1, FlightMoves
  <2>8. t \notin InFlight(k, r)
    BY <1>6, <2>7
  <2>9. Cardinality(InFlight(k, r)') = Cardinality(InFlight(k, r)) + IF u = r THEN 1 ELSE 0
    <3>1. CASE u = r
      <4>1. InFlight(k, r)' = InFlight(k, r) \cup {t}
        BY <1>0, <1>6, <2>7, <3>1 DEF u
      <4> QED BY <2>6, <2>8, <3>1, <4>1, FS_AddElement
    <3>2. CASE u # r
      <4>1. InFlight(k, r)' = InFlight(k, r)
        BY <1>0, <2>7, <2>8, <3>2 DEF u
      <4> QED BY <2>6, <3>2, <4>1
    <3> QED BY <3>1, <3>2
  <2>10. At(z, r) >= done[k][r] + Cardinality(InFlight(k, r)')
    BY <2>2, <2>4, <2>5, <2>6, <2>9
  <2>11. Since(Append(d, u), r) = Since(d, r) + IF u >= r THEN 1 ELSE 0
    <3>1. Since(Append(d, u), r) = Cardinality(Hits(Append(d, u), AsOf(r))) /\ Since(d, r) = Cardinality(Hits(d, AsOf(r)))
      BY <1>2, <1>9, SinceIs
    <3>2. u \in AsOf(r) <=> u >= r
      BY <1>1 DEF AsOf
    <3>3. Cardinality(Hits(Append(d, u), AsOf(r))) = Cardinality(Hits(d, AsOf(r))) + IF u \in AsOf(r) THEN 1 ELSE 0
      BY <1>9, Zenon
    <3> QED BY <3>1, <3>2, <3>3, Zenon
  <2>12. Since(z, r) >= Since(admitted'[k], r)
    BY <1>4, <2>2, <2>4, <2>5, <2>11
  <2> QED BY <2>10, <2>12
<1>14. ASSUME k \notin late' PROVE Precise(k)'
  <2>1. Precise(k) /\ \A i \in DOMAIN s : ~(s[i] > u)
    BY <1>5, <1>14 DEF LogsInv, LogInv
  <2>2. \A from \in Times : Cardinality(Hits(d, Span(from))) <= LargestBudget
    BY <2>1, PreciseIs DEF d
  <2>3. \A i \in DOMAIN s : s[i] <= u
    <3>1. \A i \in DOMAIN s : s[i] \in Nat
      BY <1>2
    <3> QED BY <1>1, <2>1, <3>1
  <2>4. ASSUME NEW from \in Times PROVE Cardinality(Hits(admitted'[k], Span(from))) <= LargestBudget
    <3>1. CASE window_count(s, u, w) > l.max_orders
      BY <1>4, <2>2, <3>1
    <3>2. CASE ~(window_count(s, u, w) > l.max_orders)
      <4>1. from \in Nat
        BY <1>10 DEF Times
      <4>2. ASSUME from > u - ShortestWindow PROVE Since(s, from) >= Since(d, from)
        <5>1. from > Newest(k) - ShortestWindow
          <6>1. CASE s = <<>>
            BY <1>10, <1>12, <4>1, <6>1
          <6>2. CASE s # <<>>
            <7>1. Last(s) <= u /\ Last(s) \in Nat
              BY <1>2, <2>3, <6>2 DEF Last
            <7> QED BY <1>1, <1>10, <1>12, <4>1, <4>2, <6>2, <7>1
          <6> QED BY <6>1, <6>2
        <5> QED BY <5>1 DEF LogsInv, LogInv, s, d
      <4>3. window_count(s, u, w) <= l.max_orders
        <5>1. window_count(s, u, w) \in Int
          <6>1. ExpiredPrefix(s, u, w) \in 0 .. Len(s)
            BY <1>1, <1>2, PrefixIs DEF w
          <6> QED BY <1>2, <6>1 DEF window_count
        <5> QED BY <3>2, <5>1
      <4>4. Cardinality(Hits(d, Span(from))) <= LargestBudget
        BY <2>2
      <4>5. Cardinality(Hits(Append(d, u), Span(from))) <= LargestBudget
        BY <1>1, <1>2, <2>3, <4>1, <4>2, <4>3, <4>4, StaysPrecise DEF w
      <4> QED BY <1>4, <3>2, <4>5
    <3> QED BY <3>1, <3>2
  <2>5. \A from : Hits(admitted'[k], Span(from))
                  = {i \in DOMAIN admitted'[k] : admitted'[k][i] \in from .. from + ShortestWindow - 1}
    BY DEF Hits, Span
  <2> QED BY <2>4, <2>5, Zenon DEF Precise
<1>15. InOrder(logs[k])' /\ logs'[k] \in Seq(Nat) /\ admitted'[k] \in Seq(Nat)
  BY <1>2, <1>3, <1>4, <1>7, <1>9 DEF InOrder
<1>16. ASSUME NEW r \in Times, (r > Newest(k) - ShortestWindow)'
       PROVE  /\ (At(logs[k], r) >= done[k][r] + Cardinality(InFlight(k, r)))'
              /\ (Since(logs[k], r) >= Since(admitted[k], r))'
  <2>1. r > Last(z) - ShortestWindow
    BY <1>11, <1>16
  <2>2. /\ At(z, r) >= done[k][r] + Cardinality(InFlight(k, r)')
        /\ Since(z, r) >= Since(admitted'[k], r)
    BY <1>13, <2>1
  <2>3. At(logs[k], r)' = At(z, r) /\ Since(logs[k], r)' = Since(z, r)
    BY <1>3 DEF At, Since
  <2>4. Since(admitted[k], r)' = Since(admitted'[k], r)
    BY DEF Since
  <2> QED BY <2>2, <2>3, <2>4
<1> QED BY <1>14, <1>15, <1>16 DEF LogInv

\* A sliding axis counts: its own log changes, no other.
LEMMA SlidingLogs ==
  ASSUME BudgetInv, LogsInv, NEW t \in Threads, CountSliding(t)
  PROVE  LogsInv'
<1> DEFINE axis == Axes[check[t].step]
<1>0. PICK k, l : k = AxisKey(check[t], axis) /\ l = Barrier(check[t], axis)
  OBVIOUS
<1>1. /\ check[t].step \in 1 .. 4 /\ check[t].step # 0 /\ axis \in Sliding /\ l # None
      /\ UNCHANGED <<settings, clock, done>>
      /\ check[t].record => Records(t, k, l)
      /\ ~check[t].record => UNCHANGED <<logs, late, admitted>>
  BY <1>0, SlidingIs
<1>2. PICK c \in Checks : CheckTo(t, c) /\ Onward(check[t], c)
  BY SlidingIs
<1>3. /\ l.window \in Nat /\ l.window >= ShortestWindow
      /\ l.max_orders \in Nat /\ l.max_orders <= LargestBudget /\ k \in Keys
  BY <1>0, <1>1, SlidingLimit
<1>4. /\ check \in [Threads -> Checks]
      /\ Validated(check[t].snapshot) /\ check[t].account \in Accounts
  BY <1>1, AtWork
<1>5. CASE ~check[t].record
  <2>1. \A j \in Keys : ~CountsAt(check[t], j)
    BY <1>5, Zenon DEF CountsAt
  <2>2. UNCHANGED <<settings, logs, clock, done, admitted, late>>
    BY <1>1, <1>5
  <2> QED BY <1>2, <2>1, <2>2, PassesAxis
<1>6. CASE check[t].record
  <2>1. CountsAt(check[t], k) /\ \A j \in Keys : CountsAt(check[t], j) => j = k
    BY <1>0, <1>1, <1>6, Zenon DEF CountsAt
  <2>2. Records(t, k, l) /\ done' = done
    BY <1>1, <1>6
  <2>3. LogInv(k)' /\ logs'[k] \in Seq(Nat) /\ admitted'[k] \in Seq(Nat)
    BY <1>2, <1>3, <2>1, <2>2, RecordsKey
  <2>4. /\ logs \in [Keys -> Seq(Nat)] /\ admitted \in [Keys -> Seq(Nat)]
        /\ done \in [Keys -> [Times -> Nat]]
    BY DEF LogsInv, LogTypeOK
  <2>5. /\ DOMAIN logs' = Keys /\ DOMAIN admitted' = Keys
        /\ logs' = [j \in Keys |-> logs'[j]] /\ admitted' = [j \in Keys |-> admitted'[j]]
        /\ \A j \in Keys : j # k => logs'[j] = logs[j] /\ admitted'[j] = admitted[j]
        /\ \A j \in Keys : j # k => (j \notin late' => j \notin late)
    BY <1>3, <2>2, <2>4 DEF Records
  <2>6. ASSUME NEW j \in Keys, j # k PROVE LogInv(j)'
    <3>1. ~CountsAt(check[t], j)
      BY <2>1, <2>6
    <3>2. HasCounted(c, j) <=> HasCounted(check[t], j)
      BY <1>2, <3>1, OnwardCounts
    <3>3. c.now = check[t].now
      BY <1>2 DEF Onward
    <3>4. \A r \in Times : InFlight(j, r)' = InFlight(j, r)
      BY <1>2, <1>4, <3>2, <3>3, FlightStays
    <3>5. LogStill(j)
      BY <2>2, <2>5, <2>6, <3>4 DEF LogStill
    <3> QED BY <3>5, StillKeeps DEF LogsInv
  <2>7. logs' \in [Keys -> Seq(Nat)] /\ admitted' \in [Keys -> Seq(Nat)]
    <3>1. ASSUME NEW j \in Keys PROVE logs'[j] \in Seq(Nat) /\ admitted'[j] \in Seq(Nat)
      BY <2>3, <2>4, <2>5
    <3> QED BY <2>5, <3>1
  <2>8. LogTypeOK'
    <3>1. Validated(c.snapshot) /\ c.account \in Accounts
      BY <1>2, <1>4 DEF Onward
    <3>2. LogTypeOK /\ done' \in [Keys -> [Times -> Nat]] /\ settings' = settings /\ clock' = clock
      BY <1>1, <2>2, <2>4 DEF LogsInv
    <3> QED BY <1>2, <2>7, <3>1, <3>2, LogTypesMove
  <2> QED BY <2>3, <2>6, <2>8 DEF LogsInv
<1> QED BY <1>5, <1>6

\* A check that resolves leaves its readings behind.
LEMMA ResolveLogs ==
  ASSUME BudgetInv, LogsInv, NEW t \in Threads, Resolve(t)
  PROVE  LogsInv'
<1> DEFINE q == check[t]
<1>1. /\ q.step = 5 /\ done' = WithReading(done, q) /\ CheckTo(t, Idle)
      /\ UNCHANGED <<settings, logs, clock, admitted, late>>
  BY DEF Resolve, CheckTo
<1>2. Idle \in Checks /\ Idle.step = 0
  BY DEF Idle, Checks
<1>3. check \in [Threads -> Checks] /\ q \in Checks /\ q.now \in Times /\ q.now \in Nat
  BY <1>1, AtWork
<1> HIDE DEF q
<1>4. /\ logs \in [Keys -> Seq(Nat)] /\ admitted \in [Keys -> Seq(Nat)]
      /\ done \in [Keys -> [Times -> Nat]]
  BY DEF LogsInv, LogTypeOK
<1>5. \A k \in Keys : ~HasCounted(Idle, k)
  <2>1. ~(Idle.step > 3) /\ ~(Idle.step > 4)
    BY <1>2
  <2> QED BY <2>1, Zenon DEF HasCounted
<1>6. ASSUME NEW k \in Keys
      PROVE  done'[k] = IF HasCounted(q, k) THEN [done[k] EXCEPT ![q.now] = @ + 1] ELSE done[k]
  <2>1. Counted(q, k) <=> HasCounted(q, k)
    BY <1>3, CountedIs
  <2> QED BY <1>1, <2>1 DEF WithReading
<1>7. done' \in [Keys -> [Times -> Nat]]
  <2>1. ASSUME NEW k \in Keys PROVE done'[k] \in [Times -> Nat]
    <3>1. done[k] \in [Times -> Nat] /\ done[k][q.now] + 1 \in Nat
      BY <1>3, <1>4
    <3>2. [done[k] EXCEPT ![q.now] = @ + 1] \in [Times -> Nat]
      BY <1>3, <3>1
    <3> QED BY <1>6, <3>1, <3>2
  <2>2. done' = [k \in Keys |-> done'[k]]
    BY <1>1 DEF WithReading
  <2> QED BY <2>1, <2>2
<1>8. LogTypeOK'
  BY <1>1, <1>2, <1>4, <1>7, LogTypesMove DEF LogsInv
<1>9. ASSUME NEW k \in Keys PROVE LogInv(k)'
  <2>1. CASE ~HasCounted(q, k)
    <3>1. \A r \in Times : InFlight(k, r)' = InFlight(k, r)
      BY <1>1, <1>2, <1>3, <1>5, <2>1, FlightStays DEF q
    <3>2. LogStill(k)
      BY <1>1, <1>6, <2>1, <3>1 DEF LogStill
    <3> QED BY <3>2, StillKeeps DEF LogsInv
  <2>2. CASE HasCounted(q, k)
    <3>1. Newest(k)' = Newest(k) /\ Precise(k)' = Precise(k) /\ InOrder(logs[k])' = InOrder(logs[k])
      BY <1>1 DEF Newest, Precise, InOrder
    <3>2. ASSUME NEW r \in Times, (r > Newest(k) - ShortestWindow)'
          PROVE  /\ (At(logs[k], r) >= done[k][r] + Cardinality(InFlight(k, r)))'
                 /\ (Since(logs[k], r) >= Since(admitted[k], r))'
      <4>1. r > Newest(k) - ShortestWindow
        BY <3>1, <3>2
      <4>2. /\ At(logs[k], r) >= done[k][r] + Cardinality(InFlight(k, r))
            /\ Since(logs[k], r) >= Since(admitted[k], r)
        BY <4>1 DEF LogsInv, LogInv
      <4>3. /\ At(logs[k], r)' = At(logs[k], r) /\ Since(logs[k], r)' = Since(logs[k], r)
            /\ Since(admitted[k], r)' = Since(admitted[k], r)
        BY <1>1 DEF At, Since
      <4>4. /\ InFlight(k, r)' = InFlight(k, r) \ {t}
            /\ t \in InFlight(k, r) <=> HasCounted(q, k) /\ q.now = r
        BY <1>1, <1>2, <1>3, <1>5, FlightMoves DEF q
      <4>5. IsFiniteSet(InFlight(k, r)) /\ Cardinality(InFlight(k, r)) \in Nat
        BY FlightFinite
      <4>6. Cardinality(InFlight(k, r)')
              = IF q.now = r THEN Cardinality(InFlight(k, r)) - 1 ELSE Cardinality(InFlight(k, r))
        BY <2>2, <4>4, <4>5, FS_RemoveElement
      <4>7. done[k][r] \in Nat /\ done'[k][r] = IF q.now = r THEN done[k][r] + 1 ELSE done[k][r]
        BY <1>3, <1>4, <1>6, <2>2, ZenonT(60)
      <4>8. done'[k][r] + Cardinality(InFlight(k, r)') = done[k][r] + Cardinality(InFlight(k, r))
        BY <4>5, <4>6, <4>7
      <4> QED BY <4>2, <4>3, <4>8
    <3>3. LogInv(k)
      BY DEF LogsInv
    <3>4. (k \notin late => Precise(k))' /\ InOrder(logs[k])'
      BY <1>1, <3>1, <3>3 DEF LogInv
    <3> QED BY <3>2, <3>4 DEF LogInv
  <2> QED BY <2>1, <2>2
<1> QED BY <1>8, <1>9 DEF LogsInv

\* The clock and the setters touch no log.
LEMMA AsideLogs ==
  ASSUME LogsInv, UNCHANGED <<logs, check, done, admitted, late>>,
         Validated(settings'), clock' \in Times
  PROVE  LogsInv'
<1>1. ASSUME NEW k \in Keys PROVE LogInv(k)'
  <2>1. LogStill(k)
    BY DEF LogStill, InFlight, Counted, Barrier, AxisKey
  <2> QED BY <2>1, StillKeeps DEF LogsInv
<1>2. LogTypeOK'
  BY DEF LogsInv, LogTypeOK, Validated
<1> QED BY <1>1, <1>2 DEF LogsInv

LEMMA TickLogs ==
  ASSUME LogsInv, Tick
  PROVE  LogsInv'
<1>1. UNCHANGED <<logs, check, done, admitted, late>> /\ settings' = settings
  BY DEF Tick
<1>2. clock' \in Times
  BY LimitsAssumption DEF Tick, LogsInv, LogTypeOK, Times
<1>3. Validated(settings')
  BY <1>1 DEF LogsInv, LogTypeOK
<1> QED BY <1>1, <1>2, <1>3, AsideLogs

\* The setters refuse what validate_limit refuses and touch no log.
LEMMA SetterLogs ==
  ASSUME BudgetInv, LogsInv,
         set_broker \/ set_asset_barriers \/ set_account_barriers \/ set_account_asset_barriers
  PROVE  LogsInv'
<1>1. Retune
  BY DEF set_broker, set_asset_barriers, set_account_barriers, set_account_asset_barriers
<1>2. UNCHANGED <<logs, check, done, admitted, late>> /\ clock' = clock
  BY <1>1 DEF Retune
<1>3. clock' \in Times
  BY <1>2 DEF LogsInv, LogTypeOK
<1>4. settings \in Settings /\ Validated(settings)
  BY DEF BudgetInv, BudgetTypeOK, Known, LogsInv, LogTypeOK
<1>5. CASE set_broker
  <2>1. PICK x : settings' = [settings EXCEPT !.broker = x]
    BY <1>5 DEF set_broker
  <2>2. settings'.accounts = settings.accounts /\ settings'.pairs = settings.pairs
    BY <1>4, <2>1 DEF Settings
  <2> QED BY <1>2, <1>3, <1>4, <2>2, AsideLogs DEF Validated
<1>6. CASE set_asset_barriers
  <2>1. PICK x : settings' = [settings EXCEPT !.assets = x]
    BY <1>6 DEF set_asset_barriers
  <2>2. settings'.accounts = settings.accounts /\ settings'.pairs = settings.pairs
    BY <1>4, <2>1 DEF Settings
  <2> QED BY <1>2, <1>3, <1>4, <2>2, AsideLogs DEF Validated
<1>7. CASE set_account_barriers
  <2>1. PICK f : settings' = [settings EXCEPT !.accounts = f] /\ \A a \in Accounts : validate_limit(f[a])
    BY <1>7 DEF set_account_barriers
  <2>2. settings'.accounts = f /\ settings'.pairs = settings.pairs
    BY <1>4, <2>1 DEF Settings
  <2> QED BY <1>2, <1>3, <1>4, <2>1, <2>2, AsideLogs DEF Validated
<1>8. CASE set_account_asset_barriers
  <2>1. PICK f : settings' = [settings EXCEPT !.pairs = f] /\ \A p \in Pairs : validate_limit(f[p])
    BY <1>8 DEF set_account_asset_barriers
  <2>2. settings'.pairs = f /\ settings'.accounts = settings.accounts
    BY <1>4, <2>1 DEF Settings
  <2> QED BY <1>2, <1>3, <1>4, <2>1, <2>2, AsideLogs DEF Validated
<1> QED BY <1>5, <1>6, <1>7, <1>8

\* A log that is empty, with no check of its key under way.
LEMMA EmptyLog ==
  ASSUME NEW k, logs'[k] = <<>>, done'[k] = NoReadings, admitted'[k] = <<>>,
         \A r \in Times : InFlight(k, r)' = {}
  PROVE  LogInv(k)'
<1>1. \A X : Hits(<<>>, X) = {}
  BY DEF Hits
<1>2. Cardinality({}) = 0
  BY FS_EmptySet
<1>3. <<>> \in Seq(Nat)
  OBVIOUS
<1>4. ASSUME NEW r \in Times
      PROVE  /\ (At(logs[k], r) >= done[k][r] + Cardinality(InFlight(k, r)))'
             /\ (Since(logs[k], r) >= Since(admitted[k], r))'
  <2>1. At(<<>>, r) = 0
    BY <1>1, <1>2, AtIs
  <2>2. At(logs[k], r)' = At(<<>>, r) /\ Since(logs[k], r)' = Since(<<>>, r)
        /\ Since(admitted[k], r)' = Since(<<>>, r)
    BY DEF At, Since
  <2>3. Since(<<>>, r) = 0
    BY <1>1, <1>2, <1>3, SinceIs
  <2>4. done'[k][r] = 0 /\ Cardinality(InFlight(k, r)') = 0
    BY <1>2 DEF NoReadings
  <2> QED BY <2>1, <2>2, <2>3, <2>4
<1>5. Precise(k)'
  <2>1. LargestBudget \in Nat
    BY LimitsAssumption
  <2>2. \A from : {i \in DOMAIN admitted'[k] :
                      admitted'[k][i] \in from .. from + ShortestWindow - 1} = {}
    OBVIOUS
  <2> QED BY <1>2, <2>1, <2>2 DEF Precise
<1>6. InOrder(logs[k])'
  BY DEF InOrder
<1> QED BY <1>4, <1>5, <1>6 DEF LogInv

\* A retired account: its logs are gone, and no check of it is under way.
LEMMA RetireLogs ==
  ASSUME BudgetInv, LogsInv, NEW a \in Accounts, retire_account(a)
  PROVE  LogsInv'
<1>1. /\ \A t \in Threads : check[t].step # 0 => check[t].account # a
      /\ logs' = [k \in Keys |-> IF k \in Own(a) THEN <<>> ELSE logs[k]]
      /\ done' = [k \in Keys |-> IF k \in Own(a) THEN NoReadings ELSE done[k]]
      /\ admitted' = [k \in Keys |-> IF k \in Own(a) THEN <<>> ELSE admitted[k]]
      /\ late' = late \ Own(a) /\ UNCHANGED <<settings, clock, check>>
  BY DEF retire_account
<1>2. /\ logs \in [Keys -> Seq(Nat)] /\ admitted \in [Keys -> Seq(Nat)]
      /\ done \in [Keys -> [Times -> Nat]]
  BY DEF LogsInv, LogTypeOK
<1>3. NoReadings \in [Times -> Nat] /\ <<>> \in Seq(Nat)
  BY DEF NoReadings
<1>4. LogTypeOK'
  <2>1. /\ logs' \in [Keys -> Seq(Nat)] /\ admitted' \in [Keys -> Seq(Nat)]
        /\ done' \in [Keys -> [Times -> Nat]]
    BY <1>1, <1>2, <1>3
  <2> QED BY <1>1, <2>1 DEF LogsInv, LogTypeOK, Validated
<1>5. \A k \in Keys, r \in Times : InFlight(k, r)' = InFlight(k, r)
  BY <1>1 DEF InFlight, Counted, Barrier, AxisKey
<1>6. ASSUME NEW k \in Keys, k \in Own(a), NEW r \in Times PROVE InFlight(k, r) = {}
  <2>1. ASSUME NEW t \in Threads, Counted(check[t], k) PROVE FALSE
    <3>1. check[t] \in Checks /\ HasCounted(check[t], k)
      BY <2>1, AtWork, CountedIs
    <3>2. check[t].step # 0
      BY <3>1 DEF HasCounted, Checks
    <3>3. check[t].account # a /\ check[t].account \in Accounts /\ check[t].asset \in Assets
      BY <1>1, <3>2, AtWork
    <3>4. k = check[t].account \/ k = <<check[t].account, check[t].asset>>
      BY <3>1 DEF HasCounted
    <3>5. k = a \/ \E x \in Assets : k = <<a, x>>
      BY <1>6 DEF Own
    <3>6. CASE k = check[t].account
      <4>1. PICK x \in Assets : k = <<a, x>>
        BY <3>3, <3>5, <3>6
      <4> QED BY <3>3, <3>6, <4>1, KeysAssumption DEF Pairs
    <3>7. CASE k = <<check[t].account, check[t].asset>>
      <4>1. k \in Pairs
        BY <3>3, <3>7 DEF Pairs
      <4>2. k # a
        BY <4>1, KeysAssumption
      <4>3. PICK x \in Assets : k = <<a, x>>
        BY <3>5, <4>2
      <4> QED BY <3>3, <3>7, <4>3
    <3> QED BY <3>4, <3>6, <3>7
  <2> QED BY <2>1 DEF InFlight
<1>7. ASSUME NEW k \in Keys PROVE LogInv(k)'
  <2>1. CASE k \in Own(a)
    <3>1. logs'[k] = <<>> /\ done'[k] = NoReadings /\ admitted'[k] = <<>>
      BY <1>1, <2>1
    <3>2. \A r \in Times : InFlight(k, r)' = {}
      BY <1>5, <1>6, <2>1
    <3> QED BY <3>1, <3>2, EmptyLog
  <2>2. CASE k \notin Own(a)
    <3>1. LogStill(k)
      BY <1>1, <1>5, <2>2 DEF LogStill
    <3> QED BY <3>1, StillKeeps DEF LogsInv
  <2> QED BY <2>1, <2>2
<1> QED BY <1>4, <1>7 DEF LogsInv

LEMMA PolicyKeepsLogs ==
  ASSUME BudgetInv, LogsInv, [Next]_vars
  PROVE  LogsInv'
<1>1. CASE UNCHANGED vars
  <2>1. UNCHANGED <<logs, check, done, admitted, late>> /\ settings' = settings /\ clock' = clock
    BY <1>1 DEF vars
  <2>2. Validated(settings') /\ clock' \in Times
    BY <2>1 DEF LogsInv, LogTypeOK
  <2> QED BY <2>1, <2>2, AsideLogs
<1>2. CASE Next
  BY <1>2, TickLogs, BeginLogs, FixedLogs, SlidingLogs, SkipLogs, ResolveLogs, SetterLogs,
     RetireLogs DEF Next
<1> QED BY <1>1, <1>2

LEMMA FirstLogs == Init => BudgetInv /\ LogsInv
<1> SUFFICES ASSUME Init PROVE BudgetInv /\ LogsInv
  OBVIOUS
<1>1. settings \in Settings /\ Known(settings, 0)
  BY DEF Init, Settings, Slots, Known, KnownSlot
<1>2. Idle \in Checks /\ Idle.step = 0
  BY DEF Idle, Checks
<1>3. check \in [Threads -> Checks] /\ \A t \in Threads : check[t].step = 0
  BY <1>2 DEF Init
<1>4. counters = <<>> /\ granted = <<>> /\ clock = 0
  BY DEF Init
<1>5. BudgetInv
  BY <1>1, <1>3, <1>4 DEF BudgetInv, BudgetTypeOK, UnderWay, Checks
<1>6. /\ logs = [k \in Keys |-> <<>>] /\ admitted = [k \in Keys |-> <<>>]
      /\ done = [k \in Keys |-> NoReadings]
  BY DEF Init
<1>7. NoReadings \in [Times -> Nat] /\ <<>> \in Seq(Nat)
  BY DEF NoReadings
<1>8. Validated(settings)
  BY DEF Init, Validated, validate_limit
<1>9. clock \in Times
  BY <1>4, LimitsAssumption DEF Times
<1>10. LogTypeOK
  BY <1>3, <1>6, <1>7, <1>8, <1>9 DEF LogTypeOK
<1>11. ASSUME NEW k \in Keys PROVE LogInv(k)
  <2>1. \A r \in Times : InFlight(k, r) = {}
    <3>1. \A t \in Threads : ~Counted(check[t], k)
      <4>1. ASSUME NEW t \in Threads PROVE ~HasCounted(check[t], k)
        BY <1>3 DEF HasCounted
      <4> QED BY <1>3, <4>1, CountedIs
    <3> QED BY <3>1 DEF InFlight
  <2>2. logs[k] = <<>> /\ done[k] = NoReadings /\ admitted[k] = <<>>
    BY <1>6
  <2>3. Cardinality({}) = 0 /\ LargestBudget \in Nat
    BY FS_EmptySet, LimitsAssumption
  <2>4. \A X : Hits(<<>>, X) = {}
    BY DEF Hits
  <2>5. ASSUME NEW r \in Times
        PROVE  /\ At(logs[k], r) >= done[k][r] + Cardinality(InFlight(k, r))
               /\ Since(logs[k], r) >= Since(admitted[k], r)
    <3>1. At(<<>>, r) = 0 /\ Since(<<>>, r) = 0
      BY <1>7, <2>3, <2>4, AtIs, SinceIs
    <3>2. done[k][r] = 0 /\ Cardinality(InFlight(k, r)) = 0
      BY <2>1, <2>2, <2>3 DEF NoReadings
    <3> QED BY <2>2, <3>1, <3>2
  <2>6. Precise(k)
    BY <2>2, <2>3, <2>4, PreciseIs
  <2>7. InOrder(logs[k])
    BY <2>2 DEF InOrder
  <2> QED BY <2>5, <2>6, <2>7 DEF LogInv
<1> QED BY <1>5, <1>10, <1>11 DEF LogsInv

\* No attempt is forgotten (rate_limit.rs:708-714, 820-846): whatever checks,
\* late readings, trims, retunes and retirements interleave, the log of every
\* axis that applied to a resolved check, a rejected one included, still holds
\* its reading until the shortest window has passed.
THEOREM NothingIsForgotten == Spec => []NothingForgotten
<1>1. BudgetInv /\ LogsInv => NothingForgotten
  <2> SUFFICES ASSUME LogsInv, NEW k \in Keys, NEW r \in Times, r > Newest(k) - ShortestWindow
               PROVE  At(logs[k], r) >= done[k][r]
    BY DEF NothingForgotten
  <2>1. At(logs[k], r) >= done[k][r] + Cardinality(InFlight(k, r))
    BY DEF LogsInv, LogInv
  <2>2. done[k][r] \in Nat /\ logs[k] \in Seq(Nat)
    BY DEF LogsInv, LogTypeOK
  <2>3. Cardinality(InFlight(k, r)) \in Nat
    BY FlightFinite
  <2>4. At(logs[k], r) \in Nat
    BY <2>2, AtIs, HitsFinite
  <2> QED BY <2>1, <2>2, <2>3, <2>4
<1>2. BudgetInv /\ LogsInv /\ [Next]_vars => (BudgetInv /\ LogsInv)'
  BY PolicyKeepsBudgets, PolicyKeepsLogs
<1> QED BY <1>1, <1>2, FirstLogs, PTL DEF Spec

\* The sliding window is precise (rate_limit.rs:440-441) where the checks of
\* a key come in the order of their readings: no span of a window's length
\* holds more admitted orders than the largest budget, under any retunes.
THEOREM PreciseWhenInOrder == Spec => []PreciseInOrder
<1>1. BudgetInv /\ LogsInv => PreciseInOrder
  BY DEF LogsInv, LogInv, PreciseInOrder
<1>2. BudgetInv /\ LogsInv /\ [Next]_vars => (BudgetInv /\ LogsInv)'
  BY PolicyKeepsBudgets, PolicyKeepsLogs
<1> QED BY <1>1, <1>2, FirstLogs, PTL DEF Spec


(***************************************************************************)
(* The account PnL: assertions are taken back exactly.                     *)
(***************************************************************************)

LEMMA StateSums ==
  ASSUME NEW s \in States, NEW d \in Int
  PROVE  /\ Plus(s, d) \in States /\ (IsValue(Plus(s, d)) <=> IsValue(s))
         /\ s = H("overflow") => Plus(s, d) = H("overflow")
         /\ Plus(Lost, d) = Lost /\ s # Lost
         /\ H("overflow") \in States /\ H("missing_fx") \in States
  BY DEF States, Plus, IsValue, V, H, Lost

LEMMA TakenBackSums ==
  ASSUME NEW m \in OpenAssertions, NEW s \in States, NEW d \in Int, IsValue(s)
  PROVE  TakenBack(m, s) \in States /\ TakenBack(m, Plus(s, d)) = Plus(TakenBack(m, s), d)
<1>1. m.previous.state \in States /\ m.asserted.value \in Int /\ s.value \in Int
      /\ m.previous.state.value \in Int
  BY DEF OpenAssertions, States
<1>2. CASE IsValue(m.previous.state)
  BY <1>1, <1>2 DEF TakenBack, Plus, V, IsValue, States
<1>3. CASE ~IsValue(m.previous.state)
  BY <1>1, <1>3 DEF TakenBack, Plus
<1> QED BY <1>2, <1>3

\* A rollback in range computes the exact value, or else halts.
LEMMA RestoreIs ==
  ASSUME NEW m \in OpenAssertions, NEW s \in States, IsValue(s), IsValue(m.asserted)
  PROVE  \/ Restore(m.previous.state, m.asserted, s) = TakenBack(m, s)
         \/ /\ Restore(m.previous.state, m.asserted, s) = H("overflow")
            /\ IsValue(m.previous.state)
<1>1. m.previous.state \in States /\ m.asserted.value \in Int /\ s.value \in Int
      /\ m.previous.state.value \in Int
  BY DEF OpenAssertions, States
<1>2. CASE IsValue(m.previous.state)
  BY <1>1, <1>2 DEF TakenBack, Restore
<1>3. CASE ~IsValue(m.previous.state)
  BY <1>1, <1>3 DEF TakenBack, Restore
<1> QED BY <1>2, <1>3

\* Steps that leave the entry, the lease and the assertions alone.
LEMMA PnlQuiet ==
  ASSUME PnlInv, UNCHANGED <<entry, lease, nextToken, open, standing>>,
         bpc' \in [Batches -> {"idle", "open", "commit", "rollback", "invalidate", "judge"}],
         \A b \in Batches : /\ bpc'[b] \in {"invalidate", "judge"} <=>
                                  bpc[b] \in {"invalidate", "judge"}
                            /\ bpc'[b] = "idle" => open[b] = <<>>
                            /\ bpc[b] = "commit" /\ open[b] # <<>> => bpc'[b] = "commit",
         rpc' \in [Reports -> {"idle", "lease", "locked", "record"}],
         \A r \in Reports : rpc'[r] = "locked" <=> rpc[r] = "locked",
         task' \in [Reports -> [halt : BOOLEAN, delta : Int]]
  PROVE  PnlInv'
<1>1. PnlStateOK'
  BY DEF PnlInv, PnlStateOK
<1>2. LeaseHeld'
  BY DEF PnlInv, LeaseHeld
<1>3. \A b \in Batches : Held(b)' = Held(b)
  BY DEF Held
<1>4. TokensInOrder'
  <2>1. ASSUME NEW b \in Batches, open[b] # <<>>, bpc'[b] # "commit" PROVE bpc[b] # "commit"
    BY <2>1
  <2>2. \A b \in Batches : open[b] = <<>> => 1 .. Len(open[b]) = {}
    OBVIOUS
  <2> QED BY <2>1, <2>2 DEF PnlInv, TokensInOrder
<1>5. TopToken'
  BY <1>3 DEF PnlInv, TopToken
<1>6. Recoverable'
  <2>1. ASSUME NEW b \in Batches, open'[b] # <<>> /\ bpc'[b] # "commit"
        PROVE  standing' = Lost \/ \E way \in [0 .. Held(b)' -> States] : WayBack(b, way)'
    <3>1. standing = Lost \/ \E way \in [0 .. Held(b) -> States] : WayBack(b, way)
      BY <2>1 DEF PnlInv, Recoverable
    <3>2. ASSUME NEW way, WayBack(b, way) PROVE WayBack(b, way)'
      BY <1>3, <3>2 DEF WayBack
    <3> QED BY <1>3, <3>1, <3>2
  <2> QED BY <2>1 DEF Recoverable
<1>7. RollbackExact'
  BY DEF PnlInv, RollbackExact
<1> QED BY <1>1, <1>2, <1>4, <1>5, <1>6, <1>7 DEF PnlInv

LEMMA QuietSteps ==
  ASSUME PnlInv,
         \/ \E r \in Reports : ApplyHalt(r) \/ RecordExecutionReport(r)
         \/ \E b \in Batches : \/ \E how \in {"commit", "rollback"} : Finalize(b, how)
                               \/ RecordReported(b) \/ InvalidateProvenance(b) \/ Rejected(b)
         \/ UNCHANGED pnlVars
  PROVE  PnlInv'
<1>0. PnlStateOK /\ LeaseHeld
  BY DEF PnlInv
<1>1. ASSUME NEW r \in Reports, ApplyHalt(r) \/ RecordExecutionReport(r) PROVE PnlInv'
  <2>1. UNCHANGED <<entry, lease, nextToken, open, standing, bpc>>
    BY <1>1 DEF ApplyHalt, RecordExecutionReport, batch
  <2>2. /\ rpc' \in [Reports -> {"idle", "lease", "locked", "record"}]
        /\ \A q \in Reports : rpc'[q] = "locked" <=> rpc[q] = "locked"
    BY <1>0, <1>1 DEF ApplyHalt, RecordExecutionReport, PnlStateOK
  <2>3. task' \in [Reports -> [halt : BOOLEAN, delta : Int]]
    <3>1. \/ task' = [task EXCEPT ![r] = [halt |-> TRUE, delta |-> 0]]
          \/ task' = task
      BY <1>1 DEF ApplyHalt, RecordExecutionReport
    <3>2. [halt |-> TRUE, delta |-> 0] \in [halt : BOOLEAN, delta : Int]
      OBVIOUS
    <3> QED BY <1>0, <3>1, <3>2 DEF PnlStateOK
  <2>4. \A b \in Batches : bpc[b] = "idle" => open[b] = <<>>
    BY <1>0 DEF LeaseHeld
  <2> QED BY <1>0, <2>1, <2>2, <2>3, <2>4, PnlQuiet DEF PnlStateOK
<1>2. ASSUME NEW b \in Batches,
             \/ \E how \in {"commit", "rollback"} : Finalize(b, how)
             \/ RecordReported(b) \/ InvalidateProvenance(b) \/ Rejected(b)
      PROVE  PnlInv'
  <2>1. UNCHANGED <<entry, lease, nextToken, open, standing, rpc, task>>
    BY <1>2 DEF Finalize, RecordReported, InvalidateProvenance, Rejected, report
  <2>2. PICK to \in {"idle", "commit", "rollback", "judge"} :
          /\ bpc' = [bpc EXCEPT ![b] = to]
          /\ to = "judge" <=> bpc[b] \in {"invalidate", "judge"}
          /\ to = "idle" => open[b] = <<>>
          /\ bpc[b] = "commit" => open[b] = <<>>
    <3>1. CASE \E how \in {"commit", "rollback"} : Finalize(b, how)
      BY <1>0, <3>1 DEF Finalize
    <3>2. CASE RecordReported(b)
      BY <1>0, <3>2 DEF RecordReported
    <3>3. CASE InvalidateProvenance(b)
      BY <1>0, <3>3 DEF InvalidateProvenance
    <3>4. CASE Rejected(b)
      BY <1>0, <3>4 DEF Rejected
    <3> QED BY <1>2, <3>1, <3>2, <3>3, <3>4
  <2>3. bpc' \in [Batches -> {"idle", "open", "commit", "rollback", "invalidate", "judge"}]
    BY <1>0, <2>2 DEF PnlStateOK
  <2>4. ASSUME NEW c \in Batches
        PROVE  /\ bpc'[c] \in {"invalidate", "judge"} <=> bpc[c] \in {"invalidate", "judge"}
               /\ bpc'[c] = "idle" => open[c] = <<>>
               /\ bpc[c] = "commit" /\ open[c] # <<>> => bpc'[c] = "commit"
    <3>1. CASE c = b
      BY <1>0, <2>2, <3>1 DEF PnlStateOK
    <3>2. CASE c # b
      BY <1>0, <2>2, <3>2 DEF PnlStateOK, LeaseHeld
    <3> QED BY <3>1, <3>2
  <2> QED BY <1>0, <2>1, <2>3, <2>4, PnlQuiet DEF PnlStateOK
<1>3. CASE UNCHANGED pnlVars
  <2>1. UNCHANGED <<entry, lease, nextToken, open, standing, bpc, rpc, task>>
    BY <1>3 DEF pnlVars
  <2>2. \A b \in Batches : bpc[b] = "idle" => open[b] = <<>>
    BY <1>0 DEF LeaseHeld
  <2> QED BY <1>0, <2>1, <2>2, PnlQuiet DEF PnlStateOK
<1> QED BY <1>1, <1>2, <1>3

\* A delta lands on the entry and on every state of the way back alike.
LEMMA DeltaStep ==
  ASSUME PnlInv, NEW r \in Reports, NEW d \in Int, ApplyDelta(r, d)
  PROVE  PnlInv'
<1> DEFINE sum == Plus(entry.state, d)
<1>0. PnlStateOK /\ LeaseHeld /\ rpc[r] = "idle"
  BY DEF PnlInv, ApplyDelta
<1>1. UNCHANGED <<lease, nextToken, open, bpc>>
  BY DEF ApplyDelta, batch
<1>2. CASE ~InRange(sum.value)
  <2>1. /\ UNCHANGED <<entry, standing>> /\ rpc' = [rpc EXCEPT ![r] = "lease"]
        /\ task' = [task EXCEPT ![r] = [halt |-> FALSE, delta |-> d]]
    BY <1>2 DEF ApplyDelta
  <2>2. /\ rpc' \in [Reports -> {"idle", "lease", "locked", "record"}]
        /\ \A q \in Reports : rpc'[q] = "locked" <=> rpc[q] = "locked"
    BY <1>0, <2>1 DEF PnlStateOK
  <2>3. task' \in [Reports -> [halt : BOOLEAN, delta : Int]]
    <3>1. [halt |-> FALSE, delta |-> d] \in [halt : BOOLEAN, delta : Int]
      OBVIOUS
    <3> QED BY <1>0, <2>1, <3>1 DEF PnlStateOK
  <2>4. \A b \in Batches : bpc[b] = "idle" => open[b] = <<>>
    BY <1>0 DEF LeaseHeld
  <2> QED BY <1>0, <1>1, <2>1, <2>2, <2>3, <2>4, PnlQuiet DEF PnlStateOK
<1>3. CASE InRange(sum.value)
  <2>1. /\ entry' = [entry EXCEPT !.state = sum] /\ standing' = Plus(standing, d)
        /\ rpc' = [rpc EXCEPT ![r] = "record"] /\ UNCHANGED task
    BY <1>3 DEF ApplyDelta
  <2>2. entry.state \in States /\ entry.token \in Nat /\ standing \in States \cup {Lost}
    BY <1>0 DEF PnlStateOK
  <2>3. sum \in States /\ standing' \in States \cup {Lost}
        /\ (standing = Lost => standing' = Lost)
        /\ (entry.state = H("overflow") => sum = H("overflow"))
    <3>1. sum \in States /\ (entry.state = H("overflow") => sum = H("overflow"))
      BY <2>2, StateSums
    <3>2. CASE standing = Lost
      BY <2>1, <2>2, <3>2, StateSums
    <3>3. CASE standing # Lost
      BY <2>1, <2>2, <3>3, StateSums
    <3> QED BY <3>1, <3>2, <3>3
  <2>4. entry'.state = sum /\ entry'.token = entry.token /\ entry' \in [state : States, token : Nat]
    BY <1>0, <2>1, <2>3 DEF PnlStateOK
  <2>5. PnlStateOK'
    BY <1>0, <1>1, <2>1, <2>3, <2>4 DEF PnlStateOK
  <2>6. LeaseHeld'
    BY <1>0, <1>1, <2>1 DEF LeaseHeld, PnlStateOK
  <2>7. TokensInOrder' /\ TopToken' /\ \A b \in Batches : Held(b)' = Held(b)
    BY <1>1, <2>4 DEF PnlInv, TokensInOrder, TopToken, Held
  <2>8. RollbackExact'
    BY <1>1, <2>1, <2>3, <2>4 DEF PnlInv, RollbackExact
  <2>9. Recoverable'
    <3>1. ASSUME NEW b \in Batches, open[b] # <<>>, bpc[b] # "commit", standing # Lost
          PROVE  \E way \in [0 .. Held(b) -> States] : WayBack(b, way)'
      <4>1. PICK way \in [0 .. Held(b) -> States] : WayBack(b, way)
        BY <3>1 DEF PnlInv, Recoverable
      <4> DEFINE n == Held(b)
                 on == [k \in 0 .. n |-> Plus(way[k], d)]
      <4>2. n \in Nat /\ open[b] \in Seq(OpenAssertions) /\ n <= Len(open[b])
        BY <1>0, <3>1 DEF PnlStateOK, Held
      <4> HIDE DEF n
      <4>3. ASSUME NEW k \in 0 .. n PROVE way[k] \in States /\ Plus(way[k], d) \in States
        <5>1. way[k] \in States
          BY <4>1, <4>3 DEF n
        <5> QED BY <5>1, StateSums
      <4>4. on \in [0 .. n -> States]
        BY <4>3
      <4>5. on[n] = sum /\ (on[0] = standing' \/ on[0] = H("overflow"))
        <5>1. way[n] = entry.state /\ (way[0] = standing \/ way[0] = H("overflow"))
          BY <4>1 DEF WayBack, n
        <5>2. n \in 0 .. n /\ 0 \in 0 .. n
          BY <4>2
        <5>3. way[0] = H("overflow") => Plus(way[0], d) = H("overflow")
          BY <4>3, <5>2, StateSums
        <5> QED BY <2>1, <5>1, <5>2, <5>3
      <4>6. ASSUME NEW k \in 1 .. n
            PROVE  IsValue(on[k]) /\ on[k - 1] = TakenBack(open[b][k], on[k])
        <5>1. IsValue(way[k]) /\ way[k - 1] = TakenBack(open[b][k], way[k])
          BY <4>1 DEF WayBack, n
        <5>2. k \in 0 .. n /\ k - 1 \in 0 .. n /\ k \in 1 .. Len(open[b])
          BY <4>2
        <5>3. open[b][k] \in OpenAssertions /\ way[k] \in States
          BY <4>2, <4>3, <5>2
        <5> DEFINE m == open[b][k]
                   s == way[k]
        <5>4. m \in OpenAssertions /\ s \in States /\ IsValue(s)
          BY <5>1, <5>3
        <5> HIDE DEF m, s
        <5>5. IsValue(Plus(s, d)) /\ TakenBack(m, Plus(s, d)) = Plus(TakenBack(m, s), d)
          BY <5>4, StateSums, TakenBackSums
        <5> QED BY <5>1, <5>2, <5>5 DEF m, s
      <4>7. Held(b)' = n
        BY <2>7 DEF n
      <4> HIDE DEF on
      <4>8. PICK w \in [0 .. n -> States] :
              /\ w[n] = sum /\ (w[0] = standing' \/ w[0] = H("overflow"))
              /\ \A k \in 1 .. n : IsValue(w[k]) /\ w[k - 1] = TakenBack(open[b][k], w[k])
        BY <4>4, <4>5, <4>6
      <4>9. WayBack(b, w)'
        BY <1>1, <2>4, <4>7, <4>8 DEF WayBack
      <4> QED BY <4>8, <4>9 DEF n
    <3>2. ASSUME NEW b \in Batches, open'[b] # <<>>, bpc'[b] # "commit"
          PROVE  standing' = Lost \/ \E way \in [0 .. Held(b)' -> States] : WayBack(b, way)'
      <4>1. open[b] # <<>> /\ bpc[b] # "commit" /\ Held(b)' = Held(b)
        BY <1>1, <2>7, <3>2
      <4> QED BY <2>3, <3>1, <4>1
    <3> QED BY <3>2 DEF Recoverable
  <2> QED BY <2>5, <2>6, <2>7, <2>8, <2>9 DEF PnlInv
<1> QED BY <1>2, <1>3

\* While no batch has an assertion open.
LEMMA NothingOpen ==
  ASSUME PnlInv, lease.owner \notin Batches
  PROVE  \A b \in Batches : open[b] = <<>>
  BY DEF PnlInv, LeaseHeld

LEMMA LeaseStep ==
  ASSUME PnlInv, NEW r \in Reports, TakeLease(r) \/ ApplyLocked(r)
  PROVE  PnlInv'
<1>0. PnlStateOK /\ LeaseHeld /\ r \notin Batches /\ NoOwner \notin Batches \cup Reports
  BY AccountPnlAssumption DEF PnlInv
<1>1. UNCHANGED <<open, bpc, nextToken>>
  BY DEF TakeLease, ApplyLocked, batch
<1>2. lease.owner \notin Batches
  BY <1>0 DEF TakeLease, ApplyLocked, MayAcquire, LeaseHeld
<1>3. \A b \in Batches : open[b] = <<>> /\ open'[b] = <<>>
  BY <1>1, <1>2, NothingOpen
<1>4. TokensInOrder' /\ Recoverable'
  BY <1>3 DEF TokensInOrder, Recoverable
<1>5. entry.token = 0 /\ entry.state \in States
  BY <1>0, <1>2 DEF PnlInv, TopToken, PnlStateOK
<1>6. CASE TakeLease(r)
  <2>1. lease.owner = NoOwner /\ lease.depth = 0
    BY <1>0, <1>6 DEF TakeLease, MayAcquire, LeaseHeld
  <2>2. /\ lease' = [owner |-> r, depth |-> 1] /\ rpc' = [rpc EXCEPT ![r] = "locked"]
        /\ UNCHANGED <<entry, task, standing>>
    BY <1>6, <2>1 DEF TakeLease, Acquired
  <2>3. PnlStateOK'
    BY <1>0, <1>1, <2>2 DEF PnlStateOK
  <2>4. LeaseHeld'
    BY <1>0, <1>1, <1>3, <2>1, <2>2 DEF LeaseHeld, PnlStateOK
  <2>5. TopToken' /\ RollbackExact'
    BY <1>2, <1>3, <1>5, <2>2 DEF PnlInv, TopToken, RollbackExact
  <2> QED BY <1>4, <2>3, <2>4, <2>5 DEF PnlInv
<1>7. CASE ApplyLocked(r)
  <2>1. lease.owner = r /\ lease.depth = 1
    BY <1>0, <1>7 DEF ApplyLocked, LeaseHeld
  <2>2. /\ lease' = Free /\ rpc' = [rpc EXCEPT ![r] = "record"]
        /\ task' = [task EXCEPT ![r] = NoTask]
    BY <1>7, <2>1 DEF ApplyLocked, Released
  <2>3. PICK new \in States : entry' = [state |-> new, token |-> 0] /\ standing' = new
    <3> DEFINE d == task[r].delta
    <3>1. d \in Int
      BY <1>0 DEF PnlStateOK
    <3> HIDE DEF d
    <3>2. Plus(entry.state, d) \in States /\ H("missing_fx") \in States /\ H("overflow") \in States
      BY <1>5, <3>1, StateSums
    <3> QED BY <1>5, <1>7, <3>2 DEF ApplyLocked, d
  <2>4. PnlStateOK'
    <3>1. NoTask \in [halt : BOOLEAN, delta : Int]
      BY DEF NoTask
    <3> QED BY <1>0, <1>1, <2>2, <2>3, <3>1 DEF PnlStateOK
  <2>5. LeaseHeld'
    BY <1>0, <1>1, <1>3, <2>1, <2>2 DEF LeaseHeld, PnlStateOK, Free
  <2>6. TopToken' /\ RollbackExact'
    BY <1>3, <2>3 DEF TopToken, RollbackExact
  <2> QED BY <1>4, <2>4, <2>5, <2>6 DEF PnlInv
<1> QED BY <1>6, <1>7

\* Of two batches at most one has assertions open.
LEMMA OneBatch ==
  ASSUME PnlInv, NEW b \in Batches, lease.owner \in {NoOwner, b}
  PROVE  /\ \A c \in Batches : c # b => open[c] = <<>>
         /\ \A r \in Reports : rpc[r] # "locked" /\ r # b
         /\ open[b] \in Seq(OpenAssertions) /\ lease.depth = Len(open[b])
         /\ b # NoOwner
<1>1. LeaseHeld /\ PnlStateOK /\ b \notin Reports /\ NoOwner \notin Batches \cup Reports
  BY AccountPnlAssumption DEF PnlInv
<1>2. \A r \in Reports : r # b /\ lease.owner # r
  BY <1>1
<1>3. lease.depth = Len(open[b])
  <2>1. CASE open[b] = <<>>
    BY <1>1, <2>1 DEF LeaseHeld
  <2>2. CASE open[b] # <<>>
    BY <1>1, <2>2 DEF LeaseHeld
  <2> QED BY <2>1, <2>2
<1> QED BY <1>1, <1>2, <1>3 DEF LeaseHeld, PnlStateOK

LEMMA AssertStep ==
  ASSUME PnlInv, Numeric, NEW b \in Batches, NEW s \in Assertions, AssertPnl(b, s)
  PROVE  PnlInv'
<1> DEFINE n == Len(open[b])
           m == [token |-> nextToken, previous |-> entry, asserted |-> s]
<1>0. /\ PnlStateOK /\ LeaseHeld /\ lease.owner \in {NoOwner, b} /\ bpc[b] \in {"idle", "open"}
      /\ s \in States /\ IsValue(s) /\ b \notin Reports /\ nextToken \in Nat /\ nextToken > 0
      /\ entry \in [state : States, token : Nat]
  BY AccountPnlAssumption DEF PnlInv, AssertPnl, MayAcquire, Numeric, PnlStateOK
<1>1. /\ lease' = [owner |-> b, depth |-> lease.depth + 1] /\ nextToken' = nextToken + 1
      /\ entry' = [state |-> s, token |-> nextToken]
      /\ open' = [open EXCEPT ![b] = Append(open[b], m)]
      /\ bpc' = [bpc EXCEPT ![b] = "open"] /\ UNCHANGED <<rpc, task, standing>>
  BY DEF AssertPnl, Acquired, report
<1>2. /\ \A c \in Batches : c # b => open[c] = <<>>
      /\ \A r \in Reports : rpc[r] # "locked" /\ r # b
      /\ open[b] \in Seq(OpenAssertions) /\ lease.depth = n /\ b # NoOwner
  BY <1>0, OneBatch
<1>3. m \in OpenAssertions
  BY <1>0 DEF OpenAssertions
<1> HIDE DEF m
<1>4. /\ open'[b] \in Seq(OpenAssertions) /\ Len(open'[b]) = n + 1 /\ open'[b] # <<>>
      /\ open'[b][n + 1] = m /\ \A k \in 1 .. n : open'[b][k] = open[b][k]
      /\ n \in Nat /\ open' \in [Batches -> Seq(OpenAssertions)]
      /\ \A c \in Batches : c # b => open'[c] = <<>>
  <2>1. open'[b] = Append(open[b], m)
    BY <1>0, <1>1 DEF PnlStateOK
  <2>2. \A c \in Batches : c # b => open'[c] = <<>>
    BY <1>0, <1>1, <1>2 DEF PnlStateOK
  <2>3. /\ Append(open[b], m) \in Seq(OpenAssertions) /\ Append(open[b], m) # <<>>
        /\ Len(Append(open[b], m)) = n + 1 /\ Append(open[b], m)[n + 1] = m
        /\ \A k \in 1 .. n : Append(open[b], m)[k] = open[b][k]
    BY <1>2, <1>3, AppendProperties
  <2>4. open' \in [Batches -> Seq(OpenAssertions)]
    BY <1>0, <1>1, <2>3 DEF PnlStateOK
  <2>5. n \in Nat
    BY <1>2
  <2> QED BY <2>1, <2>2, <2>3, <2>4, <2>5
<1>5. bpc'[b] = "open" /\ \A c \in Batches : c # b => bpc'[c] = bpc[c]
  BY <1>0, <1>1 DEF PnlStateOK
<1>6. Held(b) = n /\ Held(b)' = n + 1
  BY <1>0, <1>4, <1>5 DEF Held
<1> HIDE DEF n
<1>7. PnlStateOK'
  BY <1>0, <1>1, <1>4 DEF PnlStateOK
<1>8. LeaseHeld'
  BY <1>0, <1>1, <1>2, <1>4, <1>5 DEF LeaseHeld
<1>9. entry.token = IF n = 0 THEN 0 ELSE open[b][n].token
  <2>1. CASE open[b] = <<>>
    <3>1. n = 0 /\ lease.owner \notin Batches
      BY <1>0, <2>1, AccountPnlAssumption DEF LeaseHeld, n
    <3> QED BY <3>1 DEF PnlInv, TopToken
  <2>2. CASE open[b] # <<>>
    <3>1. n # 0
      BY <1>2, <2>2, EmptySeq DEF n
    <3> QED BY <1>6, <2>2, <3>1 DEF PnlInv, TopToken
  <2> QED BY <2>1, <2>2
<1>10. TokensInOrder'
  <2>1. ASSUME NEW k \in 1 .. n + 1
        PROVE  /\ open'[b][k].token \in 1 .. nextToken' - 1
               /\ \A j \in 1 .. k - 1 : open'[b][j].token < open'[b][k].token
               /\ open'[b][k].previous.token = IF k = 1 THEN 0 ELSE open'[b][k - 1].token
               /\ IsValue(open'[b][k].asserted)
    <3>0. \A i \in 1 .. n :
             /\ open[b][i].token \in 1 .. nextToken - 1
             /\ \A j \in 1 .. i - 1 : open[b][j].token < open[b][i].token
             /\ open[b][i].previous.token = IF i = 1 THEN 0 ELSE open[b][i - 1].token
             /\ IsValue(open[b][i].asserted)
      BY <1>0 DEF PnlInv, TokensInOrder, n
    <3>1. CASE k = n + 1
      <4>1. /\ open'[b][k].token = nextToken /\ open'[b][k].previous = entry
            /\ open'[b][k].asserted = s
        BY <1>4, <3>1 DEF m
      <4>2. \A j \in 1 .. k - 1 : open'[b][j].token < nextToken
        BY <1>0, <1>4, <3>0, <3>1
      <4>3. entry.token = IF k = 1 THEN 0 ELSE open'[b][k - 1].token
        BY <1>4, <1>9, <3>1
      <4>4. nextToken \in 1 .. nextToken' - 1
        BY <1>0, <1>1
      <4>5. open'[b][k].token \in 1 .. nextToken' - 1
        BY <4>1, <4>4
      <4>6. \A j \in 1 .. k - 1 : open'[b][j].token < open'[b][k].token
        BY <4>1, <4>2
      <4>7. open'[b][k].previous.token = IF k = 1 THEN 0 ELSE open'[b][k - 1].token
        BY <4>1, <4>3
      <4>8. IsValue(open'[b][k].asserted)
        BY <1>0, <4>1
      <4> QED BY <4>5, <4>6, <4>7, <4>8
    <3>2. CASE k # n + 1
      <4>1. k \in 1 .. n /\ \A j \in 1 .. k - 1 : j \in 1 .. n
        BY <1>4, <3>2
      <4>2. open'[b][k] = open[b][k] /\ \A j \in 1 .. k - 1 : open'[b][j] = open[b][j]
        BY <1>4, <4>1
      <4>3. k # 1 => k - 1 \in 1 .. k - 1
        BY <4>1
      <4>4. 1 .. nextToken - 1 \subseteq 1 .. nextToken' - 1
        BY <1>0, <1>1
      <4>5. /\ open[b][k].token \in 1 .. nextToken - 1
            /\ \A j \in 1 .. k - 1 : open[b][j].token < open[b][k].token
            /\ open[b][k].previous.token = IF k = 1 THEN 0 ELSE open[b][k - 1].token
            /\ IsValue(open[b][k].asserted)
        BY <3>0, <4>1
      <4>6. open'[b][k].token \in 1 .. nextToken' - 1
        BY <4>2, <4>4, <4>5
      <4>7. \A j \in 1 .. k - 1 : open'[b][j].token < open'[b][k].token
        BY <4>2, <4>5
      <4>8. open'[b][k].previous.token = IF k = 1 THEN 0 ELSE open'[b][k - 1].token
        BY <4>2, <4>3, <4>5
      <4>9. IsValue(open'[b][k].asserted)
        BY <4>2, <4>5
      <4> QED BY <4>6, <4>7, <4>8, <4>9
    <3> QED BY <3>1, <3>2
  <2>2. \A c \in Batches : c # b => 1 .. Len(open'[c]) = {}
    BY <1>4
  <2> QED BY <1>4, <2>1, <2>2 DEF TokensInOrder
<1>11. TopToken'
  <2>1. entry'.token = open'[b][n + 1].token /\ n + 1 # 0
    BY <1>1, <1>4 DEF m
  <2> QED BY <1>1, <1>4, <1>6, <2>1 DEF TopToken
<1>12. RollbackExact'
  BY <1>1 DEF RollbackExact
<1>13. Recoverable'
  <2>1. ASSUME standing # Lost
        PROVE  \E way \in [0 .. n -> States] :
                  /\ way[n] = entry.state /\ (way[0] = standing \/ way[0] = H("overflow"))
                  /\ \A k \in 1 .. n : IsValue(way[k]) /\ way[k - 1] = TakenBack(open[b][k], way[k])
    <3>1. CASE open[b] = <<>>
      <4>1. n = 0 /\ lease.owner \notin Batches
        BY <1>0, <3>1, AccountPnlAssumption DEF LeaseHeld, n
      <4>2. entry.state = standing \/ entry.state = H("overflow")
        BY <2>1, <4>1 DEF PnlInv, RollbackExact
      <4> DEFINE w == [k \in 0 .. n |-> entry.state]
      <4>3. w \in [0 .. n -> States] /\ w[0] = entry.state /\ w[n] = entry.state /\ 1 .. n = {}
        BY <1>0, <4>1
      <4> QED BY <4>2, <4>3
    <3>2. CASE open[b] # <<>>
      BY <1>0, <1>6, <2>1, <3>2 DEF PnlInv, Recoverable, WayBack
    <3> QED BY <3>1, <3>2
  <2>2. ASSUME standing # Lost
        PROVE  \E way \in [0 .. n + 1 -> States] : WayBack(b, way)'
    <3>1. PICK way \in [0 .. n -> States] :
                  /\ way[n] = entry.state /\ (way[0] = standing \/ way[0] = H("overflow"))
                  /\ \A k \in 1 .. n : IsValue(way[k]) /\ way[k - 1] = TakenBack(open[b][k], way[k])
      BY <2>1, <2>2
    <3> DEFINE w == [k \in 0 .. n + 1 |-> IF k = n + 1 THEN s ELSE way[k]]
    <3>2. w \in [0 .. n + 1 -> States]
      BY <1>0, <1>4
    <3>3. w[n + 1] = s /\ w[0] = way[0] /\ \A k \in 0 .. n : w[k] = way[k]
      BY <1>4
    <3> HIDE DEF w
    <3>4. TakenBack(m, s) = entry.state
      <4>1. entry.state \in States /\ s.value \in Int
        BY <1>0 DEF States
      <4>2. TakenBack(m, s) = IF IsValue(entry.state) THEN V(s.value - s.value + entry.state.value)
                              ELSE entry.state
        BY DEF TakenBack, m
      <4>3. IsValue(entry.state) => V(s.value - s.value + entry.state.value) = entry.state
        BY <4>1 DEF States, V, IsValue
      <4> QED BY <4>2, <4>3
    <3>5. ASSUME NEW k \in 1 .. n + 1
          PROVE  IsValue(w[k]) /\ w[k - 1] = TakenBack(open'[b][k], w[k])
      <4>1. CASE k = n + 1
        <5>1. w[k - 1] = entry.state /\ w[k] = s /\ open'[b][k] = m
          BY <1>4, <3>1, <3>3, <4>1
        <5> QED BY <1>0, <3>4, <5>1
      <4>2. CASE k # n + 1
        <5>1. k \in 1 .. n /\ k - 1 \in 0 .. n /\ k \in 0 .. n
          BY <1>4, <4>2
        <5> QED BY <1>4, <3>1, <3>3, <5>1
      <4> QED BY <4>1, <4>2
    <3>6. PICK u \in [0 .. n + 1 -> States] :
            /\ u[n + 1] = s /\ (u[0] = standing \/ u[0] = H("overflow"))
            /\ \A k \in 1 .. n + 1 : IsValue(u[k]) /\ u[k - 1] = TakenBack(open'[b][k], u[k])
      BY <3>1, <3>2, <3>3, <3>5
    <3>7. entry'.state = s
      BY <1>1
    <3>8. WayBack(b, u)'
      BY <1>1, <1>6, <3>6, <3>7 DEF WayBack
    <3> QED BY <3>6, <3>8
  <2> QED BY <1>1, <1>4, <1>6, <2>2 DEF Recoverable
<1> QED BY <1>7, <1>8, <1>10, <1>11, <1>12, <1>13 DEF PnlInv

LEMMA CommitStep ==
  ASSUME PnlInv, NEW b \in Batches, CommitAssertion(b)
  PROVE  PnlInv'
<1> DEFINE n == Len(open[b])
<1>0. /\ PnlStateOK /\ LeaseHeld /\ open[b] # <<>> /\ bpc[b] = "commit"
      /\ b \notin Reports /\ NoOwner \notin Batches
  BY AccountPnlAssumption DEF PnlInv, CommitAssertion
<1>1. lease.owner = b
  BY <1>0 DEF LeaseHeld
<1>2. /\ \A c \in Batches : c # b => open[c] = <<>>
      /\ \A r \in Reports : rpc[r] # "locked" /\ r # b
      /\ open[b] \in Seq(OpenAssertions) /\ lease.depth = n /\ b # NoOwner
  BY <1>1, OneBatch
<1>3. /\ open' = [open EXCEPT ![b] = Tail(open[b])] /\ lease' = Released(lease, b)
      /\ UNCHANGED <<nextToken, bpc, rpc, task>>
  BY DEF CommitAssertion, report
<1>4. /\ n \in Nat /\ n >= 1 /\ Head(open[b]) = open[b][1]
      /\ Tail(open[b]) \in Seq(OpenAssertions) /\ Len(Tail(open[b])) = n - 1
      /\ \A k \in 1 .. n - 1 : Tail(open[b])[k] = open[b][k + 1]
  BY <1>0, <1>2, HeadTailProperties
<1>5. open' \in [Batches -> Seq(OpenAssertions)] /\ open'[b] = Tail(open[b])
      /\ \A c \in Batches : c # b => open'[c] = <<>>
  BY <1>0, <1>2, <1>3, <1>4 DEF PnlStateOK
<1>6. Held(b) = n /\ entry.token = open[b][n].token
  <2>1. Held(b) = n
    BY <1>0 DEF Held
  <2> QED BY <1>0, <1>4, <2>1 DEF PnlInv, TopToken
<1> HIDE DEF n
<1>7. CASE n = 1
  <2>1. entry' = [entry EXCEPT !.token = 0] /\ standing' = entry.state
    BY <1>4, <1>6, <1>7 DEF CommitAssertion
  <2>2. open'[b] = <<>> /\ \A c \in Batches : open'[c] = <<>>
    BY <1>4, <1>5, <1>7, EmptySeq
  <2>3. lease' = Free
    BY <1>1, <1>2, <1>3, <1>7 DEF Released
  <2>4. entry'.state = entry.state /\ entry'.token = 0 /\ entry.state \in States
        /\ entry' \in [state : States, token : Nat]
    BY <1>0, <2>1 DEF PnlStateOK
  <2>5. PnlStateOK'
    BY <1>0, <1>3, <1>5, <2>1, <2>4 DEF PnlStateOK
  <2>6. LeaseHeld'
    BY <1>0, <1>1, <1>2, <1>3, <2>2, <2>3, AccountPnlAssumption DEF LeaseHeld, Free
  <2>7. TokensInOrder' /\ Recoverable'
    BY <2>2 DEF TokensInOrder, Recoverable
  <2>8. TopToken' /\ RollbackExact'
    BY <2>1, <2>2, <2>4 DEF TopToken, RollbackExact
  <2> QED BY <2>5, <2>6, <2>7, <2>8 DEF PnlInv
<1>8. CASE n # 1
  <2>1. Head(open[b]).token < open[b][n].token
    <3>1. n \in 1 .. n /\ 1 \in 1 .. n - 1
      BY <1>4, <1>8
    <3>2. \A j \in 1 .. n - 1 : open[b][j].token < open[b][n].token
      BY <3>1 DEF PnlInv, TokensInOrder, n
    <3> QED BY <1>4, <3>1, <3>2
  <2>2. Head(open[b]).token \in Nat /\ open[b][n].token \in Nat
    <3>1. n \in 1 .. n /\ 1 \in 1 .. n
      BY <1>4
    <3>2. open[b][1] \in OpenAssertions /\ open[b][n] \in OpenAssertions
      BY <1>2, <3>1 DEF n
    <3> QED BY <1>4, <3>2 DEF OpenAssertions
  <2>3. UNCHANGED <<entry, standing>>
    <3>1. entry.token # Head(open[b]).token
      BY <1>6, <2>1, <2>2
    <3> QED BY <3>1 DEF CommitAssertion
  <2>4. lease' = [lease EXCEPT !.depth = n - 1] /\ open'[b] # <<>> /\ Len(open'[b]) = n - 1
    <3>1. lease' = [lease EXCEPT !.depth = lease.depth - 1]
      BY <1>1, <1>2, <1>3, <1>8 DEF Released
    <3>2. Len(open'[b]) = n - 1 /\ n - 1 # 0
      BY <1>4, <1>5, <1>8
    <3>3. open'[b] # <<>>
      BY <1>5, <3>2, EmptySeq
    <3> QED BY <1>2, <3>1, <3>2, <3>3
  <2>5. PnlStateOK'
    BY <1>0, <1>3, <1>5, <2>3 DEF PnlStateOK
  <2>6. LeaseHeld'
    <3>1. lease' \in [owner : Batches \cup Reports \cup {NoOwner}, depth : Nat]
          /\ lease'.owner = b /\ lease'.depth = n - 1
      BY <1>0, <1>1, <1>4, <2>4 DEF LeaseHeld
    <3> QED BY <1>0, <1>2, <1>3, <1>5, <2>4, <3>1 DEF LeaseHeld
  <2>7. TokensInOrder'
    <3>1. ASSUME NEW k \in 1 .. n - 1
          PROVE  /\ open'[b][k].token \in 1 .. nextToken' - 1
                 /\ \A j \in 1 .. k - 1 : open'[b][j].token < open'[b][k].token
                 /\ IsValue(open'[b][k].asserted)
      <4>1. k + 1 \in 1 .. n /\ \A j \in 1 .. k - 1 : j \in 1 .. n - 1 /\ j + 1 \in 1 .. (k + 1) - 1
        BY <1>4
      <4>2. open'[b][k] = open[b][k + 1] /\ \A j \in 1 .. k - 1 : open'[b][j] = open[b][j + 1]
        BY <1>4, <1>5, <4>1
      <4>3. /\ open[b][k + 1].token \in 1 .. nextToken - 1
            /\ \A j \in 1 .. (k + 1) - 1 : open[b][j].token < open[b][k + 1].token
            /\ IsValue(open[b][k + 1].asserted)
        BY <4>1 DEF PnlInv, TokensInOrder, n
      <4> QED BY <1>3, <4>1, <4>2, <4>3
    <3>2. \A c \in Batches : c # b => 1 .. Len(open'[c]) = {}
      BY <1>5
    <3> QED BY <1>0, <1>3, <2>4, <3>1, <3>2 DEF TokensInOrder
  <2>8. TopToken'
    <3>1. Held(b)' = n - 1 /\ n - 1 # 0 /\ n - 1 \in 1 .. n - 1
      BY <1>0, <1>3, <1>4, <1>8, <2>4 DEF Held
    <3>2. open'[b][n - 1] = open[b][n]
      BY <1>4, <1>5, <3>1
    <3>3. lease'.owner \in Batches
      BY <1>1, <2>4, <1>0 DEF LeaseHeld
    <3> QED BY <1>5, <1>6, <2>3, <3>1, <3>2, <3>3 DEF TopToken
  <2>9. Recoverable' /\ RollbackExact'
    <3>1. lease'.owner \in Batches
      BY <1>1, <2>4, <1>0 DEF LeaseHeld
    <3> QED BY <1>0, <1>3, <1>5, <3>1 DEF Recoverable, RollbackExact
  <2> QED BY <2>5, <2>6, <2>7, <2>8, <2>9 DEF PnlInv
<1> QED BY <1>7, <1>8

LEMMA RollbackStep ==
  ASSUME PnlInv, NEW b \in Batches, RollbackEntry(b)
  PROVE  PnlInv'
<1> DEFINE n == Len(open[b])
           m == open[b][n]
           back == Restore(m.previous.state, m.asserted, entry.state)
<1>0. /\ PnlStateOK /\ LeaseHeld /\ open[b] # <<>> /\ bpc[b] = "rollback"
      /\ open[b] \in Seq(OpenAssertions) /\ lease.owner = b
  BY DEF PnlInv, RollbackEntry, PnlStateOK, LeaseHeld
<1>1. UNCHANGED <<lease, nextToken, open, rpc, task>> /\ bpc' = [bpc EXCEPT ![b] = "invalidate"]
  BY DEF RollbackEntry, report
<1>2. n \in Nat /\ n >= 1 /\ n \in 1 .. n
  BY <1>0, EmptySeq
<1>3. m \in OpenAssertions /\ m.previous \in [state : States, token : Nat] /\ m.asserted \in States
      /\ m.previous.state \in States /\ m.previous.token \in Nat /\ m = Last(open[b])
  <2>1. m = Last(open[b])
    BY DEF Last
  <2>2. m \in OpenAssertions
    BY <1>0, <1>2
  <2> HIDE DEF m, n
  <2> QED BY <2>1, <2>2 DEF OpenAssertions
<1>4. Held(b) = n /\ entry.token = m.token
  <2>1. Held(b) = n
    BY <1>0 DEF Held
  <2> QED BY <1>0, <1>2, <2>1 DEF PnlInv, TopToken
<1>5. IsValue(m.asserted) /\ m.previous.token = (IF n = 1 THEN 0 ELSE open[b][n - 1].token)
  BY <1>0, <1>2 DEF PnlInv, TokensInOrder
<1>6. bpc'[b] = "invalidate" /\ \A c \in Batches : c # b => bpc'[c] = bpc[c]
  BY <1>0, <1>1 DEF PnlStateOK
<1>7. Held(b)' = n - 1 /\ \A c \in Batches : c # b => open[c] = <<>>
  <2>1. Held(b)' = n - 1
    BY <1>1, <1>6 DEF Held
  <2> QED BY <1>0, <2>1, OneBatch
<1>8. /\ entry' = [state |-> back, token |-> m.previous.token]
      /\ standing' = IF /\ IsValue(entry.state) /\ IsValue(m.previous.state) /\ ~IsValue(back)
                        /\ m.previous.token # 0
                     THEN Lost ELSE standing
  <2> HIDE DEF n, m
  <2> QED BY <1>3, <1>4 DEF RollbackEntry
<1>9. back \in States /\ entry.state \in States
  <2>1. entry.state \in States
    BY <1>0 DEF PnlStateOK
  <2> DEFINE p == m.previous.state
             a == m.asserted
             s == entry.state
  <2>2. p \in States /\ a \in States /\ s \in States
    BY <1>3, <2>1
  <2> HIDE DEF p, a, s
  <2>3. Restore(p, a, s) \in States
    BY <2>2 DEF Restore, States, V, H
  <2> QED BY <2>1, <2>3 DEF p, a, s
<1> HIDE DEF back
<1>10. PnlStateOK'
  BY <1>0, <1>1, <1>3, <1>8, <1>9 DEF PnlStateOK
<1>11. LeaseHeld'
  BY <1>0, <1>1, <1>6 DEF LeaseHeld
<1>12. TokensInOrder'
  <2>1. bpc[b] # "commit"
    BY <1>0
  <2> QED BY <1>1, <1>6, <2>1 DEF PnlInv, TokensInOrder
<1>13. TopToken'
  <2>1. entry'.token = m.previous.token
    BY <1>8
  <2>2. ASSUME NEW c \in Batches, open'[c] # <<>> PROVE c = b
    BY <1>1, <1>7, <2>2
  <2>3. entry'.token = IF Held(b)' = 0 THEN 0 ELSE open'[b][Held(b)'].token
    BY <1>1, <1>2, <1>5, <1>7, <2>1
  <2> QED BY <1>0, <1>1, <2>2, <2>3 DEF TopToken
<1>14. RollbackExact'
  BY <1>0, <1>1 DEF RollbackExact
<1>15. ASSUME standing # Lost
       PROVE  standing' = Lost \/ \E way \in [0 .. n - 1 -> States] : WayBack(b, way)'
  <2>1. PICK way \in [0 .. n -> States] :
          /\ way[n] = entry.state /\ (way[0] = standing \/ way[0] = H("overflow"))
          /\ \A k \in 1 .. n : IsValue(way[k]) /\ way[k - 1] = TakenBack(open[b][k], way[k])
    <3> HIDE DEF n
    <3>1. PICK w \in [0 .. Held(b) -> States] : WayBack(b, w)
      BY <1>0, <1>15 DEF PnlInv, Recoverable
    <3> QED BY <1>4, <3>1 DEF WayBack
  <2>2. IsValue(entry.state) /\ way[n - 1] = TakenBack(m, entry.state)
    BY <1>2, <2>1
  <2>3. back = TakenBack(m, entry.state) \/ (back = H("overflow") /\ IsValue(m.previous.state))
    <3> DEFINE s == entry.state
    <3>1. s \in States /\ IsValue(s)
      BY <1>9, <2>2
    <3> HIDE DEF s, m
    <3>2. \/ Restore(m.previous.state, m.asserted, s) = TakenBack(m, s)
          \/ /\ Restore(m.previous.state, m.asserted, s) = H("overflow")
             /\ IsValue(m.previous.state)
      BY <1>3, <1>5, <3>1, RestoreIs
    <3> QED BY <3>2 DEF s, back
  <2>4. CASE back = TakenBack(m, entry.state)
    <3>1. IsValue(m.previous.state) => IsValue(back)
      BY <2>4 DEF TakenBack, IsValue, V
    <3>2. standing' = standing /\ entry'.state = way[n - 1]
      BY <1>8, <2>2, <2>4, <3>1
    <3> DEFINE w == [k \in 0 .. n - 1 |-> way[k]]
    <3>3. w \in [0 .. n - 1 -> States] /\ w[n - 1] = way[n - 1] /\ w[0] = way[0]
          /\ \A k \in 0 .. n - 1 : w[k] = way[k]
      BY <1>2
    <3>4. \A k \in 1 .. n - 1 : IsValue(w[k]) /\ w[k - 1] = TakenBack(open[b][k], w[k])
      <4> HIDE DEF w
      <4>1. \A k \in 1 .. n - 1 : k \in 1 .. n /\ k \in 0 .. n - 1 /\ k - 1 \in 0 .. n - 1
        BY <1>2
      <4> QED BY <2>1, <3>3, <4>1
    <3> HIDE DEF w
    <3>5. PICK u \in [0 .. n - 1 -> States] :
            /\ u[n - 1] = way[n - 1] /\ u[0] = way[0]
            /\ \A k \in 1 .. n - 1 : IsValue(u[k]) /\ u[k - 1] = TakenBack(open[b][k], u[k])
      BY <3>3, <3>4
    <3>6. WayBack(b, u)'
      BY <1>1, <1>7, <2>1, <3>2, <3>5 DEF WayBack
    <3> QED BY <3>5, <3>6
  <2>5. CASE back = H("overflow") /\ IsValue(m.previous.state)
    <3>1. ~IsValue(back)
      BY <2>5 DEF IsValue, H
    <3>2. CASE m.previous.token # 0
      BY <1>8, <2>2, <2>5, <3>1, <3>2
    <3>3. CASE m.previous.token = 0
      <4>1. n = 1
        <5>1. SUFFICES ASSUME n # 1 PROVE FALSE
          OBVIOUS
        <5>2. n - 1 \in 1 .. Len(open[b]) /\ m.previous.token = open[b][n - 1].token
          <6>1. n - 1 \in 1 .. n
            BY <1>2, <5>1
          <6> HIDE DEF m
          <6> QED BY <1>5, <5>1, <6>1
        <5>3. open[b][n - 1].token \in 1 .. nextToken - 1
          BY <5>2 DEF PnlInv, TokensInOrder
        <5>4. nextToken \in Nat
          BY <1>0 DEF PnlStateOK
        <5> QED BY <3>3, <5>2, <5>3, <5>4
      <4> DEFINE w == [k \in 0 .. 0 |-> H("overflow")]
      <4>2. w \in [0 .. 0 -> States] /\ w[0] = H("overflow")
        BY <1>9, <2>5
      <4> HIDE DEF w
      <4>3. PICK u \in [0 .. 0 -> States] : u[0] = H("overflow")
        BY <4>2
      <4>4. Held(b)' = 0 /\ entry'.state = H("overflow") /\ 1 .. 0 = {}
        BY <1>7, <1>8, <2>5, <4>1
      <4>5. WayBack(b, u)'
        BY <4>3, <4>4 DEF WayBack
      <4> QED BY <4>1, <4>3, <4>5
    <3> QED BY <3>2, <3>3
  <2> QED BY <2>3, <2>4, <2>5
<1>16. Recoverable'
  <2>1. ASSUME NEW c \in Batches, open'[c] # <<>>, bpc'[c] # "commit"
        PROVE  standing' = Lost \/ \E way \in [0 .. Held(c)' -> States] : WayBack(c, way)'
    <3>1. c = b
      BY <1>1, <1>7, <2>1
    <3>2. standing = Lost => standing' = Lost
      BY <1>8
    <3> QED BY <1>7, <1>15, <3>1, <3>2
  <2> QED BY <2>1 DEF Recoverable
<1> QED BY <1>10, <1>11, <1>12, <1>13, <1>14, <1>16 DEF PnlInv

LEMMA JudgeStep ==
  ASSUME PnlInv, NEW b \in Batches, JudgeRestored(b)
  PROVE  PnlInv'
<1> DEFINE n == Len(open[b])
<1>0. /\ PnlStateOK /\ LeaseHeld /\ bpc[b] = "judge" /\ NoOwner \notin Batches
  BY AccountPnlAssumption DEF PnlInv, JudgeRestored
<1>1. open[b] # <<>> /\ lease.owner = b /\ open[b] \in Seq(OpenAssertions)
  BY <1>0 DEF LeaseHeld, PnlStateOK
<1>2. /\ \A c \in Batches : c # b => open[c] = <<>>
      /\ \A r \in Reports : rpc[r] # "locked" /\ r # b
      /\ lease.depth = n /\ b # NoOwner
  BY <1>1, OneBatch
<1>3. /\ open' = [open EXCEPT ![b] = Front(open[b])] /\ lease' = Released(lease, b)
      /\ bpc' = [bpc EXCEPT ![b] = "rollback"] /\ UNCHANGED <<entry, nextToken, rpc, task, standing>>
  BY DEF JudgeRestored, report
<1>4. n \in Nat /\ n >= 1
  BY <1>1, EmptySeq
<1>5. /\ Front(open[b]) \in Seq(OpenAssertions) /\ Len(Front(open[b])) = n - 1
      /\ \A k \in 1 .. n - 1 : Front(open[b])[k] = open[b][k]
  <2>1. \A k \in 1 .. n - 1 : open[b][k] \in OpenAssertions /\ 1 + k - 1 = k
    BY <1>1, <1>4
  <2>2. Front(open[b]) = SubSeq(open[b], 1, n - 1)
    BY DEF Front
  <2>3. SubSeq(open[b], 1, n - 1) = [k \in 1 .. n - 1 |-> open[b][k]]
    BY <1>1, <1>4, <2>1
  <2> QED BY <1>4, <2>1, <2>2, <2>3
<1>6. open' \in [Batches -> Seq(OpenAssertions)] /\ open'[b] = Front(open[b])
      /\ \A c \in Batches : c # b => open'[c] = <<>>
  BY <1>0, <1>2, <1>3, <1>5 DEF PnlStateOK
<1>7. bpc'[b] = "rollback" /\ \A c \in Batches : c # b => bpc'[c] = bpc[c]
  BY <1>0, <1>3 DEF PnlStateOK
<1>8. Held(b) = n - 1 /\ Held(b)' = n - 1
  BY <1>0, <1>5, <1>6, <1>7 DEF Held
<1> HIDE DEF n
<1>9. entry.token = (IF n - 1 = 0 THEN 0 ELSE open[b][n - 1].token)
  BY <1>1, <1>8 DEF PnlInv, TopToken
<1>10. standing = Lost \/ \E way \in [0 .. n - 1 -> States] :
          /\ way[n - 1] = entry.state /\ (way[0] = standing \/ way[0] = H("overflow"))
          /\ \A k \in 1 .. n - 1 : IsValue(way[k]) /\ way[k - 1] = TakenBack(open[b][k], way[k])
  <2>1. standing = Lost \/ \E way \in [0 .. Held(b) -> States] : WayBack(b, way)
    BY <1>0, <1>1 DEF PnlInv, Recoverable
  <2> QED BY <1>8, <2>1 DEF WayBack
<1>11. PnlStateOK'
  BY <1>0, <1>3, <1>6 DEF PnlStateOK
<1>12. CASE n = 1
  <2>1. open'[b] = <<>> /\ \A c \in Batches : open'[c] = <<>>
    BY <1>5, <1>6, <1>12, EmptySeq
  <2>2. lease' = Free
    BY <1>1, <1>2, <1>3, <1>12 DEF Released
  <2>3. LeaseHeld'
    BY <1>0, <1>1, <1>2, <1>3, <1>7, <2>1, <2>2, AccountPnlAssumption DEF LeaseHeld, Free
  <2>4. TokensInOrder' /\ Recoverable'
    BY <2>1 DEF TokensInOrder, Recoverable
  <2>5. entry.state = standing \/ entry.state = H("overflow") \/ standing = Lost
    BY <1>10, <1>12
  <2>6. TopToken' /\ RollbackExact'
    BY <1>3, <1>9, <1>12, <2>1, <2>5 DEF TopToken, RollbackExact
  <2> QED BY <1>11, <2>3, <2>4, <2>6 DEF PnlInv
<1>13. CASE n # 1
  <2>1. lease' = [lease EXCEPT !.depth = lease.depth - 1]
    BY <1>1, <1>2, <1>3, <1>13 DEF Released
  <2>2. /\ lease' \in [owner : Batches \cup Reports \cup {NoOwner}, depth : Nat]
        /\ lease'.owner = b /\ lease'.depth = n - 1
    BY <1>0, <1>1, <1>2, <1>4, <2>1 DEF LeaseHeld
  <2>3. Len(open'[b]) = n - 1 /\ open'[b] # <<>>
    BY <1>4, <1>5, <1>6, <1>13, EmptySeq
  <2>4. LeaseHeld'
    BY <1>0, <1>2, <1>3, <1>6, <1>7, <2>2, <2>3 DEF LeaseHeld
  <2>5. TokensInOrder'
    <3>1. ASSUME NEW k \in 1 .. n - 1
          PROVE  /\ open'[b][k].token \in 1 .. nextToken' - 1
                 /\ \A j \in 1 .. k - 1 : open'[b][j].token < open'[b][k].token
                 /\ open'[b][k].previous.token = IF k = 1 THEN 0 ELSE open'[b][k - 1].token
                 /\ IsValue(open'[b][k].asserted)
      <4>1. k \in 1 .. n /\ \A j \in 1 .. k - 1 : j \in 1 .. n - 1
        BY <1>4
      <4>2. open'[b][k] = open[b][k] /\ \A j \in 1 .. k - 1 : open'[b][j] = open[b][j]
        BY <1>5, <1>6, <4>1
      <4>3. k # 1 => k - 1 \in 1 .. k - 1
        BY <4>1
      <4>4. /\ open[b][k].token \in 1 .. nextToken - 1
            /\ \A j \in 1 .. k - 1 : open[b][j].token < open[b][k].token
            /\ open[b][k].previous.token = IF k = 1 THEN 0 ELSE open[b][k - 1].token
            /\ IsValue(open[b][k].asserted)
        BY <1>0, <4>1 DEF PnlInv, TokensInOrder, n
      <4>5. open'[b][k].previous.token = IF k = 1 THEN 0 ELSE open'[b][k - 1].token
        BY <4>2, <4>3, <4>4
      <4> QED BY <1>3, <4>2, <4>4, <4>5
    <3>2. \A c \in Batches : c # b => 1 .. Len(open'[c]) = {}
      BY <1>6
    <3> QED BY <2>3, <3>1, <3>2 DEF TokensInOrder
  <2>6. TopToken' /\ RollbackExact'
    <3>1. n - 1 \in 1 .. n - 1 /\ n - 1 # 0
      BY <1>4, <1>13
    <3>2. open'[b][n - 1] = open[b][n - 1]
      BY <1>5, <1>6, <3>1
    <3> QED BY <1>3, <1>6, <1>8, <1>9, <2>2, <3>1, <3>2 DEF TopToken, RollbackExact
  <2>7. Recoverable'
    <3>1. ASSUME standing # Lost PROVE \E way \in [0 .. n - 1 -> States] : WayBack(b, way)'
      <4>1. PICK way \in [0 .. n - 1 -> States] :
          /\ way[n - 1] = entry.state /\ (way[0] = standing \/ way[0] = H("overflow"))
          /\ \A k \in 1 .. n - 1 : IsValue(way[k]) /\ way[k - 1] = TakenBack(open[b][k], way[k])
        BY <1>10, <3>1
      <4>2. \A k \in 1 .. n - 1 : open'[b][k] = open[b][k]
        BY <1>5, <1>6
      <4>3. WayBack(b, way)'
        BY <1>3, <1>8, <4>1, <4>2 DEF WayBack
      <4> QED BY <4>3
    <3> QED BY <1>3, <1>6, <1>8, <3>1 DEF Recoverable
  <2> QED BY <1>11, <2>4, <2>5, <2>6, <2>7 DEF PnlInv
<1> QED BY <1>12, <1>13

LEMMA PnlInitInv ==
  ASSUME PnlInit
  PROVE  PnlInv
<1>1. /\ entry = [state |-> V(0), token |-> 0] /\ lease = Free /\ nextToken = 1
      /\ standing = V(0) /\ V(0) \in States
      /\ \A b \in Batches : open[b] = <<>> /\ bpc[b] = "idle"
      /\ \A r \in Reports : rpc[r] = "idle"
  BY DEF PnlInit, V, States
<1>2. PnlStateOK
  <2>1. <<>> \in Seq(OpenAssertions) /\ NoTask \in [halt : BOOLEAN, delta : Int]
    BY DEF NoTask
  <2> QED BY <1>1, <2>1 DEF PnlInit, PnlStateOK
<1>3. LeaseHeld
  BY <1>1, AccountPnlAssumption DEF LeaseHeld, Free
<1>4. TokensInOrder /\ Recoverable /\ TopToken /\ RollbackExact
  BY <1>1 DEF TokensInOrder, Recoverable, TopToken, RollbackExact
<1> QED BY <1>2, <1>3, <1>4 DEF PnlInv

LEMMA PnlNextInv ==
  ASSUME PnlInv, Numeric, [PnlNext]_pnlVars
  PROVE  PnlInv'
<1>1. ASSUME NEW r \in Reports, ReportNext(r) PROVE PnlInv'
  <2>1. ASSUME NEW d \in Deltas, ApplyDelta(r, d) PROVE PnlInv'
    BY <2>1, AccountPnlAssumption, DeltaStep
  <2> QED BY <1>1, <2>1, LeaseStep, QuietSteps DEF ReportNext
<1>2. ASSUME NEW b \in Batches, BatchNext(b) PROVE PnlInv'
  BY <1>2, AssertStep, CommitStep, RollbackStep, JudgeStep, QuietSteps DEF BatchNext
<1>3. CASE Exhausted \/ UNCHANGED pnlVars
  BY <1>3, QuietSteps DEF Exhausted
<1> QED BY <1>1, <1>2, <1>3 DEF PnlNext

\* A rejected batch takes back exactly its own assertions (rollback.rs:174-232):
\* for any batches, reports, deltas and range, as long as what is asserted is a
\* value, the account PnL is what the reports and the committed assertions made
\* it whenever no assertion is open, unless a sum on the way back overflowed.
THEOREM RollbacksAreExact == Numeric => (PnlSpec => []RollbackExact)
<1> SUFFICES ASSUME Numeric PROVE PnlSpec => []RollbackExact
  OBVIOUS
<1>1. PnlInv => RollbackExact
  BY DEF PnlInv
<1>2. PnlInv /\ [PnlNext]_pnlVars => PnlInv'
  BY PnlNextInv
<1> QED BY <1>1, <1>2, PnlInitInv, PTL DEF PnlSpec
=============================================================================
