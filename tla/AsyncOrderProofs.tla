--------------------------- MODULE AsyncOrderProofs ---------------------------
(***************************************************************************)
(* The Go asynchronous engine: the calls of a key take effect in the order *)
(* they were made in, and the engine implements KeyedExecutor.             *)
(***************************************************************************)
EXTENDS AsyncEngineProofs

(* The order of effects: a lane by itself. *)

Counts == [Nat -> Nat]

LEMMA EntryParts ==
  ASSUME NEW p \in LaneRecords
  PROVE  /\ p.backlog \in Seq(Entries) /\ Len(p.backlog) \in Nat /\ p.ch \in Seq(Clients) /\ Len(p.ch) \in Nat
         /\ p.settled \in Nat /\ p.admitted \in Nat /\ Tasks(p) \in {0, 1}
         /\ \A i \in 1..Len(p.backlog) :
               /\ p.backlog[i] \in Entries /\ p.backlog[i].cutoff \in Nat /\ p.backlog[i].target \in Nat
               /\ p.backlog[i].fence \in BOOLEAN
         /\ \A i \in 1..Len(p.ch) : p.ch[i] \in Clients
<1>1. p.backlog \in Seq(Entries) /\ p.ch \in Seq(Clients) /\ p.settled \in Nat /\ p.admitted \in Nat
  BY DEF LaneRecords
<1>2. Len(p.backlog) \in Nat /\ Len(p.ch) \in Nat
      /\ (\A i \in 1..Len(p.backlog) : p.backlog[i] \in Entries)
      /\ (\A i \in 1..Len(p.ch) : p.ch[i] \in Clients)
  BY <1>1, LenProperties, ElementOfSeq
<1>3. \A e \in Entries : e.cutoff \in Nat /\ e.target \in Nat /\ e.fence \in BOOLEAN
  BY DEF Entries
<1>4. Tasks(p) \in {0, 1}
  BY DEF Tasks
<1> QED BY <1>1, <1>2, <1>3, <1>4

\* What a step of a lane leaves of d, and keeps of c's place behind it.
Orderly(p, o, q, o2, c, d) ==
    /\ NotOwed(p, d) => NotOwed(q, d)
    /\ Unbarred(p, d) => Unbarred(q, d)
    /\ InChannel(p, c, d) => InChannel(q, c, d)
    /\ InBacklog(p, o, c, d) => InBacklog(q, o2, c, d)
    /\ OnLane(q, d) => OnLane(p, d)

\* Neither what is queued nor what is settled changes.
SameQueue(p, q) ==
    /\ q.ch = p.ch /\ q.backlog = p.backlog /\ q.settled = p.settled
    /\ q.worker = "task" <=> p.worker = "task"
    /\ q.worker = "task" => q.cur = p.cur

LEMMA WaitsStill ==
  ASSUME NEW p, NEW q, q.settled = p.settled, Tasks(q) = Tasks(p), p.settled \in Nat, Tasks(p) \in Nat,
         NEW o \in Counts, NEW o2 \in Counts, \A n \in Nat : o2[n] <= o[n],
         NEW e \in Entries, NEW i \in Nat, Waits(p, o, e, i)
  PROVE  Waits(q, o2, e, i)
<1> DEFINE s == p.settled
           t == Tasks(p)
           a == o[e.cutoff]
           b == o2[e.cutoff]
           g == e.target
<1>1. s \in Nat /\ t \in Nat /\ a \in Nat /\ b \in Nat /\ g \in Nat /\ b <= a /\ s + i + t + a <= g
  BY DEF Waits, Counts, Entries
<1>2. q.settled = s /\ Tasks(q) = t
  OBVIOUS
<1>3. s + i + t + b <= g
  <2> HIDE DEF s, t, a, b, g
  <2> QED BY <1>1
<1> QED BY <1>2, <1>3 DEF Waits

LEMMA QueueKept ==
  ASSUME NEW p \in LaneRecords, NEW q \in LaneRecords, SameQueue(p, q),
         NEW o \in Counts, NEW o2 \in Counts, \A n \in Nat : o2[n] <= o[n], NEW c, NEW d,
         q.cur = d => p.cur = d
  PROVE  Orderly(p, o, q, o2, c, d)
<1>1. (NotOwed(p, d) <=> NotOwed(q, d)) /\ (Unbarred(p, d) => Unbarred(q, d))
  BY DEF NotOwed, Unbarred, SameQueue
<1>2. InChannel(p, c, d) => InChannel(q, c, d)
  BY <1>1 DEF InChannel, SameQueue
<1>3. ASSUME InBacklog(p, o, c, d) PROVE InBacklog(q, o2, c, d)
  <2> SUFFICES ASSUME NEW j \in 1..Len(p.backlog), p.backlog[j].task = c
               PROVE  /\ \A i \in 1..Len(p.backlog) : p.backlog[i].task = d => i < j
                      /\ \A i \in 1..Len(p.ch) : p.ch[i] = d => Waits(q, o2, p.backlog[j], i)
                      /\ q.worker = "task" /\ q.cur = d => Waits(q, o2, p.backlog[j], 0)
    BY DEF InBacklog, SameQueue
  <2> DEFINE e == p.backlog[j]
  <2>1. e \in Entries /\ p.settled \in Nat /\ Tasks(p) \in Nat /\ Tasks(q) = Tasks(p) /\ q.settled = p.settled
        /\ Len(p.ch) \in Nat
    BY EntryParts DEF SameQueue, Tasks
  <2>2. \A i \in Nat : Waits(p, o, e, i) => Waits(q, o2, e, i)
    <3> HIDE DEF e
    <3> QED BY <2>1, WaitsStill
  <2>3. /\ \A i \in 1..Len(p.backlog) : p.backlog[i].task = d => i < j
        /\ \A i \in 1..Len(p.ch) : p.ch[i] = d => Waits(p, o, e, i)
        /\ p.worker = "task" /\ p.cur = d => Waits(p, o, e, 0)
    BY <1>3 DEF InBacklog
  <2> QED BY <2>1, <2>2, <2>3 DEF SameQueue
<1>4. OnLane(q, d) => OnLane(p, d)
  BY DEF OnLane, HasTask, SameQueue
<1> QED BY <1>1, <1>2, <1>3, <1>4 DEF Orderly

\* An entry is appended: it waits for everything that is in the channel.
LEMMA Appended ==
  ASSUME NEW p \in LaneRecords, NEW t \in Clients \cup Admins, NEW f \in BOOLEAN,
         NEW q, q = enqueueMandatory(p, t, f)
  PROVE  /\ q.backlog = Append(p.backlog, [task |-> t, cutoff |-> p.admitted,
                                           target |-> p.admitted, fence |-> f])
         /\ q.admitted = p.admitted
BY DEF enqueueMandatory, LaneRecords

LEMMA EnqueueKeepsOrder ==
  ASSUME NEW p \in LaneRecords, NEW t \in Clients \cup Admins, NEW f \in BOOLEAN,
         NEW q, q = enqueueMandatory(p, t, f), NEW o \in Counts, NEW c, NEW d, t # d,
         p.settled + Len(p.ch) + Tasks(p) + o[p.admitted] <= p.admitted
  PROVE  Orderly(p, o, q, o, c, d)
<1> DEFINE e == [task |-> t, cutoff |-> p.admitted, target |-> p.admitted, fence |-> f]
           n == Len(p.backlog)
<1>1. /\ q \in LaneRecords /\ q.ch = p.ch /\ q.cur = p.cur /\ q.worker = p.worker /\ q.settled = p.settled
  BY Enqueued
<1>2. q.backlog = Append(p.backlog, e) /\ e \in Entries /\ e.task = t /\ e.cutoff = p.admitted /\ e.target = p.admitted
  BY Appended, EntryParts DEF Entries
<1>3. p.backlog \in Seq(Entries) /\ n \in Nat /\ p.settled \in Nat /\ Tasks(p) \in Nat /\ Len(p.ch) \in Nat
      /\ p.admitted \in Nat /\ o[p.admitted] \in Nat
  BY EntryParts DEF Counts
<1>4. n = Len(p.backlog)
  OBVIOUS
<1> HIDE DEF e, n
<1>5. Len(q.backlog) = n + 1 /\ q.backlog[n + 1] = e /\ \A i \in 1..n : q.backlog[i] = p.backlog[i]
  BY <1>2, <1>3, <1>4, AppendProperties
<1>6. \A i \in 1..Len(q.backlog) : i \in 1..n \/ i = n + 1
  BY <1>3, <1>5
<1>7. \A i \in 1..Len(q.backlog) : q.backlog[i].task = d => i \in 1..n /\ p.backlog[i].task = d
  BY <1>2, <1>5, <1>6
<1>8. (NotOwed(p, d) => NotOwed(q, d)) /\ (Unbarred(p, d) => Unbarred(q, d))
  <2>1. \A i \in 1..n : 1..i \subseteq 1..n
    BY <1>3
  <2> QED BY <1>4, <1>5, <1>7, <2>1 DEF NotOwed, Unbarred
<1>9. InChannel(p, c, d) => InChannel(q, c, d)
  BY <1>1, <1>8 DEF InChannel
<1>10. ASSUME InBacklog(p, o, c, d) PROVE InBacklog(q, o, c, d)
  <2> SUFFICES ASSUME NEW j \in 1..Len(q.backlog), q.backlog[j].task = c
               PROVE  /\ \A i \in 1..Len(q.backlog) : q.backlog[i].task = d => i < j
                      /\ \A i \in 1..Len(q.ch) : q.ch[i] = d => Waits(q, o, q.backlog[j], i)
                      /\ q.worker = "task" /\ q.cur = d => Waits(q, o, q.backlog[j], 0)
    BY DEF InBacklog
  <2>0. \A x, i : Waits(q, o, x, i) <=> Waits(p, o, x, i)
    BY <1>1 DEF Waits, Tasks
  <2>1. CASE j \in 1..n
    <3>1. q.backlog[j] = p.backlog[j] /\ p.backlog[j].task = c
      BY <2>1, <1>5
    <3> QED BY <2>0, <2>1, <3>1, <1>1, <1>4, <1>7, <1>10 DEF InBacklog
  <2>2. CASE j = n + 1
    <3>1. \A i \in 1..Len(q.backlog) : q.backlog[i].task = d => i < j
      BY <2>2, <1>3, <1>7
    <3>2. \A i \in Nat : i <= Len(p.ch) => p.settled + i + Tasks(p) + o[p.admitted] <= p.admitted
      <4> DEFINE s == p.settled
                 h == Len(p.ch)
                 u == Tasks(p)
                 w == o[p.admitted]
                 a == p.admitted
      <4>1. s \in Nat /\ h \in Nat /\ u \in Nat /\ w \in Nat /\ a \in Nat /\ s + h + u + w <= a
        BY <1>3
      <4>2. \A i \in Nat : i <= h => s + i + u + w <= a
        <5> HIDE DEF s, h, u, w, a
        <5> QED BY <4>1
      <4> QED BY <4>2
    <3>3. \A i \in Nat : i <= Len(p.ch) => Waits(p, o, e, i)
      BY <3>2, <1>2 DEF Waits
    <3>4. 0 \in Nat /\ 0 <= Len(p.ch) /\ \A i \in 1..Len(q.ch) : i \in Nat /\ i <= Len(p.ch)
      BY <1>1, <1>3
    <3> QED BY <2>0, <2>2, <3>1, <3>3, <3>4, <1>5
  <2> QED BY <2>1, <2>2, <1>6
<1>11. OnLane(q, d) => OnLane(p, d)
  BY <1>1, <1>4, <1>7 DEF OnLane, HasTask
<1> QED BY <1>8, <1>9, <1>10, <1>11 DEF Orderly

\* The same tasks in the same places; what waits goes on waiting.
LEMMA PlacesKept ==
  ASSUME NEW p \in LaneRecords, NEW q \in LaneRecords, NEW o, NEW o2, NEW c, NEW d,
         q.ch = p.ch, Len(q.backlog) = Len(p.backlog), q.cur = p.cur, q.worker = p.worker,
         \A i \in 1..Len(p.backlog) : /\ q.backlog[i].task = p.backlog[i].task
                                      /\ q.backlog[i].fence => p.backlog[i].fence,
         \A j \in 1..Len(p.backlog), i \in 0..Len(p.ch) :
             Waits(p, o, p.backlog[j], i) => Waits(q, o2, q.backlog[j], i)
  PROVE  Orderly(p, o, q, o2, c, d)
<1>0. Len(p.backlog) \in Nat /\ Len(p.ch) \in Nat
  BY EntryParts
<1>1. (NotOwed(p, d) => NotOwed(q, d)) /\ (Unbarred(p, d) => Unbarred(q, d))
  <2>1. \A i \in 1..Len(p.backlog) : 1..i \subseteq 1..Len(p.backlog)
    BY <1>0
  <2> QED BY <2>1 DEF NotOwed, Unbarred
<1>2. InChannel(p, c, d) => InChannel(q, c, d)
  BY <1>1 DEF InChannel
<1>3. ASSUME InBacklog(p, o, c, d) PROVE InBacklog(q, o2, c, d)
  <2>1. 0 \in 0..Len(p.ch) /\ \A i \in 1..Len(p.ch) : i \in 0..Len(p.ch)
    BY <1>0
  <2> QED BY <1>3, <2>1 DEF InBacklog
<1>4. OnLane(q, d) => OnLane(p, d)
  BY DEF OnLane, HasTask
<1> QED BY <1>1, <1>2, <1>3, <1>4 DEF Orderly

\* unmarkSent: the ticket that is given up was counted by the entries behind
\* it, and raises the target of the others.
LEMMA UnmarkKeepsOrder ==
  ASSUME NEW p \in LaneRecords, NEW t \in Nat, NEW q, q = unmarkSent(p, t), NEW c, NEW d,
         NEW o \in Counts, NEW o2 \in Counts,
         \A n \in Nat : o2[n] + (IF t <= n THEN 1 ELSE 0) = o[n]
  PROVE  Orderly(p, o, q, o2, c, d)
<1>1. /\ q \in LaneRecords /\ q.ch = p.ch /\ q.cur = p.cur /\ q.worker = p.worker
      /\ Len(q.backlog) = Len(p.backlog)
  BY Unmarked
<1>2. Len(p.backlog) \in Nat /\ DOMAIN p.backlog = 1..Len(p.backlog)
  BY EntryParts, LenProperties DEF LaneRecords
<1>3. /\ q.settled = p.settled + 1
      /\ q.backlog = [i \in DOMAIN p.backlog |->
                         IF t > p.backlog[i].cutoff THEN [p.backlog[i] EXCEPT !.target = @ + 1]
                                                    ELSE p.backlog[i]]
  BY DEF unmarkSent, LaneRecords
<1>4. ASSUME NEW i \in 1..Len(p.backlog)
      PROVE  /\ q.backlog[i].task = p.backlog[i].task /\ q.backlog[i].fence = p.backlog[i].fence
             /\ q.backlog[i].cutoff = p.backlog[i].cutoff
             /\ q.backlog[i].target = IF t > p.backlog[i].cutoff THEN p.backlog[i].target + 1 ELSE p.backlog[i].target
  <2> DEFINE e == p.backlog[i]
  <2>1. e \in Entries
    BY EntryParts
  <2>2. q.backlog[i] = IF t > e.cutoff THEN [e EXCEPT !.target = @ + 1] ELSE e
    BY <1>2, <1>3
  <2> HIDE DEF e
  <2>3. q.backlog[i].task = e.task /\ q.backlog[i].fence = e.fence /\ q.backlog[i].cutoff = e.cutoff
        /\ q.backlog[i].target = IF t > e.cutoff THEN e.target + 1 ELSE e.target
    BY <2>1, <2>2 DEF Entries
  <2> QED BY <2>3 DEF e
<1>5. ASSUME NEW j \in 1..Len(p.backlog), NEW i \in 0..Len(p.ch), Waits(p, o, p.backlog[j], i)
      PROVE  Waits(q, o2, q.backlog[j], i)
  <2> DEFINE e == p.backlog[j]
             f == q.backlog[j]
             s == p.settled
             u == Tasks(p)
             n == e.cutoff
             g == e.target
             a == o[n]
             b == o2[n]
  <2>1. e.cutoff \in Nat /\ e.target \in Nat /\ s \in Nat /\ u \in Nat /\ i \in Nat
    BY EntryParts
  <2>2. f.cutoff = n /\ f.target = IF t > n THEN g + 1 ELSE g
    BY <1>4
  <2>3. a \in Nat /\ b \in Nat /\ b + (IF t <= n THEN 1 ELSE 0) = a
    BY <2>1 DEF Counts
  <2>4. s + i + u + a <= g
    BY <1>5 DEF Waits
  <2>5. Tasks(q) = u
    BY <1>1 DEF Tasks
  <2>6. (s + 1) + i + u + b <= IF t > n THEN g + 1 ELSE g
    <3> HIDE DEF e, f, s, u, a, b, g
    <3>1. n \in Nat /\ g \in Nat
      BY <2>1 DEF g
    <3> HIDE DEF n
    <3> QED BY <2>1, <2>3, <2>4, <3>1
  <2> QED BY <2>2, <2>5, <2>6, <1>3 DEF Waits
<1> QED BY <1>1, <1>4, <1>5, PlacesKept

\* admitTask: no entry waits for the new ticket.
LEMMA AdmitKeepsOrder ==
  ASSUME NEW p \in LaneRecords, NEW q \in LaneRecords, NEW c, NEW d,
         q.ch = p.ch, q.backlog = p.backlog, q.cur = p.cur, q.worker = p.worker, q.settled = p.settled,
         NEW o \in Counts, NEW o2 \in Counts,
         \A n \in Nat : n <= p.admitted => o2[n] = o[n],
         \A i \in 1..Len(p.backlog) : p.backlog[i].cutoff <= p.admitted
  PROVE  Orderly(p, o, q, o2, c, d)
<1>1. ASSUME NEW j \in 1..Len(p.backlog) PROVE o2[p.backlog[j].cutoff] = o[p.backlog[j].cutoff]
  BY EntryParts
<1> QED BY <1>1, PlacesKept DEF Waits, Tasks

\* The head that waited for the submit fence now waits for all that was
\* admitted.
LEMMA FenceKeepsOrder ==
  ASSUME NEW p \in LaneRecords, NEW q, q = PassedFence(p), NEW c, NEW d,
         NEW o \in Counts, NEW o2 \in Counts, \A n \in Nat : o2[n] <= o[n],
         p.settled + Len(p.ch) + Tasks(p) + o2[p.admitted] <= p.admitted
  PROVE  Orderly(p, o, q, o2, c, d) /\ q.settled = p.settled /\ q.admitted = p.admitted
         /\ \A i \in 1..Len(p.backlog) : q.backlog[i] = p.backlog[i] \/ q.backlog[i].cutoff = p.admitted
<1>1. /\ q \in LaneRecords /\ q.ch = p.ch /\ q.cur = p.cur /\ q.worker = p.worker
      /\ Len(q.backlog) = Len(p.backlog)
      /\ \A i \in 1..Len(p.backlog) : q.backlog[i].task = p.backlog[i].task
  BY Fenced
<1>2. q.settled = p.settled /\ q.admitted = p.admitted /\ Tasks(q) = Tasks(p)
  <2>1. \A b : LET r == [p EXCEPT !.backlog = b] IN r.settled = p.settled /\ r.admitted = p.admitted
    BY DEF LaneRecords
  <2> QED BY <1>1, <2>1 DEF PassedFence, Tasks
<1>3. ASSUME NEW j \in 1..Len(p.backlog)
      PROVE  \/ q.backlog[j] = p.backlog[j]
             \/ ~q.backlog[j].fence /\ q.backlog[j].cutoff = p.admitted /\ q.backlog[j].target = p.admitted
  <2> DEFINE e == p.backlog[1]
             b == [p.backlog EXCEPT ![1] = [e EXCEPT !.fence = FALSE, !.cutoff = p.admitted, !.target = p.admitted]]
  <2>1. CASE q = p
    BY <2>1
  <2>2. CASE q = [p EXCEPT !.backlog = b]
    <3>1. q.backlog = b
      BY <2>2 DEF LaneRecords
    <3>2. p.backlog \in Seq(Entries) /\ DOMAIN p.backlog = 1..Len(p.backlog) /\ Len(p.backlog) \in Nat
      BY EntryParts, LenProperties
    <3>3. e \in Entries
      BY <3>2, EntryParts
    <3>4. CASE j = 1
      <4>1. q.backlog[j] = [e EXCEPT !.fence = FALSE, !.cutoff = p.admitted, !.target = p.admitted]
        BY <3>1, <3>2, <3>4
      <4> HIDE DEF e
      <4> QED BY <4>1, <3>3 DEF Entries
    <3>5. CASE j # 1
      BY <3>1, <3>2, <3>5
    <3> QED BY <3>4, <3>5
  <2>3. q = p \/ q = [p EXCEPT !.backlog = b]
    BY DEF PassedFence
  <2> QED BY <2>1, <2>2, <2>3
<1>4. ASSUME NEW j \in 1..Len(p.backlog), NEW i \in 0..Len(p.ch), Waits(p, o, p.backlog[j], i)
      PROVE  Waits(q, o2, q.backlog[j], i)
  <2>0. p.settled \in Nat /\ Tasks(p) \in Nat /\ p.backlog[j] \in Entries /\ i \in Nat /\ Len(p.ch) \in Nat
        /\ i <= Len(p.ch) /\ p.admitted \in Nat /\ o2[p.admitted] \in Nat
    <3>1. p.settled \in Nat /\ Tasks(p) \in {0, 1} /\ p.backlog[j] \in Entries /\ Len(p.ch) \in Nat /\ p.admitted \in Nat
      BY EntryParts
    <3>2. o2[p.admitted] \in Nat
      BY <3>1 DEF Counts
    <3> QED BY <3>1, <3>2
  <2>1. CASE q.backlog[j] = p.backlog[j]
    BY <1>2, <1>4, <2>0, <2>1, WaitsStill
  <2>2. CASE q.backlog[j].cutoff = p.admitted /\ q.backlog[j].target = p.admitted
    <3> DEFINE s == p.settled
               u == Tasks(p)
               h == Len(p.ch)
               a == p.admitted
               w == o2[p.admitted]
    <3>1. s + i + u + w <= a
      <4>1. s \in Nat /\ u \in Nat /\ h \in Nat /\ a \in Nat /\ w \in Nat /\ i \in Nat /\ i <= h /\ s + h + u + w <= a
        BY <2>0
      <4> HIDE DEF s, u, h, a, w
      <4> QED BY <4>1
    <3> QED BY <1>2, <2>2, <3>1 DEF Waits
  <2> QED BY <1>3, <2>1, <2>2
<1>5. \A i \in 1..Len(p.backlog) : q.backlog[i].fence => p.backlog[i].fence
  BY <1>3
<1> QED BY <1>1, <1>2, <1>3, <1>4, <1>5, PlacesKept

\* Neither c nor d has anything on the lane.
LEMMA VacantOrder ==
  ASSUME NEW p, NEW q, NEW o, NEW o2, NEW c, NEW d,
         q.ch = <<>>, q.cur # d, \A i \in 1..Len(q.backlog) : q.backlog[i].task \notin {c, d}
  PROVE  Orderly(p, o, q, o2, c, d)
<1>1. 1..Len(q.ch) = {}
  BY EmptySeq
<1> QED BY <1>1 DEF Orderly, NotOwed, Unbarred, InChannel, InBacklog, OnLane, HasTask

\* The send: behind everything in the channel, and only when d is not owed.
LEMMA SendKeepsOrder ==
  ASSUME NEW p \in LaneRecords, NEW q \in LaneRecords, NEW t \in Clients, NEW c, NEW d, t # d,
         q.ch = Append(p.ch, t), q.backlog = p.backlog, q.cur = p.cur, q.worker = p.worker,
         q.settled = p.settled, t = c => NotOwed(p, d),
         NEW o \in Counts, NEW o2 \in Counts, \A n \in Nat : o2[n] <= o[n]
  PROVE  Orderly(p, o, q, o2, c, d)
<1> DEFINE n == Len(p.ch)
<1>1. p.ch \in Seq(Clients) /\ n \in Nat /\ p.settled \in Nat /\ Tasks(p) \in Nat /\ Tasks(q) = Tasks(p)
  BY EntryParts DEF Tasks
<1>2. Len(q.ch) = n + 1 /\ q.ch[n + 1] = t /\ \A i \in 1..n : q.ch[i] = p.ch[i]
  BY <1>1, AppendProperties
<1>3. n = Len(p.ch)
  OBVIOUS
<1> HIDE DEF n
<1>4. \A i \in 1..Len(q.ch) : (i \in 1..n \/ i = n + 1) /\ (q.ch[i] = d => i \in 1..n /\ p.ch[i] = d)
  BY <1>1, <1>2
<1>5. (NotOwed(p, d) => NotOwed(q, d)) /\ (Unbarred(p, d) => Unbarred(q, d))
  BY DEF NotOwed, Unbarred
<1>6. ASSUME InChannel(p, c, d) PROVE InChannel(q, c, d)
  <2> SUFFICES ASSUME NEW j \in 1..Len(q.ch), q.ch[j] = c
               PROVE  NotOwed(q, d) /\ \A i \in 1..Len(q.ch) : q.ch[i] = d => i < j
    BY DEF InChannel
  <2>1. CASE j \in 1..n
    <3>1. p.ch[j] = c
      BY <1>2, <2>1
    <3>2. NotOwed(p, d) /\ \A i \in 1..n : p.ch[i] = d => i < j
      BY <1>3, <1>6, <2>1, <3>1 DEF InChannel
    <3> QED BY <1>4, <1>5, <3>2
  <2>2. CASE j = n + 1
    <3>1. NotOwed(p, d)
      BY <1>2, <2>2
    <3>2. \A i \in 1..n : i < j
      BY <1>1, <2>2
    <3> QED BY <1>4, <1>5, <3>1, <3>2
  <2> QED BY <1>4, <2>1, <2>2
<1>7. ASSUME InBacklog(p, o, c, d) PROVE InBacklog(q, o2, c, d)
  <2> SUFFICES ASSUME NEW j \in 1..Len(p.backlog), p.backlog[j].task = c
               PROVE  /\ \A i \in 1..Len(p.backlog) : p.backlog[i].task = d => i < j
                      /\ \A i \in 1..Len(q.ch) : q.ch[i] = d => Waits(q, o2, p.backlog[j], i)
                      /\ q.worker = "task" /\ q.cur = d => Waits(q, o2, p.backlog[j], 0)
    BY DEF InBacklog
  <2> DEFINE e == p.backlog[j]
  <2>1. e \in Entries
    BY EntryParts
  <2>2. \A i \in Nat : Waits(p, o, e, i) => Waits(q, o2, e, i)
    <3> HIDE DEF e
    <3> QED BY <1>1, <2>1, WaitsStill
  <2>3. /\ \A i \in 1..Len(p.backlog) : p.backlog[i].task = d => i < j
        /\ \A i \in 1..n : p.ch[i] = d => Waits(p, o, e, i)
        /\ p.worker = "task" /\ p.cur = d => Waits(p, o, e, 0)
    BY <1>3, <1>7 DEF InBacklog
  <2>4. 0 \in Nat /\ \A i \in 1..n : i \in Nat
    BY <1>1
  <2> QED BY <1>4, <2>2, <2>3, <2>4
<1>8. OnLane(q, d) => OnLane(p, d)
  BY <1>3, <1>4 DEF OnLane, HasTask
<1> QED BY <1>5, <1>6, <1>7, <1>8 DEF Orderly

LEMMA TailEntries ==
  ASSUME NEW S, NEW s \in Seq(S), s # <<>>
  PROVE  /\ Len(s) \in Nat /\ Len(s) >= 1 /\ 1 \in 1..Len(s) /\ Head(s) = s[1]
         /\ Len(Tail(s)) \in Nat /\ Len(Tail(s)) + 1 = Len(s)
         /\ \A i \in 1..Len(Tail(s)) : /\ i \in Nat /\ i >= 1 /\ Tail(s)[i] = s[i + 1]
                                       /\ i + 1 \in 1..Len(s) /\ i \in 1..Len(s)
<1>1. Len(s) \in Nat /\ Len(s) # 0
  BY EmptySeq, LenProperties
<1>2. Head(s) = s[1] /\ Len(Tail(s)) = Len(s) - 1 /\ \A i \in 1..Len(Tail(s)) : Tail(s)[i] = s[i + 1]
  BY HeadTailProperties
<1> HIDE DEF Len, Head, Tail
<1> QED BY <1>1, <1>2

\* The worker takes the head of the backlog.
LEMMA TakeKeepsOrder ==
  ASSUME NEW p \in LaneRecords, NEW q \in LaneRecords, p.backlog # <<>>, NEW c, NEW d,
         q.ch = p.ch, q.backlog = Tail(p.backlog), q.settled = p.settled,
         q.worker # "task", p.worker # "task", q.cur = Head(p.backlog).task, NEW o
  PROVE  Orderly(p, o, q, o, c, d)
<1>1. /\ Len(p.backlog) \in Nat /\ 1 \in 1..Len(p.backlog) /\ Head(p.backlog) = p.backlog[1]
      /\ Len(q.backlog) \in Nat
      /\ \A i \in 1..Len(q.backlog) : /\ i \in Nat /\ i >= 1 /\ q.backlog[i] = p.backlog[i + 1]
                                      /\ i + 1 \in 1..Len(p.backlog)
  BY EntryParts, TailEntries
<1>2. \A e, i : Waits(q, o, e, i) <=> Waits(p, o, e, i)
  BY DEF Waits, Tasks
<1>3. NotOwed(p, d) => NotOwed(q, d)
  BY <1>1 DEF NotOwed
<1>4. ASSUME Unbarred(p, d) PROVE Unbarred(q, d)
  <2> SUFFICES ASSUME NEW i \in 1..Len(q.backlog), q.backlog[i].task = d, NEW j \in 1..i
               PROVE  ~q.backlog[j].fence
    BY DEF Unbarred
  <2>1. i \in Nat /\ i <= Len(q.backlog) /\ j \in 1..Len(q.backlog) /\ j + 1 \in 1..(i + 1)
    BY <1>1
  <2>2. p.backlog[i + 1].task = d /\ i + 1 \in 1..Len(p.backlog) /\ q.backlog[j] = p.backlog[j + 1]
    BY <1>1, <2>1
  <2> QED BY <1>4, <2>1, <2>2 DEF Unbarred
<1>5. InChannel(p, c, d) => InChannel(q, c, d)
  BY <1>3 DEF InChannel
<1>6. ASSUME InBacklog(p, o, c, d) PROVE InBacklog(q, o, c, d)
  <2> SUFFICES ASSUME NEW j \in 1..Len(q.backlog), q.backlog[j].task = c
               PROVE  /\ \A i \in 1..Len(q.backlog) : q.backlog[i].task = d => i < j
                      /\ \A i \in 1..Len(q.ch) : q.ch[i] = d => Waits(q, o, q.backlog[j], i)
    BY DEF InBacklog
  <2>1. j + 1 \in 1..Len(p.backlog) /\ p.backlog[j + 1] = q.backlog[j] /\ j \in Nat
    BY <1>1
  <2>2. /\ \A i \in 1..Len(p.backlog) : p.backlog[i].task = d => i < j + 1
        /\ \A i \in 1..Len(p.ch) : p.ch[i] = d => Waits(p, o, q.backlog[j], i)
    BY <1>6, <2>1 DEF InBacklog
  <2>3. \A i \in 1..Len(q.backlog) : q.backlog[i].task = d => i + 1 < j + 1
    BY <1>1, <2>2
  <2> QED BY <1>1, <1>2, <2>1, <2>2, <2>3
<1>7. OnLane(q, d) => OnLane(p, d)
  <2>1. (\E i \in 1..Len(q.backlog) : q.backlog[i].task = d) => \E i \in 1..Len(p.backlog) : p.backlog[i].task = d
    BY <1>1
  <2>2. q.cur = d => \E i \in 1..Len(p.backlog) : p.backlog[i].task = d
    BY <1>1
  <2> QED BY <2>1, <2>2 DEF OnLane, HasTask
<1> QED BY <1>3, <1>4, <1>5, <1>6, <1>7 DEF Orderly

\* The worker receives the head of the channel.
LEMMA ReceiveKeepsOrder ==
  ASSUME NEW p \in LaneRecords, NEW q \in LaneRecords, p.ch # <<>>, NEW c, NEW d,
         q.ch = Tail(p.ch), q.backlog = p.backlog, q.settled = p.settled,
         q.worker = "task", p.worker # "task", q.cur = Head(p.ch), NEW o \in Counts
  PROVE  Orderly(p, o, q, o, c, d)
<1>1. /\ Len(p.ch) \in Nat /\ 1 \in 1..Len(p.ch) /\ Head(p.ch) = p.ch[1]
      /\ Len(q.ch) \in Nat
      /\ \A i \in 1..Len(q.ch) : /\ i \in Nat /\ i >= 1 /\ q.ch[i] = p.ch[i + 1]
                                 /\ i + 1 \in 1..Len(p.ch)
  BY EntryParts, TailEntries
<1>2. (NotOwed(p, d) => NotOwed(q, d)) /\ (Unbarred(p, d) => Unbarred(q, d))
  BY DEF NotOwed, Unbarred
<1>3. ASSUME InChannel(p, c, d) PROVE InChannel(q, c, d)
  <2> SUFFICES ASSUME NEW j \in 1..Len(q.ch), q.ch[j] = c
               PROVE  NotOwed(q, d) /\ \A i \in 1..Len(q.ch) : q.ch[i] = d => i < j
    BY DEF InChannel
  <2>1. j + 1 \in 1..Len(p.ch) /\ p.ch[j + 1] = c /\ j \in Nat
    BY <1>1
  <2>2. NotOwed(p, d) /\ \A i \in 1..Len(p.ch) : p.ch[i] = d => i < j + 1
    BY <1>3, <2>1 DEF InChannel
  <2>3. \A i \in 1..Len(q.ch) : q.ch[i] = d => i + 1 < j + 1
    BY <1>1, <2>2
  <2> QED BY <1>1, <1>2, <2>1, <2>2, <2>3
<1>4. ASSUME NEW j \in 1..Len(p.backlog), NEW i \in Nat, Waits(p, o, p.backlog[j], i + 1)
      PROVE  Waits(q, o, p.backlog[j], i)
  <2> DEFINE s == p.settled
             a == o[p.backlog[j].cutoff]
             g == p.backlog[j].target
  <2>1. s \in Nat /\ a \in Nat /\ g \in Nat
    BY EntryParts DEF Counts
  <2>2. s + (i + 1) + 0 + a <= g
    BY <1>4 DEF Waits, Tasks
  <2>3. s + i + 1 + a <= g
    <3> HIDE DEF s, a, g
    <3> QED BY <2>1, <2>2
  <2> QED BY <2>3 DEF Waits, Tasks
<1>5. ASSUME InBacklog(p, o, c, d) PROVE InBacklog(q, o, c, d)
  <2> SUFFICES ASSUME NEW j \in 1..Len(p.backlog), p.backlog[j].task = c
               PROVE  /\ \A i \in 1..Len(p.backlog) : p.backlog[i].task = d => i < j
                      /\ \A i \in 1..Len(q.ch) : q.ch[i] = d => Waits(q, o, p.backlog[j], i)
                      /\ q.cur = d => Waits(q, o, p.backlog[j], 0)
    BY DEF InBacklog
  <2>1. /\ \A i \in 1..Len(p.backlog) : p.backlog[i].task = d => i < j
        /\ \A i \in 1..Len(p.ch) : p.ch[i] = d => Waits(p, o, p.backlog[j], i)
    BY <1>5 DEF InBacklog
  <2>2. \A i \in 1..Len(q.ch) : q.ch[i] = d => Waits(p, o, p.backlog[j], i + 1)
    BY <1>1, <2>1
  <2>3. q.cur = d => Waits(p, o, p.backlog[j], 0 + 1)
    BY <1>1, <2>1
  <2> QED BY <1>1, <1>4, <2>1, <2>2, <2>3
<1>6. OnLane(q, d) => OnLane(p, d)
  <2>1. (\E i \in 1..Len(q.ch) : q.ch[i] = d) => \E i \in 1..Len(p.ch) : p.ch[i] = d
    BY <1>1
  <2>2. q.cur = d => \E i \in 1..Len(p.ch) : p.ch[i] = d
    BY <1>1
  <2> QED BY <2>1, <2>2 DEF OnLane, HasTask
<1> QED BY <1>2, <1>3, <1>5, <1>6 DEF Orderly

\* The task under way ends, and is settled if it came through the channel.
LEMMA FinishKeepsOrder ==
  ASSUME NEW p \in LaneRecords, NEW q \in LaneRecords, NEW c, NEW d, d # None,
         q.ch = p.ch, q.backlog = p.backlog, q.worker # "task", q.cur = None,
         q.settled = p.settled + Tasks(p), NEW o \in Counts
  PROVE  Orderly(p, o, q, o, c, d)
<1>1. (NotOwed(p, d) => NotOwed(q, d)) /\ (Unbarred(p, d) => Unbarred(q, d))
  BY DEF NotOwed, Unbarred
<1>2. InChannel(p, c, d) => InChannel(q, c, d)
  BY <1>1 DEF InChannel
<1>3. ASSUME NEW j \in 1..Len(p.backlog), NEW i \in 1..Len(p.ch), Waits(p, o, p.backlog[j], i)
      PROVE  Waits(q, o, p.backlog[j], i)
  <2> DEFINE s == p.settled
             u == Tasks(p)
             a == o[p.backlog[j].cutoff]
             g == p.backlog[j].target
  <2>1. s \in Nat /\ a \in Nat /\ g \in Nat /\ u \in Nat /\ i \in Nat
    <3>1. s \in Nat /\ g \in Nat /\ u \in {0, 1} /\ Len(p.ch) \in Nat /\ p.backlog[j].cutoff \in Nat
      BY EntryParts
    <3>2. a \in Nat
      BY <3>1 DEF Counts
    <3> QED BY <3>1, <3>2
  <2>2. s + i + u + a <= g
    BY <1>3 DEF Waits
  <2>3. (s + u) + i + 0 + a <= g
    <3> HIDE DEF s, u, a, g
    <3> QED BY <2>1, <2>2
  <2>4. Tasks(q) = 0
    BY DEF Tasks
  <2> QED BY <2>3, <2>4 DEF Waits
<1>4. InBacklog(p, o, c, d) => InBacklog(q, o, c, d)
  BY <1>3 DEF InBacklog
<1>5. OnLane(q, d) => OnLane(p, d)
  BY DEF OnLane, HasTask
<1> QED BY <1>1, <1>2, <1>4, <1>5 DEF Orderly

-----------------------------------------------------------------------------
(* Tickets on their way. *)

LEMMA OlderCounts ==
  ASSUME NEW l
  PROVE  /\ Older(l) \in Counts /\ \A n \in Nat : Older(l)[n] <= Cardinality(Sending(l))
         /\ Older(l)' \in Counts /\ \A n \in Nat : Older(l)'[n] <= Cardinality(Sending(l)')
<1>0. IsFiniteSet(Sending(l)) /\ IsFiniteSet(Sending(l)')
  BY SendingFinite
<1>1. ASSUME NEW n \in Nat
      PROVE  LET T == {c \in Sending(l) : ticket[c] <= n}
             IN  Cardinality(T) \in Nat /\ Cardinality(T) <= Cardinality(Sending(l))
  <2>1. {c \in Sending(l) : ticket[c] <= n} \subseteq Sending(l)
    OBVIOUS
  <2> QED BY <1>0, <2>1, FS_Subset, FS_CardinalityType
<1>2. ASSUME NEW n \in Nat
      PROVE  LET T == {c \in Sending(l)' : ticket'[c] <= n}
             IN  Cardinality(T) \in Nat /\ Cardinality(T) <= Cardinality(Sending(l)')
  <2>1. {c \in Sending(l)' : ticket'[c] <= n} \subseteq Sending(l)'
    OBVIOUS
  <2> QED BY <1>0, <2>1, FS_Subset, FS_CardinalityType
<1> QED BY <1>1, <1>2 DEF Older, Counts

LEMMA OlderSame ==
  ASSUME NEW l, Sending(l)' = Sending(l), \A c \in Sending(l) : ticket'[c] = ticket[c]
  PROVE  Older(l)' = Older(l)
<1>1. \A n \in Nat : {c \in Sending(l)' : ticket'[c] <= n} = {c \in Sending(l) : ticket[c] <= n}
  OBVIOUS
<1> QED BY <1>1 DEF Older

LEMMA OlderLeaves ==
  ASSUME NEW l, NEW c \in Sending(l), Sending(l)' = Sending(l) \ {c}, ticket' = ticket
  PROVE  \A n \in Nat : Older(l)'[n] + (IF ticket[c] <= n THEN 1 ELSE 0) = Older(l)[n]
<1> SUFFICES ASSUME NEW n \in Nat
             PROVE  Older(l)'[n] + (IF ticket[c] <= n THEN 1 ELSE 0) = Older(l)[n]
  OBVIOUS
<1> DEFINE S == {d \in Sending(l) : ticket[d] <= n}
           T == {d \in Sending(l)' : ticket'[d] <= n}
<1>1. Older(l)[n] = Cardinality(S) /\ Older(l)'[n] = Cardinality(T)
  BY DEF Older
<1>2. IsFiniteSet(S) /\ Cardinality(S) \in Nat
  <2>1. S \subseteq Sending(l) /\ IsFiniteSet(Sending(l))
    BY SendingFinite
  <2> QED BY <2>1, FS_Subset, FS_CardinalityType
<1>3. T = S \ {c} /\ (c \in S <=> ticket[c] <= n)
  OBVIOUS
<1> HIDE DEF S, T
<1>4. Cardinality(T) = IF c \in S THEN Cardinality(S) - 1 ELSE Cardinality(S)
  BY <1>2, <1>3, FS_RemoveElement
<1> QED BY <1>1, <1>2, <1>3, <1>4

LEMMA OlderJoins ==
  ASSUME NEW l, NEW c, Sending(l)' = Sending(l) \cup {c}, NEW m \in Nat, ticket'[c] = m + 1,
         \A d \in Sending(l) : ticket'[d] = ticket[d], c \notin Sending(l)
  PROVE  \A n \in Nat : n <= m => Older(l)'[n] = Older(l)[n]
<1> SUFFICES ASSUME NEW n \in Nat, n <= m PROVE  Older(l)'[n] = Older(l)[n]
  OBVIOUS
<1>1. ~(ticket'[c] <= n)
  OBVIOUS
<1>2. {d \in Sending(l)' : ticket'[d] <= n} = {d \in Sending(l) : ticket[d] <= n}
  BY <1>1
<1> QED BY <1>2 DEF Older

\* What TicketsAt says of a lane is enough for a new entry to wait for
\* everything there.
LEMMA TicketRoom ==
  ASSUME NEW l, lane[l] \in LaneRecords, TicketsAt(l)
  PROVE  lane[l].settled + Len(lane[l].ch) + Tasks(lane[l]) + Older(l)[lane[l].admitted] <= lane[l].admitted
<1> DEFINE p == lane[l]
           w == Older(l)[p.admitted]
           k == Cardinality(Sending(l))
           h == Len(p.ch)
           u == Tasks(p)
<1>1. p.settled \in Nat /\ h \in Nat /\ u \in Nat /\ p.admitted \in Nat
  BY EntryParts
<1>2. w \in Nat /\ k \in Nat /\ w <= k
  BY <1>1, OlderCounts, SendingFinite DEF Counts
<1>3. p.admitted = p.settled + k + h + u
  BY DEF TicketsAt
<1>4. p.settled + h + u + w <= p.admitted
  <2> HIDE DEF p, w, k, h, u
  <2> QED BY <1>1, <1>2, <1>3
<1> QED BY <1>4

-----------------------------------------------------------------------------
(* What a step must keep of the order. *)

\* d returned before c began and is not yet done.
Awaits(c, d) ==
    /\ c \in Clients /\ d \in Clients /\ d \in earlier[c] /\ d \notin finished
    /\ pc[d] = "done" /\ d \in accepted \cup Owners /\ RouteOf[d] = RouteOf[c]
    /\ Behind(c, d)

HeldKept ==
    \A d \in Clients, x \in Admins : Postponed(sec[x], d) /\ KeyHeld(d, x) => KeyHeld(d, x)'

OnWayKept(c, d) ==
    /\ pc'[c] = "lifecycle" => pc[c] = "lifecycle" \/ OffLanes(d)
    /\ pc'[c] \in {"admit", "send", "blocked"} =>
           pc[c] \in {"admit", "send", "blocked"} \/ \A l \in Lanes : NotOwed(lane[l], d)
    /\ pc'[c] \notin {"idle", "done"} /\ phase'[c] = "submit" =>
           pc[c] \notin {"idle", "done"} /\ phase[c] = "submit"

LanesOrdered(c, d) == \A l \in Lanes : Orderly(lane[l], Older(l), lane'[l], Older(l)', c, d)

SectionsOrdered(c, d) ==
    \A x \in Admins : /\ InSection(sec'[x], c, d)
                      /\ Postponed(sec'[x], c) => Postponed(sec[x], c) \/ OffLanes(d)

PairKept(c, d) ==
    /\ starts'[c] = starts[c] /\ LanesOrdered(c, d) /\ SectionsOrdered(c, d) /\ OnWayKept(c, d)

LEMMA BehindKept ==
  ASSUME NEW c \in Clients, NEW d \in Clients, Behind(c, d), PairKept(c, d), HeldKept,
         \A x \in Admins : Postponed(sec'[x], d) => Postponed(sec[x], d)
  PROVE  Behind(c, d)'
<1>1. starts'[c] = 0
  BY DEF Behind, PairKept
<1>2. \A l \in Lanes : Orderly(lane[l], Older(l), lane'[l], Older(l)', c, d)
  BY DEF PairKept, LanesOrdered
<1>3. \A l \in Lanes : InChannel(lane'[l], c, d) /\ InBacklog(lane'[l], Older(l)', c, d)
  BY <1>2 DEF Behind, Orderly
<1>4. OffLanes(d) => OffLanes(d)'
  BY <1>2 DEF OffLanes, Orderly
<1>5. \A x \in Admins : /\ InSection(sec'[x], c, d)
                        /\ Postponed(sec'[x], c) => OffLanes(d)'
  BY <1>4 DEF PairKept, SectionsOrdered, Behind
<1>6. \A x \in Admins : Postponed(sec'[x], d) => KeyHeld(d, x)'
  BY DEF HeldKept, Behind
<1>7. pc'[c] = "lifecycle" => OffLanes(d)'
  BY <1>4 DEF PairKept, OnWayKept, Behind, OnItsWay
<1>8. pc'[c] \in {"admit", "send", "blocked"} => \A l \in Lanes : NotOwed(lane'[l], d)
  BY <1>2 DEF PairKept, OnWayKept, Behind, OnItsWay, Orderly
<1>9. pc'[c] \notin {"idle", "done"} /\ phase'[c] = "submit" => \A l \in Lanes : Unbarred(lane'[l], d)
  BY <1>2 DEF PairKept, OnWayKept, Behind, OnItsWay, Orderly
<1>10. OnItsWay(c, d)'
  BY <1>7, <1>8, <1>9 DEF OnItsWay
<1> QED BY <1>1, <1>3, <1>5, <1>6, <1>10 DEF Behind

\* A release that is postponed newly is that of a call under way, whose key is
\* held unless the engine is stopped.
NewlyHeld ==
    \A d \in Clients, x \in Admins : Postponed(sec'[x], d) =>
        \/ Postponed(sec[x], d)
        \/ pc[d] \notin {"idle", "done"} /\ (stopped' \/ KeyHeld(d, x)')

LEMMA OrderStep ==
  ASSUME IInv, OrderInv, earlier' = earlier,
         finished \subseteq finished', accepted \subseteq accepted', stopped => stopped',
         \A e \in Clients : (pc[e] = "done" => pc'[e] = "done") /\ (pc'[e] = "idle" => pc[e] = "idle"),
         \A e \in Clients : pc[e] = "idle" => /\ starts'[e] = starts[e]
                                              /\ \A l \in Lanes : OnLane(lane'[l], e) => OnLane(lane[l], e),
         RoutesInv', FencesInv', TicketsInv', HeldKept, NewlyHeld,
         \A c, d \in Clients : Awaits(c, d) /\ d \notin finished' => PairKept(c, d)
  PROVE  OrderInv'
<1>1. FreshInv'
  <2> SUFFICES ASSUME NEW e \in Clients, pc'[e] = "idle"
               PROVE  /\ starts'[e] = 0 /\ earlier'[e] = {} /\ OffLanes(e)'
                      /\ \A x \in Admins : ~Postponed(sec'[x], e)
    BY DEF FreshInv
  <2>1. pc[e] = "idle" /\ starts[e] = 0 /\ earlier[e] = {} /\ OffLanes(e)
        /\ \A x \in Admins : ~Postponed(sec[x], e)
    BY DEF OrderInv, FreshInv
  <2>2. OffLanes(e)'
    BY <2>1 DEF OffLanes
  <2> QED BY <2>1, <2>2 DEF NewlyHeld
<1>2. HeldInv'
  BY DEF OrderInv, HeldInv, HeldKept, NewlyHeld
<1>3. ASSUME NEW c \in Clients, NEW d \in earlier'[c] PROVE PairInv(c, d)'
  <2>1. PairInv(c, d) /\ d \in earlier[c]
    BY DEF OrderInv
  <2>2. d \in Clients /\ pc'[d] = "done" /\ d \in accepted' \cup Owners /\ RouteOf[d] = RouteOf[c] /\ pc[d] = "done"
    BY <2>1 DEF PairInv
  <2>3. CASE d \in finished'
    BY <2>2, <2>3 DEF PairInv
  <2>4. CASE d \notin finished'
    <3>1. Behind(c, d) /\ d \notin finished
      BY <2>1, <2>4 DEF PairInv
    <3>2. Awaits(c, d)
      BY <2>1, <2>2, <3>1 DEF Awaits, PairInv
    <3>3. PairKept(c, d)
      BY <2>2, <2>4, <3>2
    <3>4. \A x \in Admins : Postponed(sec'[x], d) => Postponed(sec[x], d)
      BY <2>2 DEF NewlyHeld
    <3>5. Behind(c, d)'
      BY <2>2, <3>1, <3>3, <3>4, BehindKept
    <3> QED BY <2>2, <3>5 DEF PairInv
  <2> QED BY <2>3, <2>4
<1> QED BY <1>1, <1>2, <1>3 DEF OrderInv

\* Only a published section has postponed releases.
LEMMA PostponedTo ==
  ASSUME IInv, NEW x \in Admins, NEW d, Postponed(sec[x], d)
  PROVE  apc[x] \in Published /\ active = x
<1>1. SectionInv(x)
  BY DEF IInv
<1>2. apc[x] \in Published
  <2> SUFFICES ASSUME apc[x] \notin Published PROVE FALSE
    OBVIOUS
  <2>1. sec[x].deferred = <<>> /\ sec[x].draining = <<>>
    BY <1>1 DEF SectionInv, Published
  <2>2. Len(sec[x].deferred) = 0 /\ Len(sec[x].draining) = 0
    BY <2>1, EmptySeq
  <2> QED BY <2>2 DEF Postponed
<1> QED BY <1>1, <1>2 DEF SectionInv

LEMMA HeldStays ==
  ASSUME IInv, queues' = queues,
         \A l \in Lanes : /\ Quiet(lane[l]) => Quiet(lane'[l])
                          /\ \A x \in Admins : apc[x] # "done" => Holding(lane[l], lane'[l], x)
  PROVE  HeldKept
<1> SUFFICES ASSUME NEW d \in Clients, NEW x \in Admins, Postponed(sec[x], d), KeyHeld(d, x)
             PROVE  KeyHeld(d, x)'
  BY DEF HeldKept
<1>1. apc[x] # "done"
  BY PostponedTo DEF Published
<1>2. queues[RouteOf[d]] \in Lanes \cup {None}
  BY AsyncAssumption DEF IInv, TypeOK, RoutingTypes
<1>3. queues'[RouteOf[d]] = queues[RouteOf[d]]
  OBVIOUS
<1> QED BY <1>1, <1>2, <1>3 DEF KeyHeld, Holding

LEMMA RoutesKept ==
  ASSUME IInv, RoutesInv, setup' = setup, queues' = queues, stopped => stopped',
         \A l \in Lanes, d \in Clients :
             OnLane(lane'[l], d) => OnLane(lane[l], d) \/ queues[RouteOf[d]] = l,
         \A m \in Lanes : lane'[m].retired = lane[m].retired \/ Garbage(m),
         \A c \in Clients : at'[c] = at[c] \/ at'[c] \notin Lanes \/ at'[c] = queues[RouteOf[c]],
         \A c \in Clients : /\ pc'[c] \in {"stopped", "late", "lifecycle"} => stopped'
                            /\ pc'[c] = "late" => \/ pc[c] = "late" /\ at'[c] = at[c]
                                                  \/ at'[c] = queues[RouteOf[c]] /\ at'[c] # None
  PROVE  RoutesInv'
<1>0. \A k \in Keys : queues[k] \in Lanes \cup {None}
  BY DEF IInv, TypeOK, RoutingTypes
<1>1. \A k \in Keys : queues[k] # None => lane'[queues[k]].retired = lane[queues[k]].retired
  BY <1>0 DEF Garbage
<1>2. \A c \in Clients : at[c] \in Lanes => lane'[at[c]].retired = lane[at[c]].retired
  BY DEF Garbage
<1>3. \A c \in Clients : RouteOf[c] \in Keys
  BY AsyncAssumption
<1>4. \A l \in Lanes, d \in Clients : OnLane(lane'[l], d) => queues'[RouteOf[d]] = l
  BY DEF RoutesInv
<1>5. \A k \in Keys : queues'[k] # None => ~lane'[queues'[k]].retired
  BY <1>1 DEF RoutesInv
<1>6. ASSUME NEW c \in Clients
      PROVE  /\ at'[c] \in Lanes /\ ~lane'[at'[c]].retired => queues'[RouteOf[c]] = at'[c]
             /\ pc'[c] \in {"stopped", "late", "lifecycle"} => stopped'
             /\ pc'[c] = "late" => ~lane'[at'[c]].retired
  <2>1. at'[c] \in Lanes /\ ~lane'[at'[c]].retired => queues'[RouteOf[c]] = at'[c]
    BY <1>2, <1>6 DEF RoutesInv
  <2>2. ASSUME pc'[c] = "late" PROVE ~lane'[at'[c]].retired
    <3>1. CASE pc[c] = "late" /\ at'[c] = at[c]
      <4>1. at[c] \in Lanes /\ ~lane[at[c]].retired
        BY <3>1 DEF IInv, ClientInv, RoutesInv
      <4> QED BY <3>1, <4>1, <1>2
    <3>2. CASE at'[c] = queues[RouteOf[c]] /\ at'[c] # None
      BY <3>2, <1>1, <1>3 DEF RoutesInv
    <3> QED BY <2>2, <3>1, <3>2
  <2> QED BY <2>1, <2>2
<1>7. /\ Dynamic' => \A k, j \in Keys : queues'[k] = queues'[j] /\ queues'[k] # None => k = j
      /\ ~Dynamic' => queues' = ShardOf
  BY DEF RoutesInv, Dynamic
<1> QED BY <1>4, <1>5, <1>6, <1>7 DEF RoutesInv

LEMMA TicketsSame ==
  ASSUME NEW l, TicketsAt(l), lane'[l] = lane[l], Sending(l)' = Sending(l),
         \A c \in Sending(l) : ticket'[c] = ticket[c]
  PROVE  TicketsAt(l)'
BY DEF TicketsAt

SectionsAlike ==
    \A x \in Admins : sec'[x].deferred = sec[x].deferred /\ sec'[x].draining = sec[x].draining

LEMMA SectionsStill ==
  ASSUME SectionsAlike
  PROVE  /\ NewlyHeld
         /\ \A c, d \in Clients : Awaits(c, d) => SectionsOrdered(c, d)
<1>1. \A d, x : x \in Admins => (Postponed(sec'[x], d) <=> Postponed(sec[x], d))
  BY DEF SectionsAlike, Postponed
<1>2. \A c, d, x : x \in Admins /\ InSection(sec[x], c, d) => InSection(sec'[x], c, d)
  BY DEF SectionsAlike, InSection
<1> QED BY <1>1, <1>2 DEF NewlyHeld, Awaits, Behind, SectionsOrdered

\* A lane that does not change.
LEMMA LaneUntouched ==
  ASSUME NEW l \in Lanes, lane[l] \in LaneRecords, lane'[l] = lane[l], TicketsAt(l),
         Sending(l)' = Sending(l), \A c \in Sending(l) : ticket'[c] = ticket[c]
  PROVE  /\ TicketsAt(l)'
         /\ \A c, d : Orderly(lane[l], Older(l), lane'[l], Older(l)', c, d)
<1>1. TicketsAt(l)'
  BY TicketsSame
<1>2. Older(l)' = Older(l)
  BY OlderSame
<1> QED BY <1>1, <1>2 DEF Orderly

LEMMA WorkerOrder ==
  ASSUME IInv, OrderInv, NEW l \in Lanes, NEW q \in LaneRecords, lane'[l] = q,
         \A m \in Lanes \ {l} : lane'[m] = lane[m],
         UNCHANGED <<setup, client, queues, control>>, SectionsAlike, finished \subseteq finished',
         q.retired = lane[l].retired \/ Garbage(l),
         q.admitted = q.settled + Cardinality(Sending(l)) + Len(q.ch) + Tasks(q),
         \A c \in Sending(l) : ticket[c] <= q.admitted,
         \A i \in 1..Len(q.backlog) : q.backlog[i].cutoff <= q.admitted /\ (q.backlog[i].fence => stopped),
         Quiet(lane[l]) => Quiet(q),
         \A x \in Admins : apc[x] # "done" => Holding(lane[l], q, x),
         \A e \in Clients : pc[e] = "idle" => starts'[e] = starts[e],
         \A e \in Clients : OnLane(q, e) => OnLane(lane[l], e),
         \A c, d \in Clients : Awaits(c, d) /\ d \notin finished' =>
             starts'[c] = starts[c] /\ Orderly(lane[l], Older(l), q, Older(l), c, d)
  PROVE  OrderInv'
<1>0. lane \in [Lanes -> LaneRecords] /\ lane'[l] = q /\ \A m \in Lanes \ {l} : lane'[m] = lane[m]
  BY DEF IInv, TypeOK
<1>1. pc' = pc /\ at' = at /\ phase' = phase /\ ticket' = ticket /\ accepted' = accepted /\ earlier' = earlier
      /\ stopped' = stopped /\ stop' = stop /\ cleanupOn' = cleanupOn
  BY DEF client, control
<1>2. \A m : Sending(m)' = Sending(m)
  BY <1>1 DEF Sending
<1>3. \A m : Older(m)' = Older(m)
  BY <1>1, <1>2, OlderSame
<1>4. RoutesInv'
  <2>1. RoutesInv
    BY DEF OrderInv
  <2>2. \A m \in Lanes, d \in Clients : OnLane(lane'[m], d) => OnLane(lane[m], d) \/ queues[RouteOf[d]] = m
    BY <1>0
  <2>3. \A m \in Lanes : lane'[m].retired = lane[m].retired \/ Garbage(m)
    BY <1>0
  <2>4. \A c \in Clients : pc[c] \in {"stopped", "late", "lifecycle"} => stopped
    BY <2>1 DEF RoutesInv
  <2> QED BY <1>1, <2>1, <2>2, <2>3, <2>4, RoutesKept
<1>5. FencesInv'
  <2>1. \A m \in Lanes : \A i \in 1..Len(lane'[m].backlog) : lane'[m].backlog[i].fence => stopped
    BY <1>0 DEF OrderInv, FencesInv
  <2> QED BY <1>1, <2>1 DEF OrderInv, FencesInv
<1>6. TicketsInv'
  <2>1. TicketsAt(l)'
    BY <1>0, <1>1, <1>2 DEF TicketsAt
  <2>2. \A m \in Lanes \ {l} : TicketsAt(m)'
    BY <1>0, <1>1, <1>2, TicketsSame DEF OrderInv, TicketsInv
  <2> QED BY <2>1, <2>2 DEF TicketsInv
<1>7. HeldKept
  <2>1. \A m \in Lanes : /\ Quiet(lane[m]) => Quiet(lane'[m])
                         /\ \A x \in Admins : apc[x] # "done" => Holding(lane[m], lane'[m], x)
    BY <1>0, SameHolding
  <2> QED BY <2>1, HeldStays
<1>8. ASSUME NEW c \in Clients, NEW d \in Clients, Awaits(c, d), d \notin finished' PROVE PairKept(c, d)
  <2>1. starts'[c] = starts[c] /\ Orderly(lane[l], Older(l), q, Older(l), c, d)
    BY <1>8
  <2>2. \A m \in Lanes : Orderly(lane[m], Older(m), lane'[m], Older(m)', c, d)
    BY <1>0, <1>3, <2>1 DEF Orderly
  <2>3. OnWayKept(c, d)
    BY <1>1 DEF OnWayKept
  <2>4. SectionsOrdered(c, d)
    BY <1>8, SectionsStill
  <2> QED BY <2>1, <2>2, <2>3, <2>4 DEF PairKept, LanesOrdered
<1>9. NewlyHeld
  BY SectionsStill
<1>10. \A e \in Clients : pc[e] = "idle" => /\ starts'[e] = starts[e]
                                            /\ \A m \in Lanes : OnLane(lane'[m], e) => OnLane(lane[m], e)
  BY <1>0
<1>11. \A e \in Clients : (pc[e] = "done" => pc'[e] = "done") /\ (pc'[e] = "idle" => pc[e] = "idle")
  BY <1>1
<1>12. \A c, d \in Clients : Awaits(c, d) /\ d \notin finished' => PairKept(c, d)
  BY <1>8
<1>13. accepted \subseteq accepted' /\ (stopped => stopped') /\ earlier' = earlier
  BY <1>1
<1> HIDE DEF OrderInv
<1> QED BY <1>4, <1>5, <1>6, <1>7, <1>9, <1>10, <1>11, <1>12, <1>13, OrderStep

LEMMA ClientOrder ==
  ASSUME IInv, OrderInv, NEW b \in Clients, pc[b] \notin {"idle", "done"}, pc'[b] # "idle",
         NEW l \in Lanes, NEW q \in LaneRecords, lane'[l] = q,
         \A m \in Lanes \ {l} : lane'[m] = lane[m],
         \A e \in Clients \ {b} : /\ pc'[e] = pc[e] /\ phase'[e] = phase[e] /\ at'[e] = at[e]
                                  /\ ticket'[e] = ticket[e],
         UNCHANGED <<setup, earlier, queues, control, made>>, SectionsAlike, accepted \subseteq accepted',
         \A m \in Lanes \ {l} : Sending(m)' = Sending(m) /\ \A c \in Sending(m) : ticket'[c] = ticket[c],
         TicketsAt(l)', q.retired = lane[l].retired, Quiet(lane[l]) => Quiet(q),
         \A x \in Admins : Holding(lane[l], q, x),
         \A i \in 1..Len(q.backlog) : q.backlog[i].fence => stopped,
         \A e \in Clients : OnLane(q, e) => OnLane(lane[l], e) \/ (e = b /\ queues[RouteOf[b]] = l),
         at'[b] = at[b] \/ at'[b] \notin Lanes \/ at'[b] = queues[RouteOf[b]],
         pc'[b] \in {"stopped", "late", "lifecycle"} => stopped,
         pc'[b] = "late" => \/ pc[b] = "late" /\ at'[b] = at[b]
                            \/ at'[b] = queues[RouteOf[b]] /\ at'[b] # None,
         \A c, d \in Clients : Awaits(c, d) /\ d # b => Orderly(lane[l], Older(l), q, Older(l)', c, d),
         \A d \in Clients : Awaits(b, d) => OnWayKept(b, d)
  PROVE  OrderInv'
<1>0. lane \in [Lanes -> LaneRecords] /\ lane'[l] = q /\ \A m \in Lanes \ {l} : lane'[m] = lane[m]
  BY DEF IInv, TypeOK
<1>1. starts' = starts /\ finished' = finished /\ stopped' = stopped /\ stop' = stop /\ cleanupOn' = cleanupOn
  BY DEF made, control
<1>2. \A m \in Lanes \ {l} : /\ Sending(m)' = Sending(m)
                             /\ \A c \in Sending(m) : ticket'[c] = ticket[c]
  OBVIOUS
<1>3. \A m \in Lanes \ {l} : /\ TicketsAt(m)'
                             /\ \A c, d : Orderly(lane[m], Older(m), lane'[m], Older(m)', c, d)
  <2> SUFFICES ASSUME NEW m \in Lanes \ {l}
               PROVE  TicketsAt(m)' /\ \A c, d : Orderly(lane[m], Older(m), lane'[m], Older(m)', c, d)
    OBVIOUS
  <2>1. lane[m] \in LaneRecords /\ lane'[m] = lane[m] /\ TicketsAt(m)
    BY <1>0 DEF OrderInv, TicketsInv
  <2> QED BY <1>2, <2>1, LaneUntouched
<1>4. RoutesInv'
  <2>1. RoutesInv
    BY DEF OrderInv
  <2>2. \A m \in Lanes, d \in Clients : OnLane(lane'[m], d) => OnLane(lane[m], d) \/ queues[RouteOf[d]] = m
    BY <1>0
  <2>3. \A m \in Lanes : lane'[m].retired = lane[m].retired \/ Garbage(m)
    BY <1>0
  <2>4. \A c \in Clients : pc[c] \in {"stopped", "late", "lifecycle"} => stopped
    BY <2>1 DEF RoutesInv
  <2>5. \A c \in Clients : at'[c] = at[c] \/ at'[c] \notin Lanes \/ at'[c] = queues[RouteOf[c]]
    OBVIOUS
  <2>6. \A c \in Clients : /\ pc'[c] \in {"stopped", "late", "lifecycle"} => stopped'
                           /\ pc'[c] = "late" => \/ pc[c] = "late" /\ at'[c] = at[c]
                                                 \/ at'[c] = queues[RouteOf[c]] /\ at'[c] # None
    BY <1>1, <2>4
  <2>7. queues' = queues /\ setup' = setup /\ (stopped => stopped')
    BY <1>1
  <2> QED BY ONLY IInv, <2>1, <2>2, <2>3, <2>5, <2>6, <2>7, RoutesKept
<1>5. FencesInv'
  <2>1. \A m \in Lanes : \A i \in 1..Len(lane'[m].backlog) : lane'[m].backlog[i].fence => stopped
    BY <1>0 DEF OrderInv, FencesInv
  <2> QED BY <1>1, <2>1 DEF OrderInv, FencesInv
<1>6. TicketsInv'
  BY <1>3 DEF TicketsInv
<1>7. HeldKept
  <2>1. \A m \in Lanes : /\ Quiet(lane[m]) => Quiet(lane'[m])
                         /\ \A x \in Admins : apc[x] # "done" => Holding(lane[m], lane'[m], x)
    BY <1>0, SameHolding
  <2> QED BY <2>1, HeldStays
<1>8. ASSUME NEW c \in Clients, NEW d \in Clients, Awaits(c, d) PROVE PairKept(c, d)
  <2>1. d # b
    BY <1>8 DEF Awaits
  <2>2. Orderly(lane[l], Older(l), lane'[l], Older(l)', c, d)
    BY <1>0, <1>8, <2>1
  <2>3. OnWayKept(c, d)
    <3>1. CASE c = b
      BY <1>8, <3>1
    <3>2. CASE c # b
      BY <3>2 DEF OnWayKept
    <3> QED BY <3>1, <3>2
  <2>4. SectionsOrdered(c, d)
    BY <1>8, SectionsStill
  <2>5. LanesOrdered(c, d)
    BY <1>3, <2>2 DEF LanesOrdered
  <2> QED BY <1>1, <2>3, <2>4, <2>5 DEF PairKept
<1>9. NewlyHeld
  BY SectionsStill
<1>10. \A e \in Clients : pc[e] = "idle" => /\ starts'[e] = starts[e]
                                            /\ \A m \in Lanes : OnLane(lane'[m], e) => OnLane(lane[m], e)
  BY <1>0, <1>1
<1>11. \A e \in Clients : (pc[e] = "done" => pc'[e] = "done") /\ (pc'[e] = "idle" => pc[e] = "idle")
  OBVIOUS
<1>12. \A c, d \in Clients : Awaits(c, d) /\ d \notin finished' => PairKept(c, d)
  BY <1>8
<1>13. accepted \subseteq accepted' /\ (stopped => stopped') /\ earlier' = earlier /\ finished \subseteq finished'
  BY <1>1
<1> QED BY ONLY IInv, OrderInv, <1>4, <1>5, <1>6, <1>7, <1>9, <1>10, <1>11, <1>12, <1>13, OrderStep

-----------------------------------------------------------------------------
(* The worker keeps the order. *)

LEMMA LaneFacts ==
  ASSUME IInv, OrderInv, NEW l \in Lanes
  PROVE  /\ lane \in [Lanes -> LaneRecords] /\ lane[l] \in LaneRecords /\ LaneShape(lane[l])
         /\ TicketsAt(l) /\ Older(l) \in Counts
         /\ lane[l].admitted = lane[l].settled + Cardinality(Sending(l)) + Len(lane[l].ch) + Tasks(lane[l])
         /\ lane[l].settled \in Nat /\ Cardinality(Sending(l)) \in Nat /\ Len(lane[l].ch) \in Nat
         /\ Tasks(lane[l]) \in {0, 1} /\ lane[l].admitted \in Nat
         /\ \A c \in Sending(l) : ticket[c] <= lane[l].admitted
         /\ \A i \in 1..Len(lane[l].backlog) : /\ lane[l].backlog[i].cutoff <= lane[l].admitted
                                               /\ lane[l].backlog[i].fence => stopped
<1>1. lane \in [Lanes -> LaneRecords] /\ lane[l] \in LaneRecords /\ LaneShape(lane[l])
  BY DEF IInv, TypeOK, LanesInv
<1>2. TicketsAt(l) /\ \A i \in 1..Len(lane[l].backlog) : lane[l].backlog[i].fence => stopped
  BY DEF OrderInv, TicketsInv, FencesInv
<1>3. lane[l].settled \in Nat /\ Len(lane[l].ch) \in Nat /\ Tasks(lane[l]) \in {0, 1} /\ lane[l].admitted \in Nat
  BY <1>1, EntryParts
<1> QED BY <1>1, <1>2, <1>3, OlderCounts, SendingFinite DEF TicketsAt

LEMMA StillWorkerOrder ==
  ASSUME IInv, IInv', OrderInv, NEW l \in Lanes, NEW q, lane'[l] = q,
         \A m \in Lanes \ {l} : lane'[m] = lane[m],
         UNCHANGED <<setup, client, queues, control, made>>, SectionsAlike,
         q.ch = lane[l].ch, q.backlog = lane[l].backlog, q.settled = lane[l].settled,
         q.admitted = lane[l].admitted, q.retired = lane[l].retired,
         lane[l].worker # "task", q.worker # "task", q.cur \in {lane[l].cur, None},
         Quiet(lane[l]) => Quiet(q),
         \A x \in Admins : apc[x] # "done" => Holding(lane[l], q, x)
  PROVE  OrderInv'
<1> DEFINE p == lane[l]
<1>1. /\ p \in LaneRecords /\ Older(l) \in Counts
      /\ p.admitted = p.settled + Cardinality(Sending(l)) + Len(p.ch) + Tasks(p)
      /\ \A c \in Sending(l) : ticket[c] <= p.admitted
      /\ \A i \in 1..Len(p.backlog) : p.backlog[i].cutoff <= p.admitted /\ (p.backlog[i].fence => stopped)
  BY LaneFacts
<1>2. q \in LaneRecords
  BY DEF IInv, TypeOK
<1>3. Tasks(q) = Tasks(p) /\ SameQueue(p, q)
  BY DEF Tasks, SameQueue
<1>4. starts' = starts /\ finished' = finished
  BY DEF made
<1>5. \A n \in Nat : Older(l)[n] <= Older(l)[n]
  BY <1>1 DEF Counts
<1>6. ASSUME NEW c \in Clients, NEW d \in Clients PROVE Orderly(p, Older(l), q, Older(l), c, d)
  <2>1. q.cur = d => p.cur = d
    BY AsyncAssumption
  <2> QED BY <1>1, <1>2, <1>3, <1>5, <2>1, QueueKept
<1>7. \A e \in Clients : OnLane(q, e) => OnLane(p, e)
  BY <1>6 DEF Orderly
<1>8. /\ q.admitted = q.settled + Cardinality(Sending(l)) + Len(q.ch) + Tasks(q)
      /\ \A c \in Sending(l) : ticket[c] <= q.admitted
      /\ \A i \in 1..Len(q.backlog) : q.backlog[i].cutoff <= q.admitted /\ (q.backlog[i].fence => stopped)
  BY <1>1, <1>3
<1> QED BY <1>2, <1>4, <1>6, <1>7, <1>8, WorkerOrder

LEMMA SeeOrder ==
  ASSUME IInv, IInv', OrderInv, NEW l \in Lanes, SeeClosed(l) \/ SeeWake(l) \/ SeeRetired(l), setup' = setup
  PROVE  OrderInv'
<1> DEFINE p == lane[l]
           q == lane'[l]
<1>1. lane \in [Lanes -> LaneRecords] /\ p \in LaneRecords /\ LaneShape(p) /\ p.worker = "select" /\ p.cur = None
      /\ UNCHANGED <<setup, client, queues, control, section>> /\ p.settled \in Nat
  BY LaneFacts DEF SeeClosed, SeeWake, SeeRetired, LaneShape
<1>2. /\ q.ch = p.ch /\ q.backlog = p.backlog /\ q.settled = p.settled /\ q.admitted = p.admitted
      /\ q.retired = p.retired /\ q.worker = "loop" /\ q.cur = p.cur
      /\ (\A m \in Lanes \ {l} : lane'[m] = lane[m]) /\ UNCHANGED made
  <2>1. CASE SeeClosed(l)
    BY <1>1, <2>1 DEF SeeClosed, LaneRecords
  <2>2. CASE SeeWake(l)
    BY <1>1, <2>2 DEF SeeWake, Awake, LaneRecords
  <2>3. CASE SeeRetired(l)
    <3>1. p.ch = <<>> /\ Len(p.ch) = 0 /\ ToSet(p.ch) = {}
      BY <1>1, <2>3, EmptySeq DEF SeeRetired, LaneShape, ToSet
    <3>2. starts' = [c \in Clients |-> starts[c]] /\ finished' = finished /\ starts \in [Clients -> Nat]
      BY <2>3, <3>1 DEF SeeRetired, IInv, TypeOK
    <3>3. starts' = starts
      BY <3>2
    <3>4. lane' = [lane EXCEPT ![l].sealed = TRUE, ![l].worker = "loop", ![l].ch = <<>>,
                               ![l].pending = @ - Len(p.ch), ![l].settled = @ + Len(p.ch)]
      BY <2>3 DEF SeeRetired
    <3>5. q.ch = <<>> /\ q.settled = p.settled + 0 /\ q.backlog = p.backlog /\ q.admitted = p.admitted
          /\ q.retired = p.retired /\ q.worker = "loop" /\ q.cur = p.cur
          /\ (\A m \in Lanes \ {l} : lane'[m] = lane[m])
      BY <1>1, <3>1, <3>4 DEF LaneRecords
    <3> QED BY <1>1, <3>1, <3>2, <3>3, <3>5 DEF made
  <2> QED BY <2>1, <2>2, <2>3
<1>3. Quiet(p) => Quiet(q)
  BY <1>1, <1>2 DEF Quiet
<1>4. \A x \in Admins : Holding(p, q, x)
  BY <1>1, <1>2 DEF Holding, Holds, HasTask
<1>5. SectionsAlike
  BY <1>1 DEF section, SectionsAlike
<1> HIDE DEF q
<1> QED BY <1>1, <1>2, <1>3, <1>4, <1>5, StillWorkerOrder DEF q

LEMMA ParkOrder ==
  ASSUME IInv, IInv', OrderInv, NEW l \in Lanes, Park(l) \/ Unpark(l), setup' = setup
  PROVE  OrderInv'
<1> DEFINE p == lane[l]
           q == lane'[l]
<1>1. lane \in [Lanes -> LaneRecords] /\ p \in LaneRecords /\ LaneShape(p)
      /\ p.worker \in {"barrier", "parked"} /\ p.cur \in Admins
      /\ UNCHANGED <<setup, client, queues, control, made>>
  BY LaneFacts DEF Park, Unpark, LaneShape
<1>2. /\ q.ch = p.ch /\ q.backlog = p.backlog /\ q.settled = p.settled /\ q.admitted = p.admitted
      /\ q.retired = p.retired /\ (\A m \in Lanes \ {l} : lane'[m] = lane[m])
  BY <1>1 DEF Park, Unpark, LaneRecords
<1>3. \/ q.worker = "parked" /\ q.cur = p.cur
      \/ q.worker = "loop" /\ q.cur = None /\ apc[p.cur] = "done"
  BY <1>1 DEF Park, Unpark, LaneRecords
<1>4. Quiet(p) => Quiet(q)
  BY <1>1, <1>2 DEF Quiet
<1>5. \A x \in Admins : apc[x] # "done" => Holding(p, q, x)
  <2>1. \A x \in Admins : x # None
    BY AsyncAssumption
  <2> QED BY <1>1, <1>2, <1>3, <2>1 DEF Holding, Holds, HasTask
<1>6. SectionsAlike
  <2>1. CASE Park(l)
    <3>1. sec' = [sec EXCEPT ![p.cur].parked = @ + 1] /\ sec \in [Admins -> SectionRecords]
      BY <2>1 DEF Park, IInv, TypeOK, SectionTypes
    <3>2. \A x \in Admins : sec[x] \in SectionRecords
      BY <3>1
    <3> QED BY <1>1, <3>1, <3>2 DEF SectionsAlike, SectionRecords
  <2>2. CASE Unpark(l)
    BY <2>2 DEF Unpark, section, SectionsAlike
  <2> QED BY <2>1, <2>2
<1>7. q.worker # "task" /\ q.cur \in {p.cur, None} /\ p.worker # "task"
  BY <1>1, <1>3
<1> HIDE DEF q
<1> QED BY <1>1, <1>2, <1>4, <1>5, <1>6, <1>7, StillWorkerOrder DEF q

\* A lane that waits for the fence has nothing on its way once the fence is
\* closed.
LEMMA FenceEmpty ==
  ASSUME IInv, SubmitFence, NEW l \in Lanes
  PROVE  Sending(l) = {}
<1>1. ASSUME NEW c \in Sending(l) PROVE FALSE
  <2>1. c \in Clients /\ pc[c] \in {"send", "blocked"}
    BY DEF Sending
  <2>2. c \in registered
    BY <2>1 DEF IInv, ClientInv, Submitting
  <2> QED BY <2>2 DEF SubmitFence
<1> QED BY <1>1

LEMMA FinishOrder ==
  ASSUME IInv, IInv', OrderInv, NEW l \in Lanes, Finish(l), setup' = setup
  PROVE  OrderInv'
<1> DEFINE p == lane[l]
           q == lane'[l]
<1>1. /\ lane \in [Lanes -> LaneRecords] /\ p \in LaneRecords /\ LaneShape(p) /\ Older(l) \in Counts
      /\ p.admitted = p.settled + Cardinality(Sending(l)) + Len(p.ch) + Tasks(p)
      /\ p.settled \in Nat /\ Cardinality(Sending(l)) \in Nat /\ Len(p.ch) \in Nat
      /\ Tasks(p) \in {0, 1} /\ p.admitted \in Nat
      /\ \A c \in Sending(l) : ticket[c] <= p.admitted
      /\ \A i \in 1..Len(p.backlog) : p.backlog[i].cutoff <= p.admitted /\ (p.backlog[i].fence => stopped)
  BY LaneFacts
<1>2. /\ p.worker \in {"task", "release"} /\ p.cur \in Clients
      /\ UNCHANGED <<setup, client, queues, control, section, starts>> /\ finished \subseteq finished'
  BY <1>1 DEF Finish, LaneShape
<1>3. /\ q.ch = p.ch /\ q.backlog = p.backlog /\ q.admitted = p.admitted
      /\ q.settled = (IF p.worker = "task" THEN p.settled + 1 ELSE p.settled)
      /\ q.retired = p.retired /\ q.worker = "loop" /\ q.cur = None
      /\ (\A m \in Lanes \ {l} : lane'[m] = lane[m])
  BY <1>1 DEF Finish, LaneRecords
<1>4. q \in LaneRecords
  BY DEF IInv, TypeOK
<1>5. q.settled = p.settled + Tasks(p) /\ Tasks(q) = 0
  BY <1>1, <1>3 DEF Tasks
<1>6. q.admitted = q.settled + Cardinality(Sending(l)) + Len(q.ch) + Tasks(q)
  <2> DEFINE a == p.admitted
             s == p.settled
             k == Cardinality(Sending(l))
             h == Len(p.ch)
             u == Tasks(p)
  <2>1. a = s + k + h + u /\ s \in Nat /\ k \in Nat /\ h \in Nat /\ u \in Nat
    BY <1>1
  <2>2. a = (s + u) + k + h + 0
    <3> HIDE DEF a, s, k, h, u
    <3> QED BY <2>1
  <2> QED BY <1>3, <1>5, <2>2
<1>7. Quiet(p) => Quiet(q)
  BY <1>2, <1>3 DEF Quiet
<1>8. \A x \in Admins : Holding(p, q, x)
  <2>1. \A x \in Admins : x # None /\ x \notin Clients
    BY AsyncAssumption
  <2> QED BY <1>2, <1>3, <2>1 DEF Holding, Holds, HasTask
<1>9. SectionsAlike
  BY <1>2 DEF section, SectionsAlike
<1>10. ASSUME NEW c \in Clients, NEW d \in Clients PROVE Orderly(p, Older(l), q, Older(l), c, d)
  <2>1. d # None /\ q.worker # "task"
    BY <1>3, AsyncAssumption
  <2> HIDE DEF q
  <2> QED BY <1>1, <1>3, <1>4, <1>5, <2>1, FinishKeepsOrder
<1>11. \A e \in Clients : OnLane(q, e) => OnLane(p, e)
  BY <1>10 DEF Orderly
<1>12. starts' = starts
  BY <1>2
<1> HIDE DEF q
<1>13. /\ \A c \in Sending(l) : ticket[c] <= q.admitted
       /\ \A i \in 1..Len(q.backlog) : q.backlog[i].cutoff <= q.admitted /\ (q.backlog[i].fence => stopped)
  BY <1>1, <1>3
<1> QED BY <1>2, <1>3, <1>4, <1>6, <1>7, <1>8, <1>9, <1>10, <1>11, <1>12, <1>13, WorkerOrder DEF q

LEMMA WaitOrder ==
  ASSUME IInv, IInv', OrderInv, NEW l \in Lanes, Wait(l), setup' = setup
  PROVE  OrderInv'
<1> DEFINE p == lane[l]
           q == lane'[l]
<1>1. /\ lane \in [Lanes -> LaneRecords] /\ p \in LaneRecords /\ LaneShape(p) /\ Older(l) \in Counts
      /\ p.admitted = p.settled + Cardinality(Sending(l)) + Len(p.ch) + Tasks(p)
      /\ p.settled \in Nat /\ Cardinality(Sending(l)) \in Nat /\ Len(p.ch) \in Nat
      /\ Tasks(p) \in {0, 1} /\ p.admitted \in Nat
      /\ \A c \in Sending(l) : ticket[c] <= p.admitted
      /\ \A i \in 1..Len(p.backlog) : p.backlog[i].cutoff <= p.admitted /\ (p.backlog[i].fence => stopped)
  BY LaneFacts
<1>2. /\ p.worker = "loop" /\ p.cur = None /\ ~Ready(PassedFence(p))
      /\ UNCHANGED <<setup, client, queues, control, section, made>>
      /\ SectionsAlike /\ starts' = starts /\ finished' = finished
  BY <1>1 DEF Wait, LaneShape, section, made, SectionsAlike
<1>3. ~Ready(p)
  <2> DEFINE f == PassedFence(p)
  <2>1. f = PassedFence(p) /\ ~Ready(f)
    BY <1>2
  <2> HIDE DEF f
  <2>2. Ready(p) => f = p
    BY <1>1, <2>1, Fenced
  <2> QED BY <2>1, <2>2
<1>4. \A x \in Admins : ~Holds(p, x)
  BY <1>2, <1>3 DEF Holds
<1>5. q \in LaneRecords /\ \A m \in Lanes \ {l} : lane'[m] = lane[m]
  BY <1>1 DEF IInv, TypeOK, Wait
<1>6. CASE p.sealed /\ p.backlog = <<>> /\ ~Garbage(l)
  <2>1. q = [p EXCEPT !.worker = "exited"]
    BY <1>1, <1>6 DEF Wait
  <2>2. q.ch = p.ch /\ q.backlog = p.backlog /\ q.settled = p.settled /\ q.admitted = p.admitted
        /\ q.retired = p.retired /\ q.worker = "exited" /\ q.cur = p.cur
    BY <1>1, <2>1 DEF LaneRecords
  <2>3. Quiet(q) /\ \A x \in Admins : Holding(p, q, x)
    BY <1>2, <1>4, <2>2 DEF Quiet, Holding, HasTask
  <2> HIDE DEF q
  <2> QED BY <1>2, <1>5, <2>2, <2>3, StillWorkerOrder DEF q
<1>7. CASE p.sealed /\ p.backlog = <<>> /\ Garbage(l)
  <2>1. q = Absent
    BY <1>1, <1>7 DEF Wait
  <2>2. q.ch = <<>> /\ q.backlog = <<>> /\ q.settled = 0 /\ q.admitted = 0 /\ q.worker = "none"
        /\ q.cur = None /\ Tasks(q) = 0 /\ Len(q.ch) = 0 /\ Len(q.backlog) = 0
    BY <2>1, EmptySeq DEF Absent, Tasks
  <2>3. Sending(l) = {} /\ Cardinality(Sending(l)) = 0
    BY <1>7, FS_EmptySet DEF Sending, Garbage
  <2>4. Quiet(q) /\ \A x \in Admins : Holding(p, q, x)
    <3>1. \A x \in Admins : x # None
      BY AsyncAssumption
    <3> QED BY <1>2, <1>4, <1>7, <2>2, <3>1 DEF Quiet, Holding, HasTask
  <2>5. ASSUME NEW c \in Clients, NEW d \in Clients PROVE Orderly(p, Older(l), q, Older(l), c, d)
    <3>1. d # None
      BY AsyncAssumption
    <3> HIDE DEF q
    <3> QED BY <2>2, <3>1, VacantOrder
  <2>6. \A e \in Clients : OnLane(q, e) => OnLane(p, e)
    BY <2>5 DEF Orderly
  <2>7. /\ q.admitted = q.settled + Cardinality(Sending(l)) + Len(q.ch) + Tasks(q)
        /\ \A c \in Sending(l) : ticket[c] <= q.admitted
        /\ \A i \in 1..Len(q.backlog) : q.backlog[i].cutoff <= q.admitted /\ (q.backlog[i].fence => stopped)
    <3>1. 1..Len(q.backlog) = {}
      BY <2>2
    <3>2. 0 = 0 + 0 + 0 + 0
      OBVIOUS
    <3> QED BY <2>2, <2>3, <3>1, <3>2
  <2> HIDE DEF q
  <2> QED BY <1>2, <1>5, <1>7, <2>4, <2>5, <2>6, <2>7, WorkerOrder DEF q
<1>8. CASE ~(p.sealed /\ p.backlog = <<>>)
  <2> DEFINE f == PassedFence(p)
  <2>1. q = [f EXCEPT !.worker = "select"] /\ f = PassedFence(p)
    BY <1>1, <1>8 DEF Wait
  <2> HIDE DEF f
  <2>2. /\ f \in LaneRecords /\ f.ch = p.ch /\ f.cur = p.cur /\ f.worker = p.worker /\ f.retired = p.retired
        /\ Len(f.backlog) = Len(p.backlog)
        /\ \A i \in 1..Len(p.backlog) : f.backlog[i].task = p.backlog[i].task
    BY <1>1, <2>1, Fenced
  <2>3. q.ch = f.ch /\ q.backlog = f.backlog /\ q.settled = f.settled /\ q.admitted = f.admitted
        /\ q.retired = f.retired /\ q.worker = "select" /\ q.cur = f.cur
    BY <2>1, <2>2 DEF LaneRecords
  <2>4. \A n \in Nat : Older(l)[n] <= Older(l)[n]
    BY <1>1 DEF Counts
  <2>5. p.settled + Len(p.ch) + Tasks(p) + Older(l)[p.admitted] <= p.admitted
    BY LaneFacts, TicketRoom
  <2>6. ASSUME NEW c, NEW d
        PROVE  Orderly(p, Older(l), f, Older(l), c, d) /\ f.settled = p.settled /\ f.admitted = p.admitted
               /\ \A i \in 1..Len(p.backlog) : f.backlog[i] = p.backlog[i] \/ f.backlog[i].cutoff = p.admitted
    <3> HIDE DEF p, q
    <3> QED BY <1>1, <2>1, <2>4, <2>5, FenceKeepsOrder
  <2>7. ASSUME NEW c \in Clients, NEW d \in Clients PROVE Orderly(p, Older(l), q, Older(l), c, d)
    <3>1. SameQueue(f, q) /\ q.cur = f.cur
      BY <1>2, <2>2, <2>3 DEF SameQueue
    <3>2. Orderly(f, Older(l), q, Older(l), c, d)
      BY <1>1, <1>5, <2>2, <2>4, <3>1, QueueKept
    <3> QED BY <2>6, <3>2 DEF Orderly
  <2>8. \A e \in Clients : OnLane(q, e) => OnLane(p, e)
    BY <2>7 DEF Orderly
  <2>9. Tasks(q) = 0 /\ Tasks(p) = 0
    BY <1>2, <2>3 DEF Tasks
  <2>10. ASSUME NEW i \in 1..Len(q.backlog)
         PROVE  q.backlog[i].cutoff <= q.admitted /\ (q.backlog[i].fence => stopped)
    <3>1. i \in 1..Len(p.backlog) /\ q.admitted = p.admitted
      BY <2>2, <2>3, <2>6
    <3>2. q.backlog[i] = p.backlog[i] \/ q.backlog[i].cutoff = p.admitted
      BY <2>3, <2>6, <3>1
    <3>3. f.backlog[i].fence => p.backlog[i].fence
      <4>1. CASE f = p
        BY <4>1
      <4>2. CASE f # p
        <5>1. SubmitFence
          BY <2>1, <4>2 DEF PassedFence
        <5>2. stopped
          BY <5>1 DEF SubmitFence
        <5> DEFINE b == [p.backlog EXCEPT ![1] = [p.backlog[1] EXCEPT !.fence = FALSE, !.cutoff = p.admitted, !.target = p.admitted]]
        <5>3. f = [p EXCEPT !.backlog = b]
          BY <2>1, <4>2 DEF PassedFence
        <5>4. f.backlog = b
          BY <1>1, <5>3 DEF LaneRecords
        <5>5. p.backlog[1] \in Entries /\ DOMAIN p.backlog = 1..Len(p.backlog) /\ Len(p.backlog) \in Nat
          BY <1>1, <3>1, EntryParts, LenProperties
        <5>6. CASE i = 1
          BY <5>4, <5>5, <5>6, <3>1 DEF Entries
        <5>7. CASE i # 1
          BY <5>4, <5>5, <5>7, <3>1
        <5> QED BY <5>6, <5>7
      <4> QED BY <4>1, <4>2
    <3>4. p.admitted <= p.admitted
      BY <1>1
    <3> QED BY <1>1, <2>3, <3>1, <3>2, <3>3, <3>4
  <2>11. Quiet(p) => Quiet(q)
    BY <1>2, <2>2, <2>3 DEF Quiet
  <2>12. \A x \in Admins : Holding(p, q, x)
    BY <1>2, <1>4, <2>2, <2>3 DEF Holding, HasTask
  <2>13. q.admitted = q.settled + Cardinality(Sending(l)) + Len(q.ch) + Tasks(q)
         /\ (\A c \in Sending(l) : ticket[c] <= q.admitted) /\ q.retired = p.retired
    BY <1>1, <2>2, <2>3, <2>6, <2>9
  <2> HIDE DEF q
  <2> QED BY <1>2, <1>5, <2>7, <2>8, <2>10, <2>11, <2>12, <2>13, WorkerOrder DEF q
<1> QED BY <1>6, <1>7, <1>8

\* Where d is: on the lane of the key, or with the section that holds the key.
LEMMA StillOwed ==
  ASSUME IInv, OrderInv, NEW c, NEW d, Awaits(c, d)
  PROVE  \/ \E l \in Lanes : l = queues[RouteOf[c]] /\ OnLane(lane[l], d)
         \/ \E x \in Admins : Postponed(sec[x], d) /\ KeyHeld(d, x)
<1>1. d \in Clients /\ d \in Owed /\ d \notin finished
  BY DEF Awaits, Owed
<1>2. Kept(d)
  BY <1>1 DEF IInv
<1>3. \A l \in Lanes : OnLane(lane[l], d) => queues[RouteOf[c]] = l
  BY <1>1 DEF OrderInv, RoutesInv, Awaits
<1>4. \A x \in Admins : Postponed(sec[x], d) => KeyHeld(d, x)
  BY DEF Awaits, Behind
<1> QED BY <1>1, <1>2, <1>3, <1>4 DEF Kept

\* A task that leaves the lane for the worker has nothing before it.
LEMMA HeadIsFirst ==
  ASSUME IInv, OrderInv, NEW l \in Lanes, NEW c, NEW d, Awaits(c, d),
         \/ /\ lane[l].worker = "loop" /\ lane[l].backlog # <<>> /\ Head(lane[l].backlog).task = c
            /\ Ready(PassedFence(lane[l]))
         \/ lane[l].worker = "select" /\ lane[l].ch # <<>> /\ Head(lane[l].ch) = c
  PROVE  FALSE
<1> DEFINE p == lane[l]
<1>1. /\ p \in LaneRecords /\ LaneShape(p) /\ Older(l) \in Counts
      /\ p.admitted = p.settled + Cardinality(Sending(l)) + Len(p.ch) + Tasks(p)
      /\ p.settled \in Nat /\ Cardinality(Sending(l)) \in Nat /\ Len(p.ch) \in Nat
      /\ Tasks(p) \in {0, 1} /\ p.admitted \in Nat
  BY LaneFacts
<1>2. c \in Clients /\ d \in Clients /\ RouteOf[c] = RouteOf[d] /\ Behind(c, d)
      /\ InChannel(p, c, d) /\ InBacklog(p, Older(l), c, d)
  BY DEF Awaits, Behind
<1>3. p.backlog \in Seq(Entries) /\ p.ch \in Seq(Clients) /\ Len(p.backlog) \in Nat
  BY <1>1, EntryParts
<1>4. OnLane(p, c) /\ p.cur = None /\ ~Quiet(p) /\ (\A x \in Admins : ~Holds(p, x)) /\ Tasks(p) = 0
  <2>1. OnLane(p, c)
    <3>1. CASE p.backlog # <<>> /\ Head(p.backlog).task = c
      BY <3>1, <1>3, TailEntries DEF OnLane, HasTask
    <3>2. CASE p.ch # <<>> /\ Head(p.ch) = c
      BY <3>2, <1>3, TailEntries DEF OnLane
    <3> QED BY <3>1, <3>2
  <2>2. p.worker \in {"loop", "select"} /\ p.cur = None /\ ~p.retired /\ Tasks(p) = 0
    BY <1>1 DEF LaneShape, Tasks
  <2>3. \A x \in Admins : x # c
    BY <1>2, AsyncAssumption
  <2> QED BY <2>1, <2>2, <2>3 DEF Quiet, Holds
<1>5. queues[RouteOf[c]] = l
  BY <1>2, <1>4 DEF OrderInv, RoutesInv
<1>6. \A x \in Admins : ~KeyHeld(d, x)
  <2>1. l # None
    BY AsyncAssumption
  <2> QED BY <1>2, <1>4, <1>5, <2>1 DEF KeyHeld
<1>7. OnLane(p, d)
  BY <1>5, <1>6, StillOwed
<1>8. d # None
  BY <1>2, AsyncAssumption
<1>9. CASE p.worker = "select" /\ p.ch # <<>> /\ Head(p.ch) = c
  <2>1. 1 \in 1..Len(p.ch) /\ p.ch[1] = c
    BY <1>3, <1>9, TailEntries
  <2>2. NotOwed(p, d) /\ \A i \in 1..Len(p.ch) : p.ch[i] = d => i < 1
    BY <1>2, <2>1 DEF InChannel
  <2>3. \A i \in 1..Len(p.ch) : ~(i < 1)
    BY <1>1
  <2> QED BY <1>4, <1>7, <1>8, <2>2, <2>3 DEF OnLane, HasTask, NotOwed
<1>10. CASE p.backlog # <<>> /\ Head(p.backlog).task = c /\ Ready(PassedFence(p))
  <2> DEFINE e == p.backlog[1]
             f == PassedFence(p)
  <2>1. 1 \in 1..Len(p.backlog) /\ Head(p.backlog) = e /\ e.task = c /\ e \in Entries
    BY <1>1, <1>3, <1>10, TailEntries, EntryParts
  <2>2. /\ \A i \in 1..Len(p.backlog) : p.backlog[i].task = d => i < 1
        /\ \A i \in 1..Len(p.ch) : p.ch[i] = d => Waits(p, Older(l), e, i)
    BY <1>2, <2>1 DEF InBacklog
  <2>3. \A i \in 1..Len(p.backlog) : ~(i < 1)
    BY <1>3
  <2>4. PICK i \in 1..Len(p.ch) : p.ch[i] = d
    BY <1>4, <1>7, <1>8, <2>2, <2>3 DEF OnLane, HasTask
  <2>5. p.settled + i + Tasks(p) + Older(l)[e.cutoff] <= e.target
    BY <2>2, <2>4 DEF Waits
  <2>6. i \in Nat /\ i >= 1 /\ i <= Len(p.ch) /\ Older(l)[e.cutoff] \in Nat /\ e.target \in Nat
    <3>1. i \in Nat /\ i >= 1 /\ i <= Len(p.ch)
      BY <1>1
    <3>2. e.cutoff \in Nat /\ e.target \in Nat
      BY <2>1 DEF Entries
    <3> HIDE DEF e
    <3>3. Older(l)[e.cutoff] \in Nat
      BY <1>1, <3>2 DEF Counts
    <3> QED BY <3>1, <3>2, <3>3
  <2>7. CASE e.fence /\ SubmitFence
    <3>1. f = [p EXCEPT !.backlog[1] = [@ EXCEPT !.fence = FALSE, !.cutoff = p.admitted, !.target = p.admitted]]
      BY <1>10, <2>1, <2>7 DEF PassedFence
    <3> DEFINE g == [e EXCEPT !.fence = FALSE, !.cutoff = p.admitted, !.target = p.admitted]
               b == [p.backlog EXCEPT ![1] = g]
    <3>2. f.backlog = b /\ f.settled = p.settled
      BY <1>1, <3>1 DEF LaneRecords
    <3>3. g \in Entries /\ g.target = p.admitted
      BY <1>1, <2>1 DEF Entries
    <3> HIDE DEF g
    <3>4. b[1] = g /\ b \in Seq(Entries)
      BY <1>3, <2>1, <3>3
    <3>5. f.backlog # <<>> /\ f.settled >= Head(f.backlog).target
      BY <1>10 DEF Ready
    <3>6. Head(b) = b[1]
      BY <3>2, <3>4, <3>5, TailEntries
    <3>7. p.settled >= p.admitted
      BY <3>2, <3>3, <3>4, <3>5, <3>6
    <3> QED
      <4> DEFINE k == Cardinality(Sending(l))
                 s == p.settled
                 a == p.admitted
                 h == Len(p.ch)
                 u == Tasks(p)
      <4>1. s \in Nat /\ k \in Nat /\ h \in Nat /\ u \in Nat /\ a \in Nat /\ a = s + k + h + u /\ s >= a /\ h >= 1
        BY <1>1, <2>6, <3>7
      <4> HIDE DEF k, s, a, h, u
      <4> QED BY <4>1
  <2>8. CASE ~(e.fence /\ SubmitFence)
    <3>1. f = p
      BY <2>1, <2>8 DEF PassedFence
    <3>2. p.settled >= e.target
      BY <1>10, <2>1, <3>1 DEF Ready
    <3> QED
      <4> DEFINE s == p.settled
                 u == Tasks(p)
                 w == Older(l)[e.cutoff]
                 g == e.target
      <4>1. s \in Nat /\ u \in Nat /\ w \in Nat /\ g \in Nat /\ i \in Nat /\ i >= 1 /\ s + i + u + w <= g /\ s >= g
        BY <1>1, <2>5, <2>6, <3>2
      <4> HIDE DEF s, u, w, g
      <4> QED BY <4>1
  <2> QED BY <2>7, <2>8
<1> QED BY <1>9, <1>10

LEMMA ReceiveOrder ==
  ASSUME IInv, IInv', OrderInv, NEW l \in Lanes, Receive(l), setup' = setup
  PROVE  OrderInv'
<1> DEFINE p == lane[l]
           q == lane'[l]
           t == Head(p.ch)
<1>1. /\ lane \in [Lanes -> LaneRecords] /\ p \in LaneRecords /\ LaneShape(p) /\ Older(l) \in Counts
      /\ p.admitted = p.settled + Cardinality(Sending(l)) + Len(p.ch) + Tasks(p)
      /\ p.settled \in Nat /\ Cardinality(Sending(l)) \in Nat /\ Len(p.ch) \in Nat
      /\ Tasks(p) \in {0, 1} /\ p.admitted \in Nat
      /\ \A c \in Sending(l) : ticket[c] <= p.admitted
      /\ \A i \in 1..Len(p.backlog) : p.backlog[i].cutoff <= p.admitted /\ (p.backlog[i].fence => stopped)
  BY LaneFacts
<1>2. /\ p.worker = "select" /\ p.cur = None /\ p.ch # <<>>
      /\ UNCHANGED <<setup, client, queues, control, section, finished>>
      /\ starts' = [starts EXCEPT ![t] = @ + 1] /\ starts \in [Clients -> Nat]
  BY <1>1 DEF Receive, LaneShape, IInv, TypeOK
<1>3. /\ q.ch = Tail(p.ch) /\ q.backlog = p.backlog /\ q.admitted = p.admitted
      /\ q.settled = p.settled /\ q.retired = p.retired /\ q.worker = "task" /\ q.cur = t
      /\ (\A m \in Lanes \ {l} : lane'[m] = lane[m])
  BY <1>1 DEF Receive, LaneRecords
<1>4. q \in LaneRecords
  BY DEF IInv, TypeOK
<1>5. t \in Clients /\ Len(q.ch) + 1 = Len(p.ch) /\ Len(q.ch) \in Nat /\ Tasks(p) = 0 /\ Tasks(q) = 1
      /\ t = p.ch[1] /\ 1 \in 1..Len(p.ch)
  <2>1. p.ch \in Seq(Clients)
    BY <1>1, EntryParts
  <2>2. t = p.ch[1] /\ 1 \in 1..Len(p.ch) /\ Len(q.ch) + 1 = Len(p.ch) /\ Len(q.ch) \in Nat
    BY <1>2, <1>3, <2>1, TailEntries
  <2> QED BY <1>1, <1>2, <1>3, <2>2, EntryParts DEF Tasks
<1>6. q.admitted = q.settled + Cardinality(Sending(l)) + Len(q.ch) + Tasks(q)
  <2> DEFINE a == p.admitted
             s == p.settled
             k == Cardinality(Sending(l))
             h == Len(q.ch)
  <2>1. a = s + k + (h + 1) + 0 /\ s \in Nat /\ k \in Nat /\ h \in Nat
    BY <1>1, <1>5
  <2>2. a = s + k + h + 1
    <3> HIDE DEF a, s, k, h
    <3> QED BY <2>1
  <2> QED BY <1>3, <1>5, <2>2
<1>7. Quiet(p) => Quiet(q)
  BY <1>2, <1>3 DEF Quiet
<1>8. \A x \in Admins : Holding(p, q, x)
  <2>1. \A x \in Admins : x # None /\ x # t
    BY <1>5, AsyncAssumption
  <2> QED BY <1>2, <1>3, <2>1 DEF Holding, Holds, HasTask
<1>9. SectionsAlike
  BY <1>2 DEF section, SectionsAlike
<1>10. ASSUME NEW c \in Clients, NEW d \in Clients PROVE Orderly(p, Older(l), q, Older(l), c, d)
  <2>1. p.worker # "task"
    BY <1>2
  <2> HIDE DEF q
  <2> QED BY <1>1, <1>2, <1>3, <1>4, <2>1, ReceiveKeepsOrder
<1>11. \A e \in Clients : OnLane(q, e) => OnLane(p, e)
  BY <1>10 DEF Orderly
<1>12. \A c, d \in Clients : Awaits(c, d) => starts'[c] = starts[c]
  <2> SUFFICES ASSUME NEW c \in Clients, NEW d \in Clients, Awaits(c, d) PROVE c # t
    BY <1>2
  <2> QED BY <1>2, HeadIsFirst
<1>13. \A e \in Clients : pc[e] = "idle" => starts'[e] = starts[e]
  <2> SUFFICES ASSUME NEW e \in Clients, pc[e] = "idle" PROVE e # t
    BY <1>2
  <2>1. ~OnLane(p, e)
    BY DEF OrderInv, FreshInv, OffLanes
  <2> QED BY <1>5, <2>1 DEF OnLane
<1>14. /\ \A c \in Sending(l) : ticket[c] <= q.admitted
       /\ \A i \in 1..Len(q.backlog) : q.backlog[i].cutoff <= q.admitted /\ (q.backlog[i].fence => stopped)
       /\ finished \subseteq finished'
  BY <1>1, <1>2, <1>3
<1> HIDE DEF q, t
<1> QED BY <1>2, <1>3, <1>4, <1>6, <1>7, <1>8, <1>9, <1>10, <1>11, <1>12, <1>13, <1>14, WorkerOrder DEF q

LEMMA TakeOrder ==
  ASSUME IInv, IInv', OrderInv, NEW l \in Lanes, Take(l), setup' = setup
  PROVE  OrderInv'
<1> DEFINE p == lane[l]
           q == lane'[l]
           t == Head(p.backlog).task
<1>1. /\ lane \in [Lanes -> LaneRecords] /\ p \in LaneRecords /\ LaneShape(p) /\ Older(l) \in Counts
      /\ p.admitted = p.settled + Cardinality(Sending(l)) + Len(p.ch) + Tasks(p)
      /\ \A c \in Sending(l) : ticket[c] <= p.admitted
      /\ \A i \in 1..Len(p.backlog) : p.backlog[i].cutoff <= p.admitted /\ (p.backlog[i].fence => stopped)
  BY LaneFacts
<1>2. /\ p.worker = "loop" /\ p.cur = None /\ Ready(PassedFence(p))
      /\ UNCHANGED <<setup, client, queues, control, finished>>
      /\ starts' = (IF Barrier(t) THEN starts ELSE [starts EXCEPT ![t] = @ + 1]) /\ starts \in [Clients -> Nat]
  BY <1>1 DEF Take, LaneShape, IInv, TypeOK
<1>3. /\ q.ch = p.ch /\ q.backlog = Tail(p.backlog) /\ q.admitted = p.admitted
      /\ q.settled = p.settled /\ q.retired = p.retired /\ q.cur = t
      /\ q.worker = (IF ~Barrier(t) THEN "release" ELSE IF hard THEN "parked" ELSE "barrier")
      /\ (\A m \in Lanes \ {l} : lane'[m] = lane[m])
  BY <1>1 DEF Take, LaneRecords
<1>4. q \in LaneRecords
  BY DEF IInv, TypeOK
<1>5. p.backlog # <<>>
  <2> DEFINE f == PassedFence(p)
  <2>1. f.backlog # <<>> /\ f = PassedFence(p)
    BY <1>2 DEF Ready
  <2> HIDE DEF f
  <2>2. f \in LaneRecords /\ Len(f.backlog) = Len(p.backlog)
    BY <1>1, <2>1, Fenced
  <2>3. f.backlog \in Seq(Entries) /\ p.backlog \in Seq(Entries)
    BY <1>1, <2>2 DEF LaneRecords
  <2> QED BY <2>1, <2>2, <2>3, EmptySeq
<1>6. /\ t = p.backlog[1].task /\ t \in Clients \cup Admins /\ 1 \in 1..Len(p.backlog)
      /\ \A i \in 1..Len(q.backlog) : q.backlog[i] = p.backlog[i + 1] /\ i + 1 \in 1..Len(p.backlog)
  <2>1. p.backlog \in Seq(Entries)
    BY <1>1, EntryParts
  <2>2. Head(p.backlog) = p.backlog[1] /\ 1 \in 1..Len(p.backlog)
        /\ \A i \in 1..Len(q.backlog) : q.backlog[i] = p.backlog[i + 1] /\ i + 1 \in 1..Len(p.backlog)
    BY <1>3, <1>5, <2>1, TailEntries
  <2>3. p.backlog[1] \in Entries
    BY <1>1, <2>2, EntryParts
  <2> QED BY <2>2, <2>3 DEF Entries
<1>7. Tasks(p) = 0 /\ Tasks(q) = 0 /\ p.worker # "task" /\ q.worker # "task"
  BY <1>2, <1>3 DEF Tasks
<1>8. Quiet(p) => Quiet(q)
  BY <1>2, <1>3 DEF Quiet
<1>9. \A x \in Admins : Holding(p, q, x)
  <2>0. \A u \in Clients \cup Admins : HasTask(q, u) <=> HasTask(p, u)
    BY <1>1, <1>2, <1>3, <1>4, <1>5, TakenTask
  <2>1. ASSUME NEW x \in Admins, Holds(p, x) PROVE q.worker \in {"barrier", "parked"} /\ q.cur = x
    <3>1. t = x
      BY <1>2, <2>1 DEF Holds
    <3> QED BY <1>3, <3>1 DEF Barrier
  <2> QED BY <1>2, <2>0, <2>1 DEF Holding, Holds
<1>10. SectionsAlike
  <2>1. CASE Barrier(t) /\ hard
    <3>1. sec' = [sec EXCEPT ![t].aborted = TRUE] /\ t \in Admins /\ sec \in [Admins -> SectionRecords]
      BY <2>1 DEF Take, Barrier, IInv, TypeOK, SectionTypes
    <3>2. \A x \in Admins : sec[x] \in SectionRecords
      BY <3>1
    <3> HIDE DEF t
    <3> QED BY <3>1, <3>2 DEF SectionsAlike, SectionRecords
  <2>2. CASE ~(Barrier(t) /\ hard)
    BY <2>2 DEF Take, SectionsAlike
  <2> QED BY <2>1, <2>2
<1>11. ASSUME NEW c \in Clients, NEW d \in Clients PROVE Orderly(p, Older(l), q, Older(l), c, d)
  <2> HIDE DEF q
  <2> QED BY <1>1, <1>3, <1>4, <1>5, <1>7, TakeKeepsOrder
<1>12. \A e \in Clients : OnLane(q, e) => OnLane(p, e)
  BY <1>11 DEF Orderly
<1>13. \A c, d \in Clients : Awaits(c, d) => starts'[c] = starts[c]
  <2> SUFFICES ASSUME NEW c \in Clients, NEW d \in Clients, Awaits(c, d) PROVE c # t
    BY <1>2
  <2> QED BY <1>2, <1>5, HeadIsFirst
<1>14. \A e \in Clients : pc[e] = "idle" => starts'[e] = starts[e]
  <2> SUFFICES ASSUME NEW e \in Clients, pc[e] = "idle" PROVE e # t
    BY <1>2
  <2>1. ~OnLane(p, e)
    BY DEF OrderInv, FreshInv, OffLanes
  <2> QED BY <1>6, <2>1 DEF OnLane, HasTask
<1>15. /\ \A c \in Sending(l) : ticket[c] <= q.admitted
       /\ \A i \in 1..Len(q.backlog) : q.backlog[i].cutoff <= q.admitted /\ (q.backlog[i].fence => stopped)
       /\ finished \subseteq finished'
       /\ q.admitted = q.settled + Cardinality(Sending(l)) + Len(q.ch) + Tasks(q)
  BY <1>1, <1>2, <1>3, <1>6, <1>7
<1> HIDE DEF q, t
<1> QED BY <1>2, <1>3, <1>4, <1>8, <1>9, <1>10, <1>11, <1>12, <1>13, <1>14, <1>15, WorkerOrder DEF q

LEMMA WorkerKeepsOrder ==
  ASSUME IInv, IInv', OrderInv, NEW l \in Lanes, Worker(l), setup' = setup
  PROVE  OrderInv'
BY TakeOrder, WaitOrder, ReceiveOrder, SeeOrder, FinishOrder, ParkOrder DEF Worker

-----------------------------------------------------------------------------
(* A client keeps the order: without touching a lane. *)

LEMMA ClientMoveOrder ==
  ASSUME IInv, OrderInv, NEW b \in Clients, pc[b] \notin {"idle", "done"}, pc'[b] # "idle",
         UNCHANGED <<setup, ticket, earlier, lane, queues, control, made, section>>, accepted' = accepted,
         \A e \in Clients \ {b} : pc'[e] = pc[e] /\ phase'[e] = phase[e] /\ at'[e] = at[e],
         \A m \in Lanes : Sending(m)' = Sending(m),
         at'[b] = at[b] \/ at'[b] \notin Lanes \/ at'[b] = queues[RouteOf[b]],
         pc'[b] \in {"stopped", "late", "lifecycle"} => stopped,
         pc'[b] = "late" => \/ pc[b] = "late" /\ at'[b] = at[b]
                            \/ at'[b] = queues[RouteOf[b]] /\ at'[b] # None,
         phase'[b] \in {phase[b], "release"},
         pc'[b] \in {"lifecycle", "admit", "send", "blocked"} =>
             \A d \in Clients : Awaits(b, d) => OnWayKept(b, d)
  PROVE  OrderInv'
<1> DEFINE l == ShardOf[RouteOf[b]]
<1>1. l \in Lanes
  BY AsyncAssumption
<1> HIDE DEF l
<1>2. lane[l] \in LaneRecords /\ TicketsAt(l) /\ \A i \in 1..Len(lane[l].backlog) : lane[l].backlog[i].fence => stopped
  BY <1>1, LaneFacts
<1>3. /\ TicketsAt(l)'
      /\ \A c, d : Orderly(lane[l], Older(l), lane'[l], Older(l)', c, d)
  BY <1>1, <1>2, LaneUntouched
<1>4. SectionsAlike
  BY DEF section, SectionsAlike
<1>5. ASSUME NEW d \in Clients, Awaits(b, d) PROVE OnWayKept(b, d)
  <2>1. CASE pc'[b] \in {"lifecycle", "admit", "send", "blocked"}
    BY <1>5, <2>1
  <2>2. CASE pc'[b] \notin {"lifecycle", "admit", "send", "blocked"}
    BY <2>2 DEF OnWayKept
  <2> QED BY <2>1, <2>2
<1>6. \A x \in Admins : Holding(lane[l], lane[l], x)
  BY SameHolding
<1>7. lane'[l] = lane[l] /\ \A m \in Lanes \ {l} : lane'[m] = lane[m]
  OBVIOUS
<1>8. \A e \in Clients \ {b} : pc'[e] = pc[e] /\ phase'[e] = phase[e] /\ at'[e] = at[e] /\ ticket'[e] = ticket[e]
  OBVIOUS
<1>9. \A m \in Lanes \ {l} : Sending(m)' = Sending(m) /\ \A c \in Sending(m) : ticket'[c] = ticket[c]
  OBVIOUS
<1>10. \A c, d \in Clients : Awaits(c, d) /\ d # b => Orderly(lane[l], Older(l), lane[l], Older(l)', c, d)
  BY <1>3, <1>7
<1>11. accepted \subseteq accepted' /\ UNCHANGED <<setup, earlier, queues, control, made>>
  OBVIOUS
<1>12. /\ IInv /\ OrderInv /\ pc[b] \notin {"idle", "done"} /\ pc'[b] # "idle"
       /\ at'[b] = at[b] \/ at'[b] \notin Lanes \/ at'[b] = queues[RouteOf[b]]
       /\ pc'[b] \in {"stopped", "late", "lifecycle"} => stopped
       /\ pc'[b] = "late" => \/ pc[b] = "late" /\ at'[b] = at[b]
                             \/ at'[b] = queues[RouteOf[b]] /\ at'[b] # None
  OBVIOUS
<1>13. \A d \in Clients : Awaits(b, d) => OnWayKept(b, d)
  BY <1>5
<1>14. TicketsAt(l)'
  BY <1>3
<1> DEFINE q == lane[l]
<1>15. q \in LaneRecords /\ lane'[l] = q /\ q.retired = lane[l].retired
  BY <1>2, <1>7
<1>16. (Quiet(lane[l]) => Quiet(q)) /\ \A x \in Admins : Holding(lane[l], q, x)
  BY <1>6
<1>17. \A i \in 1..Len(q.backlog) : q.backlog[i].fence => stopped
  BY <1>2
<1>18. \A e \in Clients : OnLane(q, e) => OnLane(lane[l], e) \/ (e = b /\ queues[RouteOf[b]] = l)
  OBVIOUS
<1>19. \A c, d \in Clients : Awaits(c, d) /\ d # b => Orderly(lane[l], Older(l), q, Older(l)', c, d)
  BY <1>10
<1> HIDE DEF q
<1> QED BY ONLY b \in Clients, <1>1, <1>4, <1>7, <1>8, <1>9, <1>11, <1>12, <1>13, <1>14, <1>15, <1>16, <1>17, <1>18, <1>19, ClientOrder

LEMMA FailFacts ==
  ASSUME IInv, OrderInv, NEW b \in Clients, Fail(b)
  PROVE  /\ \A e \in Clients \ {b} : pc'[e] = pc[e] /\ phase'[e] = phase[e] /\ at'[e] = at[e]
         /\ pc'[b] \in {"check", "register", "done"} /\ phase'[b] \in {phase[b], "release"}
         /\ pc'[b] # "done" => phase'[b] = "release"
         /\ at'[b] \notin Lanes \/ at'[b] = queues[RouteOf[b]]
<1>1. ClientTypes /\ None \notin Lanes /\ (~Dynamic => queues = ShardOf)
  BY AsyncAssumption DEF IInv, TypeOK, OrderInv, RoutesInv
<1> QED BY <1>1 DEF Fail, Goto, ClientTypes

LEMMA MoveOrder ==
  ASSUME IInv, OrderInv, NEW b \in Clients, NEW s \in ClientSteps, NEW a,
         pc[b] \notin {"idle", "done", "send", "blocked"}, s \notin {"idle", "send", "blocked"},
         UNCHANGED <<setup, phase, ticket, earlier, lane, queues, control, made, section>>, accepted' = accepted,
         pc' = [pc EXCEPT ![b] = s], at' = [at EXCEPT ![b] = a],
         a = at[b] \/ a \notin Lanes \/ a = queues[RouteOf[b]],
         s \in {"stopped", "late", "lifecycle"} => stopped,
         s = "late" => \/ pc[b] = "late" /\ a = at[b]
                       \/ a = queues[RouteOf[b]] /\ a # None,
         s = "lifecycle" => \A d \in Clients : Awaits(b, d) => OffLanes(d),
         s = "admit" => \A d \in Clients : Awaits(b, d) => \A l \in Lanes : NotOwed(lane[l], d)
  PROVE  OrderInv'
<1>1. ClientTypes
  BY DEF IInv, TypeOK
<1>2. pc'[b] = s /\ at'[b] = a /\ phase'[b] = phase[b]
      /\ \A e \in Clients \ {b} : pc'[e] = pc[e] /\ phase'[e] = phase[e] /\ at'[e] = at[e]
  BY <1>1 DEF ClientTypes
<1>3. \A m \in Lanes : Sending(m)' = Sending(m)
  BY <1>2, SameSending
<1>4. ASSUME NEW d \in Clients, Awaits(b, d) PROVE OnWayKept(b, d)
  BY <1>2, <1>4 DEF OnWayKept
<1> QED BY <1>2, <1>3, <1>4, ClientMoveOrder

LEMMA FailingOrder ==
  ASSUME IInv, OrderInv, NEW b \in Clients, pc[b] \notin {"idle", "done", "send", "blocked"}, Fail(b),
         UNCHANGED <<setup, ticket, earlier, lane, queues, control, made, section>>, accepted' = accepted
  PROVE  OrderInv'
<1>1. /\ \A e \in Clients \ {b} : pc'[e] = pc[e] /\ phase'[e] = phase[e] /\ at'[e] = at[e]
      /\ pc'[b] \in {"check", "register", "done"} /\ phase'[b] \in {phase[b], "release"}
      /\ at'[b] \notin Lanes \/ at'[b] = queues[RouteOf[b]]
  BY FailFacts
<1>2. \A m \in Lanes : Sending(m)' = Sending(m)
  BY <1>1, SameSending
<1> QED BY <1>1, <1>2, ClientMoveOrder

LEMMA RefusedOrder ==
  ASSUME IInv, OrderInv, NEW b \in Clients, pc[b] \in {"check", "read", "create"}, Refused(b), stopped,
         UNCHANGED <<setup, ticket, earlier, lane, queues, control, made, section>>, accepted' = accepted
  PROVE  OrderInv'
<1>1. CASE Fail(b)
  BY <1>1, FailingOrder
<1>2. CASE pc' = [pc EXCEPT ![b] = "stopped"] /\ UNCHANGED <<phase, registered, at>>
  <2>1. "stopped" \in ClientSteps
    BY DEF ClientSteps
  <2>2. at' = [at EXCEPT ![b] = at[b]] /\ UNCHANGED phase
    BY <1>2, Stays DEF IInv, TypeOK
  <2> QED BY <1>2, <2>1, <2>2, MoveOrder
<1> QED BY <1>1, <1>2 DEF Refused, Goto

LEMMA LeastIndex ==
  ASSUME NEW T, T \subseteq Nat, T # {}
  PROVE  \E x \in T : \A y \in T : x <= y
<1> DEFINE R == {ss \in Nat \X Nat : ss[1] < ss[2]}
<1>1. IsWellFoundedOn(R, Nat)
  BY NatLessThanWellFounded, Zenon DEF OpToRel
<1>2. ASSUME NEW x \in Nat, NEW y \in Nat, y < x PROVE <<y, x>> \in R
  <2>1. <<y, x>> \in Nat \X Nat /\ <<y, x>>[1] < <<y, x>>[2]
    BY <1>2
  <2> QED BY <2>1, Zenon DEF R
<1> HIDE DEF R
<1>3. PICK x \in T : \A y \in T : ~(<<y, x>> \in R)
  BY <1>1, WFMin, Zenon
<1>4. \A y \in T : ~(y < x)
  BY <1>2, <1>3
<1> QED BY <1>3, <1>4

\* Past the fence of its key a call finds no release that returned before it
\* began.
LEMMA FencePassed ==
  ASSUME IInv, OrderInv, NEW c \in Clients, NEW d \in Clients, Awaits(c, d), pc[c] = "fence",
         Unfenced(lane[at[c]], RouteOf[c]), NEW l \in Lanes
  PROVE  NotOwed(lane[l], d)
<1> DEFINE q == lane[at[c]]
           k == RouteOf[c]
           hits == {i \in DOMAIN q.backlog : KeyOfTask(q.backlog[i].task) = k}
<1>1. at[c] \in Lanes /\ phase[c] = "submit" /\ ~q.closed
  BY DEF IInv, ClientInv, Submitting
<1>2. q \in LaneRecords /\ ~q.retired
  BY <1>1 DEF IInv, TypeOK, LanesInv, LaneShape
<1>3. queues[k] = at[c]
  BY <1>1, <1>2 DEF OrderInv, RoutesInv
<1> SUFFICES ASSUME NEW i \in 1..Len(lane[l].backlog), lane[l].backlog[i].task = d PROVE FALSE
  BY DEF NotOwed
<1>4. l = at[c]
  <2>1. OnLane(lane[l], d)
    BY DEF OnLane, HasTask
  <2>2. RouteOf[d] = k
    BY DEF Awaits
  <2> QED BY <1>3, <2>1, <2>2 DEF OrderInv, RoutesInv
<1>5. DOMAIN q.backlog = 1..Len(q.backlog) /\ Len(q.backlog) \in Nat
  BY <1>2, EntryParts, LenProperties
<1>6. i \in hits /\ hits \subseteq Nat
  <2>1. KeyOfTask(d) = k
    BY AsyncAssumption DEF KeyOfTask, Barrier, Awaits
  <2> QED BY <1>4, <1>5, <2>1
<1>7. PICK m \in hits : \A h \in hits : m <= h
  <2> HIDE DEF hits
  <2> QED BY <1>6, LeastIndex
<1>8. q.backlog[m] \in PendingCleanup(q, k)
  BY <1>7 DEF PendingCleanup
<1>9. q.backlog[m].fence
  BY <1>8 DEF Unfenced
<1>10. m \in 1..i
  BY <1>5, <1>6, <1>7
<1>11. Unbarred(q, d)
  BY <1>1 DEF Awaits, Behind, OnItsWay
<1> QED BY <1>4, <1>9, <1>10, <1>11 DEF Unbarred

LEMMA CheckOrder ==
  ASSUME IInv, OrderInv, NEW c \in Clients, Check(c), setup' = setup PROVE OrderInv'
<1>1. pc[c] = "check" /\ UNCHANGED <<setup, ticket, earlier, lane, queues, control, made, section>> /\ accepted' = accepted
  BY DEF Check
<1>2. CASE stopped
  BY <1>1, <1>2, RefusedOrder DEF Check
<1>3. CASE ~stopped
  <2>1. pc' = [pc EXCEPT ![c] = "read"] /\ UNCHANGED <<phase, at>> /\ "read" \in ClientSteps
    BY <1>3 DEF Check, Goto, ClientSteps
  <2>2. at' = [at EXCEPT ![c] = at[c]]
    BY <2>1, Stays DEF IInv, TypeOK
  <2> QED BY <1>1, <2>1, <2>2, MoveOrder
<1> QED BY <1>2, <1>3

LEMMA FoundOrder ==
  ASSUME IInv, OrderInv, NEW c \in Clients, pc[c] \in {"read", "create"}, Found(c, queues[RouteOf[c]]),
         UNCHANGED <<setup, ticket, earlier, lane, queues, control, made, section>>, accepted' = accepted
  PROVE  OrderInv'
<1> DEFINE s == IF phase[c] = "submit" THEN "gate" ELSE "register"
<1>1. pc' = [pc EXCEPT ![c] = s] /\ at' = [at EXCEPT ![c] = queues[RouteOf[c]]] /\ UNCHANGED phase
      /\ s \in {"gate", "register"} /\ s \in ClientSteps
  BY DEF Found, Goto, ClientSteps
<1> HIDE DEF s
<1> QED BY <1>1, MoveOrder

LEMMA BarrierOrder ==
  ASSUME IInv, OrderInv, NEW c \in Clients, pc[c] \in {"read", "create", "barrier"},
         NEW s \in {"create", "barrier", "check"}, NEW a \in Clients \cup {None},
         pc' = [pc EXCEPT ![c] = s], at' = [at EXCEPT ![c] = a],
         UNCHANGED <<setup, phase, ticket, earlier, lane, queues, control, made, section>>, accepted' = accepted
  PROVE  OrderInv'
<1>1. s \in ClientSteps /\ a \notin Lanes
  BY AsyncAssumption DEF ClientSteps
<1> QED BY <1>1, MoveOrder

LEMMA ReadOrder ==
  ASSUME IInv, OrderInv, NEW c \in Clients, Read(c), setup' = setup PROVE OrderInv'
<1> DEFINE k == RouteOf[c]
<1>1. pc[c] = "read" /\ UNCHANGED <<setup, ticket, earlier, lane, queues, control, made, section>> /\ accepted' = accepted
      /\ barriers[k] \in Clients \cup {None} /\ (stopping => stopped)
  BY AsyncAssumption DEF Read, IInv, TypeOK, RoutingTypes, StopInv, SubmitFence
<1>2. CASE Live(queues[k])
  BY <1>1, <1>2, FoundOrder DEF Read
<1>3. CASE ~Live(queues[k]) /\ stopping
  BY <1>1, <1>3, RefusedOrder DEF Read
<1>4. CASE ~Live(queues[k]) /\ ~stopping
  <2> DEFINE s == IF barriers[k] = None THEN "create" ELSE "barrier"
  <2>1. pc' = [pc EXCEPT ![c] = s] /\ at' = [at EXCEPT ![c] = barriers[k]] /\ UNCHANGED phase
        /\ s \in {"create", "barrier", "check"}
    BY <1>4 DEF Read, Goto
  <2> HIDE DEF s
  <2> QED BY <1>1, <2>1, BarrierOrder
<1> QED BY <1>2, <1>3, <1>4

LEMMA PassBarrierOrder ==
  ASSUME IInv, OrderInv, NEW c \in Clients, PassBarrier(c), setup' = setup PROVE OrderInv'
BY BarrierOrder DEF PassBarrier, Goto

LEMMA PassFenceOrder ==
  ASSUME IInv, OrderInv, NEW c \in Clients, PassFence(c), setup' = setup PROVE OrderInv'
<1>1. pc[c] = "fence" /\ UNCHANGED <<setup, phase, ticket, earlier, lane, queues, control, made, section>> /\ accepted' = accepted
      /\ at' = at /\ pc' = [pc EXCEPT ![c] = "admit"] /\ Unfenced(lane[at[c]], RouteOf[c]) /\ "admit" \in ClientSteps
  BY DEF PassFence, Goto, ClientSteps
<1>2. at' = [at EXCEPT ![c] = at[c]]
  BY <1>1, Stays DEF IInv, TypeOK
<1>3. \A d \in Clients : Awaits(c, d) => \A l \in Lanes : NotOwed(lane[l], d)
  BY <1>1, FencePassed
<1> QED BY <1>1, <1>2, <1>3, MoveOrder

LEMMA RegisterOrder ==
  ASSUME IInv, OrderInv, NEW c \in Clients, Register(c), setup' = setup PROVE OrderInv'
<1> DEFINE s == IF stopped THEN "stopped" ELSE IF pc[c] = "limit" THEN "nolane" ELSE "enqueue"
<1>1. pc[c] \in {"register", "limit"} /\ UNCHANGED <<setup, phase, ticket, earlier, lane, queues, control, made, section>>
      /\ accepted' = accepted /\ at' = at /\ pc' = [pc EXCEPT ![c] = s] /\ s \in ClientSteps
      /\ s \in {"stopped", "nolane", "enqueue"} /\ (s = "stopped" => stopped)
  BY DEF Register, Goto, ClientSteps
<1>2. at' = [at EXCEPT ![c] = at[c]]
  BY <1>1, Stays DEF IInv, TypeOK
<1> HIDE DEF s
<1> QED BY <1>1, <1>2, MoveOrder

LEMMA BlockOrder ==
  ASSUME IInv, OrderInv, NEW c \in Clients, Block(c), setup' = setup PROVE OrderInv'
<1>1. pc[c] = "send" /\ UNCHANGED <<setup, ticket, earlier, lane, queues, control, made, section>> /\ accepted' = accepted
      /\ at' = at /\ phase' = phase /\ pc' = [pc EXCEPT ![c] = "blocked"] /\ pc \in [Clients -> ClientSteps]
  BY DEF Block, Goto, IInv, TypeOK, ClientTypes
<1>2. pc'[c] = "blocked" /\ \A e \in Clients \ {c} : pc'[e] = pc[e] /\ phase'[e] = phase[e] /\ at'[e] = at[e]
  BY <1>1
<1>3. \A m \in Lanes : Sending(m)' = Sending(m)
  BY <1>1, <1>2, SameSending
<1>4. \A d \in Clients : OnWayKept(c, d)
  BY <1>1, <1>2 DEF OnWayKept
<1> QED BY <1>1, <1>2, <1>3, <1>4, ClientMoveOrder

\* Without a lane in the map, or on a lane that is left, nothing of the key is
\* on any lane.
LEMMA NothingOnLanes ==
  ASSUME IInv, OrderInv, NEW d \in Clients,
         queues[RouteOf[d]] \in Lanes => \/ lane[queues[RouteOf[d]]].worker = "exited"
                                         \/ lane[queues[RouteOf[d]]].retired
  PROVE  OffLanes(d)
<1> SUFFICES ASSUME NEW l \in Lanes, OnLane(lane[l], d) PROVE FALSE
  BY DEF OffLanes
<1>1. queues[RouteOf[d]] = l
  BY DEF OrderInv, RoutesInv
<1>2. lane[l].worker = "exited" \/ lane[l].retired
  BY <1>1
<1>3. lane[l] \in LaneRecords /\ LaneShape(lane[l])
  BY LaneFacts
<1>4. lane[l].ch = <<>> /\ lane[l].backlog = <<>> /\ lane[l].cur = None
  BY <1>2, <1>3 DEF LaneShape
<1>5. Len(lane[l].ch) = 0 /\ Len(lane[l].backlog) = 0 /\ d # None
  BY <1>4, EmptySeq, AsyncAssumption
<1> QED BY <1>4, <1>5 DEF OnLane, HasTask

LEMMA StoppedLaneOrder ==
  ASSUME IInv, OrderInv, NEW c \in Clients, StoppedLane(c), setup' = setup PROVE OrderInv'
<1> DEFINE s == IF queues[RouteOf[c]] = None THEN "lifecycle" ELSE "late"
<1>1. pc[c] = "stopped" /\ UNCHANGED <<setup, phase, ticket, earlier, lane, queues, control, made, section>>
      /\ accepted' = accepted /\ at' = [at EXCEPT ![c] = queues[RouteOf[c]]] /\ pc' = [pc EXCEPT ![c] = s]
      /\ s \in ClientSteps /\ s \in {"lifecycle", "late"} /\ (s = "lifecycle" <=> queues[RouteOf[c]] = None)
  BY DEF StoppedLane, Goto, ClientSteps
<1>2. stopped
  BY <1>1 DEF OrderInv, RoutesInv
<1> HIDE DEF s
<1>3. ASSUME s = "lifecycle", NEW d \in Clients, Awaits(c, d) PROVE OffLanes(d)
  <2>1. queues[RouteOf[d]] = None /\ None \notin Lanes
    BY <1>1, <1>3, AsyncAssumption DEF Awaits
  <2> QED BY <2>1, NothingOnLanes
<1> QED BY <1>1, <1>2, <1>3, MoveOrder

-----------------------------------------------------------------------------
(* A client keeps the order: on its lane. *)

LEMMA SendingMoves ==
  ASSUME NEW b \in Clients, NEW l, at[b] = l, \A e \in Clients \ {b} : pc'[e] = pc[e] /\ at'[e] = at[e],
         pc'[b] \in {"send", "blocked"} => at'[b] = l
  PROVE  /\ \A m : m # l => Sending(m)' = Sending(m)
         /\ Sending(l)' = (IF pc'[b] \in {"send", "blocked"} THEN Sending(l) \cup {b} ELSE Sending(l) \ {b})
         /\ b \in Sending(l) <=> pc[b] \in {"send", "blocked"}
BY DEF Sending

\* Only the gate's readers change.
LEMMA ReadersOrder ==
  ASSUME IInv, OrderInv, NEW b \in Clients, pc[b] \in {"gate", "fence", "admit"}, NEW l \in Lanes, at[b] = l,
         NEW S \in SUBSET Clients, lane' = [lane EXCEPT ![l] = [lane[l] EXCEPT !.readers = S]],
         UNCHANGED <<setup, ticket, earlier, queues, control, made, section>>, accepted' = accepted,
         \A e \in Clients \ {b} : pc'[e] = pc[e] /\ phase'[e] = phase[e] /\ at'[e] = at[e],
         pc'[b] \in {"fence", "check", "register", "done"}, phase'[b] \in {phase[b], "release"},
         at'[b] = at[b] \/ at'[b] \notin Lanes \/ at'[b] = queues[RouteOf[b]]
  PROVE  OrderInv'
<1> DEFINE p == lane[l]
           q == [p EXCEPT !.readers = S]
<1>1. /\ lane \in [Lanes -> LaneRecords] /\ p \in LaneRecords /\ TicketsAt(l) /\ Older(l) \in Counts
      /\ \A i \in 1..Len(p.backlog) : p.backlog[i].fence => stopped
  BY LaneFacts
<1>q. q = [p EXCEPT !.readers = S]
  OBVIOUS
<1> HIDE DEF q
<1>2. /\ q \in LaneRecords
      /\ q.ch = p.ch /\ q.backlog = p.backlog /\ q.cur = p.cur /\ q.worker = p.worker
      /\ q.retired = p.retired /\ q.settled = p.settled
      /\ \A x : Holding(p, q, x)
      /\ \A d : OnLane(p, d) <=> OnLane(q, d)
  <2>1. p \in LaneRecords /\ S \in SUBSET Clients
    BY <1>1
  <2> HIDE DEF p
  <2> QED BY ONLY <2>1, <1>q, Readers
<1>3. q.admitted = p.admitted /\ Tasks(q) = Tasks(p) /\ (Quiet(p) => Quiet(q))
  BY <1>1, <1>2, <1>q DEF LaneRecords, Tasks, Quiet
<1>4. lane'[l] = q /\ \A m \in Lanes \ {l} : lane'[m] = lane[m]
  BY <1>1, <1>q
<1>5. \A m : Sending(m)' = Sending(m)
  <2>1. pc[b] \notin {"send", "blocked"} /\ pc'[b] \notin {"send", "blocked"}
    OBVIOUS
  <2> QED BY <2>1, SameSending
<1>6. Older(l)' = Older(l)
  BY <1>5, OlderSame
<1>7. TicketsAt(l)'
  BY <1>1, <1>2, <1>3, <1>4, <1>5 DEF TicketsAt
<1>8. ASSUME NEW c, NEW d PROVE Orderly(p, Older(l), q, Older(l)', c, d)
  <2>1. SameQueue(p, q) /\ (q.cur = d => p.cur = d)
    BY <1>2 DEF SameQueue
  <2>2. \A n \in Nat : Older(l)[n] <= Older(l)[n]
    BY <1>1 DEF Counts
  <2>3. Orderly(p, Older(l), q, Older(l), c, d)
    BY <1>1, <1>2, <2>1, <2>2, QueueKept
  <2> QED BY <1>6, <2>3
<1>9. SectionsAlike
  BY DEF section, SectionsAlike
<1>10. \A d \in Clients : OnWayKept(b, d)
  BY DEF OnWayKept
<1>11. /\ \A i \in 1..Len(q.backlog) : q.backlog[i].fence => stopped
       /\ \A e \in Clients : OnLane(q, e) => OnLane(lane[l], e) \/ (e = b /\ queues[RouteOf[b]] = l)
       /\ \A c, d \in Clients : Awaits(c, d) /\ d # b => Orderly(lane[l], Older(l), q, Older(l)', c, d)
       /\ \A d \in Clients : Awaits(b, d) => OnWayKept(b, d)
       /\ q.retired = lane[l].retired /\ (Quiet(lane[l]) => Quiet(q)) /\ \A x \in Admins : Holding(lane[l], q, x)
  BY <1>1, <1>2, <1>3, <1>8, <1>10
<1>12. /\ \A e \in Clients \ {b} : pc'[e] = pc[e] /\ phase'[e] = phase[e] /\ at'[e] = at[e] /\ ticket'[e] = ticket[e]
       /\ \A m \in Lanes \ {l} : Sending(m)' = Sending(m) /\ \A c \in Sending(m) : ticket'[c] = ticket[c]
  BY <1>5
<1>13. /\ IInv /\ OrderInv /\ pc[b] \notin {"idle", "done"} /\ pc'[b] # "idle" /\ accepted \subseteq accepted'
       /\ at'[b] = at[b] \/ at'[b] \notin Lanes \/ at'[b] = queues[RouteOf[b]]
       /\ pc'[b] \notin {"stopped", "late", "lifecycle"} /\ UNCHANGED <<setup, earlier, queues, control, made>>
  OBVIOUS
<1> QED BY ONLY b \in Clients, l \in Lanes, <1>2, <1>4, <1>7, <1>9, <1>11, <1>12, <1>13, ClientOrder

LEMMA GateOrder ==
  ASSUME IInv, OrderInv, NEW c \in Clients, Gate(c), setup' = setup PROVE OrderInv'
<1> DEFINE l == at[c]
<1>1. pc[c] = "gate" /\ l \in Lanes /\ UNCHANGED <<setup, phase, ticket, earlier, queues, control, made, section>>
      /\ accepted' = accepted /\ lane[l] \in LaneRecords /\ pc \in [Clients -> ClientSteps]
      /\ at \in [Clients -> Lanes \cup Clients \cup {None}]
  BY DEF Gate, IInv, ClientInv, Submitting, TypeOK, ClientTypes
<1>2. CASE lane[l].closed
  <2>1. pc' = [pc EXCEPT ![c] = "check"] /\ at' = [at EXCEPT ![c] = None] /\ lane' = lane
        /\ "check" \in ClientSteps /\ None \notin Lanes
    BY <1>2, AsyncAssumption DEF Gate, Goto, ClientSteps
  <2> QED BY <1>1, <2>1, MoveOrder
<1>3. CASE ~lane[l].closed
  <2> DEFINE S == lane[l].readers \cup {c}
  <2>1. pc' = [pc EXCEPT ![c] = "fence"] /\ at' = at /\ lane' = [lane EXCEPT ![l].readers = @ \cup {c}]
    BY <1>3 DEF Gate, Goto
  <2>2. S \in SUBSET Clients
    BY <1>1 DEF LaneRecords
  <2>3. lane' = [lane EXCEPT ![l] = [lane[l] EXCEPT !.readers = S]]
    BY <2>1
  <2>4. pc'[c] = "fence" /\ at'[c] = at[c] /\ phase'[c] = phase[c]
        /\ \A e \in Clients \ {c} : pc'[e] = pc[e] /\ phase'[e] = phase[e] /\ at'[e] = at[e]
    BY <1>1, <2>1
  <2> HIDE DEF S, l
  <2>5. l = at[c]
    BY DEF l
  <2> QED BY <1>1, <2>2, <2>3, <2>4, <2>5, ReadersOrder
<1> QED BY <1>2, <1>3

LEMMA FenceFailsOrder ==
  ASSUME IInv, OrderInv, NEW c \in Clients, FenceFails(c) \/ Expired(c), setup' = setup PROVE OrderInv'
<1> DEFINE l == at[c]
           S == lane[l].readers \ {c}
<1>1. pc[c] \in {"fence", "admit"} /\ l \in Lanes /\ UNCHANGED <<setup, ticket, earlier, queues, control, made, section>>
      /\ accepted' = accepted /\ lane[l] \in LaneRecords /\ Fail(c)
      /\ lane' = [lane EXCEPT ![l] = Leave(@, c)]
  BY DEF FenceFails, Expired, IInv, ClientInv, Submitting, TypeOK
<1>2. lane' = [lane EXCEPT ![l] = [lane[l] EXCEPT !.readers = S]] /\ S \in SUBSET Clients
  BY <1>1 DEF Leave, LaneRecords
<1>3. /\ \A e \in Clients \ {c} : pc'[e] = pc[e] /\ phase'[e] = phase[e] /\ at'[e] = at[e]
      /\ pc'[c] \in {"check", "register", "done"} /\ phase'[c] \in {phase[c], "release"}
      /\ at'[c] \notin Lanes \/ at'[c] = queues[RouteOf[c]]
  BY <1>1, FailFacts
<1> HIDE DEF S, l
<1>4. l = at[c]
  BY DEF l
<1> QED BY <1>1, <1>2, <1>3, <1>4, ReadersOrder, ZenonT(60)

LEMMA HoldingSame ==
  ASSUME NEW p, NEW q, q.backlog = p.backlog, q.cur = p.cur, q.worker = p.worker, q.settled = p.settled
  PROVE  \A x : Holding(p, q, x)
BY DEF Holding, HasTask, Holds, Ready

\* The tickets of a lane, as its client b joins or leaves those that send.
LEMMA TicketsMove ==
  ASSUME NEW b \in Clients, NEW l, NEW p, NEW q, p = lane[l], q = lane'[l], p \in LaneRecords, q \in LaneRecords,
         TicketsAt(l), ticket \in [Clients -> Nat],
         \A e \in Clients \ {b} : pc'[e] = pc[e] /\ at'[e] = at[e] /\ ticket'[e] = ticket[e],
         q.admitted + p.settled + Len(p.ch) + Tasks(p) + (IF b \in Sending(l) THEN 1 ELSE 0)
            = p.admitted + q.settled + Len(q.ch) + Tasks(q) + (IF b \in Sending(l)' THEN 1 ELSE 0),
         p.admitted <= q.admitted, b \in Sending(l)' => ticket'[b] <= q.admitted,
         \A i \in 1..Len(q.backlog) : q.backlog[i].cutoff <= q.admitted
  PROVE  TicketsAt(l)'
<1>1. Cardinality(Sending(l)') + (IF b \in Sending(l) THEN 1 ELSE 0)
            = Cardinality(Sending(l)) + (IF b \in Sending(l)' THEN 1 ELSE 0)
  BY SendingCount
<1>2. Cardinality(Sending(l)) \in Nat /\ Cardinality(Sending(l)') \in Nat
  BY SendingFinite
<1>3. /\ p.settled \in Nat /\ p.admitted \in Nat /\ Len(p.ch) \in Nat /\ Tasks(p) \in Nat
      /\ q.settled \in Nat /\ q.admitted \in Nat /\ Len(q.ch) \in Nat /\ Tasks(q) \in Nat
  <2>1. Tasks(p) \in Nat /\ Tasks(q) \in Nat
    BY DEF Tasks
  <2> QED BY <2>1, EntryParts
<1>4. p.admitted = p.settled + Cardinality(Sending(l)) + Len(p.ch) + Tasks(p)
  BY DEF TicketsAt
<1>5. q.admitted = q.settled + Cardinality(Sending(l)') + Len(q.ch) + Tasks(q)
  <2> DEFINE A == Cardinality(Sending(l))
             B == Cardinality(Sending(l)')
             u == IF b \in Sending(l) THEN 1 ELSE 0
             v == IF b \in Sending(l)' THEN 1 ELSE 0
             pa == p.admitted
             ps == p.settled
             pn == Len(p.ch)
             pt == Tasks(p)
             qa == q.admitted
             qs == q.settled
             qn == Len(q.ch)
             qt == Tasks(q)
  <2>1. A \in Nat /\ B \in Nat /\ u \in Nat /\ v \in Nat /\ B + u = A + v
        /\ pa \in Nat /\ ps \in Nat /\ pn \in Nat /\ pt \in Nat
        /\ qa \in Nat /\ qs \in Nat /\ qn \in Nat /\ qt \in Nat
        /\ pa = ps + A + pn + pt /\ qa + ps + pn + pt + u = pa + qs + qn + qt + v
    BY <1>1, <1>2, <1>3, <1>4
  <2>2. qa = qs + B + qn + qt
    <3> HIDE DEF A, B, u, v, pa, ps, pn, pt, qa, qs, qn, qt
    <3> QED BY ONLY <2>1
  <2> QED BY <2>2
<1>6. ASSUME NEW e \in Sending(l)' PROVE ticket'[e] <= q.admitted
  <2>1. CASE e = b
    BY <1>6, <2>1
  <2>2. CASE e # b
    <3>1. e \in Clients \ {b} /\ e \in Sending(l)
      BY <1>6, <2>2 DEF Sending
    <3>2. ticket'[e] = ticket[e] /\ ticket[e] <= p.admitted
      BY <3>1 DEF TicketsAt
    <3>3. ticket[e] \in Nat
      BY <3>1
    <3> QED BY <3>2, <3>3, <1>3, SMTT(60)
  <2> QED BY <2>1, <2>2
<1> QED BY <1>5, <1>6 DEF TicketsAt

LEMMA AdmitOrder ==
  ASSUME IInv, IInv', OrderInv, NEW b \in Clients, NEW l \in Lanes, l = at[b], admitTask(b), setup' = setup PROVE OrderInv'
<1> DEFINE p == lane[l]
           q == [p EXCEPT !.admitted = @ + 1, !.pending = @ + 1]
<1>1. /\ pc[b] = "admit" /\ l \in Lanes /\ UNCHANGED <<setup, phase, at, earlier, queues, control, made, section>>
      /\ accepted' = accepted /\ lane' = [lane EXCEPT ![l] = q] /\ ticket' = [ticket EXCEPT ![b] = p.admitted + 1]
      /\ pc' = [pc EXCEPT ![b] = "send"] /\ pc \in [Clients -> ClientSteps] /\ ticket \in [Clients -> Nat]
  BY DEF admitTask, Goto, IInv, ClientInv, Submitting, TypeOK, ClientTypes
<1>2. /\ lane \in [Lanes -> LaneRecords] /\ p \in LaneRecords /\ TicketsAt(l) /\ Older(l) \in Counts
      /\ \A i \in 1..Len(p.backlog) : p.backlog[i].cutoff <= p.admitted /\ (p.backlog[i].fence => stopped)
  BY <1>1, LaneFacts
<1>3. /\ q.ch = p.ch /\ q.backlog = p.backlog /\ q.cur = p.cur /\ q.worker = p.worker
      /\ q.retired = p.retired /\ q.settled = p.settled /\ q.admitted = p.admitted + 1
  BY <1>2 DEF LaneRecords
<1>4. lane'[l] = q /\ (\A m \in Lanes \ {l} : lane'[m] = lane[m]) /\ p = lane[l] /\ l = at[b]
  BY <1>1, <1>2
<1>5. q \in LaneRecords
  BY <1>1, <1>4 DEF IInv, TypeOK
<1>6. /\ pc'[b] = "send" /\ ticket'[b] = p.admitted + 1
      /\ \A e \in Clients \ {b} : /\ pc'[e] = pc[e] /\ phase'[e] = phase[e] /\ at'[e] = at[e]
                                  /\ ticket'[e] = ticket[e]
  BY <1>1
<1> HIDE DEF q, p
<1>7. /\ \A m : m # l => Sending(m)' = Sending(m)
      /\ Sending(l)' = Sending(l) \cup {b} /\ b \notin Sending(l)
  BY <1>1, <1>4, <1>6, SendingMoves
<1>n. /\ p.settled \in Nat /\ p.admitted \in Nat /\ Len(p.ch) \in Nat /\ Tasks(p) \in Nat
      /\ \A i \in 1..Len(p.backlog) : p.backlog[i].cutoff \in Nat
  <2>1. Tasks(p) \in Nat
    BY DEF Tasks
  <2> QED BY <2>1, <1>2, EntryParts
<1>t. Tasks(q) = Tasks(p) /\ (Quiet(p) => Quiet(q)) /\ (\A d : OnLane(q, d) <=> OnLane(p, d))
  BY <1>3 DEF Tasks, Quiet, OnLane, HasTask
<1>8. TicketsAt(l)'
  <2>1. q.admitted + p.settled + Len(p.ch) + Tasks(p) + (IF b \in Sending(l) THEN 1 ELSE 0)
            = p.admitted + q.settled + Len(q.ch) + Tasks(q) + (IF b \in Sending(l)' THEN 1 ELSE 0)
    <3>1. (IF b \in Sending(l) THEN 1 ELSE 0) = 0 /\ (IF b \in Sending(l)' THEN 1 ELSE 0) = 1
      BY <1>7
    <3>2. q.admitted = p.admitted + 1 /\ q.settled = p.settled /\ Len(q.ch) = Len(p.ch) /\ Tasks(q) = Tasks(p)
      BY <1>3, <1>t
    <3> DEFINE a == p.admitted
               n == p.settled
               w == Len(p.ch)
               u == Tasks(p)
    <3>3. a \in Nat /\ n \in Nat /\ w \in Nat /\ u \in Nat
      BY <1>n
    <3>4. (a + 1) + n + w + u + 0 = a + n + w + u + 1
      <4> HIDE DEF a, n, w, u
      <4> QED BY ONLY <3>3
    <3> QED BY <3>1, <3>2, <3>4
  <2>2. p.admitted <= q.admitted /\ ticket'[b] <= q.admitted
    BY <1>3, <1>6, <1>n
  <2>3. \A i \in 1..Len(q.backlog) : q.backlog[i].cutoff <= q.admitted
    BY <1>2, <1>3, <1>n
  <2>4. q = lane'[l] /\ ticket \in [Clients -> Nat]
        /\ \A e \in Clients \ {b} : pc'[e] = pc[e] /\ at'[e] = at[e] /\ ticket'[e] = ticket[e]
    BY <1>1, <1>4, <1>6
  <2> QED BY ONLY b \in Clients, <1>2, <1>4, <1>5, <2>1, <2>2, <2>3, <2>4, TicketsMove
<1>9. \A n \in Nat : n <= p.admitted => Older(l)'[n] = Older(l)[n]
  <2>1. \A d \in Sending(l) : ticket'[d] = ticket[d]
    BY <1>6, <1>7 DEF Sending
  <2> QED BY <1>6, <1>7, <1>n, <2>1, OlderJoins
<1>10. Older(l)' \in Counts
  BY OlderCounts
<1>11. ASSUME NEW c, NEW d PROVE Orderly(p, Older(l), q, Older(l)', c, d)
  <2>1. \A i \in 1..Len(p.backlog) : p.backlog[i].cutoff <= p.admitted
    BY <1>2
  <2> QED BY ONLY <1>2, <1>3, <1>5, <1>9, <1>10, <2>1, AdmitKeepsOrder
<1>12. \A x : Holding(p, q, x)
  BY ONLY <1>3, HoldingSame
<1>13. SectionsAlike /\ \A d \in Clients : OnWayKept(b, d)
  BY <1>1, <1>6 DEF section, SectionsAlike, OnWayKept
<1>14. /\ \A i \in 1..Len(q.backlog) : q.backlog[i].fence => stopped
       /\ \A e \in Clients : OnLane(q, e) => OnLane(lane[l], e) \/ (e = b /\ queues[RouteOf[b]] = l)
       /\ \A c, d \in Clients : Awaits(c, d) /\ d # b => Orderly(lane[l], Older(l), q, Older(l)', c, d)
       /\ \A d \in Clients : Awaits(b, d) => OnWayKept(b, d)
       /\ q.retired = lane[l].retired /\ (Quiet(lane[l]) => Quiet(q)) /\ \A x \in Admins : Holding(lane[l], q, x)
  BY <1>2, <1>3, <1>4, <1>t, <1>11, <1>12, <1>13
<1>15. \A m \in Lanes \ {l} : Sending(m)' = Sending(m) /\ \A c \in Sending(m) : ticket'[c] = ticket[c]
  BY <1>1, <1>4, <1>6, <1>7 DEF Sending
<1>16. /\ IInv /\ OrderInv /\ pc[b] \notin {"idle", "done"} /\ pc'[b] # "idle" /\ accepted \subseteq accepted'
       /\ at'[b] = at[b] \/ at'[b] \notin Lanes \/ at'[b] = queues[RouteOf[b]]
       /\ pc'[b] \notin {"stopped", "late", "lifecycle"} /\ UNCHANGED <<setup, earlier, queues, control, made>>
  BY <1>1, <1>6
<1> QED BY ONLY b \in Clients, <1>1, <1>4, <1>5, <1>6, <1>8, <1>13, <1>14, <1>15, <1>16, ClientOrder

LEMMA SendFailsOrder ==
  ASSUME IInv, IInv', OrderInv, NEW b \in Clients, NEW l \in Lanes, l = at[b], SendFails(b), setup' = setup PROVE OrderInv'
<1> DEFINE p == lane[l]
           t == ticket[b]
           r == unmarkSent(p, t)
           q == Leave(r, b)
<1>1. /\ pc[b] = "blocked" /\ l \in Lanes /\ UNCHANGED <<setup, ticket, earlier, queues, control, made, section>>
      /\ accepted' = accepted /\ lane' = [lane EXCEPT ![l] = q] /\ Fail(b) /\ ticket \in [Clients -> Nat] /\ t \in Nat
  BY DEF SendFails, IInv, ClientInv, Submitting, TypeOK, ClientTypes
<1>2. /\ lane \in [Lanes -> LaneRecords] /\ p \in LaneRecords /\ TicketsAt(l) /\ Older(l) \in Counts
      /\ \A i \in 1..Len(p.backlog) : p.backlog[i].cutoff <= p.admitted /\ (p.backlog[i].fence => stopped)
  BY <1>1, LaneFacts
<1>4. /\ lane'[l] = q /\ (\A m \in Lanes \ {l} : lane'[m] = lane[m]) /\ p = lane[l] /\ l = at[b]
      /\ t = ticket[b] /\ r = unmarkSent(p, t) /\ q = Leave(r, b)
  BY <1>1, <1>2
<1>5. q \in LaneRecords
  BY <1>1, <1>4 DEF IInv, TypeOK
<1>3. /\ r.settled = p.settled + 1 /\ r.admitted = p.admitted /\ Len(r.backlog) = Len(p.backlog)
      /\ \A i \in 1..Len(p.backlog) : r.backlog[i].cutoff = p.backlog[i].cutoff /\ r.backlog[i].fence = p.backlog[i].fence
  <2>1. p.backlog \in Seq(Entries) /\ DOMAIN p.backlog = 1..Len(p.backlog)
    BY <1>2 DEF LaneRecords
  <2>2. /\ r.settled = p.settled + 1 /\ r.admitted = p.admitted
        /\ r.backlog = [i \in 1..Len(p.backlog) |->
                  IF t > p.backlog[i].cutoff THEN [p.backlog[i] EXCEPT !.target = @ + 1]
                                             ELSE p.backlog[i]]
    BY <1>2, <2>1 DEF LaneRecords, unmarkSent
  <2>3. \A i \in 1..Len(p.backlog) : p.backlog[i] \in Entries
    BY <1>2, EntryParts
  <2>4. Len(r.backlog) = Len(p.backlog)
    <3> HIDE DEF p, r, t
    <3> QED BY <1>1, <1>2, <1>4, Unmarked
  <2>5. ASSUME NEW i \in 1..Len(p.backlog)
        PROVE  r.backlog[i].cutoff = p.backlog[i].cutoff /\ r.backlog[i].fence = p.backlog[i].fence
    <3>1. r.backlog[i] = IF t > p.backlog[i].cutoff THEN [p.backlog[i] EXCEPT !.target = @ + 1] ELSE p.backlog[i]
      BY <2>2
    <3> HIDE DEF p, r, t
    <3> QED BY <2>3, <3>1 DEF Entries
  <2> QED BY <2>2, <2>4, <2>5
<1>6. /\ \A e \in Clients \ {b} : pc'[e] = pc[e] /\ phase'[e] = phase[e] /\ at'[e] = at[e] /\ ticket'[e] = ticket[e]
      /\ pc'[b] \in {"check", "register", "done"} /\ phase'[b] \in {phase[b], "release"}
      /\ (pc'[b] # "done" => phase'[b] = "release")
      /\ at'[b] \notin Lanes \/ at'[b] = queues[RouteOf[b]]
  BY <1>1, FailFacts
<1> HIDE DEF q, r, p, t
<1>r. r \in LaneRecords /\ r.ch = p.ch /\ r.cur = p.cur /\ r.worker = p.worker /\ r.retired = p.retired
      /\ (\A u : HasTask(r, u) <=> HasTask(p, u)) /\ (\A x : Holds(p, x) => Holds(r, x))
  BY <1>1, <1>2, <1>4, Unmarked
<1>q. /\ q.ch = r.ch /\ q.backlog = r.backlog /\ q.cur = r.cur /\ q.worker = r.worker
      /\ q.retired = r.retired /\ q.settled = r.settled /\ q.admitted = r.admitted
  BY <1>4, <1>r DEF Leave, LaneRecords
<1>7. /\ \A m : m # l => Sending(m)' = Sending(m)
      /\ Sending(l)' = Sending(l) \ {b} /\ b \in Sending(l)
  BY <1>1, <1>4, <1>6, SendingMoves
<1>n. /\ p.settled \in Nat /\ p.admitted \in Nat /\ Len(p.ch) \in Nat /\ Tasks(p) \in Nat
      /\ \A i \in 1..Len(p.backlog) : p.backlog[i].cutoff \in Nat
  <2>1. Tasks(p) \in Nat
    BY DEF Tasks
  <2> QED BY <2>1, <1>2, EntryParts
<1>t. Tasks(q) = Tasks(p) /\ (Quiet(p) => Quiet(q)) /\ (\A d : OnLane(q, d) <=> OnLane(p, d))
  <2>1. Tasks(q) = Tasks(p) /\ (Quiet(p) => Quiet(q))
    BY <1>q, <1>r DEF Tasks, Quiet
  <2>2. \A d : HasTask(q, d) <=> HasTask(p, d)
    BY <1>q, <1>r DEF HasTask
  <2> QED BY <2>1, <2>2, <1>q, <1>r DEF OnLane
<1>8. TicketsAt(l)'
  <2>1. q.admitted + p.settled + Len(p.ch) + Tasks(p) + (IF b \in Sending(l) THEN 1 ELSE 0)
            = p.admitted + q.settled + Len(q.ch) + Tasks(q) + (IF b \in Sending(l)' THEN 1 ELSE 0)
    BY <1>3, <1>7, <1>n, <1>t, <1>q, <1>r
  <2>2. p.admitted <= q.admitted /\ b \notin Sending(l)'
    BY <1>3, <1>q, <1>n, <1>7
  <2>3. \A i \in 1..Len(q.backlog) : q.backlog[i].cutoff <= q.admitted
    BY <1>2, <1>3, <1>q
  <2>4. q = lane'[l] /\ ticket \in [Clients -> Nat]
        /\ \A e \in Clients \ {b} : pc'[e] = pc[e] /\ at'[e] = at[e] /\ ticket'[e] = ticket[e]
    BY <1>1, <1>4, <1>6
  <2> QED BY ONLY b \in Clients, <1>2, <1>4, <1>5, <2>1, <2>2, <2>3, <2>4, TicketsMove
<1>9. \A n \in Nat : Older(l)'[n] + (IF t <= n THEN 1 ELSE 0) = Older(l)[n]
  BY <1>1, <1>4, <1>7, OlderLeaves
<1>10. Older(l)' \in Counts
  BY OlderCounts
<1>11. ASSUME NEW c, NEW d PROVE Orderly(p, Older(l), q, Older(l)', c, d)
  <2>1. Orderly(p, Older(l), r, Older(l)', c, d)
    BY ONLY <1>1, <1>2, <1>4, <1>9, <1>10, UnmarkKeepsOrder
  <2>2. SameQueue(r, q) /\ (q.cur = d => r.cur = d)
    BY <1>q DEF SameQueue
  <2>3. \A n \in Nat : Older(l)'[n] <= Older(l)'[n]
    BY <1>10 DEF Counts
  <2>4. Orderly(r, Older(l)', q, Older(l)', c, d)
    BY ONLY <1>r, <1>5, <1>10, <2>2, <2>3, QueueKept
  <2> QED BY <2>1, <2>4 DEF Orderly
<1>12. \A x : Holding(p, q, x)
  <2>1. \A x : Holding(p, r, x)
    BY <1>r DEF Holding
  <2>2. \A x : Holding(r, q, x)
    BY ONLY <1>q, HoldingSame
  <2> QED BY <2>1, <2>2 DEF Holding
<1>13. SectionsAlike /\ \A d \in Clients : OnWayKept(b, d)
  BY <1>1, <1>6 DEF section, SectionsAlike, OnWayKept
<1>14. /\ \A i \in 1..Len(q.backlog) : q.backlog[i].fence => stopped
       /\ \A e \in Clients : OnLane(q, e) => OnLane(lane[l], e) \/ (e = b /\ queues[RouteOf[b]] = l)
       /\ \A c, d \in Clients : Awaits(c, d) /\ d # b => Orderly(lane[l], Older(l), q, Older(l)', c, d)
       /\ \A d \in Clients : Awaits(b, d) => OnWayKept(b, d)
       /\ q.retired = lane[l].retired /\ (Quiet(lane[l]) => Quiet(q)) /\ \A x \in Admins : Holding(lane[l], q, x)
  BY <1>2, <1>3, <1>4, <1>r, <1>q, <1>t, <1>11, <1>12, <1>13, SMTT(60)
<1>15. \A m \in Lanes \ {l} : Sending(m)' = Sending(m) /\ \A c \in Sending(m) : ticket'[c] = ticket[c]
  BY <1>1, <1>7
<1>16. /\ IInv /\ OrderInv /\ pc[b] \notin {"idle", "done"} /\ pc'[b] # "idle" /\ accepted \subseteq accepted'
       /\ at'[b] = at[b] \/ at'[b] \notin Lanes \/ at'[b] = queues[RouteOf[b]]
       /\ pc'[b] \notin {"stopped", "late", "lifecycle"} /\ UNCHANGED <<setup, earlier, queues, control, made>>
  BY <1>1, <1>6
<1> QED BY ONLY b \in Clients, <1>1, <1>4, <1>5, <1>6, <1>8, <1>13, <1>14, <1>15, <1>16, ClientOrder

LEMMA SendOrder ==
  ASSUME IInv, IInv', OrderInv, NEW b \in Clients, NEW l \in Lanes, l = at[b], Send(b), setup' = setup PROVE OrderInv'
<1> DEFINE p == lane[l]
           h == Append(p.ch, b)
           q == Leave([p EXCEPT !.ch = h], b)
<1>1. /\ pc[b] \in {"send", "blocked"} /\ UNCHANGED <<setup, phase, ticket, earlier, queues, control, made, section>>
      /\ accepted' = accepted \cup {b} /\ lane' = [lane EXCEPT ![l] = q] /\ ticket \in [Clients -> Nat]
      /\ at' = [at EXCEPT ![b] = None] /\ pc' = [pc EXCEPT ![b] = "done"] /\ pc \in [Clients -> ClientSteps]
      /\ at \in [Clients -> Lanes \cup Clients \cup {None}] /\ None \notin Lanes
  BY AsyncAssumption DEF Send, Goto, IInv, TypeOK, ClientTypes
<1>2. /\ lane \in [Lanes -> LaneRecords] /\ p \in LaneRecords /\ TicketsAt(l) /\ Older(l) \in Counts
      /\ \A i \in 1..Len(p.backlog) : p.backlog[i].cutoff <= p.admitted /\ (p.backlog[i].fence => stopped)
  BY LaneFacts
<1>3. /\ q.ch = h /\ q.backlog = p.backlog /\ q.cur = p.cur /\ q.worker = p.worker
      /\ q.retired = p.retired /\ q.settled = p.settled /\ q.admitted = p.admitted
  BY <1>2 DEF LaneRecords, Leave
<1>4. lane'[l] = q /\ (\A m \in Lanes \ {l} : lane'[m] = lane[m]) /\ p = lane[l]
  BY <1>1, <1>2
<1>5. q \in LaneRecords
  BY <1>4 DEF IInv, TypeOK
<1>6. /\ pc'[b] = "done" /\ at'[b] = None
      /\ \A e \in Clients \ {b} : /\ pc'[e] = pc[e] /\ phase'[e] = phase[e] /\ at'[e] = at[e]
                                  /\ ticket'[e] = ticket[e]
  BY <1>1
<1>h. p.ch \in Seq(Clients) /\ h = Append(p.ch, b)
  BY <1>2 DEF LaneRecords
<1>c. queues[RouteOf[b]] = l
  <2>1. ~lane[l].closed /\ LaneShape(lane[l])
    BY <1>1 DEF IInv, ClientInv, Submitting, LanesInv
  <2>2. ~lane[l].retired
    BY <2>1 DEF LaneShape
  <2> QED BY <2>2 DEF OrderInv, RoutesInv
<1> HIDE DEF q, p, h
<1>7. /\ \A m : m # l => Sending(m)' = Sending(m)
      /\ Sending(l)' = Sending(l) \ {b} /\ b \in Sending(l)
  BY <1>1, <1>6, SendingMoves
<1>n. /\ p.settled \in Nat /\ p.admitted \in Nat /\ Len(p.ch) \in Nat /\ Tasks(p) \in Nat
  <2>1. Tasks(p) \in Nat
    BY DEF Tasks
  <2> QED BY <2>1, <1>2, EntryParts
<1>a. Len(h) = Len(p.ch) + 1 /\ h[Len(h)] = b /\ (\A i \in 1..Len(p.ch) : h[i] = p.ch[i])
  BY <1>h, AppendProperties
<1>t. Tasks(q) = Tasks(p) /\ (Quiet(p) => Quiet(q)) /\ (\A d : OnLane(q, d) => OnLane(p, d) \/ d = b)
  <2>1. Tasks(q) = Tasks(p) /\ (Quiet(p) => Quiet(q))
    BY <1>3 DEF Tasks, Quiet
  <2>2. \A d : HasTask(q, d) <=> HasTask(p, d)
    BY <1>3 DEF HasTask
  <2>3. ASSUME NEW d, NEW i \in 1..Len(q.ch), q.ch[i] = d, d # b PROVE OnLane(p, d)
    <3>1. i \in 1..Len(p.ch)
      BY <1>3, <1>a, <1>n, <2>3
    <3> QED BY <3>1, <2>3, <1>3, <1>a DEF OnLane
  <2> QED BY <2>1, <2>2, <2>3 DEF OnLane
<1>8. TicketsAt(l)'
  <2>1. q.admitted + p.settled + Len(p.ch) + Tasks(p) + (IF b \in Sending(l) THEN 1 ELSE 0)
            = p.admitted + q.settled + Len(q.ch) + Tasks(q) + (IF b \in Sending(l)' THEN 1 ELSE 0)
    <3>1. (IF b \in Sending(l) THEN 1 ELSE 0) = 1 /\ (IF b \in Sending(l)' THEN 1 ELSE 0) = 0
      BY <1>7
    <3>2. q.admitted = p.admitted /\ q.settled = p.settled /\ Len(q.ch) = Len(p.ch) + 1 /\ Tasks(q) = Tasks(p)
      BY <1>3, <1>a, <1>t
    <3> QED BY <3>1, <3>2, <1>n
  <2>2. p.admitted <= q.admitted /\ b \notin Sending(l)'
    BY <1>3, <1>n, <1>7
  <2>3. \A i \in 1..Len(q.backlog) : q.backlog[i].cutoff <= q.admitted
    BY <1>2, <1>3
  <2>4. q = lane'[l] /\ ticket \in [Clients -> Nat]
        /\ \A e \in Clients \ {b} : pc'[e] = pc[e] /\ at'[e] = at[e] /\ ticket'[e] = ticket[e]
    BY <1>1, <1>4, <1>6
  <2> QED BY ONLY b \in Clients, <1>2, <1>4, <1>5, <2>1, <2>2, <2>3, <2>4, TicketsMove
<1>10. Older(l)' \in Counts
  BY OlderCounts
<1>9. \A n \in Nat : Older(l)'[n] <= Older(l)[n]
  <2>1. \A n \in Nat : Older(l)'[n] + (IF ticket[b] <= n THEN 1 ELSE 0) = Older(l)[n]
    BY <1>1, <1>7, OlderLeaves
  <2>2. \A n \in Nat : Older(l)'[n] \in Nat
    BY <1>10 DEF Counts
  <2> TAKE n \in Nat
  <2> DEFINE u == IF ticket[b] <= n THEN 1 ELSE 0
             y == Older(l)'[n]
             v == Older(l)[n]
  <2>3. y + u = v /\ u \in Nat /\ y \in Nat
    BY <2>1, <2>2
  <2>4. y <= v
    <3> HIDE DEF u, y, v
    <3> QED BY ONLY <2>3
  <2> QED BY <2>4
<1>11. ASSUME NEW c \in Clients, NEW d \in Clients, Awaits(c, d), d # b PROVE Orderly(p, Older(l), q, Older(l)', c, d)
  <2>1. b = c => NotOwed(p, d)
    BY <1>1, <1>4, <1>11 DEF Awaits, Behind, OnItsWay
  <2> QED BY ONLY b \in Clients, <1>2, <1>3, <1>h, <1>5, <1>9, <1>10, <1>11, <2>1, SendKeepsOrder
<1>12. \A x : Holding(p, q, x)
  BY ONLY <1>3, HoldingSame
<1>13. SectionsAlike /\ \A d \in Clients : OnWayKept(b, d)
  BY <1>1, <1>6 DEF section, SectionsAlike, OnWayKept
<1>14. /\ \A i \in 1..Len(q.backlog) : q.backlog[i].fence => stopped
       /\ \A e \in Clients : OnLane(q, e) => OnLane(lane[l], e) \/ (e = b /\ queues[RouteOf[b]] = l)
       /\ \A c, d \in Clients : Awaits(c, d) /\ d # b => Orderly(lane[l], Older(l), q, Older(l)', c, d)
       /\ \A d \in Clients : Awaits(b, d) => OnWayKept(b, d)
       /\ q.retired = lane[l].retired /\ (Quiet(lane[l]) => Quiet(q)) /\ \A x \in Admins : Holding(lane[l], q, x)
  BY <1>2, <1>3, <1>4, <1>c, <1>t, <1>11, <1>12, <1>13
<1>15. \A m \in Lanes \ {l} : Sending(m)' = Sending(m) /\ \A c \in Sending(m) : ticket'[c] = ticket[c]
  BY <1>1, <1>7
<1>16. /\ IInv /\ OrderInv /\ pc[b] \notin {"idle", "done"} /\ pc'[b] # "idle" /\ accepted \subseteq accepted'
       /\ at'[b] = at[b] \/ at'[b] \notin Lanes \/ at'[b] = queues[RouteOf[b]]
       /\ pc'[b] \notin {"stopped", "late", "lifecycle"} /\ UNCHANGED <<setup, earlier, queues, control, made>>
  BY <1>1, <1>6
<1> QED BY ONLY b \in Clients, l \in Lanes, <1>4, <1>5, <1>6, <1>8, <1>13, <1>14, <1>15, <1>16, ClientOrder

\* The release of b is left in the backlog of its lane.
LEMMA LeftOrder ==
  ASSUME IInv, IInv', OrderInv, NEW b \in Clients, NEW l \in Lanes, l = at[b], NEW f \in BOOLEAN, f => stopped,
         pc[b] \notin {"idle", "done", "send", "blocked"}, Takes(lane[l]),
         lane' = [lane EXCEPT ![l] = enqueueMandatory(@, b, f)], Return(b),
         UNCHANGED <<setup, phase, ticket, accepted, earlier, queues, control, section, made>>
  PROVE  OrderInv'
<1> DEFINE p == lane[l]
           q == enqueueMandatory(p, b, f)
<1>1. /\ lane' = [lane EXCEPT ![l] = q] /\ ticket \in [Clients -> Nat]
      /\ at' = [at EXCEPT ![b] = None] /\ pc' = [pc EXCEPT ![b] = "done"] /\ pc \in [Clients -> ClientSteps]
      /\ at \in [Clients -> Lanes \cup Clients \cup {None}] /\ None \notin Lanes
  BY AsyncAssumption DEF Return, Goto, IInv, TypeOK, ClientTypes
<1>2. /\ lane \in [Lanes -> LaneRecords] /\ p \in LaneRecords /\ TicketsAt(l) /\ Older(l) \in Counts
      /\ \A i \in 1..Len(p.backlog) : p.backlog[i].cutoff <= p.admitted /\ (p.backlog[i].fence => stopped)
  BY LaneFacts
<1>4. lane'[l] = q /\ (\A m \in Lanes \ {l} : lane'[m] = lane[m]) /\ p = lane[l] /\ q = enqueueMandatory(p, b, f)
  BY <1>1, <1>2
<1>6. /\ pc'[b] = "done" /\ at'[b] = None
      /\ \A e \in Clients \ {b} : /\ pc'[e] = pc[e] /\ phase'[e] = phase[e] /\ at'[e] = at[e]
                                  /\ ticket'[e] = ticket[e]
  BY <1>1
<1>c. queues[RouteOf[b]] = l
  BY DEF OrderInv, RoutesInv, Takes
<1> DEFINE z == [task |-> b, cutoff |-> p.admitted, target |-> p.admitted, fence |-> f]
<1>z. z.cutoff = p.admitted /\ z.fence = f /\ z.task = b
  OBVIOUS
<1>y. z = [task |-> b, cutoff |-> p.admitted, target |-> p.admitted, fence |-> f]
  OBVIOUS
<1> HIDE DEF q, p, z
<1>3. /\ q \in LaneRecords
      /\ q.ch = p.ch /\ q.cur = p.cur /\ q.worker = p.worker /\ q.retired = p.retired /\ q.settled = p.settled
      /\ (\A u : HasTask(q, u) <=> HasTask(p, u) \/ u = b) /\ (\A x : Holds(p, x) => Holds(q, x))
      /\ Len(q.backlog) = Len(p.backlog) + 1
  BY <1>2, <1>4, Enqueued
<1>5. q.backlog = Append(p.backlog, z) /\ q.admitted = p.admitted
  BY <1>2, <1>4, <1>y, Appended
<1>7. \A m : Sending(m)' = Sending(m)
  BY <1>6, SameSending
<1>n. /\ p.settled \in Nat /\ p.admitted \in Nat /\ Len(p.ch) \in Nat /\ Tasks(p) \in {0, 1} /\ Len(p.backlog) \in Nat
      /\ p.backlog \in Seq(Entries)
  BY <1>2, EntryParts
<1>e. /\ q.backlog[Len(p.backlog) + 1] = z
      /\ \A i \in 1..Len(p.backlog) : q.backlog[i] = p.backlog[i]
  <2>1. z \in Entries
    BY <1>y, <1>n DEF Entries
  <2> QED BY <1>5, <1>n, <2>1, AppendProperties
<1>i. \A i \in 1..Len(q.backlog) : i \in 1..Len(p.backlog) \/ i = Len(p.backlog) + 1
  BY <1>3, <1>n
<1>b. \A i \in 1..Len(q.backlog) : q.backlog[i].cutoff <= q.admitted /\ (q.backlog[i].fence => stopped)
  BY <1>i, <1>e, <1>z, <1>2, <1>n, <1>5
<1>t. Tasks(q) = Tasks(p) /\ (Quiet(p) => Quiet(q)) /\ (\A d : OnLane(q, d) => OnLane(p, d) \/ d = b)
  BY <1>3 DEF Tasks, Quiet, OnLane
<1>8. TicketsAt(l)'
  BY <1>2, <1>3, <1>4, <1>5, <1>7, <1>t, <1>b, ZenonT(60) DEF TicketsAt
<1>9. Older(l)' = Older(l)
  BY <1>7, OlderSame
<1>10. p.settled + Len(p.ch) + Tasks(p) + Older(l)[p.admitted] <= p.admitted
  BY <1>2, <1>4, TicketRoom
<1>11. ASSUME NEW c \in Clients, NEW d \in Clients, d # b PROVE Orderly(p, Older(l), q, Older(l)', c, d)
  <2>1. Orderly(p, Older(l), q, Older(l), c, d)
    BY ONLY b \in Clients, f \in BOOLEAN, <1>2, <1>4, <1>10, <1>11, EnqueueKeepsOrder
  <2> QED BY <2>1, <1>9
<1>12. \A x \in Admins : Holding(p, q, x)
  <2>1. \A x \in Admins : x # b
    BY AsyncAssumption
  <2> QED BY <2>1, <1>3 DEF Holding
<1>13. SectionsAlike /\ \A d \in Clients : OnWayKept(b, d)
  BY <1>1, <1>6 DEF section, SectionsAlike, OnWayKept
<1>14. /\ \A i \in 1..Len(q.backlog) : q.backlog[i].fence => stopped
       /\ \A e \in Clients : OnLane(q, e) => OnLane(lane[l], e) \/ (e = b /\ queues[RouteOf[b]] = l)
       /\ \A c, d \in Clients : Awaits(c, d) /\ d # b => Orderly(lane[l], Older(l), q, Older(l)', c, d)
       /\ \A d \in Clients : Awaits(b, d) => OnWayKept(b, d)
       /\ q.retired = lane[l].retired /\ (Quiet(lane[l]) => Quiet(q)) /\ \A x \in Admins : Holding(lane[l], q, x)
  BY <1>b, <1>3, <1>4, <1>c, <1>t, <1>11, <1>12, <1>13
<1>15. \A m \in Lanes \ {l} : Sending(m)' = Sending(m) /\ \A c \in Sending(m) : ticket'[c] = ticket[c]
  BY <1>7
<1>16. /\ IInv /\ OrderInv /\ pc[b] \notin {"idle", "done"} /\ pc'[b] # "idle" /\ accepted \subseteq accepted'
       /\ at'[b] = at[b] \/ at'[b] \notin Lanes \/ at'[b] = queues[RouteOf[b]]
       /\ pc'[b] \notin {"stopped", "late", "lifecycle"} /\ UNCHANGED <<setup, earlier, queues, control, made>>
  BY <1>1, <1>6
<1> QED BY ONLY b \in Clients, l \in Lanes, <1>3, <1>4, <1>6, <1>8, <1>13, <1>14, <1>15, <1>16, ClientOrder

LEMMA HandoffOrder ==
  ASSUME IInv, IInv', OrderInv, NEW c \in Clients, Handoff(c), setup' = setup PROVE OrderInv'
<1>1. pc[c] = "enqueue" /\ at[c] \in Lanes /\ None \notin Lanes /\ ClientTypes /\ "check" \in ClientSteps
      /\ "stopped" \in ClientSteps
      /\ UNCHANGED <<setup, phase, ticket, accepted, earlier, queues, control, section, made>>
  BY AsyncAssumption DEF Handoff, IInv, ClientInv, TypeOK, ClientSteps
<1>2. CASE Takes(lane[at[c]])
  <2>1. lane' = [lane EXCEPT ![at[c]] = enqueueMandatory(@, c, FALSE)] /\ Return(c)
    BY <1>2 DEF Handoff
  <2> QED BY <1>1, <1>2, <2>1, LeftOrder
<1>3. CASE ~Takes(lane[at[c]])
  <2> DEFINE s == IF Dynamic THEN "check" ELSE "stopped"
  <2>1. lane' = lane /\ pc' = [pc EXCEPT ![c] = s] /\ at' = [at EXCEPT ![c] = None] /\ s \in ClientSteps
        /\ s \in {"check", "stopped"}
    BY <1>1, <1>3 DEF Handoff, Goto
  <2>2. s = "stopped" => stopped
    <3> SUFFICES ASSUME ~Dynamic PROVE stopped
      OBVIOUS
    <3>1. LaneShape(lane[at[c]]) /\ ~lane[at[c]].retired /\ (lane[at[c]].closed => stopping) /\ (stopping => SubmitFence)
      BY <1>1 DEF IInv, LanesInv, StopInv
    <3>2. lane[at[c]].closed
      BY <1>3, <3>1 DEF Takes, LaneShape
    <3> QED BY <3>1, <3>2 DEF SubmitFence
  <2> HIDE DEF s
  <2> QED BY <1>1, <2>1, <2>2, MoveOrder
<1> QED BY <1>2, <1>3

LEMMA LateHandoffOrder ==
  ASSUME IInv, IInv', OrderInv, NEW c \in Clients, LateHandoff(c), setup' = setup PROVE OrderInv'
<1>1. pc[c] = "late" /\ at[c] \in Lanes /\ None \notin Lanes /\ ClientTypes /\ "lifecycle" \in ClientSteps
      /\ UNCHANGED <<setup, phase, ticket, accepted, earlier, queues, control, section, made>>
  BY AsyncAssumption DEF LateHandoff, IInv, ClientInv, TypeOK, ClientSteps
<1>2. stopped /\ ~lane[at[c]].retired /\ queues[RouteOf[c]] = at[c]
  BY <1>1 DEF OrderInv, RoutesInv
<1>3. CASE Takes(lane[at[c]])
  <2>1. lane' = [lane EXCEPT ![at[c]] = enqueueMandatory(@, c, TRUE)] /\ Return(c)
    BY <1>3 DEF LateHandoff
  <2> QED BY <1>1, <1>2, <1>3, <2>1, LeftOrder
<1>4. CASE ~Takes(lane[at[c]])
  <2>1. lane' = lane /\ pc' = [pc EXCEPT ![c] = "lifecycle"] /\ at' = [at EXCEPT ![c] = at[c]]
    BY <1>1, <1>4 DEF LateHandoff, Goto, ClientTypes
  <2>2. ASSUME NEW d \in Clients, Awaits(c, d) PROVE OffLanes(d)
    <3>1. RouteOf[d] = RouteOf[c]
      BY <2>2 DEF Awaits
    <3>2. lane[at[c]].worker = "exited"
      BY <1>2, <1>4 DEF Takes
    <3> QED BY <1>2, <3>1, <3>2, NothingOnLanes
  <2> QED BY <1>1, <1>2, <2>1, <2>2, MoveOrder
<1> QED BY <1>3, <1>4

-----------------------------------------------------------------------------
(* A new lane keeps the order. *)

LEMMA NewLaneEntries ==
  ASSUME active \in Admins \cup {None}
  PROVE  /\ NewLane.admitted = 0 /\ NewLane.settled = 0
         /\ \A i \in 1..Len(NewLane.backlog) : /\ NewLane.backlog[i].cutoff = 0 /\ ~NewLane.backlog[i].fence
                                               /\ NewLane.backlog[i].task \in Admins
<1> DEFINE p == newKeyQueue
<1>1. p \in LaneRecords /\ p.admitted = 0 /\ p.settled = 0 /\ p.backlog = <<>>
  BY NewLanes DEF newKeyQueue, Absent
<1>2. CASE active = None
  <2>1. NewLane = p /\ Len(p.backlog) = 0
    BY <1>1, <1>2, EmptySeq DEF NewLane
  <2> QED BY <1>1, <2>1
<1>3. CASE active # None
  <2> DEFINE q == enqueueMandatory(p, active, FALSE)
             z == [task |-> active, cutoff |-> p.admitted, target |-> p.admitted, fence |-> FALSE]
  <2>1. NewLane = q /\ active \in Admins /\ q = enqueueMandatory(p, active, FALSE)
    BY <1>3 DEF NewLane
  <2>2. q.settled = p.settled /\ q.admitted = p.admitted /\ q.backlog = Append(p.backlog, z)
    BY <1>1 DEF enqueueMandatory, LaneRecords
  <2>4. z.cutoff = 0 /\ ~z.fence /\ z.task \in Admins /\ z \in Entries
    BY <1>1, <2>1 DEF Entries
  <2> HIDE DEF z
  <2>3. Len(q.backlog) = 1 /\ q.backlog[1] = z
    <3>1. <<>> \in Seq(Entries) /\ Len(<<>>) = 0
      OBVIOUS
    <3> DEFINE e == <<>>
               w == Append(e, z)
    <3>2. Len(w) = Len(e) + 1 /\ w[Len(e) + 1] = z
      <4>1. e \in Seq(Entries)
        OBVIOUS
      <4> HIDE DEF e
      <4> QED BY <4>1, <2>4, AppendProperties
    <3>3. q.backlog = w
      BY <1>1, <2>2
    <3> HIDE DEF w, q
    <3> QED BY <3>1, <3>2, <3>3
  <2>5. \A i \in 1..Len(q.backlog) : q.backlog[i] = z
    <3> HIDE DEF q
    <3> QED BY <2>3
  <2> HIDE DEF q, p
  <2> QED BY <1>1, <2>1, <2>2, <2>4, <2>5
<1> QED BY <1>2, <1>3

LEMMA CreatedOrder ==
  ASSUME IInv, OrderInv, NEW b \in Clients, pc[b] = "create", NEW l \in Lanes, NEW k \in Keys, k = RouteOf[b],
         ~stopping, ~Live(queues[k]), Free(l),
         lane' = [lane EXCEPT ![l] = NewLane], queues' = [queues EXCEPT ![k] = l],
         sec' = IF active = None THEN sec ELSE [sec EXCEPT ![active].expected = @ + 1],
         Found(b, l),
         UNCHANGED <<setup, ticket, handing, accepted, earlier, barriers, control, cleanup, active, apc, made>>
  PROVE  OrderInv'
<1> DEFINE q == NewLane
<1>1. TypeOK /\ ClientTypes /\ RoutingTypes /\ SectionTypes /\ lane \in [Lanes -> LaneRecords]
      /\ LanesInv /\ None \notin Lanes /\ active \in Admins \cup {None}
      /\ sec \in [Admins -> SectionRecords] /\ None \notin Admins /\ None \notin Clients /\ Clients \cap Admins = {}
      /\ RouteOf \in [Clients -> Keys]
  BY AsyncAssumption DEF IInv, TypeOK, SectionTypes
<1>o. RoutesInv /\ FencesInv /\ TicketsInv /\ HeldInv
  BY DEF OrderInv
<1>q. /\ q \in LaneRecords /\ q.worker = "loop" /\ q.ch = <<>> /\ q.cur = None /\ ~q.retired
      /\ q.admitted = 0 /\ q.settled = 0
      /\ active # None => Holds(q, active)
      /\ \A i \in 1..Len(q.backlog) : q.backlog[i].cutoff = 0 /\ ~q.backlog[i].fence /\ q.backlog[i].task \in Admins
  BY <1>1, NewLaneFacts, NewLaneEntries
<1>2. lane'[l] = q /\ (\A m \in Lanes \ {l} : lane'[m] = lane[m])
  BY <1>1
<1> HIDE DEF q
<1>3. /\ Dynamic /\ (\A j \in Keys : queues[j] # l) /\ \A d \in Clients : at[d] # l
  BY DEF Free, Garbage
<1>4. queues[k] = None
  <2> SUFFICES ASSUME queues[k] # None PROVE FALSE
    OBVIOUS
  <2>1. queues[k] \in Lanes /\ lane[queues[k]].closed
    BY <1>1 DEF Live, RoutingTypes
  <2>2. lane[queues[k]].retired
    BY <1>1, <2>1 DEF LanesInv
  <2> QED BY <1>o, <2>2 DEF RoutesInv
<1>5. queues'[k] = l /\ \A j \in Keys \ {k} : queues'[j] = queues[j]
  BY <1>1 DEF RoutingTypes
<1>6. /\ at'[b] = l /\ pc'[b] \in {"gate", "register"}
      /\ \A e \in Clients \ {b} : pc'[e] = pc[e] /\ at'[e] = at[e]
      /\ \A e \in Clients : phase'[e] = phase[e] /\ ticket'[e] = ticket[e]
  BY <1>1 DEF Found, Goto, ClientTypes
<1>7. \A d \in Clients : ~OnLane(q, d)
  <2>1. Len(q.ch) = 0
    BY <1>q, EmptySeq
  <2> QED BY <1>1, <1>q, <2>1 DEF OnLane, HasTask
<1>8. \A m \in Lanes : Sending(m)' = Sending(m)
  BY <1>6, SameSending
<1>9. RoutesInv'
  <2>1. ASSUME NEW m \in Lanes, NEW d \in Clients, OnLane(lane'[m], d) PROVE queues'[RouteOf[d]] = m
    <3>1. m # l
      BY <1>2, <1>7, <2>1
    <3>2. queues[RouteOf[d]] = m /\ m # None /\ RouteOf[d] \in Keys
      BY <1>1, <1>2, <1>o, <2>1, <3>1 DEF RoutesInv
    <3> QED BY <1>4, <1>5, <3>2
  <2>2. ASSUME NEW c \in Clients PROVE /\ at'[c] \in Lanes /\ ~lane'[at'[c]].retired => queues'[RouteOf[c]] = at'[c]
                                       /\ pc'[c] \in {"stopped", "late", "lifecycle"} => stopped'
                                       /\ pc'[c] = "late" => ~lane'[at'[c]].retired
    <3>1. CASE c = b
      BY <3>1, <1>5, <1>6
    <3>2. CASE c # b
      <4>1. at'[c] = at[c] /\ pc'[c] = pc[c] /\ RouteOf[c] \in Keys /\ stopped' = stopped
        BY <1>1, <1>6, <3>2 DEF control
      <4>2. at[c] \in Lanes => lane'[at[c]] = lane[at[c]]
        BY <1>2, <1>3
      <4>3. at[c] \in Lanes /\ ~lane[at[c]].retired => queues[RouteOf[c]] = at[c] /\ RouteOf[c] # k
        BY <1>1, <1>o, <1>4 DEF RoutesInv
      <4>4. pc[c] = "late" => at[c] \in Lanes
        BY DEF IInv, ClientInv
      <4> QED BY <1>o, <1>5, <4>1, <4>2, <4>3, <4>4 DEF RoutesInv
    <3> QED BY <3>1, <3>2
  <2>3. ASSUME NEW j \in Keys, queues'[j] # None PROVE ~lane'[queues'[j]].retired
    <3>1. CASE j = k
      BY <3>1, <1>5, <1>2, <1>q
    <3>2. CASE j # k
      <4>1. queues'[j] = queues[j] /\ queues[j] \in Lanes \ {l}
        BY <1>1, <1>3, <1>5, <2>3, <3>2 DEF RoutingTypes
      <4>2. lane'[queues[j]] = lane[queues[j]] /\ ~lane[queues[j]].retired
        BY <1>1, <1>2, <1>o, <4>1 DEF RoutesInv
      <4> QED BY <4>1, <4>2
    <3> QED BY <3>1, <3>2
  <2>4. \A i, j \in Keys : queues'[i] = queues'[j] /\ queues'[i] # None => i = j
    BY <1>3, <1>5, <1>o DEF RoutesInv
  <2>5. Dynamic'
    BY <1>3 DEF Dynamic
  <2> QED BY <2>1, <2>2, <2>3, <2>4, <2>5 DEF RoutesInv
<1>10. FencesInv'
  <2>1. stopped' = stopped /\ stop' = stop /\ cleanupOn' = cleanupOn
    BY DEF control
  <2>2. ASSUME NEW m \in Lanes, NEW i \in 1..Len(lane'[m].backlog), lane'[m].backlog[i].fence PROVE stopped
    BY <1>2, <1>q, <1>o, <2>2 DEF FencesInv
  <2> QED BY <1>o, <2>1, <2>2 DEF FencesInv
<1>11. \A m \in Lanes \ {l} : /\ TicketsAt(m)'
                              /\ \A c, d : Orderly(lane[m], Older(m), lane'[m], Older(m)', c, d)
  <2> TAKE m \in Lanes \ {l}
  <2>1. lane[m] \in LaneRecords /\ lane'[m] = lane[m] /\ TicketsAt(m) /\ Sending(m)' = Sending(m)
        /\ \A c \in Sending(m) : ticket'[c] = ticket[c]
    BY <1>1, <1>2, <1>6, <1>8, <1>o DEF TicketsInv, Sending
  <2> QED BY <2>1, LaneUntouched
<1>12. TicketsAt(l)'
  <2>1. Sending(l)' = {}
    BY <1>3, <1>8 DEF Sending
  <2>2. Cardinality(Sending(l)') = 0 /\ Len(q.ch) = 0 /\ Tasks(q) = 0
    BY <2>1, <1>q, FS_EmptySet, EmptySeq DEF Tasks
  <2>3. q.admitted = q.settled + Cardinality(Sending(l)') + Len(q.ch) + Tasks(q)
    BY <1>q, <2>2
  <2> QED BY <1>2, <1>q, <2>1, <2>3 DEF TicketsAt
<1>13. ASSUME NEW c \in Clients, NEW d \in Clients PROVE Orderly(lane[l], Older(l), lane'[l], Older(l)', c, d)
  <2>1. q.cur # d /\ \A i \in 1..Len(q.backlog) : q.backlog[i].task \notin {c, d}
    BY <1>1, <1>q
  <2> QED BY <1>2, <1>q, <2>1, VacantOrder
<1>14. SectionsAlike
  <2>1. CASE active = None
    BY <2>1 DEF SectionsAlike
  <2>2. CASE active # None
    <3> DEFINE r == [sec[active] EXCEPT !.expected = sec[active].expected + 1]
    <3>1. active \in Admins /\ sec' = [sec EXCEPT ![active] = r] /\ sec[active] \in SectionRecords
      BY <1>1, <2>2
    <3>2. r.draining = sec[active].draining /\ r.deferred = sec[active].deferred
      BY <3>1 DEF SectionRecords
    <3> HIDE DEF r
    <3> QED BY <1>1, <3>1, <3>2 DEF SectionsAlike
  <2> QED BY <2>1, <2>2
<1>15. HeldKept
  <2> SUFFICES ASSUME NEW d \in Clients, NEW x \in Admins, Postponed(sec[x], d), KeyHeld(d, x) PROVE KeyHeld(d, x)'
    BY DEF HeldKept
  <2>1. active = x /\ active # None
    BY <1>1, PostponedTo
  <2>2. CASE RouteOf[d] = k
    <3>1. Holds(lane'[l], x) /\ queues'[RouteOf[d]] = l
      BY <1>2, <1>5, <1>q, <2>1, <2>2
    <3> QED BY <3>1 DEF KeyHeld
  <2>3. CASE RouteOf[d] # k
    <3>1. queues'[RouteOf[d]] = queues[RouteOf[d]] /\ queues[RouteOf[d]] # l
          /\ queues[RouteOf[d]] \in Lanes \cup {None}
      BY <1>1, <1>3, <1>5, <2>3 DEF RoutingTypes
    <3>2. queues[RouteOf[d]] # None => lane'[queues[RouteOf[d]]] = lane[queues[RouteOf[d]]]
      BY <1>2, <3>1
    <3> QED BY <3>1, <3>2 DEF KeyHeld
  <2> QED BY <2>2, <2>3
<1>16. NewlyHeld /\ \A c, d \in Clients : Awaits(c, d) => SectionsOrdered(c, d)
  BY <1>14, SectionsStill
<1>17. ASSUME NEW c \in Clients, NEW d \in Clients, Awaits(c, d) PROVE PairKept(c, d)
  <2>1. LanesOrdered(c, d)
    BY <1>11, <1>13 DEF LanesOrdered
  <2>2. OnWayKept(c, d)
    <3>1. CASE c = b
      BY <3>1, <1>6 DEF OnWayKept
    <3>2. CASE c # b
      BY <3>2, <1>6 DEF OnWayKept
    <3> QED BY <3>1, <3>2
  <2> QED BY <1>16, <1>17, <2>1, <2>2 DEF PairKept, made
<1>18. /\ \A e \in Clients : (pc[e] = "done" => pc'[e] = "done") /\ (pc'[e] = "idle" => pc[e] = "idle")
       /\ \A e \in Clients : pc[e] = "idle" => /\ starts'[e] = starts[e]
                                               /\ \A m \in Lanes : OnLane(lane'[m], e) => OnLane(lane[m], e)
  BY <1>2, <1>6, <1>7 DEF made
<1>19. earlier' = earlier /\ finished \subseteq finished' /\ accepted \subseteq accepted' /\ (stopped => stopped')
  BY DEF made, control
<1>20. TicketsInv'
  BY <1>11, <1>12 DEF TicketsInv
<1> QED BY ONLY IInv, OrderInv, <1>9, <1>10, <1>20, <1>15, <1>16, <1>17, <1>18, <1>19, OrderStep

LEMMA CreateOrder ==
  ASSUME IInv, OrderInv, NEW c \in Clients, Create(c), setup' = setup PROVE OrderInv'
<1> DEFINE k == RouteOf[c]
<1>1. /\ pc[c] = "create" /\ k \in Keys /\ k = RouteOf[c] /\ ClientTypes /\ RoutingTypes /\ "limit" \in ClientSteps
      /\ UNCHANGED <<setup, ticket, handing, accepted, earlier, barriers, control, cleanup, active, apc, made>>
      /\ (stopping => stopped)
  BY AsyncAssumption DEF Create, IInv, TypeOK, ClientSteps, StopInv, SubmitFence
<1> HIDE DEF k
<1>2. CASE stopping
  <2>1. Refused(c) /\ UNCHANGED <<lane, queues, sec>>
    BY <1>2 DEF Create
  <2> QED BY <1>1, <1>2, <2>1, RefusedOrder DEF section
<1>3. CASE ~stopping /\ Live(queues[k])
  <2>1. Found(c, queues[k]) /\ UNCHANGED <<lane, queues, sec>>
    BY <1>1, <1>3 DEF Create
  <2> QED BY <1>1, <2>1, FoundOrder DEF section
<1>4. CASE ~stopping /\ ~Live(queues[k]) /\ barriers[k] # None
  <2>1. at' = [at EXCEPT ![c] = barriers[k]] /\ pc' = [pc EXCEPT ![c] = "barrier"]
        /\ UNCHANGED <<phase, registered, lane, queues, sec>>
    BY <1>1, <1>4 DEF Create, Goto
  <2>2. barriers[k] \in Clients \cup {None}
    BY <1>1 DEF RoutingTypes
  <2> QED BY <1>1, <2>1, <2>2, BarrierOrder DEF section
<1>5. CASE ~stopping /\ ~Live(queues[k]) /\ barriers[k] = None /\ MaxQueues > 0 /\ LiveQueues >= MaxQueues
  <2>1. UNCHANGED <<lane, queues, sec>>
        /\ IF phase[c] = "submit" THEN Fail(c)
           ELSE pc' = [pc EXCEPT ![c] = "limit"] /\ UNCHANGED <<phase, registered, at>>
    BY <1>1, <1>5 DEF Create, Goto
  <2>2. CASE phase[c] = "submit"
    BY <1>1, <2>1, <2>2, FailingOrder DEF section
  <2>3. CASE phase[c] # "submit"
    <3>1. at' = [at EXCEPT ![c] = at[c]]
      BY <1>1, <2>1, <2>3 DEF ClientTypes
    <3> QED BY <1>1, <2>1, <2>3, <3>1, MoveOrder DEF section
  <2> QED BY <2>2, <2>3
<1>6. CASE ~stopping /\ ~Live(queues[k]) /\ barriers[k] = None /\ ~(MaxQueues > 0 /\ LiveQueues >= MaxQueues)
  <2>1. PICK l \in Laid : /\ Free(l)
                          /\ lane' = [lane EXCEPT ![l] = NewLane]
                          /\ queues' = [queues EXCEPT ![k] = l]
                          /\ sec' = IF active = None THEN sec
                                    ELSE [sec EXCEPT ![active].expected = @ + 1]
                          /\ Found(c, l)
    BY <1>1, <1>6 DEF Create
  <2>2. l \in Lanes
    BY AsyncAssumption DEF IInv, TypeOK, Laid
  <2> QED BY <1>1, <1>6, <2>1, <2>2, CreatedOrder
<1> QED BY <1>2, <1>3, <1>4, <1>5, <1>6

-----------------------------------------------------------------------------
(* A release that is run on the caller, or left to a section. *)

LEMMA OffLaneOrder ==
  ASSUME IInv, OrderInv, NEW b \in Clients, pc[b] \notin {"idle", "done", "send", "blocked"},
         pc'[b] \in {"done", "offlane"},
         UNCHANGED <<setup, phase, ticket, accepted, earlier, lane, queues, control, active, apc>>,
         \A e \in Clients \ {b} : pc'[e] = pc[e] /\ at'[e] = at[e] /\ starts'[e] = starts[e],
         at'[b] = at[b] \/ at'[b] \notin Lanes, finished \subseteq finished', NewlyHeld,
         \A c, d \in Clients : Awaits(c, d) => SectionsOrdered(c, d),
         \A d \in Clients : Awaits(b, d) => starts'[b] = starts[b]
  PROVE  OrderInv'
<1>1. \A m \in Lanes : Sending(m)' = Sending(m)
  BY SameSending
<1>2. RoutesInv'
  <2>1. RoutesInv /\ queues' = queues /\ stopped' = stopped
    BY DEF OrderInv, control
  <2>2. \A c \in Clients : /\ at'[c] = at[c] \/ at'[c] \notin Lanes \/ at'[c] = queues[RouteOf[c]]
                           /\ pc'[c] \in {"stopped", "late", "lifecycle"} => stopped'
                           /\ pc'[c] = "late" => \/ pc[c] = "late" /\ at'[c] = at[c]
                                                 \/ at'[c] = queues[RouteOf[c]] /\ at'[c] # None
    BY <2>1 DEF RoutesInv
  <2> QED BY <2>1, <2>2, RoutesKept
<1>3. FencesInv'
  BY DEF OrderInv, FencesInv, control
<1>4. \A m \in Lanes : /\ TicketsAt(m)'
                       /\ \A c, d : Orderly(lane[m], Older(m), lane'[m], Older(m)', c, d)
  <2> TAKE m \in Lanes
  <2>1. lane[m] \in LaneRecords /\ TicketsAt(m)
    BY LaneFacts
  <2> QED BY <1>1, <2>1, LaneUntouched
<1>5. HeldKept
  BY DEF HeldKept, KeyHeld
<1>6. ASSUME NEW c \in Clients, NEW d \in Clients, Awaits(c, d) PROVE PairKept(c, d)
  <2>1. LanesOrdered(c, d)
    BY <1>4 DEF LanesOrdered
  <2>2. OnWayKept(c, d) /\ starts'[c] = starts[c]
    <3>1. CASE c = b
      BY <1>6, <3>1 DEF OnWayKept
    <3>2. CASE c # b
      BY <3>2 DEF OnWayKept
    <3> QED BY <3>1, <3>2
  <2> QED BY <1>6, <2>1, <2>2 DEF PairKept
<1>7. /\ \A e \in Clients : (pc[e] = "done" => pc'[e] = "done") /\ (pc'[e] = "idle" => pc[e] = "idle")
      /\ \A e \in Clients : pc[e] = "idle" => /\ starts'[e] = starts[e]
                                              /\ \A m \in Lanes : OnLane(lane'[m], e) => OnLane(lane[m], e)
  OBVIOUS
<1>8. earlier' = earlier /\ finished \subseteq finished' /\ accepted \subseteq accepted' /\ (stopped => stopped')
  BY DEF control
<1>9. TicketsInv'
  BY <1>4 DEF TicketsInv
<1> QED BY ONLY IInv, OrderInv, NewlyHeld, <1>2, <1>3, <1>5, <1>6, <1>7, <1>8, <1>9, OrderStep

\* A section takes a release over.
LEMMA DeferredOrder ==
  ASSUME IInv, OrderInv, NEW b \in Clients, pc[b] \notin {"idle", "done"}, NEW x \in Admins,
         sec' = [sec EXCEPT ![x].deferred = Append(@, b)],
         stopped' \/ KeyHeld(b, x)', \A d \in Clients : Awaits(b, d) => OffLanes(d)
  PROVE  NewlyHeld /\ \A c, d \in Clients : Awaits(c, d) => SectionsOrdered(c, d)
<1> DEFINE s == sec[x].deferred
           t == Append(s, b)
<1>1. sec \in [Admins -> SectionRecords] /\ s \in Seq(Clients) /\ Len(s) \in Nat
  BY DEF IInv, TypeOK, SectionTypes, SectionRecords
<1>2. /\ sec'[x].deferred = t /\ sec'[x].draining = sec[x].draining
      /\ \A y \in Admins \ {x} : sec'[y] = sec[y]
  BY <1>1 DEF SectionRecords
<1>3. Len(t) = Len(s) + 1 /\ t[Len(s) + 1] = b /\ \A i \in 1..Len(s) : t[i] = s[i]
  BY <1>1, AppendProperties
<1>s. s = sec[x].deferred
  OBVIOUS
<1> HIDE DEF s, t
<1>4. \A i \in 1..Len(t) : (i \in 1..Len(s) /\ t[i] = s[i]) \/ (i = Len(s) + 1 /\ t[i] = b)
  BY <1>1, <1>3
<1>5. \A y \in Admins : \A d : Postponed(sec'[y], d) => Postponed(sec[y], d) \/ (y = x /\ d = b)
  <2> SUFFICES ASSUME NEW y \in Admins, NEW d, Postponed(sec'[y], d) PROVE Postponed(sec[y], d) \/ (y = x /\ d = b)
    OBVIOUS
  <2>1. CASE y = x
    BY <2>1, <1>2, <1>4, <1>s DEF Postponed
  <2>2. CASE y # x
    BY <2>2, <1>2
  <2> QED BY <2>1, <2>2
<1>6. NewlyHeld
  BY <1>5 DEF NewlyHeld
<1>7. ASSUME NEW c \in Clients, NEW d \in Clients, Awaits(c, d) PROVE SectionsOrdered(c, d)
  <2>1. d # b /\ \A y \in Admins : InSection(sec[y], c, d)
    BY <1>7 DEF Awaits, Behind
  <2>2. InSection(sec'[x], c, d)
    <3>1. ASSUME NEW i \in 1..Len(t), t[i] = d PROVE i \in 1..Len(s) /\ s[i] = d
      BY <1>4, <2>1, <3>1
    <3>2. ASSUME NEW i \in 1..Len(t), NEW j \in 1..Len(t), t[i] = d, t[j] = c PROVE i < j
      <4>1. i \in 1..Len(s) /\ s[i] = d
        BY <3>1, <3>2
      <4>2. CASE j \in 1..Len(s) /\ t[j] = s[j]
        BY <4>1, <4>2, <3>2, <2>1, <1>s DEF InSection
      <4>3. CASE j = Len(s) + 1
        BY <4>1, <4>3, <1>1
      <4> QED BY <4>2, <4>3, <1>4
    <3> QED BY <3>1, <3>2, <2>1, <1>2, <1>s DEF InSection
  <2>3. \A y \in Admins : InSection(sec'[y], c, d)
    BY <1>2, <2>1, <2>2
  <2>4. \A y \in Admins : Postponed(sec'[y], c) => Postponed(sec[y], c) \/ OffLanes(d)
    BY <1>5, <1>7
  <2> QED BY <2>3, <2>4 DEF SectionsOrdered
<1> QED BY <1>6, <1>7

LEMMA NoLaneKept ==
  ASSUME IInv, OrderInv, NEW k \in Keys, ~stopping, ~Live(queues[k])
  PROVE  queues[k] = None
<1> SUFFICES ASSUME queues[k] # None PROVE FALSE
  OBVIOUS
<1>1. queues[k] \in Lanes /\ lane[queues[k]].closed
  BY DEF Live, IInv, TypeOK, RoutingTypes
<1>2. lane[queues[k]].retired
  BY <1>1 DEF IInv, LanesInv
<1> QED BY <1>2 DEF OrderInv, RoutesInv

LEMMA WithoutLaneOrder ==
  ASSUME IInv, OrderInv, NEW c \in Clients, WithoutLane(c), setup' = setup PROVE OrderInv'
<1> DEFINE k == RouteOf[c]
<1>1. /\ pc[c] = "nolane" /\ k \in Keys /\ k = RouteOf[c] /\ ClientTypes /\ "check" \in ClientSteps
      /\ UNCHANGED <<setup, phase, ticket, accepted, earlier, lane, queues, control, cleanup, active, apc, finished>>
      /\ None \notin Lanes /\ None \notin Admins /\ active \in Admins \cup {None} /\ starts \in [Clients -> Nat]
  BY AsyncAssumption DEF WithoutLane, IInv, TypeOK, ClientSteps, SectionTypes
<1> HIDE DEF k
<1>2. CASE HasPlace(k)
  <2>1. pc' = [pc EXCEPT ![c] = "check"] /\ UNCHANGED <<at, sec, starts>>
    BY <1>1, <1>2 DEF WithoutLane, Goto
  <2>2. at' = [at EXCEPT ![c] = at[c]]
    BY <1>1, <2>1 DEF ClientTypes
  <2> QED BY <1>1, <2>1, <2>2, MoveOrder DEF section, made
<1>3. ~HasPlace(k) => queues[k] = None
  BY <1>1, NoLaneKept DEF HasPlace
<1>4. CASE ~HasPlace(k) /\ active # None
  <2>1. sec' = [sec EXCEPT ![active].deferred = Append(@, c)] /\ pc' = [pc EXCEPT ![c] = "done"]
        /\ at' = [at EXCEPT ![c] = None] /\ starts' = starts
    BY <1>1, <1>4 DEF WithoutLane, Return, Goto
  <2>2. ASSUME NEW d \in Clients, Awaits(c, d) PROVE OffLanes(d)
    <3>1. queues[RouteOf[d]] \notin Lanes
      BY <1>1, <1>3, <1>4, <2>2 DEF Awaits
    <3> QED BY <3>1, NothingOnLanes
  <2>3. PICK x \in Admins : x = active
    BY <1>1, <1>4
  <2>k. KeyHeld(c, x)'
    BY <1>1, <1>3, <1>4 DEF KeyHeld
  <2>4. NewlyHeld /\ \A a, d \in Clients : Awaits(a, d) => SectionsOrdered(a, d)
    <3>1. sec' = [sec EXCEPT ![x].deferred = Append(@, c)]
      BY <2>1, <2>3
    <3> QED BY <1>1, <2>2, <2>k, <3>1, DeferredOrder
  <2>5. pc'[c] = "done" /\ at'[c] = None /\ \A e \in Clients \ {c} : pc'[e] = pc[e] /\ at'[e] = at[e] /\ starts'[e] = starts[e]
    BY <1>1, <2>1 DEF ClientTypes
  <2> QED BY <1>1, <2>1, <2>4, <2>5, OffLaneOrder
<1>5. CASE ~HasPlace(k) /\ active = None
  <2>1. starts' = [starts EXCEPT ![c] = @ + 1] /\ pc' = [pc EXCEPT ![c] = "offlane"] /\ UNCHANGED <<at, sec>>
    BY <1>1, <1>5 DEF WithoutLane, Goto
  <2>2. ASSUME NEW d \in Clients, Awaits(c, d) PROVE FALSE
    <3>1. CASE \E l \in Lanes : l = queues[RouteOf[c]] /\ OnLane(lane[l], d)
      BY <1>1, <1>3, <1>5, <3>1
    <3>2. CASE \E x \in Admins : Postponed(sec[x], d) /\ KeyHeld(d, x)
      BY <1>1, <1>5, <3>2, PostponedTo
    <3> QED BY <2>2, <3>1, <3>2, StillOwed
  <2>3. NewlyHeld /\ \A a, d \in Clients : Awaits(a, d) => SectionsOrdered(a, d)
    <3>1. SectionsAlike
      BY <2>1 DEF SectionsAlike
    <3> QED BY <3>1, SectionsStill
  <2>4. pc'[c] = "offlane" /\ at'[c] = at[c] /\ \A e \in Clients \ {c} : pc'[e] = pc[e] /\ at'[e] = at[e] /\ starts'[e] = starts[e]
    BY <1>1, <2>1 DEF ClientTypes
  <2> QED BY <1>1, <2>2, <2>3, <2>4, OffLaneOrder
<1> QED BY <1>2, <1>4, <1>5

LEMMA LifecycleOrder ==
  ASSUME IInv, OrderInv, NEW c \in Clients, beginLifecycleCleanup(c), setup' = setup PROVE OrderInv'
<1>1. /\ pc[c] = "lifecycle" /\ ClientTypes
      /\ UNCHANGED <<setup, phase, ticket, accepted, earlier, lane, queues, control, active, apc, finished>>
      /\ None \notin Lanes /\ None \notin Admins /\ active \in Admins \cup {None} /\ starts \in [Clients -> Nat]
  BY AsyncAssumption DEF beginLifecycleCleanup, IInv, TypeOK, SectionTypes
<1>2. stopped /\ \A d \in Clients : Awaits(c, d) => OffLanes(d)
  BY <1>1 DEF OrderInv, RoutesInv, Awaits, Behind, OnItsWay
<1>3. CASE ~lifeSealed /\ active # None
  <2>1. sec' = [sec EXCEPT ![active].deferred = Append(@, c)] /\ pc' = [pc EXCEPT ![c] = "done"]
        /\ at' = [at EXCEPT ![c] = None] /\ starts' = starts
    BY <1>1, <1>3 DEF beginLifecycleCleanup, Return, Goto
  <2>2. PICK x \in Admins : x = active
    BY <1>1, <1>3
  <2>3. NewlyHeld /\ \A a, d \in Clients : Awaits(a, d) => SectionsOrdered(a, d)
    <3>1. sec' = [sec EXCEPT ![x].deferred = Append(@, c)] /\ stopped'
      BY <1>1, <1>2, <2>1, <2>2 DEF control
    <3> QED BY <1>1, <1>2, <3>1, DeferredOrder
  <2>4. pc'[c] = "done" /\ at'[c] = None /\ \A e \in Clients \ {c} : pc'[e] = pc[e] /\ at'[e] = at[e] /\ starts'[e] = starts[e]
    BY <1>1, <2>1 DEF ClientTypes
  <2> QED BY <1>1, <2>1, <2>3, <2>4, OffLaneOrder
<1>4. CASE lifeSealed \/ active = None
  <2>1. starts' = [starts EXCEPT ![c] = @ + 1] /\ pc' = [pc EXCEPT ![c] = "offlane"] /\ UNCHANGED <<at, sec>>
    BY <1>1, <1>4 DEF beginLifecycleCleanup, Goto
  <2>2. ASSUME NEW d \in Clients, Awaits(c, d) PROVE FALSE
    <3>1. CASE \E l \in Lanes : l = queues[RouteOf[c]] /\ OnLane(lane[l], d)
      BY <1>2, <2>2, <3>1 DEF OffLanes
    <3>2. CASE \E x \in Admins : Postponed(sec[x], d) /\ KeyHeld(d, x)
      <4>1. PICK x \in Admins : apc[x] \in Published /\ active = x
        BY <3>2, PostponedTo
      <4>2. x \in Sections /\ active # None
        BY <1>1, <4>1 DEF Published, Sections
      <4> QED BY <1>4, <4>2 DEF IInv, StopInv
    <3> QED BY <2>2, <3>1, <3>2, StillOwed
  <2>3. NewlyHeld /\ \A a, d \in Clients : Awaits(a, d) => SectionsOrdered(a, d)
    <3>1. SectionsAlike
      BY <2>1 DEF SectionsAlike
    <3> QED BY <3>1, SectionsStill
  <2>4. pc'[c] = "offlane" /\ at'[c] = at[c] /\ \A e \in Clients \ {c} : pc'[e] = pc[e] /\ at'[e] = at[e] /\ starts'[e] = starts[e]
    BY <1>1, <2>1 DEF ClientTypes
  <2> QED BY <1>1, <2>2, <2>3, <2>4, OffLaneOrder
<1> QED BY <1>3, <1>4

LEMMA OffLaneEndsOrder ==
  ASSUME IInv, OrderInv, NEW c \in Clients, OffLaneEnds(c), setup' = setup PROVE OrderInv'
<1>1. /\ pc[c] = "offlane" /\ ClientTypes /\ None \notin Lanes /\ finished \subseteq finished'
      /\ UNCHANGED <<setup, phase, ticket, accepted, earlier, lane, queues, control, active, apc, sec, starts>>
      /\ pc' = [pc EXCEPT ![c] = "done"] /\ at' = [at EXCEPT ![c] = None]
  BY AsyncAssumption DEF OffLaneEnds, IInv, TypeOK, Return, Goto, section
<1>2. SectionsAlike
  BY <1>1 DEF SectionsAlike
<1>3. NewlyHeld /\ \A a, d \in Clients : Awaits(a, d) => SectionsOrdered(a, d)
  BY <1>2, SectionsStill
<1>4. pc'[c] = "done" /\ at'[c] = None /\ \A e \in Clients \ {c} : pc'[e] = pc[e] /\ at'[e] = at[e] /\ starts'[e] = starts[e]
  BY <1>1 DEF ClientTypes
<1> QED BY <1>1, <1>3, <1>4, OffLaneOrder

-----------------------------------------------------------------------------
(* A call begins: it is nowhere yet, and what has returned is not behind it. *)

LEMMA BeginOrder ==
  ASSUME IInv, OrderInv, NEW b \in Clients, Begin(b), setup' = setup PROVE OrderInv'
<1>1. /\ pc[b] = "idle" /\ earlier' = [earlier EXCEPT ![b] = Returned(RouteOf[b])] /\ ClientTypes
      /\ UNCHANGED <<setup, ticket, accepted, lane, queues, control, section, made>> /\ None \notin Lanes
      /\ sec' = sec /\ stopped' = stopped /\ starts' = starts /\ finished' = finished /\ stop' = stop
      /\ cleanupOn' = cleanupOn /\ lane \in [Lanes -> LaneRecords]
  BY AsyncAssumption DEF Begin, IInv, TypeOK, section, control, made
<1>o. RoutesInv /\ FencesInv /\ TicketsInv /\ FreshInv /\ HeldInv
  BY DEF OrderInv
<1>2. /\ \A e \in Clients \ {b} : pc'[e] = pc[e] /\ phase'[e] = phase[e] /\ at'[e] = at[e]
      /\ pc'[b] \in {"check", "register", "fence", "done"}
      /\ stopped /\ pc'[b] # "done" => phase'[b] = "release"
      /\ at'[b] \notin Lanes \/ at'[b] = queues[RouteOf[b]]
  <2>1. CASE stopped
    <3>1. Fail(b)
      BY <2>1 DEF Begin
    <3> QED BY <3>1, FailFacts
  <2>2. CASE ~stopped
    <3>1. /\ pc' = [pc EXCEPT ![b] = IF Dynamic THEN "check" ELSE "fence"] /\ phase' = phase
          /\ at' = [at EXCEPT ![b] = IF Dynamic THEN None ELSE ShardOf[RouteOf[b]]]
      BY <2>2 DEF Begin, Goto
    <3>2. ~Dynamic => queues = ShardOf
      BY <1>o DEF RoutesInv
    <3> QED BY <1>1, <2>2, <3>1, <3>2 DEF ClientTypes
  <2> QED BY <2>1, <2>2
<1>3. \A m \in Lanes : Sending(m)' = Sending(m)
  BY <1>1, <1>2, SameSending
<1>4. RoutesInv'
  <2>1. \A c \in Clients : /\ at'[c] = at[c] \/ at'[c] \notin Lanes \/ at'[c] = queues[RouteOf[c]]
                           /\ pc'[c] \in {"stopped", "late", "lifecycle"} => stopped'
                           /\ pc'[c] = "late" => \/ pc[c] = "late" /\ at'[c] = at[c]
                                                 \/ at'[c] = queues[RouteOf[c]] /\ at'[c] # None
    BY <1>1, <1>2, <1>o DEF RoutesInv
  <2> QED BY <1>1, <1>o, <2>1, RoutesKept
<1>5. FencesInv' /\ HeldInv'
  BY <1>1, <1>o DEF FencesInv, HeldInv, KeyHeld
<1>6. \A m \in Lanes : /\ TicketsAt(m)'
                       /\ \A c, d : Orderly(lane[m], Older(m), lane'[m], Older(m)', c, d)
  <2> TAKE m \in Lanes
  <2>1. lane[m] \in LaneRecords /\ TicketsAt(m)
    BY LaneFacts
  <2> QED BY <1>1, <1>3, <2>1, LaneUntouched
<1>7. earlier'[b] = Returned(RouteOf[b]) /\ \A c \in Clients \ {b} : earlier'[c] = earlier[c]
  BY <1>1 DEF ClientTypes
<1>8. FreshInv'
  BY <1>1, <1>2, <1>7, <1>o DEF FreshInv, OffLanes
<1>9. ASSUME NEW c \in Clients, NEW d \in earlier'[c] PROVE PairInv(c, d)'
  <2>1. CASE c = b
    <3>1. d \in Clients /\ pc[d] = "done" /\ RouteOf[d] = RouteOf[c] /\ d \in accepted \cup Owners
          /\ (stopped => \A x \in Admins : ~Postponed(sec[x], d))
      BY <1>7, <1>9, <2>1 DEF Returned
    <3>2. d # b /\ pc'[d] = "done"
      BY <1>1, <1>2, <3>1
    <3>3. starts[b] = 0 /\ OffLanes(b) /\ \A x \in Admins : ~Postponed(sec[x], b)
      BY <1>1, <1>o DEF FreshInv
    <3>4. ASSUME NEW m \in Lanes PROVE InChannel(lane'[m], b, d) /\ InBacklog(lane'[m], Older(m)', b, d)
      BY <1>1, <3>3 DEF OffLanes, OnLane, HasTask, InChannel, InBacklog
    <3>5. ASSUME NEW x \in Admins
          PROVE  /\ InSection(sec'[x], b, d) /\ ~Postponed(sec'[x], b)
                 /\ Postponed(sec'[x], d) => KeyHeld(d, x)'
      <4>1. InSection(sec[x], b, d) /\ ~Postponed(sec[x], b)
        BY <3>3 DEF InSection, Postponed
      <4>2. Postponed(sec[x], d) => KeyHeld(d, x)
        BY <1>o, <3>1 DEF HeldInv
      <4> QED BY <1>1, <4>1, <4>2 DEF KeyHeld
    <3>6. OnItsWay(b, d)'
      <4>1. CASE stopped
        BY <4>1, <1>2 DEF OnItsWay
      <4>2. CASE ~stopped
        <5>1. \A m \in Lanes : Unbarred(lane[m], d)
          <6> SUFFICES ASSUME NEW m \in Lanes, NEW i \in 1..Len(lane[m].backlog), NEW j \in 1..i
                       PROVE  ~lane[m].backlog[j].fence
            BY DEF Unbarred
          <6>1. Len(lane[m].backlog) \in Nat
            BY <1>1, EntryParts
          <6>2. j \in 1..Len(lane[m].backlog)
            BY <6>1
          <6> QED BY <1>o, <4>2, <6>2 DEF FencesInv
        <5> QED BY <1>1, <1>2, <5>1 DEF OnItsWay
      <4> QED BY <4>1, <4>2
    <3>7. Behind(b, d)'
      BY <1>1, <3>3, <3>4, <3>5, <3>6 DEF Behind
    <3> QED BY <1>1, <2>1, <3>1, <3>2, <3>7 DEF PairInv
  <2>2. CASE c # b
    <3>1. d \in earlier[c] /\ PairInv(c, d)
      BY <1>7, <1>9, <2>2 DEF OrderInv
    <3>2. d \in Clients /\ pc[d] = "done" /\ d # b /\ pc'[d] = "done"
      BY <1>1, <1>2, <3>1 DEF PairInv
    <3>3. CASE d \in finished
      BY <1>1, <3>1, <3>2, <3>3 DEF PairInv
    <3>4. CASE d \notin finished
      <4>1. Awaits(c, d) /\ Behind(c, d)
        BY <3>1, <3>4 DEF Awaits, PairInv
      <4>2. SectionsAlike /\ HeldKept
        BY <1>1 DEF SectionsAlike, HeldKept, KeyHeld
      <4>3. SectionsOrdered(c, d)
        BY <3>2, <4>1, <4>2, SectionsStill
      <4>4. LanesOrdered(c, d) /\ OnWayKept(c, d)
        BY <1>2, <1>6, <2>2 DEF LanesOrdered, OnWayKept
      <4>5. PairKept(c, d)
        BY <1>1, <4>3, <4>4 DEF PairKept
      <4>6. Behind(c, d)'
        BY <1>1, <3>2, <4>1, <4>2, <4>5, BehindKept
      <4> QED BY <1>1, <3>1, <3>2, <4>6 DEF PairInv
    <3> QED BY <3>3, <3>4
  <2> QED BY <2>1, <2>2
<1>10. TicketsInv'
  BY <1>6 DEF TicketsInv
<1> QED BY <1>4, <1>5, <1>8, <1>9, <1>10 DEF OrderInv

-----------------------------------------------------------------------------
(* The stop, the sections and retirement keep the order. *)

LEMMA AsideOrder ==
  ASSUME IInv, OrderInv, UNCHANGED <<setup, client, lane, queues>>, stopped => stopped', FencesInv',
         finished \subseteq finished', \A e \in Clients : pc[e] = "idle" => starts'[e] = starts[e], NewlyHeld,
         \A c, d \in Clients : Awaits(c, d) /\ d \notin finished' => SectionsOrdered(c, d) /\ starts'[c] = starts[c]
  PROVE  OrderInv'
<1>1. pc' = pc /\ phase' = phase /\ at' = at /\ ticket' = ticket /\ accepted' = accepted /\ earlier' = earlier
  BY DEF client
<1>2. \A m \in Lanes : Sending(m)' = Sending(m)
  BY <1>1 DEF Sending
<1>3. RoutesInv'
  <2>1. RoutesInv
    BY DEF OrderInv
  <2>2. \A c \in Clients : /\ at'[c] = at[c] \/ at'[c] \notin Lanes \/ at'[c] = queues[RouteOf[c]]
                           /\ pc'[c] \in {"stopped", "late", "lifecycle"} => stopped'
                           /\ pc'[c] = "late" => \/ pc[c] = "late" /\ at'[c] = at[c]
                                                 \/ at'[c] = queues[RouteOf[c]] /\ at'[c] # None
    BY <1>1, <2>1 DEF RoutesInv
  <2> QED BY <1>1, <2>1, <2>2, RoutesKept
<1>4. \A m \in Lanes : /\ TicketsAt(m)'
                       /\ \A c, d : Orderly(lane[m], Older(m), lane'[m], Older(m)', c, d)
  <2> TAKE m \in Lanes
  <2>1. lane[m] \in LaneRecords /\ TicketsAt(m)
    BY LaneFacts
  <2> QED BY <1>1, <1>2, <2>1, LaneUntouched
<1>5. HeldKept
  BY DEF HeldKept, KeyHeld
<1>6. ASSUME NEW c \in Clients, NEW d \in Clients, Awaits(c, d), d \notin finished' PROVE PairKept(c, d)
  <2>1. LanesOrdered(c, d) /\ OnWayKept(c, d)
    BY <1>1, <1>4 DEF LanesOrdered, OnWayKept
  <2> QED BY <1>6, <2>1 DEF PairKept
<1>7. /\ \A e \in Clients : (pc[e] = "done" => pc'[e] = "done") /\ (pc'[e] = "idle" => pc[e] = "idle")
      /\ \A e \in Clients : pc[e] = "idle" => /\ starts'[e] = starts[e]
                                              /\ \A m \in Lanes : OnLane(lane'[m], e) => OnLane(lane[m], e)
  BY <1>1
<1>8. earlier' = earlier /\ finished \subseteq finished' /\ accepted \subseteq accepted' /\ (stopped => stopped')
  BY <1>1
<1>9. TicketsInv'
  BY <1>4 DEF TicketsInv
<1> QED BY ONLY IInv, OrderInv, FencesInv', NewlyHeld, <1>3, <1>5, <1>6, <1>7, <1>8, <1>9, OrderStep

\* Nothing is moved, called or finished.
LEMMA IdleOrder ==
  ASSUME IInv, OrderInv, UNCHANGED <<setup, client, lane, queues, made>>, stopped => stopped', FencesInv', SectionsAlike
  PROVE  OrderInv'
<1>1. NewlyHeld /\ \A c, d \in Clients : Awaits(c, d) => SectionsOrdered(c, d)
  BY SectionsStill
<1>2. finished' = finished /\ starts' = starts
  BY DEF made
<1> QED BY <1>1, <1>2, AsideOrder

LEMMA StopCallOrder ==
  ASSUME IInv, OrderInv, \/ \E h \in BOOLEAN : StopCall(h)
                         \/ signalStopOnce \/ waitWorkers \/ waitSections \/ finishLifecycleCleanups \/ StopTimeout,
         setup' = setup
  PROVE  OrderInv'
<1>1. FencesInv
  BY DEF OrderInv
<1>2. /\ UNCHANGED <<setup, client, lane, queues, made, section>> /\ (stopped => stopped')
      /\ stopped' \/ stop' # "idle" => ~cleanupOn'
  <2>1. CASE \E h \in BOOLEAN : StopCall(h)
    BY <1>1, <2>1 DEF FencesInv, StopCall
  <2>2. CASE signalStopOnce
    BY <1>1, <2>2 DEF FencesInv, signalStopOnce
  <2>3. CASE waitWorkers \/ waitSections
    BY <1>1, <2>3 DEF FencesInv, waitWorkers, waitSections
  <2>4. CASE finishLifecycleCleanups
    BY <1>1, <2>4 DEF FencesInv, finishLifecycleCleanups
  <2>5. CASE StopTimeout
    BY <1>1, <2>5 DEF FencesInv, StopTimeout
  <2> QED BY <2>1, <2>2, <2>3, <2>4, <2>5
<1>3. FencesInv'
  BY <1>1, <1>2 DEF FencesInv
<1>4. SectionsAlike
  BY <1>2 DEF SectionsAlike, section
<1> QED BY <1>2, <1>3, <1>4, IdleOrder

LEMMA SectionMoveOrder ==
  ASSUME IInv, OrderInv, NEW x \in Admins, setup' = setup,
         \/ Enter(x) \/ AwaitRunning(x) \/ AllParked(x) \/ RunFn(x) \/ FnEnds(x) \/ Abandon(x) \/ Release(x)
         \/ installExclusive(x)
  PROVE  OrderInv'
<1>1. UNCHANGED <<setup, client, lane, queues, made, control>>
  BY DEF Enter, AwaitRunning, AllParked, RunFn, FnEnds, Abandon, Release, installExclusive
<1>2. SectionsAlike
  <2>1. CASE Enter(x) \/ AwaitRunning(x) \/ AllParked(x) \/ RunFn(x) \/ FnEnds(x) \/ Abandon(x) \/ Release(x)
    BY <2>1 DEF Enter, AwaitRunning, AllParked, RunFn, FnEnds, Abandon, Release, SectionsAlike
  <2>2. CASE installExclusive(x)
    <3> DEFINE u == IF Dynamic THEN {l \in Lanes : Live(l) /\ \E k \in Keys : queues[k] = l} ELSE Laid
               v == lifecycle \cup ({barriers[k] : k \in Keys} \ {None})
    <3>1. sec' = [sec EXCEPT ![x].lanes = u, ![x].running = v] /\ sec \in [Admins -> SectionRecords]
      BY <2>2 DEF installExclusive, IInv, TypeOK, SectionTypes
    <3> HIDE DEF u, v
    <3> QED BY <3>1 DEF SectionsAlike, SectionRecords
  <2> QED BY <2>1, <2>2
<1>3. FencesInv' /\ (stopped => stopped')
  BY <1>1 DEF OrderInv, FencesInv, control
<1> QED BY <1>1, <1>2, <1>3, IdleOrder

LEMMA SameFlow ==
  ASSUME NEW m \in Lanes, NEW p \in LaneRecords, NEW q \in LaneRecords, p = lane[m], q = lane'[m], TicketsAt(m),
         q.ch = p.ch, q.backlog = p.backlog, q.cur = p.cur, q.worker = p.worker, q.settled = p.settled,
         q.admitted = p.admitted, Sending(m)' = Sending(m), ticket' = ticket
  PROVE  /\ TicketsAt(m)'
         /\ \A c, d : Orderly(p, Older(m), q, Older(m)', c, d)
         /\ \A x : Holding(p, q, x)
         /\ \A d : OnLane(q, d) <=> OnLane(p, d)
<1>1. Tasks(q) = Tasks(p) /\ \A d : OnLane(q, d) <=> OnLane(p, d)
  BY DEF Tasks, OnLane, HasTask
<1>2. TicketsAt(m)'
  BY <1>1 DEF TicketsAt
<1>3. Older(m)' = Older(m) /\ Older(m) \in Counts
  BY OlderSame, OlderCounts
<1>4. ASSUME NEW c, NEW d PROVE Orderly(p, Older(m), q, Older(m)', c, d)
  <2>1. SameQueue(p, q) /\ (q.cur = d => p.cur = d)
    BY DEF SameQueue
  <2>2. \A n \in Nat : Older(m)[n] <= Older(m)[n]
    BY <1>3 DEF Counts
  <2>3. Orderly(p, Older(m), q, Older(m), c, d)
    BY ONLY p \in LaneRecords, q \in LaneRecords, <1>3, <2>1, <2>2, QueueKept
  <2> QED BY <1>3, <2>3
<1>5. \A x : Holding(p, q, x)
  BY HoldingSame
<1> QED BY <1>1, <1>2, <1>4, <1>5

LEMMA CloseLanesOrder ==
  ASSUME IInv, IInv', OrderInv, CloseLanes, setup' = setup PROVE OrderInv'
<1>1. /\ UNCHANGED <<setup, client, queues, cleanupOn, stopped, section, made>> /\ lane \in [Lanes -> LaneRecords]
      /\ lane' \in [Lanes -> LaneRecords] /\ stop = "fence" /\ stop' = "workers"
      /\ \A m \in Lanes : lane'[m] = lane[m] \/ lane'[m] = [lane[m] EXCEPT !.closed = TRUE]
  BY DEF CloseLanes, IInv, TypeOK
<1>c. /\ pc' = pc /\ phase' = phase /\ at' = at /\ ticket' = ticket /\ accepted' = accepted /\ earlier' = earlier
      /\ starts' = starts /\ finished' = finished /\ sec' = sec
  BY <1>1 DEF client, made, section
<1>2. \A m \in Lanes : Sending(m)' = Sending(m)
  BY <1>c DEF Sending
<1>3. ASSUME NEW m \in Lanes
      PROVE  /\ lane'[m].ch = lane[m].ch /\ lane'[m].backlog = lane[m].backlog /\ lane'[m].cur = lane[m].cur
             /\ lane'[m].worker = lane[m].worker /\ lane'[m].settled = lane[m].settled
             /\ lane'[m].admitted = lane[m].admitted /\ lane'[m].retired = lane[m].retired
  <2> DEFINE p == lane[m]
             q == lane'[m]
  <2>1. p \in LaneRecords /\ (q = p \/ q = [p EXCEPT !.closed = TRUE])
    BY <1>1
  <2>2. /\ q.ch = p.ch /\ q.backlog = p.backlog /\ q.cur = p.cur /\ q.worker = p.worker /\ q.settled = p.settled
        /\ q.admitted = p.admitted /\ q.retired = p.retired
    <3> HIDE DEF p, q
    <3> QED BY <2>1 DEF LaneRecords
  <2> QED BY <2>2
<1>4. ASSUME NEW m \in Lanes
      PROVE  /\ TicketsAt(m)' /\ \A c, d : Orderly(lane[m], Older(m), lane'[m], Older(m)', c, d)
             /\ \A x : Holding(lane[m], lane'[m], x)
             /\ \A d : OnLane(lane'[m], d) <=> OnLane(lane[m], d)
  <2>1. lane[m] \in LaneRecords /\ lane'[m] \in LaneRecords /\ TicketsAt(m)
    BY <1>1, LaneFacts
  <2>2. Sending(m)' = Sending(m) /\ ticket' = ticket
    BY <1>2, <1>c
  <2> QED BY ONLY m \in Lanes, <1>3, <2>1, <2>2, SameFlow
<1>5. RoutesInv'
  <2>1. RoutesInv
    BY DEF OrderInv
  <2>2. \A c \in Clients : /\ at'[c] = at[c] \/ at'[c] \notin Lanes \/ at'[c] = queues[RouteOf[c]]
                           /\ pc'[c] \in {"stopped", "late", "lifecycle"} => stopped'
                           /\ pc'[c] = "late" => \/ pc[c] = "late" /\ at'[c] = at[c]
                                                 \/ at'[c] = queues[RouteOf[c]] /\ at'[c] # None
    BY <1>1, <1>c, <2>1 DEF RoutesInv
  <2> QED BY <1>1, <1>3, <1>4, <2>1, <2>2, RoutesKept
<1>6. FencesInv'
  <2>1. ASSUME NEW m \in Lanes, NEW i \in 1..Len(lane'[m].backlog), lane'[m].backlog[i].fence PROVE stopped
    BY <1>3, <2>1 DEF OrderInv, FencesInv
  <2> QED BY <1>1, <2>1 DEF OrderInv, FencesInv
<1>7. HeldKept
  <2>1. \A m \in Lanes : Quiet(lane[m]) => Quiet(lane'[m])
    BY <1>3 DEF Quiet
  <2> QED BY <1>1, <1>4, <2>1, HeldStays
<1>8. SectionsAlike
  BY <1>c DEF SectionsAlike
<1>9. NewlyHeld /\ \A c, d \in Clients : Awaits(c, d) => SectionsOrdered(c, d)
  BY <1>8, SectionsStill
<1>10. ASSUME NEW c \in Clients, NEW d \in Clients, Awaits(c, d) PROVE PairKept(c, d)
  <2>1. LanesOrdered(c, d) /\ OnWayKept(c, d)
    BY <1>c, <1>4 DEF LanesOrdered, OnWayKept
  <2> QED BY <1>c, <1>9, <1>10, <2>1 DEF PairKept
<1>11. /\ \A e \in Clients : (pc[e] = "done" => pc'[e] = "done") /\ (pc'[e] = "idle" => pc[e] = "idle")
       /\ \A e \in Clients : pc[e] = "idle" => /\ starts'[e] = starts[e]
                                               /\ \A m \in Lanes : OnLane(lane'[m], e) => OnLane(lane[m], e)
       /\ earlier' = earlier /\ finished \subseteq finished' /\ accepted \subseteq accepted' /\ (stopped => stopped')
       /\ TicketsInv'
  BY <1>1, <1>c, <1>4 DEF TicketsInv
<1> QED BY ONLY IInv, OrderInv, <1>5, <1>6, <1>7, <1>9, <1>10, <1>11, OrderStep

LEMMA RetireOrder ==
  ASSUME IInv, IInv', OrderInv, NEW k \in Keys, Retire(k), setup' = setup PROVE OrderInv'
<1>0. PICK l \in Lanes : l = queues[k]
  BY DEF IInv, TypeOK, RoutingTypes, Retire
<1> DEFINE p == lane[l]
           q == lane'[l]
<1>1. /\ UNCHANGED <<setup, client, control, section, made>> /\ lane \in [Lanes -> LaneRecords] /\ Dynamic
      /\ lane' \in [Lanes -> LaneRecords] /\ cleanupOn /\ active = None /\ queues' = [queues EXCEPT ![k] = None]
      /\ p.pending = 0 /\ p.ch = <<>> /\ p.backlog = <<>> /\ RoutingTypes /\ None \notin Lanes /\ None \notin Clients
      /\ lane' = [lane EXCEPT ![l].retired = TRUE, ![l].closed = TRUE] /\ RouteOf \in [Clients -> Keys] /\ None \notin Admins
  BY <1>0, AsyncAssumption DEF Retire, IInv, TypeOK
<1>c. /\ pc' = pc /\ phase' = phase /\ at' = at /\ ticket' = ticket /\ accepted' = accepted /\ earlier' = earlier
      /\ starts' = starts /\ finished' = finished /\ sec' = sec /\ stopped' = stopped /\ cleanupOn' = cleanupOn /\ stop' = stop
  BY <1>1 DEF client, made, section, control
<1>o. RoutesInv /\ FencesInv /\ ~stopped
  BY <1>1 DEF OrderInv, FencesInv
<1>2. \A m \in Lanes : Sending(m)' = Sending(m)
  BY <1>c DEF Sending
<1>3. /\ q.ch = p.ch /\ q.backlog = p.backlog /\ q.cur = p.cur /\ q.worker = p.worker /\ q.settled = p.settled
      /\ q.admitted = p.admitted /\ q.retired /\ p \in LaneRecords /\ q \in LaneRecords /\ p = lane[l] /\ q = lane'[l]
      /\ \A m \in Lanes \ {l} : lane'[m] = lane[m]
  BY <1>1 DEF LaneRecords
<1>p. p.cur = None
  <2>1. Pending(l) /\ Len(p.ch) = 0 /\ Len(p.backlog) = 0
    BY <1>1, EmptySeq DEF IInv, LanesInv
  <2>2. Cardinality(Sending(l)) \in Nat
    BY SendingFinite
  <2> QED BY <1>1, <2>1, <2>2 DEF Pending
<1> HIDE DEF p, q
<1>4. /\ TicketsAt(l)' /\ \A c, d : Orderly(p, Older(l), q, Older(l)', c, d)
      /\ \A d : OnLane(q, d) <=> OnLane(p, d)
  <2>1. TicketsAt(l) /\ Sending(l)' = Sending(l) /\ ticket' = ticket
    BY <1>2, <1>c, LaneFacts
  <2> QED BY ONLY l \in Lanes, <1>3, <2>1, SameFlow
<1>5. \A m \in Lanes \ {l} : TicketsAt(m)' /\ \A c, d : Orderly(lane[m], Older(m), lane'[m], Older(m)', c, d)
  <2> TAKE m \in Lanes \ {l}
  <2>1. lane[m] \in LaneRecords /\ lane'[m] = lane[m] /\ TicketsAt(m) /\ Sending(m)' = Sending(m)
        /\ \A c \in Sending(m) : ticket'[c] = ticket[c]
    BY <1>1, <1>2, <1>3, <1>c, LaneFacts
  <2> QED BY <2>1, LaneUntouched
<1>6. \A d \in Clients : ~OnLane(p, d)
  <2>1. Len(p.ch) = 0 /\ Len(p.backlog) = 0
    BY <1>1, EmptySeq
  <2> QED BY <1>1, <1>p, <2>1 DEF OnLane, HasTask
<1>7. queues'[k] = None /\ \A j \in Keys \ {k} : queues'[j] = queues[j]
  BY <1>1 DEF RoutingTypes
<1>8. RoutesInv'
  <2>1. ASSUME NEW m \in Lanes, NEW d \in Clients, OnLane(lane'[m], d) PROVE queues'[RouteOf[d]] = m
    <3>1. m # l
      BY <1>3, <1>4, <1>6, <2>1
    <3>2. queues[RouteOf[d]] = m /\ RouteOf[d] \in Keys
      BY <1>1, <1>3, <1>o, <2>1, <3>1 DEF RoutesInv
    <3> QED BY <1>0, <1>7, <3>1, <3>2
  <2>2. ASSUME NEW c \in Clients PROVE /\ at'[c] \in Lanes /\ ~lane'[at'[c]].retired => queues'[RouteOf[c]] = at'[c]
                                       /\ pc'[c] \notin {"stopped", "late", "lifecycle"}
    <3>1. pc'[c] \notin {"stopped", "late", "lifecycle"}
      BY <1>c, <1>o DEF RoutesInv
    <3>2. ASSUME at[c] \in Lanes, ~lane'[at[c]].retired PROVE queues'[RouteOf[c]] = at[c]
      <4>1. at[c] # l /\ lane'[at[c]] = lane[at[c]]
        BY <1>3, <3>2
      <4>2. queues[RouteOf[c]] = at[c] /\ RouteOf[c] \in Keys
        BY <1>1, <1>o, <3>2, <4>1 DEF RoutesInv
      <4> QED BY <1>0, <1>7, <4>1, <4>2
    <3> QED BY <1>c, <3>1, <3>2
  <2>3. ASSUME NEW j \in Keys, queues'[j] # None PROVE ~lane'[queues'[j]].retired
    <3>1. j # k /\ queues'[j] = queues[j] /\ queues[j] \in Lanes
      BY <1>1, <1>7, <2>3 DEF RoutingTypes
    <3>2. queues[j] # l
      BY <1>0, <1>1, <1>o, <2>3, <3>1 DEF RoutesInv
    <3>3. lane'[queues[j]] = lane[queues[j]] /\ ~lane[queues[j]].retired
      BY <1>3, <1>o, <2>3, <3>1, <3>2 DEF RoutesInv
    <3> QED BY <3>1, <3>3
  <2>4. \A i, j \in Keys : queues'[i] = queues'[j] /\ queues'[i] # None => i = j
    BY <1>1, <1>7, <1>o DEF RoutesInv
  <2>5. Dynamic'
    BY <1>1 DEF Dynamic
  <2> QED BY <2>1, <2>2, <2>3, <2>4, <2>5 DEF RoutesInv
<1>9. FencesInv'
  <2>1. ASSUME NEW m \in Lanes, NEW i \in 1..Len(lane'[m].backlog), lane'[m].backlog[i].fence PROVE stopped
    BY <1>3, <1>o, <2>1 DEF FencesInv
  <2> QED BY <1>c, <1>o, <2>1 DEF FencesInv
<1>10. HeldKept
  BY <1>1, PostponedTo DEF HeldKept
<1>11. SectionsAlike
  BY <1>c DEF SectionsAlike
<1>12. NewlyHeld /\ \A c, d \in Clients : Awaits(c, d) => SectionsOrdered(c, d)
  BY <1>11, SectionsStill
<1>13. ASSUME NEW c \in Clients, NEW d \in Clients, Awaits(c, d) PROVE PairKept(c, d)
  <2>1. LanesOrdered(c, d) /\ OnWayKept(c, d)
    BY <1>c, <1>3, <1>4, <1>5 DEF LanesOrdered, OnWayKept
  <2> QED BY <1>c, <1>12, <1>13, <2>1 DEF PairKept
<1>14. /\ \A e \in Clients : (pc[e] = "done" => pc'[e] = "done") /\ (pc'[e] = "idle" => pc[e] = "idle")
       /\ \A e \in Clients : pc[e] = "idle" => /\ starts'[e] = starts[e]
                                               /\ \A m \in Lanes : OnLane(lane'[m], e) => OnLane(lane[m], e)
       /\ earlier' = earlier /\ finished \subseteq finished' /\ accepted \subseteq accepted' /\ (stopped => stopped')
       /\ TicketsInv'
  BY <1>c, <1>3, <1>4, <1>5 DEF TicketsInv
<1> QED BY ONLY IInv, OrderInv, <1>8, <1>9, <1>10, <1>12, <1>13, <1>14, OrderStep

LEMMA WithdrawOrder ==
  ASSUME IInv, OrderInv, NEW x \in Admins, withdrawExclusive(x), setup' = setup PROVE OrderInv'
<1>1. UNCHANGED <<setup, client, lane, queues, control, made>> /\ apc[x] = "withdraw"
      /\ sec \in [Admins -> SectionRecords]
  BY DEF withdrawExclusive, IInv, TypeOK, SectionTypes
<1>2. FencesInv' /\ (stopped => stopped') /\ finished' = finished /\ starts' = starts
  BY <1>1 DEF OrderInv, FencesInv, control, made
<1>3. CASE sec[x].deferred = <<>>
  <2>1. SectionsAlike
    BY <1>3 DEF withdrawExclusive, SectionsAlike
  <2> QED BY <1>1, <1>2, <2>1, IdleOrder
<1>4. CASE sec[x].deferred # <<>>
  <2>1. sec' = [sec EXCEPT ![x].draining = sec[x].deferred, ![x].deferred = <<>>]
    BY <1>4 DEF withdrawExclusive
  <2>2. /\ sec'[x].draining = sec[x].deferred /\ sec'[x].deferred = <<>> /\ Len(sec'[x].deferred) = 0
        /\ \A y \in Admins \ {x} : sec'[y] = sec[y]
    BY <1>1, <2>1, EmptySeq DEF SectionRecords
  <2>3. \A y \in Admins : \A d : Postponed(sec'[y], d) => Postponed(sec[y], d)
    <3> SUFFICES ASSUME NEW y \in Admins, NEW d, Postponed(sec'[y], d) PROVE Postponed(sec[y], d)
      OBVIOUS
    <3>1. CASE y = x
      BY <2>2, <3>1 DEF Postponed
    <3>2. CASE y # x
      BY <2>2, <3>2
    <3> QED BY <3>1, <3>2
  <2>4. NewlyHeld
    BY <2>3 DEF NewlyHeld
  <2>5. ASSUME NEW c \in Clients, NEW d \in Clients, Awaits(c, d) PROVE SectionsOrdered(c, d)
    <3>1. \A y \in Admins : InSection(sec[y], c, d)
      BY <2>5 DEF Awaits, Behind
    <3>2. InSection(sec'[x], c, d)
      BY <2>2, <3>1 DEF InSection
    <3>3. \A y \in Admins : InSection(sec'[y], c, d)
      BY <2>2, <3>1, <3>2
    <3> QED BY <2>3, <3>3 DEF SectionsOrdered
  <2> QED BY <1>1, <1>2, <2>4, <2>5, AsideOrder
<1> QED BY <1>3, <1>4

LEMMA DrainOrder ==
  ASSUME IInv, OrderInv, NEW x \in Admins, DrainNext(x) \/ DrainEnds(x), setup' = setup PROVE OrderInv'
<1> DEFINE s == sec[x].draining
<1>1. UNCHANGED <<setup, client, lane, queues, control>> /\ s \in Seq(Clients)
      /\ sec \in [Admins -> SectionRecords] /\ starts \in [Clients -> Nat]
  BY DEF DrainNext, DrainEnds, IInv, TypeOK, SectionTypes, SectionRecords
<1>2. FencesInv' /\ (stopped => stopped')
  BY <1>1 DEF OrderInv, FencesInv, control
<1>s. s = sec[x].draining
  OBVIOUS
<1>t. s # <<>> => /\ Len(s) \in Nat /\ Len(s) >= 1 /\ 1 \in 1..Len(s) /\ Head(s) = s[1]
                  /\ Len(Tail(s)) \in Nat /\ Len(Tail(s)) + 1 = Len(s)
                  /\ \A i \in 1..Len(Tail(s)) : /\ i \in Nat /\ i >= 1 /\ Tail(s)[i] = s[i + 1]
                                                /\ i + 1 \in 1..Len(s) /\ i \in 1..Len(s)
  <2> HIDE DEF s
  <2> QED BY <1>1, TailEntries
<1>3. CASE DrainNext(x)
  <2>1. finished' = finished /\ SectionsAlike
    BY <1>3 DEF DrainNext, SectionsAlike
  <2>2. NewlyHeld /\ \A c, d \in Clients : Awaits(c, d) => SectionsOrdered(c, d)
    BY <2>1, SectionsStill
  <2>3. CASE s = <<>>
    <3>1. starts' = starts
      BY <1>3, <2>3 DEF DrainNext
    <3> QED BY <1>1, <1>2, <2>1, <2>2, <3>1, AsideOrder
  <2>4. CASE s # <<>>
    <3>1. starts' = [starts EXCEPT ![s[1]] = @ + 1] /\ s[1] \in Clients
      BY <1>1, <1>3, <1>t, <2>4 DEF DrainNext
    <3>2. \A e \in Clients : e # s[1] => starts'[e] = starts[e]
      BY <1>1, <3>1
    <3>3. Postponed(sec[x], s[1])
      BY <1>t, <2>4 DEF Postponed
    <3>4. pc[s[1]] # "idle"
      BY <3>1, <3>3 DEF OrderInv, FreshInv
    <3>5. ASSUME NEW d \in Clients, Awaits(s[1], d) PROVE FALSE
      <4>1. OffLanes(d) /\ InSection(sec[x], s[1], d)
        BY <3>3, <3>5 DEF Awaits, Behind
      <4>2. PICK y \in Admins : Postponed(sec[y], d)
        BY <3>5, <4>1, StillOwed DEF OffLanes
      <4>3. y = x
        BY <3>3, <4>2, PostponedTo
      <4>4. /\ \A i \in 1..Len(sec[x].deferred) : sec[x].deferred[i] # d
            /\ \A i \in 1..Len(s) : s[i] = d => i < 1
        BY <4>1, <1>t, <2>4 DEF InSection
      <4>5. PICK i \in 1..Len(s) : s[i] = d
        BY <4>2, <4>3, <4>4 DEF Postponed
      <4>6. i < 1 /\ i \in Nat /\ i >= 1
        BY <4>4, <4>5, <1>t, <2>4
      <4> QED BY <4>6
    <3>6. \A e \in Clients : pc[e] = "idle" => starts'[e] = starts[e]
      BY <3>2, <3>4
    <3>7. \A c, d \in Clients : Awaits(c, d) => starts'[c] = starts[c]
      BY <3>2, <3>5
    <3> QED BY <1>1, <1>2, <2>1, <2>2, <3>6, <3>7, AsideOrder
  <2> QED BY <2>3, <2>4
<1>4. CASE DrainEnds(x)
  <2>1. sec' = [sec EXCEPT ![x].draining = Tail(@)] /\ finished' = finished \cup {Head(s)} /\ starts' = starts
        /\ s # <<>>
    BY <1>4 DEF DrainEnds, IInv, SectionInv
  <2>2. /\ sec'[x].draining = Tail(s) /\ sec'[x].deferred = sec[x].deferred
        /\ \A y \in Admins \ {x} : sec'[y] = sec[y]
    BY <1>1, <2>1 DEF SectionRecords
  <2> HIDE DEF s
  <2>3. \A y \in Admins : \A d : Postponed(sec'[y], d) => Postponed(sec[y], d)
    <3> SUFFICES ASSUME NEW y \in Admins, NEW d, Postponed(sec'[y], d) PROVE Postponed(sec[y], d)
      OBVIOUS
    <3>1. CASE y = x
      <4>1. ASSUME NEW i \in 1..Len(Tail(s)), Tail(s)[i] = d PROVE Postponed(sec[x], d)
        BY <1>t, <1>s, <2>1, <4>1 DEF Postponed
      <4>2. Postponed(sec'[x], d)
        BY <3>1
      <4>3. (\E i \in 1..Len(sec[x].deferred) : sec[x].deferred[i] = d) \/ \E i \in 1..Len(Tail(s)) : Tail(s)[i] = d
        BY <2>2, <4>2 DEF Postponed
      <4> QED BY <3>1, <4>1, <4>3 DEF Postponed
    <3>2. CASE y # x
      BY <2>2, <3>2
    <3> QED BY <3>1, <3>2
  <2>4. NewlyHeld
    BY <2>3 DEF NewlyHeld
  <2>5. ASSUME NEW c \in Clients, NEW d \in Clients, Awaits(c, d) PROVE SectionsOrdered(c, d)
    <3>1. \A y \in Admins : InSection(sec[y], c, d)
      BY <2>5 DEF Awaits, Behind
    <3>2. ASSUME NEW j \in 1..Len(Tail(s)), Tail(s)[j] = c
          PROVE  /\ \A i \in 1..Len(sec[x].deferred) : sec[x].deferred[i] # d
                 /\ \A i \in 1..Len(Tail(s)) : Tail(s)[i] = d => i < j
      <4>1. j + 1 \in 1..Len(s) /\ s[j + 1] = c /\ j \in Nat
        BY <1>t, <2>1, <3>2
      <4>2. /\ \A i \in 1..Len(sec[x].deferred) : sec[x].deferred[i] # d
            /\ \A i \in 1..Len(s) : s[i] = d => i < j + 1
        BY <1>s, <3>1, <4>1 DEF InSection
      <4>3. ASSUME NEW i \in 1..Len(Tail(s)), Tail(s)[i] = d PROVE i < j
        <5>1. i + 1 \in 1..Len(s) /\ s[i + 1] = d /\ i \in Nat
          BY <1>t, <2>1, <4>3
        <5>2. i + 1 < j + 1
          BY <4>2, <5>1
        <5> QED BY <4>1, <5>1, <5>2
      <4> QED BY <4>2, <4>3
    <3>3. InSection(sec'[x], c, d)
      BY <2>2, <3>1, <3>2 DEF InSection
    <3>4. \A y \in Admins : InSection(sec'[y], c, d)
      BY <2>2, <3>1, <3>3
    <3> QED BY <2>3, <3>4 DEF SectionsOrdered
  <2> QED BY <1>1, <1>2, <2>1, <2>4, <2>5, AsideOrder
<1> QED BY <1>3, <1>4

\* A barrier is put on a lane.
LEMMA BarredOrder ==
  ASSUME IInv, OrderInv, NEW x \in Admins, NEW l \in Lanes,
         lane' = [lane EXCEPT ![l] = enqueueMandatory(@, x, FALSE)], SectionsAlike,
         UNCHANGED <<setup, client, queues, control, made>>
  PROVE  OrderInv'
<1> DEFINE p == lane[l]
           f == FALSE
           q == enqueueMandatory(p, x, f)
           z == [task |-> x, cutoff |-> p.admitted, target |-> p.admitted, fence |-> f]
<1>1. /\ lane \in [Lanes -> LaneRecords] /\ p \in LaneRecords /\ TicketsAt(l) /\ Older(l) \in Counts
      /\ \A i \in 1..Len(p.backlog) : p.backlog[i].cutoff <= p.admitted /\ (p.backlog[i].fence => stopped)
  BY LaneFacts
<1>c. /\ pc' = pc /\ phase' = phase /\ at' = at /\ ticket' = ticket /\ accepted' = accepted /\ earlier' = earlier
      /\ starts' = starts /\ finished' = finished /\ stopped' = stopped /\ cleanupOn' = cleanupOn /\ stop' = stop
      /\ queues' = queues
  BY DEF client, made, control
<1>2. lane'[l] = q /\ (\A m \in Lanes \ {l} : lane'[m] = lane[m]) /\ p = lane[l] /\ q = enqueueMandatory(p, x, f)
      /\ z = [task |-> x, cutoff |-> p.admitted, target |-> p.admitted, fence |-> f]
      /\ z.cutoff = p.admitted /\ ~z.fence /\ f \in BOOLEAN /\ x \in Clients \cup Admins
  BY <1>1
<1> HIDE DEF p, q, z, f
<1>3. /\ q \in LaneRecords
      /\ q.ch = p.ch /\ q.cur = p.cur /\ q.worker = p.worker /\ q.retired = p.retired /\ q.settled = p.settled
      /\ (\A u : HasTask(q, u) <=> HasTask(p, u) \/ u = x) /\ (\A y : Holds(p, y) => Holds(q, y))
      /\ Len(q.backlog) = Len(p.backlog) + 1
  BY <1>1, <1>2, Enqueued
<1>4. q.backlog = Append(p.backlog, z) /\ q.admitted = p.admitted
  BY <1>1, <1>2, Appended
<1>5. \A m \in Lanes : Sending(m)' = Sending(m)
  BY <1>c DEF Sending
<1>n. /\ p.settled \in Nat /\ p.admitted \in Nat /\ Len(p.ch) \in Nat /\ Tasks(p) \in {0, 1} /\ Len(p.backlog) \in Nat
      /\ p.backlog \in Seq(Entries)
  BY <1>1, EntryParts
<1>e. /\ q.backlog[Len(p.backlog) + 1] = z
      /\ \A i \in 1..Len(p.backlog) : q.backlog[i] = p.backlog[i]
  <2>1. z \in Entries
    BY <1>2, <1>n DEF Entries
  <2> QED BY <1>4, <1>n, <2>1, AppendProperties
<1>i. \A i \in 1..Len(q.backlog) : i \in 1..Len(p.backlog) \/ i = Len(p.backlog) + 1
  BY <1>3, <1>n
<1>b. \A i \in 1..Len(q.backlog) : q.backlog[i].cutoff <= q.admitted /\ (q.backlog[i].fence => stopped)
  BY <1>i, <1>e, <1>1, <1>2, <1>n, <1>4
<1>t. Tasks(q) = Tasks(p) /\ (Quiet(p) => Quiet(q)) /\ (\A d \in Clients : OnLane(q, d) => OnLane(p, d))
  <2>1. \A d \in Clients : d # x
    BY AsyncAssumption
  <2> QED BY <1>3, <2>1 DEF Tasks, Quiet, OnLane
<1>6. TicketsAt(l)'
  BY <1>1, <1>2, <1>3, <1>4, <1>5, <1>c, <1>t, <1>b DEF TicketsAt
<1>7. ASSUME NEW c \in Clients, NEW d \in Clients PROVE Orderly(p, Older(l), q, Older(l)', c, d)
  <2>1. p.settled + Len(p.ch) + Tasks(p) + Older(l)[p.admitted] <= p.admitted
    BY <1>1, <1>2, TicketRoom
  <2>2. x # d /\ x \in Clients \cup Admins 
    BY AsyncAssumption
  <2>3. Orderly(p, Older(l), q, Older(l), c, d)
    BY ONLY <1>1, <1>2, <2>1, <2>2, EnqueueKeepsOrder
  <2>4. Older(l)' = Older(l)
    BY <1>5, <1>c, OlderSame
  <2> QED BY <2>3, <2>4
<1>8. \A m \in Lanes \ {l} : TicketsAt(m)' /\ \A c, d : Orderly(lane[m], Older(m), lane'[m], Older(m)', c, d)
  <2> TAKE m \in Lanes \ {l}
  <2>1. lane[m] \in LaneRecords /\ lane'[m] = lane[m] /\ TicketsAt(m) /\ Sending(m)' = Sending(m)
        /\ \A c \in Sending(m) : ticket'[c] = ticket[c]
    BY <1>1, <1>2, <1>5, <1>c, LaneFacts
  <2> QED BY <2>1, LaneUntouched
<1>9. RoutesInv'
  <2>1. RoutesInv
    BY DEF OrderInv
  <2>2. \A c \in Clients : /\ at'[c] = at[c] \/ at'[c] \notin Lanes \/ at'[c] = queues[RouteOf[c]]
                           /\ pc'[c] \in {"stopped", "late", "lifecycle"} => stopped'
                           /\ pc'[c] = "late" => \/ pc[c] = "late" /\ at'[c] = at[c]
                                                 \/ at'[c] = queues[RouteOf[c]] /\ at'[c] # None
    BY <1>c, <2>1 DEF RoutesInv
  <2>3. \A m \in Lanes : lane'[m].retired = lane[m].retired
    BY <1>2, <1>3
  <2>4. \A m \in Lanes, d \in Clients : OnLane(lane'[m], d) => OnLane(lane[m], d)
    BY <1>2, <1>t
  <2> QED BY <1>c, <2>1, <2>2, <2>3, <2>4, RoutesKept
<1>10. FencesInv'
  <2>1. ASSUME NEW m \in Lanes, NEW i \in 1..Len(lane'[m].backlog), lane'[m].backlog[i].fence PROVE stopped
    BY <1>2, <1>b, <2>1 DEF OrderInv, FencesInv
  <2> QED BY <1>c, <2>1 DEF OrderInv, FencesInv
<1>11. HeldKept
  <2>1. \A m \in Lanes, y \in Admins : Quiet(lane[m]) \/ Holds(lane[m], y) => Quiet(lane'[m]) \/ Holds(lane'[m], y)
    BY <1>2, <1>3, <1>t
  <2>2. \A k \in Keys : queues[k] \in Lanes \cup {None}
    BY DEF IInv, TypeOK, RoutingTypes
  <2>3. \A d \in Clients : RouteOf[d] \in Keys
    BY AsyncAssumption
  <2> QED BY <1>c, <2>1, <2>2, <2>3 DEF HeldKept, KeyHeld
<1>12. NewlyHeld /\ \A c, d \in Clients : Awaits(c, d) => SectionsOrdered(c, d)
  BY SectionsStill
<1>13. ASSUME NEW c \in Clients, NEW d \in Clients, Awaits(c, d) PROVE PairKept(c, d)
  <2>1. LanesOrdered(c, d) /\ OnWayKept(c, d)
    BY <1>c, <1>2, <1>7, <1>8 DEF LanesOrdered, OnWayKept
  <2> QED BY <1>c, <1>12, <1>13, <2>1 DEF PairKept
<1>14. /\ \A e \in Clients : (pc[e] = "done" => pc'[e] = "done") /\ (pc'[e] = "idle" => pc[e] = "idle")
       /\ \A e \in Clients : pc[e] = "idle" => /\ starts'[e] = starts[e]
                                               /\ \A m \in Lanes : OnLane(lane'[m], e) => OnLane(lane[m], e)
       /\ earlier' = earlier /\ finished \subseteq finished' /\ accepted \subseteq accepted' /\ (stopped => stopped')
       /\ TicketsInv'
  BY <1>c, <1>2, <1>6, <1>8, <1>t DEF TicketsInv
<1> QED BY ONLY IInv, OrderInv, <1>9, <1>10, <1>11, <1>12, <1>13, <1>14, OrderStep

LEMMA BarrierKeepsOrder ==
  ASSUME IInv, OrderInv, NEW x \in Admins, enqueueBarrier(x), setup' = setup PROVE OrderInv'
<1>1. UNCHANGED <<setup, client, queues, control, made>> /\ sec \in [Admins -> SectionRecords]
  BY DEF enqueueBarrier, IInv, TypeOK, SectionTypes
<1>2. FencesInv /\ stopped' = stopped
  BY <1>1 DEF OrderInv, control
<1>3. CASE sec[x].lanes = {}
  <2>1. lane' = lane /\ SectionsAlike
    BY <1>3 DEF enqueueBarrier, SectionsAlike
  <2>2. FencesInv'
    BY <1>1, <1>2, <2>1 DEF FencesInv, control
  <2> QED BY <1>1, <1>2, <2>1, <2>2, IdleOrder
<1>4. CASE sec[x].lanes # {}
  <2>1. PICK l \in sec[x].lanes :
            IF Takes(lane[l])
            THEN /\ lane' = [lane EXCEPT ![l] = enqueueMandatory(@, x, FALSE)]
                 /\ sec' = [sec EXCEPT ![x].lanes = @ \ {l}, ![x].expected = @ + 1]
            ELSE /\ sec' = [sec EXCEPT ![x].lanes = @ \ {l}] /\ lane' = lane
    BY <1>4 DEF enqueueBarrier
  <2>2. l \in Lanes
    BY <1>1, <2>1 DEF SectionRecords
  <2>3. CASE Takes(lane[l])
    <3>1. sec' = [sec EXCEPT ![x].lanes = @ \ {l}, ![x].expected = @ + 1]
      BY <2>1, <2>3
    <3>2. SectionsAlike
      BY <1>1, <3>1 DEF SectionsAlike, SectionRecords
    <3>3. lane' = [lane EXCEPT ![l] = enqueueMandatory(@, x, FALSE)]
      BY <2>1, <2>3
    <3> QED BY <1>1, <2>2, <3>2, <3>3, BarredOrder
  <2>4. CASE ~Takes(lane[l])
    <3>1. sec' = [sec EXCEPT ![x].lanes = @ \ {l}] /\ lane' = lane
      BY <2>1, <2>4
    <3>2. SectionsAlike
      BY <1>1, <3>1 DEF SectionsAlike, SectionRecords
    <3>3. FencesInv'
      BY <1>1, <1>2, <3>1 DEF FencesInv, control
    <3> QED BY <1>1, <1>2, <3>1, <3>2, <3>3, IdleOrder
  <2> QED BY <2>3, <2>4
<1> QED BY <1>3, <1>4

-----------------------------------------------------------------------------
(* Every step keeps the order. *)

LEMMA ClientKeepsOrder ==
  ASSUME IInv, IInv', OrderInv, NEW c \in Clients, Begin(c) \/ Client(c) \/ GiveUp(c), setup' = setup PROVE OrderInv'
<1>1. pc[c] \in {"admit", "send", "blocked"} => at[c] \in Lanes
  BY DEF IInv, ClientInv, Submitting
<1>2. CASE admitTask(c)
  BY <1>1, <1>2, AdmitOrder DEF admitTask
<1>3. CASE Send(c)
  BY <1>1, <1>3, SendOrder DEF Send
<1>4. CASE SendFails(c)
  BY <1>1, <1>4, SendFailsOrder DEF SendFails
<1>5. CASE Begin(c)
  BY <1>5, BeginOrder
<1>6. CASE FenceFails(c) \/ Expired(c)
  BY <1>6, FenceFailsOrder
<1>7. CASE \/ Check(c) \/ Read(c) \/ PassBarrier(c) \/ Create(c) \/ Gate(c) \/ PassFence(c) \/ Block(c)
           \/ Register(c) \/ Handoff(c) \/ WithoutLane(c) \/ StoppedLane(c)
           \/ LateHandoff(c) \/ beginLifecycleCleanup(c) \/ OffLaneEnds(c)
  BY <1>7, CheckOrder, ReadOrder, PassBarrierOrder, CreateOrder, GateOrder, PassFenceOrder, BlockOrder, RegisterOrder,
     HandoffOrder, WithoutLaneOrder, StoppedLaneOrder, LateHandoffOrder, LifecycleOrder, OffLaneEndsOrder
<1> QED BY <1>2, <1>3, <1>4, <1>5, <1>6, <1>7 DEF Client, GiveUp

LEMMA AdminKeepsOrder ==
  ASSUME IInv, OrderInv, NEW x \in Admins, Enter(x) \/ Admin(x) \/ Abandon(x), setup' = setup PROVE OrderInv'
<1>1. \/ Enter(x) \/ AwaitRunning(x) \/ AllParked(x) \/ RunFn(x) \/ FnEnds(x) \/ Abandon(x) \/ Release(x)
      \/ installExclusive(x) \/ enqueueBarrier(x) \/ withdrawExclusive(x) \/ DrainNext(x) \/ DrainEnds(x)
  BY DEF Admin
<1> QED BY <1>1, SectionMoveOrder, BarrierKeepsOrder, WithdrawOrder, DrainOrder

LEMMA NextOrder == ASSUME IInv, IInv', OrderInv, [Next]_vars PROVE OrderInv'
<1>1. CASE UNCHANGED vars
  <2>1. /\ UNCHANGED <<setup, client, lane, queues, made>> /\ stopped' = stopped /\ stop' = stop
        /\ cleanupOn' = cleanupOn /\ sec' = sec
    BY <1>1 DEF vars, control, section
  <2>2. FencesInv' /\ SectionsAlike
    BY <2>1 DEF OrderInv, FencesInv, SectionsAlike
  <2> QED BY <2>1, <2>2, IdleOrder
<1>2. CASE Next
  <2>1. Steps /\ setup' = setup
    BY <1>2 DEF Next
  <2>2. CASE \E c \in Clients : Begin(c) \/ Client(c) \/ GiveUp(c)
    BY <2>1, <2>2, ClientKeepsOrder
  <2>3. CASE \E l \in Lanes : Worker(l)
    BY <2>1, <2>3, WorkerKeepsOrder
  <2>4. CASE \E k \in Keys : Retire(k)
    BY <2>1, <2>4, RetireOrder
  <2>5. CASE \E x \in Admins : Enter(x) \/ Admin(x) \/ Abandon(x)
    BY <2>1, <2>5, AdminKeepsOrder
  <2>6. CASE CloseLanes
    BY <2>1, <2>6, CloseLanesOrder
  <2>7. CASE \/ \E h \in BOOLEAN : StopCall(h)
             \/ signalStopOnce \/ waitWorkers \/ waitSections \/ finishLifecycleCleanups \/ StopTimeout
    BY <2>1, <2>7, StopCallOrder
  <2> QED BY <2>1, <2>2, <2>3, <2>4, <2>5, <2>6, <2>7 DEF Steps, Stop
<1> QED BY <1>1, <1>2

LEMMA InitOrder == Init => OrderInv
<1> SUFFICES ASSUME Init PROVE OrderInv
  OBVIOUS
<1>0. /\ None \notin Lanes /\ None \notin Clients /\ RouteOf \in [Clients -> Keys] /\ ShardOf \in [Keys -> Lanes]
      /\ IsFiniteSet(Clients)
  BY AsyncAssumption
<1>1. /\ \A l \in Lanes : /\ lane[l].ch = <<>> /\ lane[l].backlog = <<>> /\ lane[l].cur = None
                          /\ ~lane[l].retired /\ lane[l].admitted = 0 /\ lane[l].settled = 0
                          /\ lane[l].worker # "task" /\ Len(lane[l].ch) = 0 /\ Len(lane[l].backlog) = 0
  <2>1. \A l \in Lanes : lane[l] \in {Absent, newKeyQueue}
    BY DEF Init
  <2>2. \A q \in {Absent, newKeyQueue} :
           /\ q.ch = <<>> /\ q.backlog = <<>> /\ q.cur = None /\ ~q.retired /\ q.admitted = 0 /\ q.settled = 0
           /\ q.worker # "task"
    BY DEF Absent, newKeyQueue
  <2>3. Len(<<>>) = 0
    OBVIOUS
  <2> QED BY <2>1, <2>2, <2>3
<1>2. /\ \A c \in Clients : pc[c] = "idle" /\ at[c] = None /\ starts[c] = 0 /\ earlier[c] = {}
      /\ ~stopped /\ stop = "idle" /\ queues = [k \in Keys |-> IF Dynamic THEN None ELSE ShardOf[k]]
      /\ \A x \in Admins : sec[x].deferred = <<>> /\ sec[x].draining = <<>>
  BY DEF Init
<1>3. \A l \in Lanes, d \in Clients : ~OnLane(lane[l], d)
  BY <1>0, <1>1 DEF OnLane, HasTask
<1>4. \A x \in Admins : \A d : ~Postponed(sec[x], d)
  BY <1>2, EmptySeq DEF Postponed
<1>5. RoutesInv
  <2>1. ~Dynamic => queues = ShardOf
    BY <1>0, <1>2
  <2>2. \A k \in Keys : queues[k] # None => ~lane[queues[k]].retired
    BY <1>0, <1>1, <1>2
  <2>3. Dynamic => \A k, j \in Keys : queues[k] = queues[j] /\ queues[k] # None => k = j
    BY <1>2
  <2> QED BY <1>0, <1>2, <1>3, <2>1, <2>2, <2>3 DEF RoutesInv
<1>6. FencesInv
  BY <1>1, <1>2 DEF FencesInv
<1>7. TicketsInv
  <2> SUFFICES ASSUME NEW l \in Lanes PROVE TicketsAt(l)
    BY DEF TicketsInv
  <2>1. Sending(l) = {} /\ Tasks(lane[l]) = 0
    BY <1>1, <1>2 DEF Sending, Tasks
  <2>2. Cardinality(Sending(l)) = 0
    BY <2>1, FS_EmptySet
  <2> QED BY <1>1, <2>1, <2>2 DEF TicketsAt
<1>8. FreshInv /\ HeldInv
  BY <1>2, <1>3, <1>4 DEF FreshInv, OffLanes, HeldInv
<1> QED BY <1>2, <1>5, <1>6, <1>7, <1>8 DEF OrderInv

\* A call that begins after another call of its key has returned takes effect
\* after it (EffectsInOrder): a release keeps its place in the lane, through
\* the backlog and its targets, the fences, retirement and the off-lane paths.
THEOREM EffectsAreOrdered == Spec => []EffectsInOrder
<1>1. Init => IInv /\ OrderInv
  BY InitInv, InitOrder
<1>2. IInv /\ OrderInv /\ [Next]_vars => (IInv /\ OrderInv)'
  BY NextKeeps, NextOrder
<1>3. OrderInv => EffectsInOrder
  <2> SUFFICES ASSUME OrderInv, NEW c \in Clients, starts[c] > 0, NEW d \in earlier[c] PROVE d \in finished
    BY DEF EffectsInOrder
  <2>1. d \in finished \/ starts[c] = 0
    BY DEF OrderInv, PairInv, Behind
  <2> QED BY <2>1
<1> QED BY <1>1, <1>2, <1>3, PTL DEF Spec

-----------------------------------------------------------------------------
(* Each call is made once: what a step leaves of a call on a lane and with *)
(* a section.                                                              *)

KeepsPlace(p, q, d) ==
  /\ Queued(q, d) => Queued(p, d)
  /\ q.cur = d <=> p.cur = d
  /\ QueuedOnce(p, d) => QueuedOnce(q, d)

KeepsTurn(s, a, t, b, d) ==
  /\ LeftTo(t, b, d) => LeftTo(s, a, d)
  /\ Drains(t, b, d) <=> Drains(s, a, d)
  /\ Postponed(t, d) => Postponed(s, d)
  /\ PostponedOnce(s, d) => PostponedOnce(t, d)

LanesKeep(d) == \A l \in Lanes : KeepsPlace(lane[l], lane'[l], d)
TurnsKept(d) == \A x \in Admins : KeepsTurn(sec[x], apc[x], sec'[x], apc'[x], d)

LEMMA OnLaneParts ==
  ASSUME NEW q, NEW d
  PROVE  OnLane(q, d) <=> Queued(q, d) \/ q.cur = d
BY DEF OnLane, HasTask, Queued

\* A step that leaves a call where it is.
LEMMA OnceStep ==
  ASSUME NEW d \in Clients, MadeOnce(d), LanesKeep(d), TurnsKept(d),
         starts'[d] = starts[d], d \in finished' <=> d \in finished,
         pc'[d] = pc[d] \/ (pc[d] \notin {"offlane", "done"} /\ pc'[d] # "offlane")
  PROVE  MadeOnce(d)'
<1>1. \A l \in Lanes : /\ Queued(lane'[l], d) => Queued(lane[l], d)
                       /\ lane'[l].cur = d <=> lane[l].cur = d
                       /\ QueuedOnce(lane[l], d) => QueuedOnce(lane'[l], d)
                       /\ OnLane(lane'[l], d) => OnLane(lane[l], d)
  BY OnLaneParts DEF LanesKeep, KeepsPlace
<1>2. \A x \in Admins : /\ LeftTo(sec'[x], apc'[x], d) => LeftTo(sec[x], apc[x], d)
                        /\ Drains(sec'[x], apc'[x], d) <=> Drains(sec[x], apc[x], d)
                        /\ Postponed(sec'[x], d) => Postponed(sec[x], d)
                        /\ PostponedOnce(sec[x], d) => PostponedOnce(sec'[x], d)
  BY DEF TurnsKept, KeepsTurn
<1>3. /\ UnderWay(d)' <=> UnderWay(d)
      /\ Waiting(d)' => Waiting(d)
      /\ OffLanes(d) => OffLanes(d)'
  BY <1>1, <1>2 DEF UnderWay, Waiting, OffLanes
<1> QED BY <1>1, <1>2, <1>3 DEF MadeOnce

LEMMA SamePlaces ==
  ASSUME NEW p, NEW q, q.ch = p.ch, Len(q.backlog) = Len(p.backlog), q.cur = p.cur,
         \A i \in 1..Len(p.backlog) : q.backlog[i].task = p.backlog[i].task
  PROVE  \A d : KeepsPlace(p, q, d)
BY DEF KeepsPlace, Queued, QueuedOnce

LEMMA SamePlace == \A p, d : KeepsPlace(p, p, d)
BY DEF KeepsPlace

LEMMA SameTurn == \A s, a, d : KeepsTurn(s, a, s, a, d)
BY DEF KeepsTurn

LEMMA PlaceOnLane ==
  ASSUME lane \in [Lanes -> LaneRecords], NEW l \in Lanes, NEW q, lane' = [lane EXCEPT ![l] = q],
         NEW d, KeepsPlace(lane[l], q, d)
  PROVE  LanesKeep(d)
<1>1. lane'[l] = q /\ \A m \in Lanes \ {l} : lane'[m] = lane[m]
  OBVIOUS
<1> QED BY <1>1, SamePlace DEF LanesKeep

LEMMA EnqueuedOnce ==
  ASSUME NEW p \in LaneRecords, NEW t \in Clients \cup Admins, NEW f \in BOOLEAN,
         NEW q, q = enqueueMandatory(p, t, f)
  PROVE  /\ \A d : d # t => KeepsPlace(p, q, d)
         /\ ~OnLane(p, t) => QueuedOnce(q, t) /\ q.cur # t
<1>1. q.ch = p.ch /\ q.cur = p.cur /\ Len(q.backlog) = Len(p.backlog) + 1
  BY Enqueued
<1>2. /\ \A i \in 1..Len(p.backlog) : q.backlog[i] = p.backlog[i]
      /\ q.backlog[Len(p.backlog) + 1].task = t
      /\ p.backlog \in Seq(Entries) /\ Len(p.backlog) \in Nat
  <2>1. p.backlog \in Seq(Entries) /\ Len(p.backlog) \in Nat
    BY EntryParts
  <2> DEFINE e == [task |-> t, cutoff |-> p.admitted, target |-> p.admitted, fence |-> f]
  <2>2. q.backlog = Append(p.backlog, e) /\ e \in Entries
    BY Appended, EntryParts DEF Entries
  <2>3. e.task = t
    OBVIOUS
  <2> HIDE DEF e
  <2> QED BY <2>1, <2>2, <2>3
<1> DEFINE n == Len(p.backlog)
<1>3. \A i \in 1..(n + 1) : i \in 1..n \/ i = n + 1
  BY <1>2
<1>4. 1..n \subseteq 1..(n + 1) /\ n + 1 \in 1..(n + 1)
  BY <1>2
<1> HIDE DEF n
<1>5. ASSUME NEW d, d # t PROVE KeepsPlace(p, q, d)
  <2>1. /\ \A i \in 1..n : q.backlog[i].task = p.backlog[i].task
        /\ \A i \in 1..Len(q.backlog) : q.backlog[i].task = d => i \in 1..n
    BY <1>1, <1>2, <1>3, <1>5 DEF n
  <2>2. Queued(q, d) => Queued(p, d)
    BY <1>1, <2>1 DEF Queued, n
  <2>3. QueuedOnce(p, d) => QueuedOnce(q, d)
    <3> SUFFICES ASSUME QueuedOnce(p, d) PROVE QueuedOnce(q, d)
      OBVIOUS
    <3>1. \A i, j \in 1..Len(q.backlog) : q.backlog[i].task = d /\ q.backlog[j].task = d => i = j
      <4> SUFFICES ASSUME NEW i \in 1..Len(q.backlog), NEW j \in 1..Len(q.backlog),
                          q.backlog[i].task = d, q.backlog[j].task = d
                   PROVE  i = j
        OBVIOUS
      <4>1. i \in 1..n /\ j \in 1..n
        BY <2>1
      <4>2. p.backlog[i].task = d /\ p.backlog[j].task = d
        BY <2>1, <4>1
      <4> QED BY <4>1, <4>2 DEF QueuedOnce, n
    <3>2. ASSUME NEW i \in 1..Len(q.ch), NEW j \in 1..Len(q.backlog), q.ch[i] = d, q.backlog[j].task = d
          PROVE  FALSE
      <4>1. j \in 1..n
        BY <2>1, <3>2
      <4>2. p.backlog[j].task = d
        BY <2>1, <3>2, <4>1
      <4> QED BY <1>1, <3>2, <4>1, <4>2 DEF QueuedOnce, n
    <3> QED BY <1>1, <3>1, <3>2 DEF QueuedOnce
  <2> QED BY <1>1, <2>2, <2>3 DEF KeepsPlace
<1>6. ASSUME ~OnLane(p, t) PROVE QueuedOnce(q, t) /\ q.cur # t
  BY <1>1, <1>2, <1>3, <1>4, <1>6, SMTT(60) DEF OnLane, HasTask, QueuedOnce, n
<1> QED BY <1>5, <1>6

LEMMA SentOnce ==
  ASSUME NEW p \in LaneRecords, NEW q \in LaneRecords, NEW c \in Clients,
         q.ch = Append(p.ch, c), q.backlog = p.backlog, q.cur = p.cur
  PROVE  /\ \A d : d # c => KeepsPlace(p, q, d)
         /\ ~OnLane(p, c) => QueuedOnce(q, c) /\ q.cur # c
<1>2. /\ \A i \in 1..Len(p.ch) : q.ch[i] = p.ch[i]
      /\ q.ch[Len(p.ch) + 1] = c /\ Len(q.ch) = Len(p.ch) + 1
      /\ p.ch \in Seq(Clients) /\ Len(p.ch) \in Nat
  BY EntryParts
<1> DEFINE n == Len(p.ch)
<1>3. \A i \in 1..(n + 1) : i \in 1..n \/ i = n + 1
  BY <1>2
<1>4. 1..n \subseteq 1..(n + 1) /\ n + 1 \in 1..(n + 1)
  BY <1>2
<1> HIDE DEF n
<1>5. ASSUME NEW d, d # c PROVE KeepsPlace(p, q, d)
  BY <1>2, <1>3, <1>4, <1>5 DEF KeepsPlace, Queued, QueuedOnce, n
<1>6. ASSUME ~OnLane(p, c) PROVE QueuedOnce(q, c) /\ q.cur # c
  BY <1>2, <1>3, <1>4, <1>6 DEF OnLane, HasTask, QueuedOnce, n
<1> QED BY <1>5, <1>6

\* The head of the backlog, or of the channel, becomes what the lane works on.
LEMMA TakenOnce ==
  ASSUME NEW p \in LaneRecords, NEW q \in LaneRecords, p.cur = None, p.backlog # <<>>,
         q.backlog = Tail(p.backlog), q.ch = p.ch, q.cur = Head(p.backlog).task
  PROVE  /\ \A d \in Clients : d # q.cur => KeepsPlace(p, q, d)
         /\ QueuedOnce(p, q.cur) => Queued(p, q.cur) /\ ~Queued(q, q.cur) /\ QueuedOnce(q, q.cur)
<1>1. p.backlog \in Seq(Entries) /\ None \notin Clients
  BY EntryParts, AsyncAssumption
<1>2. /\ Len(p.backlog) \in Nat /\ 1 \in 1..Len(p.backlog) /\ q.cur = p.backlog[1].task
      /\ \A i \in 1..Len(q.backlog) : /\ i \in Nat /\ i >= 1 /\ q.backlog[i] = p.backlog[i + 1]
                                      /\ i + 1 \in 1..Len(p.backlog)
  BY <1>1, TailEntries
<1>3. \A i, j \in 1..Len(q.backlog) : i + 1 = j + 1 => i = j
  BY <1>2
<1>4. \A i \in 1..Len(q.backlog) : i + 1 # 1
  BY <1>2
<1>5. ASSUME NEW d \in Clients, d # q.cur PROVE KeepsPlace(p, q, d)
  BY <1>1, <1>2, <1>3, <1>5 DEF KeepsPlace, Queued, QueuedOnce
<1>6. ASSUME QueuedOnce(p, q.cur) PROVE Queued(p, q.cur) /\ ~Queued(q, q.cur) /\ QueuedOnce(q, q.cur)
  <2>1. Queued(p, q.cur)
    BY <1>2 DEF Queued
  <2>2. ~Queued(q, q.cur)
    BY <1>2, <1>4, <1>6 DEF Queued, QueuedOnce
  <2> QED BY <2>1, <2>2 DEF Queued, QueuedOnce
<1> QED BY <1>5, <1>6

LEMMA ReceivedOnce ==
  ASSUME NEW p \in LaneRecords, NEW q \in LaneRecords, p.cur = None, p.ch # <<>>,
         q.ch = Tail(p.ch), q.backlog = p.backlog, q.cur = Head(p.ch)
  PROVE  /\ \A d \in Clients : d # q.cur => KeepsPlace(p, q, d)
         /\ QueuedOnce(p, q.cur) => Queued(p, q.cur) /\ ~Queued(q, q.cur) /\ QueuedOnce(q, q.cur)
<1>1. p.ch \in Seq(Clients) /\ None \notin Clients
  BY EntryParts, AsyncAssumption
<1>2. /\ Len(p.ch) \in Nat /\ 1 \in 1..Len(p.ch) /\ q.cur = p.ch[1]
      /\ \A i \in 1..Len(q.ch) : /\ i \in Nat /\ i >= 1 /\ q.ch[i] = p.ch[i + 1]
                                 /\ i + 1 \in 1..Len(p.ch)
  BY <1>1, TailEntries
<1>3. \A i, j \in 1..Len(q.ch) : i + 1 = j + 1 => i = j
  BY <1>2
<1>4. \A i \in 1..Len(q.ch) : i + 1 # 1
  BY <1>2
<1>5. ASSUME NEW d \in Clients, d # q.cur PROVE KeepsPlace(p, q, d)
  BY <1>1, <1>2, <1>3, <1>5 DEF KeepsPlace, Queued, QueuedOnce
<1>6. ASSUME QueuedOnce(p, q.cur) PROVE Queued(p, q.cur) /\ ~Queued(q, q.cur) /\ QueuedOnce(q, q.cur)
  <2>1. Queued(p, q.cur)
    BY <1>2 DEF Queued
  <2>2. ~Queued(q, q.cur)
    BY <1>2, <1>4, <1>6 DEF Queued, QueuedOnce
  <2> QED BY <2>1, <2>2 DEF Queued, QueuedOnce
<1> QED BY <1>5, <1>6

-----------------------------------------------------------------------------
(* The call that a step is about *)

\* It joins a lane.
LEMMA Joins ==
  ASSUME NEW c \in Clients, MadeOnce(c), lane \in [Lanes -> LaneRecords], NEW l \in Lanes, NEW q,
         lane' = [lane EXCEPT ![l] = q], QueuedOnce(q, c), q.cur # c,
         pc[c] \notin {"offlane", "done"}, pc'[c] = "done",
         sec' = sec, apc' = apc, starts' = starts, finished' = finished
  PROVE  MadeOnce(c)'
<1>1. lane'[l] = q /\ \A m \in Lanes \ {l} : lane'[m] = lane[m]
  OBVIOUS
<1>2. /\ starts[c] = 0 /\ c \notin finished /\ ~UnderWay(c)
      /\ OffLanes(c) /\ \A x \in Admins : ~Postponed(sec[x], c)
  BY DEF MadeOnce
<1>3. ~UnderWay(c)'
  BY <1>1, <1>2 DEF UnderWay
<1>4. \A m \in Lanes : QueuedOnce(lane'[m], c)
  BY <1>1 DEF MadeOnce
<1> QED BY <1>2, <1>3, <1>4 DEF MadeOnce

LEMMA Sequenced ==
  ASSUME NEW s \in Seq(Clients), NEW c \in Clients, NEW t, t = Append(s, c)
  PROVE  /\ Len(s) \in Nat /\ Len(t) = Len(s) + 1
         /\ \A i \in 1..Len(t) : i \in 1..Len(s) \/ i = Len(s) + 1
         /\ \A i \in 1..Len(s) : i \in 1..Len(t) /\ t[i] = s[i]
         /\ Len(s) + 1 \in 1..Len(t) /\ t[Len(s) + 1] = c
OBVIOUS

\* It is postponed to a section.
LEMMA PostponedTurn ==
  ASSUME NEW s \in SectionRecords, NEW c \in Clients, NEW t, t = [s EXCEPT !.deferred = Append(@, c)], NEW a
  PROVE  /\ \A d : d # c => KeepsTurn(s, a, t, a, d)
         /\ ~Postponed(s, c) => PostponedOnce(t, c) /\ (Drains(t, a, c) <=> Drains(s, a, c))
<1>1. t.deferred = Append(s.deferred, c) /\ t.draining = s.draining /\ s.deferred \in Seq(Clients)
  BY DEF SectionRecords
<1>2. /\ Len(s.deferred) \in Nat /\ Len(t.deferred) = Len(s.deferred) + 1
      /\ \A i \in 1..Len(t.deferred) : i \in 1..Len(s.deferred) \/ i = Len(s.deferred) + 1
      /\ \A i \in 1..Len(s.deferred) : i \in 1..Len(t.deferred) /\ t.deferred[i] = s.deferred[i]
      /\ t.deferred[Len(s.deferred) + 1] = c
  BY <1>1, Sequenced
<1>3. ASSUME NEW d, d # c PROVE KeepsTurn(s, a, t, a, d)
  <2>1. \A i \in 1..Len(t.deferred) : t.deferred[i] = d => i \in 1..Len(s.deferred) /\ s.deferred[i] = d
    BY <1>2, <1>3
  <2>2. PostponedOnce(s, d) => PostponedOnce(t, d)
    BY <1>1, <2>1 DEF PostponedOnce
  <2> QED BY <1>1, <2>1, <2>2 DEF KeepsTurn, LeftTo, Drains, Postponed
<1>4. ASSUME ~Postponed(s, c) PROVE PostponedOnce(t, c) /\ (Drains(t, a, c) <=> Drains(s, a, c))
  BY <1>1, <1>2, <1>4 DEF PostponedOnce, Postponed, Drains
<1> QED BY <1>3, <1>4

LEMMA Postpones ==
  ASSUME NEW c \in Clients, MadeOnce(c), sec \in [Admins -> SectionRecords], NEW a \in Admins,
         sec' = [sec EXCEPT ![a].deferred = Append(@, c)],
         pc[c] \notin {"offlane", "done"}, pc'[c] = "done",
         lane' = lane, apc' = apc, starts' = starts, finished' = finished
  PROVE  MadeOnce(c)' /\ \A d \in Clients \ {c} : TurnsKept(d)
<1> DEFINE t == [sec[a] EXCEPT !.deferred = Append(@, c)]
<1>1. sec'[a] = t /\ (\A x \in Admins \ {a} : sec'[x] = sec[x]) /\ sec[a] \in SectionRecords
  OBVIOUS
<1>2. /\ \A d : d # c => KeepsTurn(sec[a], apc[a], t, apc[a], d)
      /\ ~Postponed(sec[a], c) => PostponedOnce(t, c) /\ (Drains(t, apc[a], c) <=> Drains(sec[a], apc[a], c))
  BY <1>1, PostponedTurn
<1> HIDE DEF t
<1>3. /\ starts[c] = 0 /\ c \notin finished /\ ~UnderWay(c)
      /\ OffLanes(c) /\ \A x \in Admins : ~Postponed(sec[x], c)
      /\ \A x \in Admins : PostponedOnce(sec[x], c)
  BY DEF MadeOnce
<1>4. /\ \A x \in Admins : PostponedOnce(sec'[x], c) /\ (Drains(sec'[x], apc'[x], c) <=> Drains(sec[x], apc[x], c))
  BY <1>1, <1>2, <1>3
<1>5. ~UnderWay(c)' /\ OffLanes(c)'
  BY <1>3, <1>4 DEF UnderWay, OffLanes
<1>6. MadeOnce(c)'
  BY <1>3, <1>4, <1>5 DEF MadeOnce
<1>7. \A d \in Clients \ {c} : TurnsKept(d)
  BY <1>1, <1>2, SameTurn DEF TurnsKept
<1> QED BY <1>6, <1>7

\* It runs on its caller.
LEMMA RunsAside ==
  ASSUME NEW c \in Clients, MadeOnce(c), pc[c] \notin {"offlane", "done"}, pc'[c] = "offlane",
         starts'[c] = starts[c] + 1,
         lane' = lane, sec' = sec, apc' = apc, finished' = finished
  PROVE  MadeOnce(c)'
<1>1. starts[c] = 0 /\ c \notin finished /\ OffLanes(c) /\ \A x \in Admins : ~Postponed(sec[x], c)
  BY DEF MadeOnce
<1>2. ~Waiting(c)
  BY <1>1, OnLaneParts DEF Waiting, OffLanes, LeftTo, Postponed
<1> QED BY <1>1, <1>2 DEF MadeOnce, UnderWay, Waiting, OffLanes

LEMMA EndsAside ==
  ASSUME NEW c \in Clients, MadeOnce(c), pc[c] = "offlane", pc'[c] = "done",
         starts' = starts, lane' = lane, sec' = sec, apc' = apc, finished' = finished \cup {c},
         \A x \in Admins : apc[x] = "draining" => sec[x].draining # <<>>, sec \in [Admins -> SectionRecords]
  PROVE  MadeOnce(c)'
<1>1. starts[c] = 1 /\ OffLanes(c) /\ \A x \in Admins : ~Postponed(sec[x], c)
  BY DEF MadeOnce, UnderWay
<1>2. ~Waiting(c)
  BY <1>1 DEF MadeOnce
<1>3. \A x \in Admins : ~Drains(sec[x], apc[x], c)
  <2> SUFFICES ASSUME NEW x \in Admins, Drains(sec[x], apc[x], c) PROVE FALSE
    OBVIOUS
  <2>1. sec[x].draining # <<>> /\ sec[x].draining \in Seq(Clients)
    BY DEF Drains, SectionRecords
  <2>2. 1 \in 1..Len(sec[x].draining) /\ sec[x].draining[1] = c
    BY <2>1, TailEntries DEF Drains
  <2> QED BY <1>1, <2>2 DEF Postponed
<1>4. ~UnderWay(c)'
  BY <1>1, <1>3, OnLaneParts DEF UnderWay, OffLanes
<1> QED BY <1>1, <1>2, <1>4 DEF MadeOnce, Waiting, OffLanes

\* A call with a section is in its draining list, or will be.
LEMMA DrainsPostponed ==
  ASSUME NEW s \in SectionRecords, NEW a, a = "draining" => s.draining # <<>>, NEW d, Drains(s, a, d)
  PROVE  Postponed(s, d)
<1>1. s.draining # <<>> /\ s.draining \in Seq(Clients)
  BY DEF Drains, SectionRecords
<1>2. 1 \in 1..Len(s.draining) /\ s.draining[1] = d
  BY <1>1, TailEntries DEF Drains
<1> QED BY <1>2 DEF Postponed

\* A lane takes it up.
LEMMA StartsOnLane ==
  ASSUME NEW c \in Clients, MadeOnce(c), RoutesInv, lane \in [Lanes -> LaneRecords], NEW l \in Lanes, NEW q,
         lane' = [lane EXCEPT ![l] = q], Queued(lane[l], c), ~Queued(q, c), QueuedOnce(q, c), q.cur = c,
         pc' = pc, sec' = sec, apc' = apc, starts'[c] = starts[c] + 1, finished' = finished
  PROVE  MadeOnce(c)'
<1>1. lane'[l] = q /\ \A m \in Lanes \ {l} : lane'[m] = lane[m]
  OBVIOUS
<1>2. OnLane(lane[l], c) /\ Waiting(c)
  BY OnLaneParts DEF Waiting
<1>3. \A m \in Lanes \ {l} : ~OnLane(lane[m], c) /\ ~Queued(lane[m], c)
  BY <1>2, OnLaneParts DEF RoutesInv
<1>4. /\ starts[c] = 0 /\ c \notin finished /\ pc[c] = "done" /\ \A x \in Admins : ~Postponed(sec[x], c)
  BY <1>2 DEF MadeOnce, OffLanes
<1>5. ~Waiting(c)'
  BY <1>1, <1>3, <1>4 DEF Waiting, LeftTo, Postponed
<1>6. UnderWay(c)'
  BY <1>1 DEF UnderWay
<1>7. \A m \in Lanes : QueuedOnce(lane'[m], c)
  BY <1>1 DEF MadeOnce
<1> QED BY <1>4, <1>5, <1>6, <1>7 DEF MadeOnce

LEMMA EndsOnLane ==
  ASSUME NEW c \in Clients, MadeOnce(c), RoutesInv, lane \in [Lanes -> LaneRecords], NEW l \in Lanes, NEW q,
         lane' = [lane EXCEPT ![l] = q], lane[l].cur = c, q.ch = lane[l].ch, q.backlog = lane[l].backlog, q.cur # c,
         pc' = pc, sec' = sec, apc' = apc, starts' = starts, finished' = finished \cup {c},
         \A x \in Admins : apc[x] = "draining" => sec[x].draining # <<>>, sec \in [Admins -> SectionRecords]
  PROVE  MadeOnce(c)'
<1>1. lane'[l] = q /\ \A m \in Lanes \ {l} : lane'[m] = lane[m]
  OBVIOUS
<1>2. OnLane(lane[l], c) /\ UnderWay(c)
  BY OnLaneParts DEF UnderWay
<1>3. \A m \in Lanes \ {l} : ~OnLane(lane[m], c) /\ lane[m].cur # c
  BY <1>2, OnLaneParts DEF RoutesInv
<1>4. /\ starts[c] = 1 /\ ~Waiting(c) /\ pc[c] = "done" /\ \A x \in Admins : ~Postponed(sec[x], c)
  BY <1>2 DEF MadeOnce, OffLanes
<1>5. \A x \in Admins : ~Drains(sec[x], apc[x], c)
  BY <1>4, DrainsPostponed
<1>6. ~UnderWay(c)'
  BY <1>1, <1>3, <1>4, <1>5 DEF UnderWay
<1>7. \A m \in Lanes : /\ QueuedOnce(lane'[m], c) <=> QueuedOnce(lane[m], c)
                       /\ Queued(lane'[m], c) <=> Queued(lane[m], c)
  BY <1>1, SMTT(60) DEF QueuedOnce, Queued
<1>8. ~Waiting(c)'
  BY <1>4, <1>7 DEF Waiting
<1> QED BY <1>4, <1>6, <1>7, <1>8 DEF MadeOnce

\* A section runs it.
LEMMA DrainingTurn ==
  ASSUME NEW s \in SectionRecords, s.draining # <<>>, NEW t, t = [s EXCEPT !.draining = Tail(@)]
  PROVE  LET c == Head(s.draining) IN
         /\ c \in Clients /\ Postponed(s, c) /\ LeftTo(s, "drain", c) /\ Drains(s, "draining", c)
         /\ PostponedOnce(s, c) => ~LeftTo(s, "draining", c) /\ ~Postponed(t, c) /\ PostponedOnce(t, c)
         /\ \A d : d # c => KeepsTurn(s, "drain", s, "draining", d) /\ KeepsTurn(s, "draining", t, "drain", d)
<1> DEFINE c == Head(s.draining)
<1>1. s.draining \in Seq(Clients) /\ t.draining = Tail(s.draining) /\ t.deferred = s.deferred
  BY DEF SectionRecords
<1>2. /\ 1 \in 1..Len(s.draining) /\ s.draining[1] = c /\ c \in Clients
      /\ \A i \in 1..Len(t.draining) : /\ i \in Nat /\ i >= 1 /\ t.draining[i] = s.draining[i + 1]
                                       /\ i + 1 \in 1..Len(s.draining) /\ i + 1 > 1
      /\ \A i, j \in 1..Len(t.draining) : i + 1 = j + 1 => i = j
  <2>1. /\ 1 \in 1..Len(s.draining) /\ s.draining[1] = c
        /\ \A i \in 1..Len(t.draining) : /\ i \in Nat /\ i >= 1 /\ t.draining[i] = s.draining[i + 1]
                                         /\ i + 1 \in 1..Len(s.draining)
    BY <1>1, TailEntries
  <2>2. c \in Clients
    BY <1>1, <2>1
  <2> QED BY <2>1, <2>2
<1>3. Postponed(s, c) /\ LeftTo(s, "drain", c) /\ Drains(s, "draining", c)
  BY <1>2 DEF Postponed, LeftTo, Drains
<1> HIDE DEF c
<1>4. ASSUME PostponedOnce(s, c) PROVE ~LeftTo(s, "draining", c) /\ ~Postponed(t, c) /\ PostponedOnce(t, c)
  <2>1. \A i \in 1..Len(s.draining) : s.draining[i] = c => i = 1
    BY <1>2, <1>4 DEF PostponedOnce
  <2>2. \A i \in 1..Len(s.deferred) : s.deferred[i] # c
    BY <1>2, <1>4 DEF PostponedOnce
  <2>3. \A i \in 1..Len(t.draining) : t.draining[i] # c
    <3> SUFFICES ASSUME NEW i \in 1..Len(t.draining), t.draining[i] = c PROVE FALSE
      OBVIOUS
    <3>1. i + 1 = 1
      BY <1>2, <2>1
    <3> QED BY <1>2, <3>1
  <2>4. ~LeftTo(s, "draining", c)
    BY <2>1, <2>2 DEF LeftTo
  <2> QED BY <1>1, <2>2, <2>3, <2>4 DEF Postponed, PostponedOnce
<1>5. ASSUME NEW d, d # c PROVE KeepsTurn(s, "drain", s, "draining", d) /\ KeepsTurn(s, "draining", t, "drain", d)
  <2>1. KeepsTurn(s, "drain", s, "draining", d)
    BY <1>5 DEF KeepsTurn, LeftTo, Drains, c
  <2>2. LeftTo(t, "drain", d) => LeftTo(s, "draining", d)
    <3>1. \A i \in 1..Len(t.draining) : t.draining[i] = d => s.draining[i + 1] = d /\ i + 1 \in 1..Len(s.draining) /\ i + 1 > 1
      BY <1>2
    <3> QED BY <1>1, <3>1 DEF LeftTo
  <2>3. Postponed(t, d) => Postponed(s, d)
    BY <1>1, <1>2 DEF Postponed
  <2>4. PostponedOnce(s, d) => PostponedOnce(t, d)
    BY <1>1, <1>2 DEF PostponedOnce
  <2>5. ~Drains(t, "drain", d) /\ ~Drains(s, "draining", d)
    BY <1>5 DEF Drains, c
  <2> QED BY <2>1, <2>2, <2>3, <2>4, <2>5 DEF KeepsTurn
<1> QED BY <1>2, <1>3, <1>4, <1>5 DEF c

-----------------------------------------------------------------------------
(* Steps that leave every call where it is *)

Moves(d) == pc'[d] = pc[d] \/ (pc[d] \notin {"offlane", "done"} /\ pc'[d] # "offlane")

LEMMA TurnsSame ==
  ASSUME \A x \in Admins : /\ sec'[x].deferred = sec[x].deferred /\ sec'[x].draining = sec[x].draining
                           /\ apc'[x] = "draining" <=> apc[x] = "draining"
  PROVE  \A d : TurnsKept(d)
<1> SUFFICES ASSUME NEW d, NEW x \in Admins PROVE KeepsTurn(sec[x], apc[x], sec'[x], apc'[x], d)
  BY DEF TurnsKept
<1>1. /\ sec'[x].deferred = sec[x].deferred /\ sec'[x].draining = sec[x].draining
      /\ apc'[x] = "draining" <=> apc[x] = "draining"
  OBVIOUS
<1> QED BY <1>1 DEF KeepsTurn, LeftTo, Drains, Postponed, PostponedOnce

LEMMA StillOnce ==
  ASSUME OnceInv, UNCHANGED <<made, barriers>>, stopped => stopped',
         \A k \in Keys : queues'[k] \in {queues[k], None},
         \A d \in Clients : LanesKeep(d) /\ TurnsKept(d) /\ Moves(d)
  PROVE  OnceInv'
<1>1. ASSUME NEW d \in Clients PROVE MadeOnce(d)'
  <2>1. MadeOnce(d) /\ starts' = starts /\ finished' = finished
    BY DEF OnceInv, made
  <2> QED BY <2>1, OnceStep DEF Moves
<1>2. BarriersInv'
  <2> SUFFICES ASSUME ~stopped'
               PROVE  /\ \A c \in Clients : pc'[c] = "offlane" => barriers'[RouteOf[c]] = c
                      /\ \A k \in Keys : barriers'[k] # None => queues'[k] = None
                      /\ \A x \in Admins, c \in Clients : Postponed(sec'[x], c) => barriers'[RouteOf[c]] = None
    BY DEF BarriersInv
  <2>1. /\ \A c \in Clients : pc[c] = "offlane" => barriers[RouteOf[c]] = c
        /\ \A k \in Keys : barriers[k] # None => queues[k] = None
        /\ \A x \in Admins, c \in Clients : Postponed(sec[x], c) => barriers[RouteOf[c]] = None
    BY DEF OnceInv, BarriersInv
  <2>2. \A x \in Admins, c \in Clients : Postponed(sec'[x], c) => Postponed(sec[x], c)
    BY DEF TurnsKept, KeepsTurn
  <2>3. \A c \in Clients : pc'[c] = "offlane" => pc[c] = "offlane"
    BY DEF Moves
  <2> QED BY <2>1, <2>2, <2>3
<1> QED BY <1>1, <1>2 DEF OnceInv

LEMMA LanesSame ==
  ASSUME lane' = lane
  PROVE  \A d : LanesKeep(d)
BY SamePlace DEF LanesKeep

LEMMA ClientMoveOnce ==
  ASSUME OnceInv, NEW c \in Clients, pc[c] \notin {"offlane", "done"}, pc'[c] # "offlane",
         \A d \in Clients \ {c} : pc'[d] = pc[d], \A d \in Clients : LanesKeep(d),
         UNCHANGED <<queues, barriers, control, section, made>>
  PROVE  OnceInv'
<1>1. \A d \in Clients : Moves(d)
  BY DEF Moves
<1>2. \A d : TurnsKept(d)
  BY TurnsSame DEF section
<1>3. stopped' = stopped /\ \A k \in Keys : queues'[k] \in {queues[k], None}
  BY DEF control
<1> QED BY <1>1, <1>2, <1>3, StillOnce

LEMMA FailMoves ==
  ASSUME ClientTypes, NEW c \in Clients, Fail(c)
  PROVE  pc'[c] # "offlane" /\ \A d \in Clients \ {c} : pc'[d] = pc[d]
BY DEF Fail, Goto, ClientTypes

LEMMA RefusedMoves ==
  ASSUME ClientTypes, NEW c \in Clients, Refused(c)
  PROVE  pc'[c] # "offlane" /\ \A d \in Clients \ {c} : pc'[d] = pc[d]
BY FailMoves DEF Refused, Goto, ClientTypes

LEMMA FoundMoves ==
  ASSUME ClientTypes, NEW c \in Clients, NEW l, Found(c, l)
  PROVE  pc'[c] # "offlane" /\ \A d \in Clients \ {c} : pc'[d] = pc[d]
BY DEF Found, Goto, ClientTypes

\* The steps of a client that only move it on.
LEMMA RoutingOnce ==
  ASSUME IInv, OnceInv, NEW c \in Clients,
         Begin(c) \/ Check(c) \/ Read(c) \/ PassBarrier(c) \/ PassFence(c) \/ Block(c) \/ Register(c) \/ StoppedLane(c)
  PROVE  OnceInv'
<1>1. ClientTypes
  BY DEF IInv, TypeOK
<1>2. UNCHANGED <<lane, queues, barriers, control, section, made>>
  BY DEF Begin, Check, Read, PassBarrier, PassFence, Block, Register, StoppedLane
<1>3. pc[c] \notin {"offlane", "done"}
  BY DEF Begin, Check, Read, PassBarrier, PassFence, Block, Register, StoppedLane
<1>4. pc'[c] # "offlane" /\ \A d \in Clients \ {c} : pc'[d] = pc[d]
  <2>1. CASE Begin(c)
    BY <1>1, <2>1, FailMoves DEF Begin, Goto, ClientTypes
  <2>2. CASE Check(c)
    BY <1>1, <2>2, RefusedMoves DEF Check, Goto, ClientTypes
  <2>3. CASE Read(c)
    BY <1>1, <2>3, RefusedMoves, FoundMoves DEF Read, Goto, ClientTypes
  <2>4. CASE PassBarrier(c) \/ PassFence(c) \/ Block(c) \/ Register(c) \/ StoppedLane(c)
    BY <1>1, <2>4 DEF PassBarrier, PassFence, Block, Register, StoppedLane, Goto, ClientTypes
  <2> QED BY <2>1, <2>2, <2>3, <2>4
<1> QED BY <1>2, <1>3, <1>4, LanesSame, ClientMoveOnce

\* The steps of a client at the gate of its lane.
LEMMA GateOnce ==
  ASSUME IInv, OnceInv, NEW c \in Clients,
         Gate(c) \/ FenceFails(c) \/ Expired(c) \/ admitTask(c) \/ SendFails(c)
  PROVE  OnceInv'
<1>1. ClientTypes /\ lane \in [Lanes -> LaneRecords] /\ ClientInv(c)
  BY DEF IInv, TypeOK
<1>2. UNCHANGED <<queues, barriers, control, section, made>>
  BY DEF Gate, FenceFails, Expired, admitTask, SendFails
<1>3. pc[c] \in Submitting
  BY DEF Gate, FenceFails, Expired, admitTask, SendFails, Submitting
<1>4. pc'[c] # "offlane" /\ \A d \in Clients \ {c} : pc'[d] = pc[d]
  <2>1. CASE FenceFails(c) \/ Expired(c) \/ SendFails(c)
    BY <1>1, <2>1, FailMoves DEF FenceFails, Expired, SendFails
  <2>2. CASE Gate(c) \/ admitTask(c)
    BY <1>1, <2>2 DEF Gate, admitTask, Goto, ClientTypes
  <2> QED BY <2>1, <2>2
<1> DEFINE l == at[c]
           p == lane[l]
<1>5. l \in Lanes /\ p \in LaneRecords /\ ticket[c] \in Nat
  BY <1>1, <1>3 DEF ClientInv, ClientTypes
<1>6. \A d \in Clients : LanesKeep(d)
  <2>1. ASSUME NEW q, q.ch = p.ch, Len(q.backlog) = Len(p.backlog), q.cur = p.cur,
               \A i \in 1..Len(p.backlog) : q.backlog[i].task = p.backlog[i].task,
               lane' = [lane EXCEPT ![l] = q]
        PROVE  \A d \in Clients : LanesKeep(d)
    <3>1. \A d : KeepsPlace(p, q, d)
      BY <2>1, SamePlaces
    <3> QED BY <1>1, <1>5, <2>1, <3>1, PlaceOnLane
  <2>2. CASE Gate(c)
    <3>1. CASE lane' = lane
      BY <3>1, LanesSame
    <3>2. CASE lane' # lane
      <4> DEFINE q == [p EXCEPT !.readers = @ \cup {c}]
      <4>1. lane' = [lane EXCEPT ![l] = q]
        BY <1>1, <1>5, <2>2, <3>2 DEF Gate
      <4>2. q.ch = p.ch /\ q.backlog = p.backlog /\ q.cur = p.cur
        BY <1>5 DEF LaneRecords
      <4> HIDE DEF q
      <4> QED BY <2>1, <4>1, <4>2
    <3> QED BY <3>1, <3>2
  <2>3. CASE FenceFails(c) \/ Expired(c)
    <3> DEFINE q == Leave(p, c)
    <3>1. lane' = [lane EXCEPT ![l] = q]
      BY <1>1, <1>5, <2>3 DEF FenceFails, Expired
    <3>2. q.ch = p.ch /\ q.backlog = p.backlog /\ q.cur = p.cur
      BY <1>5 DEF LaneRecords, Leave
    <3> HIDE DEF q
    <3> QED BY <2>1, <3>1, <3>2
  <2>4. CASE admitTask(c)
    <3> DEFINE q == [p EXCEPT !.admitted = @ + 1, !.pending = @ + 1]
    <3>1. lane' = [lane EXCEPT ![l] = q]
      BY <1>1, <1>5, <2>4 DEF admitTask
    <3>2. q.ch = p.ch /\ q.backlog = p.backlog /\ q.cur = p.cur
      BY <1>5 DEF LaneRecords
    <3> HIDE DEF q
    <3> QED BY <2>1, <3>1, <3>2
  <2>5. CASE SendFails(c)
    <3> DEFINE u == unmarkSent(p, ticket[c])
               q == Leave(u, c)
    <3>1. lane' = [lane EXCEPT ![l] = q]
      BY <1>1, <1>5, <2>5 DEF SendFails
    <3>2. u \in LaneRecords /\ u.ch = p.ch /\ u.cur = p.cur /\ Len(u.backlog) = Len(p.backlog)
      BY <1>5, Unmarked
    <3>3. \A i \in 1..Len(p.backlog) : u.backlog[i].task = p.backlog[i].task
      BY <1>5, EntryParts DEF unmarkSent, LaneRecords, Entries
    <3> HIDE DEF u
    <3>4. q.ch = u.ch /\ q.backlog = u.backlog /\ q.cur = u.cur
      BY <3>2 DEF LaneRecords, Leave
    <3> HIDE DEF q
    <3> QED BY <2>1, <3>1, <3>2, <3>3, <3>4
  <2> QED BY <2>2, <2>3, <2>4, <2>5
<1>7. pc[c] \notin {"offlane", "done"}
  BY <1>3 DEF Submitting
<1> QED BY <1>2, <1>4, <1>6, <1>7, ClientMoveOnce

\* The call of c arrives on a lane.
LEMMA JoinsOnce ==
  ASSUME IInv, OnceInv, NEW c \in Clients, pc[c] \notin {"offlane", "done"}, pc'[c] = "done",
         \A d \in Clients \ {c} : pc'[d] = pc[d],
         NEW l \in Lanes, NEW q, lane' = [lane EXCEPT ![l] = q],
         \A d : d # c => KeepsPlace(lane[l], q, d), ~OnLane(lane[l], c) => QueuedOnce(q, c) /\ q.cur # c,
         UNCHANGED <<queues, barriers, control, section, made>>
  PROVE  OnceInv'
<1>1. lane \in [Lanes -> LaneRecords] /\ MadeOnce(c) /\ ~OnLane(lane[l], c)
  BY DEF IInv, TypeOK, OnceInv, MadeOnce, OffLanes
<1>2. sec' = sec /\ apc' = apc /\ starts' = starts /\ finished' = finished /\ stopped' = stopped
  BY DEF section, made, control
<1>3. MadeOnce(c)'
  BY <1>1, <1>2, Joins
<1>4. ASSUME NEW d \in Clients \ {c} PROVE MadeOnce(d)'
  <2>1. LanesKeep(d)
    BY <1>1, PlaceOnLane
  <2>2. TurnsKept(d)
    BY <1>2, TurnsSame
  <2> QED BY <1>2, <2>1, <2>2, OnceStep DEF OnceInv
<1>5. BarriersInv'
  BY <1>2 DEF OnceInv, BarriersInv
<1> QED BY <1>3, <1>4, <1>5 DEF OnceInv

LEMMA SendOnce == ASSUME IInv, OnceInv, NEW c \in Clients, Send(c) PROVE OnceInv'
<1>1. ClientTypes /\ lane \in [Lanes -> LaneRecords] /\ ClientInv(c)
  BY DEF IInv, TypeOK
<1> DEFINE l == at[c]
           p == lane[l]
           q == Leave([p EXCEPT !.ch = Append(@, c)], c)
<1>2. l \in Lanes /\ p \in LaneRecords /\ pc[c] \notin {"offlane", "done"}
  BY <1>1 DEF ClientInv, Submitting, Send
<1>3. lane' = [lane EXCEPT ![l] = q]
  BY <1>1, <1>2 DEF Send
<1>4. q.ch = Append(p.ch, c) /\ q.backlog = p.backlog /\ q.cur = p.cur /\ q \in LaneRecords
  <2>1. Append(p.ch, c) \in Seq(Clients)
    BY <1>2, EntryParts
  <2> QED BY <1>2, <2>1 DEF LaneRecords, Leave
<1>5. /\ \A d : d # c => KeepsPlace(p, q, d)
      /\ ~OnLane(p, c) => QueuedOnce(q, c) /\ q.cur # c
  BY <1>2, <1>4, SentOnce
<1>6. UNCHANGED <<queues, barriers, control, section, made>>
  BY DEF Send
<1>7. pc'[c] = "done" /\ \A d \in Clients \ {c} : pc'[d] = pc[d]
  BY <1>1 DEF Send, Goto, ClientTypes
<1> HIDE DEF q
<1> QED BY <1>2, <1>3, <1>5, <1>6, <1>7, JoinsOnce

LEMMA HandoffOnce == ASSUME IInv, OnceInv, NEW c \in Clients, Handoff(c) \/ LateHandoff(c) PROVE OnceInv'
<1>1. ClientTypes /\ lane \in [Lanes -> LaneRecords] /\ ClientInv(c)
  BY DEF IInv, TypeOK
<1> DEFINE l == at[c]
           p == lane[l]
<1>2. l \in Lanes /\ p \in LaneRecords /\ pc[c] \notin {"offlane", "done"}
  BY <1>1 DEF ClientInv, Handoff, LateHandoff
<1>3. UNCHANGED <<queues, barriers, control, section, made>>
  BY DEF Handoff, LateHandoff
<1>4. CASE Takes(p)
  <2>1. PICK f \in BOOLEAN : lane' = [lane EXCEPT ![l] = enqueueMandatory(p, c, f)]
    BY <1>1, <1>2, <1>4 DEF Handoff, LateHandoff
  <2> DEFINE q == enqueueMandatory(p, c, f)
  <2>2. /\ \A d : d # c => KeepsPlace(p, q, d)
        /\ ~OnLane(p, c) => QueuedOnce(q, c) /\ q.cur # c
    BY <1>2, EnqueuedOnce
  <2>3. pc'[c] = "done" /\ \A d \in Clients \ {c} : pc'[d] = pc[d]
    BY <1>1, <1>4 DEF Handoff, LateHandoff, Return, Goto, ClientTypes
  <2> HIDE DEF q
  <2> QED BY <1>2, <1>3, <2>1, <2>2, <2>3, JoinsOnce DEF q
<1>5. CASE ~Takes(p)
  <2>1. lane' = lane /\ pc'[c] # "offlane" /\ \A d \in Clients \ {c} : pc'[d] = pc[d]
    BY <1>1, <1>5 DEF Handoff, LateHandoff, Goto, ClientTypes
  <2> QED BY <1>2, <1>3, <2>1, LanesSame, ClientMoveOnce
<1> QED BY <1>4, <1>5

\* A lane is created for the key of c.
LEMMA CreatedOnce ==
  ASSUME IInv, OnceInv, NEW c \in Clients, pc[c] = "create", NEW k \in Keys, barriers[k] = None,
         NEW l \in Lanes, Free(l), lane' = [lane EXCEPT ![l] = NewLane], queues' = [queues EXCEPT ![k] = l],
         sec' = IF active = None THEN sec ELSE [sec EXCEPT ![active].expected = @ + 1],
         Found(c, l), UNCHANGED <<barriers, control, active, apc, made>>
  PROVE  OnceInv'
<1>1. /\ ClientTypes /\ lane \in [Lanes -> LaneRecords] /\ LaneShape(lane[l]) /\ queues \in [Keys -> Lanes \cup {None}]
      /\ active \in Admins \cup {None} /\ sec \in [Admins -> SectionRecords] /\ lane[l] \in LaneRecords
  BY DEF IInv, TypeOK, LanesInv, RoutingTypes, SectionTypes
<1>2. pc'[c] # "offlane" /\ \A d \in Clients \ {c} : pc'[d] = pc[d]
  BY <1>1, FoundMoves
<1>3. ASSUME NEW d \in Clients PROVE LanesKeep(d)
  <2>1. ~OnLane(lane[l], d)
    BY <1>1, FreeHoldsNothing DEF Free
  <2>2. NewLane.ch = <<>> /\ NewLane.cur = None
    <3>1. newKeyQueue.ch = <<>> /\ newKeyQueue.cur = None
      BY DEF newKeyQueue, Absent
    <3>2. \A t, f : enqueueMandatory(newKeyQueue, t, f).ch = <<>> /\ enqueueMandatory(newKeyQueue, t, f).cur = None
      BY DEF enqueueMandatory, newKeyQueue, Absent
    <3> QED BY <3>1, <3>2 DEF NewLane
  <2>3. \A i \in 1..Len(NewLane.backlog) : NewLane.backlog[i].task \in Admins
    BY <1>1, NewLaneEntries
  <2>4. d # None /\ d \notin Admins
    BY AsyncAssumption
  <2>5. \A i \in 1..Len(NewLane.ch) : FALSE
    BY <2>2
  <2>6. ~Queued(NewLane, d) /\ NewLane.cur # d
    BY <2>2, <2>3, <2>4, <2>5 DEF Queued
  <2>7. KeepsPlace(lane[l], NewLane, d)
    BY <2>1, <2>6, OnLaneParts DEF KeepsPlace, Queued, QueuedOnce
  <2> QED BY <1>1, <2>7, PlaceOnLane
<1>4. \A x \in Admins : sec'[x].deferred = sec[x].deferred /\ sec'[x].draining = sec[x].draining
  BY <1>1 DEF SectionRecords
<1>5. \A d : TurnsKept(d)
  BY <1>4, TurnsSame
<1>6. ASSUME NEW d \in Clients PROVE MadeOnce(d)'
  <2>1. MadeOnce(d) /\ starts' = starts /\ finished' = finished
    BY DEF OnceInv, made
  <2> QED BY <1>2, <1>3, <1>5, <2>1, OnceStep
<1>7. BarriersInv'
  <2> SUFFICES ASSUME ~stopped'
               PROVE  /\ \A d \in Clients : pc'[d] = "offlane" => barriers'[RouteOf[d]] = d
                      /\ \A j \in Keys : barriers'[j] # None => queues'[j] = None
                      /\ \A x \in Admins, d \in Clients : Postponed(sec'[x], d) => barriers'[RouteOf[d]] = None
    BY DEF BarriersInv
  <2>1. /\ \A d \in Clients : pc[d] = "offlane" => barriers[RouteOf[d]] = d
        /\ \A j \in Keys : barriers[j] # None => queues[j] = None
        /\ \A x \in Admins, d \in Clients : Postponed(sec[x], d) => barriers[RouteOf[d]] = None
    BY DEF OnceInv, BarriersInv, control
  <2>2. \A x \in Admins, d \in Clients : Postponed(sec'[x], d) => Postponed(sec[x], d)
    BY <1>4 DEF Postponed
  <2>3. \A j \in Keys : barriers'[j] # None => queues'[j] = None
    BY <1>1, <2>1
  <2> QED BY <1>2, <2>1, <2>2, <2>3
<1> QED BY <1>6, <1>7 DEF OnceInv

LEMMA CreateOnce == ASSUME IInv, OnceInv, NEW c \in Clients, Create(c) PROVE OnceInv'
<1> DEFINE k == RouteOf[c]
<1>1. /\ pc[c] = "create" /\ k \in Keys /\ k = RouteOf[c] /\ ClientTypes
      /\ UNCHANGED <<barriers, control, active, apc, made>>
  BY AsyncAssumption DEF Create, IInv, TypeOK
<1> HIDE DEF k
<1>2. CASE stopping \/ Live(queues[k]) \/ barriers[k] # None \/ (MaxQueues > 0 /\ LiveQueues >= MaxQueues)
  <2>1. UNCHANGED <<lane, queues, sec>>
    BY <1>1, <1>2 DEF Create
  <2>2. pc'[c] # "offlane" /\ \A d \in Clients \ {c} : pc'[d] = pc[d]
    <3>1. \/ Refused(c) \/ Found(c, queues[k]) \/ Fail(c)
          \/ pc' = [pc EXCEPT ![c] = "barrier"] \/ pc' = [pc EXCEPT ![c] = "limit"]
      BY <1>1, <1>2 DEF Create, Goto
    <3> QED BY <1>1, <3>1, RefusedMoves, FoundMoves, FailMoves DEF ClientTypes
  <2> QED BY <1>1, <2>1, <2>2, LanesSame, ClientMoveOnce DEF section
<1>3. CASE ~stopping /\ ~Live(queues[k]) /\ barriers[k] = None /\ ~(MaxQueues > 0 /\ LiveQueues >= MaxQueues)
  <2>1. PICK l \in Laid : /\ Free(l)
                          /\ lane' = [lane EXCEPT ![l] = NewLane]
                          /\ queues' = [queues EXCEPT ![k] = l]
                          /\ sec' = IF active = None THEN sec
                                    ELSE [sec EXCEPT ![active].expected = @ + 1]
                          /\ Found(c, l)
    BY <1>1, <1>3 DEF Create
  <2>2. l \in Lanes
    BY AsyncAssumption DEF IInv, TypeOK, Laid
  <2> QED BY <1>1, <1>3, <2>1, <2>2, CreatedOnce
<1> QED BY <1>2, <1>3

\* What becomes of the calls when one of them leaves its client.
LEMMA AsideOnce ==
  ASSUME OnceInv, NEW c \in Clients, MadeOnce(c)', BarriersInv', lane' = lane,
         \A d \in Clients \ {c} : /\ pc'[d] = pc[d] /\ starts'[d] = starts[d] /\ TurnsKept(d)
                                  /\ d \in finished' <=> d \in finished
  PROVE  OnceInv'
<1>1. ASSUME NEW d \in Clients \ {c} PROVE MadeOnce(d)'
  BY LanesSame, OnceStep DEF OnceInv
<1> QED BY <1>1 DEF OnceInv

LEMMA WithoutLaneOnce == ASSUME IInv, OrderInv, OnceInv, NEW c \in Clients, WithoutLane(c) PROVE OnceInv'
<1> DEFINE k == RouteOf[c]
<1>1. /\ pc[c] = "nolane" /\ k \in Keys /\ k = RouteOf[c] /\ ClientTypes /\ RouteOf \in [Clients -> Keys]
      /\ UNCHANGED <<lane, queues, control, cleanup, active, apc, finished>>
      /\ None \notin Admins /\ active \in Admins \cup {None} /\ starts \in [Clients -> Nat]
      /\ sec \in [Admins -> SectionRecords] /\ barriers \in [Keys -> Clients \cup {None}] /\ None \notin Clients
      /\ MadeOnce(c) /\ stopped' = stopped
  BY AsyncAssumption DEF WithoutLane, IInv, TypeOK, SectionTypes, RoutingTypes, OnceInv, control
<1> HIDE DEF k
<1>2. CASE HasPlace(k)
  <2>1. pc' = [pc EXCEPT ![c] = "check"] /\ UNCHANGED <<barriers, sec, starts>>
    BY <1>1, <1>2 DEF WithoutLane, Goto
  <2>2. pc'[c] # "offlane" /\ \A d \in Clients \ {c} : pc'[d] = pc[d]
    BY <1>1, <2>1 DEF ClientTypes
  <2> QED BY <1>1, <2>1, <2>2, LanesSame, ClientMoveOnce DEF section, made
<1>3. ~HasPlace(k) => queues[k] = None /\ barriers[k] = None
  BY <1>1, NoLaneKept DEF HasPlace
<1>b. ~stopped => /\ \A d \in Clients : pc[d] = "offlane" => barriers[RouteOf[d]] = d
                  /\ \A j \in Keys : barriers[j] # None => queues[j] = None
                  /\ \A x \in Admins, d \in Clients : Postponed(sec[x], d) => barriers[RouteOf[d]] = None
  BY DEF OnceInv, BarriersInv
<1>4. CASE ~HasPlace(k) /\ active # None
  <2>1. /\ sec' = [sec EXCEPT ![active].deferred = Append(@, c)] /\ pc' = [pc EXCEPT ![c] = "done"]
        /\ starts' = starts /\ barriers' = barriers
    BY <1>1, <1>4 DEF WithoutLane, Return, Goto
  <2>2. pc'[c] = "done" /\ \A d \in Clients \ {c} : pc'[d] = pc[d]
    BY <1>1, <2>1 DEF ClientTypes
  <2>3. MadeOnce(c)' /\ \A d \in Clients \ {c} : TurnsKept(d)
    BY <1>1, <1>4, <2>1, <2>2, Postpones
  <2>4. \A x \in Admins : \A d \in Clients \ {c} : Postponed(sec'[x], d) => Postponed(sec[x], d)
    BY <2>3 DEF TurnsKept, KeepsTurn
  <2>5. BarriersInv'
    BY <1>1, <1>3, <1>4, <1>b, <2>1, <2>2, <2>4 DEF BarriersInv
  <2> QED BY <1>1, <2>1, <2>2, <2>3, <2>5, AsideOnce
<1>5. CASE ~HasPlace(k) /\ active = None
  <2>1. /\ barriers' = [barriers EXCEPT ![k] = c] /\ starts' = [starts EXCEPT ![c] = @ + 1]
        /\ pc' = [pc EXCEPT ![c] = "offlane"] /\ sec' = sec
    BY <1>1, <1>5 DEF WithoutLane, Goto
  <2>2. /\ pc'[c] = "offlane" /\ starts'[c] = starts[c] + 1
        /\ \A d \in Clients \ {c} : pc'[d] = pc[d] /\ starts'[d] = starts[d]
    BY <1>1, <2>1 DEF ClientTypes
  <2>3. MadeOnce(c)'
    BY <1>1, <2>1, <2>2, RunsAside
  <2>4. \A d : TurnsKept(d)
    BY <1>1, <2>1, TurnsSame
  <2>5. BarriersInv'
    <3> SUFFICES ASSUME ~stopped
                 PROVE  /\ \A d \in Clients : pc'[d] = "offlane" => barriers'[RouteOf[d]] = d
                        /\ \A j \in Keys : barriers'[j] # None => queues'[j] = None
                        /\ \A x \in Admins, d \in Clients : Postponed(sec'[x], d) => barriers'[RouteOf[d]] = None
      BY <1>1 DEF BarriersInv
    <3>1. \A x \in Admins, d \in Clients : ~Postponed(sec[x], d)
      BY <1>1, <1>5, PostponedTo
    <3>2. \A d \in Clients : pc'[d] = "offlane" => barriers'[RouteOf[d]] = d
      BY <1>1, <1>3, <1>5, <1>b, <2>1, <2>2
    <3>3. \A j \in Keys : barriers'[j] # None => queues'[j] = None
      BY <1>1, <1>3, <1>5, <1>b, <2>1
    <3> QED BY <2>1, <3>1, <3>2, <3>3
  <2> QED BY <1>1, <2>2, <2>3, <2>4, <2>5, AsideOnce
<1> QED BY <1>2, <1>4, <1>5

LEMMA LifecycleOnce ==
  ASSUME IInv, OrderInv, OnceInv, NEW c \in Clients, beginLifecycleCleanup(c) PROVE OnceInv'
<1>1. /\ pc[c] = "lifecycle" /\ ClientTypes /\ stopped' = stopped /\ stopped
      /\ UNCHANGED <<lane, apc, finished>>
      /\ None \notin Admins /\ active \in Admins \cup {None} /\ starts \in [Clients -> Nat]
      /\ sec \in [Admins -> SectionRecords] /\ MadeOnce(c)
  BY AsyncAssumption DEF beginLifecycleCleanup, IInv, TypeOK, SectionTypes, OnceInv, OrderInv, RoutesInv, control
<1>2. BarriersInv'
  BY <1>1 DEF BarriersInv
<1>3. CASE ~lifeSealed /\ active # None
  <2>1. sec' = [sec EXCEPT ![active].deferred = Append(@, c)] /\ pc' = [pc EXCEPT ![c] = "done"] /\ starts' = starts
    BY <1>1, <1>3 DEF beginLifecycleCleanup, Return, Goto
  <2>2. pc'[c] = "done" /\ \A d \in Clients \ {c} : pc'[d] = pc[d]
    BY <1>1, <2>1 DEF ClientTypes
  <2>3. MadeOnce(c)' /\ \A d \in Clients \ {c} : TurnsKept(d)
    BY <1>1, <1>3, <2>1, <2>2, Postpones
  <2> QED BY <1>1, <1>2, <2>1, <2>2, <2>3, AsideOnce
<1>4. CASE ~(~lifeSealed /\ active # None)
  <2>1. starts' = [starts EXCEPT ![c] = @ + 1] /\ pc' = [pc EXCEPT ![c] = "offlane"] /\ sec' = sec
    BY <1>1, <1>4 DEF beginLifecycleCleanup, Goto
  <2>2. /\ pc'[c] = "offlane" /\ starts'[c] = starts[c] + 1
        /\ \A d \in Clients \ {c} : pc'[d] = pc[d] /\ starts'[d] = starts[d]
    BY <1>1, <2>1 DEF ClientTypes
  <2>3. MadeOnce(c)'
    BY <1>1, <2>1, <2>2, RunsAside
  <2>4. \A d : TurnsKept(d)
    BY <1>1, <2>1, TurnsSame
  <2> QED BY <1>1, <1>2, <2>2, <2>3, <2>4, AsideOnce
<1> QED BY <1>3, <1>4

LEMMA OffLaneEndsOnce == ASSUME IInv, OnceInv, NEW c \in Clients, OffLaneEnds(c) PROVE OnceInv'
<1>1. /\ pc[c] = "offlane" /\ ClientTypes /\ RouteOf \in [Clients -> Keys] /\ None \notin Clients
      /\ UNCHANGED <<lane, queues, apc, sec, starts>> /\ finished' = finished \cup {c} /\ stopped' = stopped
      /\ sec \in [Admins -> SectionRecords] /\ barriers \in [Keys -> Clients \cup {None}] /\ MadeOnce(c)
      /\ barriers' = [barriers EXCEPT ![RouteOf[c]] = IF @ = c THEN None ELSE @]
      /\ pc' = [pc EXCEPT ![c] = "done"]
  BY AsyncAssumption
     DEF OffLaneEnds, Return, Goto, IInv, TypeOK, SectionTypes, RoutingTypes, OnceInv, control, section
<1>2. pc'[c] = "done" /\ \A d \in Clients \ {c} : pc'[d] = pc[d]
  BY <1>1 DEF ClientTypes
<1>3. \A x \in Admins : apc[x] = "draining" => sec[x].draining # <<>>
  BY DEF IInv, SectionInv
<1>4. MadeOnce(c)'
  BY <1>1, <1>2, <1>3, EndsAside
<1>5. \A d : TurnsKept(d)
  BY <1>1, TurnsSame
<1>6. BarriersInv'
  BY <1>1, <1>2 DEF OnceInv, BarriersInv
<1> QED BY <1>1, <1>2, <1>4, <1>5, <1>6, AsideOnce

-----------------------------------------------------------------------------
(* The workers *)

LEMMA LaneMoveOnce ==
  ASSUME IInv, OnceInv, NEW l \in Lanes, NEW q, lane' = [lane EXCEPT ![l] = q],
         q.ch = lane[l].ch, Len(q.backlog) = Len(lane[l].backlog),
         \A i \in 1..Len(lane[l].backlog) : q.backlog[i].task = lane[l].backlog[i].task,
         q.cur = lane[l].cur \/ (q.cur \notin Clients /\ lane[l].cur \notin Clients),
         UNCHANGED <<client, queues, barriers, control, made, apc>>,
         \A x \in Admins : sec'[x].deferred = sec[x].deferred /\ sec'[x].draining = sec[x].draining
  PROVE  OnceInv'
<1>1. lane \in [Lanes -> LaneRecords]
  BY DEF IInv, TypeOK
<1>2. \A d \in Clients : KeepsPlace(lane[l], q, d)
  BY DEF KeepsPlace, Queued, QueuedOnce
<1>3. \A d \in Clients : LanesKeep(d)
  BY <1>1, <1>2, PlaceOnLane
<1>4. \A d : TurnsKept(d)
  BY TurnsSame
<1>5. \A d \in Clients : Moves(d)
  BY DEF Moves, client
<1>6. stopped' = stopped /\ \A k \in Keys : queues'[k] \in {queues[k], None}
  BY DEF control
<1> QED BY <1>3, <1>4, <1>5, <1>6, StillOnce

LEMMA WaitOnce == ASSUME IInv, OnceInv, NEW l \in Lanes, Wait(l) PROVE OnceInv'
<1> DEFINE p == lane[l]
           u == PassedFence(p)
<1>1. lane \in [Lanes -> LaneRecords] /\ p \in LaneRecords /\ LaneShape(p) /\ None \notin Clients
  BY AsyncAssumption DEF IInv, TypeOK, LanesInv
<1>2. /\ UNCHANGED <<client, queues, barriers, control, made, apc>> /\ sec' = sec
  BY DEF Wait, section
<1>3. p.worker = "loop" /\ p.cur = None
  BY <1>1 DEF Wait, LaneShape
<1>4. CASE p.sealed /\ p.backlog = <<>>
  <2>1. PICK q : lane' = [lane EXCEPT ![l] = q] /\ q \in {Absent, [p EXCEPT !.worker = "exited"]}
    BY <1>1, <1>4 DEF Wait
  <2>2. p.ch = <<>>
    BY <1>1, <1>4 DEF LaneShape
  <2>3. /\ q.ch = <<>> /\ q.backlog = <<>> /\ q.cur = None
    <3>1. Absent.ch = <<>> /\ Absent.backlog = <<>> /\ Absent.cur = None
      BY DEF Absent
    <3>2. [p EXCEPT !.worker = "exited"].ch = p.ch /\ [p EXCEPT !.worker = "exited"].backlog = p.backlog
          /\ [p EXCEPT !.worker = "exited"].cur = p.cur
      BY <1>1 DEF LaneRecords
    <3> QED BY <1>3, <1>4, <2>1, <2>2, <3>1, <3>2
  <2> QED BY <1>2, <1>3, <1>4, <2>1, <2>2, <2>3, LaneMoveOnce
<1>5. CASE ~(p.sealed /\ p.backlog = <<>>)
  <2> DEFINE q == [u EXCEPT !.worker = "select"]
  <2>1. lane' = [lane EXCEPT ![l] = q]
    BY <1>1, <1>5 DEF Wait
  <2>2. /\ u \in LaneRecords /\ u.ch = p.ch /\ u.cur = p.cur /\ Len(u.backlog) = Len(p.backlog)
        /\ \A i \in 1..Len(p.backlog) : u.backlog[i].task = p.backlog[i].task
    BY <1>1, Fenced
  <2> HIDE DEF u
  <2>3. q.ch = u.ch /\ q.backlog = u.backlog /\ q.cur = u.cur
    BY <2>2 DEF LaneRecords
  <2> HIDE DEF q
  <2> QED BY <1>2, <2>1, <2>2, <2>3, LaneMoveOnce
<1> QED BY <1>4, <1>5

LEMMA SeeOnce ==
  ASSUME IInv, OnceInv, NEW l \in Lanes, SeeClosed(l) \/ SeeWake(l) \/ Park(l) \/ Unpark(l) PROVE OnceInv'
<1> DEFINE p == lane[l]
<1>1. /\ lane \in [Lanes -> LaneRecords] /\ p \in LaneRecords /\ LaneShape(p) /\ None \notin Clients
      /\ Clients \cap Admins = {} /\ sec \in [Admins -> SectionRecords]
  BY AsyncAssumption DEF IInv, TypeOK, LanesInv, SectionTypes
<1>2. UNCHANGED <<client, queues, barriers, control, made, apc>>
  BY DEF SeeClosed, SeeWake, Park, Unpark, section
<1>3. \A x \in Admins : sec'[x].deferred = sec[x].deferred /\ sec'[x].draining = sec[x].draining
  <2>1. CASE sec' = sec
    BY <2>1
  <2>2. CASE sec' = [sec EXCEPT ![p.cur].parked = @ + 1]
    BY <1>1, <2>2 DEF SectionRecords
  <2> QED BY <2>1, <2>2 DEF SeeClosed, SeeWake, Park, Unpark, section
<1>4. CASE SeeClosed(l)
  <2> DEFINE q == [p EXCEPT !.sealed = TRUE, !.worker = "loop"]
  <2>1. lane' = [lane EXCEPT ![l] = q]
    BY <1>1, <1>4 DEF SeeClosed
  <2>2. q.ch = p.ch /\ q.backlog = p.backlog /\ q.cur = p.cur
    BY <1>1 DEF LaneRecords
  <2> HIDE DEF q
  <2> QED BY <1>2, <1>3, <2>1, <2>2, LaneMoveOnce
<1>5. CASE SeeWake(l)
  <2>1. PICK w \in {p.wake, FALSE} : lane' = [lane EXCEPT ![l] = [p EXCEPT !.worker = "loop", !.wake = w]]
    <3>1. CASE lane' = [lane EXCEPT ![l].worker = "loop", ![l].wake = FALSE]
      BY <1>1, <3>1
    <3>2. CASE lane' = [lane EXCEPT ![l].worker = "loop"]
      <4>1. [p EXCEPT !.worker = "loop", !.wake = p.wake] = [p EXCEPT !.worker = "loop"]
        BY <1>1 DEF LaneRecords
      <4> QED BY <1>1, <3>2, <4>1
    <3> QED BY <1>5, <3>1, <3>2 DEF SeeWake, Awake
  <2> DEFINE q == [p EXCEPT !.worker = "loop", !.wake = w]
  <2>2. q.ch = p.ch /\ q.backlog = p.backlog /\ q.cur = p.cur
    BY <1>1 DEF LaneRecords
  <2> HIDE DEF q
  <2> QED BY <1>2, <1>3, <2>1, <2>2, LaneMoveOnce DEF q
<1>6. CASE Park(l)
  <2> DEFINE q == [p EXCEPT !.worker = "parked"]
  <2>1. lane' = [lane EXCEPT ![l] = q]
    BY <1>1, <1>6 DEF Park
  <2>2. q.ch = p.ch /\ q.backlog = p.backlog /\ q.cur = p.cur
    BY <1>1 DEF LaneRecords
  <2> HIDE DEF q
  <2> QED BY <1>2, <1>3, <2>1, <2>2, LaneMoveOnce
<1>7. CASE Unpark(l)
  <2> DEFINE q == [p EXCEPT !.worker = "loop", !.cur = None, !.pending = @ - 1]
  <2>1. lane' = [lane EXCEPT ![l] = q]
    BY <1>1, <1>7 DEF Unpark
  <2>2. q.ch = p.ch /\ q.backlog = p.backlog /\ q.cur = None
    BY <1>1 DEF LaneRecords
  <2>3. p.cur \notin Clients
    BY <1>1, <1>7 DEF Unpark, LaneShape
  <2> HIDE DEF q
  <2> QED BY <1>1, <1>2, <1>3, <2>1, <2>2, <2>3, LaneMoveOnce
<1> QED BY <1>4, <1>5, <1>6, <1>7

\* The channel of a retired lane is empty: nothing is aborted.
LEMMA RetiredAborts ==
  ASSUME IInv, NEW l \in Lanes, SeeRetired(l)
  PROVE  /\ starts' = starts /\ finished' = finished
         /\ \E q : /\ lane' = [lane EXCEPT ![l] = q] /\ q.ch = lane[l].ch /\ q.backlog = lane[l].backlog
                   /\ q.cur = lane[l].cur
<1> DEFINE p == lane[l]
           q == [p EXCEPT !.sealed = TRUE, !.worker = "loop", !.ch = <<>>,
                          !.pending = @ - Len(p.ch), !.settled = @ + Len(p.ch)]
<1>1. /\ lane \in [Lanes -> LaneRecords] /\ p \in LaneRecords /\ LaneShape(p)
      /\ starts \in [Clients -> Nat]
  BY DEF IInv, TypeOK, LanesInv
<1>2. p.ch = <<>>
  BY <1>1 DEF SeeRetired, LaneShape
<1>3. ToSet(p.ch) = {}
  BY <1>2 DEF ToSet
<1>4. finished' = finished /\ starts' = [c \in Clients |-> starts[c]]
  BY <1>3 DEF SeeRetired
<1>5. lane' = [lane EXCEPT ![l] = q]
  BY <1>1 DEF SeeRetired
<1>6. q.ch = p.ch /\ q.backlog = p.backlog /\ q.cur = p.cur
  BY <1>1, <1>2 DEF LaneRecords
<1> HIDE DEF q
<1> QED BY <1>1, <1>4, <1>5, <1>6

LEMMA SeeRetiredOnce == ASSUME IInv, OnceInv, NEW l \in Lanes, SeeRetired(l) PROVE OnceInv'
<1>1. PICK q : /\ lane' = [lane EXCEPT ![l] = q] /\ q.ch = lane[l].ch /\ q.backlog = lane[l].backlog
               /\ q.cur = lane[l].cur
  BY RetiredAborts
<1>2. starts' = starts /\ finished' = finished
  BY RetiredAborts
<1>3. UNCHANGED <<client, queues, barriers, control, apc, sec>>
  BY DEF SeeRetired, section
<1> QED BY <1>1, <1>2, <1>3, LaneMoveOnce DEF made

\* A lane takes up the call of c.
LEMMA TakesUpOnce ==
  ASSUME IInv, OrderInv, OnceInv, NEW c \in Clients, NEW l \in Lanes, NEW q, lane' = [lane EXCEPT ![l] = q],
         q.cur = c, \A d \in Clients : d # c => KeepsPlace(lane[l], q, d),
         QueuedOnce(lane[l], c) => Queued(lane[l], c) /\ ~Queued(q, c) /\ QueuedOnce(q, c),
         starts' = [starts EXCEPT ![c] = @ + 1], UNCHANGED <<client, queues, barriers, control, section, finished>>
  PROVE  OnceInv'
<1>1. /\ lane \in [Lanes -> LaneRecords] /\ starts \in [Clients -> Nat] /\ RoutesInv /\ MadeOnce(c)
      /\ pc' = pc /\ sec' = sec /\ apc' = apc /\ stopped' = stopped
  BY DEF IInv, TypeOK, OrderInv, OnceInv, client, section, control
<1>2. QueuedOnce(lane[l], c)
  BY <1>1 DEF MadeOnce
<1>3. starts'[c] = starts[c] + 1 /\ \A d \in Clients \ {c} : starts'[d] = starts[d]
  BY <1>1
<1>4. MadeOnce(c)'
  BY <1>1, <1>2, <1>3, StartsOnLane
<1>5. ASSUME NEW d \in Clients \ {c} PROVE MadeOnce(d)'
  <2>1. LanesKeep(d)
    BY <1>1, PlaceOnLane
  <2>2. TurnsKept(d)
    BY <1>1, TurnsSame
  <2> QED BY <1>1, <1>3, <2>1, <2>2, OnceStep DEF OnceInv
<1>6. BarriersInv'
  BY <1>1 DEF OnceInv, BarriersInv
<1> QED BY <1>4, <1>5, <1>6 DEF OnceInv

LEMMA ReceiveOnce == ASSUME IInv, OrderInv, OnceInv, NEW l \in Lanes, Receive(l) PROVE OnceInv'
<1> DEFINE p == lane[l]
           c == Head(p.ch)
           q == [p EXCEPT !.ch = Tail(@), !.cur = c, !.worker = "task"]
<1>1. /\ lane \in [Lanes -> LaneRecords] /\ p \in LaneRecords /\ LaneShape(p)
      /\ p.ch \in Seq(Clients) /\ p.ch # <<>> /\ p.worker = "select"
  BY EntryParts DEF IInv, TypeOK, LanesInv, Receive
<1>2. p.cur = None /\ c \in Clients /\ Tail(p.ch) \in Seq(Clients)
  BY <1>1 DEF LaneShape
<1>3. lane' = [lane EXCEPT ![l] = q]
  BY <1>1 DEF Receive
<1>4. q \in LaneRecords /\ q.ch = Tail(p.ch) /\ q.cur = c /\ q.backlog = p.backlog
  BY <1>1, <1>2 DEF LaneRecords, WorkerSteps
<1>5. starts' = [starts EXCEPT ![c] = @ + 1] /\ UNCHANGED <<client, queues, barriers, control, section, finished>>
  BY DEF Receive
<1> HIDE DEF q
<1>6. /\ \A d \in Clients : d # q.cur => KeepsPlace(p, q, d)
      /\ QueuedOnce(p, q.cur) => Queued(p, q.cur) /\ ~Queued(q, q.cur) /\ QueuedOnce(q, q.cur)
  BY <1>1, <1>2, <1>4, ReceivedOnce
<1> QED BY <1>2, <1>3, <1>4, <1>5, <1>6, TakesUpOnce

LEMMA TakeOnce == ASSUME IInv, OrderInv, OnceInv, NEW l \in Lanes, Take(l) PROVE OnceInv'
<1> DEFINE p == lane[l]
           t == Head(p.backlog).task
           w == IF ~Barrier(t) THEN "release" ELSE IF hard THEN "parked" ELSE "barrier"
           q == [p EXCEPT !.backlog = Tail(@), !.cur = t, !.worker = w]
<1>1. /\ lane \in [Lanes -> LaneRecords] /\ p \in LaneRecords /\ LaneShape(p) /\ p.worker = "loop"
      /\ p.backlog \in Seq(Entries) /\ sec \in [Admins -> SectionRecords] /\ Clients \cap Admins = {}
      /\ Len(PassedFence(p).backlog) = Len(p.backlog) /\ Ready(PassedFence(p))
      /\ PassedFence(p) \in LaneRecords
  BY EntryParts, Fenced, AsyncAssumption DEF IInv, TypeOK, LanesInv, Take, SectionTypes
<1>2. p.backlog # <<>>
  BY <1>1 DEF Ready, LaneRecords
<1>3. p.cur = None /\ t \in Clients \cup Admins /\ Tail(p.backlog) \in Seq(Entries)
  <2>1. Head(p.backlog) \in Entries /\ Tail(p.backlog) \in Seq(Entries)
    BY <1>1, <1>2
  <2> QED BY <1>1, <2>1 DEF LaneShape, Entries
<1>4. lane' = [lane EXCEPT ![l] = q]
  BY <1>1 DEF Take
<1>5. q \in LaneRecords /\ q.ch = p.ch /\ q.cur = t /\ q.backlog = Tail(p.backlog)
  BY <1>1, <1>3 DEF LaneRecords, WorkerSteps
<1> HIDE DEF q
<1>6. /\ \A d \in Clients : d # q.cur => KeepsPlace(p, q, d)
      /\ QueuedOnce(p, q.cur) => Queued(p, q.cur) /\ ~Queued(q, q.cur) /\ QueuedOnce(q, q.cur)
  BY <1>1, <1>2, <1>3, <1>5, TakenOnce
<1>7. CASE ~Barrier(t)
  <2>1. t \in Clients
    BY <1>3, <1>7 DEF Barrier
  <2>2. starts' = [starts EXCEPT ![t] = @ + 1] /\ UNCHANGED <<client, queues, barriers, control, section, finished>>
    BY <1>7 DEF Take, section
  <2> QED BY <1>4, <1>5, <1>6, <2>1, <2>2, TakesUpOnce
<1>8. CASE Barrier(t)
  <2>1. \A d \in Clients : d # t
    BY <1>1, <1>8 DEF Barrier
  <2>2. UNCHANGED <<client, queues, barriers, control, apc, made>>
    BY <1>8 DEF Take, made
  <2>3. \A x \in Admins : sec'[x].deferred = sec[x].deferred /\ sec'[x].draining = sec[x].draining
    BY <1>1, <1>8 DEF Take, SectionRecords
  <2>4. \A d \in Clients : LanesKeep(d)
    BY <1>1, <1>4, <1>5, <1>6, <2>1, PlaceOnLane
  <2>5. \A d : TurnsKept(d)
    BY <2>2, <2>3, TurnsSame
  <2>6. /\ \A d \in Clients : Moves(d)
        /\ stopped' = stopped /\ \A k \in Keys : queues'[k] \in {queues[k], None}
    BY <2>2 DEF Moves, client, control
  <2> QED BY <2>2, <2>4, <2>5, <2>6, StillOnce
<1> QED BY <1>7, <1>8

LEMMA FinishOnce == ASSUME IInv, OrderInv, OnceInv, NEW l \in Lanes, Finish(l) PROVE OnceInv'
<1> DEFINE p == lane[l]
           z == IF p.worker = "task" THEN p.settled + 1 ELSE p.settled
           q == [p EXCEPT !.worker = "loop", !.cur = None, !.pending = @ - 1, !.settled = z]
<1>1. /\ lane \in [Lanes -> LaneRecords] /\ p \in LaneRecords /\ LaneShape(p) /\ None \notin Clients
      /\ sec \in [Admins -> SectionRecords] /\ RoutesInv
      /\ \A x \in Admins : apc[x] = "draining" => sec[x].draining # <<>>
  BY AsyncAssumption DEF IInv, TypeOK, LanesInv, SectionTypes, OrderInv, SectionInv
<1>2. PICK c \in Clients : c = p.cur /\ MadeOnce(c)
  BY <1>1 DEF LaneShape, Finish, OnceInv
<1>3. lane' = [lane EXCEPT ![l] = q]
  BY <1>1 DEF Finish
<1>4. q.ch = p.ch /\ q.backlog = p.backlog /\ q.cur = None
  BY <1>1 DEF LaneRecords
<1> HIDE DEF q
<1>5. pc' = pc /\ sec' = sec /\ apc' = apc /\ starts' = starts /\ finished' = finished \cup {c} /\ stopped' = stopped
  BY <1>2 DEF Finish, client, section, control
<1>6. MadeOnce(c)'
  <2>1. q.cur # c /\ lane[l].cur = c
    BY <1>1, <1>2, <1>4
  <2> QED BY <1>1, <1>2, <1>3, <1>4, <1>5, <2>1, EndsOnLane
<1>7. ASSUME NEW d \in Clients \ {c} PROVE MadeOnce(d)'
  <2>1. KeepsPlace(p, q, d)
    BY <1>1, <1>2, <1>4 DEF KeepsPlace, Queued, QueuedOnce
  <2>2. LanesKeep(d)
    BY <1>1, <1>3, <2>1, PlaceOnLane
  <2>3. TurnsKept(d)
    BY <1>5, TurnsSame
  <2> QED BY <1>5, <2>2, <2>3, OnceStep DEF OnceInv
<1>8. BarriersInv'
  BY <1>5 DEF Finish, OnceInv, BarriersInv
<1> QED BY <1>2, <1>6, <1>7, <1>8 DEF OnceInv

LEMMA WorkerOnce == ASSUME IInv, OrderInv, OnceInv, NEW l \in Lanes, Worker(l) PROVE OnceInv'
BY TakeOnce, WaitOnce, ReceiveOnce, SeeOnce, SeeRetiredOnce, FinishOnce DEF Worker

LEMMA RetireOnce == ASSUME IInv, OnceInv, NEW k \in Keys, Retire(k) PROVE OnceInv'
<1> DEFINE l == queues[k]
           p == lane[l]
           q == [p EXCEPT !.retired = TRUE, !.closed = TRUE]
<1>1. lane \in [Lanes -> LaneRecords] /\ l \in Lanes /\ p \in LaneRecords /\ queues \in [Keys -> Lanes \cup {None}]
  BY DEF IInv, TypeOK, RoutingTypes, Retire
<1>2. lane' = [lane EXCEPT ![l] = q]
  BY <1>1 DEF Retire
<1>3. q.ch = p.ch /\ q.backlog = p.backlog /\ q.cur = p.cur
  BY <1>1 DEF LaneRecords
<1> HIDE DEF q
<1>4. \A d : KeepsPlace(p, q, d)
  BY <1>3, SamePlaces
<1>5. \A d \in Clients : LanesKeep(d)
  BY <1>1, <1>2, <1>4, PlaceOnLane
<1>6. UNCHANGED <<client, barriers, control, section, made>> /\ queues' = [queues EXCEPT ![k] = None]
  BY DEF Retire
<1>7. /\ stopped' = stopped /\ (\A j \in Keys : queues'[j] \in {queues[j], None})
      /\ \A d \in Clients : Moves(d)
  BY <1>1, <1>6 DEF control, client, Moves
<1>8. \A d : TurnsKept(d)
  BY <1>6, TurnsSame DEF section
<1> QED BY <1>5, <1>6, <1>7, <1>8, StillOnce

-----------------------------------------------------------------------------
(* Sections and stops *)

LEMMA StopOnce ==
  ASSUME IInv, OnceInv, UNCHANGED <<client, queues, barriers, section, made>>, stopped => stopped',
         \A l \in Lanes : /\ lane'[l].ch = lane[l].ch /\ lane'[l].backlog = lane[l].backlog
                          /\ lane'[l].cur = lane[l].cur
  PROVE  OnceInv'
<1>1. \A d : LanesKeep(d)
  BY SamePlaces DEF LanesKeep
<1>2. \A d : TurnsKept(d)
  BY TurnsSame DEF section
<1>3. \A d \in Clients : Moves(d)
  BY DEF Moves, client
<1> QED BY <1>1, <1>2, <1>3, StillOnce

LEMMA StopsOnce ==
  ASSUME IInv, OnceInv,
         (\E h \in BOOLEAN : StopCall(h)) \/ Stop \/ StopTimeout
  PROVE  OnceInv'
<1>1. CASE CloseLanes
  <2>1. lane \in [Lanes -> LaneRecords]
    BY DEF IInv, TypeOK
  <2>2. UNCHANGED <<client, queues, barriers, section, made>> /\ stopped' = stopped
    BY <1>1 DEF CloseLanes
  <2>3. ASSUME NEW l \in Lanes
        PROVE  /\ lane'[l].ch = lane[l].ch /\ lane'[l].backlog = lane[l].backlog
               /\ lane'[l].cur = lane[l].cur
    <3>1. lane'[l] \in {lane[l], [lane[l] EXCEPT !.closed = TRUE]}
      BY <1>1 DEF CloseLanes
    <3> QED BY <2>1, <3>1 DEF LaneRecords
  <2> QED BY <2>2, <2>3, StopOnce
<1>2. CASE ~CloseLanes
  <2>1. UNCHANGED <<client, queues, barriers, section, made, lane>> /\ (stopped => stopped')
    BY <1>2 DEF StopCall, Stop, StopTimeout, signalStopOnce, waitWorkers, waitSections, finishLifecycleCleanups
  <2> QED BY <2>1, StopOnce
<1> QED BY <1>1, <1>2

LEMMA SectionOnce ==
  ASSUME IInv, OnceInv, \A d \in Clients : LanesKeep(d) /\ TurnsKept(d),
         UNCHANGED <<client, queues, barriers, control, made>>
  PROVE  OnceInv'
<1>1. \A d \in Clients : Moves(d)
  BY DEF Moves, client
<1>2. stopped' = stopped /\ \A k \in Keys : queues'[k] \in {queues[k], None}
  BY DEF control
<1> QED BY <1>1, <1>2, StillOnce

LEMMA SectionMovesOnce ==
  ASSUME IInv, OnceInv, NEW x \in Admins,
         \/ Enter(x) \/ AwaitRunning(x) \/ AllParked(x) \/ RunFn(x) \/ FnEnds(x) \/ Abandon(x) \/ Release(x)
         \/ installExclusive(x)
  PROVE  OnceInv'
<1>1. apc \in [Admins -> Published \cup {"idle", "install", "release", "done"}] /\ sec \in [Admins -> SectionRecords]
  BY DEF IInv, TypeOK, SectionTypes
<1>2. UNCHANGED <<client, lane, queues, barriers, control, made>>
  BY DEF Enter, AwaitRunning, AllParked, RunFn, FnEnds, Abandon, Release, installExclusive
<1>3. \A y \in Admins : apc'[y] = "draining" <=> apc[y] = "draining"
  BY <1>1 DEF Enter, AwaitRunning, AllParked, RunFn, FnEnds, Abandon, Release, installExclusive, AGoto
<1>4. \A y \in Admins : sec'[y].deferred = sec[y].deferred /\ sec'[y].draining = sec[y].draining
  <2>1. CASE installExclusive(x)
    BY <1>1, <2>1 DEF installExclusive, SectionRecords
  <2>2. CASE ~installExclusive(x)
    BY <2>2 DEF Enter, AwaitRunning, AllParked, RunFn, FnEnds, Abandon, Release
  <2> QED BY <2>1, <2>2
<1>5. \A d : TurnsKept(d)
  BY <1>3, <1>4, TurnsSame
<1> QED BY <1>2, <1>5, LanesSame, SectionOnce

LEMMA BarrierOnce == ASSUME IInv, OnceInv, NEW x \in Admins, enqueueBarrier(x) PROVE OnceInv'
<1>1. /\ lane \in [Lanes -> LaneRecords] /\ sec \in [Admins -> SectionRecords] /\ Clients \cap Admins = {}
      /\ apc \in [Admins -> Published \cup {"idle", "install", "release", "done"}] /\ sec[x].lanes \subseteq Lanes
  BY AsyncAssumption DEF IInv, TypeOK, SectionTypes, SectionRecords
<1>2. UNCHANGED <<client, queues, barriers, control, made>>
  BY DEF enqueueBarrier
<1>3. \A y \in Admins : /\ sec'[y].deferred = sec[y].deferred /\ sec'[y].draining = sec[y].draining
                        /\ apc'[y] = "draining" <=> apc[y] = "draining"
  <2>1. CASE sec[x].lanes = {}
    BY <1>1, <2>1 DEF enqueueBarrier, AGoto
  <2>2. CASE sec[x].lanes # {}
    <3>1. PICK l \in sec[x].lanes :
             /\ apc' = apc
             /\ \/ sec' = [sec EXCEPT ![x].lanes = @ \ {l}, ![x].expected = @ + 1]
                \/ sec' = [sec EXCEPT ![x].lanes = @ \ {l}]
      BY <2>2 DEF enqueueBarrier
    <3>2. CASE sec' = [sec EXCEPT ![x].lanes = @ \ {l}, ![x].expected = @ + 1]
      BY <1>1, <3>1, <3>2 DEF SectionRecords
    <3>3. CASE sec' = [sec EXCEPT ![x].lanes = @ \ {l}]
      BY <1>1, <3>1, <3>3 DEF SectionRecords
    <3> QED BY <3>1, <3>2, <3>3
  <2> QED BY <2>1, <2>2
<1>4. \A d : TurnsKept(d)
  BY <1>3, TurnsSame
<1>5. \A d \in Clients : LanesKeep(d)
  <2>1. CASE lane' = lane
    BY <2>1, LanesSame
  <2>2. CASE lane' # lane
    <3>1. PICK l \in Lanes : lane' = [lane EXCEPT ![l] = enqueueMandatory(lane[l], x, FALSE)]
      BY <1>1, <2>2 DEF enqueueBarrier
    <3> DEFINE q == enqueueMandatory(lane[l], x, FALSE)
    <3>2. \A d : d # x => KeepsPlace(lane[l], q, d)
      <4>1. lane[l] \in LaneRecords /\ x \in Clients \cup Admins /\ FALSE \in BOOLEAN
        BY <1>1
      <4> QED BY <4>1, EnqueuedOnce
    <3>3. \A d \in Clients : d # x
      BY <1>1
    <3> HIDE DEF q
    <3> QED BY <1>1, <3>1, <3>2, <3>3, PlaceOnLane DEF q
  <2> QED BY <2>1, <2>2
<1> QED BY <1>2, <1>4, <1>5, SectionOnce

LEMMA WithdrawOnce == ASSUME IInv, OnceInv, NEW x \in Admins, withdrawExclusive(x) PROVE OnceInv'
<1>1. /\ sec \in [Admins -> SectionRecords] /\ apc[x] = "withdraw" /\ sec[x].draining = <<>>
      /\ apc \in [Admins -> Published \cup {"idle", "install", "release", "done"}]
  BY DEF IInv, TypeOK, SectionTypes, SectionInv, withdrawExclusive
<1>2. UNCHANGED <<client, lane, queues, barriers, control, made>>
  BY DEF withdrawExclusive
<1>3. apc'[x] \in {"release", "drain"} /\ \A y \in Admins \ {x} : apc'[y] = apc[y] /\ sec'[y] = sec[y]
  BY <1>1 DEF withdrawExclusive, AGoto
<1>4. ASSUME NEW d PROVE KeepsTurn(sec[x], apc[x], sec'[x], apc'[x], d)
  <2>1. CASE sec' = sec
    BY <1>1, <1>3, <2>1 DEF KeepsTurn, LeftTo, Drains, Postponed, PostponedOnce
  <2>2. CASE sec' # sec
    <3> DEFINE s == sec[x]
               t == sec'[x]
    <3>1. t.draining = s.deferred /\ t.deferred = <<>>
      BY <1>1, <2>2 DEF withdrawExclusive, SectionRecords
    <3>2. s.draining = <<>> /\ apc[x] # "draining" /\ apc'[x] # "draining"
      BY <1>1, <1>3
    <3>3. (\A i \in 1..Len(s.draining) : FALSE) /\ (\A i \in 1..Len(t.deferred) : FALSE)
      BY <3>1, <3>2
    <3> HIDE DEF s, t
    <3>4. KeepsTurn(s, apc[x], t, apc'[x], d)
      BY <3>1, <3>2, <3>3 DEF KeepsTurn, LeftTo, Drains, Postponed, PostponedOnce
    <3> QED BY <3>4 DEF s, t
  <2> QED BY <2>1, <2>2
<1>5. \A d : TurnsKept(d)
  BY <1>3, <1>4, SameTurn DEF TurnsKept
<1> QED BY <1>2, <1>5, LanesSame, SectionOnce

LEMMA DrainOnce == ASSUME IInv, OnceInv, NEW x \in Admins, DrainNext(x) \/ DrainEnds(x) PROVE OnceInv'
<1>1. /\ sec \in [Admins -> SectionRecords] /\ sec[x] \in SectionRecords /\ starts \in [Clients -> Nat]
      /\ apc \in [Admins -> Published \cup {"idle", "install", "release", "done"}]
      /\ \A y \in Admins : /\ SectionInv(y) /\ sec[y] \in SectionRecords
                           /\ apc[y] = "draining" => sec[y].draining # <<>>
  BY DEF IInv, TypeOK, SectionTypes, SectionInv
<1>2. /\ pc' = pc /\ lane' = lane /\ queues' = queues /\ barriers' = barriers /\ stopped' = stopped
  BY DEF DrainNext, DrainEnds, client, control
<1>3. CASE DrainNext(x) /\ sec[x].draining = <<>>
  <2>1. /\ apc' = [apc EXCEPT ![x] = "withdraw"] /\ apc[x] = "drain"
        /\ UNCHANGED <<client, lane, queues, barriers, control, made, sec>>
    BY <1>3 DEF DrainNext, AGoto, made
  <2>2. \A d : TurnsKept(d)
    BY <1>1, <2>1, TurnsSame
  <2> QED BY <2>1, <2>2, LanesSame, SectionOnce
<1>4. CASE sec[x].draining # <<>>
  <2>0. PICK s, t, c : s = sec[x] /\ t = [s EXCEPT !.draining = Tail(@)] /\ c = Head(s.draining)
    OBVIOUS
  <2>1. /\ c \in Clients /\ Postponed(s, c) /\ LeftTo(s, "drain", c) /\ Drains(s, "draining", c)
        /\ PostponedOnce(s, c) => ~LeftTo(s, "draining", c) /\ ~Postponed(t, c) /\ PostponedOnce(t, c)
        /\ \A d : d # c => KeepsTurn(s, "drain", s, "draining", d) /\ KeepsTurn(s, "draining", t, "drain", d)
    BY <1>1, <1>4, <2>0, DrainingTurn
  <2>2. MadeOnce(c) /\ PostponedOnce(s, c) /\ OffLanes(c) /\ pc[c] = "done"
    BY <2>0, <2>1 DEF OnceInv, MadeOnce
  <2>3. \A y \in Admins \ {x} : ~Postponed(sec[y], c) /\ ~LeftTo(sec[y], apc[y], c) /\ ~Drains(sec[y], apc[y], c)
    <3>1. ASSUME NEW y \in Admins \ {x} PROVE ~Postponed(sec[y], c)
      BY <2>0, <2>1, PostponedTo
    <3>2. \A y \in Admins : LeftTo(sec[y], apc[y], c) => Postponed(sec[y], c)
      BY DEF LeftTo, Postponed
    <3> QED BY <1>1, <3>1, <3>2, DrainsPostponed
  <2>4. OffLanes(c)' /\ (\A l \in Lanes : ~Queued(lane[l], c) /\ lane[l].cur # c)
    BY <1>2, <2>2, OnLaneParts DEF OffLanes
  <2>5. CASE DrainNext(x)
    <3>1. /\ apc' = [apc EXCEPT ![x] = "draining"] /\ apc[x] = "drain" /\ sec' = sec /\ finished' = finished
          /\ starts' = [starts EXCEPT ![c] = @ + 1]
      BY <1>4, <2>0, <2>5 DEF DrainNext, AGoto
    <3>2. apc'[x] = "draining" /\ \A y \in Admins \ {x} : apc'[y] = apc[y]
      BY <1>1, <3>1
    <3>3. starts'[c] = starts[c] + 1 /\ \A d \in Clients \ {c} : starts'[d] = starts[d]
      BY <1>1, <2>1, <3>1
    <3>4. starts[c] = 0 /\ c \notin finished
      <4>1. Waiting(c)
        BY <2>0, <2>1, <3>1 DEF Waiting
      <4> QED BY <2>2, <4>1 DEF MadeOnce
    <3>5. UnderWay(c)'
      BY <2>0, <2>1, <3>1, <3>2 DEF UnderWay
    <3>6. ~Waiting(c)'
      BY <1>2, <2>0, <2>1, <2>2, <2>3, <2>4, <3>1, <3>2 DEF Waiting
    <3>7. MadeOnce(c)'
      BY <1>2, <2>2, <2>4, <3>1, <3>3, <3>4, <3>5, <3>6 DEF MadeOnce
    <3>8. \A d \in Clients \ {c} : TurnsKept(d)
      BY <2>0, <2>1, <3>1, <3>2, SameTurn DEF TurnsKept
    <3>9. BarriersInv'
      BY <1>2, <3>1 DEF OnceInv, BarriersInv
    <3> QED BY <1>2, <2>1, <3>1, <3>3, <3>7, <3>8, <3>9, AsideOnce
  <2>6. CASE DrainEnds(x)
    <3>1. /\ apc' = [apc EXCEPT ![x] = "drain"] /\ apc[x] = "draining" /\ sec' = [sec EXCEPT ![x] = t]
          /\ finished' = finished \cup {c} /\ starts' = starts
      BY <1>1, <1>4, <2>0, <2>6 DEF DrainEnds, AGoto
    <3>2. /\ apc'[x] = "drain" /\ sec'[x] = t /\ \A y \in Admins \ {x} : apc'[y] = apc[y] /\ sec'[y] = sec[y]
      BY <1>1, <3>1
    <3>3. starts[c] = 1
      <4>1. UnderWay(c)
        BY <2>0, <2>1, <3>1 DEF UnderWay
      <4> QED BY <2>2, <4>1 DEF MadeOnce
    <3>4. ~UnderWay(c)'
      BY <1>2, <2>2, <2>3, <2>4, <3>2 DEF UnderWay, Drains
    <3>5. ~LeftTo(t, "drain", c)
      BY <2>1, <2>2 DEF LeftTo, Postponed
    <3>6. ~Waiting(c)'
      BY <1>2, <2>3, <2>4, <3>2, <3>5 DEF Waiting
    <3>7. \A y \in Admins : PostponedOnce(sec'[y], c)
      BY <2>1, <2>2, <3>2 DEF MadeOnce
    <3>8. MadeOnce(c)'
      BY <1>2, <2>1, <2>2, <2>4, <3>1, <3>3, <3>4, <3>6, <3>7 DEF MadeOnce
    <3>9. ASSUME NEW d \in Clients \ {c} PROVE TurnsKept(d)
      <4>1. KeepsTurn(sec[x], apc[x], sec'[x], apc'[x], d)
        BY <2>0, <2>1, <3>1, <3>2
      <4>2. \A y \in Admins \ {x} : KeepsTurn(sec[y], apc[y], sec'[y], apc'[y], d)
        BY <3>2, SameTurn
      <4> QED BY <4>1, <4>2 DEF TurnsKept
    <3>10. \A y \in Admins, d \in Clients : Postponed(sec'[y], d) => Postponed(sec[y], d)
      BY <2>0, <2>1, <2>2, <3>2, <3>9 DEF TurnsKept, KeepsTurn
    <3>11. BarriersInv'
      BY <1>2, <3>10 DEF OnceInv, BarriersInv
    <3> QED BY <1>2, <2>1, <3>1, <3>8, <3>9, <3>11, AsideOnce
  <2> QED BY <2>5, <2>6
<1>5. CASE DrainEnds(x) /\ sec[x].draining = <<>>
  BY <1>1, <1>5 DEF DrainEnds
<1> QED BY <1>3, <1>4, <1>5

LEMMA NextOnce == ASSUME IInv, OrderInv, OnceInv, [Next]_vars PROVE OnceInv'
<1>1. CASE UNCHANGED vars
  <2>1. UNCHANGED <<client, lane, queues, barriers, section, made>> /\ stopped' = stopped
    BY <1>1 DEF vars, control
  <2> QED BY <2>1, StopOnce
<1>2. CASE Next
  <2>1. Steps
    BY <1>2 DEF Next
  <2>2. CASE \E c \in Clients : Begin(c) \/ Client(c) \/ GiveUp(c)
    BY <2>2, RoutingOnce, GateOnce, SendOnce, HandoffOnce, CreateOnce, WithoutLaneOnce, LifecycleOnce, OffLaneEndsOnce
       DEF Client, GiveUp
  <2>3. CASE \E l \in Lanes : Worker(l)
    BY <2>3, WorkerOnce
  <2>4. CASE \E k \in Keys : Retire(k)
    BY <2>4, RetireOnce
  <2>5. CASE \E x \in Admins : Enter(x) \/ Admin(x) \/ Abandon(x)
    BY <2>5, SectionMovesOnce, BarrierOnce, WithdrawOnce, DrainOnce DEF Admin
  <2>6. CASE (\E h \in BOOLEAN : StopCall(h)) \/ Stop \/ StopTimeout
    BY <2>6, StopsOnce
  <2> QED BY <2>1, <2>2, <2>3, <2>4, <2>5, <2>6 DEF Steps
<1> QED BY <1>1, <1>2

LEMMA InitOnce == Init => OnceInv
<1> SUFFICES ASSUME Init PROVE OnceInv
  OBVIOUS
<1>0. None \notin Lanes /\ None \notin Clients
  BY AsyncAssumption
<1>1. \A l \in Lanes : lane[l].ch = <<>> /\ lane[l].backlog = <<>> /\ lane[l].cur = None
  <2>1. \A l \in Lanes : lane[l] \in {Absent, newKeyQueue}
    BY DEF Init
  <2>2. \A q \in {Absent, newKeyQueue} : q.ch = <<>> /\ q.backlog = <<>> /\ q.cur = None
    BY DEF Absent, newKeyQueue
  <2> QED BY <2>1, <2>2
<1>2. /\ \A c \in Clients : pc[c] = "idle" /\ starts[c] = 0
      /\ finished = {} /\ barriers = [k \in Keys |-> None]
      /\ \A x \in Admins : apc[x] = "idle" /\ sec[x].deferred = <<>> /\ sec[x].draining = <<>>
  BY DEF Init
<1>3. \A i \in 1..Len(<<>>) : FALSE
  OBVIOUS
<1>4. \A l \in Lanes, c \in Clients : ~OnLane(lane[l], c) /\ ~Queued(lane[l], c) /\ QueuedOnce(lane[l], c) /\ lane[l].cur # c
  BY <1>0, <1>1, <1>3 DEF OnLane, HasTask, Queued, QueuedOnce
<1>5. \A x \in Admins : \A c : /\ ~Postponed(sec[x], c) /\ PostponedOnce(sec[x], c)
                               /\ ~LeftTo(sec[x], apc[x], c) /\ ~Drains(sec[x], apc[x], c)
  BY <1>2, <1>3 DEF Postponed, PostponedOnce, LeftTo, Drains
<1>6. BarriersInv
  BY <1>2, <1>5 DEF BarriersInv
<1>7. ASSUME NEW c \in Clients PROVE MadeOnce(c)
  <2>1. ~UnderWay(c) /\ ~Waiting(c) /\ OffLanes(c)
    BY <1>2, <1>4, <1>5 DEF UnderWay, Waiting, OffLanes
  <2>2. starts[c] = 0 /\ c \notin finished
    BY <1>2
  <2>3. \A l \in Lanes : QueuedOnce(lane[l], c)
    BY <1>4
  <2> QED BY <1>5, <2>1, <2>2, <2>3 DEF MadeOnce
<1> QED BY <1>6, <1>7 DEF OnceInv

-----------------------------------------------------------------------------
(* The refinement of KeyedExecutor *)

LEMMA AloneIs ==
  ASSUME IInv, NEW x \in Admins, apc[x] = "fn"
  PROVE  Alone = x
<1> DEFINE y == CHOOSE z \in Admins : apc[z] = "fn"
<1>1. y \in Admins /\ apc[y] = "fn"
  OBVIOUS
<1>2. x \in Sections /\ y \in Sections
  BY <1>1 DEF Sections
<1>3. x = y
  BY <1>2 DEF IInv, SectionInv
<1> QED BY <1>3 DEF Alone

LEMMA AloneSame ==
  ASSUME IInv, IInv', \A x \in Admins : apc'[x] = "fn" <=> apc[x] = "fn"
  PROVE  Alone' = Alone
<1>1. ASSUME NEW x \in Admins, apc[x] = "fn" PROVE Alone' = Alone
  <2>1. Alone = x
    BY <1>1, AloneIs
  <2>2. apc'[x] = "fn"
    BY <1>1
  <2> DEFINE y == CHOOSE z \in Admins : apc'[z] = "fn"
  <2>3. y \in Admins /\ apc'[y] = "fn"
    BY <2>2
  <2>4. x \in Sections' /\ y \in Sections'
    BY <2>2, <2>3 DEF Sections
  <2>5. x = y
    BY <2>4 DEF IInv, SectionInv
  <2>6. Alone' = y
    BY <2>2 DEF Alone
  <2> QED BY <2>1, <2>5, <2>6
<1>2. ASSUME \A x \in Admins : apc[x] # "fn" PROVE Alone' = Alone
  BY <1>2 DEF Alone
<1> QED BY <1>1, <1>2

LEMMA RunningIs ==
  ASSUME OnceInv, NEW c \in Clients
  PROVE  c \in Executor!Running <=> UnderWay(c)
<1>1. MadeOnce(c)
  BY DEF OnceInv
<1>2. starts[c] \in {0, 1} /\ (UnderWay(c) <=> starts[c] = 1 /\ c \notin finished)
  BY <1>1 DEF MadeOnce
<1> QED BY <1>2 DEF Executor!Running

LEMMA ExecutorStutters ==
  ASSUME IInv, IInv', UNCHANGED made, stopped' = stopped, \A x \in Admins : apc'[x] = "fn" <=> apc[x] = "fn"
  PROVE  UNCHANGED Executor!vars
BY AloneSame DEF Executor!vars, made

LEMMA ExecutorStarts ==
  ASSUME IInv, IInv', OnceInv, NEW c \in Clients, starts[c] = 0, starts' = [starts EXCEPT ![c] = @ + 1],
         finished' = finished, stopped' = stopped,
         \A x \in Admins : apc[x] # "fn" /\ apc'[x] # "fn",
         ~stopped => \A d \in Clients : UnderWay(d) => RouteOf[d] # RouteOf[c]
  PROVE  Executor!Next
<1>1. Alone = None /\ Alone' = None
  BY DEF Alone
<1>2. \A d \in Executor!Running : d \in Clients /\ UnderWay(d)
  BY RunningIs DEF Executor!Running
<1>3. starts' = [starts EXCEPT ![c] = 1]
  <2>1. starts \in [Clients -> Nat]
    BY DEF IInv, TypeOK
  <2> QED BY <2>1
<1>4. Executor!Start(c)
  BY <1>1, <1>2, <1>3 DEF Executor!Start
<1> QED BY <1>4 DEF Executor!Next

LEMMA ExecutorFinishes ==
  ASSUME IInv, IInv', OnceInv, NEW c \in Clients, UnderWay(c), finished' = finished \cup {c}, starts' = starts,
         stopped' = stopped, \A x \in Admins : apc'[x] = "fn" <=> apc[x] = "fn"
  PROVE  Executor!Next
<1>1. Alone' = Alone
  BY AloneSame
<1>2. c \in Executor!Running
  BY RunningIs
<1>3. Executor!Finish(c)
  BY <1>1, <1>2 DEF Executor!Finish
<1> QED BY <1>3 DEF Executor!Next

\* A lane that is neither quiet nor held takes up a call of its key alone.
LEMMA LaneFreeToStart ==
  ASSUME IInv, OrderInv, OnceInv, NEW c \in Clients, NEW l \in Lanes, Queued(lane[l], c),
         lane[l].cur \notin Clients, ~Quiet(lane[l]), \A x \in Admins : ~Holds(lane[l], x)
  PROVE  /\ starts[c] = 0
         /\ \A x \in Admins : apc[x] # "fn"
         /\ ~stopped => \A d \in Clients : UnderWay(d) => RouteOf[d] # RouteOf[c]
<1>1. /\ \A x \in Admins : apc[x] = "fn" => \A m \in Lanes : Quiet(lane[m]) \/ Holds(lane[m], x)
      /\ MadeOnce(c) /\ BarriersInv /\ RoutesInv /\ HeldInv /\ None \notin Clients \cup Lanes
      /\ RouteOf \in [Clients -> Keys]
      /\ sec \in [Admins -> SectionRecords] /\ \A x \in Admins : apc[x] = "draining" => sec[x].draining # <<>>
  BY AsyncAssumption DEF IInv, TypeOK, SectionTypes, SectionInv, Covered, OnceInv, OrderInv
<1>2. starts[c] = 0
  BY <1>1 DEF MadeOnce, Waiting
<1>3. \A x \in Admins : apc[x] # "fn"
  BY <1>1
<1>4. queues[RouteOf[c]] = l
  BY <1>1, OnLaneParts DEF RoutesInv
<1>5. ASSUME ~stopped, NEW d \in Clients, UnderWay(d), RouteOf[d] = RouteOf[c] PROVE FALSE
  <2>1. CASE pc[d] = "offlane"
    BY <1>1, <1>4, <1>5, <2>1 DEF BarriersInv
  <2>2. CASE \E m \in Lanes : lane[m].cur = d
    <3>1. PICK m \in Lanes : lane[m].cur = d
      BY <2>2
    <3>2. queues[RouteOf[d]] = m
      BY <1>1, <3>1, OnLaneParts DEF RoutesInv
    <3> QED BY <1>4, <1>5, <3>1, <3>2
  <2>3. CASE \E x \in Admins : Drains(sec[x], apc[x], d)
    <3>1. PICK x \in Admins : Postponed(sec[x], d)
      BY <1>1, <2>3, DrainsPostponed
    <3>2. KeyHeld(d, x)
      BY <1>1, <1>5, <3>1 DEF HeldInv
    <3> QED BY <1>1, <1>4, <1>5, <3>2 DEF KeyHeld
  <2> QED BY <1>5, <2>1, <2>2, <2>3 DEF UnderWay
<1> QED BY <1>2, <1>3, <1>5

LEMMA WorkerServes ==
  ASSUME IInv, IInv', OrderInv, OnceInv, NEW l \in Lanes, Worker(l)
  PROVE  Executor!Next \/ UNCHANGED Executor!vars
<1> DEFINE p == lane[l]
<1>1. /\ p \in LaneRecords /\ LaneShape(p) /\ p.backlog \in Seq(Entries) /\ p.ch \in Seq(Clients)
      /\ Clients \cap Admins = {} /\ None \notin Clients
  BY EntryParts, AsyncAssumption DEF IInv, TypeOK, LanesInv
<1>2. apc' = apc /\ stopped' = stopped
  BY DEF Worker, Take, Wait, Receive, SeeClosed, SeeRetired, SeeWake, Finish, Park, Unpark, section, control
<1>3. CASE Wait(l) \/ SeeClosed(l) \/ SeeRetired(l) \/ SeeWake(l) \/ Park(l) \/ Unpark(l)
  <2>1. UNCHANGED made
    BY <1>3, RetiredAborts DEF Wait, SeeClosed, SeeWake, Park, Unpark, made
  <2> QED BY <1>2, <2>1, ExecutorStutters
<1>4. CASE Receive(l)
  <2>1. PICK c \in Clients : c = Head(p.ch)
    BY <1>1, <1>4 DEF Receive
  <2>2. p.worker = "select" /\ p.ch # <<>> /\ p.cur = None
    BY <1>1, <1>4 DEF Receive, LaneShape
  <2>3. Queued(p, c)
    BY <1>1, <2>1, <2>2, TailEntries DEF Queued
  <2>4. ~Quiet(p) /\ \A x \in Admins : ~Holds(p, x)
    BY <1>1, <2>2 DEF Quiet, Holds, LaneShape
  <2>5. /\ starts[c] = 0 /\ \A x \in Admins : apc[x] # "fn"
        /\ ~stopped => \A d \in Clients : UnderWay(d) => RouteOf[d] # RouteOf[c]
    BY <1>1, <2>2, <2>3, <2>4, LaneFreeToStart
  <2>6. starts' = [starts EXCEPT ![c] = @ + 1] /\ finished' = finished
    BY <1>4, <2>1 DEF Receive
  <2> QED BY <1>2, <2>5, <2>6, ExecutorStarts
<1>5. CASE Take(l)
  <2> DEFINE t == Head(p.backlog).task
  <2>1. p.worker = "loop" /\ p.cur = None /\ p.backlog # <<>>
    <3>1. /\ PassedFence(p) \in LaneRecords /\ Len(PassedFence(p).backlog) = Len(p.backlog)
      BY <1>1, Fenced
    <3>2. Ready(PassedFence(p)) /\ p.worker = "loop"
      BY <1>5 DEF Take
    <3>3. p.backlog # <<>>
      BY <1>1, <3>1, <3>2 DEF Ready, LaneRecords
    <3> QED BY <1>1, <3>2, <3>3 DEF LaneShape
  <2>2. CASE Barrier(t)
    <3>1. UNCHANGED made
      BY <1>5, <2>2 DEF Take, made
    <3> QED BY <1>2, <3>1, ExecutorStutters
  <2>3. CASE ~Barrier(t)
    <3>1. t \in Clients
      <4>1. Head(p.backlog) \in Entries
        BY <1>1, <2>1
      <4> QED BY <2>3, <4>1 DEF Barrier, Entries
    <3>2. PICK c \in Clients : c = t
      BY <3>1
    <3>3. Queued(p, c)
      <4>1. 1 \in 1..Len(p.backlog) /\ Head(p.backlog) = p.backlog[1]
        BY <1>1, <2>1, TailEntries
      <4> QED BY <3>2, <4>1 DEF Queued
    <3>4. ~Quiet(p) /\ \A x \in Admins : ~Holds(p, x)
      BY <1>1, <2>1, <2>3 DEF Quiet, Holds, LaneShape, Barrier
    <3>5. /\ starts[c] = 0 /\ \A x \in Admins : apc[x] # "fn"
          /\ ~stopped => \A d \in Clients : UnderWay(d) => RouteOf[d] # RouteOf[c]
      BY <1>1, <2>1, <3>3, <3>4, LaneFreeToStart
    <3>6. starts' = [starts EXCEPT ![c] = @ + 1] /\ finished' = finished
      BY <1>5, <2>3, <3>2 DEF Take
    <3> QED BY <1>2, <3>5, <3>6, ExecutorStarts
  <2> QED BY <2>2, <2>3
<1>6. CASE Finish(l)
  <2>1. PICK c \in Clients : c = p.cur
    BY <1>1, <1>6 DEF Finish, LaneShape
  <2>2. UnderWay(c)
    BY <2>1 DEF UnderWay
  <2>3. finished' = finished \cup {c} /\ starts' = starts
    BY <1>6, <2>1 DEF Finish
  <2> QED BY <1>2, <2>2, <2>3, ExecutorFinishes
<1> QED BY <1>3, <1>4, <1>5, <1>6 DEF Worker

LEMMA ClientServes ==
  ASSUME IInv, IInv', OrderInv, OnceInv, NEW c \in Clients, Begin(c) \/ Client(c) \/ GiveUp(c)
  PROVE  Executor!Next \/ UNCHANGED Executor!vars
<1>1. apc' = apc /\ stopped' = stopped /\ (starts' = starts \/ starts' = [starts EXCEPT ![c] = @ + 1])
  BY DEF Begin, Client, GiveUp, Check, Read, PassBarrier, Create, Gate, PassFence, admitTask, Send, Block, Register,
         Handoff, WithoutLane, StoppedLane, LateHandoff, beginLifecycleCleanup, OffLaneEnds, FenceFails, Expired,
         SendFails, section, control, made
<1>2. CASE WithoutLane(c) /\ starts' # starts
  <2> DEFINE k == RouteOf[c]
  <2>1. /\ ~HasPlace(k) /\ active = None /\ pc[c] = "nolane" /\ finished' = finished
        /\ starts' = [starts EXCEPT ![c] = @ + 1]
    BY <1>2 DEF WithoutLane
  <2>2. k \in Keys /\ MadeOnce(c) /\ BarriersInv /\ RoutesInv /\ None \notin Clients \cup Admins \cup Lanes
    BY AsyncAssumption DEF OnceInv, OrderInv
  <2>3. queues[k] = None /\ barriers[k] = None
    BY <2>1, <2>2, NoLaneKept DEF HasPlace
  <2>4. starts[c] = 0
    BY <2>1, <2>2 DEF MadeOnce
  <2>5. \A x \in Admins : apc[x] \notin {"fn", "draining"}
    BY <2>1, <2>2 DEF IInv, SectionInv, Published
  <2>6. ASSUME ~stopped, NEW d \in Clients, UnderWay(d), RouteOf[d] = k PROVE FALSE
    <3>1. CASE pc[d] = "offlane"
      BY <2>2, <2>3, <2>6, <3>1 DEF BarriersInv
    <3>2. CASE \E m \in Lanes : lane[m].cur = d
      BY <2>2, <2>3, <2>6, <3>2, OnLaneParts DEF RoutesInv
    <3>3. CASE \E x \in Admins : Drains(sec[x], apc[x], d)
      BY <2>5, <3>3 DEF Drains
    <3> QED BY <2>6, <3>1, <3>2, <3>3 DEF UnderWay
  <2> QED BY <1>1, <2>1, <2>4, <2>5, <2>6, ExecutorStarts
<1>3. CASE beginLifecycleCleanup(c) /\ starts' # starts
  <2>1. lifeSealed \/ active = None
    BY <1>3 DEF beginLifecycleCleanup
  <2>2. pc[c] = "lifecycle" /\ finished' = finished /\ starts' = [starts EXCEPT ![c] = @ + 1]
    BY <1>3 DEF beginLifecycleCleanup
  <2>3. stopped /\ starts[c] = 0
    BY <2>2 DEF OrderInv, RoutesInv, OnceInv, MadeOnce
  <2>4. \A x \in Admins : apc[x] # "fn"
    <3>1. lifeSealed => Sections = {}
      BY DEF IInv, StopInv
    <3>2. \A x \in Admins : apc[x] = "fn" => active = x /\ x \in Sections /\ x # None
      BY AsyncAssumption DEF IInv, SectionInv, Published, Sections
    <3> QED BY <2>1, <3>1, <3>2
  <2> QED BY <1>1, <2>2, <2>3, <2>4, ExecutorStarts
<1>4. CASE OffLaneEnds(c)
  <2>1. UnderWay(c) /\ finished' = finished \cup {c} /\ starts' = starts
    BY <1>4 DEF OffLaneEnds, UnderWay
  <2> QED BY <1>1, <2>1, ExecutorFinishes
<1>5. CASE /\ ~(WithoutLane(c) /\ starts' # starts) /\ ~(beginLifecycleCleanup(c) /\ starts' # starts)
           /\ ~OffLaneEnds(c)
  <2>1. UNCHANGED made
    BY <1>5 DEF Begin, Client, GiveUp, Check, Read, PassBarrier, Create, Gate, PassFence, admitTask, Send, Block, Register,
         Handoff, WithoutLane, StoppedLane, LateHandoff, beginLifecycleCleanup, FenceFails, Expired,
         SendFails, made
  <2> QED BY <1>1, <2>1, ExecutorStutters
<1> QED BY <1>2, <1>3, <1>4, <1>5

\* fn begins when no call is under way.
LEMMA FnServes ==
  ASSUME IInv, IInv', OnceInv, NEW x \in Admins, RunFn(x), ~stopped
  PROVE  Executor!Next
<1>1. /\ apc \in [Admins -> Published \cup {"idle", "install", "release", "done"}] /\ apc[x] = "ready"
      /\ apc' = [apc EXCEPT ![x] = "fn"] /\ UNCHANGED made /\ stopped' = stopped
  BY DEF IInv, TypeOK, SectionTypes, RunFn, AGoto, control
<1>2. x \in Sections /\ x \in Admins /\ SectionInv(x)
  BY <1>1 DEF Sections, IInv
<1>3. \A y \in Admins \ {x} : apc[y] \in {"idle", "done"}
  BY <1>2, ActiveOne
<1>4. ASSUME NEW d \in Clients PROVE ~UnderWay(d)
  <2>1. pc[d] # "offlane"
    BY <1>1, <1>2 DEF SectionInv
  <2>2. ASSUME NEW l \in Lanes PROVE lane[l].cur # d
    <3>1. lane[l] \in LaneRecords /\ LaneShape(lane[l]) /\ (Quiet(lane[l]) \/ Holds(lane[l], x))
      BY <1>1 DEF IInv, TypeOK, LanesInv, Covered
    <3>2. lane[l].worker \notin {"task", "release"} /\ lane[l].worker \in WorkerSteps
      BY <3>1, StandsStill DEF LaneRecords
    <3>3. d # None /\ d \notin Admins
      BY AsyncAssumption
    <3> QED BY <3>1, <3>2, <3>3 DEF LaneShape, WorkerSteps
  <2>3. \A y \in Admins : ~Drains(sec[y], apc[y], d)
    BY <1>1, <1>3 DEF Drains
  <2> QED BY <2>1, <2>2, <2>3 DEF UnderWay
<1>5. Executor!Running = {}
  BY <1>4, RunningIs DEF Executor!Running
<1>6. Alone = None
  BY <1>1, <1>3 DEF Alone
<1>7. Alone' = x
  <2>1. apc'[x] = "fn" /\ \A y \in Admins \ {x} : apc'[y] # "fn"
    BY <1>1, <1>3
  <2> QED BY <2>1 DEF Alone
<1>8. Executor!Enter(x)
  BY <1>1, <1>5, <1>6, <1>7 DEF Executor!Enter, made
<1> QED BY <1>8 DEF Executor!Next

LEMMA DrainServes ==
  ASSUME IInv, IInv', OrderInv, OnceInv, NEW x \in Admins, DrainNext(x) \/ DrainEnds(x)
  PROVE  Executor!Next \/ UNCHANGED Executor!vars
<1>1. /\ apc \in [Admins -> Published \cup {"idle", "install", "release", "done"}] /\ apc[x] \in {"drain", "draining"}
      /\ stopped' = stopped /\ sec \in [Admins -> SectionRecords] /\ SectionInv(x) /\ sec[x] \in SectionRecords
      /\ x \in Sections /\ sec[x].draining \in Seq(Clients)
  BY DEF IInv, TypeOK, SectionTypes, SectionRecords, DrainNext, DrainEnds, control, Sections
<1>2. \A y \in Admins \ {x} : apc[y] \in {"idle", "done"}
  BY <1>1, ActiveOne
<1>3. \A y \in Admins : apc[y] # "fn" /\ apc'[y] # "fn"
  BY <1>1, <1>2 DEF DrainNext, DrainEnds, AGoto
<1>4. CASE DrainNext(x) /\ sec[x].draining = <<>>
  <2>1. UNCHANGED made
    BY <1>4 DEF DrainNext, made
  <2> QED BY <1>1, <1>3, <2>1, ExecutorStutters
<1>5. CASE sec[x].draining # <<>>
  <2>1. PICK c : c = Head(sec[x].draining)
    OBVIOUS
  <2>2. /\ c \in Clients /\ Postponed(sec[x], c) /\ LeftTo(sec[x], "drain", c) /\ Drains(sec[x], "draining", c)
    BY <1>1, <1>5, <2>1, DrainingTurn
  <2>3. MadeOnce(c) /\ RoutesInv /\ HeldInv /\ BarriersInv /\ None \notin Clients \cup Lanes /\ RouteOf \in [Clients -> Keys]
    BY <2>2, AsyncAssumption DEF OnceInv, OrderInv
  <2>4. CASE DrainNext(x)
    <3>1. apc[x] = "drain" /\ starts' = [starts EXCEPT ![c] = @ + 1] /\ finished' = finished
      BY <1>5, <2>1, <2>4 DEF DrainNext
    <3>2. starts[c] = 0
      BY <2>2, <2>3, <3>1 DEF MadeOnce, Waiting
    <3>3. ASSUME ~stopped, NEW d \in Clients, UnderWay(d), RouteOf[d] = RouteOf[c] PROVE FALSE
      <4>1. CASE pc[d] = "offlane"
        BY <2>2, <2>3, <3>3, <4>1 DEF BarriersInv
      <4>2. CASE \E l \in Lanes : lane[l].cur = d
        <5>1. PICK l \in Lanes : lane[l].cur = d
          BY <4>2
        <5>2. queues[RouteOf[c]] = l
          BY <2>3, <3>3, <5>1, OnLaneParts DEF RoutesInv
        <5>3. Quiet(lane[l]) \/ Holds(lane[l], x)
          BY <2>2, <2>3, <3>3, <5>2 DEF HeldInv, KeyHeld
        <5>4. lane[l] \in LaneRecords /\ LaneShape(lane[l])
          BY DEF IInv, TypeOK, LanesInv
        <5>5. lane[l].worker \notin {"task", "release"} /\ lane[l].worker \in WorkerSteps
          BY <5>3, <5>4, StandsStill DEF LaneRecords
        <5>6. d # None /\ d \notin Admins
          BY AsyncAssumption
        <5> QED BY <5>1, <5>4, <5>5, <5>6 DEF LaneShape, WorkerSteps
      <4>3. CASE \E y \in Admins : Drains(sec[y], apc[y], d)
        BY <1>2, <3>1, <4>3 DEF Drains
      <4> QED BY <3>3, <4>1, <4>2, <4>3 DEF UnderWay
    <3> QED BY <1>1, <1>3, <2>2, <3>1, <3>2, <3>3, ExecutorStarts
  <2>5. CASE DrainEnds(x)
    <3>1. apc[x] = "draining" /\ finished' = finished \cup {c} /\ starts' = starts
      BY <2>1, <2>5 DEF DrainEnds
    <3>2. UnderWay(c)
      BY <2>2, <3>1 DEF UnderWay
    <3> QED BY <1>1, <1>3, <2>2, <3>1, <3>2, ExecutorFinishes
  <2> QED BY <2>4, <2>5
<1>6. CASE DrainEnds(x) /\ sec[x].draining = <<>>
  BY <1>1, <1>6 DEF DrainEnds, SectionInv
<1> QED BY <1>4, <1>5, <1>6

LEMMA AdminServes ==
  ASSUME IInv, IInv', OrderInv, OnceInv, NEW x \in Admins, Enter(x) \/ Admin(x) \/ Abandon(x)
  PROVE  Executor!Next \/ UNCHANGED Executor!vars
<1>1. apc \in [Admins -> Published \cup {"idle", "install", "release", "done"}]
  BY DEF IInv, TypeOK, SectionTypes
<1>2. CASE DrainNext(x) \/ DrainEnds(x)
  BY <1>2, DrainServes
<1>3. CASE RunFn(x) /\ ~stopped
  BY <1>3, FnServes
<1>4. CASE FnEnds(x)
  <2>1. apc[x] = "fn" /\ apc' = [apc EXCEPT ![x] = "withdraw"] /\ UNCHANGED made /\ stopped' = stopped
    BY <1>4 DEF FnEnds, AGoto, control
  <2>2. Alone = x /\ x # None
    BY <2>1, AloneIs, AsyncAssumption
  <2>3. \A y \in Admins \ {x} : apc[y] \in {"idle", "done"}
    BY <2>1, ActiveOne DEF Sections
  <2>4. Alone' = None
    BY <1>1, <2>1, <2>3 DEF Alone
  <2>5. Executor!Leave
    BY <2>1, <2>2, <2>4 DEF Executor!Leave, made
  <2> QED BY <2>5 DEF Executor!Next
<1>5. CASE \/ Enter(x) \/ installExclusive(x) \/ AwaitRunning(x) \/ enqueueBarrier(x) \/ AllParked(x)
           \/ (RunFn(x) /\ stopped) \/ withdrawExclusive(x) \/ Release(x) \/ Abandon(x)
  <2>1. UNCHANGED made /\ stopped' = stopped
    BY <1>5 DEF Enter, installExclusive, AwaitRunning, enqueueBarrier, AllParked, RunFn, withdrawExclusive, Release,
                Abandon, control
  <2>2. apc' = apc \/ (apc[x] # "fn" /\ \E v : v # "fn" /\ apc' = [apc EXCEPT ![x] = v])
    BY <1>5 DEF Enter, installExclusive, AwaitRunning, enqueueBarrier, AllParked, RunFn, withdrawExclusive, Release,
                Abandon, AGoto
  <2>3. \A y \in Admins : apc'[y] = "fn" <=> apc[y] = "fn"
    BY <1>1, <2>2
  <2> QED BY <2>1, <2>3, ExecutorStutters
<1> QED BY <1>2, <1>3, <1>4, <1>5 DEF Admin

LEMMA NextServes ==
  ASSUME IInv, IInv', OrderInv, OnceInv, [Next]_vars
  PROVE  [Executor!Next]_(Executor!vars)
<1>1. CASE UNCHANGED vars
  <2>1. UNCHANGED made /\ stopped' = stopped /\ apc' = apc
    BY <1>1 DEF vars, control, section
  <2> QED BY <2>1, ExecutorStutters
<1>2. CASE Next
  <2>1. Steps
    BY <1>2 DEF Next
  <2>2. CASE \E c \in Clients : Begin(c) \/ Client(c) \/ GiveUp(c)
    BY <2>2, ClientServes
  <2>3. CASE \E l \in Lanes : Worker(l)
    BY <2>3, WorkerServes
  <2>4. CASE \E x \in Admins : Enter(x) \/ Admin(x) \/ Abandon(x)
    BY <2>4, AdminServes
  <2>5. CASE signalStopOnce
    <3>1. stopped' = TRUE /\ UNCHANGED made /\ apc' = apc
      BY <2>5 DEF signalStopOnce, section
    <3>2. Alone' = Alone
      BY <3>1 DEF Alone
    <3>3. Executor!Stop
      BY <3>1, <3>2 DEF Executor!Stop, made
    <3> QED BY <3>3 DEF Executor!Next
  <2>6. CASE \/ \E k \in Keys : Retire(k)
             \/ \E h \in BOOLEAN : StopCall(h)
             \/ CloseLanes \/ waitWorkers \/ waitSections \/ finishLifecycleCleanups \/ StopTimeout
    <3>1. UNCHANGED made /\ stopped' = stopped /\ apc' = apc
      BY <2>6 DEF Retire, StopCall, CloseLanes, waitWorkers, waitSections, finishLifecycleCleanups, StopTimeout,
                  section, control
    <3> QED BY <3>1, ExecutorStutters
  <2> QED BY <2>1, <2>2, <2>3, <2>4, <2>5, <2>6 DEF Steps, Stop
<1> QED BY <1>1, <1>2

\* The engine implements the keyed executor (ServesAsExecutor): lanes, backlogs, barriers, the
\* off-lane paths and the drains of sections together make every operation at most once, one at
\* a time per key until the engine is stopped, and none beside the fn of a section (doc.go).
THEOREM ServesKeys == Spec => ServesAsExecutor
<1>1. Init => IInv /\ OrderInv /\ OnceInv
  BY InitInv, InitOrder, InitOnce
<1>2. IInv /\ OrderInv /\ OnceInv /\ [Next]_vars => (IInv /\ OrderInv /\ OnceInv)'
  BY NextKeeps, NextOrder, NextOnce
<1>3. Init => Executor!Init
  <2> SUFFICES ASSUME Init PROVE Executor!Init
    OBVIOUS
  <2>1. \A x \in Admins : apc[x] # "fn"
    BY DEF Init
  <2>2. Alone = None
    BY <2>1 DEF Alone
  <2> QED BY <2>2 DEF Init, Executor!Init
<1>4. IInv /\ IInv' /\ OrderInv /\ OnceInv /\ [Next]_vars => [Executor!Next]_(Executor!vars)
  BY NextServes
<1> QED BY <1>1, <1>2, <1>3, <1>4, PTL DEF Spec, ServesAsExecutor, Executor!Spec

=============================================================================
