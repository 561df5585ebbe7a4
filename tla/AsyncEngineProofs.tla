-------------------------- MODULE AsyncEngineProofs --------------------------
(***************************************************************************)
(* The Go asynchronous engine: its invariant, for any calls, keys, lanes   *)
(* and section owners; sections run alone, and a stop leaves nothing.      *)
(***************************************************************************)
EXTENDS AsyncEngine, FiniteSetTheorems, SequenceTheorems, WellFoundedInduction, TLAPS

LEMMA NewLanes ==
  /\ Absent \in LaneRecords /\ newKeyQueue \in LaneRecords
  /\ Absent.ch = <<>> /\ Absent.backlog = <<>> /\ Absent.cur = None /\ Absent.pending = 0
  /\ newKeyQueue.ch = <<>> /\ newKeyQueue.backlog = <<>> /\ newKeyQueue.cur = None
  /\ newKeyQueue.pending = 0 /\ newKeyQueue.worker = "loop" /\ Absent.worker = "none"
  /\ ~Absent.closed /\ ~Absent.sealed /\ ~Absent.retired
  /\ ~newKeyQueue.closed /\ ~newKeyQueue.sealed /\ ~newKeyQueue.retired
  /\ newKeyQueue.admitted = 0 /\ newKeyQueue.settled = 0
<1>1. <<>> \in Seq(Clients) /\ <<>> \in Seq(Entries)
  OBVIOUS
<1>2. Absent \in LaneRecords
  BY <1>1 DEF Absent, LaneRecords, WorkerSteps
<1>3. newKeyQueue \in LaneRecords
  BY <1>2 DEF newKeyQueue, LaneRecords, WorkerSteps
<1>4. newKeyQueue = [Absent EXCEPT !.worker = "loop"]
  BY DEF newKeyQueue
<1> QED BY <1>2, <1>3, <1>4 DEF Absent

LEMMA InitInv == Init => IInv
<1> SUFFICES ASSUME Init PROVE IInv
  OBVIOUS
<1>0. setup \in Setups /\ setup.dynamic \in BOOLEAN /\ setup.lanes \in SUBSET Lanes
  BY AsyncAssumption DEF Init
<1>b. \A l \in Lanes : lane[l] = (IF Dynamic \/ l \notin Laid THEN Absent ELSE newKeyQueue)
  BY DEF Init
<1>c. \A l \in Lanes : /\ lane[l] \in LaneRecords /\ lane[l].ch = <<>> /\ lane[l].backlog = <<>>
                       /\ lane[l].cur = None /\ lane[l].pending = 0
                       /\ ~lane[l].closed /\ ~lane[l].sealed /\ ~lane[l].retired
                       /\ lane[l].worker = (IF Dynamic \/ l \notin Laid THEN "none" ELSE "loop")
  BY NewLanes, <1>b
<1>1. TypeOK
  <2>1. ClientTypes
    BY DEF Init, ClientTypes, ClientSteps
  <2>2. RoutingTypes
    BY AsyncAssumption DEF Init, RoutingTypes
  <2>3. StopTypes
    BY <1>0 DEF Init, StopTypes, Dynamic
  <2>4. SectionTypes
    BY EmptySeq DEF Init, SectionTypes, SectionRecords
  <2>5. lane \in [Lanes -> LaneRecords]
    BY <1>c DEF Init
  <2> QED BY <1>0, <2>1, <2>2, <2>3, <2>4, <2>5 DEF Init, TypeOK
<1>2. LanesInv
  <2> SUFFICES ASSUME NEW l \in Lanes
               PROVE  LaneShape(lane[l]) /\ Pending(l)
    BY <1>c DEF LanesInv
  <2>1. LaneShape(lane[l])
    BY <1>c DEF LaneShape
  <2>2. Sending(l) = {}
    BY DEF Init, Sending
  <2>3. Len(lane[l].ch) = 0 /\ Len(lane[l].backlog) = 0 /\ Cardinality(Sending(l)) = 0
    BY <1>c, <2>2, FS_EmptySet, EmptySeq
  <2> QED BY <2>1, <2>3, <1>c DEF Pending
<1>3. QueuesInv
  <2>1. \A k \in Keys : queues[k] # None => ~Dynamic /\ queues[k] = ShardOf[k]
    BY DEF Init
  <2>2. ~Dynamic => \A k \in Keys : ShardOf[k] \in Laid /\ ShardOf[k] \in Lanes
    BY AsyncAssumption, <1>0 DEF Dynamic, Laid
  <2> QED BY <1>c, <2>1, <2>2 DEF QueuesInv
<1>4. StopInv
  BY DEF Init, StopInv
<1>5. Covered
  BY <1>c DEF Init, Covered, Quiet, Listed
<1>6. \A c \in Clients : ClientInv(c)
  BY AsyncAssumption DEF Init, ClientInv, Submitting, Releasing
<1>7. ASSUME NEW x \in Admins PROVE SectionInv(x) /\ BarriersCounted(x)
  <2>1. Sections = {}
    BY DEF Init, Sections
  <2>2. SectionInv(x)
    BY <2>1, AsyncAssumption DEF Init, SectionInv, Published
  <2>3. x # None
    BY AsyncAssumption
  <2>4. \A l \in Lanes : ~HasTask(lane[l], x) /\ lane[l].worker # "parked"
    BY <1>c, <2>3, EmptySeq DEF HasTask
  <2>5. Barred(x) = {} /\ ParkedOn(x) = {}
    BY <2>4 DEF Barred, ParkedOn
  <2>6. Cardinality(Barred(x)) = 0 /\ Cardinality(ParkedOn(x)) = 0
    BY <2>5, FS_EmptySet
  <2>7. sec[x].expected = 0 /\ sec[x].parked = 0
    BY DEF Init
  <2> QED BY <2>2, <2>6, <2>7 DEF BarriersCounted
<1>8. Owed = {}
  BY AsyncAssumption DEF Init, Owed
<1> QED BY <1>1, <1>2, <1>3, <1>4, <1>5, <1>6, <1>7, <1>8 DEF IInv


-----------------------------------------------------------------------------
(* What the operations on a lane do to it. *)

LEMMA LaneFields ==
  ASSUME NEW p \in LaneRecords
  PROVE  /\ \A v \in Seq(Clients) : [p EXCEPT !.ch = v] \in LaneRecords
         /\ \A v \in BOOLEAN : [p EXCEPT !.closed = v] \in LaneRecords
         /\ \A v \in SUBSET Clients : [p EXCEPT !.readers = v] \in LaneRecords
         /\ \A v \in Seq(Entries) : [p EXCEPT !.backlog = v] \in LaneRecords
         /\ \A v \in BOOLEAN : [p EXCEPT !.wake = v] \in LaneRecords
         /\ \A v \in BOOLEAN : [p EXCEPT !.retired = v] \in LaneRecords
         /\ \A v \in Int : [p EXCEPT !.pending = v] \in LaneRecords
         /\ \A v \in Nat : [p EXCEPT !.admitted = v] \in LaneRecords
         /\ \A v \in Nat : [p EXCEPT !.settled = v] \in LaneRecords
         /\ \A v \in WorkerSteps : [p EXCEPT !.worker = v] \in LaneRecords
         /\ \A v \in Clients \cup Admins \cup {None} : [p EXCEPT !.cur = v] \in LaneRecords
         /\ \A v \in BOOLEAN : [p EXCEPT !.sealed = v] \in LaneRecords
<1>1. \A v \in Seq(Clients) : [p EXCEPT !.ch = v] \in LaneRecords
  BY DEF LaneRecords
<1>2. \A v \in BOOLEAN : [p EXCEPT !.closed = v] \in LaneRecords
  BY DEF LaneRecords
<1>3. \A v \in SUBSET Clients : [p EXCEPT !.readers = v] \in LaneRecords
  BY DEF LaneRecords
<1>4. \A v \in Seq(Entries) : [p EXCEPT !.backlog = v] \in LaneRecords
  BY DEF LaneRecords
<1>5. \A v \in BOOLEAN : [p EXCEPT !.wake = v] \in LaneRecords
  BY DEF LaneRecords
<1>6. \A v \in BOOLEAN : [p EXCEPT !.retired = v] \in LaneRecords
  BY DEF LaneRecords
<1>7. \A v \in Int : [p EXCEPT !.pending = v] \in LaneRecords
  BY DEF LaneRecords
<1>8. \A v \in Nat : [p EXCEPT !.admitted = v] \in LaneRecords
  BY DEF LaneRecords
<1>9. \A v \in Nat : [p EXCEPT !.settled = v] \in LaneRecords
  BY DEF LaneRecords
<1>10. \A v \in WorkerSteps : [p EXCEPT !.worker = v] \in LaneRecords
  BY DEF LaneRecords
<1>11. \A v \in Clients \cup Admins \cup {None} : [p EXCEPT !.cur = v] \in LaneRecords
  BY DEF LaneRecords
<1>12. \A v \in BOOLEAN : [p EXCEPT !.sealed = v] \in LaneRecords
  BY DEF LaneRecords
<1> QED BY <1>1, <1>2, <1>3, <1>4, <1>5, <1>6, <1>7, <1>8, <1>9, <1>10, <1>11, <1>12

LEMMA SameQueues ==
  ASSUME NEW p, NEW q, q.ch = p.ch, q.backlog = p.backlog, q.cur = p.cur
  PROVE  \A t : (HasTask(q, t) <=> HasTask(p, t)) /\ (OnLane(q, t) <=> OnLane(p, t))
BY DEF HasTask, OnLane

LEMMA SameLane ==
  ASSUME NEW p, NEW q, q.ch = p.ch, q.backlog = p.backlog, q.cur = p.cur, q.worker = p.worker,
         q.retired = p.retired, q.sealed = p.sealed, q.closed = p.closed, q.settled = p.settled
  PROVE  /\ LaneShape(p) => LaneShape(q)
         /\ Quiet(p) => Quiet(q)
         /\ \A x : Holds(p, x) => Holds(q, x)
BY DEF LaneShape, Quiet, Holds, Ready

LEMMA Enqueued ==
  ASSUME NEW p \in LaneRecords, NEW t \in Clients \cup Admins, NEW f \in BOOLEAN,
         NEW q, q = enqueueMandatory(p, t, f)
  PROVE  /\ q \in LaneRecords
         /\ q.ch = p.ch /\ q.cur = p.cur /\ q.worker = p.worker /\ q.retired = p.retired
         /\ q.sealed = p.sealed /\ q.closed = p.closed /\ q.settled = p.settled
         /\ q.readers = p.readers /\ q.pending = p.pending + 1
         /\ Len(q.backlog) = Len(p.backlog) + 1 /\ q.backlog # <<>>
         /\ \A u : HasTask(q, u) <=> HasTask(p, u) \/ u = t
         /\ \A x : Holds(p, x) => Holds(q, x)
         /\ LaneShape(p) /\ Takes(p) /\ (p.worker # "none" \/ t \in Admins) => LaneShape(q)
         /\ p.backlog = <<>> /\ ~f => Head(q.backlog).task = t /\ ~Head(q.backlog).fence
                                   /\ Head(q.backlog).target = p.admitted
<1> DEFINE e == [task |-> t, cutoff |-> p.admitted, target |-> p.admitted, fence |-> f]
<1>1. p.backlog \in Seq(Entries) /\ p.admitted \in Nat /\ p.pending \in Int
  BY DEF LaneRecords
<1>2. e \in Entries /\ e.task = t /\ e.fence = f /\ e.target = p.admitted
  BY <1>1 DEF Entries
<1>3. q = [p EXCEPT !.pending = @ + 1, !.wake = TRUE, !.backlog = Append(@, e)]
  BY DEF enqueueMandatory
<1> HIDE DEF e
<1> DEFINE s == Append(p.backlog, e)
<1>4. s \in Seq(Entries) /\ Len(s) = Len(p.backlog) + 1 /\ s[Len(s)] = e /\ Len(p.backlog) \in Nat
      /\ \A i \in 1..Len(p.backlog) : s[i] = p.backlog[i]
  BY <1>1, <1>2, AppendProperties
<1> HIDE DEF s
<1>5. q.backlog = s /\ q.pending = p.pending + 1
      /\ q.ch = p.ch /\ q.cur = p.cur /\ q.worker = p.worker /\ q.retired = p.retired
      /\ q.sealed = p.sealed /\ q.closed = p.closed /\ q.settled = p.settled /\ q.readers = p.readers
  BY <1>3 DEF LaneRecords, s
<1>6. q \in LaneRecords
  <2> DEFINE p1 == [p EXCEPT !.pending = p.pending + 1]
             p2 == [p1 EXCEPT !.wake = TRUE]
  <2>1. q = [p2 EXCEPT !.backlog = s]
    BY <1>3 DEF LaneRecords, s
  <2>2. p1 \in LaneRecords
    BY LaneFields, <1>1
  <2> HIDE DEF p1
  <2>3. p2 \in LaneRecords
    BY LaneFields, <2>2
  <2> HIDE DEF p2
  <2> QED BY LaneFields, <2>1, <2>3, <1>4
<1>7. ASSUME NEW u PROVE HasTask(q, u) <=> HasTask(p, u) \/ u = t
  <2>1. (\E i \in 1..Len(s) : s[i].task = u) <=>
          (\E i \in 1..Len(p.backlog) : p.backlog[i].task = u) \/ u = t
    BY <1>2, <1>4
  <2> QED BY <2>1, <1>5 DEF HasTask
<1>8. p.backlog # <<>> => s # <<>> /\ Head(s) = Head(p.backlog)
  BY <1>1, <1>4, EmptySeq, HeadTailProperties
<1>9. ASSUME NEW x, Holds(p, x) PROVE Holds(q, x)
  BY <1>5, <1>8, <1>9 DEF Holds, Ready
<1>10. ASSUME LaneShape(p), Takes(p), p.worker # "none" \/ t \in Admins PROVE LaneShape(q)
  <2>1. p.worker = "none" => \A i \in 1..Len(s) : s[i].task \in Admins
    BY <1>2, <1>4, <1>10 DEF LaneShape
  <2> QED BY <2>1, <1>5, <1>10 DEF LaneShape, Takes
<1>11. s # <<>> /\ (p.backlog = <<>> => Head(s) = e)
  BY <1>1, <1>2, <1>4, EmptySeq, HeadTailProperties
<1> QED BY <1>2, <1>4, <1>5, <1>6, <1>7, <1>9, <1>10, <1>11

LEMMA Unmarked ==
  ASSUME NEW p \in LaneRecords, NEW n \in Nat, NEW q, q = unmarkSent(p, n)
  PROVE  /\ q \in LaneRecords
         /\ q.ch = p.ch /\ q.cur = p.cur /\ q.worker = p.worker /\ q.retired = p.retired
         /\ q.sealed = p.sealed /\ q.closed = p.closed
         /\ q.readers = p.readers /\ q.pending = p.pending - 1
         /\ Len(q.backlog) = Len(p.backlog)
         /\ \A u : HasTask(q, u) <=> HasTask(p, u)
         /\ \A x : Holds(p, x) => Holds(q, x)
         /\ LaneShape(p) => LaneShape(q)
<1> DEFINE s == [i \in DOMAIN p.backlog |->
                  IF n > p.backlog[i].cutoff THEN [p.backlog[i] EXCEPT !.target = @ + 1]
                                             ELSE p.backlog[i]]
<1>1. p.backlog \in Seq(Entries) /\ p.settled \in Nat /\ p.pending \in Int
  BY DEF LaneRecords
<1>2. q = [p EXCEPT !.settled = @ + 1, !.pending = @ - 1, !.wake = @ \/ p.backlog # <<>>,
                    !.backlog = s]
  BY DEF unmarkSent, LaneRecords
<1>3. ASSUME NEW i \in 1..Len(p.backlog)
      PROVE  /\ s[i] \in Entries /\ s[i].task = p.backlog[i].task
             /\ s[i].fence = p.backlog[i].fence /\ s[i].target <= p.backlog[i].target + 1
  <2>1. p.backlog[i] \in Entries /\ i \in DOMAIN p.backlog
    BY <1>1
  <2>2. p.backlog[i].target \in Nat
    BY <2>1 DEF Entries
  <2> QED BY <2>1, <2>2 DEF Entries
<1>4. s \in Seq(Entries) /\ Len(s) = Len(p.backlog)
  <2>1. DOMAIN p.backlog = 1..Len(p.backlog) /\ Len(p.backlog) \in Nat
    BY <1>1
  <2>2. s \in [1..Len(p.backlog) -> Entries]
    BY <2>1, <1>3
  <2> QED BY <2>1, <2>2
<1> HIDE DEF s
<1>5. q.backlog = s /\ q.pending = p.pending - 1 /\ q.settled = p.settled + 1
      /\ q.ch = p.ch /\ q.cur = p.cur /\ q.worker = p.worker /\ q.retired = p.retired
      /\ q.sealed = p.sealed /\ q.closed = p.closed /\ q.readers = p.readers
  BY <1>2 DEF LaneRecords
<1>6. q \in LaneRecords
  <2>1. (p.wake \/ p.backlog # <<>>) \in BOOLEAN
    BY DEF LaneRecords
  <2> DEFINE w == p.wake \/ p.backlog # <<>>
             p1 == [p EXCEPT !.settled = p.settled + 1]
             p2 == [p1 EXCEPT !.pending = p.pending - 1]
             p3 == [p2 EXCEPT !.wake = w]
  <2>2. q = [p3 EXCEPT !.backlog = s]
    BY <1>2 DEF LaneRecords
  <2>0. p.settled + 1 \in Nat /\ p.pending - 1 \in Int
    BY <1>1
  <2>3. p1 \in LaneRecords
    BY LaneFields, <2>0
  <2> HIDE DEF p1
  <2>4. p2 \in LaneRecords
    BY LaneFields, <2>3, <2>0
  <2> HIDE DEF p2
  <2>5. p3 \in LaneRecords
    BY LaneFields, <2>4, <2>1
  <2> HIDE DEF p3
  <2> QED BY LaneFields, <2>2, <2>5, <1>4
<1>7. ASSUME NEW u PROVE HasTask(q, u) <=> HasTask(p, u)
  BY <1>3, <1>4, <1>5 DEF HasTask
<1>8. p.backlog # <<>> => /\ s # <<>> /\ Head(s).task = Head(p.backlog).task
                          /\ Head(s).fence = Head(p.backlog).fence
                          /\ Head(s).target <= Head(p.backlog).target + 1
                          /\ Head(s).target \in Nat /\ Head(p.backlog).target \in Nat
  <2> SUFFICES ASSUME p.backlog # <<>> PROVE
         /\ s # <<>> /\ Head(s).task = Head(p.backlog).task
         /\ Head(s).fence = Head(p.backlog).fence
         /\ Head(s).target <= Head(p.backlog).target + 1
         /\ Head(s).target \in Nat /\ Head(p.backlog).target \in Nat
    OBVIOUS
  <2>1. 1 \in 1..Len(p.backlog) /\ s # <<>> /\ Head(p.backlog) = p.backlog[1] /\ Head(s) = s[1]
    BY <1>1, <1>4, EmptySeq, HeadTailProperties
  <2>2. s[1] \in Entries /\ p.backlog[1] \in Entries
    BY <2>1, <1>1, <1>3
  <2>3. s[1].target \in Nat /\ p.backlog[1].target \in Nat
    BY <2>2 DEF Entries
  <2> QED BY <2>1, <2>3, <1>3
<1>9. ASSUME NEW x, Holds(p, x) PROVE Holds(q, x)
  <2>1. CASE p.worker \in {"barrier", "parked"} /\ p.cur = x
    BY <2>1, <1>5 DEF Holds
  <2>2. CASE p.worker = "loop" /\ Ready(p) /\ Head(p.backlog).task = x
    <3>1. p.backlog # <<>> /\ ~Head(p.backlog).fence /\ p.settled >= Head(p.backlog).target
      BY <2>2 DEF Ready
    <3>2. s # <<>> /\ ~Head(s).fence /\ p.settled + 1 >= Head(s).target /\ Head(s).task = x
      BY <3>1, <2>2, <1>1, <1>8
    <3> QED BY <3>2, <2>2, <1>5 DEF Holds, Ready
  <2> QED BY <1>9, <2>1, <2>2 DEF Holds
<1>10. ASSUME LaneShape(p) PROVE LaneShape(q)
  <2>1. p.backlog = <<>> => s = <<>>
    BY <1>4, EmptySeq
  <2>2. p.worker = "none" => \A i \in 1..Len(s) : s[i].task \in Admins
    BY <1>3, <1>4, <1>10 DEF LaneShape
  <2> QED BY <2>1, <2>2, <1>5, <1>10 DEF LaneShape
<1> QED BY <1>4, <1>5, <1>6, <1>7, <1>9, <1>10

LEMMA Fenced ==
  ASSUME NEW p \in LaneRecords, NEW q, q = PassedFence(p)
  PROVE  /\ q \in LaneRecords
         /\ q.ch = p.ch /\ q.cur = p.cur /\ q.worker = p.worker /\ q.retired = p.retired
         /\ q.sealed = p.sealed /\ q.closed = p.closed
         /\ q.readers = p.readers /\ q.pending = p.pending
         /\ Len(q.backlog) = Len(p.backlog)
         /\ \A i \in 1..Len(p.backlog) : q.backlog[i].task = p.backlog[i].task
         /\ Ready(p) => q = p
<1>1. CASE p.backlog # <<>> /\ Head(p.backlog).fence /\ SubmitFence
  <2> DEFINE e == [p.backlog[1] EXCEPT !.fence = FALSE, !.cutoff = p.admitted, !.target = p.admitted]
             s == [p.backlog EXCEPT ![1] = e]
  <2>1. p.backlog \in Seq(Entries) /\ p.admitted \in Nat
    BY DEF LaneRecords
  <2>2. p.backlog[1] \in Entries
    BY <1>1, <2>1, EmptySeq
  <2>3. e \in Entries /\ e.task = p.backlog[1].task
    BY <2>1, <2>2 DEF Entries
  <2>4. q = [p EXCEPT !.backlog = s]
    BY <1>1 DEF PassedFence, LaneRecords
  <2> HIDE DEF e
  <2>5. s \in Seq(Entries) /\ Len(s) = Len(p.backlog)
        /\ \A i \in 1..Len(p.backlog) : s[i].task = p.backlog[i].task
    BY <2>1, <2>3, <1>1, EmptySeq
  <2> HIDE DEF s
  <2>6. q.backlog = s /\ q \in LaneRecords
    BY <2>4, <2>5 DEF LaneRecords
  <2>7. ~Ready(p)
    BY <1>1 DEF Ready
  <2> QED BY <2>4, <2>5, <2>6, <2>7 DEF LaneRecords
<1>2. CASE ~(p.backlog # <<>> /\ Head(p.backlog).fence /\ SubmitFence)
  BY <1>2 DEF PassedFence
<1> QED BY <1>1, <1>2

-----------------------------------------------------------------------------
(* What keeps each part of the invariant. *)

LEMMA OtherClient ==
  ASSUME NEW d \in Clients, ClientInv(d), setup' = setup,
         pc'[d] = pc[d], phase'[d] = phase[d], at'[d] = at[d],
         d \in registered => d \in registered',
         at[d] \in Lanes => (lane[at[d]].worker # "none" => lane'[at[d]].worker # "none"),
         pc[d] \in Submitting \ {"gate"} /\ at[d] \in Lanes
             => /\ lane'[at[d]].closed => lane[at[d]].closed
                /\ Dynamic /\ d \in lane[at[d]].readers => d \in lane'[at[d]].readers,
         d \in lifecycle => d \in lifecycle',
         barriers[RouteOf[d]] = d => barriers'[RouteOf[d]] = d,
         lifeSealed => lifeSealed'
  PROVE  ClientInv(d)'
BY DEF ClientInv, Submitting, Releasing, Dynamic

LEMMA SameSending ==
  ASSUME NEW c \in Clients, NEW l,
         \A d \in Clients \ {c} : pc'[d] = pc[d] /\ at'[d] = at[d],
         (pc[c] \in {"send", "blocked"} /\ at[c] = l) <=> (pc'[c] \in {"send", "blocked"} /\ at'[c] = l)
  PROVE  Sending(l)' = Sending(l)
BY DEF Sending

LEMMA SameLanes ==
  ASSUME LanesInv, setup' = setup, lane' = lane, stopping => stopping',
         \A l \in Lanes : Sending(l)' = Sending(l)
  PROVE  LanesInv'
BY DEF LanesInv, Pending, Dynamic

LEMMA OneLane ==
  ASSUME LanesInv, setup' = setup, stopping => stopping', NEW l \in Lanes,
         \A m \in Lanes \ {l} : lane'[m] = lane[m] /\ Sending(m)' = Sending(m),
         LaneShape(lane'[l]), Pending(l)', lane'[l].retired => Dynamic,
         lane'[l].closed => lane'[l].retired \/ stopping'
  PROVE  LanesInv'
<1> SUFFICES ASSUME NEW m \in Lanes
             PROVE  (/\ LaneShape(lane[m]) /\ Pending(m)
                     /\ lane[m].retired => Dynamic
                     /\ lane[m].closed => lane[m].retired \/ stopping)'
  BY DEF LanesInv
<1>1. CASE m = l
  BY <1>1 DEF Dynamic
<1>2. CASE m # l
  BY <1>2 DEF LanesInv, Pending, Dynamic
<1> QED BY <1>1, <1>2

(* p may become q while x has its barriers out. *)
Holding(p, q, x) ==
    /\ HasTask(q, x) <=> HasTask(p, x)
    /\ p.worker = "parked" /\ p.cur = x => q.worker = "parked" /\ q.cur = x
    /\ Holds(p, x) => Holds(q, x)

LEMMA LanesFinite ==
  \A x : /\ IsFiniteSet(Barred(x)) /\ Cardinality(Barred(x)) \in Nat
         /\ IsFiniteSet(ParkedOn(x)) /\ Cardinality(ParkedOn(x)) \in Nat
         /\ IsFiniteSet(Barred(x)') /\ Cardinality(Barred(x)') \in Nat
         /\ IsFiniteSet(ParkedOn(x)') /\ Cardinality(ParkedOn(x)') \in Nat
<1> TAKE x
<1>1. Barred(x) \subseteq Lanes /\ ParkedOn(x) \subseteq Lanes
      /\ Barred(x)' \subseteq Lanes /\ ParkedOn(x)' \subseteq Lanes
  BY DEF Barred, ParkedOn
<1>2. IsFiniteSet(Lanes)
  BY AsyncAssumption
<1> QED BY <1>1, <1>2, FS_Subset, FS_CardinalityType

LEMMA CountKept ==
  ASSUME NEW x \in Admins, BarriersCounted(x),
         apc'[x] # "done" => apc[x] # "done",
         sec'[x].expected = sec[x].expected, sec'[x].parked = sec[x].parked,
         sec[x].expected \in Nat, sec[x].parked \in Nat,
         apc[x] # "done" => \A l \in Lanes : Holding(lane[l], lane'[l], x)
  PROVE  BarriersCounted(x)'
<1> SUFFICES ASSUME apc'[x] # "done"
             PROVE  /\ Cardinality(Barred(x)') <= sec'[x].expected
                    /\ sec'[x].parked <= Cardinality(ParkedOn(x)')
  BY DEF BarriersCounted
<1>1. Barred(x)' = Barred(x) /\ ParkedOn(x) \subseteq ParkedOn(x)'
  BY DEF Holding, Barred, ParkedOn
<1>2. Cardinality(ParkedOn(x)) <= Cardinality(ParkedOn(x)')
  BY <1>1, FS_Subset, LanesFinite
<1>3. Cardinality(Barred(x)) <= sec[x].expected /\ sec[x].parked <= Cardinality(ParkedOn(x))
  BY DEF BarriersCounted
<1> QED BY <1>1, <1>2, <1>3, LanesFinite

LEMMA CoverKept ==
  ASSUME Covered, setup' = setup, apc' = apc, stopped => stopped',
         \A x \in Admins : sec'[x].lanes = sec[x].lanes,
         \A l \in Lanes : /\ Quiet(lane[l]) => Quiet(lane'[l])
                          /\ Listed(l) => Listed(l)' \/ Quiet(lane'[l])
                          /\ \A x \in Admins : apc[x] # "done" => Holding(lane[l], lane'[l], x)
  PROVE  Covered'
<1>2. ~stopped' => \A l \in Lanes : Quiet(lane'[l]) \/ Listed(l)'
  BY DEF Covered
<1>3. ASSUME NEW x \in Admins, apc[x] \in {"running", "barriers", "parking"}, ~stopped',
             NEW l \in Lanes
      PROVE  Quiet(lane'[l]) \/ l \in sec'[x].lanes \/ l \in Barred(x)'
  BY <1>3 DEF Covered, Barred, Holding
<1>4. ASSUME NEW x \in Admins, apc[x] = "fn" \/ (apc[x] = "ready" /\ ~stopped'),
             NEW l \in Lanes
      PROVE  Quiet(lane'[l]) \/ Holds(lane'[l], x)
  BY <1>4 DEF Covered, Holding
<1> QED BY <1>2, <1>3, <1>4 DEF Covered

LEMMA SameBarriers ==
  ASSUME IInv, setup' = setup, apc' = apc, stopped => stopped',
         \A x \in Admins : /\ sec'[x].lanes = sec[x].lanes /\ sec'[x].parked = sec[x].parked
                           /\ sec'[x].expected = sec[x].expected,
         \A l \in Lanes : /\ Quiet(lane[l]) => Quiet(lane'[l])
                          /\ Listed(l) => Listed(l)' \/ Quiet(lane'[l])
                          /\ \A x \in Admins : apc[x] # "done" => Holding(lane[l], lane'[l], x)
  PROVE  Covered' /\ \A x \in Admins : BarriersCounted(x)'
<1>1. Covered'
  BY CoverKept DEF IInv
<1>2. \A x \in Admins : sec[x].expected \in Nat /\ sec[x].parked \in Nat /\ BarriersCounted(x)
  BY DEF IInv, TypeOK, SectionTypes, SectionRecords
<1>3. ASSUME NEW x \in Admins PROVE BarriersCounted(x)'
  BY <1>2, CountKept
<1> QED BY <1>1, <1>3

LEMMA SameHolding == \A p, x : Holding(p, p, x)
BY DEF Holding

(* All lanes and the section's sets stay as they are. *)
LEMMA LanesUnmoved ==
  ASSUME IInv, UNCHANGED <<setup, lane, queues, apc>>, stopped => stopped',
         \A x \in Admins : /\ sec'[x].lanes = sec[x].lanes /\ sec'[x].parked = sec[x].parked
                           /\ sec'[x].expected = sec[x].expected
  PROVE  Covered' /\ (\A x \in Admins : BarriersCounted(x)') /\ QueuesInv'
<1>1. \A l \in Lanes : Listed(l)' = Listed(l)
  BY DEF Listed, Dynamic, Laid
<1>2. Covered' /\ \A x \in Admins : BarriersCounted(x)'
  BY <1>1, SameBarriers, SameHolding
<1>3. QueuesInv'
  BY DEF IInv, QueuesInv, Dynamic, Laid
<1> QED BY <1>2, <1>3

LEMMA StillKept ==
  ASSUME \A c \in Owed : Kept(c), finished \subseteq finished',
         \A c \in Clients, l \in Lanes : OnLane(lane[l], c) => OnLane(lane'[l], c) \/ c \in finished',
         \A c \in Clients, x \in Admins :
             Postponed(sec[x], c) => Postponed(sec'[x], c) \/ c \in finished',
         \A c \in Owed' : c \in Clients /\ (c \in Owed \/ Kept(c)')
  PROVE  \A c \in Owed' : Kept(c)'
BY DEF Kept

LEMMA SameSections ==
  ASSUME \A x \in Admins : SectionInv(x), UNCHANGED <<apc, active>>,
         \A x \in Admins : /\ sec'[x].lanes = sec[x].lanes /\ sec'[x].running = sec[x].running
                           /\ sec'[x].draining = sec[x].draining
                           /\ apc[x] \notin Published => sec'[x].deferred = sec[x].deferred,
         \A c \in Clients : pc'[c] = "offlane" => pc[c] = "offlane" \/ active = None
  PROVE  \A x \in Admins : SectionInv(x)'
<1> SUFFICES ASSUME NEW x \in Admins PROVE SectionInv(x)'
  OBVIOUS
<1>1. Sections' = Sections
  BY DEF Sections
<1>2. SectionInv(x)
  OBVIOUS
<1>3. active = None => apc[x] \notin Published
  BY <1>2, AsyncAssumption DEF SectionInv
<1>4. apc'[x] = apc[x] /\ active' = active /\ sec'[x].lanes = sec[x].lanes
      /\ sec'[x].running = sec[x].running /\ sec'[x].draining = sec[x].draining
      /\ (apc[x] \notin Published => sec'[x].deferred = sec[x].deferred)
  OBVIOUS
<1>5. (apc[x] = "running" => \A c \in Clients : pc'[c] = "offlane" => c \in sec'[x].running)
      /\ (apc[x] \in {"barriers", "parking", "ready", "fn"} => \A c \in Clients : pc'[c] # "offlane")
  BY <1>2, <1>3, <1>4 DEF SectionInv, Published
<1> QED BY <1>1, <1>2, <1>4, <1>5 DEF SectionInv

LEMMA SameStop ==
  ASSUME StopInv, UNCHANGED <<stopping, stopped, stop, lifeSealed, apc>>,
         stopped => registered' \subseteq registered /\ handing' \subseteq handing,
         \A l \in Lanes : lane[l].worker \in {"none", "exited"} /\ stopping =>
                          lane'[l].worker \in {"none", "exited"}
  PROVE  StopInv'
<1>1. Sections' = Sections
  BY DEF Sections
<1>2. SubmitFence => SubmitFence'
  BY DEF SubmitFence
<1> QED BY <1>1, <1>2 DEF StopInv

(* A step of a client's: it may change the lane l. *)
LEMMA ClientStep ==
  ASSUME IInv, TypeOK', NEW c \in Clients, NEW l \in Lanes,
         UNCHANGED <<setup, queues, control, apc, active, lifeSealed>>,
         \A m \in Lanes \ {l} : lane'[m] = lane[m] /\ Sending(m)' = Sending(m),
         lane'[l].worker = lane[l].worker, lane'[l].closed = lane[l].closed,
         lane'[l].retired = lane[l].retired, lane[l].readers \ {c} \subseteq lane'[l].readers,
         \A x \in Admins : Holding(lane[l], lane'[l], x),
         \A d \in Clients : OnLane(lane[l], d) => OnLane(lane'[l], d),
         LaneShape(lane'[l]), Pending(l)',
         \A x \in Admins : /\ sec'[x].lanes = sec[x].lanes /\ sec'[x].parked = sec[x].parked
                           /\ sec'[x].expected = sec[x].expected
                           /\ sec'[x].running = sec[x].running
                           /\ sec'[x].draining = sec[x].draining
                           /\ apc[x] \notin Published => sec'[x].deferred = sec[x].deferred
                           /\ \A d \in Clients : Postponed(sec[x], d) => Postponed(sec'[x], d),
         \A d \in Clients \ {c} : /\ pc'[d] = pc[d] /\ phase'[d] = phase[d] /\ at'[d] = at[d]
                                  /\ d \in registered => d \in registered'
                                  /\ d \in lifecycle => d \in lifecycle'
                                  /\ barriers[RouteOf[d]] = d => barriers'[RouteOf[d]] = d,
         stopped => registered' \subseteq registered /\ handing' \subseteq handing,
         pc'[c] = "offlane" => pc[c] = "offlane" \/ active = None,
         ClientInv(c)',
         finished \subseteq finished', accepted' \subseteq accepted \cup {c},
         c \in Owed' => c \in Owed \/ Kept(c)'
  PROVE  IInv'
<1>1. LanesInv /\ QueuesInv /\ StopInv /\ Covered /\ TypeOK /\ LaneShape(lane[l])
      /\ (lane[l].retired => Dynamic) /\ (lane[l].closed => lane[l].retired \/ stopping)
  BY DEF IInv, LanesInv
<1>2. LanesInv'
  BY <1>1, OneLane DEF control
<1>3. QueuesInv'
  <2>1. \A m \in Lanes : lane'[m].worker = lane[m].worker
    OBVIOUS
  <2>2. \A k \in Keys : queues[k] # None => queues[k] \in Lanes
    BY <1>1 DEF TypeOK, RoutingTypes
  <2>3. queues' = queues /\ Dynamic' = Dynamic /\ Laid' = Laid
    BY DEF Dynamic, Laid
  <2> QED BY <1>1, <2>1, <2>2, <2>3 DEF QueuesInv
<1>4. StopInv'
  BY <1>1, SameStop DEF control
<1>5. Covered' /\ \A x \in Admins : BarriersCounted(x)'
  <2>1. \A m \in Lanes : Listed(m)' = Listed(m)
    BY DEF Listed, Dynamic, Laid
  <2>2. \A m \in Lanes : /\ Quiet(lane[m]) => Quiet(lane'[m])
                         /\ \A x \in Admins : Holding(lane[m], lane'[m], x)
    BY SameHolding DEF Quiet
  <2> QED BY <2>1, <2>2, SameBarriers DEF control
<1>6. ASSUME NEW d \in Clients PROVE ClientInv(d)'
  <2>1. CASE d # c
    <3>1. ClientInv(d)
      BY DEF IInv
    <3>2. at[d] \in Lanes => /\ lane'[at[d]].worker = lane[at[d]].worker
                             /\ lane'[at[d]].closed = lane[at[d]].closed
                             /\ d \in lane[at[d]].readers => d \in lane'[at[d]].readers
      BY <2>1
    <3> QED BY <2>1, <3>1, <3>2, OtherClient
  <2> QED BY <2>1
<1>7. \A x \in Admins : SectionInv(x)'
  <2>1. \A x \in Admins : SectionInv(x)
    BY DEF IInv
  <2>2. \A d \in Clients : pc'[d] = "offlane" => pc[d] = "offlane" \/ active = None
    OBVIOUS
  <2> QED BY <2>1, <2>2, SameSections
<1>8. \A d \in Owed' : Kept(d)'
  <2>1. \A d \in Owed : Kept(d)
    BY DEF IInv
  <2>2. \A d \in Clients, m \in Lanes : OnLane(lane[m], d) => OnLane(lane'[m], d)
    OBVIOUS
  <2>3. \A d \in Owed' : d \in Clients /\ (d \in Owed \/ Kept(d)')
    BY <1>1, AsyncAssumption DEF Owed, TypeOK, ClientTypes
  <2> QED BY <2>1, <2>2, <2>3, StillKept
<1> QED BY <1>2, <1>3, <1>4, <1>5, <1>6, <1>7, <1>8 DEF IInv

-----------------------------------------------------------------------------
(* The steps of a client that leave the lanes alone. *)

LEMMA ClientMoves ==
  ASSUME IInv, NEW c \in Clients,
         UNCHANGED <<setup, lane, queues, barriers, control, cleanup, section, made,
                     accepted, ticket>>,
         ClientTypes', ClientInv(c)',
         \A d \in Clients \ {c} : /\ pc'[d] = pc[d] /\ phase'[d] = phase[d] /\ at'[d] = at[d]
                                  /\ d \in registered => d \in registered',
         pc[c] \notin {"send", "blocked"} /\ pc'[c] \notin {"send", "blocked"},
         pc'[c] = "done" => c \notin Owners, pc'[c] # "offlane",
         stopped => registered' \subseteq registered /\ handing' \subseteq handing
  PROVE  IInv'
<1>1. TypeOK'
  BY DEF IInv, TypeOK, RoutingTypes, StopTypes, SectionTypes, control, cleanup, section, made
<1>2. PICK l \in Lanes : TRUE
  BY AsyncAssumption
<1>3. \A m \in Lanes : Sending(m)' = Sending(m)
  BY SameSending
<1>4. LaneShape(lane'[l]) /\ Pending(l)'
  BY <1>3 DEF IInv, LanesInv, Pending
<1>5. /\ UNCHANGED <<apc, active, lifeSealed, sec, lifecycle, finished, barriers, accepted, lane>>
      /\ UNCHANGED <<setup, queues, control>>
  BY DEF cleanup, section, made
<1>6. c \in Owed' => c \in Owed
  BY <1>5 DEF Owed
<1> QED BY <1>1, <1>3, <1>4, <1>5, <1>6, SameHolding, ClientStep

LEMMA Failed ==
  ASSUME ClientTypes, QueuesInv, setup \in Setups, NEW c \in Clients, Fail(c),
         setup' = setup, \A l \in Lanes : lane'[l].worker = lane[l].worker
  PROVE  /\ pc' \in [Clients -> ClientSteps] /\ phase' \in [Clients -> {"submit", "release"}]
         /\ at' \in [Clients -> Lanes \cup Clients \cup {None}] /\ registered' \subseteq registered
         /\ \A d \in Clients \ {c} : /\ pc'[d] = pc[d] /\ phase'[d] = phase[d] /\ at'[d] = at[d]
                                     /\ d \in registered => d \in registered'
         /\ pc'[c] \in {"check", "register", "done"}
         /\ pc'[c] = "done" => c \notin Owners
         /\ ClientInv(c)'
<1>1. RouteOf[c] \in Keys /\ ShardOf[RouteOf[c]] \in Lanes /\ None \notin Lanes
      /\ (~Dynamic => ShardOf[RouteOf[c]] \in Laid)
  BY AsyncAssumption DEF Dynamic, Laid
<1>2. ~Dynamic => lane'[ShardOf[RouteOf[c]]].worker # "none"
  BY <1>1 DEF QueuesInv
<1>3. CASE c \in Owners
  <2>1. phase' = [phase EXCEPT ![c] = "release"]
        /\ pc' = [pc EXCEPT ![c] = IF Dynamic THEN "check" ELSE "register"]
        /\ at' = [at EXCEPT ![c] = IF Dynamic THEN None ELSE ShardOf[RouteOf[c]]]
        /\ registered' = registered
    BY <1>3 DEF Fail, Goto
  <2>2. phase'[c] = "release" /\ pc'[c] = (IF Dynamic THEN "check" ELSE "register")
        /\ at'[c] = (IF Dynamic THEN None ELSE ShardOf[RouteOf[c]])
    BY <2>1 DEF ClientTypes
  <2>3. ClientInv(c)'
    BY <2>2, <1>1, <1>2 DEF ClientInv, Submitting, Releasing
  <2>4. /\ pc' \in [Clients -> ClientSteps] /\ phase' \in [Clients -> {"submit", "release"}]
        /\ at' \in [Clients -> Lanes \cup Clients \cup {None}]
        /\ \A d \in Clients \ {c} : pc'[d] = pc[d] /\ phase'[d] = phase[d] /\ at'[d] = at[d]
    BY <2>1, <1>1 DEF ClientTypes, ClientSteps
  <2> QED BY <1>3, <2>1, <2>2, <2>3, <2>4
<1>4. CASE c \notin Owners
  <2>1. phase' = phase /\ pc' = [pc EXCEPT ![c] = "done"] /\ at' = [at EXCEPT ![c] = None]
        /\ registered' = registered \ {c}
    BY <1>4 DEF Fail, Goto
  <2>2. pc'[c] = "done" /\ at'[c] = None
    BY <2>1 DEF ClientTypes
  <2>3. ClientInv(c)'
    BY <2>2, <1>1 DEF ClientInv, Submitting, Releasing
  <2>4. /\ pc' \in [Clients -> ClientSteps] /\ phase' \in [Clients -> {"submit", "release"}]
        /\ at' \in [Clients -> Lanes \cup Clients \cup {None}]
        /\ \A d \in Clients \ {c} : pc'[d] = pc[d] /\ phase'[d] = phase[d] /\ at'[d] = at[d]
    BY <2>1 DEF ClientTypes, ClientSteps
  <2> QED BY <1>4, <2>1, <2>2, <2>3, <2>4
<1> QED BY <1>3, <1>4

\* A move of c from step to step, and to a lane.
LEMMA Moved ==
  ASSUME ClientTypes, NEW c \in Clients, NEW s \in ClientSteps, pc' = [pc EXCEPT ![c] = s]
  PROVE  /\ pc' \in [Clients -> ClientSteps] /\ pc'[c] = s
         /\ \A d \in Clients \ {c} : pc'[d] = pc[d]
BY DEF ClientTypes

LEMMA MovedAt ==
  ASSUME ClientTypes, NEW c \in Clients, NEW a \in Lanes \cup Clients \cup {None},
         at' = [at EXCEPT ![c] = a]
  PROVE  /\ at' \in [Clients -> Lanes \cup Clients \cup {None}] /\ at'[c] = a
         /\ \A d \in Clients \ {c} : at'[d] = at[d]
BY DEF ClientTypes

LEMMA BeginKeeps == ASSUME IInv, NEW c \in Clients, Begin(c), setup' = setup PROVE IInv'
<1>1. ClientTypes /\ QueuesInv /\ setup \in Setups /\ ClientInv(c) /\ StopInv /\ LanesInv /\ StopTypes
  BY DEF IInv, TypeOK
<1>2. pc[c] = "idle" /\ earlier' = [earlier EXCEPT ![c] = Returned(RouteOf[c])]
      /\ UNCHANGED <<ticket, handing, accepted, lane, queues, barriers, control, cleanup, section, made>>
  BY DEF Begin
<1>3. earlier' \in [Clients -> SUBSET Clients]
  BY <1>1, <1>2 DEF ClientTypes, Returned
<1>4. CASE stopped
  <2>1. Fail(c)
    BY <1>4 DEF Begin
  <2>2. ClientTypes'
    BY <1>1, <1>2, <1>3, <2>1, Failed DEF ClientTypes
  <2> QED BY <1>1, <1>2, <2>1, <2>2, Failed, ClientMoves
<1>5. CASE ~stopped
  <2> DEFINE s == IF Dynamic THEN "check" ELSE "fence"
             a == IF Dynamic THEN None ELSE ShardOf[RouteOf[c]]
  <2>1. registered' = registered \cup {c} /\ pc' = [pc EXCEPT ![c] = s]
        /\ at' = [at EXCEPT ![c] = a] /\ phase' = phase
    BY <1>5 DEF Begin, Goto
  <2>2. RouteOf[c] \in Keys /\ ShardOf[RouteOf[c]] \in Lanes /\ None \notin Lanes
        /\ (~Dynamic => ShardOf[RouteOf[c]] \in Laid)
    BY AsyncAssumption, <1>1 DEF Dynamic, Laid
  <2>3. s \in ClientSteps /\ a \in Lanes \cup Clients \cup {None}
    BY <2>2 DEF ClientSteps
  <2>4. ~Dynamic => lane[a].worker # "none" /\ ~lane[a].closed
    <3>1. ~stopping
      BY <1>1, <1>5 DEF StopInv, SubmitFence
    <3> QED BY <2>2, <3>1, <1>1 DEF QueuesInv, LanesInv
  <2>5. (s = "check" /\ Dynamic /\ a = None) \/ (s = "fence" /\ ~Dynamic /\ a \in Lanes)
    BY <2>2
  <2> HIDE DEF s, a
  <2>6. pc'[c] = s /\ at'[c] = a /\ phase'[c] = phase[c] /\ c \in registered'
        /\ (\A d \in Clients \ {c} : /\ pc'[d] = pc[d] /\ phase'[d] = phase[d] /\ at'[d] = at[d]
                                     /\ d \in registered => d \in registered')
        /\ pc' \in [Clients -> ClientSteps] /\ at' \in [Clients -> Lanes \cup Clients \cup {None}]
    BY <1>1, <2>1, <2>3, Moved, MovedAt
  <2>7. ClientTypes'
    BY <1>1, <1>2, <1>3, <2>1, <2>6 DEF ClientTypes
  <2>8. phase[c] = "submit" /\ lane' = lane /\ Dynamic' = Dynamic
    BY <1>1, <1>2 DEF ClientInv, Dynamic
  <2>9. ClientInv(c)'
    BY <2>2, <2>4, <2>5, <2>6, <2>8 DEF ClientInv, Submitting, Releasing
  <2> QED BY <1>2, <1>5, <2>5, <2>6, <2>7, <2>9, ClientMoves
<1> QED BY <1>4, <1>5

\* c goes on to step s, with the lane or the barrier a in hand.
LEMMA Goes ==
  ASSUME IInv, NEW c \in Clients, NEW s \in ClientSteps,
         NEW a \in Lanes \cup Clients \cup {None},
         pc' = [pc EXCEPT ![c] = s], at' = [at EXCEPT ![c] = a],
         UNCHANGED <<setup, phase, registered, lane, queues, barriers, control, cleanup, section,
                     made, accepted, ticket, earlier>>,
         handing' \subseteq Clients, stopped => handing' \subseteq handing,
         pc[c] \notin {"send", "blocked"}, s \notin {"idle", "send", "blocked", "offlane", "done"},
         s \in Submitting => phase[c] = "submit",
         s \in Releasing => phase[c] = "release",
         s \in Submitting \cup {"check", "read", "barrier", "create"} /\ phase[c] = "submit"
             => c \in registered,
         s \in Submitting \cup {"register", "enqueue", "late"} => a \in Lanes,
         s \in Submitting \ {"gate"} => /\ ~lane[a].closed
                                        /\ Dynamic => c \in lane[a].readers,
         a \in Lanes => lane[a].worker # "none"
  PROVE  IInv'
<1>1. ClientTypes
  BY DEF IInv, TypeOK
<1>2. pc'[c] = s /\ at'[c] = a /\ phase'[c] = phase[c]
      /\ (\A d \in Clients \ {c} : /\ pc'[d] = pc[d] /\ phase'[d] = phase[d] /\ at'[d] = at[d]
                                   /\ d \in registered => d \in registered')
      /\ pc' \in [Clients -> ClientSteps] /\ at' \in [Clients -> Lanes \cup Clients \cup {None}]
  BY <1>1, Moved, MovedAt
<1>3. ClientTypes'
  BY <1>1, <1>2 DEF ClientTypes
<1>4. ClientInv(c)'
  BY <1>2 DEF ClientInv, Dynamic
<1> QED BY <1>2, <1>3, <1>4, ClientMoves

LEMMA Stays == ASSUME ClientTypes, NEW c \in Clients, at' = at
               PROVE  at' = [at EXCEPT ![c] = at[c]] /\ at[c] \in Lanes \cup Clients \cup {None}
BY DEF ClientTypes

LEMMA FailsMoving ==
  ASSUME IInv, NEW c \in Clients, Fail(c), pc[c] \notin {"send", "blocked"},
         UNCHANGED <<setup, lane, queues, barriers, control, cleanup, section, made,
                     accepted, ticket, handing, earlier>>
  PROVE  IInv'
<1>1. ClientTypes /\ QueuesInv /\ setup \in Setups
  BY DEF IInv, TypeOK
<1>2. /\ pc' \in [Clients -> ClientSteps] /\ phase' \in [Clients -> {"submit", "release"}]
      /\ at' \in [Clients -> Lanes \cup Clients \cup {None}] /\ registered' \subseteq registered
      /\ \A d \in Clients \ {c} : /\ pc'[d] = pc[d] /\ phase'[d] = phase[d] /\ at'[d] = at[d]
                                  /\ d \in registered => d \in registered'
      /\ pc'[c] \in {"check", "register", "done"}
      /\ pc'[c] = "done" => c \notin Owners
      /\ ClientInv(c)'
  BY <1>1, Failed
<1>3. ClientTypes'
  BY <1>1, <1>2 DEF ClientTypes
<1> QED BY <1>2, <1>3, ClientMoves

LEMMA RefusedKeeps ==
  ASSUME IInv, NEW c \in Clients, Refused(c), pc[c] \notin {"send", "blocked"},
         UNCHANGED <<setup, lane, queues, barriers, control, cleanup, section, made,
                     accepted, ticket, handing, earlier>>
  PROVE  IInv'
<1>1. CASE phase[c] = "submit"
  BY <1>1, FailsMoving DEF Refused
<1>2. CASE phase[c] # "submit"
  <2>1. pc' = [pc EXCEPT ![c] = "stopped"] /\ phase' = phase /\ registered' = registered /\ at' = at
    BY <1>2 DEF Refused, Goto
  <2>2. ClientTypes /\ ClientInv(c)
    BY DEF IInv, TypeOK
  <2>3. at' = [at EXCEPT ![c] = at[c]] /\ at[c] \in Lanes \cup Clients \cup {None}
    BY <2>1, <2>2, Stays
  <2>4. "stopped" \in ClientSteps /\ handing' \subseteq Clients
    BY <2>2 DEF ClientSteps, ClientTypes
  <2>5. at[c] \in Lanes => lane[at[c]].worker # "none"
    BY <2>2 DEF ClientInv
  <2> QED BY <2>1, <2>3, <2>4, <2>5, Goes DEF Submitting, Releasing
<1> QED BY <1>1, <1>2

LEMMA CheckKeeps == ASSUME IInv, NEW c \in Clients, Check(c), setup' = setup PROVE IInv'
<1>1. ClientTypes /\ ClientInv(c) /\ pc[c] = "check"
  BY DEF IInv, TypeOK, Check
<1>2. CASE stopped
  BY <1>1, <1>2, RefusedKeeps DEF Check
<1>3. CASE ~stopped
  <2>1. pc' = [pc EXCEPT ![c] = "read"] /\ phase' = phase /\ registered' = registered /\ at' = at
        /\ UNCHANGED <<ticket, handing, accepted, earlier, lane, queues, barriers, control, cleanup,
                       section, made>>
    BY <1>3 DEF Check, Goto
  <2>2. at' = [at EXCEPT ![c] = at[c]] /\ at[c] \in Lanes \cup Clients \cup {None}
    BY <1>1, <2>1, Stays
  <2>3. "read" \in ClientSteps /\ handing' \subseteq Clients /\ (phase[c] = "submit" => c \in registered)
        /\ (at[c] \in Lanes => lane[at[c]].worker # "none")
    BY <1>1, <2>1 DEF ClientSteps, ClientTypes, ClientInv
  <2> QED BY <1>1, <2>1, <2>2, <2>3, Goes DEF Submitting, Releasing
<1> QED BY <1>2, <1>3

LEMMA FoundKeeps ==
  ASSUME IInv, NEW c \in Clients, NEW l \in Lanes, Found(c, l),
         pc[c] \in {"read", "create"}, lane[l].worker # "none",
         UNCHANGED <<setup, lane, queues, barriers, control, cleanup, section, made,
                     accepted, ticket, handing, earlier>>
  PROVE  IInv'
<1> DEFINE s == IF phase[c] = "submit" THEN "gate" ELSE "register"
<1>1. ClientTypes /\ ClientInv(c) /\ at' = [at EXCEPT ![c] = l] /\ pc' = [pc EXCEPT ![c] = s]
      /\ phase' = phase /\ registered' = registered
  BY DEF IInv, TypeOK, Found, Goto
<1>2. s \in ClientSteps /\ s \in {"gate", "register"} /\ (s = "gate" => phase[c] = "submit")
      /\ (s = "register" => phase[c] = "release") /\ handing' \subseteq Clients
  BY <1>1 DEF ClientSteps, ClientTypes
<1>3. phase[c] = "submit" => c \in registered
  BY <1>1 DEF ClientInv
<1> HIDE DEF s
<1> QED BY <1>1, <1>2, <1>3, Goes DEF Submitting, Releasing

LEMMA ReadKeeps == ASSUME IInv, NEW c \in Clients, Read(c), setup' = setup PROVE IInv'
<1> DEFINE k == RouteOf[c]
<1>1. ClientTypes /\ ClientInv(c) /\ pc[c] = "read" /\ QueuesInv /\ k \in Keys /\ RoutingTypes
      /\ None \notin Lanes /\ Clients \cap Lanes = {}
  BY AsyncAssumption DEF IInv, TypeOK, Read
<1>2. UNCHANGED <<setup, lane, queues, barriers, control, cleanup, section, made,
                  accepted, ticket, handing, earlier>>
  BY DEF Read
<1>3. CASE Live(queues[k])
  <2>1. Found(c, queues[k]) /\ queues[k] \in Lanes
    BY <1>1, <1>3 DEF Read, Live, RoutingTypes
  <2>2. lane[queues[k]].worker # "none"
    BY <1>1, <1>3 DEF QueuesInv, Live
  <2> QED BY <1>1, <1>2, <2>1, <2>2, FoundKeeps
<1>4. CASE ~Live(queues[k]) /\ stopping
  <2>1. Refused(c)
    BY <1>4 DEF Read
  <2> QED BY <1>1, <1>2, <2>1, RefusedKeeps
<1>5. CASE ~Live(queues[k]) /\ ~stopping
  <2> DEFINE s == IF barriers[k] = None THEN "create" ELSE "barrier"
             a == barriers[k]
  <2>1. at' = [at EXCEPT ![c] = a] /\ pc' = [pc EXCEPT ![c] = s] /\ phase' = phase
        /\ registered' = registered
    BY <1>5 DEF Read, Goto
  <2>2. s \in ClientSteps /\ s \in {"create", "barrier"} /\ handing' \subseteq Clients
        /\ a \in Lanes \cup Clients \cup {None} /\ a \notin Lanes
    BY <1>1, <1>2 DEF ClientSteps, ClientTypes, RoutingTypes
  <2>3. phase[c] = "submit" => c \in registered
    BY <1>1 DEF ClientInv
  <2> HIDE DEF s, a
  <2> QED BY <1>1, <1>2, <2>1, <2>2, <2>3, Goes DEF Submitting, Releasing
<1> QED BY <1>3, <1>4, <1>5

LEMMA PassBarrierKeeps == ASSUME IInv, NEW c \in Clients, PassBarrier(c), setup' = setup PROVE IInv'
<1>1. ClientTypes /\ ClientInv(c) /\ pc[c] = "barrier" /\ None \notin Lanes
      /\ pc' = [pc EXCEPT ![c] = "check"] /\ at' = [at EXCEPT ![c] = None]
      /\ UNCHANGED <<phase, ticket, registered, handing, accepted, earlier, lane,
                     queues, barriers, control, cleanup, section, made>>
  BY AsyncAssumption DEF IInv, TypeOK, PassBarrier, Goto
<1>2. (phase[c] = "submit" => c \in registered) /\ handing' \subseteq Clients
      /\ "check" \in ClientSteps
  BY <1>1 DEF ClientInv, ClientTypes, ClientSteps
<1> QED BY <1>1, <1>2, Goes DEF Submitting, Releasing

LEMMA PassFenceKeeps == ASSUME IInv, NEW c \in Clients, PassFence(c), setup' = setup PROVE IInv'
<1>1. ClientTypes /\ ClientInv(c) /\ pc[c] = "fence"
      /\ pc' = [pc EXCEPT ![c] = "admit"] /\ at' = at
      /\ UNCHANGED <<phase, ticket, registered, handing, accepted, earlier, lane,
                     queues, barriers, control, cleanup, section, made>>
  BY DEF IInv, TypeOK, PassFence, Goto
<1>2. at' = [at EXCEPT ![c] = at[c]]
  BY <1>1, Stays
<1>3. phase[c] = "submit" /\ c \in registered /\ handing' \subseteq Clients
      /\ "admit" \in ClientSteps /\ at[c] \in Lanes /\ lane[at[c]].worker # "none"
      /\ ~lane[at[c]].closed /\ (Dynamic => c \in lane[at[c]].readers)
  BY <1>1 DEF ClientInv, ClientTypes, ClientSteps, Submitting, Releasing
<1> QED BY <1>1, <1>2, <1>3, Goes DEF Submitting, Releasing

LEMMA RegisterKeeps == ASSUME IInv, NEW c \in Clients, Register(c), setup' = setup PROVE IInv'
<1> DEFINE s == IF stopped THEN "stopped" ELSE IF pc[c] = "limit" THEN "nolane" ELSE "enqueue"
<1>1. ClientTypes /\ ClientInv(c) /\ pc[c] \in {"register", "limit"}
      /\ pc' = [pc EXCEPT ![c] = s] /\ at' = at
      /\ UNCHANGED <<phase, ticket, registered, accepted, earlier, lane,
                     queues, barriers, control, cleanup, section, made>>
  BY DEF IInv, TypeOK, Register, Goto
<1>2. at' = [at EXCEPT ![c] = at[c]] /\ at[c] \in Lanes \cup Clients \cup {None}
  BY <1>1, Stays
<1>3. handing' \subseteq Clients /\ (stopped => handing' \subseteq handing)
  BY <1>1 DEF Register, ClientTypes
<1>4. s \in ClientSteps /\ s \in {"stopped", "nolane", "enqueue"}
      /\ (s = "enqueue" => at[c] \in Lanes) /\ (at[c] \in Lanes => lane[at[c]].worker # "none")
      /\ phase[c] = "release"
  BY <1>1 DEF ClientInv, ClientSteps, Releasing
<1> HIDE DEF s
<1> QED BY <1>1, <1>2, <1>3, <1>4, Goes DEF Submitting, Releasing

LEMMA StoppedLaneKeeps == ASSUME IInv, NEW c \in Clients, StoppedLane(c), setup' = setup PROVE IInv'
<1> DEFINE a == queues[RouteOf[c]]
           s == IF a = None THEN "lifecycle" ELSE "late"
<1>1. ClientTypes /\ ClientInv(c) /\ pc[c] = "stopped" /\ RouteOf[c] \in Keys /\ None \notin Lanes
      /\ RoutingTypes /\ QueuesInv
      /\ pc' = [pc EXCEPT ![c] = s] /\ at' = [at EXCEPT ![c] = a]
      /\ UNCHANGED <<phase, ticket, registered, handing, accepted, earlier, lane,
                     queues, barriers, control, cleanup, section, made>>
  BY AsyncAssumption DEF IInv, TypeOK, StoppedLane, Goto
<1>2. s \in ClientSteps /\ s \in {"lifecycle", "late"} /\ handing' \subseteq Clients
      /\ a \in Lanes \cup {None} /\ (s = "late" => a \in Lanes)
      /\ (a \in Lanes => lane[a].worker # "none")
  BY <1>1 DEF ClientSteps, ClientTypes, RoutingTypes, QueuesInv
<1> HIDE DEF s, a
<1> QED BY <1>1, <1>2, Goes DEF Submitting, Releasing

LEMMA BlockKeeps == ASSUME IInv, NEW c \in Clients, Block(c), setup' = setup PROVE IInv'
<1>1. TypeOK /\ ClientTypes /\ ClientInv(c) /\ pc[c] = "send" /\ pc' = [pc EXCEPT ![c] = "blocked"]
      /\ UNCHANGED <<phase, at, ticket, registered, handing, accepted, earlier, lane,
                     queues, barriers, control, cleanup, section, made>>
  BY DEF IInv, TypeOK, Block, Goto
<1>2. pc' \in [Clients -> ClientSteps] /\ pc'[c] = "blocked" /\ \A d \in Clients \ {c} : pc'[d] = pc[d]
  BY <1>1 DEF ClientTypes, ClientSteps
<1>3. TypeOK'
  BY <1>1, <1>2 DEF TypeOK, ClientTypes, RoutingTypes, StopTypes, SectionTypes, control, cleanup,
     section, made
<1>4. \A m \in Lanes : Sending(m)' = Sending(m)
  BY <1>1, <1>2, SameSending
<1>5. at[c] \in Lanes /\ LaneShape(lane'[at[c]]) /\ Pending(at[c])'
  BY <1>1, <1>4 DEF IInv, LanesInv, Pending, ClientInv, Submitting, Releasing
<1>6. ClientInv(c)'
  BY <1>1, <1>2 DEF ClientInv, Submitting, Releasing, cleanup, Dynamic
<1>7. /\ UNCHANGED <<apc, active, lifeSealed, sec, lifecycle, finished, barriers, accepted, lane>>
      /\ UNCHANGED <<setup, queues, control, phase, at, registered, handing>>
  BY <1>1 DEF cleanup, section, made
<1>8. c \in Owed' => c \in Owed
  BY <1>2, <1>7 DEF Owed
<1> QED BY <1>2, <1>3, <1>4, <1>5, <1>6, <1>7, <1>8, SameHolding, ClientStep

\* The steps at the end of a call that find no lane: the release is run on the
\* caller, postponed to the section, or has been run.
LEMMA OffLaneStep ==
  ASSUME IInv, NEW c \in Clients, NEW s \in {"offlane", "done"},
         NEW a \in Lanes \cup Clients \cup {None},
         pc' = [pc EXCEPT ![c] = s], at' = [at EXCEPT ![c] = a],
         a \in Lanes => lane[a].worker # "none", pc[c] \notin {"send", "blocked"},
         UNCHANGED <<setup, phase, lane, queues, control, apc, active, lifeSealed, accepted,
                     ticket, earlier>>,
         registered' \subseteq registered, registered \ {c} \subseteq registered',
         handing' \subseteq handing, lifecycle' \subseteq Clients,
         lifecycle \ {c} \subseteq lifecycle', barriers' \in [Keys -> Clients \cup {None}],
         \A d \in Clients \ {c} : barriers[RouteOf[d]] = d => barriers'[RouteOf[d]] = d,
         starts' \in [Clients -> Nat], finished' \subseteq Clients, finished \subseteq finished',
         sec' \in [Admins -> SectionRecords],
         \A x \in Admins : /\ sec'[x].lanes = sec[x].lanes /\ sec'[x].parked = sec[x].parked
                           /\ sec'[x].expected = sec[x].expected
                           /\ sec'[x].running = sec[x].running
                           /\ sec'[x].draining = sec[x].draining
                           /\ apc[x] \notin Published => sec'[x].deferred = sec[x].deferred
                           /\ \A d \in Clients : Postponed(sec[x], d) => Postponed(sec'[x], d),
         s = "offlane" => /\ active = None
                          /\ c \in lifecycle' \/ barriers'[RouteOf[c]] = c \/ lifeSealed,
         s = "done" => Kept(c)'
  PROVE  IInv'
<1>1. TypeOK /\ ClientTypes
  BY DEF IInv, TypeOK
<1>2. pc' \in [Clients -> ClientSteps] /\ pc'[c] = s /\ (\A d \in Clients \ {c} : pc'[d] = pc[d])
      /\ at' \in [Clients -> Lanes \cup Clients \cup {None}] /\ at'[c] = a
      /\ (\A d \in Clients \ {c} : at'[d] = at[d])
  BY <1>1 DEF ClientTypes, ClientSteps
<1>3. TypeOK'
  <2>1. ClientTypes'
    BY <1>1, <1>2 DEF ClientTypes
  <2>2. RoutingTypes' /\ SectionTypes' /\ StopTypes'
    BY <1>1 DEF TypeOK, RoutingTypes, SectionTypes, StopTypes, control
  <2> QED BY <1>1, <2>1, <2>2 DEF TypeOK
<1>4. \A m \in Lanes : Sending(m)' = Sending(m)
  BY <1>2, SameSending
<1>5. PICK l \in Lanes : TRUE
  BY AsyncAssumption
<1>6. LaneShape(lane'[l]) /\ Pending(l)'
  BY <1>4 DEF IInv, LanesInv, Pending
<1>7. ClientInv(c)'
  BY <1>2 DEF ClientInv, Submitting, Releasing
<1>8. c \in Owed' => c \in Owed \/ Kept(c)'
  BY <1>2 DEF Owed
<1>9. \A d \in Clients \ {c} : /\ pc'[d] = pc[d] /\ phase'[d] = phase[d] /\ at'[d] = at[d]
                               /\ d \in registered => d \in registered'
                               /\ d \in lifecycle => d \in lifecycle'
                               /\ barriers[RouteOf[d]] = d => barriers'[RouteOf[d]] = d
  BY <1>2
<1>10. pc'[c] = "offlane" => pc[c] = "offlane" \/ active = None
  BY <1>2
<1> QED BY <1>3, <1>4, <1>6, <1>7, <1>8, <1>9, <1>10, SameHolding, ClientStep

\* A release is added to what the section x has postponed.
LEMMA Deferred ==
  ASSUME IInv, NEW x \in Admins, NEW c \in Clients, apc[x] \in Published,
         sec' = [sec EXCEPT ![x].deferred = Append(@, c)]
  PROVE  /\ sec' \in [Admins -> SectionRecords]
         /\ \A y \in Admins : /\ sec'[y].lanes = sec[y].lanes /\ sec'[y].parked = sec[y].parked
                              /\ sec'[y].expected = sec[y].expected
                              /\ sec'[y].running = sec[y].running
                              /\ sec'[y].draining = sec[y].draining
                              /\ apc[y] \notin Published => sec'[y].deferred = sec[y].deferred
                              /\ \A d \in Clients : Postponed(sec[y], d) => Postponed(sec'[y], d)
         /\ Postponed(sec'[x], c)
<1>1. sec \in [Admins -> SectionRecords]
  BY DEF IInv, TypeOK, SectionTypes
<1> DEFINE s == Append(sec[x].deferred, c)
<1>2. sec[x].deferred \in Seq(Clients)
  BY <1>1 DEF SectionRecords
<1>3. s \in Seq(Clients) /\ Len(s) = Len(sec[x].deferred) + 1 /\ s[Len(s)] = c
      /\ Len(sec[x].deferred) \in Nat
      /\ \A i \in 1..Len(sec[x].deferred) : s[i] = sec[x].deferred[i]
  BY <1>2, AppendProperties
<1>4. sec' = [sec EXCEPT ![x] = [sec[x] EXCEPT !.deferred = s]]
  BY <1>1
<1> HIDE DEF s
<1> DEFINE r == [sec[x] EXCEPT !.deferred = s]
<1>5. r \in SectionRecords /\ r.lanes = sec[x].lanes /\ r.parked = sec[x].parked
      /\ r.expected = sec[x].expected /\ r.running = sec[x].running
      /\ r.draining = sec[x].draining /\ r.deferred = s
  BY <1>1, <1>3 DEF SectionRecords
<1> HIDE DEF r
<1>6. sec'[x] = r /\ (\A y \in Admins \ {x} : sec'[y] = sec[y]) /\ sec' \in [Admins -> SectionRecords]
  BY <1>1, <1>4, <1>5 DEF r
<1>7. Postponed(r, c) /\ \A d \in Clients : Postponed(sec[x], d) => Postponed(r, d)
  <2>1. Len(s) \in 1..Len(s) /\ \A i \in 1..Len(sec[x].deferred) : i \in 1..Len(s)
    BY <1>3
  <2> QED BY <2>1, <1>3, <1>5 DEF Postponed
<1> QED BY <1>5, <1>6, <1>7

LEMMA WithoutLaneKeeps == ASSUME IInv, NEW c \in Clients, WithoutLane(c), setup' = setup PROVE IInv'
<1> DEFINE k == RouteOf[c]
<1>1. TypeOK /\ ClientTypes /\ ClientInv(c) /\ pc[c] = "nolane" /\ k \in Keys /\ None \notin Lanes
      /\ RoutingTypes /\ SectionTypes /\ None \notin Admins /\ starts \in [Clients -> Nat]
      /\ finished \subseteq Clients
  BY AsyncAssumption DEF IInv, TypeOK, WithoutLane
<1>2. UNCHANGED <<setup, phase, ticket, accepted, earlier, lane, queues, control, cleanup, active,
                  apc, finished>>
  BY DEF WithoutLane
<1>3. handing' \subseteq Clients /\ handing' \subseteq handing
  BY <1>1 DEF WithoutLane, ClientTypes
<1>4. CASE HasPlace(k)
  <2>1. pc' = [pc EXCEPT ![c] = "check"] /\ UNCHANGED <<registered, at, barriers, sec, starts>>
    BY <1>4 DEF WithoutLane, Goto
  <2>2. at' = [at EXCEPT ![c] = at[c]] /\ at[c] \in Lanes \cup Clients \cup {None}
    BY <1>1, <2>1, Stays
  <2>3. phase[c] = "submit" => c \in registered
    BY <1>1 DEF ClientInv, Releasing
  <2>4. at[c] \in Lanes => lane[at[c]].worker # "none"
    BY <1>1 DEF ClientInv
  <2>5. "check" \in ClientSteps
    BY DEF ClientSteps
  <2>6. UNCHANGED <<setup, phase, registered, lane, queues, barriers, control, cleanup, section,
                     made, accepted, ticket, earlier>>
    BY <1>2, <2>1 DEF section, made
  <2> QED BY <1>1, <1>3, <2>1, <2>2, <2>3, <2>4, <2>5, <2>6, Goes DEF Submitting, Releasing
<1>5. CASE ~HasPlace(k) /\ active # None
  <2>1. sec' = [sec EXCEPT ![active].deferred = Append(@, c)] /\ Return(c)
        /\ UNCHANGED <<barriers, starts>>
    BY <1>5 DEF WithoutLane
  <2>2. active \in Admins /\ apc[active] \in Published
    BY <1>1, <1>5 DEF IInv, SectionTypes, SectionInv
  <2>3. /\ sec' \in [Admins -> SectionRecords]
        /\ \A y \in Admins : /\ sec'[y].lanes = sec[y].lanes /\ sec'[y].parked = sec[y].parked
                             /\ sec'[y].expected = sec[y].expected
                             /\ sec'[y].running = sec[y].running
                             /\ sec'[y].draining = sec[y].draining
                             /\ apc[y] \notin Published => sec'[y].deferred = sec[y].deferred
                             /\ \A d \in Clients : Postponed(sec[y], d) => Postponed(sec'[y], d)
        /\ Postponed(sec'[active], c)
    BY <2>1, <2>2, Deferred
  <2>4. Kept(c)'
    BY <1>2, <2>2, <2>3 DEF Kept
  <2>5. pc' = [pc EXCEPT ![c] = "done"] /\ at' = [at EXCEPT ![c] = None]
        /\ registered' = registered \ {c}
    BY <2>1 DEF Return, Goto
  <2>6. UNCHANGED <<setup, phase, lane, queues, control, apc, active, lifeSealed, accepted,
                     ticket, earlier>> /\ lifecycle' = lifecycle
    BY <1>2 DEF cleanup
  <2> QED BY <1>1, <1>2, <1>3, <2>1, <2>3, <2>4, <2>5, <2>6, OffLaneStep DEF RoutingTypes
<1>6. CASE ~HasPlace(k) /\ active = None
  <2>1. barriers' = [barriers EXCEPT ![k] = c] /\ starts' = [starts EXCEPT ![c] = @ + 1]
        /\ pc' = [pc EXCEPT ![c] = "offlane"] /\ UNCHANGED <<handing, registered, at, sec>>
    BY <1>6 DEF WithoutLane, Goto
  <2>2. at' = [at EXCEPT ![c] = at[c]] /\ at[c] \in Lanes \cup Clients \cup {None}
    BY <1>1, <2>1, Stays
  <2>3. barriers[k] = None
    BY <1>6 DEF HasPlace
  <2>4. barriers' \in [Keys -> Clients \cup {None}] /\ barriers'[k] = c
        /\ \A d \in Clients \ {c} : barriers[RouteOf[d]] = d => barriers'[RouteOf[d]] = d
    BY <1>1, <2>1, <2>3, AsyncAssumption DEF RoutingTypes
  <2>5. starts' \in [Clients -> Nat]
    BY <1>1, <2>1
  <2>6. at[c] \in Lanes => lane[at[c]].worker # "none"
    BY <1>1 DEF ClientInv
  <2>7. UNCHANGED <<setup, phase, lane, queues, control, apc, active, lifeSealed, accepted,
                     ticket, earlier>> /\ lifecycle' = lifecycle
    BY <1>2 DEF cleanup
  <2> QED BY <1>1, <1>2, <1>3, <1>6, <2>1, <2>2, <2>4, <2>5, <2>6, <2>7, OffLaneStep
          DEF RoutingTypes, SectionTypes
<1> QED BY <1>4, <1>5, <1>6

LEMMA LifecycleKeeps ==
  ASSUME IInv, NEW c \in Clients, beginLifecycleCleanup(c), setup' = setup PROVE IInv'
<1>1. TypeOK /\ ClientTypes /\ ClientInv(c) /\ pc[c] = "lifecycle" /\ None \notin Lanes
      /\ RoutingTypes /\ SectionTypes /\ None \notin Admins /\ starts \in [Clients -> Nat]
      /\ finished \subseteq Clients
  BY AsyncAssumption DEF IInv, TypeOK, beginLifecycleCleanup
<1>2. UNCHANGED <<setup, phase, ticket, handing, accepted, earlier, lane, queues, barriers, control,
                  lifeSealed, active, apc, finished>>
  BY DEF beginLifecycleCleanup
<1>3. CASE ~lifeSealed /\ active # None
  <2>1. sec' = [sec EXCEPT ![active].deferred = Append(@, c)] /\ Return(c)
        /\ UNCHANGED <<lifecycle, starts>>
    BY <1>3 DEF beginLifecycleCleanup
  <2>2. active \in Admins /\ apc[active] \in Published
    BY <1>1, <1>3 DEF IInv, SectionTypes, SectionInv
  <2>3. /\ sec' \in [Admins -> SectionRecords]
        /\ \A y \in Admins : /\ sec'[y].lanes = sec[y].lanes /\ sec'[y].parked = sec[y].parked
                             /\ sec'[y].expected = sec[y].expected
                             /\ sec'[y].running = sec[y].running
                             /\ sec'[y].draining = sec[y].draining
                             /\ apc[y] \notin Published => sec'[y].deferred = sec[y].deferred
                             /\ \A d \in Clients : Postponed(sec[y], d) => Postponed(sec'[y], d)
        /\ Postponed(sec'[active], c)
    BY <2>1, <2>2, Deferred
  <2>4. Kept(c)'
    BY <1>2, <2>2, <2>3 DEF Kept
  <2>5. pc' = [pc EXCEPT ![c] = "done"] /\ at' = [at EXCEPT ![c] = None]
        /\ registered' = registered \ {c}
    BY <2>1 DEF Return, Goto
  <2> QED BY <1>1, <1>2, <2>1, <2>3, <2>4, <2>5, OffLaneStep DEF RoutingTypes
<1>4. CASE ~(~lifeSealed /\ active # None)
  <2>1. lifecycle' = (IF lifeSealed THEN lifecycle ELSE lifecycle \cup {c})
        /\ starts' = [starts EXCEPT ![c] = @ + 1]
        /\ pc' = [pc EXCEPT ![c] = "offlane"] /\ UNCHANGED <<registered, at, sec>>
    BY <1>4 DEF beginLifecycleCleanup, Goto
  <2>2. at' = [at EXCEPT ![c] = at[c]] /\ at[c] \in Lanes \cup Clients \cup {None}
    BY <1>1, <2>1, Stays
  <2>3. active = None
    <3>1. CASE lifeSealed
      <4>1. Sections = {}
        BY <3>1 DEF IInv, StopInv
      <4>2. active # None => active \in Admins /\ apc[active] \in Published
        BY <1>1 DEF IInv, SectionTypes, SectionInv
      <4> QED BY <4>1, <4>2 DEF Sections, Published
    <3> QED BY <3>1, <1>4
  <2>4. starts' \in [Clients -> Nat] /\ lifecycle' \subseteq Clients /\ lifecycle \subseteq lifecycle'
        /\ (c \in lifecycle' \/ lifeSealed)
    BY <1>1, <2>1 DEF RoutingTypes
  <2>5. at[c] \in Lanes => lane[at[c]].worker # "none"
    BY <1>1 DEF ClientInv
  <2> QED BY <1>1, <1>2, <2>1, <2>2, <2>3, <2>4, <2>5, OffLaneStep DEF RoutingTypes, SectionTypes
<1> QED BY <1>3, <1>4

LEMMA OffLaneEndsKeeps == ASSUME IInv, NEW c \in Clients, OffLaneEnds(c), setup' = setup PROVE IInv'
<1> DEFINE k == RouteOf[c]
<1>1. TypeOK /\ ClientTypes /\ ClientInv(c) /\ pc[c] = "offlane" /\ k \in Keys /\ None \notin Lanes
      /\ RoutingTypes /\ SectionTypes /\ starts \in [Clients -> Nat] /\ finished \subseteq Clients
      /\ RouteOf \in [Clients -> Keys]
  BY AsyncAssumption DEF IInv, TypeOK, OffLaneEnds
<1>2. /\ UNCHANGED <<setup, phase, ticket, accepted, earlier, lane, queues, control, lifeSealed,
                     section, starts>>
      /\ barriers' = [barriers EXCEPT ![k] = IF @ = c THEN None ELSE @]
      /\ lifecycle' = lifecycle \ {c} /\ handing' = handing \ {c} /\ finished' = finished \cup {c}
      /\ pc' = [pc EXCEPT ![c] = "done"] /\ at' = [at EXCEPT ![c] = None]
      /\ registered' = registered \ {c}
  BY DEF OffLaneEnds, Return, Goto
<1>3. barriers' \in [Keys -> Clients \cup {None}]
      /\ \A d \in Clients \ {c} : barriers[RouteOf[d]] = d => barriers'[RouteOf[d]] = d
  BY <1>1, <1>2 DEF RoutingTypes
<1>4. Kept(c)'
  BY <1>2 DEF Kept
<1>5. UNCHANGED <<apc, active, sec>> /\ lifecycle' \subseteq Clients /\ finished' \subseteq Clients
  BY <1>1, <1>2 DEF section, RoutingTypes
<1> QED BY <1>1, <1>2, <1>3, <1>4, <1>5, OffLaneStep DEF SectionTypes

-----------------------------------------------------------------------------
(* The steps of a client on its lane. *)

LEMMA SendingFinite ==
  \A l : /\ IsFiniteSet(Sending(l)) /\ Cardinality(Sending(l)) \in Nat
         /\ IsFiniteSet(Sending(l)') /\ Cardinality(Sending(l)') \in Nat
<1> TAKE l
<1>1. Sending(l) \subseteq Clients /\ Sending(l)' \subseteq Clients
  BY DEF Sending
<1>2. IsFiniteSet(Clients)
  BY AsyncAssumption
<1> QED BY <1>1, <1>2, FS_Subset, FS_CardinalityType

LEMMA SendingCount ==
  ASSUME NEW c \in Clients, NEW l,
         \A d \in Clients \ {c} : pc'[d] = pc[d] /\ at'[d] = at[d]
  PROVE  Cardinality(Sending(l)') + (IF c \in Sending(l) THEN 1 ELSE 0)
            = Cardinality(Sending(l)) + (IF c \in Sending(l)' THEN 1 ELSE 0)
<1>1. Sending(l)' \ {c} = Sending(l) \ {c}
  BY DEF Sending
<1>2. \A S : IsFiniteSet(S) => /\ Cardinality(S) \in Nat
                               /\ IsFiniteSet(S \ {c})
                               /\ Cardinality(S \ {c}) = IF c \in S THEN Cardinality(S) - 1
                                                                   ELSE Cardinality(S)
  BY FS_RemoveElement, FS_CardinalityType
<1>3. /\ Cardinality(Sending(l) \ {c}) = IF c \in Sending(l) THEN Cardinality(Sending(l)) - 1
                                                           ELSE Cardinality(Sending(l))
      /\ Cardinality(Sending(l)' \ {c}) = IF c \in Sending(l)' THEN Cardinality(Sending(l)') - 1
                                                           ELSE Cardinality(Sending(l)')
  BY <1>2, SendingFinite
<1>4. Cardinality(Sending(l)) \in Nat /\ Cardinality(Sending(l)') \in Nat
  BY SendingFinite
<1> DEFINE A == Sending(l)
           B == Sending(l)'
<1>5. Cardinality(B \ {c}) = Cardinality(A \ {c})
  BY <1>1
<1> SUFFICES Cardinality(B) + (IF c \in A THEN 1 ELSE 0) = Cardinality(A) + (IF c \in B THEN 1 ELSE 0)
  OBVIOUS
<1> HIDE DEF A, B
<1>6. /\ Cardinality(A \ {c}) = IF c \in A THEN Cardinality(A) - 1 ELSE Cardinality(A)
      /\ Cardinality(B \ {c}) = IF c \in B THEN Cardinality(B) - 1 ELSE Cardinality(B)
      /\ Cardinality(A) \in Nat /\ Cardinality(B) \in Nat
  BY <1>3, <1>4 DEF A, B
<1> QED BY <1>5, <1>6

LEMMA Balance ==
  ASSUME NEW u \in Int, NEW v \in Int, NEW p1 \in Int, NEW p2 \in Int, NEW h1 \in Int, NEW h2 \in Int,
         NEW b1 \in Int, NEW b2 \in Int, NEW n \in Int, NEW a \in Int, NEW b \in Int,
         p1 = u + h1 + b1 + n, v + a = u + b, p2 + a + h1 + b1 = p1 + b + h2 + b2
  PROVE  p2 = v + h2 + b2 + n
OBVIOUS

LEMMA LaneStep ==
  ASSUME IInv, NEW c \in Clients, NEW l \in Lanes, at[c] = l, NEW q \in LaneRecords,
         lane' = [lane EXCEPT ![l] = q],
         UNCHANGED <<setup, queues, barriers, control, cleanup, section, made>>,
         ClientTypes', ClientInv(c)',
         \A d \in Clients \ {c} : /\ pc'[d] = pc[d] /\ phase'[d] = phase[d] /\ at'[d] = at[d]
                                  /\ d \in registered => d \in registered',
         pc'[c] \in {"send", "blocked"} => at'[c] = l, pc'[c] # "offlane",
         q.worker = lane[l].worker, q.closed = lane[l].closed, q.retired = lane[l].retired,
         q.cur = lane[l].cur, lane[l].readers \ {c} \subseteq q.readers,
         \A x \in Admins : Holding(lane[l], q, x),
         \A d \in Clients : OnLane(lane[l], d) => OnLane(q, d),
         LaneShape(q),
         q.pending + (IF pc[c] \in {"send", "blocked"} THEN 1 ELSE 0)
                   + Len(lane[l].ch) + Len(lane[l].backlog)
           = lane[l].pending + (IF pc'[c] \in {"send", "blocked"} THEN 1 ELSE 0)
                   + Len(q.ch) + Len(q.backlog),
         stopped => registered' \subseteq registered /\ handing' \subseteq handing,
         accepted' \subseteq accepted \cup {c},
         c \in Owed' => c \in Owed \/ OnLane(q, c)
  PROVE  IInv'
<1>0. lane \in [Lanes -> LaneRecords]
  BY DEF IInv, TypeOK
<1>1. lane'[l] = q /\ (\A m \in Lanes \ {l} : lane'[m] = lane[m]) /\ lane' \in [Lanes -> LaneRecords]
  BY <1>0
<1>2. TypeOK'
  BY <1>1 DEF IInv, TypeOK, RoutingTypes, StopTypes, SectionTypes, control, cleanup, section, made
<1>3. ASSUME NEW m \in Lanes \ {l} PROVE Sending(m)' = Sending(m)
  BY SameSending
<1>4. Pending(l)'
  <2>1. Pending(l) /\ lane[l] \in LaneRecords
    BY <1>0 DEF IInv, LanesInv
  <2>2. c \in Sending(l) <=> pc[c] \in {"send", "blocked"}
    BY DEF Sending
  <2>3. c \in Sending(l)' <=> pc'[c] \in {"send", "blocked"}
    BY DEF Sending
  <2>4. Cardinality(Sending(l)') + (IF pc[c] \in {"send", "blocked"} THEN 1 ELSE 0)
            = Cardinality(Sending(l)) + (IF pc'[c] \in {"send", "blocked"} THEN 1 ELSE 0)
    BY <2>2, <2>3, SendingCount
  <2>5. /\ lane[l].pending \in Int /\ q.pending \in Int
        /\ Len(lane[l].ch) \in Nat /\ Len(lane[l].backlog) \in Nat
        /\ Len(q.ch) \in Nat /\ Len(q.backlog) \in Nat
    BY <2>1, SMTT(60) DEF LaneRecords
  <2> DEFINE n == IF lane[l].cur = None THEN 0 ELSE 1
             a == IF pc[c] \in {"send", "blocked"} THEN 1 ELSE 0
             b == IF pc'[c] \in {"send", "blocked"} THEN 1 ELSE 0
  <2>6. lane[l].pending = Cardinality(Sending(l)) + Len(lane[l].ch) + Len(lane[l].backlog) + n
    BY <2>1 DEF Pending
  <2>7. n \in Nat /\ a \in Nat /\ b \in Nat
    OBVIOUS
  <2>8. Cardinality(Sending(l)') + a = Cardinality(Sending(l)) + b
    BY <2>4
  <2>9. q.pending + a + Len(lane[l].ch) + Len(lane[l].backlog)
          = lane[l].pending + b + Len(q.ch) + Len(q.backlog)
    BY <2>5, <2>7
  <2> HIDE DEF n, a, b
  <2>s. Cardinality(Sending(l)) \in Nat /\ Cardinality(Sending(l)') \in Nat
    BY SendingFinite
  <2>10. q.pending = Cardinality(Sending(l)') + Len(q.ch) + Len(q.backlog) + n
    <3> DEFINE u == Cardinality(Sending(l))
               v == Cardinality(Sending(l)')
               p1 == lane[l].pending
               p2 == q.pending
               h1 == Len(lane[l].ch)
               h2 == Len(q.ch)
               b1 == Len(lane[l].backlog)
               b2 == Len(q.backlog)
    <3>1. u \in Int /\ v \in Int /\ p1 \in Int /\ p2 \in Int /\ h1 \in Int /\ h2 \in Int
          /\ b1 \in Int /\ b2 \in Int /\ n \in Int /\ a \in Int /\ b \in Int
      BY <2>s, <2>5, <2>7
    <3>2. p1 = u + h1 + b1 + n
      BY <2>6
    <3>3. v + a = u + b
      BY <2>8
    <3>4. p2 + a + h1 + b1 = p1 + b + h2 + b2
      BY <2>9
    <3> SUFFICES p2 = v + h2 + b2 + n
      OBVIOUS
    <3> HIDE DEF u, v, p1, p2, h1, h2, b1, b2
    <3> QED BY <3>1, <3>2, <3>3, <3>4, Balance
  <2> QED BY <1>1, <2>10 DEF Pending, n
<1>5. UNCHANGED <<apc, active, lifeSealed, sec, lifecycle, finished, barriers>>
      /\ UNCHANGED <<setup, queues, control>>
  BY DEF cleanup, section, made
<1>6. c \in Owed' => c \in Owed \/ Kept(c)'
  BY <1>1 DEF Kept
<1>7. LaneShape(lane'[l]) /\ lane'[l].worker = lane[l].worker /\ lane'[l].closed = lane[l].closed
      /\ lane'[l].retired = lane[l].retired /\ lane[l].readers \ {c} \subseteq lane'[l].readers
      /\ (\A x \in Admins : Holding(lane[l], lane'[l], x))
      /\ (\A d \in Clients : OnLane(lane[l], d) => OnLane(lane'[l], d))
  BY <1>1
<1> QED BY <1>1, <1>2, <1>3, <1>4, <1>5, <1>6, <1>7, ClientStep


LEMMA Readers ==
  ASSUME NEW p \in LaneRecords, NEW S \in SUBSET Clients, NEW q, q = [p EXCEPT !.readers = S]
  PROVE  /\ q \in LaneRecords
         /\ q.ch = p.ch /\ q.backlog = p.backlog /\ q.cur = p.cur /\ q.worker = p.worker
         /\ q.retired = p.retired /\ q.sealed = p.sealed /\ q.closed = p.closed
         /\ q.settled = p.settled /\ q.pending = p.pending /\ q.readers = S
         /\ LaneShape(p) => LaneShape(q)
         /\ \A x : Holding(p, q, x)
         /\ \A d : OnLane(p, d) <=> OnLane(q, d)
<1>1. q \in LaneRecords
  BY LaneFields
<1>2. q.ch = p.ch /\ q.backlog = p.backlog /\ q.cur = p.cur /\ q.worker = p.worker
      /\ q.retired = p.retired /\ q.sealed = p.sealed /\ q.closed = p.closed
      /\ q.settled = p.settled /\ q.pending = p.pending /\ q.readers = S
  BY DEF LaneRecords
<1>3. (LaneShape(p) => LaneShape(q)) /\ \A x : Holds(p, x) => Holds(q, x)
  BY <1>2, SameLane
<1>4. \A t : (HasTask(q, t) <=> HasTask(p, t)) /\ (OnLane(q, t) <=> OnLane(p, t))
  BY <1>2, SameQueues
<1> QED BY <1>1, <1>2, <1>3, <1>4 DEF Holding

LEMMA GateKeeps == ASSUME IInv, NEW c \in Clients, Gate(c), setup' = setup PROVE IInv'
<1> DEFINE l == at[c]
<1>1. ClientTypes /\ ClientInv(c) /\ pc[c] = "gate" /\ None \notin Lanes /\ lane \in [Lanes -> LaneRecords]
      /\ UNCHANGED <<setup, phase, ticket, registered, handing, accepted, earlier,
                     queues, barriers, control, cleanup, section, made>>
  BY AsyncAssumption DEF IInv, TypeOK, Gate
<1>2. l \in Lanes /\ phase[c] = "submit" /\ c \in registered /\ lane[l].worker # "none"
      /\ lane[l] \in LaneRecords /\ LaneShape(lane[l])
  BY <1>1 DEF IInv, LanesInv, ClientInv, Submitting
<1>3. CASE lane[l].closed
  <2>1. pc' = [pc EXCEPT ![c] = "check"] /\ at' = [at EXCEPT ![c] = None] /\ lane' = lane
    BY <1>3 DEF Gate, Goto
  <2>2. "check" \in ClientSteps /\ handing' \subseteq Clients
    BY <1>1 DEF ClientSteps, ClientTypes
  <2> QED BY <1>1, <1>2, <2>1, <2>2, Goes DEF Submitting, Releasing
<1>4. CASE ~lane[l].closed
  <2> DEFINE S == lane[l].readers \cup {c}
             q == [lane[l] EXCEPT !.readers = S]
  <2>1. lane' = [lane EXCEPT ![l] = q] /\ pc' = [pc EXCEPT ![c] = "fence"] /\ at' = at
    BY <1>1, <1>4 DEF Gate, Goto
  <2>2. S \in SUBSET Clients
    BY <1>2 DEF LaneRecords
  <2>q. q = [lane[l] EXCEPT !.readers = S]
    OBVIOUS
  <2>4. lane'[l] = q
    BY <1>1, <1>2, <2>1
  <2> HIDE DEF q, S
  <2>3. /\ q \in LaneRecords
        /\ q.ch = lane[l].ch /\ q.backlog = lane[l].backlog /\ q.cur = lane[l].cur
        /\ q.worker = lane[l].worker /\ q.retired = lane[l].retired /\ q.closed = lane[l].closed
        /\ q.pending = lane[l].pending /\ q.readers = S /\ LaneShape(q)
        /\ (\A x : Holding(lane[l], q, x)) /\ (\A d : OnLane(lane[l], d) <=> OnLane(q, d))
    BY <1>2, <2>2, <2>q, Readers
  <2>5. pc' \in [Clients -> ClientSteps] /\ pc'[c] = "fence" /\ \A d \in Clients \ {c} : pc'[d] = pc[d]
    BY <1>1, <2>1 DEF ClientTypes, ClientSteps
  <2>6. ClientTypes'
    BY <1>1, <2>1, <2>5 DEF ClientTypes
  <2>7. ClientInv(c)'
    BY <1>1, <1>2, <1>4, <2>1, <2>3, <2>4, <2>5 DEF ClientInv, Submitting, Releasing, Dynamic, S
  <2>8. lane[l].pending \in Int /\ Len(lane[l].ch) \in Nat /\ Len(lane[l].backlog) \in Nat
    BY <1>2 DEF LaneRecords
  <2>9. q.pending + (IF pc[c] \in {"send", "blocked"} THEN 1 ELSE 0)
                  + Len(lane[l].ch) + Len(lane[l].backlog)
          = lane[l].pending + (IF pc'[c] \in {"send", "blocked"} THEN 1 ELSE 0)
                  + Len(q.ch) + Len(q.backlog)
    BY <1>1, <2>3, <2>5, <2>8
  <2>10. c \in Owed' => c \in Owed
    BY <1>1, <2>5 DEF Owed
  <2>11. lane[l].readers \ {c} \subseteq q.readers
    BY <2>3 DEF S
  <2> QED BY <1>1, <1>2, <2>1, <2>3, <2>5, <2>6, <2>7, <2>9, <2>10, <2>11, LaneStep
<1> QED BY <1>3, <1>4

\* A call that has failed on its lane gives up its place at the gate.
LEMMA FailsOnLane ==
  ASSUME IInv, NEW c \in Clients, Fail(c), at[c] \in Lanes,
         NEW p \in LaneRecords, lane' = [lane EXCEPT ![at[c]] = Leave(p, c)],
         UNCHANGED <<setup, ticket, handing, accepted, earlier, queues, barriers, control, cleanup,
                     section, made>>,
         LaneShape(p), p.worker = lane[at[c]].worker, p.closed = lane[at[c]].closed,
         p.retired = lane[at[c]].retired, p.cur = lane[at[c]].cur, p.ch = lane[at[c]].ch,
         p.readers = lane[at[c]].readers, Len(p.backlog) = Len(lane[at[c]].backlog),
         \A u : HasTask(p, u) <=> HasTask(lane[at[c]], u),
         \A x : Holds(lane[at[c]], x) => Holds(p, x),
         p.pending = lane[at[c]].pending - (IF pc[c] \in {"send", "blocked"} THEN 1 ELSE 0)
  PROVE  IInv'
<1> DEFINE l == at[c]
           S == p.readers \ {c}
           q == [p EXCEPT !.readers = S]
<1>1. ClientTypes /\ QueuesInv /\ setup \in Setups /\ lane \in [Lanes -> LaneRecords]
      /\ l \in Lanes /\ lane[l] \in LaneRecords
  BY DEF IInv, TypeOK
<1>2. lane' = [lane EXCEPT ![l] = q]
  BY DEF Leave
<1>3. S \in SUBSET Clients
  BY DEF LaneRecords
<1>q. q = [p EXCEPT !.readers = S]
  OBVIOUS
<1> HIDE DEF q, S
<1>4. /\ q \in LaneRecords
      /\ q.ch = p.ch /\ q.backlog = p.backlog /\ q.cur = p.cur /\ q.worker = p.worker
      /\ q.retired = p.retired /\ q.closed = p.closed
      /\ q.pending = p.pending /\ q.readers = S /\ LaneShape(q)
      /\ (\A x : Holding(p, q, x)) /\ (\A d : OnLane(p, d) <=> OnLane(q, d))
  <2>1. p \in LaneRecords /\ LaneShape(p)
    OBVIOUS
  <2> QED BY ONLY <1>3, <1>q, <2>1, Readers
<1>5. lane'[l] = q /\ \A m \in Lanes \ {l} : lane'[m] = lane[m]
  BY <1>1, <1>2
<1>6. \A m \in Lanes : lane'[m].worker = lane[m].worker
  BY <1>4, <1>5
<1>7. /\ pc' \in [Clients -> ClientSteps] /\ phase' \in [Clients -> {"submit", "release"}]
      /\ at' \in [Clients -> Lanes \cup Clients \cup {None}] /\ registered' \subseteq registered
      /\ \A d \in Clients \ {c} : /\ pc'[d] = pc[d] /\ phase'[d] = phase[d] /\ at'[d] = at[d]
                                  /\ d \in registered => d \in registered'
      /\ pc'[c] \in {"check", "register", "done"}
      /\ pc'[c] = "done" => c \notin Owners
      /\ ClientInv(c)'
  BY <1>1, <1>6, Failed
<1>8. ClientTypes'
  BY <1>1, <1>7 DEF ClientTypes
<1>9. ASSUME NEW x PROVE Holding(lane[l], q, x)
  BY <1>4 DEF Holding
<1>10. ASSUME NEW d, OnLane(lane[l], d) PROVE OnLane(q, d)
  BY <1>4, <1>10 DEF OnLane
<1>11. p.pending \in Int /\ lane[l].pending \in Int /\ Len(lane[l].ch) \in Nat /\ Len(lane[l].backlog) \in Nat
  BY <1>1 DEF LaneRecords
<1> DEFINE a == IF pc[c] \in {"send", "blocked"} THEN 1 ELSE 0
<1>12. q.pending + a + Len(lane[l].ch) + Len(lane[l].backlog)
          = lane[l].pending + 0 + Len(q.ch) + Len(q.backlog)
  <2>1. a \in Int /\ q.pending = lane[l].pending - a /\ Len(q.ch) = Len(lane[l].ch)
        /\ Len(q.backlog) = Len(lane[l].backlog)
    BY <1>4
  <2> HIDE DEF a
  <2> QED BY <2>1, <1>11
<1>13. (IF pc'[c] \in {"send", "blocked"} THEN 1 ELSE 0) = 0
  BY <1>7
<1>14. q.pending + (IF pc[c] \in {"send", "blocked"} THEN 1 ELSE 0)
                  + Len(lane[l].ch) + Len(lane[l].backlog)
          = lane[l].pending + (IF pc'[c] \in {"send", "blocked"} THEN 1 ELSE 0)
                  + Len(q.ch) + Len(q.backlog)
  BY <1>12, <1>13
<1>15. c \in Owed' => c \in Owed
  BY <1>7 DEF Owed
<1>16. q.worker = lane[l].worker /\ q.closed = lane[l].closed /\ q.retired = lane[l].retired
       /\ q.cur = lane[l].cur /\ lane[l].readers \ {c} \subseteq q.readers
  BY <1>4 DEF S
<1> QED BY <1>1, <1>2, <1>4, <1>7, <1>8, <1>9, <1>10, <1>14, <1>15, <1>16, LaneStep


LEMMA FenceFailsKeeps ==
  ASSUME IInv, NEW c \in Clients, FenceFails(c) \/ Expired(c), setup' = setup PROVE IInv'
<1> DEFINE p == lane[at[c]]
<1>1. ClientInv(c) /\ pc[c] \in {"fence", "admit"} /\ lane \in [Lanes -> LaneRecords] /\ Fail(c)
      /\ UNCHANGED <<setup, ticket, handing, accepted, earlier, queues, barriers, control, cleanup,
                     section, made>>
      /\ lane' = [lane EXCEPT ![at[c]] = Leave(@, c)]
  BY DEF IInv, TypeOK, FenceFails, Expired
<1>2. at[c] \in Lanes /\ p \in LaneRecords /\ LaneShape(p) /\ p.pending \in Int
      /\ lane' = [lane EXCEPT ![at[c]] = Leave(p, c)]
  BY <1>1 DEF IInv, LanesInv, ClientInv, Submitting, LaneRecords
<1>3. (IF pc[c] \in {"send", "blocked"} THEN 1 ELSE 0) = 0
  BY <1>1
<1>4. p.pending = lane[at[c]].pending - (IF pc[c] \in {"send", "blocked"} THEN 1 ELSE 0)
  BY <1>2, <1>3
<1>5. p = lane[at[c]]
  OBVIOUS
<1> HIDE DEF p
<1> QED BY <1>1, <1>2, <1>4, <1>5, FailsOnLane

LEMMA SendFailsKeeps == ASSUME IInv, NEW c \in Clients, SendFails(c), setup' = setup PROVE IInv'
<1> DEFINE r == lane[at[c]]
           p == unmarkSent(r, ticket[c])
<1>1. ClientInv(c) /\ pc[c] = "blocked" /\ lane \in [Lanes -> LaneRecords] /\ Fail(c)
      /\ UNCHANGED <<setup, ticket, handing, accepted, earlier, queues, barriers, control, cleanup,
                     section, made>>
      /\ lane' = [lane EXCEPT ![at[c]] = Leave(unmarkSent(@, ticket[c]), c)]
  BY DEF IInv, TypeOK, SendFails
<1>2. at[c] \in Lanes /\ r \in LaneRecords /\ LaneShape(r) /\ ticket[c] \in Nat
      /\ lane' = [lane EXCEPT ![at[c]] = Leave(p, c)]
  BY <1>1 DEF IInv, TypeOK, ClientTypes, LanesInv, ClientInv, Submitting
<1>3. p = unmarkSent(r, ticket[c])
  OBVIOUS
<1> HIDE DEF p
<1>4. /\ p \in LaneRecords
      /\ p.ch = r.ch /\ p.cur = r.cur /\ p.worker = r.worker /\ p.retired = r.retired
      /\ p.sealed = r.sealed /\ p.closed = r.closed
      /\ p.readers = r.readers /\ p.pending = r.pending - 1
      /\ Len(p.backlog) = Len(r.backlog)
      /\ (\A u : HasTask(p, u) <=> HasTask(r, u))
      /\ (\A x : Holds(r, x) => Holds(p, x))
      /\ LaneShape(p)
  BY <1>2, <1>3, Unmarked
<1>5. (IF pc[c] \in {"send", "blocked"} THEN 1 ELSE 0) = 1
  BY <1>1
<1>6. p.pending = lane[at[c]].pending - (IF pc[c] \in {"send", "blocked"} THEN 1 ELSE 0)
  BY <1>4, <1>5
<1> QED BY <1>1, <1>2, <1>4, <1>6, FailsOnLane

LEMMA AdmitKeeps == ASSUME IInv, NEW c \in Clients, admitTask(c), setup' = setup PROVE IInv'
<1> DEFINE l == at[c]
           p == lane[l]
           r == [p EXCEPT !.admitted = p.admitted + 1]
           q == [r EXCEPT !.pending = p.pending + 1]
<1>1. ClientTypes /\ ClientInv(c) /\ pc[c] = "admit" /\ lane \in [Lanes -> LaneRecords]
      /\ UNCHANGED <<setup, phase, at, registered, handing, accepted, earlier, queues,
                     barriers, control, cleanup, section, made>>
      /\ lane' = [lane EXCEPT ![l].admitted = @ + 1, ![l].pending = @ + 1]
      /\ ticket' = [ticket EXCEPT ![c] = p.admitted + 1]
      /\ pc' = [pc EXCEPT ![c] = "send"]
  BY DEF IInv, TypeOK, admitTask, Goto
<1>2. l \in Lanes /\ p \in LaneRecords /\ LaneShape(p) /\ p.worker # "none"
      /\ p.admitted \in Nat /\ p.pending \in Int /\ Len(p.ch) \in Nat /\ Len(p.backlog) \in Nat
  BY <1>1 DEF IInv, LanesInv, ClientInv, Submitting, LaneRecords
<1>3. lane' = [lane EXCEPT ![l] = q] /\ lane'[l] = q
  BY <1>1, <1>2
<1>4. q \in LaneRecords
      /\ q.ch = p.ch /\ q.backlog = p.backlog /\ q.cur = p.cur /\ q.worker = p.worker
      /\ q.retired = p.retired /\ q.sealed = p.sealed /\ q.closed = p.closed
      /\ q.settled = p.settled /\ q.pending = p.pending + 1 /\ q.readers = p.readers
  <2>0. p.admitted + 1 \in Nat /\ p.pending + 1 \in Int
    BY <1>2
  <2>1. r \in LaneRecords
    BY <1>2, <2>0, LaneFields
  <2>2. q \in LaneRecords
    <3> HIDE DEF r, p
    <3> QED BY <2>0, <2>1, LaneFields
  <2> QED BY <1>2, <2>2 DEF LaneRecords
<1> HIDE DEF q, r, p
<1>5. LaneShape(q) /\ (\A x : Holds(p, x) => Holds(q, x))
  BY <1>2, <1>4, SameLane
<1>6. \A t : (HasTask(q, t) <=> HasTask(p, t)) /\ (OnLane(q, t) <=> OnLane(p, t))
  BY <1>4, SameQueues
<1>7. \A x : Holding(p, q, x)
  BY <1>4, <1>5, <1>6 DEF Holding
<1>8. pc' \in [Clients -> ClientSteps] /\ pc'[c] = "send" /\ (\A d \in Clients \ {c} : pc'[d] = pc[d])
      /\ ticket' \in [Clients -> Nat]
  BY <1>1, <1>2 DEF ClientTypes, ClientSteps
<1>9. ClientTypes'
  BY <1>1, <1>8 DEF ClientTypes
<1>10. ClientInv(c)'
  BY <1>1, <1>2, <1>3, <1>4, <1>8 DEF ClientInv, Submitting, Releasing, Dynamic, p
<1>11. q.pending + (IF pc[c] \in {"send", "blocked"} THEN 1 ELSE 0) + Len(p.ch) + Len(p.backlog)
         = p.pending + (IF pc'[c] \in {"send", "blocked"} THEN 1 ELSE 0) + Len(q.ch) + Len(q.backlog)
  BY <1>1, <1>2, <1>4, <1>8
<1>12. c \in Owed' => c \in Owed
  BY <1>1, <1>8 DEF Owed
<1> QED BY <1>1, <1>2, <1>3, <1>4, <1>5, <1>6, <1>7, <1>8, <1>9, <1>10, <1>11, <1>12, LaneStep DEF p

LEMMA SendKeeps == ASSUME IInv, NEW c \in Clients, Send(c), setup' = setup PROVE IInv'
<1> DEFINE l == at[c]
           p == lane[l]
           h == Append(p.ch, c)
           S == p.readers \ {c}
           r == [p EXCEPT !.ch = h]
           q == [r EXCEPT !.readers = S]
<1>1. ClientTypes /\ ClientInv(c) /\ pc[c] \in {"send", "blocked"} /\ lane \in [Lanes -> LaneRecords]
      /\ UNCHANGED <<setup, phase, ticket, handing, earlier, queues, barriers, control,
                     cleanup, section, made>>
      /\ lane' = [lane EXCEPT ![l] = Leave([lane[l] EXCEPT !.ch = Append(@, c)], c)]
      /\ accepted' = accepted \cup {c} /\ registered' = registered \ {c}
      /\ at' = [at EXCEPT ![c] = None] /\ pc' = [pc EXCEPT ![c] = "done"] /\ None \notin Lanes
  BY AsyncAssumption DEF IInv, TypeOK, Send, Goto
<1>2. l \in Lanes /\ p \in LaneRecords /\ LaneShape(p) /\ p.worker # "none" /\ ~p.closed
      /\ p.ch \in Seq(Clients) /\ p.pending \in Int /\ Len(p.ch) \in Nat /\ Len(p.backlog) \in Nat
      /\ S \in SUBSET Clients
  BY <1>1 DEF IInv, LanesInv, ClientInv, Submitting, LaneRecords
<1>3. lane' = [lane EXCEPT ![l] = q] /\ lane'[l] = q
  <2>1. r.readers = p.readers
    BY <1>2 DEF LaneRecords
  <2>2. lane' = [lane EXCEPT ![l] = Leave(r, c)]
    BY DEF Send
  <2>3. Leave(r, c) = q
    BY <2>1 DEF Leave
  <2> QED BY <1>1, <1>2, <2>2, <2>3
<1>h. h \in Seq(Clients) /\ Len(h) = Len(p.ch) + 1 /\ h[Len(h)] = c
      /\ \A i \in 1..Len(p.ch) : h[i] = p.ch[i]
  BY <1>2, AppendProperties
<1> HIDE DEF h, S
<1>4. q \in LaneRecords
      /\ q.ch = h /\ q.backlog = p.backlog /\ q.cur = p.cur /\ q.worker = p.worker
      /\ q.retired = p.retired /\ q.sealed = p.sealed /\ q.closed = p.closed
      /\ q.settled = p.settled /\ q.pending = p.pending /\ q.readers = S
  <2>1. r \in LaneRecords
    BY <1>2, <1>h, LaneFields
  <2>2. q \in LaneRecords
    <3> HIDE DEF r
    <3> QED BY <1>2, <2>1, LaneFields
  <2> QED BY <1>2, <2>2 DEF LaneRecords
<1> HIDE DEF q, r, p
<1>5. LaneShape(q) /\ (\A x : Holds(p, x) => Holds(q, x))
  BY <1>2, <1>4 DEF LaneShape, Holds, Ready
<1>6. (\A t : (HasTask(q, t) <=> HasTask(p, t)) /\ (OnLane(p, t) => OnLane(q, t))) /\ OnLane(q, c)
  <2>1. \A t : HasTask(q, t) <=> HasTask(p, t)
    BY <1>4 DEF HasTask
  <2>2. Len(h) \in 1..Len(h) /\ \A i \in 1..Len(p.ch) : i \in 1..Len(h)
    BY <1>2, <1>h
  <2> QED BY <2>1, <2>2, <1>4, <1>h DEF OnLane
<1>7. \A x : Holding(p, q, x)
  BY <1>4, <1>5, <1>6 DEF Holding
<1>8. pc' \in [Clients -> ClientSteps] /\ pc'[c] = "done" /\ (\A d \in Clients \ {c} : pc'[d] = pc[d])
      /\ at' \in [Clients -> Lanes \cup Clients \cup {None}] /\ at'[c] = None
      /\ (\A d \in Clients \ {c} : at'[d] = at[d])
  BY <1>1, <1>2 DEF ClientTypes, ClientSteps
<1>9. ClientTypes'
  BY <1>1, <1>8 DEF ClientTypes
<1>10. ClientInv(c)'
  BY <1>1, <1>8 DEF ClientInv, Submitting, Releasing
<1>11. q.pending + (IF pc[c] \in {"send", "blocked"} THEN 1 ELSE 0) + Len(p.ch) + Len(p.backlog)
         = p.pending + (IF pc'[c] \in {"send", "blocked"} THEN 1 ELSE 0) + Len(q.ch) + Len(q.backlog)
  <2>1. (IF pc[c] \in {"send", "blocked"} THEN 1 ELSE 0) = 1
        /\ (IF pc'[c] \in {"send", "blocked"} THEN 1 ELSE 0) = 0
    BY <1>1, <1>8
  <2> QED BY <2>1, <1>2, <1>4, <1>h, SMTT(60)
<1>12. lane[l].readers \ {c} \subseteq q.readers
  BY <1>4 DEF S, p
<1>13. \A d \in Clients \ {c} : /\ pc'[d] = pc[d] /\ phase'[d] = phase[d] /\ at'[d] = at[d]
                                  /\ d \in registered => d \in registered'
  BY <1>1, <1>8
<1> QED BY <1>1, <1>2, <1>3, <1>4, <1>5, <1>6, <1>7, <1>8, <1>9, <1>10, <1>11, <1>12, <1>13, LaneStep
        DEF p

\* The release of c is left in the backlog of its lane.
LEMMA HandoffStep ==
  ASSUME IInv, NEW c \in Clients, NEW f \in BOOLEAN, at[c] \in Lanes, Takes(lane[at[c]]),
         lane' = [lane EXCEPT ![at[c]] = enqueueMandatory(@, c, f)], Return(c),
         pc[c] \notin {"send", "blocked"},
         UNCHANGED <<setup, phase, ticket, accepted, earlier, queues, barriers, control,
                     cleanup, section, made>>,
         handing' \subseteq handing
  PROVE  IInv'
<1> DEFINE l == at[c]
           p == lane[l]
           q == enqueueMandatory(p, c, f)
<1>1. ClientTypes /\ ClientInv(c) /\ lane \in [Lanes -> LaneRecords] /\ l \in Lanes /\ p \in LaneRecords
      /\ LaneShape(p) /\ None \notin Lanes
      /\ registered' = registered \ {c} /\ at' = [at EXCEPT ![c] = None]
      /\ pc' = [pc EXCEPT ![c] = "done"]
  BY AsyncAssumption DEF IInv, TypeOK, LanesInv, Return, Goto
<1>2. p.pending \in Int /\ Len(p.ch) \in Nat /\ Len(p.backlog) \in Nat /\ p.worker # "none"
  BY <1>1 DEF LaneRecords, ClientInv
<1>3. lane' = [lane EXCEPT ![l] = q] /\ Takes(p) /\ q = enqueueMandatory(p, c, f)
  BY <1>1
<1> HIDE DEF q, p
<1>4. /\ q \in LaneRecords
      /\ q.ch = p.ch /\ q.cur = p.cur /\ q.worker = p.worker /\ q.retired = p.retired
      /\ q.sealed = p.sealed /\ q.closed = p.closed /\ q.readers = p.readers /\ q.pending = p.pending + 1
      /\ Len(q.backlog) = Len(p.backlog) + 1
      /\ (\A u : HasTask(q, u) <=> HasTask(p, u) \/ u = c)
      /\ (\A x : Holds(p, x) => Holds(q, x)) /\ LaneShape(q)
  <2>1. c \in Clients \cup Admins
    OBVIOUS
  <2> QED BY <1>1, <1>2, <1>3, <2>1, Enqueued
<1>5. \A x \in Admins : Holding(p, q, x)
  <2>1. \A x \in Admins : x # c
    BY AsyncAssumption
  <2> QED BY <2>1, <1>4 DEF Holding
<1>6. (\A d \in Clients : OnLane(p, d) => OnLane(q, d)) /\ OnLane(q, c)
  BY <1>4 DEF OnLane
<1>7. pc' \in [Clients -> ClientSteps] /\ pc'[c] = "done" /\ (\A d \in Clients \ {c} : pc'[d] = pc[d])
      /\ at' \in [Clients -> Lanes \cup Clients \cup {None}] /\ at'[c] = None
      /\ (\A d \in Clients \ {c} : at'[d] = at[d])
  BY <1>1 DEF ClientTypes, ClientSteps
<1>8. ClientTypes'
  BY <1>1, <1>7 DEF ClientTypes
<1>9. ClientInv(c)'
  BY <1>1, <1>7 DEF ClientInv, Submitting, Releasing
<1>10. q.pending + (IF pc[c] \in {"send", "blocked"} THEN 1 ELSE 0) + Len(p.ch) + Len(p.backlog)
         = p.pending + (IF pc'[c] \in {"send", "blocked"} THEN 1 ELSE 0) + Len(q.ch) + Len(q.backlog)
  <2>1. (IF pc[c] \in {"send", "blocked"} THEN 1 ELSE 0) = 0
        /\ (IF pc'[c] \in {"send", "blocked"} THEN 1 ELSE 0) = 0
    BY <1>7
  <2>a. q.pending = p.pending + 1 /\ q.ch = p.ch /\ Len(q.backlog) = Len(p.backlog) + 1
    BY <1>4
  <2>2. q.pending + 0 + Len(p.ch) + Len(p.backlog) = p.pending + 0 + Len(q.ch) + Len(q.backlog)
    BY ONLY <1>2, <2>a, SMTT(60)
  <2> QED BY <2>1, <2>2
<1>11. \A d \in Clients \ {c} : /\ pc'[d] = pc[d] /\ phase'[d] = phase[d] /\ at'[d] = at[d]
                                /\ d \in registered => d \in registered'
  BY <1>1, <1>7
<1>12. /\ lane[l].readers \ {c} \subseteq q.readers
       /\ stopped => registered' \subseteq registered /\ handing' \subseteq handing
  BY <1>1, <1>4 DEF p
<1> QED BY <1>1, <1>3, <1>4, <1>5, <1>6, <1>7, <1>8, <1>9, <1>10, <1>11, <1>12, LaneStep DEF p

LEMMA HandoffKeeps == ASSUME IInv, NEW c \in Clients, Handoff(c), setup' = setup PROVE IInv'
<1>1. ClientTypes /\ ClientInv(c) /\ pc[c] = "enqueue" /\ handing' = handing \ {c} /\ at[c] \in Lanes
      /\ None \notin Lanes /\ phase[c] = "release"
      /\ UNCHANGED <<setup, phase, ticket, accepted, earlier, queues, barriers, control,
                     cleanup, section, made>>
  BY AsyncAssumption DEF IInv, TypeOK, Handoff, ClientInv, Submitting, Releasing
<1>2. CASE Takes(lane[at[c]])
  <2>1. lane' = [lane EXCEPT ![at[c]] = enqueueMandatory(@, c, FALSE)] /\ Return(c)
    BY <1>2 DEF Handoff
  <2> QED BY <1>1, <1>2, <2>1, HandoffStep
<1>3. CASE ~Takes(lane[at[c]])
  <2> DEFINE s == IF Dynamic THEN "check" ELSE "stopped"
  <2>1. pc' = [pc EXCEPT ![c] = s] /\ at' = [at EXCEPT ![c] = None] /\ lane' = lane
        /\ registered' = registered
    BY <1>3 DEF Handoff, Goto
  <2>2. s \in ClientSteps /\ s \in {"check", "stopped"} /\ handing' \subseteq Clients
    BY <1>1 DEF ClientSteps, ClientTypes
  <2> HIDE DEF s
  <2> QED BY <1>1, <2>1, <2>2, Goes DEF Submitting, Releasing
<1> QED BY <1>2, <1>3

LEMMA LateHandoffKeeps == ASSUME IInv, NEW c \in Clients, LateHandoff(c), setup' = setup PROVE IInv'
<1>1. ClientTypes /\ ClientInv(c) /\ pc[c] = "late" /\ at[c] \in Lanes /\ lane[at[c]].worker # "none"
      /\ UNCHANGED <<setup, phase, ticket, handing, accepted, earlier, queues, barriers, control,
                     cleanup, section, made>>
  BY DEF IInv, TypeOK, LateHandoff, ClientInv
<1>2. CASE Takes(lane[at[c]])
  <2>1. lane' = [lane EXCEPT ![at[c]] = enqueueMandatory(@, c, TRUE)] /\ Return(c)
    BY <1>2 DEF LateHandoff
  <2> QED BY <1>1, <1>2, <2>1, HandoffStep
<1>3. CASE ~Takes(lane[at[c]])
  <2>1. pc' = [pc EXCEPT ![c] = "lifecycle"] /\ at' = at /\ lane' = lane /\ registered' = registered
    BY <1>3 DEF LateHandoff, Goto
  <2>2. at' = [at EXCEPT ![c] = at[c]]
    BY <1>1, <2>1, Stays
  <2>3. "lifecycle" \in ClientSteps /\ handing' \subseteq Clients
    BY <1>1 DEF ClientSteps, ClientTypes
  <2> QED BY <1>1, <2>1, <2>2, <2>3, Goes DEF Submitting, Releasing
<1> QED BY <1>2, <1>3


-----------------------------------------------------------------------------
(* A new lane. *)

LEMMA NewLaneFacts ==
  ASSUME active \in Admins \cup {None}
  PROVE  /\ NewLane \in LaneRecords /\ NewLane.worker = "loop" /\ LaneShape(NewLane)
         /\ NewLane.ch = <<>> /\ NewLane.cur = None /\ NewLane.pending = Len(NewLane.backlog)
         /\ Len(NewLane.backlog) \in Nat
         /\ ~NewLane.closed /\ ~NewLane.retired
         /\ \A x \in Admins : HasTask(NewLane, x) => x = active
         /\ active # None => HasTask(NewLane, active) /\ Holds(NewLane, active)
<1> DEFINE p == newKeyQueue
<1>1. /\ p \in LaneRecords /\ p.ch = <<>> /\ p.backlog = <<>> /\ p.cur = None
      /\ p.pending = 0 /\ p.worker = "loop" /\ ~p.closed /\ ~p.sealed /\ ~p.retired
      /\ p.admitted = 0 /\ p.settled = 0
  BY NewLanes
<1>2. None \notin Admins
  BY AsyncAssumption
<1> HIDE DEF p
<1>3. Len(p.backlog) = 0 /\ \A t : HasTask(p, t) => t = None
  BY <1>1, EmptySeq DEF HasTask
<1>4. LaneShape(p)
  BY <1>1 DEF LaneShape
<1>5. CASE active = None
  <2>1. NewLane = p
    BY <1>5 DEF NewLane, p
  <2> QED BY <1>1, <1>2, <1>3, <1>4, <1>5, <2>1
<1>6. CASE active # None
  <2> DEFINE q == enqueueMandatory(p, active, FALSE)
  <2>1. NewLane = q /\ active \in Admins
    BY <1>6 DEF NewLane, p
  <2> HIDE DEF q
  <2>2. /\ q \in LaneRecords
        /\ q.ch = p.ch /\ q.cur = p.cur /\ q.worker = p.worker /\ q.retired = p.retired
        /\ q.sealed = p.sealed /\ q.closed = p.closed /\ q.settled = p.settled
        /\ q.pending = p.pending + 1
        /\ Len(q.backlog) = Len(p.backlog) + 1 /\ q.backlog # <<>>
        /\ (\A u : HasTask(q, u) <=> HasTask(p, u) \/ u = active)
        /\ LaneShape(q)
        /\ Head(q.backlog).task = active /\ ~Head(q.backlog).fence /\ Head(q.backlog).target = 0
    <3> DEFINE f == FALSE
    <3>1. q = enqueueMandatory(p, active, f) /\ active \in Clients \cup Admins /\ Takes(p)
      BY <1>1, <2>1 DEF q, Takes
    <3>2. f \in BOOLEAN /\ ~f /\ p \in LaneRecords
      BY <1>1
    <3> HIDE DEF f
    <3>3. /\ q \in LaneRecords
          /\ q.ch = p.ch /\ q.cur = p.cur /\ q.worker = p.worker /\ q.retired = p.retired
          /\ q.sealed = p.sealed /\ q.closed = p.closed /\ q.settled = p.settled
          /\ q.pending = p.pending + 1
          /\ Len(q.backlog) = Len(p.backlog) + 1 /\ q.backlog # <<>>
          /\ (\A u : HasTask(q, u) <=> HasTask(p, u) \/ u = active)
          /\ (LaneShape(p) /\ Takes(p) /\ (p.worker # "none" \/ active \in Admins) => LaneShape(q))
          /\ (p.backlog = <<>> /\ ~f => Head(q.backlog).task = active /\ ~Head(q.backlog).fence
                                            /\ Head(q.backlog).target = p.admitted)
      BY ONLY <3>1, <3>2, Enqueued
    <3> QED BY <1>1, <1>4, <2>1, <3>1, <3>2, <3>3
  <2>3. Holds(q, active)
    BY <2>2, <1>1 DEF Holds, Ready
  <2>4. q.pending = Len(q.backlog) /\ Len(q.backlog) \in Nat
    BY <1>1, <1>3, <2>2
  <2> QED BY <1>1, <1>2, <1>3, <2>1, <2>2, <2>3, <2>4
<1> QED BY <1>5, <1>6

\* A lane that is free holds nothing for a client, and is parked on nothing.
LEMMA FreeHoldsNothing ==
  ASSUME NEW p \in LaneRecords, LaneShape(p), p.worker \in {"none", "exited"}
  PROVE  /\ p.worker # "parked" /\ p.cur = None
         /\ \A d \in Clients : ~OnLane(p, d)
<1>1. None \notin Clients /\ Clients \cap Admins = {}
  BY AsyncAssumption
<1>2. p.cur = None /\ p.ch = <<>> /\ \A i \in 1..Len(p.backlog) : p.backlog[i].task \in Admins
  BY EmptySeq DEF LaneShape
<1>3. Len(p.ch) = 0
  BY <1>2, EmptySeq
<1> QED BY <1>1, <1>2, <1>3 DEF OnLane, HasTask

LEMMA LaneCreated ==
  ASSUME IInv, NEW c \in Clients, pc[c] = "create", NEW l \in Lanes, NEW k \in Keys, k = RouteOf[c],
         ~stopping, ~Live(queues[k]), Free(l),
         lane' = [lane EXCEPT ![l] = NewLane], queues' = [queues EXCEPT ![k] = l],
         sec' = IF active = None THEN sec ELSE [sec EXCEPT ![active].expected = @ + 1],
         Found(c, l),
         UNCHANGED <<setup, ticket, handing, accepted, earlier, barriers, control,
                     cleanup, active, apc, made>>
  PROVE  IInv'
<1> DEFINE q == NewLane
<1>1. TypeOK /\ ClientTypes /\ RoutingTypes /\ SectionTypes /\ ClientInv(c) /\ lane \in [Lanes -> LaneRecords]
      /\ LanesInv /\ StopInv /\ Covered /\ QueuesInv /\ None \notin Lanes /\ active \in Admins \cup {None}
      /\ sec \in [Admins -> SectionRecords] /\ None \notin Admins
  BY AsyncAssumption DEF IInv, TypeOK, SectionTypes
<1>q. /\ q \in LaneRecords /\ q.worker = "loop" /\ LaneShape(q)
      /\ q.ch = <<>> /\ q.cur = None /\ q.pending = Len(q.backlog) /\ Len(q.backlog) \in Nat
      /\ ~q.closed /\ ~q.retired
      /\ \A x \in Admins : HasTask(q, x) => x = active
      /\ active # None => HasTask(q, active) /\ Holds(q, active)
  BY <1>1, NewLaneFacts
<1>2. lane'[l] = q /\ (\A m \in Lanes \ {l} : lane'[m] = lane[m]) /\ lane' \in [Lanes -> LaneRecords]
  BY <1>1, <1>q
<1> HIDE DEF q
<1>3. /\ lane[l].worker \in {"none", "exited"} /\ Dynamic /\ (\A j \in Keys : queues[j] # l)
      /\ \A d \in Clients : at[d] # l
  BY DEF Free, Garbage
<1>4. lane[l] \in LaneRecords /\ LaneShape(lane[l])
  BY <1>1 DEF LanesInv
<1>5. lane[l].worker # "parked" /\ lane[l].cur = None /\ \A d \in Clients : ~OnLane(lane[l], d)
  BY <1>3, <1>4, FreeHoldsNothing
<1> DEFINE s == IF phase[c] = "submit" THEN "gate" ELSE "register"
<1>6. at' = [at EXCEPT ![c] = l] /\ pc' = [pc EXCEPT ![c] = s] /\ phase' = phase
      /\ registered' = registered /\ s \in ClientSteps /\ s \in {"gate", "register"}
      /\ (s = "gate" => phase[c] = "submit") /\ (s = "register" => phase[c] = "release")
  BY <1>1 DEF Found, Goto, ClientSteps, ClientTypes
<1> HIDE DEF s
<1>7. /\ pc' \in [Clients -> ClientSteps] /\ pc'[c] = s /\ (\A d \in Clients \ {c} : pc'[d] = pc[d])
      /\ at' \in [Clients -> Lanes \cup Clients \cup {None}] /\ at'[c] = l
      /\ (\A d \in Clients \ {c} : at'[d] = at[d])
  BY <1>1, <1>6, Moved, MovedAt
<1>8. queues' \in [Keys -> Lanes \cup {None}] /\ queues'[k] = l /\ \A j \in Keys \ {k} : queues'[j] = queues[j]
  BY <1>1 DEF RoutingTypes
<1>9. /\ sec' \in [Admins -> SectionRecords]
      /\ \A x \in Admins : /\ sec'[x].lanes = sec[x].lanes /\ sec'[x].parked = sec[x].parked
                           /\ sec'[x].expected = (IF x = active THEN sec[x].expected + 1
                                                                ELSE sec[x].expected)
                           /\ sec'[x].running = sec[x].running
                           /\ sec'[x].draining = sec[x].draining
                           /\ sec'[x].deferred = sec[x].deferred
  <2>1. CASE active = None
    BY <2>1, <1>1
  <2>2. CASE active # None
    <3> DEFINE n == sec[active].expected + 1
               r == [sec[active] EXCEPT !.expected = n]
    <3>1. active \in Admins /\ sec' = [sec EXCEPT ![active] = r] /\ sec[active] \in SectionRecords
      BY <1>1, <2>2
    <3>n. n \in Nat
      BY <3>1 DEF SectionRecords
    <3>2. r \in SectionRecords /\ r.lanes = sec[active].lanes /\ r.parked = sec[active].parked
          /\ r.expected = n /\ r.running = sec[active].running
          /\ r.draining = sec[active].draining /\ r.deferred = sec[active].deferred
      <4> HIDE DEF n
      <4> QED BY <3>1, <3>n DEF SectionRecords
    <3> HIDE DEF r
    <3>3. sec'[active] = r /\ \A x \in Admins \ {active} : sec'[x] = sec[x]
      BY <1>1, <3>1
    <3> QED BY <1>1, <3>1, <3>2, <3>3
  <2> QED BY <2>1, <2>2
<1>10. TypeOK'
  <2>1. ClientTypes'
    BY <1>1, <1>6, <1>7 DEF ClientTypes
  <2>2. RoutingTypes' /\ SectionTypes' /\ StopTypes'
    BY <1>1, <1>8, <1>9 DEF TypeOK, RoutingTypes, SectionTypes, StopTypes, control, cleanup
  <2> QED BY <1>1, <1>2, <2>1, <2>2 DEF TypeOK, made
<1>11. LanesInv'
  <2>1. \A m \in Lanes : Sending(m)' = Sending(m)
    BY <1>6, <1>7, SameSending
  <2>2. Sending(l) = {}
    BY <1>3 DEF Sending
  <2>3. Cardinality(Sending(l)') = 0 /\ Len(q.ch) = 0
    BY <2>1, <2>2, <1>q, FS_EmptySet, EmptySeq
  <2>4. Pending(l)'
    <3>1. q.pending = 0 + Len(q.ch) + Len(q.backlog) + 0
      BY <2>3, <1>q
    <3>2. (IF q.cur = None THEN 0 ELSE 1) = 0
      BY <1>q
    <3> QED BY <2>3, <3>1, <3>2, <1>2 DEF Pending
  <2> QED BY <1>1, <1>2, <1>q, <2>1, <2>4, OneLane DEF control
<1>12. QueuesInv'
  <2>1. \A j \in Keys : queues'[j] # None => lane'[queues'[j]].worker # "none"
    <3> SUFFICES ASSUME NEW j \in Keys, queues'[j] # None PROVE lane'[queues'[j]].worker # "none"
      OBVIOUS
    <3>1. CASE j = k
      BY <3>1, <1>8, <1>2, <1>q
    <3>2. CASE j # k
      <4>1. queues'[j] = queues[j] /\ queues[j] \in Lanes \ {l}
        BY <3>2, <1>1, <1>3, <1>8 DEF RoutingTypes
      <4> QED BY <4>1, <1>1, <1>2 DEF QueuesInv
    <3> QED BY <3>1, <3>2
  <2> QED BY <2>1, <1>3 DEF QueuesInv, Dynamic
<1>13. StopInv'
  <2>1. stopping' = stopping /\ stopped' = stopped /\ stop' = stop /\ lifeSealed' = lifeSealed
    BY DEF control, cleanup
  <2> QED BY <1>1, <1>6, <2>1, SameStop
<1>14. Covered'
  <2>1. stopped' = stopped /\ apc' = apc /\ Dynamic'
    BY <1>3 DEF control, Dynamic
  <2>2. \A m \in Lanes \ {l} : Listed(m) => Listed(m)' \/ Quiet(lane'[m])
    <3> SUFFICES ASSUME NEW m \in Lanes \ {l}, Listed(m), ~Listed(m)' PROVE Quiet(lane'[m])
      OBVIOUS
    <3>1. PICK j \in Keys : queues[j] = m
      BY <1>3 DEF Listed
    <3>2. j = k
      BY <3>1, <1>8, <2>1 DEF Listed
    <3>3. lane[m].closed /\ m # None
      BY <1>1, <3>1, <3>2 DEF Live
    <3> QED BY <1>1, <1>2, <3>3 DEF LanesInv, Quiet
  <2>3. Listed(l)'
    BY <1>8, <2>1 DEF Listed
  <2>4. \A x \in Admins : apc[x] \in Published => active = x
    BY DEF IInv, SectionInv
  <2>5. ASSUME NEW x \in Admins, apc[x] \in {"running", "barriers", "parking"}, ~stopped, NEW m \in Lanes
        PROVE  Quiet(lane'[m]) \/ m \in sec'[x].lanes \/ m \in Barred(x)'
    <3>1. CASE m = l
      BY <3>1, <2>4, <2>5, <1>1, <1>2, <1>q DEF Barred, Published
    <3>2. CASE m # l
      <4>1. Quiet(lane[m]) \/ m \in sec[x].lanes \/ HasTask(lane[m], x)
        BY <1>1, <2>5 DEF Covered, Barred
      <4> QED BY <3>2, <4>1, <1>2, <1>9 DEF Barred
    <3> QED BY <3>1, <3>2
  <2>6. ASSUME NEW x \in Admins, apc[x] = "fn" \/ (apc[x] = "ready" /\ ~stopped), NEW m \in Lanes
        PROVE  Quiet(lane'[m]) \/ Holds(lane'[m], x)
    <3>1. CASE m = l
      BY <3>1, <2>4, <2>6, <1>1, <1>2, <1>q DEF Published
    <3>2. CASE m # l
      <4>1. Quiet(lane[m]) \/ Holds(lane[m], x)
        BY <1>1, <2>6 DEF Covered
      <4> QED BY <3>2, <4>1, <1>2
    <3> QED BY <3>1, <3>2
  <2>7. ASSUME ~stopped, NEW m \in Lanes PROVE Quiet(lane'[m]) \/ Listed(m)'
    <3>1. CASE m = l
      BY <3>1, <2>3
    <3>2. CASE m # l
      <4>1. Quiet(lane[m]) \/ Listed(m)
        BY <1>1, <2>7 DEF Covered
      <4> QED BY <3>2, <4>1, <2>2, <1>2
    <3> QED BY <3>1, <3>2
  <2> QED BY <2>1, <2>5, <2>6, <2>7 DEF Covered
<1>15. ASSUME NEW d \in Clients PROVE ClientInv(d)'
  <2>1. CASE d # c
    <3>1. ClientInv(d) /\ at[d] # l
      BY <1>3 DEF IInv
    <3>2. at[d] \in Lanes => lane'[at[d]] = lane[at[d]]
      BY <3>1, <1>2
    <3>3. lifecycle' = lifecycle /\ lifeSealed' = lifeSealed /\ barriers' = barriers
      BY DEF cleanup
    <3> QED BY <2>1, <3>1, <3>2, <3>3, <1>6, <1>7, OtherClient
  <2>2. CASE d = c
    <3>1. (phase[c] = "submit" => c \in registered)
      BY <1>1 DEF ClientInv
    <3>2. pc'[c] = s /\ at'[c] = l /\ phase'[c] = phase[c] /\ lane'[l].worker # "none"
      BY <1>2, <1>6, <1>7, <1>q
    <3> QED BY <2>2, <3>1, <3>2, <1>6 DEF ClientInv, Submitting, Releasing
  <2> QED BY <2>1, <2>2
<1>16. \A x \in Admins : SectionInv(x)'
  <2>1. \A x \in Admins : SectionInv(x)
    BY DEF IInv
  <2>2. \A d \in Clients : pc'[d] = "offlane" => pc[d] = "offlane"
    BY <1>6, <1>7
  <2> QED BY <2>1, <2>2, <1>9, SameSections
<1>17. ASSUME NEW x \in Admins PROVE BarriersCounted(x)'
  <2>1. BarriersCounted(x) /\ sec[x].expected \in Nat /\ sec[x].parked \in Nat
    BY <1>1 DEF IInv, SectionRecords
  <2>2. ParkedOn(x)' = ParkedOn(x)
    <3>1. l \notin ParkedOn(x) /\ l \notin ParkedOn(x)'
      BY <1>2, <1>5, <1>q DEF ParkedOn
    <3> QED BY <3>1, <1>2 DEF ParkedOn
  <2>3. Cardinality(Barred(x)') <= (IF x = active THEN Cardinality(Barred(x)) + 1 ELSE Cardinality(Barred(x)))
    <3>1. CASE x = active
      <4>1. Barred(x)' \subseteq Barred(x) \cup {l}
        BY <1>2 DEF Barred
      <4>2. IsFiniteSet(Barred(x) \cup {l}) /\ Cardinality(Barred(x) \cup {l}) <= Cardinality(Barred(x)) + 1
        <5> DEFINE B == Barred(x)
        <5>1. IsFiniteSet(B) /\ Cardinality(B) \in Nat
          BY LanesFinite
        <5> HIDE DEF B
        <5>2. IsFiniteSet(B \cup {l})
              /\ Cardinality(B \cup {l}) = (IF l \in B THEN Cardinality(B) ELSE Cardinality(B) + 1)
          BY <5>1, FS_AddElement
        <5>3. IsFiniteSet(B \cup {l}) /\ Cardinality(B \cup {l}) <= Cardinality(B) + 1
          BY <5>1, <5>2
        <5> QED BY <5>3 DEF B
      <4>3. Cardinality(Barred(x)') <= Cardinality(Barred(x) \cup {l})
        BY <4>1, <4>2, FS_Subset
      <4>4. Cardinality(Barred(x) \cup {l}) \in Nat
        BY <4>2, FS_CardinalityType
      <4> QED BY <3>1, <4>2, <4>3, <4>4, LanesFinite
    <3>2. CASE x # active
      <4>1. Barred(x)' \subseteq Barred(x)
        BY <3>2, <1>2, <1>q DEF Barred
      <4> QED BY <3>2, <4>1, LanesFinite, FS_Subset
    <3> QED BY <3>1, <3>2
  <2>4. Cardinality(Barred(x)) \in Nat /\ Cardinality(Barred(x)') \in Nat
    BY LanesFinite
  <2>5. sec'[x].expected = (IF x = active THEN sec[x].expected + 1 ELSE sec[x].expected)
        /\ sec'[x].parked = sec[x].parked /\ apc'[x] = apc[x]
    BY <1>9
  <2>6. apc[x] # "done" => Cardinality(Barred(x)) <= sec[x].expected /\ sec[x].parked <= Cardinality(ParkedOn(x))
    BY <2>1 DEF BarriersCounted
  <2>7. apc[x] # "done" => Cardinality(Barred(x)') <= sec'[x].expected
    BY <2>1, <2>3, <2>4, <2>5, <2>6
  <2> QED BY <2>2, <2>5, <2>6, <2>7 DEF BarriersCounted
<1>18. \A d \in Owed' : Kept(d)'
  <2>1. \A d \in Owed : Kept(d)
    BY DEF IInv
  <2>2. \A d \in Clients, m \in Lanes : OnLane(lane[m], d) => OnLane(lane'[m], d)
    BY <1>2, <1>5
  <2>3. \A d \in Clients, x \in Admins : Postponed(sec[x], d) => Postponed(sec'[x], d)
    BY <1>9 DEF Postponed
  <2>4. \A d \in Owed' : d \in Clients /\ d \in Owed
    BY <1>1, <1>6, <1>7, AsyncAssumption DEF Owed, ClientTypes
  <2>5. finished' = finished
    BY DEF made
  <2> QED BY <2>1, <2>2, <2>3, <2>4, <2>5, StillKept
<1> QED BY <1>10, <1>11, <1>12, <1>13, <1>14, <1>15, <1>16, <1>17, <1>18 DEF IInv

LEMMA CreateKeeps == ASSUME IInv, NEW c \in Clients, Create(c), setup' = setup PROVE IInv'
<1> DEFINE k == RouteOf[c]
<1>1. TypeOK /\ ClientTypes /\ RoutingTypes /\ ClientInv(c) /\ pc[c] = "create" /\ k \in Keys /\ QueuesInv
      /\ None \notin Lanes /\ Clients \cap Lanes = {} /\ Laid \subseteq Lanes
      /\ UNCHANGED <<setup, ticket, handing, accepted, earlier, barriers, control,
                     cleanup, active, apc, made>>
  BY AsyncAssumption DEF IInv, TypeOK, Create, Laid
<1>2. ASSUME UNCHANGED <<lane, queues, sec>>
      PROVE  UNCHANGED <<setup, lane, queues, barriers, control, cleanup, section, made,
                         accepted, ticket, handing, earlier>>
  BY <1>1, <1>2 DEF section
<1>3. CASE stopping
  <2>1. Refused(c) /\ UNCHANGED <<lane, queues, sec>>
    BY <1>3 DEF Create
  <2> QED BY <1>1, <1>2, <2>1, RefusedKeeps
<1>4. CASE ~stopping /\ Live(queues[k])
  <2>1. Found(c, queues[k]) /\ UNCHANGED <<lane, queues, sec>>
    BY <1>4 DEF Create
  <2>2. queues[k] \in Lanes /\ lane[queues[k]].worker # "none"
    BY <1>1, <1>4 DEF Live, RoutingTypes, QueuesInv
  <2> QED BY <1>1, <1>2, <2>1, <2>2, FoundKeeps
<1>5. CASE ~stopping /\ ~Live(queues[k]) /\ barriers[k] # None
  <2>1. at' = [at EXCEPT ![c] = barriers[k]] /\ pc' = [pc EXCEPT ![c] = "barrier"]
        /\ UNCHANGED <<phase, registered, lane, queues, sec>>
    BY <1>5 DEF Create, Goto
  <2>2. "barrier" \in ClientSteps /\ handing' \subseteq Clients
        /\ barriers[k] \in Lanes \cup Clients \cup {None} /\ barriers[k] \notin Lanes
        /\ (phase[c] = "submit" => c \in registered)
    BY <1>1 DEF ClientSteps, ClientTypes, RoutingTypes, ClientInv
  <2> QED BY <1>1, <1>2, <2>1, <2>2, Goes DEF Submitting, Releasing
<1>6. CASE ~stopping /\ ~Live(queues[k]) /\ barriers[k] = None
           /\ MaxQueues > 0 /\ LiveQueues >= MaxQueues
  <2>1. UNCHANGED <<lane, queues, sec>>
    BY <1>6 DEF Create
  <2>2. CASE phase[c] = "submit"
    <3>1. Fail(c)
      BY <1>6, <2>2 DEF Create
    <3> QED BY <1>1, <1>2, <2>1, <3>1, FailsMoving
  <2>3. CASE phase[c] # "submit"
    <3>1. pc' = [pc EXCEPT ![c] = "limit"] /\ UNCHANGED <<phase, registered, at>>
      BY <1>6, <2>3 DEF Create, Goto
    <3>2. at' = [at EXCEPT ![c] = at[c]] /\ at[c] \in Lanes \cup Clients \cup {None}
      BY <1>1, <3>1, Stays
    <3>3. "limit" \in ClientSteps /\ handing' \subseteq Clients /\ phase[c] = "release"
          /\ (at[c] \in Lanes => lane[at[c]].worker # "none")
      BY <1>1, <2>3 DEF ClientSteps, ClientTypes, ClientInv
    <3> QED BY <1>1, <1>2, <2>1, <3>1, <3>2, <3>3, Goes DEF Submitting, Releasing
  <2> QED BY <2>2, <2>3
<1>7. CASE ~stopping /\ ~Live(queues[k]) /\ barriers[k] = None
           /\ ~(MaxQueues > 0 /\ LiveQueues >= MaxQueues)
  <2>1. PICK l \in Laid : /\ Free(l)
                          /\ lane' = [lane EXCEPT ![l] = NewLane]
                          /\ queues' = [queues EXCEPT ![k] = l]
                          /\ sec' = IF active = None THEN sec
                                    ELSE [sec EXCEPT ![active].expected = @ + 1]
                          /\ Found(c, l)
    BY <1>7 DEF Create
  <2>2. l \in Lanes
    BY <1>1
  <2> QED BY <1>1, <1>7, <2>1, <2>2, LaneCreated
<1> QED BY <1>3, <1>4, <1>5, <1>6, <1>7


-----------------------------------------------------------------------------
(* The steps of a worker. *)

One(x) == IF x = None THEN 0 ELSE 1

LEMMA SameBalance ==
  ASSUME NEW u \in Int, NEW p1 \in Int, NEW p2 \in Int, NEW h1 \in Int, NEW h2 \in Int,
         NEW b1 \in Int, NEW b2 \in Int, NEW n1 \in Int, NEW n2 \in Int,
         p1 = u + h1 + b1 + n1, p2 + h1 + b1 + n1 = p1 + h2 + b2 + n2
  PROVE  p2 = u + h2 + b2 + n2
OBVIOUS

\* The worker of lane l makes it q.
LEMMA WorkerStep ==
  ASSUME IInv, NEW l \in Lanes, NEW q \in LaneRecords, lane' = [lane EXCEPT ![l] = q],
         UNCHANGED <<setup, client, queues, barriers, control, cleanup, active, apc>>,
         starts' \in [Clients -> Nat], finished' \subseteq Clients, finished \subseteq finished',
         sec' \in [Admins -> SectionRecords],
         \A x \in Admins : /\ sec'[x].lanes = sec[x].lanes /\ sec'[x].expected = sec[x].expected
                           /\ sec'[x].running = sec[x].running /\ sec'[x].draining = sec[x].draining
                           /\ sec'[x].deferred = sec[x].deferred,
         lane[l].worker \notin {"none", "exited"}, LaneShape(q),
         q.pending + Len(lane[l].ch) + Len(lane[l].backlog) + One(lane[l].cur)
           = lane[l].pending + Len(q.ch) + Len(q.backlog) + One(q.cur),
         \/ /\ q.worker # "none" /\ q.readers = lane[l].readers
            /\ q.closed = lane[l].closed /\ q.retired = lane[l].retired
         \/ /\ Garbage(l) /\ q.worker = "none" /\ ~q.closed /\ ~q.retired,
         \A x \in Admins : apc[x] # "done" => Holding(lane[l], q, x),
         \A d \in Clients : OnLane(lane[l], d) => OnLane(q, d) \/ d \in finished',
         \/ \A x \in Admins : sec'[x].parked = sec[x].parked
         \/ \A x \in Admins : BarriersCounted(x)'
  PROVE  IInv'
<1>1. TypeOK /\ lane \in [Lanes -> LaneRecords] /\ lane[l] \in LaneRecords /\ LanesInv /\ QueuesInv
      /\ StopInv /\ Covered /\ SectionTypes /\ ClientTypes /\ RoutingTypes
  BY DEF IInv, TypeOK
<1>2. lane'[l] = q /\ (\A m \in Lanes \ {l} : lane'[m] = lane[m]) /\ lane' \in [Lanes -> LaneRecords]
  BY <1>1
<1>3. /\ UNCHANGED <<pc, phase, at, ticket, registered, handing, accepted, earlier>>
      /\ UNCHANGED <<stopping, stopped, stop, hard, stops, cleanupOn, lifecycle, lifeSealed>>
  BY DEF client, control, cleanup
<1>4. TypeOK'
  BY <1>1, <1>2, <1>3 DEF TypeOK, ClientTypes, RoutingTypes, StopTypes, SectionTypes
<1>5. LanesInv'
  <2>1. \A m \in Lanes : Sending(m)' = Sending(m)
    BY <1>3 DEF Sending
  <2>2. Pending(l)'
    <3>1. /\ lane[l].pending \in Int /\ q.pending \in Int
          /\ Len(lane[l].ch) \in Int /\ Len(lane[l].backlog) \in Int
          /\ Len(q.ch) \in Int /\ Len(q.backlog) \in Int
          /\ One(lane[l].cur) \in Int /\ One(q.cur) \in Int /\ Cardinality(Sending(l)) \in Int
      BY <1>1, SendingFinite DEF LaneRecords, One
    <3>2. lane[l].pending = Cardinality(Sending(l)) + Len(lane[l].ch) + Len(lane[l].backlog) + One(lane[l].cur)
      BY <1>1 DEF LanesInv, Pending, One
    <3>3. q.pending = Cardinality(Sending(l)) + Len(q.ch) + Len(q.backlog) + One(q.cur)
      <4> DEFINE u == Cardinality(Sending(l))
                 p1 == lane[l].pending
                 p2 == q.pending
                 h1 == Len(lane[l].ch)
                 h2 == Len(q.ch)
                 b1 == Len(lane[l].backlog)
                 b2 == Len(q.backlog)
                 n1 == One(lane[l].cur)
                 n2 == One(q.cur)
      <4>1. u \in Int /\ p1 \in Int /\ p2 \in Int /\ h1 \in Int /\ h2 \in Int
            /\ b1 \in Int /\ b2 \in Int /\ n1 \in Int /\ n2 \in Int
        BY <3>1
      <4>2. p1 = u + h1 + b1 + n1
        BY <3>2
      <4>3. p2 + h1 + b1 + n1 = p1 + h2 + b2 + n2
        OBVIOUS
      <4> SUFFICES p2 = u + h2 + b2 + n2
        OBVIOUS
      <4> HIDE DEF u, p1, p2, h1, h2, b1, b2, n1, n2
      <4> QED BY <4>1, <4>2, <4>3, SameBalance
    <3> QED BY <3>3, <2>1, <1>2 DEF Pending, One
  <2>3. (q.retired => Dynamic) /\ (q.closed => q.retired \/ stopping)
    BY <1>1 DEF LanesInv
  <2> QED BY <1>1, <1>2, <1>3, <2>1, <2>2, <2>3, OneLane
<1>6. Garbage(l) => Dynamic /\ (\A k \in Keys : queues[k] # l) /\ \A d \in Clients : at[d] # l
  BY DEF Garbage
<1>7. QueuesInv'
  <2>1. ASSUME NEW k \in Keys, queues[k] # None PROVE lane'[queues[k]].worker # "none"
    <3>1. queues[k] \in Lanes /\ lane[queues[k]].worker # "none"
      BY <1>1, <2>1 DEF QueuesInv, RoutingTypes
    <3> QED BY <3>1, <1>2, <1>6
  <2>2. ASSUME ~Dynamic, NEW m \in Lanes PROVE m \in Laid <=> lane'[m].worker # "none"
    BY <1>1, <1>2, <1>6, <2>2 DEF QueuesInv
  <2> QED BY <2>1, <2>2 DEF QueuesInv, Dynamic, Laid
<1>8. StopInv'
  <2>1. \A m \in Lanes : lane[m].worker \in {"none", "exited"} => lane'[m].worker \in {"none", "exited"}
    BY <1>2
  <2> QED BY <1>1, <1>3, <2>1, SameStop
<1>9. Covered'
  <2>1. \A m \in Lanes : Listed(m)' = Listed(m)
    BY DEF Listed, Dynamic, Laid
  <2>2. \A m \in Lanes : Quiet(lane[m]) => Quiet(lane'[m])
    BY <1>2 DEF Quiet
  <2>3. \A m \in Lanes, x \in Admins : apc[x] # "done" => Holding(lane[m], lane'[m], x)
    BY <1>2, SameHolding
  <2> QED BY <1>1, <1>3, <2>1, <2>2, <2>3, CoverKept
<1>10. ASSUME NEW x \in Admins PROVE BarriersCounted(x)'
  <2>1. CASE \A y \in Admins : sec'[y].parked = sec[y].parked
    <3>1. BarriersCounted(x) /\ sec[x].expected \in Nat /\ sec[x].parked \in Nat
      BY <1>1 DEF IInv, SectionTypes, SectionRecords
    <3>2. apc[x] # "done" => \A m \in Lanes : Holding(lane[m], lane'[m], x)
      BY <1>2, SameHolding
    <3> QED BY <2>1, <3>1, <3>2, CountKept
  <2> QED BY <2>1
<1>11. ASSUME NEW d \in Clients PROVE ClientInv(d)'
  <2>1. ClientInv(d)
    BY DEF IInv
  <2>2. at[d] \in Lanes => /\ lane[at[d]].worker # "none" => lane'[at[d]].worker # "none"
                           /\ lane'[at[d]].closed = lane[at[d]].closed
                           /\ lane'[at[d]].readers = lane[at[d]].readers
    BY <1>2, <1>6
  <2> QED BY <2>1, <2>2, <1>3, OtherClient
<1>12. \A x \in Admins : SectionInv(x)'
  <2>1. \A x \in Admins : SectionInv(x)
    BY DEF IInv
  <2> QED BY <1>3, <2>1, SameSections
<1>13. \A d \in Owed' : Kept(d)'
  <2>1. \A d \in Owed : Kept(d)
    BY DEF IInv
  <2>2. \A d \in Clients, m \in Lanes : OnLane(lane[m], d) => OnLane(lane'[m], d) \/ d \in finished'
    BY <1>2
  <2>3. \A d \in Clients, x \in Admins : Postponed(sec[x], d) => Postponed(sec'[x], d)
    BY DEF Postponed
  <2>4. \A d \in Owed' : d \in Clients /\ d \in Owed
    BY <1>1, <1>3, AsyncAssumption DEF Owed, ClientTypes
  <2> QED BY <2>1, <2>2, <2>3, <2>4, StillKept
<1> QED BY <1>4, <1>5, <1>7, <1>8, <1>9, <1>10, <1>11, <1>12, <1>13 DEF IInv


LEMMA TakenTask ==
  ASSUME NEW p \in LaneRecords, NEW q \in LaneRecords, p.backlog # <<>>, p.cur = None,
         q.backlog = Tail(p.backlog), q.cur = Head(p.backlog).task, q.ch = p.ch
  PROVE  /\ Len(q.backlog) = Len(p.backlog) - 1 /\ Len(p.backlog) \in Nat
         /\ q.cur \in Clients \cup Admins
         /\ \A u \in Clients \cup Admins : HasTask(q, u) <=> HasTask(p, u)
         /\ \A d \in Clients : OnLane(p, d) => OnLane(q, d)
<1>1. p.backlog \in Seq(Entries) /\ None \notin Clients \cup Admins
  BY AsyncAssumption DEF LaneRecords
<1> DEFINE b == p.backlog
<1>2. Head(b) = b[1] /\ Len(Tail(b)) = Len(b) - 1 /\ Len(b) \in Nat \ {0}
      /\ \A i \in 1..Len(Tail(b)) : Tail(b)[i] = b[i + 1]
  BY <1>1, HeadTailProperties, EmptySeq
<1>3. b[1] \in Entries
  BY <1>1, <1>2
<1>4. b[1].task \in Clients \cup Admins
  BY <1>3 DEF Entries
<1>5. ASSUME NEW u \in Clients \cup Admins PROVE HasTask(q, u) <=> HasTask(p, u)
  <2>1. ASSUME NEW i \in 1..Len(b), b[i].task = u
        PROVE  b[1].task = u \/ \E j \in 1..Len(Tail(b)) : Tail(b)[j].task = u
    <3>1. CASE i = 1
      BY <3>1, <2>1
    <3>2. CASE i # 1
      <4>1. i - 1 \in 1..Len(Tail(b)) /\ Tail(b)[i - 1] = b[i]
        BY <1>2, <3>2
      <4> QED BY <4>1, <2>1
    <3> QED BY <3>1, <3>2
  <2>2. ASSUME NEW j \in 1..Len(Tail(b)), Tail(b)[j].task = u PROVE \E i \in 1..Len(b) : b[i].task = u
    <3>1. j + 1 \in 1..Len(b) /\ b[j + 1] = Tail(b)[j]
      BY <1>2
    <3> QED BY <3>1, <2>2
  <2>3. b[1].task = u => \E i \in 1..Len(b) : b[i].task = u
    BY <1>2
  <2>4. p.cur # u
    BY <1>1
  <2> HIDE DEF b
  <2>5. (\E i \in 1..Len(b) : b[i].task = u)
          <=> b[1].task = u \/ \E j \in 1..Len(Tail(b)) : Tail(b)[j].task = u
    BY <2>1, <2>2, <2>3
  <2>6. HasTask(q, u) <=> b[1].task = u \/ \E j \in 1..Len(Tail(b)) : Tail(b)[j].task = u
    BY <1>2 DEF HasTask, b
  <2>7. HasTask(p, u) <=> \E i \in 1..Len(b) : b[i].task = u
    BY <2>4 DEF HasTask, b
  <2> QED BY <2>5, <2>6, <2>7
<1>6. \A d \in Clients : OnLane(p, d) => OnLane(q, d)
  BY <1>5 DEF OnLane
<1> QED BY <1>2, <1>4, <1>5, <1>6

LEMMA TakeKeeps == ASSUME IInv, NEW l \in Lanes, Take(l), setup' = setup PROVE IInv'
<1> DEFINE p == lane[l]
           t == Head(p.backlog).task
           b == Tail(p.backlog)
           w == IF ~Barrier(t) THEN "release" ELSE IF hard THEN "parked" ELSE "barrier"
           q1 == [p EXCEPT !.backlog = b]
           q2 == [q1 EXCEPT !.cur = t]
           q == [q2 EXCEPT !.worker = w]
<1>1. TypeOK /\ lane \in [Lanes -> LaneRecords] /\ p \in LaneRecords /\ LaneShape(p) /\ p.worker = "loop"
      /\ Ready(PassedFence(p)) /\ starts \in [Clients -> Nat] /\ finished \subseteq Clients
      /\ sec \in [Admins -> SectionRecords] /\ p.backlog \in Seq(Entries) /\ p.pending \in Int
  BY DEF IInv, TypeOK, SectionTypes, LanesInv, Take, LaneRecords
<1>2. /\ lane' = [lane EXCEPT ![l].backlog = Tail(@), ![l].cur = t, ![l].worker = w]
      /\ starts' = IF Barrier(t) THEN starts ELSE [starts EXCEPT ![t] = @ + 1]
      /\ sec' = IF Barrier(t) /\ hard THEN [sec EXCEPT ![t].aborted = TRUE] ELSE sec
      /\ UNCHANGED <<setup, client, queues, barriers, control, cleanup, active, apc, finished>>
  BY DEF Take
<1>3. p.cur = None /\ p.backlog # <<>>
  <2> DEFINE f == PassedFence(p)
  <2>1. f.backlog # <<>> /\ f = PassedFence(p)
    BY <1>1 DEF Ready
  <2> HIDE DEF f
  <2>2. f \in LaneRecords /\ Len(f.backlog) = Len(p.backlog)
    BY <1>1, <2>1, Fenced
  <2>3. f.backlog \in Seq(Entries)
    BY <2>2 DEF LaneRecords
  <2> QED BY <1>1, <2>1, <2>2, <2>3, EmptySeq DEF LaneShape
<1>4. b \in Seq(Entries) /\ Len(p.backlog) \in Nat /\ Len(p.ch) \in Nat
  BY <1>1, <1>3, HeadTailProperties DEF LaneRecords
<1>5. t \in Clients \cup Admins /\ w \in WorkerSteps
      /\ (w = "release" => t \in Clients) /\ (w \in {"barrier", "parked"} => t \in Admins)
      /\ w \in {"release", "barrier", "parked"}
  <2>1. Head(p.backlog) \in Entries
    BY <1>1, <1>3, HeadTailProperties
  <2> QED BY <2>1 DEF Entries, Barrier, WorkerSteps
<1>6. lane' = [lane EXCEPT ![l] = q]
  BY <1>1, <1>2
<1> HIDE DEF b, t, w
<1>7. q1 \in LaneRecords
  BY <1>1, <1>4, LaneFields
<1>8. q2 \in LaneRecords
  <2> HIDE DEF q1
  <2> QED BY <1>7, <1>5, LaneFields
<1>9. q \in LaneRecords
  <2> HIDE DEF q2
  <2> QED BY <1>8, <1>5, LaneFields
<1>10. q.backlog = b /\ q.cur = t /\ q.worker = w /\ q.ch = p.ch /\ q.pending = p.pending
       /\ q.readers = p.readers /\ q.closed = p.closed /\ q.retired = p.retired /\ q.sealed = p.sealed
  BY <1>1 DEF LaneRecords
<1> HIDE DEF q, q1, q2, p
<1>11. /\ Len(q.backlog) = Len(p.backlog) - 1
       /\ \A u \in Clients \cup Admins : HasTask(q, u) <=> HasTask(p, u)
       /\ \A d \in Clients : OnLane(p, d) => OnLane(q, d)
  BY <1>1, <1>3, <1>9, <1>10, TakenTask DEF b, t
<1>12. LaneShape(q)
  BY <1>1, <1>3, <1>5, <1>10 DEF LaneShape
<1>13. q.pending + Len(p.ch) + Len(p.backlog) + One(p.cur) = p.pending + Len(q.ch) + Len(q.backlog) + One(q.cur)
  <2>1. One(p.cur) = 0 /\ One(q.cur) = 1
    BY <1>3, <1>5, <1>10, AsyncAssumption DEF One
  <2> QED BY <2>1, <1>1, <1>4, <1>10, <1>11
<1>14. ASSUME NEW x \in Admins PROVE Holding(p, q, x)
  <2>1. Holds(p, x) => w \in {"barrier", "parked"} /\ t = x
    <3>1. Holds(p, x) => t = x
      BY <1>1 DEF Holds, t
    <3>2. x \notin Clients
      BY AsyncAssumption
    <3> QED BY <3>1, <3>2, <1>5
  <2> QED BY <2>1, <1>1, <1>10, <1>11 DEF Holding, Holds
<1>15. starts' \in [Clients -> Nat]
  BY <1>1, <1>2, <1>5 DEF Barrier
<1>16. /\ sec' \in [Admins -> SectionRecords]
       /\ \A x \in Admins : /\ sec'[x].lanes = sec[x].lanes /\ sec'[x].expected = sec[x].expected
                           /\ sec'[x].running = sec[x].running /\ sec'[x].draining = sec[x].draining
                           /\ sec'[x].deferred = sec[x].deferred /\ sec'[x].parked = sec[x].parked
  <2>1. CASE Barrier(t) /\ hard
    <3> DEFINE r == [sec[t] EXCEPT !.aborted = TRUE]
    <3>1. t \in Admins /\ sec' = [sec EXCEPT ![t] = r] /\ sec[t] \in SectionRecords
      BY <1>1, <1>2, <2>1 DEF Barrier
    <3>2. r \in SectionRecords /\ r.lanes = sec[t].lanes /\ r.parked = sec[t].parked
          /\ r.expected = sec[t].expected /\ r.running = sec[t].running
          /\ r.draining = sec[t].draining /\ r.deferred = sec[t].deferred
      BY <3>1 DEF SectionRecords
    <3> HIDE DEF r
    <3>3. sec'[t] = r /\ \A x \in Admins \ {t} : sec'[x] = sec[x]
      BY <1>1, <3>1
    <3> QED BY <1>1, <3>1, <3>2, <3>3
  <2>2. CASE ~(Barrier(t) /\ hard)
    BY <1>1, <1>2, <2>2
  <2> QED BY <2>1, <2>2
<1>17. lane[l] = p /\ finished' = finished /\ finished' \subseteq Clients
       /\ q.worker # "none" /\ lane[l].worker \notin {"none", "exited"}
  BY <1>1, <1>2, <1>5, <1>10 DEF p
<1> QED BY <1>2, <1>6, <1>9, <1>10, <1>11, <1>12, <1>13, <1>14, <1>15, <1>16, <1>17, WorkerStep


\* The steps of a worker that leave the sections and the calls alone.
LEMMA PlainWorkerStep ==
  ASSUME IInv, NEW l \in Lanes, NEW q \in LaneRecords, lane' = [lane EXCEPT ![l] = q],
         UNCHANGED <<setup, client, queues, barriers, control, cleanup, section, made>>,
         lane[l].worker \notin {"none", "exited"}, LaneShape(q),
         q.pending + Len(lane[l].ch) + Len(lane[l].backlog) + One(lane[l].cur)
           = lane[l].pending + Len(q.ch) + Len(q.backlog) + One(q.cur),
         \/ /\ q.worker # "none" /\ q.readers = lane[l].readers
            /\ q.closed = lane[l].closed /\ q.retired = lane[l].retired
         \/ /\ Garbage(l) /\ q.worker = "none" /\ ~q.closed /\ ~q.retired,
         \A x \in Admins : apc[x] # "done" => Holding(lane[l], q, x),
         \A d \in Clients : OnLane(lane[l], d) => OnLane(q, d)
  PROVE  IInv'
<1>1. sec \in [Admins -> SectionRecords] /\ starts \in [Clients -> Nat] /\ finished \subseteq Clients
  BY DEF IInv, TypeOK, SectionTypes
<1>2. UNCHANGED <<active, apc, sec, starts, finished>>
  BY DEF section, made
<1> QED BY <1>1, <1>2, WorkerStep

\* ... and the queues of the lane too.
LEMMA StillWorkerStep ==
  ASSUME IInv, NEW l \in Lanes, NEW q \in LaneRecords, lane' = [lane EXCEPT ![l] = q],
         UNCHANGED <<setup, client, queues, barriers, control, cleanup, section, made>>,
         lane[l].worker \notin {"none", "exited"}, LaneShape(q),
         q.pending = lane[l].pending, q.ch = lane[l].ch, q.cur = lane[l].cur,
         Len(q.backlog) = Len(lane[l].backlog),
         \A i \in 1..Len(q.backlog) : q.backlog[i].task = lane[l].backlog[i].task,
         q.worker # "none", q.readers = lane[l].readers,
         q.closed = lane[l].closed, q.retired = lane[l].retired,
         lane[l].worker # "parked",
         \A x \in Admins : ~Holds(lane[l], x)
  PROVE  IInv'
<1>1. lane[l] \in LaneRecords
  BY DEF IInv, TypeOK
<1>2. lane[l].pending \in Int /\ Len(lane[l].ch) \in Nat /\ Len(lane[l].backlog) \in Nat
  BY <1>1 DEF LaneRecords
<1>3. \A u : (HasTask(q, u) <=> HasTask(lane[l], u)) /\ (OnLane(q, u) <=> OnLane(lane[l], u))
  BY DEF HasTask, OnLane
<1>4. \A x \in Admins : Holding(lane[l], q, x)
  BY <1>3 DEF Holding
<1>5. q.pending + Len(lane[l].ch) + Len(lane[l].backlog) + One(lane[l].cur)
           = lane[l].pending + Len(q.ch) + Len(q.backlog) + One(q.cur)
  BY <1>2
<1> QED BY <1>3, <1>4, <1>5, PlainWorkerStep

LEMMA WaitKeeps == ASSUME IInv, NEW l \in Lanes, Wait(l), setup' = setup PROVE IInv'
<1> DEFINE p == lane[l]
<1>1. lane \in [Lanes -> LaneRecords] /\ p \in LaneRecords /\ LaneShape(p) /\ p.worker = "loop"
      /\ ~Ready(PassedFence(p)) /\ p.cur = None
      /\ UNCHANGED <<setup, client, queues, barriers, control, cleanup, section, made>>
  BY DEF IInv, TypeOK, LanesInv, Wait, LaneShape
<1>2. \A x \in Admins : ~Holds(p, x)
  <2>1. ~Ready(p)
    <3> DEFINE f == PassedFence(p)
    <3>1. f = PassedFence(p) /\ ~Ready(f)
      BY <1>1
    <3> HIDE DEF f
    <3>2. Ready(p) => f = p
      BY <1>1, <3>1, Fenced
    <3> QED BY <3>1, <3>2
  <2> QED BY <2>1, <1>1 DEF Holds
<1>3. CASE p.sealed /\ p.backlog = <<>> /\ ~Garbage(l)
  <2> DEFINE q == [p EXCEPT !.worker = "exited"]
  <2>1. lane' = [lane EXCEPT ![l] = q]
    BY <1>1, <1>3 DEF Wait
  <2>2. q \in LaneRecords
    <3>1. "exited" \in WorkerSteps
      BY DEF WorkerSteps
    <3> QED BY <3>1, <1>1, LaneFields
  <2>3. q.ch = p.ch /\ q.backlog = p.backlog /\ q.cur = p.cur /\ q.pending = p.pending /\ q.worker = "exited"
        /\ q.readers = p.readers /\ q.closed = p.closed /\ q.retired = p.retired /\ q.sealed = p.sealed
    BY <1>1 DEF LaneRecords
  <2> HIDE DEF q
  <2>4. LaneShape(q)
    BY <1>1, <1>3, <2>3 DEF LaneShape
  <2> QED BY <1>1, <1>2, <2>1, <2>2, <2>3, <2>4, StillWorkerStep
<1>4. CASE p.sealed /\ p.backlog = <<>> /\ Garbage(l)
  <2> DEFINE q == Absent
  <2>1. lane' = [lane EXCEPT ![l] = q]
    BY <1>1, <1>4 DEF Wait
  <2>2. q \in LaneRecords /\ q.ch = <<>> /\ q.backlog = <<>> /\ q.cur = None /\ q.pending = 0
        /\ q.worker = "none" /\ ~q.closed /\ ~q.sealed /\ ~q.retired
    BY NewLanes
  <2> HIDE DEF q
  <2>3. p.ch = <<>> /\ p.backlog = <<>>
    BY <1>1, <1>4 DEF LaneShape
  <2>4. Len(<<>>) = 0 /\ One(None) = 0
    BY DEF One
  <2>5. Sending(l) = {}
    BY <1>4 DEF Sending, Garbage
  <2>6. p.pending = 0
    <3>1. Cardinality(Sending(l)) = 0
      BY <2>5, FS_EmptySet
    <3>2. Len(p.ch) = 0 /\ Len(p.backlog) = 0
      BY <2>3, EmptySeq
    <3>3. lane[l].pending = Cardinality(Sending(l)) + Len(lane[l].ch) + Len(lane[l].backlog)
                            + (IF lane[l].cur = None THEN 0 ELSE 1)
      BY DEF IInv, LanesInv, Pending
    <3> QED BY <3>1, <3>2, <3>3, <1>1
  <2>7. q.pending + Len(p.ch) + Len(p.backlog) + One(p.cur) = p.pending + Len(q.ch) + Len(q.backlog) + One(q.cur)
    BY <1>1, <2>2, <2>3, <2>4, <2>6
  <2>8. LaneShape(q)
    BY <2>2, EmptySeq DEF LaneShape
  <2>9. \A u : (HasTask(q, u) <=> HasTask(p, u)) /\ (OnLane(q, u) <=> OnLane(p, u))
    BY <1>1, <2>2, <2>3, SameQueues
  <2>10. \A x \in Admins : Holding(p, q, x)
    BY <1>1, <1>2, <2>9 DEF Holding
  <2> QED BY <1>1, <1>4, <2>1, <2>2, <2>7, <2>8, <2>9, <2>10, PlainWorkerStep
<1>5. CASE ~(p.sealed /\ p.backlog = <<>>)
  <2> DEFINE f == PassedFence(p)
             q == [f EXCEPT !.worker = "select"]
  <2>1. lane' = [lane EXCEPT ![l] = q]
    BY <1>1, <1>5 DEF Wait
  <2>f. f = PassedFence(p)
    OBVIOUS
  <2> HIDE DEF f
  <2>2. /\ f \in LaneRecords
        /\ f.ch = p.ch /\ f.cur = p.cur /\ f.worker = p.worker /\ f.retired = p.retired
        /\ f.sealed = p.sealed /\ f.closed = p.closed /\ f.readers = p.readers /\ f.pending = p.pending
        /\ Len(f.backlog) = Len(p.backlog)
        /\ \A i \in 1..Len(p.backlog) : f.backlog[i].task = p.backlog[i].task
    BY <1>1, <2>f, Fenced
  <2>3. q \in LaneRecords
    <3>1. "select" \in WorkerSteps
      BY DEF WorkerSteps
    <3> QED BY <3>1, <2>2, LaneFields
  <2>4. q.ch = p.ch /\ q.backlog = f.backlog /\ q.cur = p.cur /\ q.pending = p.pending /\ q.worker = "select"
        /\ q.readers = p.readers /\ q.closed = p.closed /\ q.retired = p.retired /\ q.sealed = p.sealed
    BY <2>2 DEF LaneRecords
  <2> HIDE DEF q
  <2>5. p.backlog = <<>> => q.backlog = <<>>
    <3>1. q.backlog \in Seq(Entries) /\ p.backlog \in Seq(Entries)
      BY <1>1, <2>3 DEF LaneRecords
    <3> QED BY <3>1, <2>2, <2>4, EmptySeq
  <2>6. LaneShape(q)
    BY <1>1, <2>4, <2>5 DEF LaneShape
  <2>7. Len(q.backlog) = Len(p.backlog) /\ \A i \in 1..Len(q.backlog) : q.backlog[i].task = p.backlog[i].task
    BY <2>2, <2>4
  <2> QED BY <1>1, <1>2, <2>1, <2>3, <2>4, <2>6, <2>7, StillWorkerStep
<1> QED BY <1>3, <1>4, <1>5

LEMMA SeeKeeps ==
  ASSUME IInv, NEW l \in Lanes, SeeClosed(l) \/ SeeWake(l), setup' = setup PROVE IInv'
<1> DEFINE p == lane[l]
<1>1. lane \in [Lanes -> LaneRecords] /\ p \in LaneRecords /\ LaneShape(p) /\ p.worker = "select"
      /\ UNCHANGED <<setup, client, queues, barriers, control, cleanup, section, made>>
      /\ "loop" \in WorkerSteps
  BY DEF IInv, TypeOK, LanesInv, SeeClosed, SeeWake, WorkerSteps
<1>2. \A x \in Admins : ~Holds(p, x)
  BY <1>1 DEF Holds
<1> DEFINE q1 == [p EXCEPT !.worker = "loop"]
<1>3. q1 \in LaneRecords
  BY <1>1, LaneFields
<1>4. q1.ch = p.ch /\ q1.backlog = p.backlog /\ q1.cur = p.cur /\ q1.pending = p.pending /\ q1.worker = "loop"
      /\ q1.readers = p.readers /\ q1.closed = p.closed /\ q1.retired = p.retired /\ q1.sealed = p.sealed
  BY <1>1 DEF LaneRecords
<1>5. CASE SeeClosed(l)
  <2> DEFINE q == [q1 EXCEPT !.sealed = TRUE]
  <2>1. lane' = [lane EXCEPT ![l] = q]
    BY <1>1, <1>5 DEF SeeClosed, LaneRecords
  <2>2. q \in LaneRecords
    <3> HIDE DEF q1
    <3> QED BY <1>3, LaneFields
  <2>3. q.ch = p.ch /\ q.backlog = p.backlog /\ q.cur = p.cur /\ q.pending = p.pending /\ q.worker = "loop"
        /\ q.readers = p.readers /\ q.closed = p.closed /\ q.retired = p.retired /\ q.sealed
    <3> HIDE DEF q1
    <3> QED BY <1>3, <1>4 DEF LaneRecords
  <2>4. p.closed /\ p.ch = <<>>
    BY <1>5 DEF SeeClosed
  <2> HIDE DEF q, q1
  <2>5. LaneShape(q)
    BY <1>1, <2>3, <2>4 DEF LaneShape
  <2> QED BY <1>1, <1>2, <2>1, <2>2, <2>3, <2>5, StillWorkerStep
<1>6. CASE SeeWake(l) /\ lane' = [lane EXCEPT ![l].worker = "loop", ![l].wake = FALSE]
  <2> DEFINE q == [q1 EXCEPT !.wake = FALSE]
  <2>1. lane' = [lane EXCEPT ![l] = q]
    BY <1>1, <1>6
  <2>2. q \in LaneRecords
    <3> HIDE DEF q1
    <3> QED BY <1>3, LaneFields
  <2>3. q.ch = p.ch /\ q.backlog = p.backlog /\ q.cur = p.cur /\ q.pending = p.pending /\ q.worker = "loop"
        /\ q.readers = p.readers /\ q.closed = p.closed /\ q.retired = p.retired /\ q.sealed = p.sealed
    <3> HIDE DEF q1
    <3> QED BY <1>3, <1>4 DEF LaneRecords
  <2> HIDE DEF q, q1
  <2>5. LaneShape(q)
    BY <1>1, <2>3 DEF LaneShape
  <2> QED BY <1>1, <1>2, <2>1, <2>2, <2>3, <2>5, StillWorkerStep
<1>7. CASE SeeWake(l) /\ Awake(l)
  <2>1. lane' = [lane EXCEPT ![l] = q1]
    BY <1>1, <1>7 DEF Awake
  <2> HIDE DEF q1
  <2>2. LaneShape(q1)
    BY <1>1, <1>4 DEF LaneShape
  <2> QED BY <1>1, <1>2, <1>3, <1>4, <2>1, <2>2, StillWorkerStep
<1> QED BY <1>5, <1>6, <1>7 DEF SeeWake


\* The steps of a worker that leave the sections alone.
LEMMA CallStep ==
  ASSUME IInv, NEW l \in Lanes, NEW q \in LaneRecords, lane' = [lane EXCEPT ![l] = q],
         UNCHANGED <<setup, client, queues, barriers, control, cleanup, section>>,
         starts' \in [Clients -> Nat], finished' \subseteq Clients, finished \subseteq finished',
         lane[l].worker \notin {"none", "exited"}, LaneShape(q),
         q.pending + Len(lane[l].ch) + Len(lane[l].backlog) + One(lane[l].cur)
           = lane[l].pending + Len(q.ch) + Len(q.backlog) + One(q.cur),
         q.worker # "none", q.readers = lane[l].readers,
         q.closed = lane[l].closed, q.retired = lane[l].retired,
         \A x \in Admins : apc[x] # "done" => Holding(lane[l], q, x),
         \A d \in Clients : OnLane(lane[l], d) => OnLane(q, d) \/ d \in finished'
  PROVE  IInv'
<1>1. sec \in [Admins -> SectionRecords]
  BY DEF IInv, TypeOK, SectionTypes
<1>2. UNCHANGED <<active, apc, sec>>
  BY DEF section
<1> QED BY <1>1, <1>2, WorkerStep

LEMMA ReceiveKeeps == ASSUME IInv, NEW l \in Lanes, Receive(l), setup' = setup PROVE IInv'
<1> DEFINE p == lane[l]
           h == Tail(p.ch)
           t == Head(p.ch)
           q1 == [p EXCEPT !.ch = h]
           q2 == [q1 EXCEPT !.cur = t]
           q == [q2 EXCEPT !.worker = "task"]
<1>1. lane \in [Lanes -> LaneRecords] /\ p \in LaneRecords /\ LaneShape(p) /\ p.worker = "select"
      /\ p.ch # <<>> /\ p.cur = None /\ ~p.sealed /\ ~p.retired
      /\ starts \in [Clients -> Nat] /\ finished \subseteq Clients
      /\ p.ch \in Seq(Clients) /\ p.pending \in Int /\ Len(p.backlog) \in Nat
      /\ UNCHANGED <<setup, client, queues, barriers, control, cleanup, section, finished>>
      /\ lane' = [lane EXCEPT ![l].ch = Tail(@), ![l].cur = t, ![l].worker = "task"]
      /\ starts' = [starts EXCEPT ![t] = @ + 1]
  BY DEF IInv, TypeOK, LanesInv, Receive, LaneShape, LaneRecords
<1>2. t \in Clients /\ h \in Seq(Clients) /\ "task" \in WorkerSteps /\ t = p.ch[1]
      /\ Len(h) = Len(p.ch) - 1 /\ Len(p.ch) \in Nat \ {0} /\ \A i \in 1..Len(h) : h[i] = p.ch[i + 1]
  BY <1>1, HeadTailProperties, EmptySeq DEF WorkerSteps
<1>3. lane' = [lane EXCEPT ![l] = q]
  BY <1>1
<1>4. starts' \in [Clients -> Nat]
  BY <1>1, <1>2
<1> HIDE DEF h, t
<1>7. q1 \in LaneRecords
  BY <1>1, <1>2, LaneFields
<1>8. q2 \in LaneRecords
  <2> HIDE DEF q1
  <2> QED BY <1>7, <1>2, LaneFields
<1>9. q \in LaneRecords
  <2> HIDE DEF q2
  <2> QED BY <1>8, <1>2, LaneFields
<1>10. q.ch = h /\ q.cur = t /\ q.worker = "task" /\ q.backlog = p.backlog /\ q.pending = p.pending
       /\ q.readers = p.readers /\ q.closed = p.closed /\ q.retired = p.retired /\ q.sealed = p.sealed
  BY <1>1 DEF LaneRecords
<1> HIDE DEF q, q1, q2, p
<1>11. LaneShape(q)
  BY <1>1, <1>2, <1>10 DEF LaneShape
<1>12. q.pending + Len(p.ch) + Len(p.backlog) + One(p.cur) = p.pending + Len(q.ch) + Len(q.backlog) + One(q.cur)
  <2>1. One(p.cur) = 0 /\ One(q.cur) = 1
    BY <1>1, <1>2, <1>10, AsyncAssumption DEF One
  <2>2. p.pending \in Int /\ Len(p.ch) \in Nat /\ Len(p.backlog) \in Nat /\ q.pending = p.pending
        /\ Len(q.ch) = Len(p.ch) - 1 /\ q.backlog = p.backlog
    BY <1>1, <1>2, <1>10
  <2> QED BY ONLY <2>1, <2>2
<1>13. \A x \in Admins : HasTask(q, x) <=> HasTask(p, x)
  <2>1. \A x \in Admins : x # t /\ x # None
    BY <1>2, AsyncAssumption
  <2> QED BY <2>1, <1>1, <1>10 DEF HasTask
<1>14. \A x \in Admins : Holding(p, q, x)
  BY <1>1, <1>13 DEF Holding, Holds
<1>15. ASSUME NEW d \in Clients, OnLane(p, d) PROVE OnLane(q, d)
  <2>1. CASE HasTask(p, d)
    <3>1. d # None
      BY AsyncAssumption
    <3> QED BY <2>1, <3>1, <1>1, <1>10 DEF OnLane, HasTask
  <2>2. CASE \E i \in 1..Len(p.ch) : p.ch[i] = d
    <3>1. PICK i \in 1..Len(p.ch) : p.ch[i] = d
      BY <2>2
    <3>2. CASE i = 1
      BY <3>1, <3>2, <1>2, <1>10 DEF OnLane, HasTask
    <3>3. CASE i # 1
      <4>1. i - 1 \in 1..Len(h) /\ h[i - 1] = d
        BY <3>1, <3>3, <1>2
      <4> QED BY <4>1, <1>10 DEF OnLane
    <3> QED BY <3>2, <3>3
  <2> QED BY <1>15, <2>1, <2>2 DEF OnLane
<1>16. lane[l] = p /\ lane[l].worker \notin {"none", "exited"} /\ q.worker # "none"
       /\ finished' \subseteq Clients /\ finished \subseteq finished'
  BY <1>1, <1>10 DEF p
<1> QED BY <1>1, <1>3, <1>4, <1>9, <1>10, <1>11, <1>12, <1>14, <1>15, <1>16, CallStep

LEMMA SeeRetiredKeeps == ASSUME IInv, NEW l \in Lanes, SeeRetired(l), setup' = setup PROVE IInv'
<1> DEFINE p == lane[l]
           n == p.pending - Len(p.ch)
           z == p.settled + Len(p.ch)
           q1 == [p EXCEPT !.sealed = TRUE]
           q2 == [q1 EXCEPT !.worker = "loop"]
           q3 == [q2 EXCEPT !.ch = <<>>]
           q4 == [q3 EXCEPT !.pending = n]
           q == [q4 EXCEPT !.settled = z]
<1>1. lane \in [Lanes -> LaneRecords] /\ p \in LaneRecords /\ LaneShape(p) /\ p.worker = "select"
      /\ p.retired /\ starts \in [Clients -> Nat] /\ finished \subseteq Clients
      /\ p.pending \in Int /\ Len(p.backlog) \in Nat /\ p.settled \in Nat /\ p.ch \in Seq(Clients)
      /\ UNCHANGED <<setup, client, queues, barriers, control, cleanup, section>>
      /\ lane' = [lane EXCEPT ![l].sealed = TRUE, ![l].worker = "loop", ![l].ch = <<>>,
                              ![l].pending = @ - Len(p.ch), ![l].settled = @ + Len(p.ch)]
      /\ starts' = [c \in Clients |-> IF c \in ToSet(p.ch) THEN starts[c] + 1 ELSE starts[c]]
      /\ finished' = finished \cup ToSet(p.ch)
  BY DEF IInv, TypeOK, LanesInv, SeeRetired, LaneRecords
<1>2. p.ch = <<>> /\ p.closed /\ Len(p.ch) = 0 /\ n = p.pending /\ n \in Int /\ z \in Nat
      /\ "loop" \in WorkerSteps /\ <<>> \in Seq(Clients)
  BY <1>1, EmptySeq DEF LaneShape, WorkerSteps
<1>3. lane' = [lane EXCEPT ![l] = q]
  BY <1>1
<1>4. starts' \in [Clients -> Nat] /\ finished' \subseteq Clients /\ finished \subseteq finished'
  <2>1. ToSet(p.ch) \subseteq Clients
    BY <1>1 DEF ToSet
  <2> QED BY <1>1, <2>1
<1> HIDE DEF n, z
<1>5. q1 \in LaneRecords
  BY <1>1, LaneFields
<1>6. q2 \in LaneRecords
  <2> HIDE DEF q1
  <2> QED BY <1>5, <1>2, LaneFields
<1>7. q3 \in LaneRecords
  <2> HIDE DEF q2
  <2> QED BY <1>6, <1>2, LaneFields
<1>8. q4 \in LaneRecords
  <2> HIDE DEF q3
  <2> QED BY <1>7, <1>2, LaneFields
<1>9. q \in LaneRecords
  <2> HIDE DEF q4
  <2> QED BY <1>8, <1>2, LaneFields
<1>10. q.ch = <<>> /\ q.cur = p.cur /\ q.worker = "loop" /\ q.backlog = p.backlog /\ q.pending = n
       /\ q.readers = p.readers /\ q.closed = p.closed /\ q.retired = p.retired /\ q.sealed
  <2>1. q3.ch = <<>> /\ q3.cur = p.cur /\ q3.worker = "loop" /\ q3.backlog = p.backlog
        /\ q3.readers = p.readers /\ q3.closed = p.closed /\ q3.retired = p.retired /\ q3.sealed
    BY <1>1 DEF LaneRecords
  <2> HIDE DEF q3
  <2> QED BY <1>7, <2>1 DEF LaneRecords
<1> HIDE DEF q, q1, q2, q3, q4, p
<1>11. LaneShape(q)
  BY <1>1, <1>2, <1>10 DEF LaneShape
<1>12. \A u : (HasTask(q, u) <=> HasTask(p, u)) /\ (OnLane(q, u) <=> OnLane(p, u))
  BY <1>2, <1>10, SameQueues
<1>13. \A x \in Admins : Holding(p, q, x)
  BY <1>1, <1>12 DEF Holding, Holds
<1>14. q.pending + Len(p.ch) + Len(p.backlog) + One(p.cur) = p.pending + Len(q.ch) + Len(q.backlog) + One(q.cur)
  BY <1>1, <1>2, <1>10
<1>15. lane[l] = p /\ lane[l].worker \notin {"none", "exited"} /\ q.worker # "none"
  BY <1>1, <1>10 DEF p
<1> QED BY <1>1, <1>3, <1>4, <1>9, <1>10, <1>11, <1>12, <1>13, <1>14, <1>15, CallStep

\* What the worker had in hand is over.
After(p, z) == [p EXCEPT !.worker = "loop", !.cur = None, !.pending = p.pending - 1, !.settled = z]

LEMMA Ended ==
  ASSUME NEW p \in LaneRecords, LaneShape(p), p.worker \in {"task", "release", "barrier", "parked"},
         NEW z \in Nat, NEW q,
         q = After(p, z)
  PROVE  /\ q \in LaneRecords /\ LaneShape(q) /\ q.worker = "loop"
         /\ q.readers = p.readers /\ q.closed = p.closed /\ q.retired = p.retired
         /\ q.pending + Len(p.ch) + Len(p.backlog) + One(p.cur) = p.pending + Len(q.ch) + Len(q.backlog) + One(q.cur)
         /\ \A u \in Clients \cup Admins : u # p.cur => (HasTask(q, u) <=> HasTask(p, u)) /\ (OnLane(q, u) <=> OnLane(p, u))
<1> DEFINE n == p.pending - 1
           q1 == [p EXCEPT !.worker = "loop"]
           q2 == [q1 EXCEPT !.cur = None]
           q3 == [q2 EXCEPT !.pending = n]
<1>1. p.pending \in Int /\ Len(p.ch) \in Nat /\ Len(p.backlog) \in Nat /\ n \in Int /\ "loop" \in WorkerSteps
      /\ p.cur \in Clients \cup Admins /\ None \notin Clients \cup Admins
  BY AsyncAssumption DEF LaneRecords, WorkerSteps, LaneShape
<1>2. q = [q3 EXCEPT !.settled = z]
  BY DEF After
<1> HIDE DEF n
<1>3. q1 \in LaneRecords
  BY <1>1, LaneFields
<1>4. q2 \in LaneRecords
  <2> HIDE DEF q1
  <2> QED BY <1>3, LaneFields
<1>5. q3 \in LaneRecords
  <2> HIDE DEF q2
  <2> QED BY <1>4, <1>1, LaneFields
<1>6. q \in LaneRecords
  <2>1. z \in Nat
    OBVIOUS
  <2> HIDE DEF q3
  <2> QED BY ONLY <1>5, <1>2, <2>1, LaneFields
<1>7. q.ch = p.ch /\ q.cur = None /\ q.worker = "loop" /\ q.backlog = p.backlog /\ q.pending = n
       /\ q.readers = p.readers /\ q.closed = p.closed /\ q.retired = p.retired /\ q.sealed = p.sealed
  BY <1>2 DEF LaneRecords
<1> HIDE DEF q1, q2, q3
<1>8. LaneShape(q)
  BY <1>1, <1>7 DEF LaneShape
<1>9. q.pending + Len(p.ch) + Len(p.backlog) + One(p.cur) = p.pending + Len(q.ch) + Len(q.backlog) + One(q.cur)
  <2>1. One(p.cur) = 1 /\ One(q.cur) = 0
    BY <1>1, <1>7 DEF One
  <2>2. q.pending = p.pending - 1
    BY <1>7 DEF n
  <2>3. q.ch = p.ch /\ q.backlog = p.backlog
    BY <1>7
  <2> QED BY ONLY <2>1, <2>2, <2>3, <1>1
<1>10. \A u \in Clients \cup Admins : u # p.cur => (HasTask(q, u) <=> HasTask(p, u)) /\ (OnLane(q, u) <=> OnLane(p, u))
  BY <1>1, <1>7 DEF HasTask, OnLane
<1> QED BY <1>6, <1>7, <1>8, <1>9, <1>10

LEMMA FinishKeeps == ASSUME IInv, NEW l \in Lanes, Finish(l), setup' = setup PROVE IInv'
<1> DEFINE p == lane[l]
           z == IF p.worker = "task" THEN p.settled + 1 ELSE p.settled
           q == After(p, z)
<1>1. lane \in [Lanes -> LaneRecords] /\ p \in LaneRecords /\ LaneShape(p) /\ p.worker \in {"task", "release"}
      /\ starts \in [Clients -> Nat] /\ finished \subseteq Clients /\ p.settled \in Nat
      /\ UNCHANGED <<setup, client, queues, barriers, control, cleanup, section, starts>>
      /\ lane' = [lane EXCEPT ![l].worker = "loop", ![l].cur = None, ![l].pending = @ - 1,
                              ![l].settled = IF p.worker = "task" THEN @ + 1 ELSE @]
      /\ finished' = finished \cup {p.cur}
  BY DEF IInv, TypeOK, LanesInv, Finish, LaneRecords
<1>2. p.cur \in Clients /\ z \in Nat
  BY <1>1 DEF LaneShape
<1>3. lane' = [lane EXCEPT ![l] = q] /\ q = After(p, z)
  BY <1>1 DEF After
<1> HIDE DEF q, z
<1>4. /\ q \in LaneRecords /\ LaneShape(q) /\ q.worker = "loop"
      /\ q.readers = p.readers /\ q.closed = p.closed /\ q.retired = p.retired
      /\ q.pending + Len(p.ch) + Len(p.backlog) + One(p.cur) = p.pending + Len(q.ch) + Len(q.backlog) + One(q.cur)
      /\ \A u \in Clients \cup Admins : u # p.cur => (HasTask(q, u) <=> HasTask(p, u)) /\ (OnLane(q, u) <=> OnLane(p, u))
  <2> HIDE DEF p
  <2>1. p \in LaneRecords /\ LaneShape(p) /\ p.worker \in {"task", "release", "barrier", "parked"} /\ z \in Nat
    BY <1>1, <1>2
  <2> QED BY ONLY <2>1, <1>3, Ended
<1>5. ASSUME NEW x \in Admins PROVE Holding(p, q, x)
  <2>1. x # p.cur
    BY <1>2, AsyncAssumption
  <2> QED BY <2>1, <1>1, <1>4 DEF Holding, Holds
<1>6. \A d \in Clients : OnLane(p, d) => OnLane(q, d) \/ d \in finished'
  BY <1>1, <1>4
<1>7. finished' \subseteq Clients /\ finished \subseteq finished' /\ starts' \in [Clients -> Nat]
      /\ p.worker \notin {"none", "exited"} /\ q.worker # "none"
  BY <1>1, <1>2, <1>4
<1> QED BY <1>1, <1>3, <1>4, <1>5, <1>6, <1>7, CallStep

LEMMA UnparkKeeps == ASSUME IInv, NEW l \in Lanes, Unpark(l), setup' = setup PROVE IInv'
<1> DEFINE p == lane[l]
           z == p.settled
           q == After(p, z)
<1>1. lane \in [Lanes -> LaneRecords] /\ p \in LaneRecords /\ LaneShape(p) /\ p.worker \in {"barrier", "parked"}
      /\ apc[p.cur] = "done" /\ starts \in [Clients -> Nat] /\ finished \subseteq Clients /\ z \in Nat
      /\ UNCHANGED <<setup, client, queues, barriers, control, cleanup, section, made>>
      /\ lane' = [lane EXCEPT ![l].worker = "loop", ![l].cur = None, ![l].pending = @ - 1]
  BY DEF IInv, TypeOK, LanesInv, Unpark, LaneRecords
<1>2. p.cur \in Admins
  BY <1>1 DEF LaneShape
<1>3. lane' = [lane EXCEPT ![l] = q] /\ q = After(p, z)
  <2>1. q = [p EXCEPT !.worker = "loop", !.cur = None, !.pending = p.pending - 1]
    BY <1>1 DEF LaneRecords, After
  <2> QED BY <1>1, <2>1
<1> HIDE DEF q, z
<1>4. /\ q \in LaneRecords /\ LaneShape(q) /\ q.worker = "loop"
      /\ q.readers = p.readers /\ q.closed = p.closed /\ q.retired = p.retired
      /\ q.pending + Len(p.ch) + Len(p.backlog) + One(p.cur) = p.pending + Len(q.ch) + Len(q.backlog) + One(q.cur)
      /\ \A u \in Clients \cup Admins : u # p.cur => (HasTask(q, u) <=> HasTask(p, u)) /\ (OnLane(q, u) <=> OnLane(p, u))
  <2> HIDE DEF p
  <2>1. p \in LaneRecords /\ LaneShape(p) /\ p.worker \in {"task", "release", "barrier", "parked"} /\ z \in Nat
    BY <1>1
  <2> QED BY ONLY <2>1, <1>3, Ended
<1>5. ASSUME NEW x \in Admins, apc[x] # "done" PROVE Holding(p, q, x)
  <2>1. x # p.cur
    BY <1>1, <1>5
  <2> QED BY <2>1, <1>1, <1>4 DEF Holding, Holds
<1>6. \A d \in Clients : OnLane(p, d) => OnLane(q, d)
  BY <1>2, <1>4, AsyncAssumption
<1>7. p.worker \notin {"none", "exited"} /\ q.worker # "none"
  BY <1>1, <1>4
<1> QED BY <1>1, <1>3, <1>4, <1>5, <1>6, <1>7, PlainWorkerStep

LEMMA ParkKeeps == ASSUME IInv, NEW l \in Lanes, Park(l), setup' = setup PROVE IInv'
<1> DEFINE p == lane[l]
           y == p.cur
           n == sec[y].parked + 1
           r == [sec[y] EXCEPT !.parked = n]
           q == [p EXCEPT !.worker = "parked"]
<1>1. TypeOK /\ lane \in [Lanes -> LaneRecords] /\ p \in LaneRecords /\ LaneShape(p) /\ p.worker = "barrier"
      /\ apc[y] = "parking" /\ starts \in [Clients -> Nat] /\ finished \subseteq Clients
      /\ sec \in [Admins -> SectionRecords] /\ p.pending \in Int /\ Len(p.ch) \in Nat /\ Len(p.backlog) \in Nat
      /\ UNCHANGED <<setup, client, queues, barriers, control, cleanup, active, apc, made>>
      /\ lane' = [lane EXCEPT ![l].worker = "parked"]
      /\ sec' = [sec EXCEPT ![y].parked = @ + 1] /\ "parked" \in WorkerSteps
  BY DEF IInv, TypeOK, SectionTypes, LanesInv, Park, LaneRecords, WorkerSteps
<1>2. y \in Admins
  BY <1>1 DEF LaneShape
<1>3. lane' = [lane EXCEPT ![l] = q] /\ sec' = [sec EXCEPT ![y] = r]
  BY <1>1
<1>4. n \in Nat /\ sec[y] \in SectionRecords
  BY <1>1, <1>2 DEF SectionRecords
<1> HIDE DEF n
<1>5. r \in SectionRecords /\ r.lanes = sec[y].lanes /\ r.parked = n
      /\ r.expected = sec[y].expected /\ r.running = sec[y].running
      /\ r.draining = sec[y].draining /\ r.deferred = sec[y].deferred
  BY <1>4 DEF SectionRecords
<1>6. q \in LaneRecords
  BY <1>1, LaneFields
<1>7. q.ch = p.ch /\ q.cur = p.cur /\ q.worker = "parked" /\ q.backlog = p.backlog /\ q.pending = p.pending
      /\ q.readers = p.readers /\ q.closed = p.closed /\ q.retired = p.retired /\ q.sealed = p.sealed
  BY <1>1 DEF LaneRecords
<1> HIDE DEF r, q
<1>8. sec'[y] = r /\ (\A x \in Admins \ {y} : sec'[x] = sec[x]) /\ sec' \in [Admins -> SectionRecords]
      /\ lane'[l] = q /\ (\A m \in Lanes \ {l} : lane'[m] = lane[m])
  BY <1>1, <1>2, <1>3, <1>5
<1>9. \A x \in Admins : /\ sec'[x].lanes = sec[x].lanes /\ sec'[x].expected = sec[x].expected
                        /\ sec'[x].running = sec[x].running /\ sec'[x].draining = sec[x].draining
                        /\ sec'[x].deferred = sec[x].deferred
  BY <1>5, <1>8
<1>10. LaneShape(q)
  BY <1>1, <1>7 DEF LaneShape
<1>11. \A u : (HasTask(q, u) <=> HasTask(p, u)) /\ (OnLane(q, u) <=> OnLane(p, u))
  BY <1>7, SameQueues
<1>12. \A x \in Admins : Holding(p, q, x)
  BY <1>1, <1>7, <1>11 DEF Holding, Holds
<1>13. q.pending + Len(p.ch) + Len(p.backlog) + One(p.cur) = p.pending + Len(q.ch) + Len(q.backlog) + One(q.cur)
  BY <1>1, <1>7
<1>14. ASSUME NEW x \in Admins PROVE BarriersCounted(x)'
  <2>1. BarriersCounted(x) /\ sec[x].parked \in Nat /\ sec[x].expected \in Nat /\ apc'[x] = apc[x]
        /\ sec'[x].expected = sec[x].expected
    BY <1>1, <1>9 DEF IInv, SectionRecords
  <2>2. CASE x # y
    <3>1. sec'[x].parked = sec[x].parked /\ \A m \in Lanes : Holding(lane[m], lane'[m], x)
      BY <2>2, <1>8, <1>12, SameHolding
    <3> QED BY <2>1, <3>1, CountKept
  <2>3. CASE x = y
    <3>1. Barred(x)' = Barred(x)
      BY <1>8, <1>11 DEF Barred
    <3>2. ParkedOn(x)' = ParkedOn(x) \cup {l} /\ l \notin ParkedOn(x)
      BY <2>3, <1>1, <1>7, <1>8 DEF ParkedOn
    <3> DEFINE B == ParkedOn(x)
    <3>3. IsFiniteSet(B) /\ Cardinality(B) \in Nat /\ l \notin B
      BY <3>2, LanesFinite
    <3> HIDE DEF B
    <3>4. Cardinality(B \cup {l}) = Cardinality(B) + 1
      BY <3>3, FS_AddElement
    <3>5. sec[x].parked <= Cardinality(B) /\ Cardinality(Barred(x)) <= sec[x].expected
      BY <2>1, <2>3, <1>1 DEF BarriersCounted, B
    <3>6. sec'[x].parked = sec[x].parked + 1
      BY <2>3, <1>5, <1>8 DEF n
    <3>7. sec'[x].parked <= Cardinality(ParkedOn(x)')
      BY <3>2, <3>3, <3>4, <3>5, <3>6, <2>1 DEF B
    <3> QED BY <3>1, <3>5, <3>7, <2>1 DEF BarriersCounted
  <2> QED BY <2>2, <2>3
<1>15. UNCHANGED <<starts, finished>> /\ p.worker \notin {"none", "exited"} /\ q.worker # "none"
  BY <1>1, <1>7 DEF made
<1> QED BY <1>1, <1>3, <1>6, <1>7, <1>8, <1>9, <1>10, <1>11, <1>12, <1>13, <1>14, <1>15, WorkerStep


-----------------------------------------------------------------------------
(* Retirement, and the steps of a stop. *)

LEMMA RetireKeeps == ASSUME IInv, NEW k \in Keys, Retire(k), setup' = setup PROVE IInv'
<1>0. PICK l \in Lanes : l = queues[k]
  BY DEF IInv, TypeOK, RoutingTypes, Retire
<1> DEFINE p == lane[l]
           q1 == [p EXCEPT !.retired = TRUE]
           q == [q1 EXCEPT !.closed = TRUE]
<1>1. TypeOK /\ lane \in [Lanes -> LaneRecords] /\ LanesInv /\ QueuesInv /\ StopInv /\ Covered /\ SectionTypes
      /\ ClientTypes /\ RoutingTypes /\ Dynamic /\ active = None /\ l # None
      /\ p.pending = 0 /\ p.ch = <<>> /\ p.readers = {} /\ p.backlog = <<>>
      /\ lane' = [lane EXCEPT ![l].retired = TRUE, ![l].closed = TRUE]
      /\ queues' = [queues EXCEPT ![k] = None]
      /\ UNCHANGED <<setup, client, barriers, control, cleanup, section, made>>
  BY <1>0 DEF IInv, TypeOK, Retire
<1>2. l \in Lanes /\ p \in LaneRecords /\ LaneShape(p) /\ Pending(l) /\ p.worker # "none"
  BY <1>0, <1>1 DEF LanesInv, QueuesInv
<1>3. lane' = [lane EXCEPT ![l] = q]
  BY <1>1, <1>2
<1>4. q \in LaneRecords
  <2>1. q1 \in LaneRecords
    BY <1>2, LaneFields
  <2> HIDE DEF q1
  <2> QED BY <2>1, LaneFields
<1>5. q.ch = p.ch /\ q.cur = p.cur /\ q.worker = p.worker /\ q.backlog = p.backlog /\ q.pending = p.pending
      /\ q.readers = p.readers /\ q.closed /\ q.retired /\ q.sealed = p.sealed /\ q.settled = p.settled
  BY <1>2 DEF LaneRecords
<1> HIDE DEF q, q1
<1>6. lane'[l] = q /\ (\A m \in Lanes \ {l} : lane'[m] = lane[m]) /\ lane' \in [Lanes -> LaneRecords]
      /\ queues' \in [Keys -> Lanes \cup {None}] /\ queues'[k] = None
      /\ (\A j \in Keys \ {k} : queues'[j] = queues[j])
  BY <1>1, <1>2, <1>3, <1>4 DEF RoutingTypes
<1>7. /\ UNCHANGED <<pc, phase, at, ticket, registered, handing, accepted, earlier>>
      /\ UNCHANGED <<stopping, stopped, stop, hard, stops, cleanupOn, lifecycle, lifeSealed>>
      /\ UNCHANGED <<active, apc, sec, starts, finished, barriers>>
  BY <1>1 DEF client, control, cleanup, section, made
<1>8. p.cur = None
  <2>1. Cardinality(Sending(l)) \in Nat /\ Len(p.ch) = 0 /\ Len(p.backlog) = 0
    BY <1>1, SendingFinite, EmptySeq
  <2>2. p.pending = Cardinality(Sending(l)) + Len(p.ch) + Len(p.backlog) + (IF p.cur = None THEN 0 ELSE 1)
    BY <1>2 DEF Pending
  <2>3. p.cur # None => p.pending = Cardinality(Sending(l)) + 0 + 0 + 1
    BY <2>1, <2>2
  <2> QED BY <1>1, <2>1, <2>3
<1>9. LaneShape(q)
  <2>1. p.worker \in WorkerSteps /\ None \notin Clients \cup Admins
    BY <1>2, AsyncAssumption DEF LaneRecords
  <2>2. p.worker \in {"loop", "select", "exited"}
    BY <2>1, <1>2, <1>8 DEF LaneShape, WorkerSteps
  <2> QED BY <2>2, <1>1, <1>2, <1>5 DEF LaneShape
<1>10. TypeOK'
  BY <1>1, <1>6, <1>7 DEF TypeOK, ClientTypes, RoutingTypes, StopTypes, SectionTypes
<1>11. \A u : (HasTask(q, u) <=> HasTask(p, u)) /\ (OnLane(q, u) <=> OnLane(p, u))
  BY <1>5, SameQueues
<1>12. \A x : Holding(p, q, x)
  BY <1>5, <1>11 DEF Holding, Holds, Ready
<1>13. LanesInv'
  <2>1. \A m \in Lanes : Sending(m)' = Sending(m)
    BY <1>7 DEF Sending
  <2>2. Pending(l)'
    BY <2>1, <1>2, <1>5, <1>6 DEF Pending
  <2> QED BY <1>1, <1>2, <1>5, <1>6, <1>7, <1>9, <2>1, <2>2, OneLane
<1>14. QueuesInv'
  <2>1. ASSUME NEW j \in Keys, queues'[j] # None PROVE lane'[queues'[j]].worker # "none"
    <3>1. queues'[j] = queues[j] /\ queues[j] \in Lanes
      BY <1>1, <1>6, <2>1 DEF RoutingTypes
    <3>2. lane[queues[j]].worker # "none"
      BY <1>1, <2>1, <3>1 DEF QueuesInv
    <3> QED BY <3>1, <3>2, <1>5, <1>6
  <2> QED BY <2>1, <1>1 DEF QueuesInv, Dynamic
<1>15. StopInv'
  BY <1>1, <1>5, <1>6, <1>7, SameStop
<1>16. Covered' /\ \A x \in Admins : BarriersCounted(x)'
  <2>1. \A m \in Lanes : Listed(m) => Listed(m)' \/ Quiet(lane'[m])
    <3> SUFFICES ASSUME NEW m \in Lanes, Listed(m) PROVE Listed(m)' \/ Quiet(lane'[m])
      OBVIOUS
    <3>1. CASE m = l
      BY <3>1, <1>5, <1>6 DEF Quiet
    <3>2. CASE m # l
      <4>1. PICK j \in Keys : queues[j] = m
        BY <1>1 DEF Listed
      <4>2. queues'[j] = m
        BY <1>0, <3>2, <4>1, <1>6
      <4> QED BY <4>2, <1>1 DEF Listed, Dynamic
    <3> QED BY <3>1, <3>2
  <2>2. \A m \in Lanes : Quiet(lane[m]) => Quiet(lane'[m])
    BY <1>5, <1>6 DEF Quiet
  <2>3. \A m \in Lanes, x \in Admins : Holding(lane[m], lane'[m], x)
    BY <1>6, <1>12, SameHolding
  <2> QED BY <1>1, <1>7, <2>1, <2>2, <2>3, SameBarriers
<1>17. ASSUME NEW d \in Clients PROVE ClientInv(d)'
  <2>1. ClientInv(d)
    BY DEF IInv
  <2>2. at[d] \in Lanes => /\ lane'[at[d]].worker = lane[at[d]].worker
                           /\ lane'[at[d]].readers = lane[at[d]].readers
    BY <1>5, <1>6
  <2>3. pc[d] \in Submitting \ {"gate"} /\ at[d] \in Lanes => lane'[at[d]].closed = lane[at[d]].closed
    <3>1. pc[d] \in Submitting \ {"gate"} => at[d] # l
      BY <2>1, <1>1 DEF ClientInv
    <3> QED BY <3>1, <1>6
  <2> QED BY <2>1, <2>2, <2>3, <1>1, <1>7, OtherClient
<1>18. \A x \in Admins : SectionInv(x)'
  <2>1. \A x \in Admins : SectionInv(x)
    BY DEF IInv
  <2> QED BY <1>7, <2>1, SameSections
<1>19. \A d \in Owed' : Kept(d)'
  <2>1. \A d \in Owed : Kept(d)
    BY DEF IInv
  <2>2. \A d \in Clients, m \in Lanes : OnLane(lane[m], d) => OnLane(lane'[m], d)
    BY <1>6, <1>11
  <2>3. \A d \in Owed' : d \in Clients /\ d \in Owed
    BY <1>1, <1>7, AsyncAssumption DEF Owed, ClientTypes
  <2> QED BY <1>7, <2>1, <2>2, <2>3, StillKept
<1> QED BY <1>10, <1>13, <1>14, <1>15, <1>16, <1>17, <1>18, <1>19 DEF IInv

\* A step of the stop that closes no lane.
LEMMA StopStep ==
  ASSUME IInv, StopTypes', StopInv', lifeSealed' \in BOOLEAN,
         UNCHANGED <<setup, client, lane, queues, barriers, lifecycle, section, made>>,
         stopped => stopped', stopping => stopping', lifeSealed => lifeSealed'
  PROVE  IInv'
<1>1. /\ UNCHANGED <<pc, phase, at, ticket, registered, handing, accepted, earlier>>
      /\ UNCHANGED <<active, apc, sec, starts, finished, barriers, lane, queues, lifecycle, setup>>
  BY DEF client, section, made
<1>2. TypeOK'
  BY <1>1 DEF IInv, TypeOK, ClientTypes, RoutingTypes, SectionTypes
<1>3. LanesInv'
  <2>1. \A m \in Lanes : Sending(m)' = Sending(m)
    BY <1>1 DEF Sending
  <2> QED BY <1>1, <2>1, SameLanes DEF IInv
<1>4. Covered' /\ (\A x \in Admins : BarriersCounted(x)') /\ QueuesInv'
  BY <1>1, LanesUnmoved
<1>5. ASSUME NEW d \in Clients PROVE ClientInv(d)'
  <2>1. ClientInv(d)
    BY DEF IInv
  <2> QED BY <1>1, <2>1, OtherClient
<1>6. \A x \in Admins : SectionInv(x)'
  <2>1. \A x \in Admins : SectionInv(x)
    BY DEF IInv
  <2> QED BY <1>1, <2>1, SameSections
<1>7. \A d \in Owed' : Kept(d)'
  <2>1. \A d \in Owed : Kept(d) /\ d \in Clients
    BY AsyncAssumption DEF IInv, Owed, TypeOK, ClientTypes
  <2>2. Owed' = Owed
    BY <1>1 DEF Owed
  <2> QED BY <1>1, <2>1, <2>2, StillKept
<1> QED BY <1>2, <1>3, <1>4, <1>5, <1>6, <1>7 DEF IInv

LEMMA StopMoves ==
  ASSUME IInv, setup' = setup,
         \/ \E h \in BOOLEAN : StopCall(h)
         \/ signalStopOnce \/ waitWorkers \/ waitSections \/ finishLifecycleCleanups \/ StopTimeout
  PROVE  IInv'
<1>1. StopTypes /\ StopInv /\ lifeSealed \in BOOLEAN
  BY DEF IInv, TypeOK, RoutingTypes
<1>2. UNCHANGED <<setup, client, lane, queues, barriers, lifecycle, section, made, stopping>>
  BY DEF StopCall, signalStopOnce, waitWorkers, waitSections, finishLifecycleCleanups, StopTimeout, cleanup
<1>3. UNCHANGED <<registered, handing, apc, lane>>
  BY <1>2 DEF client, section
<1>4. Sections' = Sections /\ (stopped' = stopped => SubmitFence' = SubmitFence)
  BY <1>3 DEF Sections, SubmitFence
<1>5. CASE \E h \in BOOLEAN : StopCall(h)
  <2>1. PICK h \in BOOLEAN : StopCall(h)
    BY <1>5
  <2>2. stops' = stops + 1 /\ cleanupOn' = FALSE /\ hard' = (hard \/ h) /\ stop' = "signal"
        /\ stopped' = stopped /\ lifeSealed' = lifeSealed
    BY <2>1 DEF StopCall, cleanup
  <2>3. StopTypes'
    <3>1. hard \in BOOLEAN /\ stops \in Nat
      BY <1>1 DEF StopTypes
    <3>2. hard' \in BOOLEAN
      BY <2>2, <3>1, Zenon
    <3>3. stops' \in Nat
      BY <2>2, <3>1
    <3> QED BY <1>1, <1>2, <2>2, <3>2, <3>3 DEF StopTypes
  <2>4. StopInv'
    BY <1>1, <1>2, <1>3, <1>4, <2>2 DEF StopInv
  <2> QED BY <1>1, <1>2, <2>2, <2>3, <2>4, StopStep
<1>6. CASE signalStopOnce
  <2>1. stop' = "fence" /\ stopped' = TRUE /\ lifeSealed' = lifeSealed /\ UNCHANGED <<cleanupOn, hard, stops>>
    BY <1>6 DEF signalStopOnce, cleanup
  <2>2. StopTypes'
    BY <1>1, <1>2, <2>1 DEF StopTypes
  <2>3. stopping => stopped
    BY <1>1 DEF StopInv, SubmitFence
  <2>4. StopInv'
    <3>1. stopped' /\ (SubmitFence => SubmitFence')
      BY <2>1, <1>3 DEF SubmitFence
    <3> QED BY <3>1, <1>1, <1>2, <1>3, <1>4, <2>1 DEF StopInv
  <2>5. lifeSealed' \in BOOLEAN /\ (stopped => stopped') /\ (stopping => stopping') /\ (lifeSealed => lifeSealed')
    BY <1>1, <1>2, <2>1
  <2> QED BY <1>2, <2>2, <2>4, <2>5, StopStep
<1>7. CASE waitWorkers \/ waitSections \/ finishLifecycleCleanups \/ StopTimeout
  <2>1. UNCHANGED <<cleanupOn, stopped, hard, stops>>
    BY <1>7 DEF waitWorkers, waitSections, finishLifecycleCleanups, StopTimeout
  <2>2. stop' \in {"idle", "sections", "lifecycle", "done"}
    BY <1>7 DEF waitWorkers, waitSections, finishLifecycleCleanups, StopTimeout
  <2>3. StopTypes'
    BY <1>1, <1>2, <2>1, <2>2 DEF StopTypes
  <2>4. lifeSealed' \in BOOLEAN /\ (stopped => stopped') /\ (stopping => stopping') /\ (lifeSealed => lifeSealed')
    BY <1>1, <1>2, <1>7, <2>1 DEF waitWorkers, waitSections, finishLifecycleCleanups, StopTimeout, cleanup
  <2>5. StopInv'
    <3>1. CASE waitWorkers
      <4>1. stop = "workers" /\ stop' = "sections" /\ lifeSealed' = lifeSealed
            /\ \A l \in Lanes : lane[l].worker \in {"none", "exited"}
        BY <3>1 DEF waitWorkers, cleanup
      <4> QED BY <4>1, <1>1, <1>2, <1>3, <1>4, <2>1 DEF StopInv
    <3>2. CASE waitSections
      <4>1. stop = "sections" /\ stop' = "lifecycle" /\ lifeSealed' = lifeSealed /\ Sections = {}
        BY <3>2 DEF waitSections, cleanup
      <4> QED BY <4>1, <1>1, <1>2, <1>3, <1>4, <2>1 DEF StopInv
    <3>3. CASE finishLifecycleCleanups
      <4>1. stop = "lifecycle" /\ stop' = "done"
        BY <3>3 DEF finishLifecycleCleanups
      <4> QED BY <4>1, <1>1, <1>2, <1>3, <1>4, <2>1 DEF StopInv
    <3>4. CASE StopTimeout
      <4>1. stop' = "idle" /\ lifeSealed' = lifeSealed
        BY <3>4 DEF StopTimeout, cleanup
      <4> QED BY <4>1, <1>1, <1>2, <1>3, <1>4, <2>1 DEF StopInv
    <3> QED BY <1>7, <3>1, <3>2, <3>3, <3>4
  <2> QED BY <1>2, <2>3, <2>4, <2>5, StopStep
<1> QED BY <1>5, <1>6, <1>7

LEMMA CloseLanesKeeps == ASSUME IInv, CloseLanes, setup' = setup PROVE IInv'
<1>1. TypeOK /\ lane \in [Lanes -> LaneRecords] /\ LanesInv /\ QueuesInv /\ StopInv /\ Covered /\ SectionTypes
      /\ ClientTypes /\ RoutingTypes /\ StopTypes /\ SubmitFence /\ stop = "fence"
      /\ stopping' = TRUE /\ stop' = "workers"
      /\ UNCHANGED <<setup, client, queues, barriers, cleanupOn, stopped, hard, stops, cleanup, section, made>>
  BY DEF IInv, TypeOK, CloseLanes
<1>2. \A l \in Lanes : lane'[l] = lane[l] \/ lane'[l] = [lane[l] EXCEPT !.closed = TRUE]
  BY DEF CloseLanes
<1>3. ASSUME NEW l \in Lanes
      PROVE  LET p == lane[l]
                 q == lane'[l]
             IN  /\ q \in LaneRecords /\ LaneShape(q)
                 /\ q.ch = p.ch /\ q.cur = p.cur /\ q.worker = p.worker /\ q.backlog = p.backlog
                 /\ q.pending = p.pending /\ q.retired = p.retired
                 /\ (\A u : (HasTask(q, u) <=> HasTask(p, u)) /\ (OnLane(q, u) <=> OnLane(p, u)))
                 /\ \A x : Holding(p, q, x)
  <2> DEFINE p == lane[l]
             q == lane'[l]
  <2>1. p \in LaneRecords /\ LaneShape(p) /\ (q = p \/ q = [p EXCEPT !.closed = TRUE])
    BY <1>1, <1>2 DEF LanesInv
  <2> HIDE DEF p, q
  <2>2. q \in LaneRecords
    BY <2>1, LaneFields
  <2>3. q.ch = p.ch /\ q.cur = p.cur /\ q.worker = p.worker /\ q.backlog = p.backlog
        /\ q.pending = p.pending /\ q.retired = p.retired /\ q.sealed = p.sealed /\ q.settled = p.settled
        /\ (p.closed => q.closed)
    BY <2>1 DEF LaneRecords
  <2>4. LaneShape(q)
    BY <2>1, <2>3 DEF LaneShape
  <2>5. \A u : (HasTask(q, u) <=> HasTask(p, u)) /\ (OnLane(q, u) <=> OnLane(p, u))
    BY <2>3, SameQueues
  <2>6. \A x : Holding(p, q, x)
    BY <2>3, <2>5 DEF Holding, Holds, Ready
  <2> QED BY <2>2, <2>3, <2>4, <2>5, <2>6 DEF p, q
<1>4. /\ UNCHANGED <<pc, phase, at, ticket, registered, handing, accepted, earlier>>
      /\ UNCHANGED <<stopped, hard, stops, cleanupOn, lifecycle, lifeSealed>>
      /\ UNCHANGED <<active, apc, sec, starts, finished, barriers, queues>>
  BY <1>1 DEF client, cleanup, section, made
<1>5. TypeOK'
  <2>1. lane' \in [Lanes -> LaneRecords]
    <3>1. DOMAIN lane' = Lanes /\ lane' = [l \in Lanes |-> lane'[l]]
      BY DEF CloseLanes
    <3> QED BY <3>1, <1>3
  <2> QED BY <2>1, <1>1, <1>4 DEF TypeOK, ClientTypes, RoutingTypes, StopTypes, SectionTypes
<1>6. LanesInv'
  <2> SUFFICES ASSUME NEW l \in Lanes
               PROVE  LaneShape(lane'[l]) /\ Pending(l)' /\ (lane'[l].retired => Dynamic')
    BY <1>1 DEF LanesInv
  <2>1. Sending(l)' = Sending(l)
    BY <1>4 DEF Sending
  <2>2. Pending(l)'
    BY <1>1, <1>3, <2>1 DEF Pending, LanesInv
  <2>3. lane'[l].retired => Dynamic
    BY <1>1, <1>3 DEF LanesInv
  <2> QED BY <1>3, <2>2, <2>3 DEF Dynamic
<1>7. QueuesInv'
  <2>1. \A k \in Keys : queues[k] # None => queues[k] \in Lanes
    BY <1>1 DEF RoutingTypes
  <2> QED BY <1>1, <1>3, <1>4, <2>1 DEF QueuesInv, Dynamic, Laid
<1>8. StopInv'
  <2>1. Sections' = Sections /\ SubmitFence'
    BY <1>1, <1>4 DEF Sections, SubmitFence
  <2> QED BY <1>1, <1>4, <2>1 DEF StopInv, SubmitFence
<1>9. Covered' /\ \A x \in Admins : BarriersCounted(x)'
  <2>1. \A m \in Lanes : Listed(m)' = Listed(m)
    BY <1>4 DEF Listed, Dynamic, Laid
  <2>2. \A m \in Lanes : Quiet(lane[m]) => Quiet(lane'[m])
    BY <1>3 DEF Quiet
  <2>3. \A m \in Lanes, x \in Admins : Holding(lane[m], lane'[m], x)
    BY <1>3
  <2> QED BY <1>1, <1>4, <2>1, <2>2, <2>3, SameBarriers
<1>10. ASSUME NEW d \in Clients PROVE ClientInv(d)'
  <2>1. ClientInv(d) /\ d \notin registered
    BY <1>1 DEF IInv, SubmitFence
  <2>2. pc[d] \notin Submitting
    BY <2>1 DEF ClientInv
  <2>3. at[d] \in Lanes => lane'[at[d]].worker = lane[at[d]].worker
    BY <1>3
  <2> QED BY <2>1, <2>2, <2>3, <1>1, <1>4, OtherClient
<1>11. \A x \in Admins : SectionInv(x)'
  <2>1. \A x \in Admins : SectionInv(x)
    BY DEF IInv
  <2> QED BY <1>4, <2>1, SameSections
<1>12. \A d \in Owed' : Kept(d)'
  <2>1. \A d \in Owed : Kept(d)
    BY DEF IInv
  <2>2. \A d \in Clients, m \in Lanes : OnLane(lane[m], d) => OnLane(lane'[m], d)
    BY <1>3
  <2>3. \A d \in Owed' : d \in Clients /\ d \in Owed
    BY <1>1, <1>4, AsyncAssumption DEF Owed, ClientTypes
  <2> QED BY <1>4, <2>1, <2>2, <2>3, StillKept
<1> QED BY <1>5, <1>6, <1>7, <1>8, <1>9, <1>10, <1>11, <1>12 DEF IInv


-----------------------------------------------------------------------------
(* The steps of a section. *)

\* Only the section that is under way is published.
LEMMA ActiveOne ==
  ASSUME IInv, NEW x \in Admins, x \in Sections \/ Sections = {}
  PROVE  /\ active \in {x, None}
         /\ \A y \in Admins \ {x} : apc[y] \in {"idle", "done"}
         /\ active = x <=> apc[x] \in Published
<1>1. \A y \in Admins : SectionInv(y)
  BY DEF IInv
<1>2. \A y \in Admins \ {x} : y \notin Sections
  BY <1>1 DEF SectionInv
<1>3. \A y \in Admins \ {x} : apc[y] \in {"idle", "done"}
  BY <1>2 DEF Sections
<1>4. \A y \in Admins : apc[y] \in Published <=> active = y
  BY <1>1 DEF SectionInv
<1>5. active \in Admins \cup {None}
  BY DEF IInv, TypeOK, SectionTypes
<1> QED BY <1>3, <1>4, <1>5 DEF Published

LEMMA SectionStep ==
  ASSUME IInv, NEW x \in Admins, x \in Sections \/ Sections = {}, apc[x] # "done",
         NEW s \in Published \cup {"idle", "install", "release", "done"},
         apc' = [apc EXCEPT ![x] = s],
         Sections = {} /\ stopped => s = "done",
         active' \in {x, None}, s \in Published <=> active' = x,
         sec' \in [Admins -> SectionRecords], \A y \in Admins \ {x} : sec'[y] = sec[y],
         UNCHANGED <<setup, client, lane, queues, barriers, control, cleanup>>,
         starts' \in [Clients -> Nat], finished' \subseteq Clients, finished \subseteq finished',
         sec'[x].expected = sec[x].expected, sec'[x].parked = sec[x].parked,
         s \in {"parking", "ready", "fn"} => sec'[x].lanes = {},
         s \notin Published => sec'[x].deferred = <<>>,
         s \notin {"drain", "draining"} => sec'[x].draining = <<>>,
         s = "draining" => sec'[x].draining # <<>>,
         s = "running" => \A c \in Clients : pc[c] = "offlane" => c \in sec'[x].running,
         s \in {"barriers", "parking", "ready", "fn"} => \A c \in Clients : pc[c] # "offlane",
         s \in {"running", "barriers", "parking"} /\ ~stopped =>
             \A l \in Lanes : Quiet(lane[l]) \/ l \in sec'[x].lanes \/ l \in Barred(x),
         s = "fn" \/ (s = "ready" /\ ~stopped) => \A l \in Lanes : Quiet(lane[l]) \/ Holds(lane[l], x),
         \A d \in Clients : Postponed(sec[x], d) => Postponed(sec'[x], d) \/ d \in finished'
  PROVE  IInv'
<1>1. TypeOK /\ LanesInv /\ QueuesInv /\ StopInv /\ Covered /\ SectionTypes /\ None \notin Admins
  BY AsyncAssumption DEF IInv, TypeOK
<1>2. apc'[x] = s /\ (\A y \in Admins \ {x} : apc'[y] = apc[y])
      /\ apc' \in [Admins -> Published \cup {"idle", "install", "release", "done"}]
  BY <1>1 DEF SectionTypes
<1>3. /\ UNCHANGED <<pc, phase, at, ticket, registered, handing, accepted, earlier>>
      /\ UNCHANGED <<stopping, stopped, stop, hard, stops, cleanupOn, lifecycle, lifeSealed>>
      /\ UNCHANGED <<barriers, lane, queues>>
  BY DEF client, control, cleanup
<1>4. \A y \in Admins \ {x} : apc[y] \in {"idle", "done"}
  BY ActiveOne
<1>5. Sections' \subseteq {x} /\ (Sections = {} /\ stopped => Sections' = {})
  BY <1>2, <1>4 DEF Sections
<1>6. TypeOK'
  BY <1>1, <1>2, <1>3 DEF TypeOK, ClientTypes, RoutingTypes, StopTypes, SectionTypes
<1>7. LanesInv'
  <2>1. \A m \in Lanes : Sending(m)' = Sending(m)
    BY <1>3 DEF Sending
  <2> QED BY <1>1, <1>3, <2>1, SameLanes
<1>8. QueuesInv'
  BY <1>1, <1>3 DEF QueuesInv, Dynamic, Laid
<1>9. StopInv'
  <2>1. SubmitFence' = SubmitFence
    BY <1>3 DEF SubmitFence
  <2> QED BY <1>1, <1>3, <1>5, <2>1 DEF StopInv
<1>10. Covered'
  <2>1. \A m \in Lanes : Listed(m)' = Listed(m)
    BY <1>3 DEF Listed, Dynamic, Laid
  <2>2. Barred(x)' = Barred(x)
    BY <1>3 DEF Barred
  <2>3. ASSUME NEW y \in Admins
        PROVE  (/\ apc[y] \in {"running", "barriers", "parking"} /\ ~stopped =>
                      \A l \in Lanes : Quiet(lane[l]) \/ l \in sec[y].lanes \/ l \in Barred(y)
                /\ apc[y] = "fn" \/ (apc[y] = "ready" /\ ~stopped) =>
                      \A l \in Lanes : Quiet(lane[l]) \/ Holds(lane[l], y))'
    <3>1. CASE y = x
      BY <3>1, <1>2, <1>3, <2>2
    <3>2. CASE y # x
      BY <3>2, <1>2, <1>4
    <3> QED BY <3>1, <3>2
  <2>4. ~stopped' => \A l \in Lanes : Quiet(lane'[l]) \/ Listed(l)'
    BY <1>1, <1>3, <2>1 DEF Covered
  <2> QED BY <2>3, <2>4 DEF Covered
<1>11. ASSUME NEW d \in Clients PROVE ClientInv(d)'
  <2>1. ClientInv(d)
    BY DEF IInv
  <2> QED BY <1>3, <2>1, OtherClient
<1>12. ASSUME NEW y \in Admins PROVE SectionInv(y)'
  <2>1. SectionInv(y)
    BY DEF IInv
  <2>2. CASE y = x
    BY <2>2, <1>2, <1>3, <1>5 DEF SectionInv
  <2>3. CASE y # x
    <3>1. apc'[y] \in {"idle", "done"} /\ apc'[y] = apc[y] /\ sec'[y] = sec[y] /\ active' # y
          /\ y \notin Sections'
      BY <2>3, <1>1, <1>2, <1>4, <1>5
    <3> QED BY <2>1, <3>1 DEF SectionInv, Published
  <2> QED BY <2>2, <2>3
<1>13. ASSUME NEW y \in Admins PROVE BarriersCounted(y)'
  <2>1. BarriersCounted(y) /\ sec[y].expected \in Nat /\ sec[y].parked \in Nat
    BY <1>1 DEF IInv, SectionTypes, SectionRecords
  <2>2. \A l \in Lanes : Holding(lane[l], lane'[l], y)
    BY <1>3, SameHolding
  <2>3. sec'[y].expected = sec[y].expected /\ sec'[y].parked = sec[y].parked /\ (apc'[y] # "done" => apc[y] # "done")
    BY <1>2
  <2> QED BY <2>1, <2>2, <2>3, CountKept
<1>14. \A d \in Owed' : Kept(d)'
  <2>1. \A d \in Owed : Kept(d)
    BY DEF IInv
  <2>2. \A d \in Clients, m \in Lanes : OnLane(lane[m], d) => OnLane(lane'[m], d)
    BY <1>3
  <2>3. \A d \in Owed' : d \in Clients /\ d \in Owed
    BY <1>1, <1>3, AsyncAssumption DEF Owed, TypeOK, ClientTypes
  <2>4. \A d \in Clients, y \in Admins : Postponed(sec[y], d) => Postponed(sec'[y], d) \/ d \in finished'
    OBVIOUS
  <2> QED BY <2>1, <2>2, <2>3, <2>4, StillKept
<1> QED BY <1>6, <1>7, <1>8, <1>9, <1>10, <1>11, <1>12, <1>13, <1>14 DEF IInv

\* The steps that only move the section on.
LEMMA SectionMoves ==
  ASSUME IInv, NEW x \in Admins, x \in Sections \/ Sections = {}, apc[x] # "done",
         NEW s \in Published \cup {"idle", "install", "release", "done"},
         apc' = [apc EXCEPT ![x] = s],
         Sections = {} /\ stopped => s = "done",
         s \in Published <=> apc[x] \in Published,
         UNCHANGED <<setup, client, lane, queues, barriers, control, cleanup, active, sec, finished>>,
         starts' \in [Clients -> Nat],
         s \in {"parking", "ready", "fn"} => sec[x].lanes = {},
         s \notin {"drain", "draining"} => sec[x].draining = <<>>,
         s = "draining" => sec[x].draining # <<>>, s # "running",
         s \in {"barriers", "parking", "ready", "fn"} => \A c \in Clients : pc[c] # "offlane",
         s \in {"barriers", "parking"} /\ ~stopped =>
             \A l \in Lanes : Quiet(lane[l]) \/ l \in sec[x].lanes \/ l \in Barred(x),
         s = "fn" \/ (s = "ready" /\ ~stopped) => \A l \in Lanes : Quiet(lane[l]) \/ Holds(lane[l], x)
  PROVE  IInv'
<1>1. active' \in {x, None} /\ (s \in Published <=> active' = x)
  BY ActiveOne
<1>2. sec' \in [Admins -> SectionRecords] /\ finished' \subseteq Clients
  BY DEF IInv, TypeOK, SectionTypes
<1>3. s \notin Published => sec'[x].deferred = <<>>
  BY DEF IInv, SectionInv
<1> QED BY <1>1, <1>2, <1>3, SectionStep

LEMMA EnterKeeps == ASSUME IInv, NEW x \in Admins, Enter(x), setup' = setup PROVE IInv'
<1> DEFINE s == IF stopped THEN "done" ELSE "install"
<1>1. apc[x] = "idle" /\ Sections = {} /\ apc' = [apc EXCEPT ![x] = s] /\ SectionInv(x)
      /\ UNCHANGED <<client, lane, queues, barriers, control, cleanup, active, sec, made>>
      /\ starts \in [Clients -> Nat]
  BY DEF IInv, TypeOK, Enter, AGoto
<1>2. s \in {"install", "done"} /\ (stopped => s = "done") /\ UNCHANGED <<starts, finished>>
  BY <1>1 DEF made
<1>3. sec[x].draining = <<>>
  BY <1>1 DEF SectionInv
<1> HIDE DEF s
<1> QED BY <1>1, <1>2, <1>3, SectionMoves DEF Published

LEMMA MoveKeeps ==
  ASSUME IInv, NEW x \in Admins, setup' = setup,
         AwaitRunning(x) \/ AllParked(x) \/ RunFn(x) \/ Abandon(x) \/ FnEnds(x) \/ Release(x)
  PROVE  IInv'
<1>1. SectionInv(x) /\ BarriersCounted(x) /\ Covered /\ starts \in [Clients -> Nat] /\ sec[x] \in SectionRecords
  BY DEF IInv, TypeOK, SectionTypes
<1>2. apc[x] \in {"running", "parking", "ready", "fn", "release"}
      /\ UNCHANGED <<client, lane, queues, barriers, control, cleanup, active, sec, made>>
  BY DEF AwaitRunning, AllParked, RunFn, Abandon, FnEnds, Release
<1>3. x \in Sections /\ Sections # {} /\ sec[x].draining = <<>> /\ UNCHANGED <<starts, finished>>
  BY <1>1, <1>2 DEF Sections, SectionInv, made
<1>4. CASE AwaitRunning(x)
  <2>1. apc[x] = "running" /\ apc' = [apc EXCEPT ![x] = "barriers"] /\ \A c \in sec[x].running : pc[c] # "offlane"
    BY <1>4 DEF AwaitRunning, AGoto
  <2>2. \A c \in Clients : pc[c] # "offlane"
    BY <1>1, <2>1 DEF SectionInv
  <2>3. ~stopped => \A l \in Lanes : Quiet(lane[l]) \/ l \in sec[x].lanes \/ l \in Barred(x)
    BY <1>1, <2>1 DEF Covered
  <2> QED BY <1>1, <1>2, <1>3, <2>1, <2>2, <2>3, SectionMoves DEF Published
<1>5. CASE AllParked(x)
  <2>1. apc[x] = "parking" /\ apc' = [apc EXCEPT ![x] = "ready"] /\ sec[x].parked >= sec[x].expected
    BY <1>5 DEF AllParked, AGoto
  <2>2. sec[x].lanes = {} /\ \A c \in Clients : pc[c] # "offlane"
    BY <1>1, <2>1 DEF SectionInv
  <2>3. ~stopped => \A l \in Lanes : Quiet(lane[l]) \/ l \in Barred(x)
    BY <1>1, <2>1, <2>2 DEF Covered
  <2>4. Barred(x) = ParkedOn(x)
    <3>1. ParkedOn(x) \subseteq Barred(x)
      BY DEF ParkedOn, Barred, HasTask
    <3>2. Cardinality(Barred(x)) <= sec[x].expected /\ sec[x].parked <= Cardinality(ParkedOn(x))
          /\ sec[x].expected \in Nat /\ sec[x].parked \in Nat
      BY <1>1, <2>1 DEF BarriersCounted, SectionRecords
    <3> DEFINE B == Barred(x)
               P == ParkedOn(x)
    <3>3. IsFiniteSet(B) /\ Cardinality(B) \in Nat /\ Cardinality(P) \in Nat /\ P \in SUBSET B
      BY <3>1, LanesFinite
    <3>4. Cardinality(B) <= Cardinality(P)
      BY <2>1, <3>2, <3>3
    <3> HIDE DEF B, P
    <3>5. Cardinality(P) <= Cardinality(B) /\ (Cardinality(B) = Cardinality(P) => B = P)
      BY <3>3, FS_Subset
    <3>6. B = P
      BY <3>3, <3>4, <3>5
    <3> QED BY <3>6 DEF B, P
  <2>5. ~stopped => \A l \in Lanes : Quiet(lane[l]) \/ Holds(lane[l], x)
    BY <2>3, <2>4 DEF ParkedOn, Holds
  <2> QED BY <1>1, <1>2, <1>3, <2>1, <2>2, <2>5, SectionMoves DEF Published
<1>6. CASE RunFn(x)
  <2> DEFINE s == IF stopped THEN "withdraw" ELSE "fn"
  <2>1. apc[x] = "ready" /\ apc' = [apc EXCEPT ![x] = s]
    BY <1>6 DEF RunFn, AGoto
  <2>2. s \in {"withdraw", "fn"} /\ (s = "fn" => ~stopped)
    OBVIOUS
  <2>3. sec[x].lanes = {} /\ \A c \in Clients : pc[c] # "offlane"
    BY <1>1, <2>1 DEF SectionInv
  <2>4. s = "fn" => \A l \in Lanes : Quiet(lane[l]) \/ Holds(lane[l], x)
    BY <1>1, <2>1, <2>2 DEF Covered
  <2> HIDE DEF s
  <2> QED BY <1>1, <1>2, <1>3, <2>1, <2>2, <2>3, <2>4, SectionMoves DEF Published
<1>7. CASE Abandon(x) \/ FnEnds(x)
  <2>1. apc[x] \in {"running", "parking", "ready", "fn"} /\ apc' = [apc EXCEPT ![x] = "withdraw"]
    BY <1>7 DEF Abandon, FnEnds, AGoto
  <2> QED BY <1>1, <1>2, <1>3, <2>1, SectionMoves DEF Published
<1>8. CASE Release(x)
  <2>1. apc[x] = "release" /\ apc' = [apc EXCEPT ![x] = "done"]
    BY <1>8 DEF Release, AGoto
  <2> QED BY <1>1, <1>2, <1>3, <2>1, SectionMoves DEF Published
<1> QED BY <1>4, <1>5, <1>6, <1>7, <1>8

LEMMA InstallKeeps == ASSUME IInv, NEW x \in Admins, installExclusive(x), setup' = setup PROVE IInv'
<1> DEFINE L == IF Dynamic THEN {l \in Lanes : Live(l) /\ \E k \in Keys : queues[k] = l} ELSE Laid
           R == lifecycle \cup ({barriers[k] : k \in Keys} \ {None})
<1>1. SectionInv(x) /\ Covered /\ LanesInv /\ StopInv /\ TypeOK /\ sec \in [Admins -> SectionRecords]
      /\ (\A c \in Clients : ClientInv(c)) /\ sec[x] \in SectionRecords
  BY DEF IInv, TypeOK, SectionTypes
<1>2. apc[x] = "install" /\ apc' = [apc EXCEPT ![x] = "running"] /\ active' = x
      /\ sec' = [sec EXCEPT ![x].lanes = L, ![x].running = R]
      /\ UNCHANGED <<client, lane, queues, barriers, control, cleanup, made>>
  BY DEF installExclusive, AGoto
<1>3. x \in Sections /\ Sections # {} /\ UNCHANGED <<starts, finished>>
      /\ starts \in [Clients -> Nat] /\ finished \subseteq Clients
  BY <1>1, <1>2 DEF Sections, made, TypeOK
<1>4. L \in SUBSET Lanes
  BY <1>1, AsyncAssumption DEF TypeOK, Laid
<1>5. R \in SUBSET Clients
  BY <1>1 DEF TypeOK, RoutingTypes
<1>6. \A c \in Clients : pc[c] = "offlane" => c \in R
  <2>1. ~lifeSealed
    BY <1>1, <1>3 DEF StopInv
  <2>2. \A c \in Clients : RouteOf[c] \in Keys /\ c # None
    BY AsyncAssumption
  <2> QED BY <1>1, <2>1, <2>2 DEF ClientInv
<1>7. ~stopped => \A l \in Lanes : Quiet(lane[l]) \/ l \in L
  <2> SUFFICES ASSUME ~stopped, NEW l \in Lanes, ~Quiet(lane[l]) PROVE l \in L
    OBVIOUS
  <2>1. Listed(l) /\ l # None
    BY <1>1, AsyncAssumption DEF Covered
  <2>2. ~lane[l].closed
    BY <1>1 DEF LanesInv, StopInv, SubmitFence, Quiet
  <2> QED BY <2>1, <2>2 DEF Listed, Live
<1> HIDE DEF L, R
<1>8. /\ sec' \in [Admins -> SectionRecords] /\ (\A y \in Admins \ {x} : sec'[y] = sec[y])
      /\ sec'[x].lanes = L /\ sec'[x].running = R
      /\ sec'[x].expected = sec[x].expected /\ sec'[x].parked = sec[x].parked
      /\ sec'[x].deferred = sec[x].deferred /\ sec'[x].draining = sec[x].draining
  BY <1>1, <1>2, <1>4, <1>5 DEF SectionRecords
<1>9. sec[x].draining = <<>>
  BY <1>1, <1>2 DEF SectionInv
<1>10. \A d \in Clients : Postponed(sec[x], d) => Postponed(sec'[x], d)
  BY <1>8 DEF Postponed
<1> QED BY <1>2, <1>3, <1>6, <1>7, <1>8, <1>9, <1>10, SectionStep DEF Published

LEMMA WithdrawKeeps == ASSUME IInv, NEW x \in Admins, withdrawExclusive(x), setup' = setup PROVE IInv'
<1>1. SectionInv(x) /\ sec \in [Admins -> SectionRecords] /\ sec[x] \in SectionRecords
      /\ starts \in [Clients -> Nat] /\ finished \subseteq Clients
  BY DEF IInv, TypeOK, SectionTypes
<1>2. apc[x] = "withdraw" /\ UNCHANGED <<client, lane, queues, barriers, control, cleanup, made>>
  BY DEF withdrawExclusive
<1>3. x \in Sections /\ Sections # {} /\ UNCHANGED <<starts, finished>> /\ active = x
  BY <1>1, <1>2 DEF Sections, made, SectionInv, Published
<1>4. sec[x].draining = <<>> /\ None # x
  BY <1>1, <1>2, AsyncAssumption DEF SectionInv
<1>5. CASE sec[x].deferred = <<>>
  <2>1. apc' = [apc EXCEPT ![x] = "release"] /\ active' = None /\ sec' = sec
    BY <1>5 DEF withdrawExclusive, AGoto
  <2> QED BY <1>1, <1>2, <1>3, <1>4, <1>5, <2>1, SectionStep DEF Published
<1>6. CASE sec[x].deferred # <<>>
  <2> DEFINE D == sec[x].deferred
  <2>1. apc' = [apc EXCEPT ![x] = "drain"] /\ active' = active
        /\ sec' = [sec EXCEPT ![x].draining = D, ![x].deferred = <<>>] /\ D \in Seq(Clients)
    BY <1>1, <1>6 DEF withdrawExclusive, AGoto, SectionRecords
  <2>2. <<>> \in Seq(Clients)
    BY EmptySeq
  <2>3. D = sec[x].deferred
    OBVIOUS
  <2> HIDE DEF D
  <2>4. /\ sec' \in [Admins -> SectionRecords] /\ (\A y \in Admins \ {x} : sec'[y] = sec[y])
        /\ sec'[x].draining = D /\ sec'[x].lanes = sec[x].lanes
        /\ sec'[x].expected = sec[x].expected /\ sec'[x].parked = sec[x].parked
    BY <1>1, <2>1, <2>2 DEF SectionRecords
  <2>5. \A d \in Clients : Postponed(sec[x], d) => Postponed(sec'[x], d)
    <3> SUFFICES ASSUME NEW d \in Clients, Postponed(sec[x], d) PROVE Postponed(sec'[x], d)
      OBVIOUS
    <3>1. \A i \in 1..Len(sec[x].draining) : FALSE
      BY <1>4, EmptySeq
    <3>2. \E i \in 1..Len(D) : D[i] = d
      BY <2>3, <3>1 DEF Postponed
    <3> QED BY <3>2, <2>4 DEF Postponed
  <2> QED BY <1>1, <1>2, <1>3, <2>1, <2>4, <2>5, SectionStep DEF Published
<1> QED BY <1>5, <1>6

LEMMA DrainKeeps ==
  ASSUME IInv, NEW x \in Admins, DrainNext(x) \/ DrainEnds(x), setup' = setup
  PROVE  IInv'
<1>1. SectionInv(x) /\ sec \in [Admins -> SectionRecords] /\ sec[x] \in SectionRecords
      /\ starts \in [Clients -> Nat] /\ finished \subseteq Clients
  BY DEF IInv, TypeOK, SectionTypes
<1>2. apc[x] \in {"drain", "draining"}
      /\ UNCHANGED <<client, lane, queues, barriers, control, cleanup, active>>
  BY DEF DrainNext, DrainEnds
<1>3. x \in Sections /\ Sections # {} /\ active = x /\ None # x
  BY <1>1, <1>2, AsyncAssumption DEF Sections, SectionInv, Published
<1> DEFINE D == sec[x].draining
<1>4. D = sec[x].draining /\ D \in Seq(Clients)
  BY <1>1 DEF SectionRecords
<1> HIDE DEF D
<1>5. D # <<>> => /\ Head(D) \in Clients /\ Tail(D) \in Seq(Clients) /\ Len(D) \in Nat
                  /\ Len(Tail(D)) = Len(D) - 1 /\ Head(D) = D[1]
                  /\ \A i \in 1..Len(Tail(D)) : Tail(D)[i] = D[i + 1]
  BY <1>4, HeadTailProperties, LenProperties
<1>6. CASE DrainNext(x)
  <2>1. apc[x] = "drain" /\ UNCHANGED <<sec, finished>>
    BY <1>6 DEF DrainNext
  <2>2. CASE D = <<>>
    <3>1. apc' = [apc EXCEPT ![x] = "withdraw"] /\ starts' = starts
      BY <1>4, <1>6, <2>2 DEF DrainNext, AGoto
    <3> QED BY <1>1, <1>2, <1>3, <1>4, <2>1, <2>2, <3>1, SectionMoves DEF Published
  <2>3. CASE D # <<>>
    <3>1. apc' = [apc EXCEPT ![x] = "draining"] /\ starts' = [starts EXCEPT ![Head(D)] = @ + 1]
      BY <1>4, <1>6, <2>3 DEF DrainNext, AGoto
    <3>2. starts' \in [Clients -> Nat]
      BY <1>1, <1>5, <2>3, <3>1
    <3> QED BY <1>1, <1>2, <1>3, <1>4, <2>1, <2>3, <3>1, <3>2, SectionMoves DEF Published
  <2> QED BY <2>2, <2>3
<1>7. CASE DrainEnds(x)
  <2>1. apc[x] = "draining" /\ apc' = [apc EXCEPT ![x] = "drain"] /\ starts' = starts
        /\ sec' = [sec EXCEPT ![x].draining = Tail(D)] /\ finished' = finished \cup {Head(D)}
    BY <1>4, <1>7 DEF DrainEnds, AGoto
  <2>2. D # <<>>
    BY <1>1, <1>4, <2>1 DEF SectionInv
  <2>3. /\ sec' \in [Admins -> SectionRecords] /\ (\A y \in Admins \ {x} : sec'[y] = sec[y])
        /\ sec'[x].draining = Tail(D) /\ sec'[x].lanes = sec[x].lanes /\ sec'[x].deferred = sec[x].deferred
        /\ sec'[x].expected = sec[x].expected /\ sec'[x].parked = sec[x].parked
    BY <1>1, <1>5, <2>1, <2>2 DEF SectionRecords
  <2>4. finished' \subseteq Clients /\ finished \subseteq finished'
    BY <1>1, <1>5, <2>1, <2>2
  <2>5. ASSUME NEW d \in Clients, Postponed(sec[x], d) PROVE Postponed(sec'[x], d) \/ d \in finished'
    <3>1. CASE \E i \in 1..Len(sec[x].deferred) : sec[x].deferred[i] = d
      BY <3>1, <2>3 DEF Postponed
    <3>2. CASE \E i \in 1..Len(D) : D[i] = d
      <4>1. PICK i \in 1..Len(D) : D[i] = d
        BY <3>2
      <4>2. CASE i = 1
        BY <4>1, <4>2, <1>5, <2>1, <2>2
      <4>3. CASE i # 1
        <5>1. i - 1 \in 1..Len(Tail(D)) /\ Tail(D)[i - 1] = d
          BY <4>1, <4>3, <1>5, <2>2
        <5> QED BY <5>1, <2>3 DEF Postponed
      <4> QED BY <4>2, <4>3
    <3> QED BY <2>5, <3>1, <3>2, <1>4 DEF Postponed
  <2> QED BY <1>1, <1>2, <1>3, <2>1, <2>3, <2>4, <2>5, SectionStep DEF Published
<1> QED BY <1>6, <1>7

\* The section's barrier is left with lane l of its snapshot, unless l takes no more.
LEMMA LaneBarred ==
  ASSUME IInv, NEW x \in Admins, apc[x] = "barriers", NEW l \in sec[x].lanes,
         NEW q \in LaneRecords, NEW e \in Nat,
         \/ /\ Takes(lane[l]) /\ q = enqueueMandatory(lane[l], x, FALSE)
            /\ e = sec[x].expected + 1
         \/ ~Takes(lane[l]) /\ q = lane[l] /\ e = sec[x].expected,
         lane' = [lane EXCEPT ![l] = q], sec' \in [Admins -> SectionRecords],
         \A y \in Admins \ {x} : sec'[y] = sec[y],
         sec'[x].lanes = sec[x].lanes \ {l}, sec'[x].expected = e,
         sec'[x].parked = sec[x].parked, sec'[x].running = sec[x].running,
         sec'[x].deferred = sec[x].deferred, sec'[x].draining = sec[x].draining,
         UNCHANGED <<setup, client, queues, barriers, control, cleanup, active, apc, made>>
  PROVE  IInv'
<1>1. TypeOK /\ lane \in [Lanes -> LaneRecords] /\ LanesInv /\ QueuesInv /\ StopInv /\ Covered
      /\ SectionTypes /\ ClientTypes /\ RoutingTypes /\ sec[x] \in SectionRecords /\ l \in Lanes
      /\ lane[l] \in LaneRecords /\ LaneShape(lane[l])
  BY DEF IInv, TypeOK, SectionTypes, SectionRecords, LanesInv
<1>2. lane'[l] = q /\ (\A m \in Lanes \ {l} : lane'[m] = lane[m]) /\ lane' \in [Lanes -> LaneRecords]
  BY <1>1
<1>3. /\ UNCHANGED <<pc, phase, at, ticket, registered, handing, accepted, earlier>>
      /\ UNCHANGED <<stopping, stopped, stop, hard, stops, cleanupOn, lifecycle, lifeSealed>>
      /\ UNCHANGED <<starts, finished>>
  BY DEF client, control, cleanup, made
<1>4. \A y \in Admins \ {x} : apc[y] \in {"idle", "done"}
  BY ActiveOne DEF Sections
<1>5. /\ q.ch = lane[l].ch /\ q.cur = lane[l].cur /\ q.worker = lane[l].worker
      /\ q.retired = lane[l].retired /\ q.closed = lane[l].closed /\ q.readers = lane[l].readers
      /\ LaneShape(q) /\ (\A u : HasTask(q, u) => HasTask(lane[l], u) \/ u = x)
      /\ (\A u : HasTask(lane[l], u) => HasTask(q, u))
      /\ q.pending + Len(lane[l].backlog) = lane[l].pending + Len(q.backlog)
      /\ (~Quiet(q) => HasTask(q, x))
  <2>1. CASE ~Takes(lane[l])
    BY <2>1, <1>1 DEF Takes, Quiet, LaneRecords
  <2>2. CASE Takes(lane[l])
    <3> DEFINE p == lane[l]
    <3>1. q = enqueueMandatory(p, x, FALSE) /\ x \in Clients \cup Admins /\ FALSE \in BOOLEAN
          /\ p \in LaneRecords /\ LaneShape(p) /\ Takes(p) /\ p.pending \in Int /\ Len(p.backlog) \in Nat
      BY <2>2, <1>1 DEF LaneRecords
    <3> SUFFICES /\ q.ch = p.ch /\ q.cur = p.cur /\ q.worker = p.worker
                 /\ q.retired = p.retired /\ q.closed = p.closed /\ q.readers = p.readers
                 /\ LaneShape(q) /\ (\A u : HasTask(q, u) => HasTask(p, u) \/ u = x)
                 /\ (\A u : HasTask(p, u) => HasTask(q, u))
                 /\ q.pending + Len(p.backlog) = p.pending + Len(q.backlog)
                 /\ (~Quiet(q) => HasTask(q, x))
      OBVIOUS
    <3> HIDE DEF p
    <3> DEFINE f == FALSE
    <3>2. q = enqueueMandatory(p, x, f) /\ f \in BOOLEAN /\ p \in LaneRecords /\ x \in Clients \cup Admins
          /\ LaneShape(p) /\ Takes(p) /\ x \in Admins
      BY <3>1
    <3> HIDE DEF f
    <3>3. /\ q.ch = p.ch /\ q.cur = p.cur /\ q.worker = p.worker
          /\ q.retired = p.retired /\ q.closed = p.closed /\ q.readers = p.readers
          /\ LaneShape(q) /\ q.pending = p.pending + 1 /\ Len(q.backlog) = Len(p.backlog) + 1
      BY ONLY <3>2, Enqueued
    <3>4. \A u : HasTask(q, u) <=> HasTask(p, u) \/ u = x
      BY ONLY <3>2, Enqueued
    <3>5. q.pending + Len(p.backlog) = p.pending + Len(q.backlog)
      <4> DEFINE a == p.pending
                 b == Len(p.backlog)
      <4>1. a \in Int /\ b \in Nat /\ q.pending = a + 1 /\ Len(q.backlog) = b + 1
        BY <3>1, <3>3
      <4> HIDE DEF a, b
      <4>2. q.pending + b = a + Len(q.backlog)
        BY ONLY <4>1
      <4> QED BY <4>2 DEF a, b
    <3> QED BY ONLY <3>3, <3>4, <3>5
  <2> QED BY <2>1, <2>2
<1>6. TypeOK'
  BY <1>1, <1>2, <1>3 DEF TypeOK, ClientTypes, RoutingTypes, StopTypes, SectionTypes
<1>7. LanesInv'
  <2>1. \A m \in Lanes : Sending(m)' = Sending(m)
    BY <1>3 DEF Sending
  <2>2. Pending(l)'
    <3> DEFINE u == Cardinality(Sending(l))
               p1 == lane[l].pending
               p2 == q.pending
               h1 == Len(lane[l].ch)
               b1 == Len(lane[l].backlog)
               b2 == Len(q.backlog)
               n1 == One(lane[l].cur)
    <3>1. u \in Int /\ p1 \in Int /\ p2 \in Int /\ h1 \in Int /\ b1 \in Int /\ b2 \in Int /\ n1 \in Int
      BY <1>1, SendingFinite DEF LaneRecords, One
    <3>2. p1 = u + h1 + b1 + n1 /\ p2 + b1 = p1 + b2
      BY <1>1, <1>5 DEF LanesInv, Pending, One
    <3>3. p2 + h1 + b1 + n1 = p1 + h1 + b2 + n1 /\ p2 = u + h1 + b2 + n1
      <4> HIDE DEF u, p1, p2, h1, b1, b2, n1
      <4> QED BY <3>1, <3>2
    <3> QED BY <3>3, <2>1, <1>2, <1>5 DEF Pending, One
  <2>3. (q.retired => Dynamic) /\ (q.closed => q.retired \/ stopping)
    BY <1>1, <1>5 DEF LanesInv
  <2> QED BY <1>1, <1>2, <1>3, <1>5, <2>1, <2>2, <2>3, OneLane
<1>8. \A m \in Lanes : lane'[m].worker = lane[m].worker /\ (Quiet(lane'[m]) <=> Quiet(lane[m]))
                       /\ lane'[m].closed = lane[m].closed /\ lane'[m].readers = lane[m].readers
  BY <1>2, <1>5 DEF Quiet
<1>9. QueuesInv'
  BY <1>1, <1>8 DEF QueuesInv, RoutingTypes, Dynamic, Laid
<1>10. StopInv'
  BY <1>1, <1>3, <1>8, SameStop
<1>11. Covered'
  <2>1. \A m \in Lanes : Listed(m)' = Listed(m)
    BY DEF Listed, Dynamic, Laid
  <2>2. ~stopped' => \A m \in Lanes : Quiet(lane'[m]) \/ Listed(m)'
    BY <1>1, <1>3, <1>8, <2>1 DEF Covered
  <2>3. ASSUME ~stopped, NEW m \in Lanes
        PROVE  Quiet(lane'[m]) \/ m \in sec'[x].lanes \/ m \in Barred(x)'
    <3>1. CASE m = l
      BY <3>1, <1>2, <1>5 DEF Barred
    <3>2. CASE m # l
      <4>1. Quiet(lane[m]) \/ m \in sec[x].lanes \/ HasTask(lane[m], x)
        BY <1>1, <2>3 DEF Covered, Barred
      <4> QED BY <3>2, <4>1, <1>2 DEF Barred
    <3> QED BY <3>1, <3>2
  <2>4. ASSUME NEW y \in Admins
        PROVE  (/\ apc[y] \in {"running", "barriers", "parking"} /\ ~stopped =>
                      \A m \in Lanes : Quiet(lane[m]) \/ m \in sec[y].lanes \/ m \in Barred(y)
                /\ apc[y] = "fn" \/ (apc[y] = "ready" /\ ~stopped) =>
                      \A m \in Lanes : Quiet(lane[m]) \/ Holds(lane[m], y))'
    <3>1. CASE y = x
      BY <3>1, <1>3, <2>3
    <3>2. CASE y # x
      BY <3>2, <1>4
    <3> QED BY <3>1, <3>2
  <2> QED BY <2>2, <2>4 DEF Covered
<1>12. ASSUME NEW d \in Clients PROVE ClientInv(d)'
  <2>1. ClientInv(d)
    BY DEF IInv
  <2> QED BY <1>3, <1>8, <2>1, OtherClient
<1>13. ASSUME NEW y \in Admins PROVE SectionInv(y)'
  <2>1. SectionInv(y) /\ Sections' = Sections
    BY DEF IInv, Sections
  <2>2. CASE y = x
    BY <2>1, <2>2, <1>3 DEF SectionInv
  <2>3. CASE y # x
    BY <2>1, <2>3, <1>3 DEF SectionInv
  <2> QED BY <2>2, <2>3
<1>14. ASSUME NEW y \in Admins PROVE BarriersCounted(y)'
  <2>1. BarriersCounted(y) /\ sec[y].expected \in Nat /\ sec[y].parked \in Nat
    BY <1>1 DEF IInv, SectionTypes, SectionRecords
  <2>2. ParkedOn(y)' = ParkedOn(y)
    BY <1>2, <1>5 DEF ParkedOn
  <2>3. CASE y # x
    <3>1. Barred(y)' = Barred(y)
      BY <2>3, <1>2, <1>5 DEF Barred
    <3> QED BY <2>1, <2>2, <2>3, <3>1 DEF BarriersCounted
  <2>4. CASE y = x /\ ~Takes(lane[l])
    <3>1. Barred(y)' = Barred(y)
      BY <2>4, <1>2 DEF Barred
    <3> QED BY <2>1, <2>2, <2>4, <3>1 DEF BarriersCounted
  <2>5. CASE y = x /\ Takes(lane[l])
    <3>1. Barred(x)' \subseteq Barred(x) \cup {l}
      BY <1>2 DEF Barred
    <3>2. IsFiniteSet(Barred(x) \cup {l}) /\ Cardinality(Barred(x) \cup {l}) <= Cardinality(Barred(x)) + 1
      <4> DEFINE B == Barred(x)
      <4>1. IsFiniteSet(B) /\ Cardinality(B) \in Nat
        BY LanesFinite
      <4> HIDE DEF B
      <4>2. IsFiniteSet(B \cup {l})
            /\ Cardinality(B \cup {l}) = (IF l \in B THEN Cardinality(B) ELSE Cardinality(B) + 1)
        BY <4>1, FS_AddElement
      <4>3. IsFiniteSet(B \cup {l}) /\ Cardinality(B \cup {l}) <= Cardinality(B) + 1
        BY <4>1, <4>2
      <4> QED BY <4>3 DEF B
    <3>3. Cardinality(Barred(x)') <= Cardinality(Barred(x) \cup {l})
      BY <3>1, <3>2, FS_Subset
    <3>4. Cardinality(Barred(x) \cup {l}) \in Nat /\ Cardinality(Barred(x)) \in Nat
          /\ Cardinality(Barred(x)') \in Nat
      BY <3>2, FS_CardinalityType, LanesFinite
    <3>5. Cardinality(Barred(x)) <= sec[x].expected /\ sec[x].parked <= Cardinality(ParkedOn(x))
          /\ sec'[x].expected = sec[x].expected + 1
      BY <2>1, <2>5 DEF BarriersCounted
    <3>6. Cardinality(Barred(x)') <= sec'[x].expected
      BY <2>1, <2>5, <3>2, <3>3, <3>4, <3>5
    <3> QED BY <2>2, <2>5, <3>5, <3>6 DEF BarriersCounted
  <2> QED BY <2>3, <2>4, <2>5
<1>15. \A d \in Owed' : Kept(d)'
  <2>1. \A d \in Owed : Kept(d)
    BY DEF IInv
  <2>2. \A d \in Clients, m \in Lanes : OnLane(lane[m], d) => OnLane(lane'[m], d)
    BY <1>2, <1>5 DEF OnLane
  <2>3. \A d \in Clients, y \in Admins : Postponed(sec[y], d) => Postponed(sec'[y], d)
    BY DEF Postponed
  <2>4. \A d \in Owed' : d \in Clients /\ d \in Owed
    BY <1>1, <1>3, AsyncAssumption DEF Owed, ClientTypes
  <2> QED BY <2>1, <2>2, <2>3, <2>4, <1>3, StillKept
<1> QED BY <1>6, <1>7, <1>9, <1>10, <1>11, <1>12, <1>13, <1>14, <1>15 DEF IInv

LEMMA BarrierKeeps == ASSUME IInv, NEW x \in Admins, enqueueBarrier(x), setup' = setup PROVE IInv'
<1>1. SectionInv(x) /\ Covered /\ sec \in [Admins -> SectionRecords] /\ sec[x] \in SectionRecords
      /\ starts \in [Clients -> Nat] /\ lane \in [Lanes -> LaneRecords]
  BY DEF IInv, TypeOK, SectionTypes
<1>2. apc[x] = "barriers" /\ UNCHANGED <<client, queues, barriers, control, cleanup, active, made>>
  BY DEF enqueueBarrier
<1>3. x \in Sections /\ Sections # {} /\ sec[x].draining = <<>> /\ UNCHANGED <<starts, finished>>
      /\ \A c \in Clients : pc[c] # "offlane"
  BY <1>1, <1>2 DEF Sections, SectionInv, made
<1>4. CASE sec[x].lanes = {}
  <2>1. apc' = [apc EXCEPT ![x] = "parking"] /\ UNCHANGED <<lane, sec>>
    BY <1>4 DEF enqueueBarrier, AGoto
  <2>2. ~stopped => \A l \in Lanes : Quiet(lane[l]) \/ l \in sec[x].lanes \/ l \in Barred(x)
    BY <1>1, <1>2 DEF Covered
  <2> QED BY <1>1, <1>2, <1>3, <1>4, <2>1, <2>2, SectionMoves DEF Published
<1>5. CASE sec[x].lanes # {}
  <2>1. PICK l \in sec[x].lanes :
          /\ UNCHANGED apc
          /\ IF Takes(lane[l])
             THEN /\ lane' = [lane EXCEPT ![l] = enqueueMandatory(@, x, FALSE)]
                  /\ sec' = [sec EXCEPT ![x].lanes = @ \ {l}, ![x].expected = @ + 1]
             ELSE /\ sec' = [sec EXCEPT ![x].lanes = @ \ {l}]
                  /\ UNCHANGED lane
    BY <1>5 DEF enqueueBarrier
  <2>2. l \in Lanes /\ lane[l] \in LaneRecords /\ sec[x].expected \in Nat
        /\ sec[x].lanes \ {l} \in SUBSET Lanes
    BY <1>1 DEF SectionRecords
  <2>3. CASE Takes(lane[l])
    <3> DEFINE q == enqueueMandatory(lane[l], x, FALSE)
               e == sec[x].expected + 1
               S == sec[x].lanes \ {l}
    <3>a. lane' = [lane EXCEPT ![l] = q]
      BY <1>1, <2>1, <2>2, <2>3
    <3>b. e \in Nat /\ S \in SUBSET Lanes
      BY <2>2
    <3>c. sec' = [sec EXCEPT ![x].lanes = S, ![x].expected = e]
      <4>1. sec' = [sec EXCEPT ![x].lanes = @ \ {l}, ![x].expected = @ + 1]
        BY <2>1, <2>3
      <4> QED BY ONLY <4>1, <1>1, x \in Admins DEF S, e, SectionRecords
    <3>1. lane' = [lane EXCEPT ![l] = q] /\ sec' = [sec EXCEPT ![x].lanes = S, ![x].expected = e]
          /\ q = enqueueMandatory(lane[l], x, FALSE) /\ e = sec[x].expected + 1 /\ e \in Nat
          /\ S = sec[x].lanes \ {l} /\ S \in SUBSET Lanes
      BY <3>a, <3>b, <3>c
    <3> HIDE DEF q, e, S
    <3>2. q \in LaneRecords
      <4>1. x \in Clients \cup Admins /\ FALSE \in BOOLEAN
        OBVIOUS
      <4> QED BY ONLY <2>2, <3>1, <4>1, Enqueued
    <3>3. /\ sec' \in [Admins -> SectionRecords] /\ (\A y \in Admins \ {x} : sec'[y] = sec[y])
          /\ sec'[x].lanes = S /\ sec'[x].expected = e
          /\ sec'[x].parked = sec[x].parked /\ sec'[x].running = sec[x].running
          /\ sec'[x].deferred = sec[x].deferred /\ sec'[x].draining = sec[x].draining
      BY <1>1, <3>1 DEF SectionRecords
    <3> QED BY <1>2, <2>1, <2>3, <3>1, <3>2, <3>3, LaneBarred
  <2>4. CASE ~Takes(lane[l])
    <3> DEFINE q == lane[l]
               e == sec[x].expected
               S == sec[x].lanes \ {l}
    <3>0. lane' = lane /\ [lane EXCEPT ![l] = lane[l]] = lane
      BY <1>1, <2>1, <2>2, <2>4
    <3>1. lane' = [lane EXCEPT ![l] = q] /\ sec' = [sec EXCEPT ![x].lanes = S]
          /\ q = lane[l] /\ e = sec[x].expected /\ e \in Nat /\ q \in LaneRecords
          /\ S = sec[x].lanes \ {l} /\ S \in SUBSET Lanes
      BY <1>1, <2>1, <2>2, <2>4, <3>0
    <3> HIDE DEF q, e, S
    <3>3. /\ sec' \in [Admins -> SectionRecords] /\ (\A y \in Admins \ {x} : sec'[y] = sec[y])
          /\ sec'[x].lanes = S /\ sec'[x].expected = e
          /\ sec'[x].parked = sec[x].parked /\ sec'[x].running = sec[x].running
          /\ sec'[x].deferred = sec[x].deferred /\ sec'[x].draining = sec[x].draining
      BY <1>1, <3>1 DEF SectionRecords
    <3> QED BY <1>2, <2>1, <2>4, <3>1, <3>3, LaneBarred
  <2> QED BY <2>3, <2>4
<1> QED BY <1>4, <1>5


-----------------------------------------------------------------------------
(* Every step keeps the invariant. *)

LEMMA ClientKeeps ==
  ASSUME IInv, NEW c \in Clients, Begin(c) \/ Client(c) \/ GiveUp(c), setup' = setup
  PROVE  IInv'
<1>1. CASE Begin(c) \/ Check(c) \/ Read(c) \/ PassBarrier(c) \/ Create(c) \/ Gate(c)
  BY <1>1, BeginKeeps, CheckKeeps, ReadKeeps, PassBarrierKeeps, CreateKeeps, GateKeeps
<1>2. CASE PassFence(c) \/ admitTask(c) \/ Send(c) \/ Block(c) \/ Register(c) \/ Handoff(c)
  BY <1>2, PassFenceKeeps, AdmitKeeps, SendKeeps, BlockKeeps, RegisterKeeps, HandoffKeeps
<1>3. CASE WithoutLane(c) \/ StoppedLane(c) \/ LateHandoff(c) \/ beginLifecycleCleanup(c) \/ OffLaneEnds(c)
  BY <1>3, WithoutLaneKeeps, StoppedLaneKeeps, LateHandoffKeeps, LifecycleKeeps, OffLaneEndsKeeps
<1>4. CASE GiveUp(c)
  BY <1>4, FenceFailsKeeps, SendFailsKeeps DEF GiveUp
<1> QED BY <1>1, <1>2, <1>3, <1>4 DEF Client

LEMMA WorkerKeeps == ASSUME IInv, NEW l \in Lanes, Worker(l), setup' = setup PROVE IInv'
BY TakeKeeps, WaitKeeps, ReceiveKeeps, SeeKeeps, SeeRetiredKeeps, FinishKeeps, ParkKeeps, UnparkKeeps
   DEF Worker

LEMMA AdminKeeps ==
  ASSUME IInv, NEW x \in Admins, Enter(x) \/ Admin(x) \/ Abandon(x), setup' = setup
  PROVE  IInv'
<1>1. CASE Enter(x) \/ installExclusive(x) \/ enqueueBarrier(x) \/ withdrawExclusive(x)
  BY <1>1, EnterKeeps, InstallKeeps, BarrierKeeps, WithdrawKeeps
<1>2. CASE AwaitRunning(x) \/ AllParked(x) \/ RunFn(x) \/ Abandon(x) \/ FnEnds(x) \/ Release(x)
  BY <1>2, MoveKeeps
<1>3. CASE DrainNext(x) \/ DrainEnds(x)
  BY <1>3, DrainKeeps
<1> QED BY <1>1, <1>2, <1>3 DEF Admin

LEMMA NextKeeps == ASSUME IInv, [Next]_vars PROVE IInv'
<1>1. CASE Next
  <2>1. Steps /\ setup' = setup
    BY <1>1 DEF Next
  <2>2. CASE \E c \in Clients : Begin(c) \/ Client(c) \/ GiveUp(c)
    BY <2>1, <2>2, ClientKeeps
  <2>3. CASE \E l \in Lanes : Worker(l)
    BY <2>1, <2>3, WorkerKeeps
  <2>4. CASE \E k \in Keys : Retire(k)
    BY <2>1, <2>4, RetireKeeps
  <2>5. CASE \E x \in Admins : Enter(x) \/ Admin(x) \/ Abandon(x)
    BY <2>1, <2>5, AdminKeeps
  <2>6. CASE (\E h \in BOOLEAN : StopCall(h)) \/ Stop \/ StopTimeout
    BY <2>1, <2>6, StopMoves, CloseLanesKeeps DEF Stop
  <2> QED BY <2>1, <2>2, <2>3, <2>4, <2>5, <2>6 DEF Steps
<1>2. CASE UNCHANGED vars
  <2>1. /\ UNCHANGED <<setup, pc, phase, at, ticket, registered, handing, accepted, earlier>>
        /\ UNCHANGED <<lane, queues, barriers, stopping, cleanupOn, stopped, hard, stop, stops>>
        /\ UNCHANGED <<lifecycle, lifeSealed, active, apc, sec, starts, finished>>
    BY <1>2 DEF vars, client, control, cleanup, section, made
  <2>2. TypeOK' /\ LanesInv' /\ QueuesInv'
    BY <2>1, ZenonT(60) DEF IInv, TypeOK, ClientTypes, RoutingTypes, StopTypes, SectionTypes, LanesInv, Pending,
                Sending, QueuesInv, Dynamic, Laid
  <2>3. StopInv' /\ Covered'
    <3>1. Sections' = Sections /\ SubmitFence' = SubmitFence
      BY <2>1 DEF Sections, SubmitFence
    <3>2. StopInv'
      BY <2>1, <3>1 DEF IInv, StopInv
    <3> QED BY <2>1, <3>2, LanesUnmoved
  <2>4. \A c \in Clients : ClientInv(c)'
    BY <2>1 DEF IInv, ClientInv, Dynamic
  <2>5. \A x \in Admins : SectionInv(x)' /\ BarriersCounted(x)'
    <3>1. \A x \in Admins : SectionInv(x)'
      BY <2>1 DEF IInv, SectionInv, Sections
    <3> QED BY <2>1, <3>1, LanesUnmoved
  <2>6. \A c \in Owed' : Kept(c)'
    BY <2>1 DEF IInv, Owed, Kept
  <2> QED BY <2>2, <2>3, <2>4, <2>5, <2>6 DEF IInv
<1> QED BY <1>1, <1>2

\* The inductive invariant holds of every engine: Dynamic or Sharded, of any capacity and
\* any number of lanes, clients and sections, through every retirement, failed submit and stop.
THEOREM AsyncInvariant == Spec => []IInv
BY InitInv, NextKeeps, PTL DEF Spec

\* A lane that stands on a section's barrier, or makes no more calls, is making none.
LEMMA StandsStill ==
  ASSUME NEW p \in LaneRecords, LaneShape(p), NEW x, Quiet(p) \/ Holds(p, x)
  PROVE  p.worker \notin {"task", "release"}
BY DEF LaneShape, Quiet, Holds

\* While fn of an Exclusive section runs, no lane, no caller's off-lane release and no drain
\* makes an engine call (exclusive.go: runExclusive, enqueueBarrier and getOrCreate's barrier
\* on the lanes that are created meanwhile).
THEOREM SectionsRunAlone == Spec => []ExclusiveAlone
<1>1. IInv => ExclusiveAlone
  <2> SUFFICES ASSUME IInv, NEW x \in Admins, apc[x] = "fn" PROVE Calls = {}
    BY DEF ExclusiveAlone
  <2>1. SectionInv(x) /\ Covered /\ LanesInv /\ lane \in [Lanes -> LaneRecords]
    BY DEF IInv, TypeOK
  <2>2. ASSUME NEW l \in Lanes PROVE lane[l].worker \notin {"task", "release"}
    <3>1. lane[l] \in LaneRecords /\ LaneShape(lane[l]) /\ (Quiet(lane[l]) \/ Holds(lane[l], x))
      BY <2>1 DEF Covered, LanesInv
    <3> QED BY <3>1, StandsStill
  <2>3. \A c \in Clients : pc[c] # "offlane"
    BY <2>1 DEF SectionInv
  <2>4. \A y \in Admins : apc[y] # "draining"
    BY ActiveOne DEF Sections
  <2> QED BY <2>2, <2>3, <2>4 DEF Calls
<1> QED BY <1>1, AsyncInvariant, PTL

\* A stop that has returned success left nothing behind: the accepted tasks and the releases of
\* the calls that had returned are done, and no section is open (engine.go: stop, strategy.go:
\* closeQueueChannels, waitWorkers, waitSections, finishLifecycleCleanups).
THEOREM StopsDrain == Spec => []StopDrains
<1>1. IInv => StopDrains
  <2> SUFFICES ASSUME IInv, stop = "done"
               PROVE  /\ accepted \subseteq finished
                      /\ \A c \in Clients : pc[c] = "done" /\ c \in Owners => c \in finished
                      /\ Sections = {}
    BY DEF StopDrains
  <2>1. StopInv /\ LanesInv /\ lane \in [Lanes -> LaneRecords] /\ accepted \subseteq Clients
        /\ (\A x \in Admins : SectionInv(x)) /\ (\A c \in Owed : Kept(c))
    BY DEF IInv, TypeOK, ClientTypes
  <2>2. Sections = {} /\ \A l \in Lanes : lane[l].worker \in {"none", "exited"}
    BY <2>1 DEF StopInv
  <2>3. ASSUME NEW c \in Clients, NEW l \in Lanes PROVE ~OnLane(lane[l], c)
    <3>1. lane[l] \in LaneRecords /\ LaneShape(lane[l]) /\ lane[l].worker \in {"none", "exited"}
      BY <2>1, <2>2 DEF LanesInv
    <3> QED BY <3>1, FreeHoldsNothing
  <2>4. ASSUME NEW c \in Clients, NEW x \in Admins PROVE ~Postponed(sec[x], c)
    <3>1. apc[x] \in {"idle", "done"}
      BY <2>2 DEF Sections
    <3>2. sec[x].deferred = <<>> /\ sec[x].draining = <<>>
      BY <2>1, <3>1 DEF SectionInv, Published
    <3>3. \A i \in 1..Len(<<>>) : FALSE
      BY EmptySeq
    <3> QED BY <3>2, <3>3 DEF Postponed
  <2>5. \A c \in Owed : c \in Clients => c \in finished
    BY <2>1, <2>3, <2>4 DEF Kept
  <2> QED BY <2>1, <2>2, <2>5 DEF Owed
<1> QED BY <1>1, AsyncInvariant, PTL

=============================================================================
