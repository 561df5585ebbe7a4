---------------------------- MODULE EngineProofs ----------------------------
(***************************************************************************)
(* Proofs about the engine's pipelines, for any calls, accounts, policies  *)
(* and batches: a call leaves everything it registered or nothing, a       *)
(* failed finalizer keeps its account blocked, and an operation that       *)
(* failed as a whole leaves none of its policies' blocks.                  *)
(***************************************************************************)
EXTENDS Engine, SequenceTheorems, WellFoundedInduction, TLAPS

(***************************************************************************)
(* Sequences and sets of numbers.                                          *)
(***************************************************************************)

LEMMA RangeIs ==
  ASSUME NEW S, NEW s \in Seq(S)
  PROVE  /\ \A x : x \in Range(s) <=> \E i \in 1 .. Len(s) : x = s[i]
         /\ Range(s) \subseteq S
<1>1. DOMAIN s = 1 .. Len(s) /\ \A i \in 1 .. Len(s) : s[i] \in S
  OBVIOUS
<1> QED BY <1>1 DEF Range

\* The sequence without its last element, and without its first.
LEMMA WithoutLast ==
  ASSUME NEW S, NEW s \in Seq(S), s # <<>>, Distinct(s)
  PROVE  LET f == RemoveAt(s, Len(s)) IN
         /\ f \in Seq(S) /\ Distinct(f) /\ s[Len(s)] \in S
         /\ \A i \in 1 .. Len(f) : f[i] \in Range(s) /\ f[i] # s[Len(s)]
         /\ Range(s) = Range(f) \cup {s[Len(s)]}
         /\ s[Len(s)] \notin Range(f)
<1> DEFINE n == Len(s)
           f == RemoveAt(s, n)
<1>1. n \in Nat /\ n # 0
  BY EmptySeq
<1>2. SubSeq(s, n + 1, n) = <<>>
  BY <1>1
<1>3. f = SubSeq(s, 1, n - 1)
  <2>1. SubSeq(s, 1, n - 1) \in Seq(S)
    BY <1>1, SubSeqProperties
  <2> QED BY <1>2, <2>1, ConcatEmptySeq DEF RemoveAt
<1>4. f \in Seq(S) /\ Len(f) = n - 1 /\ \A i \in 1 .. n - 1 : f[i] = s[i]
  <2>1. \A i \in 1 .. n - 1 : s[i] \in S
    BY <1>1
  <2> DEFINE k == n - 1
             g == SubSeq(s, 1, k)
  <2>2. 1 \in Int /\ k \in Int /\ k >= 0
    BY <1>1
  <2>3. /\ g \in Seq(S) /\ Len(g) = IF 1 <= k THEN k - 1 + 1 ELSE 0
        /\ \A i \in 1 .. k - 1 + 1 : g[i] = s[1 + i - 1]
    <3> HIDE DEF k, n
    <3> QED BY <2>1, <2>2, SubSeqProperties DEF k
  <2> HIDE DEF g
  <2>4. g \in Seq(S) /\ Len(g) = k /\ \A i \in 1 .. k : g[i] = s[i]
    <3> HIDE DEF k
    <3> QED BY <2>2, <2>3
  <2> QED BY <1>3, <2>4 DEF g
<1> HIDE DEF f, n
<1>5. \A i \in 1 .. n : s[i] \in S
  BY DEF n
<1>6. Distinct(f)
  BY <1>1, <1>4 DEF Distinct, n
<1>7. \A i \in 1 .. Len(f) : f[i] \in Range(s) /\ f[i] # s[n]
  BY <1>1, <1>4, RangeIs DEF Distinct, n
<1>8. s[n] \notin Range(f)
  BY <1>4, <1>7, RangeIs
<1>9. Range(s) = Range(f) \cup {s[n]}
  <2>1. ASSUME NEW x \in Range(s) PROVE x \in Range(f) \cup {s[n]}
    <3>1. PICK i \in 1 .. n : x = s[i]
      BY RangeIs DEF n
    <3>2. CASE i = n
      BY <3>1, <3>2
    <3>3. CASE i # n
      BY <1>1, <1>4, <3>1, <3>3, RangeIs
    <3> QED BY <3>2, <3>3
  <2>2. ASSUME NEW x \in Range(f) \cup {s[n]} PROVE x \in Range(s)
    BY <1>1, <1>4, <1>7, RangeIs DEF n
  <2> QED BY <2>1, <2>2
<1> QED BY <1>1, <1>4, <1>5, <1>6, <1>7, <1>8, <1>9 DEF f, n

LEMMA WithoutFirst ==
  ASSUME NEW S, NEW s \in Seq(S), s # <<>>, Distinct(s)
  PROVE  /\ Tail(s) \in Seq(S) /\ Distinct(Tail(s)) /\ Head(s) \in S
         /\ \A i \in 1 .. Len(Tail(s)) : Tail(s)[i] \in Range(s) /\ Tail(s)[i] # Head(s)
         /\ Range(s) = Range(Tail(s)) \cup {Head(s)}
         /\ Head(s) \notin Range(Tail(s))
<1> DEFINE n == Len(s)
           f == Tail(s)
           h == Head(s)
<1>1. n \in Nat /\ n # 0 /\ h = s[1]
  BY EmptySeq
<1>2. f \in Seq(S) /\ Len(f) = n - 1 /\ \A i \in 1 .. n - 1 : f[i] = s[i + 1]
  BY <1>1
<1> HIDE DEF f, n, h
<1>3. \A i \in 1 .. n : s[i] \in S
  BY DEF n
<1>4. Distinct(f)
  BY <1>1, <1>2 DEF Distinct, n
<1>5. \A i \in 1 .. Len(f) : f[i] \in Range(s) /\ f[i] # h
  BY <1>1, <1>2, RangeIs DEF Distinct, n
<1>6. h \notin Range(f)
  BY <1>2, <1>5, RangeIs
<1>7. Range(s) = Range(f) \cup {h}
  <2>1. ASSUME NEW x \in Range(s) PROVE x \in Range(f) \cup {h}
    <3>1. PICK i \in 1 .. n : x = s[i]
      BY RangeIs DEF n
    <3>2. CASE i = 1
      BY <1>1, <3>1, <3>2
    <3>3. CASE i # 1
      <4>1. i - 1 \in 1 .. n - 1 /\ x = f[i - 1]
        BY <1>1, <1>2, <3>1, <3>3
      <4> QED BY <1>2, <4>1, RangeIs
    <3> QED BY <3>2, <3>3
  <2>2. ASSUME NEW x \in Range(f) \cup {h} PROVE x \in Range(s)
    BY <1>1, <1>2, <1>5, RangeIs DEF n
  <2> QED BY <2>1, <2>2
<1> QED BY <1>1, <1>2, <1>3, <1>4, <1>5, <1>6, <1>7 DEF f, n, h

\* One more at the end.
LEMMA WithOneMore ==
  ASSUME NEW S, NEW s \in Seq(S), NEW x \in S
  PROVE  LET t == s \o <<x>> IN
         /\ t \in Seq(S) /\ Len(t) = Len(s) + 1 /\ t[Len(s) + 1] = x
         /\ \A i \in 1 .. Len(s) : t[i] = s[i]
         /\ Range(t) = Range(s) \cup {x}
<1> DEFINE t == s \o <<x>>
<1>1. /\ t \in Seq(S) /\ Len(t) = Len(s) + 1 /\ t[Len(s) + 1] = x
      /\ \A i \in 1 .. Len(s) : t[i] = s[i]
  OBVIOUS
<1>2. Len(s) \in Nat
  OBVIOUS
<1> HIDE DEF t
<1>3. Range(t) = Range(s) \cup {x}
  <2>1. ASSUME NEW y \in Range(t) PROVE y \in Range(s) \cup {x}
    <3>1. PICK i \in 1 .. Len(s) + 1 : y = t[i]
      BY <1>1, RangeIs
    <3> QED BY <1>1, <1>2, <3>1, RangeIs
  <2>2. ASSUME NEW y \in Range(s) \cup {x} PROVE y \in Range(t)
    <3>1. CASE y = x
      BY <1>1, <1>2, <3>1, RangeIs
    <3>2. CASE y \in Range(s)
      <4>1. PICK i \in 1 .. Len(s) : y = s[i]
        BY <3>2, RangeIs
      <4> QED BY <1>1, <1>2, <4>1, RangeIs
    <3> QED BY <3>1, <3>2
  <2> QED BY <2>1, <2>2
<1> QED BY <1>1, <1>3 DEF t

\* A bounded set of numbers that is not empty has a greatest one.
LEMMA MaxInSet ==
  ASSUME NEW T, T \subseteq Nat, T # {}, NEW n \in Nat, \A x \in T : x <= n
  PROVE  Max(T) \in T
<1> DEFINE R == {ss \in Nat \X Nat : ss[1] < ss[2]}
           U == {u \in Nat : \A x \in T : x <= u}
<1>1. IsWellFoundedOn(R, Nat)
  BY NatLessThanWellFounded, Zenon DEF OpToRel
<1>2. U \subseteq Nat /\ U # {}
  OBVIOUS
<1> HIDE DEF R
<1>3. PICK u \in U : \A y \in U : ~ (<<y, u>> \in R)
  BY <1>1, <1>2, WFMin, Zenon
<1>4. u \in T
  <2> SUFFICES ASSUME u \notin T PROVE FALSE
    OBVIOUS
  <2>1. PICK x \in T : TRUE
    OBVIOUS
  <2>2. \A y \in T : y < u
    OBVIOUS
  <2>3. u - 1 \in U
    BY <2>1, <2>2
  <2>4. <<u - 1, u>> \in Nat \X Nat /\ <<u - 1, u>>[1] < <<u - 1, u>>[2]
    BY <2>3
  <2>5. <<u - 1, u>> \in R
    BY <2>4, Zenon DEF R
  <2> QED BY <1>3, <2>3, <2>5
<1>5. \A x \in T : u >= x
  OBVIOUS
<1> QED BY <1>4, <1>5 DEF Max

(***************************************************************************)
(* What a step owes.                                                       *)
(***************************************************************************)

LEMMA SetupFacts ==
  ASSUME TypeOK
  PROVE  /\ PolicyCount \in Nat /\ PolicyCount # 0 /\ MaxElements \in Nat
         /\ Policies \subseteq Nat /\ 1 \in Policies
         /\ Kinds \subseteq {"pre_trade", "drop_copy", "adjustment", "report", "retire"}
  BY EngineAssumption DEF TypeOK, PolicyCount, MaxElements, Policies, Kinds

LEMMA NoBlockFacts ==
  /\ NoBlock \in Causes /\ NoBlock.by = Operator /\ NoBlock.tag = NoTag
  /\ Operator \notin Calls
  BY EngineAssumption DEF NoBlock, Causes, Tags

LEMMA CauseFacts ==
  ASSUME NEW by \in Calls \cup {Operator}, NEW tag \in Tags,
         NEW how \in {"operator", "control", "reported", "finalizer"}
  PROVE  /\ Cause(by, how, tag) \in Causes /\ Cause(by, how, tag) # NoBlock
         /\ Cause(by, how, tag).by = by /\ Cause(by, how, tag).how = how
         /\ Cause(by, how, tag).tag = tag
  BY DEF Cause, Causes, NoBlock

\* The other calls, in the same setup, are as they were.
Apart(c) ==
  \A d \in Calls \ {c} : /\ call'[d] = call[d] /\ registered'[d] = registered[d]
                         /\ broken'[d] = broken[d] /\ Left(d)' = Left(d)

\* Every cause is the old one, none, the operator's or one that c explains.
Explained(c) ==
  \A a \in Accounts :
    \/ block'[a] = block[a] /\ (block[a].by = c => Sourced(block[a], call'[c]))
    \/ block'[a].by = Operator
    \/ block'[a].by = c /\ Sourced(block'[a], call'[c])

LEMMA StepKeeps ==
  ASSUME IInv, NEW c \in Calls, setup' = setup, TypeOK', Apart(c), Explained(c), Armed',
         CallOK(call'[c], registered'[c], broken'[c], Left(c)')
  PROVE  IInv'
<1>1. ASSUME NEW d \in Calls
      PROVE  CallOK(call'[d], registered'[d], broken'[d], Left(d)')
  BY <1>1 DEF IInv, Apart
<1>2. ASSUME NEW d \in Calls
      PROVE  CallOK(call[d], registered[d], broken[d], Left(d))'
  BY <1>1, <1>2 DEF CallOK, InOrder, Unfinished, Leaves, Custom
<1>3. ASSUME NEW d \in Calls, NEW a \in Accounts, block'[a].by = d
      PROVE  Sourced(block'[a], call'[d])
  <2>1. CASE d = c
    BY <1>3, <2>1, NoBlockFacts DEF Explained
  <2>2. CASE d # c
    <3>1. block'[a] = block[a] /\ call'[d] = call[d]
      BY <1>3, <2>2, NoBlockFacts DEF Explained, Apart
    <3> QED BY <1>3, <3>1 DEF IInv
  <2> QED BY <2>1, <2>2
<1> QED BY <1>2, <1>3 DEF IInv

\* A step that only moves the call.
LEMMA QuietMove ==
  ASSUME IInv, NEW c \in Calls, NEW r \in CallRecords,
         call' = [call EXCEPT ![c] = r], UNCHANGED <<setup, effects, block, blockAll, ghosts>>,
         CallOK(r, registered[c], broken[c], Left(c)),
         \A a \in Accounts : block[a].by = c /\ Sourced(block[a], call[c])
                                => Sourced(block[a], r)
  PROVE  IInv'
<1>1. UNCHANGED <<registered, broken, owed, shadowed>>
  BY DEF ghosts
<1>2. call'[c] = r /\ call' \in [Calls -> CallRecords]
      /\ \A d \in Calls \ {c} : call'[d] = call[d]
  BY DEF IInv, TypeOK
<1>3. \A d \in Calls : Left(d)' = Left(d)
  BY DEF Left
<1>4. TypeOK'
  <2>1. CallRecords' = CallRecords /\ Mutations' = Mutations /\ Policies' = Policies
    BY DEF CallRecords, Mutations, Policies, PolicyCount
  <2> QED BY <1>1, <1>2, <2>1 DEF IInv, TypeOK
<1>5. Apart(c)
  BY <1>1, <1>2, <1>3 DEF Apart
<1>6. Explained(c)
  BY <1>2 DEF Explained, IInv
<1>7. Armed'
  BY <1>1 DEF IInv, Armed, Blocks
<1> QED BY <1>1, <1>2, <1>3, <1>4, <1>5, <1>6, <1>7, StepKeeps

(***************************************************************************)
(* Entering, judging and owning: steps that only move the call.            *)
(***************************************************************************)

LEMMA EmptyRange == Range(<<>>) = {} /\ Distinct(<<>>) /\ Len(<<>>) = 0
  BY DEF Range, Distinct

LEMMA CallFacts ==
  ASSUME IInv, NEW c \in Calls
  PROVE  /\ call[c] \in CallRecords /\ registered[c] \in Seq(Mutations)
         /\ Staged(call[c]) /\ InOrder(call[c], registered[c])
         /\ Unfinished(call[c], registered[c], broken[c])
         /\ Left(c) = Leaves(call[c], registered[c], broken[c])
  BY DEF IInv, TypeOK, CallOK

LEMMA EnterKeeps ==
  ASSUME IInv, setup' = setup, NEW c \in Calls,
         NEW kind \in {"pre_trade", "drop_copy", "adjustment", "report", "retire"},
         NEW account \in Accounts \cup {Unreadable}, NEW slot \in Nat, NEW last \in Nat,
         NEW pc, NEW outcome,
         \/ pc = "hooks" /\ outcome = "none"
         \/ pc = "done" /\ kind # "retire" /\ outcome \in {"blocked", "unreadable", "accepted"},
         \/ kind \in {"adjustment", "retire"}
         \/ kind = "drop_copy" /\ outcome # "unreadable"
         => account \in Accounts,
         Enter(c, kind, account, pc, slot, last, outcome)
  PROVE  IInv'
<1> DEFINE r == [Idle EXCEPT !.kind = kind, !.account = account, !.pc = pc,
                             !.slot = slot, !.last = last, !.outcome = outcome]
           reg == registered[c]
<1>1. /\ call[c].pc = "idle" /\ call' = [call EXCEPT ![c] = r]
      /\ UNCHANGED <<setup, effects, block, blockAll, ghosts>>
  BY DEF Enter
<1>2. /\ r \in CallRecords
      /\ r.kind = kind /\ r.account = account /\ r.pc = pc /\ r.slot = slot
      /\ r.outcome = outcome /\ r.mutations = <<>> /\ r.pending = <<>>
      /\ r.failure = "none"
  <2>1. 1 \in Policies
    BY SetupFacts DEF IInv
  <2>2. outcome \in Outcomes /\ pc \in {"hooks", "done"}
    BY DEF Outcomes
  <2>3. <<>> \in Seq(Mutations) /\ <<>> \in Seq(Tags)
    OBVIOUS
  <2>4. /\ Idle \in CallRecords
        /\ Idle.mutations = <<>> /\ Idle.pending = <<>> /\ Idle.failure = "none"
    BY <2>1, <2>3 DEF Idle, CallRecords, Outcomes
  <2>5. r \in CallRecords
    BY <2>2, <2>4 DEF CallRecords
  <2>6. /\ r.kind = kind /\ r.account = account /\ r.pc = pc /\ r.slot = slot
        /\ r.outcome = outcome /\ r.mutations = <<>> /\ r.pending = <<>>
        /\ r.failure = "none"
    BY <2>4 DEF CallRecords
  <2> QED BY <2>5, <2>6
<1>3. /\ reg = <<>> /\ broken[c] = {} /\ Left(c) = {}
  BY <1>1, CallFacts, EmptyRange DEF Staged, Asking, InOrder, Unfinished, Leaves
<1> HIDE DEF r, reg
<1>4. Staged(r)
  BY <1>2 DEF Staged, Asking
<1>5. InOrder(r, reg)
  BY <1>3, EmptyRange DEF InOrder
<1>6. Unfinished(r, reg, broken[c])
  BY <1>2, <1>3, EmptyRange DEF Unfinished
<1>7. Leaves(r, reg, broken[c]) = {}
  BY <1>2, <1>3, EmptyRange DEF Leaves
<1>8. \A a \in Accounts : block[a].by = c => FALSE
  BY <1>1 DEF IInv, Sourced
<1> QED BY <1>1, <1>2, <1>3, <1>4, <1>5, <1>6, <1>7, <1>8, QuietMove DEF CallOK, reg

\* The call goes on: it has not got an outcome and gets none.
LEMMA GoesOn ==
  ASSUME IInv, setup' = setup, NEW c \in Calls, call[c].outcome = "none",
         NEW r \in CallRecords, Staged(r), r.outcome = "none",
         r.kind = call[c].kind, r.account = call[c].account,
         r.mutations = call[c].mutations, r.failure = call[c].failure,
         r.slot >= call[c].slot,
         call[c].kind = "pre_trade" /\ call[c].slot # 0 => r.slot # 0,
         r.pc = "hooks" => r.slot > call[c].slot,
         call' = [call EXCEPT ![c] = r], UNCHANGED <<effects, block, blockAll, ghosts>>,
         r.kind = "drop_copy" /\ r.pc \in {"hooks", "judge"} => call[c].pc \in {"hooks", "judge"},
         call[c].pc # "idle", r.pc # "idle"
  PROVE  IInv'
<1> DEFINE q == call[c]
           reg == registered[c]
<1>1. /\ q \in CallRecords /\ reg \in Seq(Mutations) /\ Staged(q) /\ InOrder(q, reg)
      /\ Unfinished(q, reg, broken[c]) /\ Left(c) = Leaves(q, reg, broken[c])
  BY CallFacts
<1>2. \A i \in 1 .. Len(reg) : reg[i] \in Mutations
  BY <1>1
<1>3. q.slot \in Nat /\ r.slot \in Nat
  BY <1>1 DEF CallRecords
<1> HIDE DEF reg, q
<1>4. InOrder(r, reg)
  <2>1. (r.kind \in {"none", "report"} \/ (r.kind = "pre_trade" /\ r.slot = 0)) => reg = <<>>
    BY <1>1, <1>3 DEF InOrder, q
  <2>2. ASSUME NEW i \in 1 .. Len(reg)
        PROVE  /\ reg[i].slot <= r.slot
               /\ r.pc = "hooks" => Earlier(reg[i], r)
    BY <1>1, <1>2, <1>3 DEF InOrder, Earlier, Mutations, q
  <2> QED BY <1>1, <2>1, <2>2 DEF InOrder, q
<1>5. Unfinished(r, reg, broken[c])
  BY <1>1 DEF Unfinished, q
<1>6. Left(c) = Leaves(r, reg, broken[c])
  BY <1>1 DEF Leaves, q
<1>7. \A a \in Accounts : block[a].by = c /\ Sourced(block[a], call[c]) => Sourced(block[a], r)
  BY <1>1 DEF Sourced, Staged, Asking, q
<1> QED BY <1>4, <1>5, <1>6, <1>7, QuietMove DEF CallOK, reg

\* The call gets its outcome: it rolls back or commits what it registered, or
\* has registered nothing.
LEMMA GetsOutcome ==
  ASSUME IInv, setup' = setup, NEW c \in Calls, call[c].outcome = "none",
         call[c].pc # "idle",
         NEW r \in CallRecords, Staged(r), r.outcome # "none", r.pc # "idle",
         r.kind = call[c].kind, r.account = call[c].account,
         r.mutations = call[c].mutations, r.failure = call[c].failure,
         r.slot = call[c].slot,
         r.pc \in {"rolling", "committing"} \/ registered[c] = <<>>,
         r.outcome = "retired" => r.pc = "committing",
         r.outcome # "finalizer failed",
         r.outcome = "fatal" => call[c].pc = "judge",
         call' = [call EXCEPT ![c] = r], UNCHANGED <<effects, block, blockAll, ghosts>>
  PROVE  IInv'
<1> DEFINE q == call[c]
           reg == registered[c]
<1>1. /\ q \in CallRecords /\ reg \in Seq(Mutations) /\ Staged(q) /\ InOrder(q, reg)
      /\ Unfinished(q, reg, broken[c]) /\ Left(c) = Leaves(q, reg, broken[c])
  BY CallFacts
<1>2. /\ r.mutations = reg /\ broken[c] = {} /\ r.failure = "none"
      /\ Left(c) = IF q.kind = "retire" THEN {} ELSE Range(reg)
  BY <1>1 DEF Unfinished, Leaves
<1>3. \A i \in 1 .. Len(reg) : reg[i] \in Range(reg)
  BY <1>1, RangeIs
<1> HIDE DEF reg, q
<1>4. InOrder(r, reg)
  <2>1. r.pc # "hooks"
    BY DEF Staged, Asking
  <2> QED BY <1>1, <2>1 DEF InOrder, q
<1>5. Unfinished(r, reg, broken[c])
  BY <1>1, <1>2, <1>3, EmptyRange DEF Unfinished, InOrder, q, reg
<1>6. Left(c) = Leaves(r, reg, broken[c])
  BY <1>1, <1>2, EmptyRange DEF Leaves, Staged, q, reg
<1>7. \A a \in Accounts : block[a].by = c /\ Sourced(block[a], call[c]) => Sourced(block[a], r)
  BY <1>1 DEF Sourced, Staged, Asking, q
<1> QED BY <1>4, <1>5, <1>6, <1>7, QuietMove DEF CallOK, reg

\* A judged call, before and after.
LEMMA JudgeFacts ==
  ASSUME IInv, NEW c \in Calls, NEW kind, NEW r, Judge(c, kind, r)
  PROVE  /\ call[c].pc = "judge" /\ call[c].kind = kind /\ call[c].outcome = "none"
         /\ call[c] \in CallRecords /\ Staged(call[c])
         /\ call' = [call EXCEPT ![c] = r] /\ UNCHANGED <<effects, block, blockAll, ghosts>>
         /\ 1 \in Policies /\ <<>> \in Seq(Tags)
<1>1. /\ call[c].pc = "judge" /\ call[c].kind = kind
      /\ call' = [call EXCEPT ![c] = r] /\ UNCHANGED <<effects, block, blockAll, ghosts>>
  BY DEF Judge
<1>2. call[c] \in CallRecords /\ Staged(call[c])
  BY CallFacts
<1>3. call[c].outcome = "none"
  BY <1>1, <1>2 DEF Staged, Asking
<1>4. 1 \in Policies
  BY SetupFacts DEF IInv
<1> QED BY <1>1, <1>2, <1>3, <1>4

LEMMA JudgePreTradeKeeps ==
  ASSUME IInv, setup' = setup, NEW c \in Calls, JudgePreTrade(c)
  PROVE  IInv'
<1> DEFINE q == call[c]
           s == [q EXCEPT !.next = 1]
           r1 == [s EXCEPT !.pc = "record", !.outcome = "rejected"]
           r2 == [s EXCEPT !.pc = "requested"]
           r3 == [s EXCEPT !.pc = "rolling", !.outcome = "rejected"]
           r4 == [s EXCEPT !.pc = "reserved"]
           r == IF q.slot = 0 THEN IF q.rejected THEN r1 ELSE r2
                ELSE IF q.rejected THEN r3 ELSE r4
<1>1. Judge(c, "pre_trade", r)
  BY DEF JudgePreTrade
<1>2. /\ q.pc = "judge" /\ q.kind = "pre_trade" /\ q.outcome = "none" /\ q \in CallRecords
      /\ Staged(q) /\ call' = [call EXCEPT ![c] = r]
      /\ UNCHANGED <<effects, block, blockAll, ghosts>> /\ 1 \in Policies
  BY <1>1, JudgeFacts
<1>3. /\ r \in CallRecords
      /\ r.kind = q.kind /\ r.account = q.account /\ r.mutations = q.mutations
      /\ r.failure = q.failure /\ r.slot = q.slot /\ r.slot \in Nat
  BY <1>2 DEF CallRecords, Outcomes
<1>4. \/ q.slot = 0 /\ r.pc = "record" /\ r.outcome = "rejected"
      \/ q.slot = 0 /\ r.pc = "requested" /\ r.outcome = "none"
      \/ r.pc = "rolling" /\ r.outcome = "rejected"
      \/ r.pc = "reserved" /\ r.outcome = "none"
  BY <1>2 DEF CallRecords
<1> HIDE DEF r, q
<1>5. Staged(r)
  BY <1>2, <1>3, <1>4 DEF Staged, Asking
<1>6. q.slot = 0 => registered[c] = <<>>
  BY <1>2, CallFacts DEF InOrder, q
<1>7. CASE r.outcome = "none"
  <2>1. /\ r.slot >= call[c].slot /\ r.pc \notin {"hooks", "judge", "idle"}
        /\ call[c].slot # 0 => r.slot # 0
    BY <1>3, <1>4 DEF q
  <2> QED BY <1>2, <1>3, <1>5, <1>7, <2>1, GoesOn DEF q
<1>8. CASE r.outcome = "rejected"
  BY <1>2, <1>3, <1>4, <1>5, <1>6, <1>8, GetsOutcome DEF q
<1> QED BY <1>4, <1>7, <1>8

LEMMA JudgeDropCopyKeeps ==
  ASSUME IInv, setup' = setup, NEW c \in Calls, JudgeDropCopy(c)
  PROVE  IInv'
<1> DEFINE q == call[c]
           r1 == [q EXCEPT !.pc = "rolling", !.outcome = "fatal",
                           !.pending = <<>>, !.next = 1]
           r2 == [q EXCEPT !.pc = "hooks", !.next = 1, !.slot = 1, !.last = 1]
           r3 == [q EXCEPT !.pc = "record", !.next = 1]
           r == IF q.fatal THEN r1 ELSE IF q.slot = 0 THEN r2 ELSE r3
<1>1. Judge(c, "drop_copy", r)
  BY DEF JudgeDropCopy
<1>2. /\ q.pc = "judge" /\ q.kind = "drop_copy" /\ q.outcome = "none" /\ q \in CallRecords
      /\ Staged(q) /\ call' = [call EXCEPT ![c] = r]
      /\ UNCHANGED <<effects, block, blockAll, ghosts>> /\ 1 \in Policies
      /\ <<>> \in Seq(Tags)
  BY <1>1, JudgeFacts
<1>3. /\ r \in CallRecords
      /\ r.kind = q.kind /\ r.account = q.account /\ r.mutations = q.mutations
      /\ r.failure = q.failure /\ r.slot \in Nat /\ q.slot \in Nat
  BY <1>2 DEF CallRecords, Outcomes
<1>4. \/ r.slot = q.slot /\ r.pc = "rolling" /\ r.outcome = "fatal" /\ r.pending = <<>>
      \/ q.slot = 0 /\ r.slot = 1 /\ r.pc = "hooks" /\ r.outcome = "none"
      \/ r.slot = q.slot /\ r.pc = "record" /\ r.outcome = "none"
  BY <1>2 DEF CallRecords
<1> HIDE DEF r, q
<1>5. Staged(r)
  BY <1>2, <1>3, <1>4 DEF Staged, Asking
<1>6. CASE r.outcome = "none"
  <2>1. /\ r.slot >= call[c].slot /\ r.pc # "idle"
        /\ r.pc = "hooks" => r.slot > call[c].slot
    BY <1>3, <1>4 DEF q
  <2> QED BY <1>2, <1>3, <1>5, <1>6, <2>1, GoesOn DEF q
<1>7. CASE r.outcome = "fatal"
  BY <1>2, <1>3, <1>4, <1>5, <1>7, GetsOutcome DEF q
<1> QED BY <1>4, <1>6, <1>7

LEMMA JudgeAdjustmentKeeps ==
  ASSUME IInv, setup' = setup, NEW c \in Calls, JudgeAdjustment(c)
  PROVE  IInv'
<1> DEFINE q == call[c]
           r1 == [q EXCEPT !.pc = "rolling", !.outcome = "rejected", !.pending = <<>>]
           r2 == [q EXCEPT !.pc = "committing", !.outcome = "accepted"]
           r == IF q.rejected THEN r1 ELSE r2
<1>1. Judge(c, "adjustment", r)
  BY DEF JudgeAdjustment
<1>2. /\ q.pc = "judge" /\ q.kind = "adjustment" /\ q.outcome = "none" /\ q \in CallRecords
      /\ Staged(q) /\ call' = [call EXCEPT ![c] = r]
      /\ UNCHANGED <<effects, block, blockAll, ghosts>> /\ <<>> \in Seq(Tags)
  BY <1>1, JudgeFacts
<1>3. /\ r \in CallRecords
      /\ r.kind = q.kind /\ r.account = q.account /\ r.mutations = q.mutations
      /\ r.failure = q.failure /\ r.slot = q.slot
  BY <1>2 DEF CallRecords, Outcomes
<1>4. \/ r.pc = "rolling" /\ r.outcome = "rejected" /\ r.pending = <<>>
      \/ r.pc = "committing" /\ r.outcome = "accepted"
  BY <1>2 DEF CallRecords
<1> HIDE DEF r, q
<1>5. Staged(r)
  BY <1>2, <1>3, <1>4 DEF Staged, Asking
<1> QED BY <1>2, <1>3, <1>4, <1>5, GetsOutcome DEF q

LEMMA JudgeReportKeeps ==
  ASSUME IInv, setup' = setup, NEW c \in Calls, JudgeReport(c)
  PROVE  IInv'
<1> DEFINE q == call[c]
           r == [q EXCEPT !.pc = "record", !.outcome = "applied"]
<1>1. Judge(c, "report", r)
  BY DEF JudgeReport
<1>2. /\ q.pc = "judge" /\ q.kind = "report" /\ q.outcome = "none" /\ q \in CallRecords
      /\ Staged(q) /\ call' = [call EXCEPT ![c] = r]
      /\ UNCHANGED <<effects, block, blockAll, ghosts>>
  BY <1>1, JudgeFacts
<1>3. /\ r \in CallRecords /\ r.pc = "record" /\ r.outcome = "applied"
      /\ r.kind = q.kind /\ r.account = q.account /\ r.mutations = q.mutations
      /\ r.failure = q.failure /\ r.slot = q.slot
  BY <1>2 DEF CallRecords, Outcomes
<1> HIDE DEF r, q
<1>4. Staged(r)
  BY <1>2, <1>3 DEF Staged, Asking
<1>5. registered[c] = <<>>
  BY <1>2, CallFacts DEF InOrder, q
<1> QED BY <1>2, <1>3, <1>4, <1>5, GetsOutcome DEF q

LEMMA JudgeRetireKeeps ==
  ASSUME IInv, setup' = setup, NEW c \in Calls, JudgeRetire(c)
  PROVE  IInv'
<1> DEFINE q == call[c]
           r1 == [q EXCEPT !.pc = "rolling", !.outcome = "refused"]
           r2 == [q EXCEPT !.pc = "committing", !.outcome = "retired"]
           r == IF q.rejected THEN r1 ELSE r2
<1>1. Judge(c, "retire", r)
  BY DEF JudgeRetire
<1>2. /\ q.pc = "judge" /\ q.kind = "retire" /\ q.outcome = "none" /\ q \in CallRecords
      /\ Staged(q) /\ call' = [call EXCEPT ![c] = r]
      /\ UNCHANGED <<effects, block, blockAll, ghosts>>
  BY <1>1, JudgeFacts
<1>3. /\ r \in CallRecords
      /\ r.kind = q.kind /\ r.account = q.account /\ r.mutations = q.mutations
      /\ r.failure = q.failure /\ r.slot = q.slot
  BY <1>2 DEF CallRecords, Outcomes
<1>4. \/ r.pc = "rolling" /\ r.outcome = "refused"
      \/ r.pc = "committing" /\ r.outcome = "retired"
  BY <1>2 DEF CallRecords
<1> HIDE DEF r, q
<1>5. Staged(r)
  BY <1>2, <1>3, <1>4 DEF Staged, Asking
<1> QED BY <1>2, <1>3, <1>4, <1>5, GetsOutcome DEF q

LEMMA ExecuteKeeps ==
  ASSUME IInv, setup' = setup, NEW c \in Calls, Execute(c)
  PROVE  IInv'
<1> DEFINE q == call[c]
           r1 == [q EXCEPT !.pc = "done", !.outcome = "blocked"]
           r2 == [q EXCEPT !.pc = "hooks", !.slot = 1, !.last = 1]
           r == IF Refused(q.account) THEN r1 ELSE r2
<1>1. /\ q.pc = "requested" /\ call' = [call EXCEPT ![c] = r]
      /\ UNCHANGED <<effects, block, blockAll, ghosts>>
  BY DEF Execute
<1>2. q \in CallRecords /\ Staged(q) /\ InOrder(q, registered[c])
  BY CallFacts
<1>3. q.outcome = "none" /\ q.kind = "pre_trade" /\ q.slot = 0 /\ registered[c] = <<>>
  BY <1>1, <1>2 DEF Staged, Asking, InOrder
<1>4. /\ r \in CallRecords
      /\ r.kind = q.kind /\ r.account = q.account /\ r.mutations = q.mutations
      /\ r.failure = q.failure
  BY <1>2, ZenonT(60) DEF CallRecords, Outcomes
<1>5. \/ r.pc = "done" /\ r.outcome = "blocked" /\ r.slot = q.slot
      \/ r.pc = "hooks" /\ r.outcome = "none" /\ r.slot = 1
  BY <1>2, <1>3 DEF CallRecords
<1> HIDE DEF r, q
<1>6. Staged(r)
  BY <1>3, <1>4, <1>5 DEF Staged, Asking
<1>7. CASE r.outcome = "none"
  <2>1. /\ r.slot >= call[c].slot /\ r.pc # "idle"
        /\ r.slot > call[c].slot
    BY <1>3, <1>5, <1>7 DEF q
  <2> QED BY <1>1, <1>3, <1>4, <1>6, <1>7, <2>1, GoesOn DEF q
<1>8. CASE r.outcome = "blocked"
  BY <1>1, <1>3, <1>4, <1>5, <1>6, <1>8, GetsOutcome DEF q
<1> QED BY <1>5, <1>7, <1>8

\* DropRequest, Commit and Rollback.
LEMMA OwnerKeeps ==
  ASSUME IInv, setup' = setup, NEW c \in Calls, DropRequest(c) \/ Commit(c) \/ Rollback(c)
  PROVE  IInv'
<1> DEFINE q == call[c]
<1>1. q \in CallRecords /\ Staged(q) /\ InOrder(q, registered[c])
  BY CallFacts
<1>2. ASSUME NEW pc \in {"done", "committing", "rolling"},
             NEW outcome \in {"abandoned", "committed", "rolled back"},
             \/ q.pc = "requested" /\ pc = "done" /\ outcome = "abandoned"
             \/ q.pc = "reserved" /\ pc = "committing" /\ outcome = "committed"
             \/ q.pc = "reserved" /\ pc = "rolling" /\ outcome = "rolled back",
             q.kind # "retire",
             call' = [call EXCEPT ![c] = [q EXCEPT !.pc = pc, !.outcome = outcome]],
             UNCHANGED <<effects, block, blockAll, ghosts>>
      PROVE  IInv'
  <2> DEFINE r == [q EXCEPT !.pc = pc, !.outcome = outcome]
  <2>1. /\ r \in CallRecords /\ r.pc = pc /\ r.outcome = outcome
        /\ r.kind = q.kind /\ r.account = q.account /\ r.mutations = q.mutations
        /\ r.failure = q.failure /\ r.slot = q.slot
    BY <1>1, <1>2 DEF CallRecords, Outcomes
  <2>2. q.outcome = "none" /\ call' = [call EXCEPT ![c] = r]
    BY <1>1, <1>2 DEF Staged, Asking
  <2> HIDE DEF r, q
  <2>3. Staged(r)
    BY <1>1, <1>2, <2>1, <2>2 DEF Staged, Asking
  <2>4. r.pc \in {"rolling", "committing"} \/ registered[c] = <<>>
    BY <1>1, <1>2, <2>1 DEF Staged, InOrder
  <2> QED BY <1>2, <2>1, <2>2, <2>3, <2>4, GetsOutcome DEF q
<1>3. CASE DropRequest(c)
  <2>1. /\ q.pc = "requested" /\ UNCHANGED <<effects, block, blockAll, ghosts>>
        /\ call' = [call EXCEPT ![c] = [q EXCEPT !.pc = "done", !.outcome = "abandoned"]]
    BY <1>3 DEF DropRequest
  <2> QED BY <1>1, <1>2, <2>1 DEF Staged
<1>4. CASE Commit(c)
  <2>1. /\ q.pc = "reserved" /\ UNCHANGED <<effects, block, blockAll, ghosts>>
        /\ call' = [call EXCEPT ![c] = [q EXCEPT !.pc = "committing", !.outcome = "committed"]]
    BY <1>4 DEF Commit
  <2> QED BY <1>1, <1>2, <2>1 DEF Staged
<1>5. CASE Rollback(c)
  <2>1. /\ q.pc = "reserved" /\ UNCHANGED <<effects, block, blockAll, ghosts>>
        /\ call' = [call EXCEPT ![c] = [q EXCEPT !.pc = "rolling", !.outcome = "rolled back"]]
    BY <1>5 DEF Rollback
  <2> QED BY <1>1, <1>2, <2>1 DEF Staged
<1> QED BY <1>3, <1>4, <1>5

(***************************************************************************)
(* The hooks.                                                              *)
(***************************************************************************)

LEMMA Blocking ==
  ASSUME TypeOK, NEW a \in Accounts, NEW cause \in Causes, cause # NoBlock,
         BlockAccount(a, cause)
  PROVE  /\ block' \in [Accounts -> Causes] /\ block'[a] # NoBlock
         /\ block[a].tag = NoTag /\ cause.tag = NoTag => block'[a].tag = NoTag
         /\ \A b \in Accounts : \/ block'[b] = block[b]
                                \/ b = a /\ block'[b] = cause /\ block[b] = NoBlock
  BY DEF TypeOK, BlockAccount, Blocks

\* A step that takes no block leaves the kill switches armed.
LEMMA ArmedKept ==
  ASSUME IInv, owed' \subseteq owed, blockAll => blockAll',
         \A a \in Accounts : block[a] # NoBlock /\ block[a].tag = NoTag
                                => block'[a] = block[a]
  PROVE  Armed'
<1>1. \A o \in owed : o[2] \in Accounts \cup {Unreadable}
  BY DEF IInv, TypeOK
<1> QED BY <1>1 DEF IInv, Armed, Blocks

\* The provenance of a verdict is a tag.
LEMMA OpenTokensBounded ==
  ASSUME IInv, NEW c \in Calls
  PROVE  /\ OpenTokens(c) \subseteq Nat
         /\ \A x \in OpenTokens(c) : x <= Len(registered[c])
         /\ Len(registered[c]) \in Nat
<1> DEFINE q == call[c]
           reg == registered[c]
<1>1. /\ q \in CallRecords /\ reg \in Seq(Mutations) /\ InOrder(q, reg)
      /\ Unfinished(q, reg, broken[c])
  BY CallFacts
<1>2. q.mutations \in Seq(Mutations)
  BY <1>1 DEF CallRecords
<1>3. ASSUME NEW m \in Range(q.mutations)
      PROVE  m.token \in Nat /\ m.token <= Len(reg)
  <2>1. m \in Range(reg)
    BY <1>1, <1>2, <1>3, RangeIs DEF Unfinished
  <2>2. PICK i \in 1 .. Len(reg) : m = reg[i]
    BY <1>1, <2>1, RangeIs
  <2>3. reg[i] \in Mutations
    BY <1>1
  <2>4. reg[i].token <= Len(reg)
    BY <1>1 DEF InOrder
  <2> QED BY <2>2, <2>3, <2>4 DEF Mutations
<1> QED BY <1>1, <1>3 DEF OpenTokens

LEMMA ProvenanceTag ==
  ASSUME IInv, NEW account
  PROVE  Provenance(account) \in Tags
<1> DEFINE asserting == {c \in Calls : call[c].account = account /\ OpenTokens(c) # {}}
           d == CHOOSE e \in asserting : TRUE
<1>1. CASE asserting = {}
  BY <1>1 DEF Provenance, Tags
<1>2. CASE asserting # {}
  <2>1. d \in Calls /\ OpenTokens(d) # {}
    BY <1>2
  <2>2. Max(OpenTokens(d)) \in Nat
    <3> HIDE DEF d
    <3> QED BY <2>1, OpenTokensBounded, MaxInSet
  <2>3. Provenance(account) = <<d, Max(OpenTokens(d))>>
    BY <1>2 DEF Provenance
  <2> HIDE DEF d
  <2> QED BY <2>1, <2>2, <2>3 DEF Tags
<1> QED BY <1>1, <1>2

LEMMA PendingTags ==
  ASSUME IInv, NEW c \in Calls, NEW p, NEW verdict
  PROVE  Pending(c, p, verdict) \in Seq(Tags)
<1> DEFINE q == call[c]
           tag == IF q.kind = "report" /\ p \notin Custom
                  THEN Provenance(q.account) ELSE NoTag
<1>1. q.pending \in Seq(Tags)
  BY CallFacts DEF CallRecords
<1>2. tag \in Tags
  BY ProvenanceTag DEF Tags
<1>3. Append(q.pending, tag) \in Seq(Tags) /\ <<tag>> \in Seq(Tags)
  <2> HIDE DEF tag, q
  <2> QED BY <1>1, <1>2
<1>4. Pending(c, p, verdict) \in {Append(q.pending, tag), <<tag>>, q.pending}
  BY DEF Pending
<1> HIDE DEF tag, q
<1> QED BY <1>1, <1>3, <1>4

\* What a hook registers: nothing, or one mutation at the hook's place.
Registers(q, reg, ms) ==
  \/ ms = <<>>
  \/ \E m \in Mutations :
       /\ ms = <<m>> /\ m.slot = q.slot /\ m.policy = q.next
       /\ q.kind \notin {"none", "report"}
       /\ ~ (q.kind = "pre_trade" /\ q.slot = 0)
       /\ m.token # 0 => /\ q.kind = "adjustment" /\ m.policy \notin Custom
                         /\ m.token = Len(reg) + 1
       /\ m.policy \notin Custom => q.account \in Accounts

LEMMA RegistrationsAre ==
  ASSUME IInv, NEW c \in Calls, call[c].pc = "hooks",
         NEW ms \in Registrations(c, call[c].next)
  PROVE  Registers(call[c], registered[c], ms)
<1> DEFINE q == call[c]
           p == q.next
           n == Len(registered[c]) + 1
           m(token) == [slot |-> q.slot, policy |-> p, token |-> token]
<1>1. q \in CallRecords /\ Staged(q) /\ registered[c] \in Seq(Mutations)
  BY CallFacts
<1>2. q.outcome = "none" /\ n \in Nat /\ 0 \in Nat
  <2>1. n \in Nat
    BY <1>1
  <2> QED BY <1>1, <2>1 DEF Staged, Asking
<1>3. \A token \in Nat : m(token) \in Mutations
  BY <1>1 DEF CallRecords, Mutations
<1>4. q.account \in Accounts \/ q.account = Unreadable
  BY <1>1 DEF CallRecords
<1>5. \/ ms = <<>>
      \/ /\ ms = <<m(0)>>
         /\ \/ q.kind \in {"adjustment", "retire"}
            \/ q.kind = "pre_trade" /\ q.slot = 1 /\ (p \in Custom \/ q.account # Unreadable)
            \/ q.kind = "drop_copy" /\ (p \in Custom \/ q.slot = 1)
      \/ ms = <<m(n)>> /\ q.kind = "adjustment" /\ p \notin Custom
  BY DEF Registrations
<1>6. q.kind \in {"adjustment", "retire", "drop_copy"} => q.account \in Accounts
  BY <1>1, <1>2 DEF Staged
<1>7. CASE /\ ms = <<m(0)>>
           /\ \/ q.kind \in {"adjustment", "retire"}
              \/ q.kind = "pre_trade" /\ q.slot = 1 /\ (p \in Custom \/ q.account # Unreadable)
              \/ q.kind = "drop_copy" /\ (p \in Custom \/ q.slot = 1)
  <2>1. m(0) \in Mutations
    BY <1>2, <1>3
  <2> QED BY <1>4, <1>6, <1>7, <2>1 DEF Registers
<1>8. CASE ms = <<m(n)>> /\ q.kind = "adjustment" /\ p \notin Custom
  <2>1. m(n) \in Mutations
    BY <1>2, <1>3
  <2> QED BY <1>6, <1>8, <2>1 DEF Registers
<1> QED BY <1>5, <1>7, <1>8 DEF Registers

\* The next hook is later than the one just asked.
Later(r, q) ==
  /\ r.slot >= q.slot
  /\ r.pc = "hooks" => r.slot > q.slot \/ (r.slot = q.slot /\ r.next > q.next)

LEMMA AdvanceIs ==
  ASSUME TypeOK, NEW s \in CallRecords, s.pc = "hooks", NEW r, r = Advance(s)
  PROVE  /\ r \in CallRecords /\ r.pc \in {"hooks", "judge"} /\ r.slot >= s.slot
         /\ r.pc = "hooks" => r.slot > s.slot \/ (r.slot = s.slot /\ r.next > s.next)
         /\ r.kind = s.kind /\ r.account = s.account /\ r.mutations = s.mutations
         /\ r.failure = s.failure /\ r.outcome = s.outcome /\ r.pending = s.pending
<1>1. PolicyCount \in Nat /\ 1 \in Policies
  BY SetupFacts
<1>2. s.next \in Policies /\ s.slot \in Nat
  BY DEF CallRecords
<1>3. CASE r = [s EXCEPT !.pc = "judge"]
  BY <1>2, <1>3, SMTT(60) DEF CallRecords
<1>4. CASE s.next < PolicyCount /\ r = [s EXCEPT !.next = @ + 1]
  <2>1. s.next + 1 \in Policies /\ s.next + 1 > s.next
    BY <1>1, <1>2, <1>4 DEF Policies
  <2> QED BY <1>2, <1>4, <2>1 DEF CallRecords
<1>5. CASE r = [s EXCEPT !.next = 1, !.slot = @ + 1]
  <2> DEFINE k == s.slot + 1
  <2>1. k \in Nat /\ k > s.slot /\ k >= s.slot
    BY <1>2
  <2>2. r = [s EXCEPT !.next = 1, !.slot = k]
    BY <1>5
  <2> HIDE DEF k
  <2>3. r \in CallRecords
    BY <1>1, <2>1, <2>2 DEF CallRecords
  <2>4. /\ r.slot = k /\ r.pc = s.pc /\ r.kind = s.kind /\ r.account = s.account
        /\ r.mutations = s.mutations /\ r.failure = s.failure
        /\ r.outcome = s.outcome /\ r.pending = s.pending
    BY <2>2 DEF CallRecords
  <2> QED BY <2>1, <2>3, <2>4
<1> QED BY <1>3, <1>4, <1>5 DEF Advance

\* Registering at a hook's place keeps the mutations distinct and in order.
LEMMA RegisterKeeps ==
  ASSUME TypeOK, NEW q \in CallRecords, NEW r \in CallRecords, NEW reg \in Seq(Mutations),
         NEW ms, NEW new, InOrder(q, reg), q.pc = "hooks", new = reg \o ms,
         Later(r, q), r.kind = q.kind, r.account = q.account,
         Registers(q, reg, ms)
  PROVE  /\ new \in Seq(Mutations) /\ InOrder(r, new)
         /\ Range(new) = Range(reg) \cup Range(ms) /\ Range(ms) \subseteq Mutations
<1>1. /\ q.slot \in Nat /\ r.slot \in Nat /\ q.next \in Nat /\ r.next \in Nat
  BY SetupFacts DEF CallRecords
<1>2. \A i \in 1 .. Len(reg) : reg[i] \in Mutations /\ reg[i].slot \in Nat
                               /\ reg[i].policy \in Nat /\ reg[i].token \in Nat
  <2>1. \A i \in 1 .. Len(reg) : reg[i] \in Mutations
    OBVIOUS
  <2>2. \A m \in Mutations : m.slot \in Nat /\ m.policy \in Nat /\ m.token \in Nat
    BY SetupFacts DEF Mutations
  <2> QED BY <2>1, <2>2
<1>3. ASSUME NEW i \in 1 .. Len(reg)
      PROVE  /\ reg[i].slot <= r.slot
             /\ r.pc = "hooks" => Earlier(reg[i], r)
  BY <1>1, <1>2 DEF InOrder, Earlier, Later
<1>4. Len(reg) \in Nat
  OBVIOUS
<1>5. CASE ms = <<>>
  <2>1. new = reg
    BY <1>5, ConcatEmptySeq
  <2>2. (r.kind \in {"none", "report"} \/ (r.kind = "pre_trade" /\ r.slot = 0)) => reg = <<>>
    BY <1>1 DEF InOrder, Later
  <2>3. InOrder(r, reg)
    BY <1>3, <2>2 DEF InOrder
  <2> QED BY <1>5, <2>1, <2>3, EmptyRange
<1>6. ASSUME NEW m \in Mutations,
             /\ ms = <<m>> /\ m.slot = q.slot /\ m.policy = q.next
             /\ q.kind \notin {"none", "report"}
             /\ ~ (q.kind = "pre_trade" /\ q.slot = 0)
             /\ m.token # 0 => /\ q.kind = "adjustment" /\ m.policy \notin Custom
                               /\ m.token = Len(reg) + 1
             /\ m.policy \notin Custom => q.account \in Accounts
      PROVE  /\ new \in Seq(Mutations) /\ InOrder(r, new)
             /\ Range(new) = Range(reg) \cup Range(ms) /\ Range(ms) \subseteq Mutations
  <2>1. /\ new \in Seq(Mutations) /\ Len(new) = Len(reg) + 1 /\ new[Len(reg) + 1] = m
        /\ \A i \in 1 .. Len(reg) : new[i] = reg[i]
        /\ Range(new) = Range(reg) \cup {m}
    BY <1>6, WithOneMore
  <2>2. Range(ms) = {m}
    BY <1>6 DEF Range
  <2>3. \A i \in 1 .. Len(reg) : reg[i] # m
    BY <1>1, <1>2, <1>6 DEF InOrder, Earlier
  <2>4. Distinct(new)
    <3> SUFFICES ASSUME NEW i \in 1 .. Len(new), NEW j \in 1 .. Len(new), i # j
                 PROVE  new[i] # new[j]
      BY DEF Distinct
    <3>1. CASE i \in 1 .. Len(reg) /\ j \in 1 .. Len(reg)
      BY <2>1, <3>1 DEF InOrder, Distinct
    <3>2. CASE i = Len(reg) + 1 \/ j = Len(reg) + 1
      BY <1>4, <2>1, <2>3, <3>2
    <3> QED BY <1>4, <2>1, <3>1, <3>2
  <2>5. m.slot <= r.slot /\ (r.pc = "hooks" => Earlier(m, r)) /\ m.token <= Len(new)
    BY <1>1, <1>4, <1>6, <2>1 DEF Earlier, Later
  <2>6. ~ (r.kind \in {"none", "report"} \/ (r.kind = "pre_trade" /\ r.slot = 0))
    BY <1>1, <1>6 DEF Later
  <2>7. ASSUME NEW i \in 1 .. Len(new)
        PROVE  /\ new[i].slot <= r.slot
               /\ r.pc = "hooks" => Earlier(new[i], r)
               /\ new[i].token # 0 => r.kind = "adjustment" /\ new[i].policy \notin Custom
               /\ new[i].token <= Len(new)
               /\ new[i].policy \notin Custom => r.account \in Accounts
    <3>1. CASE i = Len(reg) + 1
      BY <1>6, <2>1, <2>5, <3>1
    <3>2. CASE i \in 1 .. Len(reg)
      BY <1>2, <1>3, <1>4, <2>1, <3>2 DEF InOrder
    <3> QED BY <1>4, <2>1, <3>1, <3>2
  <2>8. InOrder(r, new)
    BY <2>4, <2>6, <2>7 DEF InOrder
  <2> QED BY <2>1, <2>2, <2>8
<1> QED BY <1>5, <1>6 DEF Registers

\* What an effect of one call does to what it left.
LEMMA LeftIs ==
  ASSUME effects \subseteq Calls \X Mutations, NEW d
  PROVE  \A m : m \in Left(d) <=> <<d, m>> \in effects
<1>1. \A e \in effects : e = <<e[1], e[2]>>
  OBVIOUS
<1> QED BY <1>1 DEF Left

LEMMA EffectsAdded ==
  ASSUME TypeOK, NEW c \in Calls, NEW M, M \subseteq Mutations,
         effects' = effects \cup {<<c, m>> : m \in M}
  PROVE  /\ effects' \subseteq Calls \X Mutations
         /\ Left(c)' = Left(c) \cup M
         /\ \A d \in Calls \ {c} : Left(d)' = Left(d)
<1>1. effects \subseteq Calls \X Mutations
  BY DEF TypeOK
<1>2. effects' \subseteq Calls \X Mutations
  BY <1>1
<1>3. \A d, m : <<d, m>> \in effects' <=> <<d, m>> \in effects \/ (d = c /\ m \in M)
  OBVIOUS
<1>4. \A d : \A m : m \in Left(d)' <=> <<d, m>> \in effects'
  <2>1. \A e \in effects' : e = <<e[1], e[2]>>
    BY <1>2
  <2> QED BY <2>1 DEF Left
<1>5. \A d : \A m : m \in Left(d) <=> <<d, m>> \in effects
  BY <1>1, LeftIs
<1>6. \A m : m \in Left(c)' <=> m \in Left(c) \cup M
  BY <1>3, <1>4, <1>5
<1>7. \A d \in Calls \ {c} : \A m : m \in Left(d)' <=> m \in Left(d)
  BY <1>3, <1>4, <1>5
<1> QED BY <1>2, <1>6, <1>7

LEMMA EffectRemoved ==
  ASSUME TypeOK, NEW c \in Calls, NEW m, effects' = effects \ {<<c, m>>}
  PROVE  /\ effects' \subseteq Calls \X Mutations
         /\ Left(c)' = Left(c) \ {m}
         /\ \A d \in Calls \ {c} : Left(d)' = Left(d)
<1>1. effects \subseteq Calls \X Mutations
  BY DEF TypeOK
<1>2. effects' \subseteq Calls \X Mutations
  BY <1>1
<1>3. \A d, k : <<d, k>> \in effects' <=> <<d, k>> \in effects /\ ~ (d = c /\ k = m)
  OBVIOUS
<1>4. \A d : \A k : k \in Left(d)' <=> <<d, k>> \in effects'
  <2>1. \A e \in effects' : e = <<e[1], e[2]>>
    BY <1>2
  <2> QED BY <2>1 DEF Left
<1>5. \A d : \A k : k \in Left(d) <=> <<d, k>> \in effects
  BY <1>1, LeftIs
<1>6. \A k : k \in Left(c)' <=> k \in Left(c) \ {m}
  BY <1>3, <1>4, <1>5
<1>7. \A d \in Calls \ {c} : \A k : k \in Left(d)' <=> k \in Left(d)
  BY <1>3, <1>4, <1>5
<1> QED BY <1>2, <1>6, <1>7

LEMMA SameTypes ==
  ASSUME setup' = setup
  PROVE  /\ CallRecords' = CallRecords /\ Mutations' = Mutations /\ Custom' = Custom
  BY DEF CallRecords, Mutations, Policies, PolicyCount, Custom

LEMMA HookKeeps ==
  ASSUME IInv, setup' = setup, NEW c \in Calls,
         NEW ms \in Registrations(c, call[c].next), NEW verdict \in Verdicts(c),
         Hook(c, ms, verdict)
  PROVE  IInv'
<1> DEFINE q == call[c]
           reg == registered[c]
           pending == Pending(c, q.next, verdict)
           new == reg \o ms
           s == [q EXCEPT !.mutations = @ \o ms,
                          !.rejected = @ \/ Rejects(q.kind, verdict),
                          !.fatal = @ \/ verdict = "fatal",
                          !.pending = pending]
           r == Advance(s)
<1>1. /\ q.pc = "hooks" /\ call' = [call EXCEPT ![c] = r]
      /\ effects' = IF q.kind = "retire" THEN effects
                    ELSE effects \cup {<<c, m>> : m \in Range(ms)}
      /\ registered' = [registered EXCEPT ![c] = @ \o ms]
      /\ IF verdict = "control" /\ q.kind # "drop_copy"
         THEN BlockAccount(q.account, Cause(c, "control", NoTag))
         ELSE UNCHANGED block
      /\ UNCHANGED <<blockAll, broken, owed, shadowed>>
  BY DEF Hook
<1>2. /\ q \in CallRecords /\ reg \in Seq(Mutations) /\ Staged(q) /\ InOrder(q, reg)
      /\ Unfinished(q, reg, broken[c]) /\ Left(c) = Leaves(q, reg, broken[c])
      /\ TypeOK
  BY CallFacts DEF IInv
<1>3. /\ q.outcome = "none" /\ q.mutations = reg /\ broken[c] = {} /\ q.failure = "none"
      /\ Left(c) = IF q.kind = "retire" THEN {} ELSE Range(reg)
  BY <1>1, <1>2 DEF Staged, Asking, Unfinished, Leaves
<1>4. Registers(q, reg, ms)
  BY <1>1, RegistrationsAre
<1>5. new \in Seq(Mutations)
  <2>1. CASE ms = <<>>
    BY <1>2, <2>1, ConcatEmptySeq
  <2>2. ASSUME NEW m \in Mutations, ms = <<m>> PROVE new \in Seq(Mutations)
    BY <1>2, <2>2, WithOneMore
  <2> QED BY <1>4, <2>1, <2>2 DEF Registers
<1>6. /\ s \in CallRecords /\ s.pc = "hooks" /\ s.kind = q.kind /\ s.account = q.account
      /\ s.mutations = new /\ s.failure = q.failure /\ s.outcome = "none"
      /\ s.slot = q.slot /\ s.next = q.next
  <2>1. pending \in Seq(Tags)
    BY PendingTags
  <2>2. s = [q EXCEPT !.mutations = new,
                      !.rejected = q.rejected \/ Rejects(q.kind, verdict),
                      !.fatal = q.fatal \/ verdict = "fatal",
                      !.pending = pending]
    BY <1>2, <1>3 DEF CallRecords
  <2>3. /\ (q.rejected \/ Rejects(q.kind, verdict)) \in BOOLEAN
        /\ (q.fatal \/ verdict = "fatal") \in BOOLEAN
    OBVIOUS
  <2> HIDE DEF s, pending, new
  <2> QED BY <1>1, <1>2, <1>3, <1>5, <2>1, <2>2, <2>3 DEF CallRecords
<1>7. /\ r \in CallRecords /\ r.pc \in {"hooks", "judge"} /\ r.slot >= q.slot
      /\ r.pc = "hooks" => r.slot > q.slot \/ (r.slot = q.slot /\ r.next > q.next)
      /\ r.kind = q.kind /\ r.account = q.account /\ r.mutations = new
      /\ r.failure = "none" /\ r.outcome = "none"
  <2> HIDE DEF s
  <2> QED BY <1>2, <1>3, <1>6, AdvanceIs
<1> HIDE DEF r, s, new, pending, q
<1>8. /\ InOrder(r, new) /\ Range(new) = Range(reg) \cup Range(ms)
      /\ Range(ms) \subseteq Mutations
  <2>1. new = reg \o ms
    BY DEF new
  <2>2. Later(r, q)
    BY <1>7 DEF Later
  <2> HIDE DEF reg
  <2>3. TypeOK /\ q \in CallRecords /\ r \in CallRecords
    BY <1>2, <1>7
  <2>4. reg \in Seq(Mutations) /\ InOrder(q, reg) /\ q.pc = "hooks"
    BY <1>1, <1>2
  <2>5. r.kind = q.kind /\ r.account = q.account /\ Registers(q, reg, ms)
    BY <1>4, <1>7
  <2> QED BY <2>1, <2>2, <2>3, <2>4, <2>5, RegisterKeeps, ZenonT(60)
<1>9. /\ effects' \subseteq Calls \X Mutations
      /\ Left(c)' = IF q.kind = "retire" THEN Left(c) ELSE Left(c) \cup Range(ms)
      /\ \A d \in Calls \ {c} : Left(d)' = Left(d)
  <2>1. CASE q.kind = "retire"
    BY <1>1, <1>2, <2>1 DEF Left, TypeOK
  <2>2. CASE q.kind # "retire"
    BY <1>1, <1>2, <1>8, <2>2, EffectsAdded
  <2> QED BY <2>1, <2>2
<1>10. /\ call'[c] = r /\ call' \in [Calls -> CallRecords]
       /\ registered'[c] = new /\ registered' \in [Calls -> Seq(Mutations)]
       /\ \A d \in Calls \ {c} : call'[d] = call[d] /\ registered'[d] = registered[d]
  BY <1>1, <1>2, <1>5, <1>7 DEF TypeOK, new
<1>11. Staged(r)
  BY <1>1, <1>2, <1>3, <1>7 DEF Staged, Asking
<1>12. Unfinished(r, new, {})
  <2>1. \A i \in 1 .. Len(new) : new[i] \in Range(new)
    BY <1>5, RangeIs
  <2> QED BY <1>7, <1>8, <2>1 DEF Unfinished, InOrder
<1>13. Left(c)' = Leaves(r, new, {})
  BY <1>3, <1>7, <1>8, <1>9 DEF Leaves
<1>14. CallOK(call'[c], registered'[c], broken'[c], Left(c)')
  BY <1>1, <1>3, <1>8, <1>10, <1>11, <1>12, <1>13 DEF CallOK
<1>15. /\ block' \in [Accounts -> Causes]
       /\ \A a \in Accounts : \/ block'[a] = block[a]
                              \/ /\ q.kind # "drop_copy" /\ block[a] = NoBlock
                                 /\ block'[a] = Cause(c, "control", NoTag)
  <2>1. CASE verdict = "control" /\ q.kind # "drop_copy"
    <3>1. q.account \in Accounts
      BY <1>2, <2>1 DEF Verdicts, CallRecords, q
    <3>2. Cause(c, "control", NoTag) \in Causes /\ Cause(c, "control", NoTag) # NoBlock
      BY CauseFacts DEF Tags
    <3> QED BY <1>1, <1>2, <2>1, <3>1, <3>2, Blocking
  <2>2. CASE ~ (verdict = "control" /\ q.kind # "drop_copy")
    BY <1>1, <1>2, <2>2 DEF TypeOK
  <2> QED BY <2>1, <2>2
<1>16. TypeOK'
  BY <1>1, <1>2, <1>9, <1>10, <1>15, SameTypes DEF TypeOK
<1>17. Apart(c)
  BY <1>1, <1>9, <1>10 DEF Apart
<1>18. Armed'
  BY <1>1, <1>15, ArmedKept
<1>19. Explained(c)
  <2>1. ASSUME NEW a \in Accounts, block[a].by = c
        PROVE  Sourced(block[a], r)
    <3>1. Sourced(block[a], q)
      BY <2>1 DEF IInv, q
    <3> QED BY <1>1, <1>3, <1>7, <3>1 DEF Sourced
  <2>2. q.kind # "drop_copy" => Sourced(Cause(c, "control", NoTag), r)
    BY <1>7, CauseFacts DEF Sourced, Tags
  <2>3. Cause(c, "control", NoTag).by = c
    BY CauseFacts DEF Tags
  <2> QED BY <1>10, <1>15, <2>1, <2>2, <2>3 DEF Explained
<1> QED BY <1>14, <1>16, <1>17, <1>18, <1>19, StepKeeps

(***************************************************************************)
(* The finalizers.                                                         *)
(***************************************************************************)

LEMMA WidenIs ==
  ASSUME NEW failure \in {"none", "account", "global"}, NEW p
  PROVE  Widen(failure, p) \in {"account", "global"}
  BY DEF Widen

\* The newest mutation is undone, or its rollback fails.
RollsBack(q, m, r, f, brk, brk1, left, left1) ==
  /\ q.pc = "rolling" /\ q.mutations # <<>>
  /\ m = q.mutations[Len(q.mutations)] /\ f \in {"none", "account", "global"}
  /\ r = [q EXCEPT !.mutations = RemoveAt(q.mutations, Len(q.mutations)), !.failure = f]
  /\ \/ f = q.failure /\ brk1 = brk /\ left1 = left \ {m}
     \/ (q.kind = "retire" => f # "none") /\ brk1 = brk \cup {m} /\ left1 = left

LEMMA RolledBack ==
  ASSUME TypeOK, NEW q \in CallRecords, NEW reg \in Seq(Mutations), NEW brk, NEW left,
         CallOK(q, reg, brk, left), NEW m, NEW r, NEW f, NEW brk1, NEW left1,
         RollsBack(q, m, r, f, brk, brk1, left, left1)
  PROVE  /\ r \in CallRecords /\ CallOK(r, reg, brk1, left1)
         /\ m \in Mutations /\ m \in Range(reg)
         /\ r.pc = q.pc /\ r.kind = q.kind /\ r.outcome = q.outcome /\ r.account = q.account
<1> USE DEF RollsBack
<1> DEFINE mut == q.mutations
           rest == RemoveAt(mut, Len(mut))
<1>1. /\ Staged(q) /\ InOrder(q, reg) /\ Unfinished(q, reg, brk)
      /\ left = Leaves(q, reg, brk) /\ mut \in Seq(Mutations) /\ Distinct(mut)
  BY DEF CallOK, Unfinished, CallRecords
<1>2. /\ rest \in Seq(Mutations) /\ Distinct(rest) /\ m \in Mutations
      /\ \A i \in 1 .. Len(rest) : rest[i] \in Range(mut) /\ rest[i] # m
      /\ Range(mut) = Range(rest) \cup {m} /\ m \notin Range(rest)
  BY <1>1, WithoutLast
<1>3. \A x \in Range(mut) : x \in Range(reg) /\ x \notin brk
  BY <1>1, RangeIs DEF Unfinished
<1>4. q.outcome \in {"rejected", "fatal", "refused", "rolled back"}
  BY <1>1 DEF Staged
<1> HIDE DEF rest
<1>5. /\ r \in CallRecords /\ r.mutations = rest /\ r.failure = f
      /\ r.kind = q.kind /\ r.account = q.account /\ r.pc = q.pc /\ r.slot = q.slot
      /\ r.next = q.next /\ r.outcome = q.outcome /\ r.pending = q.pending
  BY <1>2 DEF CallRecords, rest
<1>6. Staged(r)
  BY <1>1, <1>5 DEF Staged, Asking
<1>7. InOrder(r, reg)
  BY <1>1, <1>5 DEF InOrder
<1>8. ASSUME NEW i \in 1 .. Len(rest) PROVE rest[i] \in Range(reg) /\ rest[i] \notin brk1
  BY <1>2, <1>3
<1>9. Unfinished(r, reg, brk1)
  BY <1>1, <1>2, <1>4, <1>5, <1>8 DEF Unfinished
<1>10. left1 = Leaves(r, reg, brk1)
  <2>1. CASE q.outcome = "refused"
    BY <1>1, <1>5, <2>1 DEF Leaves
  <2>2. CASE q.outcome # "refused"
    <3>1. left = Range(mut) \cup brk /\ m \notin brk
      BY <1>1, <1>2, <1>3, <1>4, <2>2 DEF Leaves
    <3>2. left1 = Range(rest) \cup brk1
      BY <1>2, <3>1
    <3> QED BY <1>4, <1>5, <2>2, <3>2 DEF Leaves
  <2> QED BY <2>1, <2>2
<1> QED BY <1>2, <1>3, <1>5, <1>6, <1>7, <1>9, <1>10 DEF CallOK

\* The oldest mutation is committed, or its commit fails.
Commits(q, m, r, f, brk, brk1, left, left1) ==
  /\ q.pc = "committing" /\ q.mutations # <<>>
  /\ m = Head(q.mutations) /\ f \in {"none", "account", "global"}
  /\ r = [q EXCEPT !.mutations = Tail(q.mutations), !.failure = f]
  /\ \/ /\ f = q.failure /\ brk1 = brk
        /\ left1 = IF q.kind = "retire" THEN left \cup {m} ELSE left
     \/ f # "none" /\ brk1 = brk \cup {m} /\ left1 = left

LEMMA Committed ==
  ASSUME TypeOK, NEW q \in CallRecords, NEW reg \in Seq(Mutations), NEW brk, NEW left,
         CallOK(q, reg, brk, left), NEW m, NEW r, NEW f, NEW brk1, NEW left1,
         Commits(q, m, r, f, brk, brk1, left, left1)
  PROVE  /\ r \in CallRecords /\ CallOK(r, reg, brk1, left1)
         /\ m \in Mutations /\ m \in Range(reg)
         /\ r.pc = q.pc /\ r.kind = q.kind /\ r.outcome = q.outcome /\ r.account = q.account
<1> USE DEF Commits
<1> DEFINE mut == q.mutations
           rest == Tail(mut)
<1>1. /\ Staged(q) /\ InOrder(q, reg) /\ Unfinished(q, reg, brk)
      /\ left = Leaves(q, reg, brk) /\ mut \in Seq(Mutations) /\ Distinct(mut)
  BY DEF CallOK, Unfinished, CallRecords
<1>2. /\ rest \in Seq(Mutations) /\ Distinct(rest) /\ m \in Mutations
      /\ \A i \in 1 .. Len(rest) : rest[i] \in Range(mut) /\ rest[i] # m
      /\ Range(mut) = Range(rest) \cup {m} /\ m \notin Range(rest)
  BY <1>1, WithoutFirst
<1>3. \A x \in Range(mut) : x \in Range(reg) /\ x \notin brk
  BY <1>1, RangeIs DEF Unfinished
<1>4. q.outcome \in {"accepted", "committed", "retired"}
  BY <1>1 DEF Staged
<1>5. q.outcome = "retired" <=> q.kind = "retire"
  BY <1>1, <1>4 DEF Staged
<1> HIDE DEF rest
<1>6. /\ r \in CallRecords /\ r.mutations = rest /\ r.failure = f
      /\ r.kind = q.kind /\ r.account = q.account /\ r.pc = q.pc /\ r.slot = q.slot
      /\ r.next = q.next /\ r.outcome = q.outcome /\ r.pending = q.pending
  BY <1>2 DEF CallRecords, rest
<1>7. Staged(r)
  BY <1>1, <1>6 DEF Staged, Asking
<1>8. InOrder(r, reg)
  BY <1>1, <1>6 DEF InOrder
<1>9. ASSUME NEW i \in 1 .. Len(rest) PROVE rest[i] \in Range(reg) /\ rest[i] \notin brk1
  BY <1>2, <1>3
<1>10. Unfinished(r, reg, brk1)
  BY <1>1, <1>2, <1>4, <1>6, <1>9 DEF Unfinished
<1>11. left1 = Leaves(r, reg, brk1)
  <2>1. CASE q.kind # "retire"
    BY <1>1, <1>4, <1>5, <1>6, <2>1 DEF Leaves
  <2>2. CASE q.kind = "retire"
    <3>1. left = Range(reg) \ (Range(mut) \cup brk)
      BY <1>1, <1>5, <2>2 DEF Leaves
    <3>2. m \in Range(reg) /\ m \notin brk
      BY <1>2, <1>3
    <3>3. left1 = Range(reg) \ (Range(rest) \cup brk1)
      BY <1>2, <2>2, <3>1, <3>2
    <3> QED BY <1>5, <1>6, <2>2, <3>3 DEF Leaves
  <2> QED BY <2>1, <2>2
<1> QED BY <1>2, <1>3, <1>6, <1>7, <1>8, <1>10, <1>11 DEF CallOK

\* A step of one call that moves it, finalizes some of what it registered and
\* may change the blocked set.
LEMMA FinalizerStep ==
  ASSUME IInv, setup' = setup, NEW c \in Calls, NEW r \in CallRecords,
         call' = [call EXCEPT ![c] = r],
         NEW brk \in SUBSET Mutations, broken' = [broken EXCEPT ![c] = brk],
         registered' = registered, effects' \subseteq Calls \X Mutations,
         \A d \in Calls \ {c} : Left(d)' = Left(d),
         CallOK(r, registered[c], brk, Left(c)'),
         block' \in [Accounts -> Causes], blockAll' \in BOOLEAN,
         owed' \subseteq Calls \X (Accounts \cup {Unreadable}),
         shadowed' \subseteq Calls \X Accounts, Armed', Explained(c)
  PROVE  IInv'
<1>1. TypeOK
  BY DEF IInv
<1>2. /\ call' \in [Calls -> CallRecords] /\ call'[c] = r
      /\ broken' \in [Calls -> SUBSET Mutations] /\ broken'[c] = brk
      /\ \A d \in Calls \ {c} : call'[d] = call[d] /\ broken'[d] = broken[d]
  BY <1>1 DEF TypeOK
<1>3. TypeOK'
  BY <1>1, <1>2, SameTypes DEF TypeOK
<1>4. Apart(c)
  BY <1>2 DEF Apart
<1>5. CallOK(call'[c], registered'[c], broken'[c], Left(c)')
  BY <1>2
<1> QED BY <1>3, <1>4, <1>5, StepKeeps

\* The causes a call explains, it explains as long as it is at the same step
\* with the same outcome.
LEMMA StillSourced ==
  ASSUME IInv, NEW c \in Calls, NEW r, NEW a \in Accounts, block[a].by = c,
         r.pc = call[c].pc, r.kind = call[c].kind, r.outcome = call[c].outcome
  PROVE  Sourced(block[a], r)
  BY DEF IInv, Sourced

LEMMA RollbackCustomKeeps ==
  ASSUME IInv, setup' = setup, NEW c \in Calls, NEW ok \in BOOLEAN, RollbackCustom(c, ok)
  PROVE  IInv'
<1> DEFINE q == call[c]
           mut == q.mutations
           m == mut[Len(mut)]
           f == IF ok THEN q.failure ELSE Widen(q.failure, m.policy)
           r == [q EXCEPT !.mutations = RemoveAt(mut, Len(mut)), !.failure = f]
           brk == IF ok THEN broken[c] ELSE broken[c] \cup {m}
<1>1. /\ q.pc = "rolling" /\ mut # <<>>
      /\ effects' = IF ok THEN effects \ {<<c, m>>} ELSE effects
      /\ UNCHANGED <<block, blockAll, registered, owed, shadowed>>
  BY DEF RollbackCustom, NextRollback
<1>2. /\ TypeOK /\ q \in CallRecords /\ registered[c] \in Seq(Mutations)
      /\ broken[c] \in SUBSET Mutations
      /\ CallOK(q, registered[c], broken[c], Left(c))
  BY DEF IInv, TypeOK
<1>3. call' = [call EXCEPT ![c] = r]
  BY <1>2 DEF RollbackCustom, NextRollback, IInv, TypeOK
<1>4. broken' = [broken EXCEPT ![c] = brk]
  BY <1>2 DEF RollbackCustom, NextRollback, TypeOK
<1>5. f \in {"none", "account", "global"} /\ (~ ok => f # "none")
  BY <1>2, WidenIs DEF CallRecords
<1> HIDE DEF m
<1>6. /\ effects' \subseteq Calls \X Mutations
      /\ Left(c)' = IF ok THEN Left(c) \ {m} ELSE Left(c)
      /\ \A d \in Calls \ {c} : Left(d)' = Left(d)
  <2>1. CASE ok
    BY <1>1, <1>2, <2>1, EffectRemoved
  <2>2. CASE ~ ok
    BY <1>1, <1>2, <2>2 DEF Left, TypeOK
  <2> QED BY <2>1, <2>2
<1>7. \/ f = q.failure /\ brk = broken[c] /\ Left(c)' = Left(c) \ {m}
      \/ (q.kind = "retire" => f # "none") /\ brk = broken[c] \cup {m} /\ Left(c)' = Left(c)
  BY <1>5, <1>6
<1>8. m = mut[Len(mut)]
  BY DEF m
<1> HIDE DEF f, brk, r, q
<1>9. RollsBack(q, m, r, f, broken[c], brk, Left(c), Left(c)')
  BY <1>1, <1>5, <1>7, <1>8 DEF RollsBack, r
<1>10. /\ r \in CallRecords /\ CallOK(r, registered[c], brk, Left(c)')
       /\ m \in Mutations
       /\ r.pc = q.pc /\ r.kind = q.kind /\ r.outcome = q.outcome
  BY <1>2, <1>9, RolledBack
<1>11. brk \in SUBSET Mutations
  BY <1>2, <1>10 DEF brk
<1>12. Armed'
  BY <1>1, ArmedKept
<1>13. call'[c] = r
  BY <1>3 DEF IInv, TypeOK
<1>14. Explained(c)
  BY <1>1, <1>10, <1>13, StillSourced DEF Explained, q
<1>15. /\ block' \in [Accounts -> Causes] /\ blockAll' \in BOOLEAN
       /\ owed' \subseteq Calls \X (Accounts \cup {Unreadable})
       /\ shadowed' \subseteq Calls \X Accounts /\ registered' = registered
  BY <1>1, <1>2 DEF TypeOK
<1> QED BY <1>3, <1>4, <1>6, <1>10, <1>11, <1>12, <1>14, <1>15, FinalizerStep

\* Only a policy that knows the account, and for an assertion only a batch,
\* registered a built-in mutation.
LEMMA BuiltInKnows ==
  ASSUME IInv, NEW c \in Calls, NEW m \in Range(registered[c])
  PROVE  /\ m.token # 0 => call[c].kind = "adjustment" /\ m.policy \notin Custom
         /\ m.policy \notin Custom => call[c].account \in Accounts
<1>1. registered[c] \in Seq(Mutations) /\ InOrder(call[c], registered[c])
  BY CallFacts
<1>2. PICK i \in 1 .. Len(registered[c]) : m = registered[c][i]
  BY <1>1, RangeIs
<1> QED BY <1>1, <1>2 DEF InOrder

\* A kill switch through the account arms it, unless a provisional cause holds
\* the slot.
LEMMA Owes ==
  ASSUME IInv, NEW c \in Calls, NEW a \in Accounts, NEW cause \in Causes,
         cause # NoBlock, cause.tag = NoTag, BlockAccount(a, cause),
         Owe(c, a, "account"), blockAll' = blockAll
  PROVE  /\ Armed' /\ owed' \subseteq Calls \X (Accounts \cup {Unreadable})
         /\ shadowed' \subseteq Calls \X Accounts
<1>1. TypeOK /\ Unreadable \notin Accounts
  BY EngineAssumption DEF IInv
<1>2. /\ block' \in [Accounts -> Causes] /\ block'[a] # NoBlock
      /\ block[a].tag = NoTag => block'[a].tag = NoTag
      /\ \A b \in Accounts : block'[b] = block[b] \/ (block[b] = NoBlock /\ block'[b] = cause)
  BY <1>1 DEF TypeOK, BlockAccount, Blocks
<1>3. \A o \in owed : /\ o[2] \in Accounts \cup {Unreadable}
                      /\ o[2] = Unreadable => blockAll
                      /\ o[2] # Unreadable => block[o[2]] # NoBlock /\ block[o[2]].tag = NoTag
  BY <1>1 DEF IInv, TypeOK, Armed, Blocks
<1>4. \/ block[a].tag = NoTag /\ owed' = owed \cup {<<c, a>>} /\ shadowed' = shadowed
      \/ owed' = owed /\ shadowed' = shadowed \cup {<<c, a>>}
  BY <1>1 DEF Owe
<1>5. ASSUME NEW o \in owed'
      PROVE  IF o[2] = Unreadable THEN blockAll' ELSE block'[o[2]] # NoBlock /\ block'[o[2]].tag = NoTag
  <2>1. CASE o \in owed
    BY <1>2, <1>3, <2>1
  <2>2. CASE o = <<c, a>> /\ o \notin owed
    BY <1>1, <1>2, <1>4, <2>2
  <2> QED BY <1>4, <1>5, <2>1, <2>2
<1> QED BY <1>1, <1>4, <1>5 DEF Armed, Blocks, TypeOK

LEMMA RollbackHoldKeeps ==
  ASSUME IInv, setup' = setup, NEW c \in Calls, NEW ok \in BOOLEAN, RollbackHold(c, ok)
  PROVE  IInv'
<1> DEFINE q == call[c]
           mut == q.mutations
           m == mut[Len(mut)]
           r == [q EXCEPT !.mutations = RemoveAt(mut, Len(mut)), !.failure = q.failure]
           brk == IF ok THEN broken[c] ELSE broken[c] \cup {m}
           cause == Cause(c, "finalizer", NoTag)
<1>1. /\ q.pc = "rolling" /\ mut # <<>> /\ m.policy \notin Custom /\ q.kind # "retire"
      /\ effects' = IF ok THEN effects \ {<<c, m>>} ELSE effects
      /\ ok => UNCHANGED <<block, owed, shadowed>>
      /\ ~ ok => BlockAccount(q.account, cause) /\ Owe(c, q.account, "account")
      /\ registered' = registered /\ blockAll' = blockAll
  BY DEF RollbackHold, NextRollback
<1>2. /\ TypeOK /\ q \in CallRecords /\ registered[c] \in Seq(Mutations)
      /\ broken[c] \in SUBSET Mutations
      /\ CallOK(q, registered[c], broken[c], Left(c))
  BY DEF IInv, TypeOK
<1>3. call' = [call EXCEPT ![c] = r]
  <2>1. r = [q EXCEPT !.mutations = RemoveAt(mut, Len(mut))]
    BY <1>2 DEF CallRecords
  <2> QED BY <2>1 DEF RollbackHold, NextRollback
<1>4. broken' = [broken EXCEPT ![c] = brk]
  BY <1>2 DEF RollbackHold, NextRollback, TypeOK
<1>5. q.failure \in {"none", "account", "global"}
  BY <1>2 DEF CallRecords
<1> HIDE DEF m
<1>6. /\ effects' \subseteq Calls \X Mutations
      /\ Left(c)' = IF ok THEN Left(c) \ {m} ELSE Left(c)
      /\ \A d \in Calls \ {c} : Left(d)' = Left(d)
  <2>1. CASE ok
    BY <1>1, <1>2, <2>1, EffectRemoved
  <2>2. CASE ~ ok
    BY <1>1, <1>2, <2>2 DEF Left, TypeOK
  <2> QED BY <2>1, <2>2
<1>7. RollsBack(q, m, r, q.failure, broken[c], brk, Left(c), Left(c)')
  BY <1>1, <1>5, <1>6 DEF RollsBack, m
<1> HIDE DEF brk, r, q, cause
<1>8. /\ r \in CallRecords /\ CallOK(r, registered[c], brk, Left(c)')
      /\ m \in Mutations /\ m \in Range(registered[c])
      /\ r.pc = q.pc /\ r.kind = q.kind /\ r.outcome = q.outcome
  BY <1>2, <1>7, RolledBack
<1>9. brk \in SUBSET Mutations
  BY <1>2, <1>8 DEF brk
<1>10. q.account \in Accounts
  BY <1>1, <1>8, BuiltInKnows DEF q
<1>11. cause \in Causes /\ cause # NoBlock /\ cause.by = c /\ cause.how = "finalizer"
       /\ cause.tag = NoTag
  BY CauseFacts DEF Tags, cause
<1>12. /\ Armed' /\ owed' \subseteq Calls \X (Accounts \cup {Unreadable})
       /\ shadowed' \subseteq Calls \X Accounts
  <2>1. CASE ok
    <3>1. Armed'
      BY <1>1, <2>1, ArmedKept
    <3> QED BY <1>1, <1>2, <2>1, <3>1 DEF TypeOK
  <2>2. CASE ~ ok
    BY <1>1, <1>10, <1>11, <2>2, Owes
  <2> QED BY <2>1, <2>2
<1>13. /\ block' \in [Accounts -> Causes] /\ blockAll' \in BOOLEAN
       /\ \A a \in Accounts : block'[a] = block[a] \/ block'[a] = cause
  <2>1. CASE ok
    BY <1>1, <1>2, <2>1 DEF TypeOK
  <2>2. CASE ~ ok
    <3>1. /\ block' \in [Accounts -> Causes]
          /\ \A a \in Accounts : block'[a] = block[a] \/ block'[a] = cause
      BY <1>1, <1>2, <1>10, <1>11, <2>2, Blocking
    <3> QED BY <1>1, <1>2, <3>1 DEF TypeOK
  <2> QED BY <2>1, <2>2
<1>14. call'[c] = r
  BY <1>3 DEF IInv, TypeOK
<1>15. Sourced(cause, r)
  BY <1>1, <1>8, <1>11 DEF Sourced
<1>16. Explained(c)
  BY <1>8, <1>11, <1>13, <1>14, <1>15, StillSourced DEF Explained, q
<1> QED BY <1>1, <1>3, <1>4, <1>6, <1>8, <1>9, <1>12, <1>13, <1>16, FinalizerStep

LEMMA RollbackPnlKeeps ==
  ASSUME IInv, setup' = setup, NEW c \in Calls, NEW breached \in BOOLEAN,
         RollbackPnl(c, breached)
  PROVE  IInv'
<1> DEFINE q == call[c]
           mut == q.mutations
           m == mut[Len(mut)]
           r == [q EXCEPT !.mutations = RemoveAt(mut, Len(mut)), !.failure = q.failure]
           outer == OpenTokens(c) \ {m.token}
           tag == IF outer = {} THEN NoTag ELSE <<c, Max(outer)>>
           kept == Retired(q.account, <<c, m.token>>)
           cause == Cause(c, "control", tag)
<1>1. /\ q.pc = "rolling" /\ mut # <<>> /\ m.token # 0
      /\ effects' = effects \ {<<c, m>>}
      /\ block' = [block EXCEPT ![q.account] =
                      IF breached /\ kept = NoBlock THEN cause ELSE kept]
      /\ UNCHANGED <<registered, broken, owed, shadowed, blockAll>>
  BY DEF RollbackPnl, NextRollback, ghosts
<1>2. /\ TypeOK /\ q \in CallRecords /\ registered[c] \in Seq(Mutations)
      /\ broken[c] \in SUBSET Mutations
      /\ CallOK(q, registered[c], broken[c], Left(c))
  BY DEF IInv, TypeOK
<1>3. call' = [call EXCEPT ![c] = r]
  <2>1. r = [q EXCEPT !.mutations = RemoveAt(mut, Len(mut))]
    BY <1>2 DEF CallRecords
  <2> QED BY <2>1 DEF RollbackPnl, NextRollback
<1>4. broken' = [broken EXCEPT ![c] = broken[c]]
  BY <1>1, <1>2 DEF TypeOK
<1>5. q.failure \in {"none", "account", "global"}
  BY <1>2 DEF CallRecords
<1>6. tag \in Tags
  <2>1. CASE outer = {}
    BY <2>1 DEF Tags
  <2>2. CASE outer # {}
    <3> HIDE DEF m
    <3>1. /\ outer \subseteq Nat /\ Len(registered[c]) \in Nat
          /\ \A x \in outer : x <= Len(registered[c])
      BY OpenTokensBounded
    <3> HIDE DEF outer
    <3>2. Max(outer) \in Nat
      BY <2>2, <3>1, MaxInSet
    <3> QED BY <2>2, <3>2 DEF Tags
  <2> QED BY <2>1, <2>2
<1> HIDE DEF m, tag, kept
<1>7. /\ effects' \subseteq Calls \X Mutations /\ Left(c)' = Left(c) \ {m}
      /\ \A d \in Calls \ {c} : Left(d)' = Left(d)
  BY <1>1, <1>2, EffectRemoved
<1>8. RollsBack(q, m, r, q.failure, broken[c], broken[c], Left(c), Left(c)')
  BY <1>1, <1>5, <1>7 DEF RollsBack, m
<1> HIDE DEF r, q, cause
<1>9. /\ r \in CallRecords /\ CallOK(r, registered[c], broken[c], Left(c)')
      /\ m \in Mutations /\ m \in Range(registered[c])
      /\ r.pc = q.pc /\ r.kind = q.kind /\ r.outcome = q.outcome
  BY <1>2, <1>8, RolledBack
<1>10. q.account \in Accounts /\ q.kind = "adjustment"
  BY <1>1, <1>9, BuiltInKnows DEF q
<1>11. cause \in Causes /\ cause # NoBlock /\ cause.by = c /\ cause.how = "control"
  BY <1>6, CauseFacts DEF cause
<1>12. \/ kept = block[q.account]
       \/ kept = NoBlock /\ block[q.account].tag = <<c, m.token>>
  BY DEF kept, Retired
<1>13. kept \in Causes
  BY <1>2, <1>10, <1>12, NoBlockFacts DEF TypeOK
<1>14. block' \in [Accounts -> Causes]
  BY <1>1, <1>2, <1>11, <1>13 DEF TypeOK
<1>15. \A a \in Accounts :
         \/ block'[a] = block[a]
         \/ /\ a = q.account /\ block'[a] \in {cause, NoBlock}
            /\ block[a] = NoBlock \/ block[a].tag = <<c, m.token>>
  BY <1>1, <1>2, <1>10, <1>12 DEF TypeOK
<1>16. <<c, m.token>> # NoTag
  BY DEF NoTag
<1>17. Armed'
  BY <1>1, <1>15, <1>16, ArmedKept
<1>18. call'[c] = r
  BY <1>3 DEF IInv, TypeOK
<1>19. Sourced(cause, r)
  BY <1>1, <1>9, <1>10, <1>11 DEF Sourced
<1>20. Explained(c)
  BY <1>9, <1>11, <1>15, <1>18, <1>19, StillSourced, NoBlockFacts DEF Explained, q
<1>21. /\ blockAll' \in BOOLEAN /\ registered' = registered
       /\ owed' \subseteq Calls \X (Accounts \cup {Unreadable})
       /\ shadowed' \subseteq Calls \X Accounts
  BY <1>1, <1>2 DEF TypeOK
<1> QED BY <1>2, <1>3, <1>4, <1>7, <1>9, <1>14, <1>17, <1>20, <1>21, FinalizerStep

LEMMA CommitNextKeeps ==
  ASSUME IInv, setup' = setup, NEW c \in Calls, NEW ok \in BOOLEAN, CommitNext(c, ok)
  PROVE  IInv'
<1> DEFINE q == call[c]
           mut == q.mutations
           m == Head(mut)
           f == IF ok THEN q.failure ELSE Widen(q.failure, m.policy)
           r == [q EXCEPT !.mutations = Tail(mut), !.failure = f]
           brk == IF ok THEN broken[c] ELSE broken[c] \cup {m}
<1>1. /\ q.pc = "committing" /\ mut # <<>>
      /\ effects' = IF q.kind = "retire" /\ ok THEN effects \cup {<<c, m>>} ELSE effects
      /\ UNCHANGED <<block, blockAll, registered, owed, shadowed>>
  BY DEF CommitNext
<1>2. /\ TypeOK /\ q \in CallRecords /\ registered[c] \in Seq(Mutations)
      /\ broken[c] \in SUBSET Mutations
      /\ CallOK(q, registered[c], broken[c], Left(c))
  BY DEF IInv, TypeOK
<1>3. call' = [call EXCEPT ![c] = r]
  BY <1>2 DEF CommitNext, IInv, TypeOK
<1>4. broken' = [broken EXCEPT ![c] = brk]
  BY <1>2 DEF CommitNext, TypeOK
<1>5. f \in {"none", "account", "global"} /\ (~ ok => f # "none")
  BY <1>2, WidenIs DEF CallRecords
<1>6. m \in Mutations
  <2>1. mut \in Seq(Mutations)
    BY <1>2 DEF CallRecords
  <2> QED BY <1>1, <2>1
<1> HIDE DEF m
<1>7. /\ effects' \subseteq Calls \X Mutations
      /\ Left(c)' = IF q.kind = "retire" /\ ok THEN Left(c) \cup {m} ELSE Left(c)
      /\ \A d \in Calls \ {c} : Left(d)' = Left(d)
  <2>1. CASE q.kind = "retire" /\ ok
    <3> DEFINE M == {m}
    <3>1. effects' = effects \cup {<<c, k>> : k \in M} /\ M \subseteq Mutations
      BY <1>1, <1>6, <2>1
    <3> HIDE DEF M
    <3>2. /\ effects' \subseteq Calls \X Mutations /\ Left(c)' = Left(c) \cup M
          /\ \A d \in Calls \ {c} : Left(d)' = Left(d)
      BY <1>2, <3>1, EffectsAdded
    <3> QED BY <2>1, <3>2 DEF M
  <2>2. CASE ~ (q.kind = "retire" /\ ok)
    BY <1>1, <1>2, <2>2 DEF Left, TypeOK
  <2> QED BY <2>1, <2>2
<1>8. Commits(q, m, r, f, broken[c], brk, Left(c), Left(c)')
  BY <1>1, <1>5, <1>7 DEF Commits, m
<1> HIDE DEF f, brk, r, q
<1>9. /\ r \in CallRecords /\ CallOK(r, registered[c], brk, Left(c)')
      /\ r.pc = q.pc /\ r.kind = q.kind /\ r.outcome = q.outcome
  BY <1>2, <1>8, Committed
<1>10. brk \in SUBSET Mutations
  BY <1>2, <1>6 DEF brk
<1>11. Armed'
  BY <1>1, ArmedKept
<1>12. call'[c] = r
  BY <1>3 DEF IInv, TypeOK
<1>13. Explained(c)
  BY <1>1, <1>9, <1>12, StillSourced DEF Explained, q
<1>14. /\ block' \in [Accounts -> Causes] /\ blockAll' \in BOOLEAN
       /\ owed' \subseteq Calls \X (Accounts \cup {Unreadable})
       /\ shadowed' \subseteq Calls \X Accounts /\ registered' = registered
  BY <1>1, <1>2 DEF TypeOK
<1> QED BY <1>3, <1>4, <1>7, <1>9, <1>10, <1>11, <1>13, <1>14, FinalizerStep

\* The last finalizer has run.
LEMMA FinalizedOK ==
  ASSUME NEW q \in CallRecords, NEW reg, NEW brk, NEW left, CallOK(q, reg, brk, left),
         q.pc \in {"rolling", "committing"}, q.mutations = <<>>
  PROVE  /\ Finalized(q) \in CallRecords /\ CallOK(Finalized(q), reg, brk, left)
         /\ Finalized(q).kind = q.kind /\ Finalized(q).pc \in {"record", "done", "clear"}
         /\ Finalized(q).outcome = "fatal" => q.outcome = "fatal"
         /\ Finalized(q).outcome = "rejected" => q.outcome = "rejected"
<1> DEFINE r == Finalized(q)
<1>1. Staged(q) /\ InOrder(q, reg) /\ Unfinished(q, reg, brk) /\ left = Leaves(q, reg, brk)
  BY DEF CallOK
<1>2. /\ r \in CallRecords /\ r.kind = q.kind /\ r.account = q.account /\ r.slot = q.slot
      /\ r.next = q.next /\ r.mutations = <<>> /\ r.pending = q.pending /\ r.failure = q.failure
      /\ r.pc \in {"record", "done", "clear"}
      /\ r.pc = "record" => q.kind # "retire" /\ r.outcome = q.outcome
      /\ r.pc = "clear" => q.failure = "none" /\ r.outcome = q.outcome
                           /\ q.kind = "retire" /\ q.outcome # "refused"
      /\ r.pc = "done" => /\ q.kind = "retire"
                          /\ \/ r.outcome = q.outcome /\ q.outcome = "refused"
                             \/ r.outcome = "finalizer failed" /\ q.outcome # "refused"
  BY ZenonT(60) DEF Finalized, CallRecords, Outcomes
<1>3. /\ q.outcome \in {"rejected", "fatal", "refused", "rolled back", "accepted",
                        "committed", "retired"}
      /\ q.kind = "retire" => q.outcome \in {"refused", "retired"}
  BY <1>1 DEF Staged
<1> HIDE DEF r
<1>4. Staged(r)
  BY <1>1, <1>2, <1>3 DEF Staged, Asking
<1>5. InOrder(r, reg)
  BY <1>1, <1>2 DEF InOrder
<1>6. Unfinished(r, reg, brk)
  BY <1>1, <1>2, <1>3 DEF Unfinished
<1>7. left = Leaves(r, reg, brk)
  BY <1>1, <1>2, <1>3 DEF Leaves
<1>8. CallOK(r, reg, brk, left)
  BY <1>4, <1>5, <1>6, <1>7 DEF CallOK
<1>9. /\ r.outcome = "fatal" => q.outcome = "fatal"
      /\ r.outcome = "rejected" => q.outcome = "rejected"
  BY <1>2
<1> QED BY <1>2, <1>8, <1>9 DEF r

\* A failure that reaches every account.
LEMMA OwesAll ==
  ASSUME IInv, NEW c \in Calls, blockAll' = TRUE, block' = block, shadowed' = shadowed,
         owed' = owed \cup {<<c, Unreadable>>}
  PROVE  Armed' /\ owed' \subseteq Calls \X (Accounts \cup {Unreadable})
<1>1. owed \subseteq Calls \X (Accounts \cup {Unreadable})
  BY DEF IInv, TypeOK
<1>2. \A o \in owed : o[2] # Unreadable => block[o[2]] # NoBlock /\ block[o[2]].tag = NoTag
  BY DEF IInv, Armed, Blocks
<1>3. \A o \in owed' : o \in owed \/ o[2] = Unreadable
  OBVIOUS
<1> QED BY <1>1, <1>2, <1>3 DEF Armed, Blocks

LEMMA ArmKeeps ==
  ASSUME IInv, setup' = setup, NEW c \in Calls, Arm(c)
  PROVE  IInv'
<1> DEFINE q == call[c]
           r == Finalized(q)
           cause == Cause(c, "finalizer", NoTag)
<1>1. /\ q.pc \in {"rolling", "committing"} /\ q.mutations = <<>>
      /\ call' = [call EXCEPT ![c] = r] /\ UNCHANGED <<effects, registered, broken>>
  BY DEF Arm
<1>2. /\ TypeOK /\ q \in CallRecords /\ registered[c] \in Seq(Mutations)
      /\ broken[c] \in SUBSET Mutations
      /\ CallOK(q, registered[c], broken[c], Left(c))
      /\ q.account \in Accounts \cup {Unreadable} /\ Unreadable \notin Accounts
      /\ q.failure \in {"none", "account", "global"}
  BY EngineAssumption DEF IInv, TypeOK, CallRecords
<1>3. /\ effects' \subseteq Calls \X Mutations /\ \A d \in Calls : Left(d)' = Left(d)
      /\ broken' = [broken EXCEPT ![c] = broken[c]] /\ registered' = registered
  BY <1>1, <1>2 DEF Left, TypeOK
<1>4. /\ r \in CallRecords /\ CallOK(r, registered[c], broken[c], Left(c))
      /\ r.kind = q.kind /\ r.pc \in {"record", "done", "clear"}
      /\ r.outcome = "fatal" => q.outcome = "fatal"
      /\ r.outcome = "rejected" => q.outcome = "rejected"
  <2> HIDE DEF q
  <2> QED BY <1>1, <1>2, FinalizedOK
<1>5. cause \in Causes /\ cause # NoBlock /\ cause.by = c /\ cause.how = "finalizer"
      /\ cause.tag = NoTag
  BY CauseFacts DEF Tags
<1>6. \/ UNCHANGED <<block, blockAll, owed, shadowed>>
      \/ /\ q.account \in Accounts /\ BlockAccount(q.account, cause) /\ blockAll' = blockAll
         /\ Owe(c, q.account, "account")
      \/ /\ blockAll' = TRUE /\ UNCHANGED <<block, shadowed>>
         /\ owed' = owed \cup {<<c, Unreadable>>}
  BY <1>2 DEF Arm, RecordMutationFailure, Owe
<1> HIDE DEF q, r, cause
<1>7. /\ Armed' /\ owed' \subseteq Calls \X (Accounts \cup {Unreadable})
      /\ shadowed' \subseteq Calls \X Accounts /\ blockAll' \in BOOLEAN
      /\ block' \in [Accounts -> Causes]
      /\ \A a \in Accounts : block'[a] = block[a] \/ block'[a] = cause
  <2>1. CASE UNCHANGED <<block, blockAll, owed, shadowed>>
    <3>1. Armed'
      BY <2>1, ArmedKept
    <3> QED BY <1>2, <2>1, <3>1 DEF TypeOK
  <2>2. CASE /\ q.account \in Accounts /\ BlockAccount(q.account, cause) /\ blockAll' = blockAll
             /\ Owe(c, q.account, "account")
    <3>1. /\ block' \in [Accounts -> Causes]
          /\ \A a \in Accounts : block'[a] = block[a] \/ block'[a] = cause
      BY <1>2, <1>5, <2>2, Blocking
    <3>2. /\ Armed' /\ owed' \subseteq Calls \X (Accounts \cup {Unreadable})
          /\ shadowed' \subseteq Calls \X Accounts
      BY <1>5, <2>2, Owes
    <3> QED BY <1>2, <2>2, <3>1, <3>2 DEF TypeOK
  <2>3. CASE /\ blockAll' = TRUE /\ UNCHANGED <<block, shadowed>>
             /\ owed' = owed \cup {<<c, Unreadable>>}
    <3>1. Armed' /\ owed' \subseteq Calls \X (Accounts \cup {Unreadable})
      BY <2>3, OwesAll
    <3> QED BY <1>2, <2>3, <3>1 DEF TypeOK
  <2> QED BY <1>6, <2>1, <2>2, <2>3
<1>8. call'[c] = r
  BY <1>1, <1>2 DEF TypeOK
<1>9. Sourced(cause, r)
  BY <1>4, <1>5 DEF Sourced
<1>10. ASSUME NEW a \in Accounts, block[a].by = c
       PROVE  Sourced(block[a], r)
  <2>1. Sourced(block[a], q)
    BY <1>10 DEF IInv, q
  <2> QED BY <1>1, <1>4, <2>1 DEF Sourced
<1>11. Explained(c)
  BY <1>5, <1>7, <1>8, <1>9, <1>10 DEF Explained
<1>12. CallOK(r, registered[c], broken[c], Left(c)')
  BY <1>3, <1>4
<1> QED BY <1>1, <1>2, <1>3, <1>4, <1>7, <1>11, <1>12, FinalizerStep

LEMMA RecordKeeps ==
  ASSUME IInv, setup' = setup, NEW c \in Calls, Record(c)
  PROVE  IInv'
<1> DEFINE q == call[c]
           r == [q EXCEPT !.pending = Tail(q.pending)]
           cause == Cause(c, "reported", Head(q.pending))
<1>1. /\ q.pc = "record" /\ q.pending # <<>> /\ call' = [call EXCEPT ![c] = r]
      /\ UNCHANGED <<effects, registered, broken, owed, shadowed>>
  BY DEF Record, ghosts
<1>2. /\ TypeOK /\ q \in CallRecords /\ registered[c] \in Seq(Mutations)
      /\ broken[c] \in SUBSET Mutations
      /\ q.account \in Accounts \cup {Unreadable} /\ q.pending \in Seq(Tags)
  BY DEF IInv, TypeOK, CallRecords
<1>3. /\ effects' \subseteq Calls \X Mutations /\ \A d \in Calls : Left(d)' = Left(d)
      /\ broken' = [broken EXCEPT ![c] = broken[c]] /\ registered' = registered
      /\ owed' \subseteq Calls \X (Accounts \cup {Unreadable})
      /\ shadowed' \subseteq Calls \X Accounts
  BY <1>1, <1>2 DEF Left, TypeOK
<1>4. Tail(q.pending) \in Seq(Tags) /\ Head(q.pending) \in Tags
  BY <1>1, <1>2
<1>5. cause \in Causes /\ cause # NoBlock /\ cause.by = c /\ cause.how = "reported"
  BY <1>4, CauseFacts
<1>6. /\ block' \in [Accounts -> Causes] /\ blockAll' \in BOOLEAN /\ (blockAll => blockAll')
      /\ \A a \in Accounts : block'[a] = block[a] \/ (block[a] = NoBlock /\ block'[a] = cause)
  <2>1. CASE q.account \in Accounts /\ q.account # Unreadable
    <3>1. BlockAccount(q.account, cause) /\ blockAll' = blockAll
      BY <2>1 DEF Record
    <3> HIDE DEF cause, q
    <3>2. /\ block' \in [Accounts -> Causes]
          /\ \A a \in Accounts : block'[a] = block[a] \/ (block[a] = NoBlock /\ block'[a] = cause)
      BY <1>2, <1>5, <2>1, <3>1, Blocking
    <3> QED BY <1>2, <3>1, <3>2 DEF TypeOK
  <2>2. CASE q.account = Unreadable
    <3>1. blockAll' = (blockAll \/ q.kind = "report") /\ block' = block
      BY <2>2 DEF Record
    <3> QED BY <1>2, <3>1 DEF TypeOK
  <2> QED BY <1>2, <2>1, <2>2
<1>7. /\ Staged(q) /\ InOrder(q, registered[c]) /\ Unfinished(q, registered[c], broken[c])
      /\ Left(c) = Leaves(q, registered[c], broken[c])
  BY CallFacts
<1>8. /\ r \in CallRecords /\ r.kind = q.kind /\ r.account = q.account /\ r.slot = q.slot
      /\ r.next = q.next /\ r.mutations = q.mutations /\ r.failure = q.failure
      /\ r.pc = q.pc /\ r.outcome = q.outcome
  BY <1>2, <1>4 DEF CallRecords
<1> HIDE DEF q, r, cause
<1>9. Staged(r)
  BY <1>1, <1>7, <1>8 DEF Staged, Asking
<1>10. CallOK(r, registered[c], broken[c], Left(c)')
  BY <1>1, <1>3, <1>7, <1>8, <1>9 DEF CallOK, InOrder, Unfinished, Leaves
<1>11. Armed'
  BY <1>1, <1>6, ArmedKept
<1>12. call'[c] = r
  BY <1>1, <1>2 DEF TypeOK
<1>13. Sourced(cause, r)
  BY <1>1, <1>5, <1>7, <1>8 DEF Sourced, Staged
<1>14. Explained(c)
  BY <1>5, <1>6, <1>8, <1>12, <1>13, StillSourced DEF Explained, q
<1> QED BY <1>1, <1>2, <1>3, <1>6, <1>8, <1>10, <1>11, <1>14, FinalizerStep

LEMMA ReturnKeeps ==
  ASSUME IInv, setup' = setup, NEW c \in Calls, Return(c)
  PROVE  IInv'
<1> DEFINE q == call[c]
           pc == IF q.kind = "drop_copy" /\ q.outcome = "none" THEN "reserved" ELSE "done"
           r == [q EXCEPT !.pc = pc]
<1>1. /\ q.pc = "record" /\ call' = [call EXCEPT ![c] = r]
      /\ UNCHANGED <<effects, block, blockAll, ghosts>>
  BY DEF Return
<1>2. /\ q \in CallRecords /\ Staged(q) /\ InOrder(q, registered[c])
      /\ Unfinished(q, registered[c], broken[c])
      /\ Left(c) = Leaves(q, registered[c], broken[c])
  BY CallFacts
<1>3. /\ r \in CallRecords /\ r.kind = q.kind /\ r.account = q.account /\ r.slot = q.slot
      /\ r.next = q.next /\ r.mutations = q.mutations /\ r.failure = q.failure
      /\ r.pc = pc /\ r.outcome = q.outcome /\ r.pending = q.pending
  BY <1>2 DEF CallRecords
<1>4. q.slot \in Nat /\ (q.outcome = "none" => q.kind = "drop_copy")
  BY <1>1, <1>2 DEF CallRecords, Staged, Asking
<1>5. pc = "reserved" <=> q.outcome = "none"
  BY <1>4
<1>6. pc \in {"reserved", "done"}
  OBVIOUS
<1> HIDE DEF q, r, pc
<1>7. Staged(r)
  BY <1>1, <1>2, <1>3, <1>4, <1>5, <1>6 DEF Staged, Asking
<1>8. InOrder(r, registered[c])
  BY <1>1, <1>2, <1>3, <1>6 DEF InOrder
<1>9. Unfinished(r, registered[c], broken[c])
  BY <1>1, <1>2, <1>3, <1>5, <1>6 DEF Unfinished, Staged
<1>10. Left(c) = Leaves(r, registered[c], broken[c])
  BY <1>2, <1>3 DEF Leaves
<1>11. ASSUME NEW a \in Accounts, block[a].by = c /\ Sourced(block[a], q)
       PROVE  Sourced(block[a], r)
  BY <1>1, <1>3, <1>5, <1>6, <1>11, <1>4 DEF Sourced
<1> QED BY <1>1, <1>3, <1>7, <1>8, <1>9, <1>10, <1>11, QuietMove DEF CallOK, q

\* Lifting a block forgives what was owed for it.
LEMMA Forgiven ==
  ASSUME IInv, NEW a, Forgive(a),
         a = Unreadable \/ blockAll' = blockAll,
         \A b \in Accounts \ {a} : block'[b] = block[b]
  PROVE  /\ Armed' /\ owed' \subseteq Calls \X (Accounts \cup {Unreadable})
         /\ shadowed' \subseteq Calls \X Accounts
<1>1. /\ owed \subseteq Calls \X (Accounts \cup {Unreadable}) /\ shadowed \subseteq Calls \X Accounts
      /\ \A o \in owed : o[2] \in Accounts \cup {Unreadable}
  BY DEF IInv, TypeOK
<1>2. \A o \in owed' : o \in owed /\ o[2] # a
  BY DEF Forgive
<1>3. owed' \subseteq owed /\ shadowed' \subseteq shadowed
  BY DEF Forgive
<1>4. ASSUME NEW o \in owed'
      PROVE  IF o[2] = Unreadable THEN blockAll' ELSE block'[o[2]] # NoBlock /\ block'[o[2]].tag = NoTag
  BY <1>1, <1>2, <1>4 DEF IInv, Armed, Blocks
<1> QED BY <1>1, <1>3, <1>4 DEF Armed, Blocks

LEMMA ClearRetiredKeeps ==
  ASSUME IInv, setup' = setup, NEW c \in Calls, ClearRetired(c)
  PROVE  IInv'
<1> DEFINE q == call[c]
           r == [q EXCEPT !.pc = "done"]
<1>1. /\ q.pc = "clear" /\ call' = [call EXCEPT ![c] = r]
      /\ block' = [block EXCEPT ![q.account] = NoBlock] /\ Forgive(q.account)
      /\ UNCHANGED <<effects, blockAll, registered, broken>>
  BY DEF ClearRetired
<1>2. /\ TypeOK /\ q \in CallRecords /\ broken[c] \in SUBSET Mutations
      /\ Staged(q) /\ InOrder(q, registered[c])
      /\ Unfinished(q, registered[c], broken[c])
      /\ Left(c) = Leaves(q, registered[c], broken[c])
  BY CallFacts DEF IInv, TypeOK
<1>3. /\ r \in CallRecords /\ r.kind = q.kind /\ r.account = q.account /\ r.slot = q.slot
      /\ r.next = q.next /\ r.mutations = q.mutations /\ r.failure = q.failure
      /\ r.pc = "done" /\ r.outcome = q.outcome /\ r.pending = q.pending
  BY <1>2 DEF CallRecords
<1>4. q.outcome = "retired" /\ q.kind = "retire" /\ q.account \in Accounts
  BY <1>1, <1>2 DEF Staged
<1>5. /\ effects' \subseteq Calls \X Mutations /\ \A d \in Calls : Left(d)' = Left(d)
      /\ broken' = [broken EXCEPT ![c] = broken[c]] /\ blockAll' \in BOOLEAN
      /\ block' \in [Accounts -> Causes] /\ block'[q.account] = NoBlock
      /\ \A a \in Accounts \ {q.account} : block'[a] = block[a]
  BY <1>1, <1>2, <1>4, NoBlockFacts DEF Left, TypeOK
<1> HIDE DEF q, r
<1>6. Staged(r)
  BY <1>1, <1>2, <1>3, <1>4 DEF Staged, Asking
<1>7. CallOK(r, registered[c], broken[c], Left(c)')
  BY <1>1, <1>2, <1>3, <1>4, <1>5, <1>6 DEF CallOK, InOrder, Unfinished, Leaves
<1>8. /\ Armed' /\ owed' \subseteq Calls \X (Accounts \cup {Unreadable})
      /\ shadowed' \subseteq Calls \X Accounts
  BY <1>1, <1>5, Forgiven
<1>9. call'[c] = r
  BY <1>1, <1>2 DEF TypeOK
<1>10. \A b : Sourced(b, r)
  BY <1>3, <1>4 DEF Sourced
<1>11. Explained(c)
  BY <1>5, <1>9, <1>10, NoBlockFacts DEF Explained
<1> QED BY <1>1, <1>2, <1>3, <1>5, <1>7, <1>8, <1>11, FinalizerStep

(***************************************************************************)
(* The operator, and the whole specification.                              *)
(***************************************************************************)

LEMMA OperatorKeeps ==
  ASSUME IInv, setup' = setup, OperatorAny
  PROVE  IInv'
<1> DEFINE mine == Cause(Operator, "operator", NoTag)
<1>1. /\ TypeOK /\ mine \in Causes /\ mine # NoBlock /\ mine.by = Operator /\ mine.tag = NoTag
  BY CauseFacts DEF IInv, Tags
<1> HIDE DEF mine
<1>2. ASSUME UNCHANGED <<call, effects, registered, broken>>,
             block' \in [Accounts -> Causes], blockAll' \in BOOLEAN,
             owed' \subseteq Calls \X (Accounts \cup {Unreadable}),
             shadowed' \subseteq Calls \X Accounts, Armed',
             \A a \in Accounts : block'[a] = block[a] \/ block'[a].by = Operator
      PROVE  IInv'
  <2>1. TypeOK'
    BY <1>1, <1>2, SameTypes DEF TypeOK
  <2>2. ASSUME NEW d \in Calls
        PROVE  CallOK(call[d], registered[d], broken[d], Left(d))'
    <3>1. CallOK(call[d], registered[d], broken[d], Left(d))
      BY DEF IInv
    <3>2. Left(d)' = Left(d)
      BY <1>2 DEF Left
    <3> QED BY <1>2, <3>1, <3>2 DEF CallOK, InOrder, Unfinished, Leaves, Custom
  <2>3. \A d \in Calls, a \in Accounts : block'[a].by = d => Sourced(block'[a], call'[d])
    BY <1>2, NoBlockFacts DEF IInv
  <2> QED BY <1>2, <2>1, <2>2, <2>3 DEF IInv
<1>3. ASSUME NEW a \in Accounts, OperatorBlock(a)
      PROVE  IInv'
  <2>1. BlockAccount(a, mine) /\ UNCHANGED <<call, effects, blockAll, registered, broken, owed, shadowed>>
    BY <1>3 DEF OperatorBlock, mine, ghosts
  <2>2. /\ block' \in [Accounts -> Causes]
        /\ \A b \in Accounts : block'[b] = block[b] \/ (block'[b] = mine /\ block[b] = NoBlock)
    BY <1>1, <2>1, Blocking
  <2>3. Armed'
    BY <2>1, <2>2, ArmedKept
  <2> QED BY <1>1, <1>2, <2>1, <2>2, <2>3 DEF TypeOK
<1>4. ASSUME NEW a \in Accounts, OperatorReplaceReason(a)
      PROVE  IInv'
  <2>1. /\ block' = [block EXCEPT ![a] = mine]
        /\ UNCHANGED <<call, effects, blockAll, registered, broken, owed, shadowed>>
    BY <1>4 DEF OperatorReplaceReason, mine, ghosts
  <2>2. /\ block' \in [Accounts -> Causes] /\ block'[a] = mine
        /\ \A b \in Accounts \ {a} : block'[b] = block[b]
    BY <1>1, <2>1 DEF TypeOK
  <2>3. \A o \in owed : o[2] \in Accounts \cup {Unreadable}
    BY <1>1 DEF TypeOK
  <2>4. Armed'
    BY <1>1, <2>1, <2>2, <2>3 DEF IInv, Armed, Blocks
  <2> QED BY <1>1, <1>2, <2>1, <2>2, <2>4 DEF TypeOK
<1>5. ASSUME NEW a \in Accounts, OperatorUnblock(a)
      PROVE  IInv'
  <2>1. /\ block' = [block EXCEPT ![a] = NoBlock] /\ Forgive(a)
        /\ UNCHANGED <<call, effects, blockAll, registered, broken>>
    BY <1>5 DEF OperatorUnblock
  <2>2. /\ block' \in [Accounts -> Causes] /\ block'[a].by = Operator
        /\ \A b \in Accounts \ {a} : block'[b] = block[b]
    BY <1>1, <2>1, NoBlockFacts DEF TypeOK
  <2>3. /\ Armed' /\ owed' \subseteq Calls \X (Accounts \cup {Unreadable})
        /\ shadowed' \subseteq Calls \X Accounts
    BY <2>1, <2>2, Forgiven
  <2> QED BY <1>1, <1>2, <2>1, <2>2, <2>3 DEF TypeOK
<1>6. ASSUME OperatorUnblockAll
      PROVE  IInv'
  <2>1. /\ blockAll' = FALSE /\ Forgive(Unreadable)
        /\ UNCHANGED <<call, effects, block, registered, broken>>
    BY <1>6 DEF OperatorUnblockAll
  <2>2. /\ Armed' /\ owed' \subseteq Calls \X (Accounts \cup {Unreadable})
        /\ shadowed' \subseteq Calls \X Accounts
    BY <2>1, Forgiven
  <2> QED BY <1>1, <1>2, <2>1, <2>2 DEF TypeOK
<1> QED BY <1>3, <1>4, <1>5, <1>6 DEF OperatorAny

LEMMA EnterAnyKeeps ==
  ASSUME IInv, setup' = setup, NEW c \in Calls, EnterAny(c)
  PROVE  IInv'
<1>1. MaxElements \in Nat /\ Unreadable \notin Accounts
  BY SetupFacts, EngineAssumption DEF IInv
<1>2. ASSUME NEW a \in Accounts \cup {Unreadable}, StartPreTrade(c, a)
      PROVE  IInv'
  <2>1. \/ Enter(c, "pre_trade", a, "done", 0, 0, "blocked")
        \/ Enter(c, "pre_trade", a, "hooks", 0, 0, "none")
    BY <1>2 DEF StartPreTrade
  <2> QED BY <2>1, EnterKeeps
<1>3. ASSUME NEW a \in Accounts \cup {Unreadable}, ApplyDropCopy(c, a)
      PROVE  IInv'
  <2>1. \/ Enter(c, "drop_copy", a, "done", 0, 0, "unreadable")
        \/ a \in Accounts /\ Enter(c, "drop_copy", a, "hooks", 0, 0, "none")
    BY <1>3 DEF ApplyDropCopy
  <2> QED BY <2>1, EnterKeeps
<1>4. ASSUME NEW a \in Accounts \cup {Unreadable}, ApplyExecutionReport(c, a)
      PROVE  IInv'
  <2>1. Enter(c, "report", a, "hooks", 1, 1, "none")
    BY <1>4 DEF ApplyExecutionReport
  <2> QED BY <2>1, EnterKeeps
<1>5. ASSUME NEW a \in Accounts, RetireAccount(c, a)
      PROVE  IInv'
  <2>1. Enter(c, "retire", a, "hooks", 1, 1, "none")
    BY <1>5 DEF RetireAccount
  <2> QED BY <2>1, EnterKeeps
<1>6. ASSUME NEW a \in Accounts, NEW n \in 0 .. MaxElements, ApplyAccountAdjustment(c, a, n)
      PROVE  IInv'
  <2>1. \/ Enter(c, "adjustment", a, "done", 1, 1, "accepted")
        \/ Enter(c, "adjustment", a, "hooks", 1, n, "none")
    BY <1>6 DEF ApplyAccountAdjustment
  <2>2. n \in Nat
    BY <1>1
  <2> QED BY <2>1, <2>2, EnterKeeps
<1> QED BY <1>2, <1>3, <1>4, <1>5, <1>6 DEF EnterAny

LEMMA InitHolds ==
  ASSUME Init
  PROVE  IInv
<1>1. TypeOK
  <2>1. 1 \in Policies
    BY EngineAssumption DEF Init, Policies, PolicyCount
  <2>2. Idle \in CallRecords
    BY <2>1 DEF Idle, CallRecords, Outcomes
  <2>3. <<>> \in Seq(Mutations)
    OBVIOUS
  <2>4. /\ call \in [Calls -> CallRecords] /\ registered \in [Calls -> Seq(Mutations)]
        /\ broken \in [Calls -> SUBSET Mutations] /\ block \in [Accounts -> Causes]
    BY <2>2, <2>3, NoBlockFacts DEF Init
  <2> QED BY <2>4 DEF Init, TypeOK
<1>2. ASSUME NEW c \in Calls
      PROVE  CallOK(call[c], registered[c], broken[c], Left(c))
  <2>1. /\ call[c] = Idle /\ registered[c] = <<>> /\ broken[c] = {} /\ Left(c) = {}
    BY DEF Init, Left
  <2>2. Staged(Idle)
    BY DEF Staged, Asking, Idle
  <2>3. InOrder(Idle, <<>>) /\ Unfinished(Idle, <<>>, {}) /\ Leaves(Idle, <<>>, {}) = {}
    BY EmptyRange DEF InOrder, Unfinished, Leaves, Idle
  <2> QED BY <2>1, <2>2, <2>3 DEF CallOK
<1>3. Armed
  BY DEF Init, Armed
<1>4. \A c \in Calls, a \in Accounts : block[a].by # c
  BY NoBlockFacts DEF Init
<1> QED BY <1>1, <1>2, <1>3, <1>4 DEF IInv

LEMMA NextKeeps ==
  ASSUME IInv, [Next]_vars
  PROVE  IInv'
<1>1. CASE UNCHANGED vars
  <2>1. UNCHANGED <<setup, call, effects, block, blockAll, registered, broken, owed, shadowed>>
    BY <1>1 DEF vars
  <2>2. TypeOK'
    BY <2>1, SameTypes DEF IInv, TypeOK
  <2>3. ASSUME NEW d \in Calls
        PROVE  CallOK(call[d], registered[d], broken[d], Left(d))'
    <3>1. CallOK(call[d], registered[d], broken[d], Left(d)) /\ Left(d)' = Left(d)
      BY <2>1 DEF IInv, Left
    <3> QED BY <2>1, <3>1 DEF CallOK, InOrder, Unfinished, Leaves, Custom
  <2>4. Armed'
    BY <2>1 DEF IInv, Armed, Blocks
  <2> QED BY <2>1, <2>2, <2>3, <2>4 DEF IInv
<1>2. ASSUME setup' = setup, NEW c \in Calls,
             EnterAny(c) \/ HookAny(c) \/ JudgeAny(c) \/ Owner(c) \/ Finalizer(c)
      PROVE  IInv'
  <2>1. CASE EnterAny(c)
    BY <1>2, <2>1, EnterAnyKeeps
  <2>2. CASE HookAny(c)
    BY <1>2, <2>2, HookKeeps DEF HookAny
  <2>3. CASE JudgeAny(c)
    BY <1>2, <2>3, JudgePreTradeKeeps, JudgeDropCopyKeeps, JudgeAdjustmentKeeps,
       JudgeReportKeeps, JudgeRetireKeeps DEF JudgeAny
  <2>4. CASE Owner(c)
    BY <1>2, <2>4, ExecuteKeeps, OwnerKeeps DEF Owner
  <2>5. CASE Finalizer(c)
    BY <1>2, <2>5, RollbackCustomKeeps, RollbackHoldKeeps, RollbackPnlKeeps,
       CommitNextKeeps, ArmKeeps, RecordKeeps, ReturnKeeps, ClearRetiredKeeps DEF Finalizer
  <2> QED BY <1>2, <2>1, <2>2, <2>3, <2>4, <2>5
<1>3. CASE Next
  BY <1>2, <1>3, OperatorKeeps DEF Next
<1> QED BY <1>1, <1>3

\* Every reachable state satisfies the inductive invariant: types, what each
\* call has come to, registered and left, and where the blocks come from.
THEOREM EngineInvariant == Spec => []IInv
<1>1. Init => IInv
  BY InitHolds
<1>2. IInv /\ [Next]_vars => IInv'
  BY NextKeeps
<1> QED BY <1>1, <1>2, PTL DEF Spec

\* Whatever the policies answer, whichever finalizers fail and however the
\* calls interleave, a call of the engine that has returned left everything it
\* registered or only what a failed rollback could not undo.
THEOREM CallsAllOrNothing == Spec => []AllOrNothing
<1>1. IInv => AllOrNothing
  <2> SUFFICES ASSUME IInv, NEW c \in Calls, call[c].pc = "done"
               PROVE  Left(c) =
                        CASE call[c].outcome \in {"committed", "accepted", "retired"} ->
                                Range(registered[c])
                          [] call[c].outcome = "finalizer failed" ->
                                Range(registered[c]) \ broken[c]
                          [] call[c].outcome = "refused" -> {}
                          [] OTHER -> broken[c]
    BY DEF AllOrNothing
  <2>1. /\ Staged(call[c]) /\ Unfinished(call[c], registered[c], broken[c])
        /\ Left(c) = Leaves(call[c], registered[c], broken[c])
    BY CallFacts
  <2>2. call[c].outcome # "none" /\ call[c].mutations = <<>> /\ Range(call[c].mutations) = {}
    BY <2>1, EmptyRange DEF Staged, Asking, Unfinished
  <2>3. call[c].outcome = "retired" => broken[c] = {}
    BY <2>1 DEF Staged, Unfinished
  <2>4. CASE call[c].outcome \in {"committed", "accepted", "retired"}
    <3>1. Left(c) = Range(registered[c])
      BY <2>1, <2>2, <2>3, <2>4 DEF Leaves
    <3> QED BY <2>4, <3>1
  <2>5. CASE call[c].outcome = "finalizer failed"
    <3>1. Left(c) = Range(registered[c]) \ broken[c]
      BY <2>1, <2>2, <2>5 DEF Leaves
    <3> QED BY <2>5, <3>1
  <2>6. CASE call[c].outcome \notin {"committed", "accepted", "retired", "finalizer failed"}
    <3>1. Left(c) = IF call[c].outcome = "refused" THEN {} ELSE broken[c]
      BY <2>1, <2>2, <2>6 DEF Leaves
    <3> QED BY <2>6, <3>1
  <2> QED BY <2>4, <2>5, <2>6
<1> QED BY <1>1, EngineInvariant, PTL

\* Until the operator or a retirement lifts it, the block a failed finalizer
\* raised stands, whatever the other calls roll back, record or retire.
THEOREM KillSwitchesVisible == Spec => []KillSwitchVisible
<1>1. IInv => KillSwitchVisible
  BY DEF IInv, Armed, KillSwitchVisible
<1> QED BY <1>1, EngineInvariant, PTL

\* A fatal drop copy and a rejected batch leave none of the blocks their
\* policies asked for.
THEOREM FailuresLeaveNoBlock == Spec => []FailedLeavesNoBlock
<1>1. IInv => FailedLeavesNoBlock
  <2> SUFFICES ASSUME IInv, NEW c \in Calls, NEW a \in Accounts, block[a].by = c
               PROVE  /\ call[c].outcome = "fatal" => block[a].how = "finalizer"
                      /\ call[c].kind = "adjustment" /\ call[c].outcome = "rejected" =>
                             block[a].how # "reported"
    BY DEF FailedLeavesNoBlock
  <2>1. Sourced(block[a], call[c]) /\ Staged(call[c])
    BY CallFacts DEF IInv
  <2> QED BY <2>1 DEF Sourced, Staged
<1> QED BY <1>1, EngineInvariant, PTL

=============================================================================
