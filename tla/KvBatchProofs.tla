--------------------------- MODULE KvBatchProofs ---------------------------
(***************************************************************************)
(* Proofs about the store with batched index threads.                      *)
(*                                                                         *)
(* The algorithm: the loop over the sorted batch (Walk) is taken turn by   *)
(* turn. After n turns (Halfway) the index holds the newest update of      *)
(* every key met so far, and last_key tells whether the key of the next    *)
(* entry was met. The induction over turns is by the least number of turns *)
(* for which this would fail.                                              *)
(*                                                                         *)
(* The store: if a packet in a batch is seen as still being in the queue   *)
(* of its thread (Queued), a poll that only gathers changes nothing, and   *)
(* every other step except the application of a batch is a step of         *)
(* KvStore. The instance K of the theorems about KvStore covers those      *)
(* steps; what is left to prove of each invariant is one step, Applied,    *)
(* that answers the packets in front of a queue all at once.               *)
(***************************************************************************)
EXTENDS KvBatch, KvStoreProofs, WellFoundedInduction, FiniteSetTheorems,
        SequenceTheorems, TLAPS

-----------------------------------------------------------------------------
(* Induction. The provers cannot instantiate the library's induction rules,  *)
(* which range over an operator; over a set of numbers they can.             *)

\* A nonempty set of natural numbers has a least element.
LEMMA LeastNat ==
    ASSUME NEW T \in SUBSET Nat, T # {}
    PROVE  \E x \in T : \A y \in T : x =< y
  <1>1. PICK R : R = OpToRel(<, Nat)
    OBVIOUS
  <1>2. IsWellFoundedOn(R, Nat)
    BY <1>1, NatLessThanWellFounded
  <1>3. PICK x \in T : \A y \in T : <<y, x>> \notin R
    BY <1>2, WFMin, Zenon
  <1>4. \A y \in T : y < x => <<y, x>> \in R
    BY <1>1 DEF OpToRel
  <1>5. x \in Nat /\ \A y \in T : y \in Nat /\ ~ (y < x)
    BY <1>3, <1>4
  <1> QED
    BY <1>5

\* Induction up to N over a set of numbers.
LEMMA UpTo ==
    ASSUME NEW N \in Nat, NEW T, 0 \in T,
           \A n \in Nat : n < N /\ n \in T => n + 1 \in T
    PROVE  \A n \in 0 .. N : n \in T
  <1> SUFFICES ASSUME NEW o \in 0 .. N, o \notin T
               PROVE  FALSE
    OBVIOUS
  <1>u. PICK U : U = { n \in 0 .. N : n \notin T }
    OBVIOUS
  <1>1. U \in SUBSET Nat /\ U # {}
    BY <1>u
  <1>2. PICK x \in U : \A y \in U : x =< y
    BY <1>1, LeastNat
  <1>3. x \in 0 .. N /\ x \notin T /\ x # 0
    BY <1>u, <1>2
  <1>4. x - 1 \in Nat /\ x - 1 < N /\ x - 1 \in 0 .. N /\ (x - 1) + 1 = x /\ ~ (x =< x - 1)
    BY <1>3
  <1>5. x - 1 \in T
    BY <1>2, <1>4, <1>u
  <1> QED
    BY <1>3, <1>4, <1>5

-----------------------------------------------------------------------------
(* The loop over the sorted batch, turn by turn. *)

Start(b, idx) == [idx |-> idx, last_key |-> 0, out |-> b]

\* w is the state of the loop after each of the first N turns.
IsTurns(b, p, idx, N, w) ==
    w = [n \in 0 .. N |-> IF n = 0 THEN Start(b, idx) ELSE Apply(b, w[n - 1], p[n])]

\* The recursive definition of the loop has a solution.
LEMMA TurnsExist ==
    ASSUME NEW b, NEW p, NEW idx, NEW N \in Nat
    PROVE  \E w : IsTurns(b, p, idx, N, w)
  <1> DEFINE T == { n \in Nat : \E w : IsTurns(b, p, idx, n, w) }
  <1>1. 0 \in T
    <2>1. PICK w : w = [n \in 0 .. 0 |-> Start(b, idx)]
      OBVIOUS
    <2>2. IsTurns(b, p, idx, 0, w)
      BY <2>1 DEF IsTurns
    <2> QED
      BY <2>2
  <1>2. ASSUME NEW m \in Nat, m \in T
        PROVE  m + 1 \in T
    <2>1. PICK w : IsTurns(b, p, idx, m, w)
      BY <1>2
    <2>2. PICK v : v = [n \in 0 .. m + 1 |-> IF n =< m THEN w[n] ELSE Apply(b, w[m], p[m + 1])]
      OBVIOUS
    <2>3. \A n \in 0 .. m : v[n] = w[n]
      BY <2>2
    <2>4. w[0] = Start(b, idx) /\ \A n \in 0 .. m : n # 0 => w[n] = Apply(b, w[n - 1], p[n])
      BY <2>1 DEF IsTurns
    <2>5. ASSUME NEW n \in 0 .. m + 1
          PROVE  v[n] = IF n = 0 THEN Start(b, idx) ELSE Apply(b, v[n - 1], p[n])
      <3>1. CASE n = 0
        BY <3>1, <2>3, <2>4
      <3>2. CASE n \in 1 .. m
        <4>1. n \in 0 .. m /\ n - 1 \in 0 .. m /\ n # 0
          BY <3>2
        <4> QED
          BY <4>1, <2>3, <2>4
      <3>3. CASE n = m + 1
        <4>1. n - 1 = m /\ m \in 0 .. m /\ ~ (n =< m) /\ n # 0
          BY <3>3
        <4>2. v[n] = Apply(b, w[m], p[m + 1]) /\ v[m] = w[m]
          BY <2>2, <2>3, <3>3, <4>1
        <4> QED
          BY <3>3, <4>1, <4>2
      <3> QED
        BY <3>1, <3>2, <3>3
    <2>6. v = [n \in 0 .. m + 1 |-> v[n]]
      BY <2>2
    <2>7. IsTurns(b, p, idx, m + 1, v)
      BY <2>5, <2>6, Zenon DEF IsTurns
    <2> QED
      BY <2>7
  <1> HIDE DEF T
  <1>3. \A n \in 0 .. N : n \in T
    BY <1>1, <1>2, UpTo
  <1>4. N \in T
    BY <1>3
  <1> QED
    BY <1>4 DEF T

\* What the loop computes is its state after the last turn.
LEMMA WalkTurns ==
    ASSUME NEW b, NEW p, NEW idx, Len(p) \in Nat
    PROVE  \E w : /\ Walk(b, p, idx) = w[Len(p)]
                  /\ w[0] = Start(b, idx)
                  /\ \A n \in Nat : n < Len(p) => w[n + 1] = Apply(b, w[n], p[n + 1])
  <1>1. PICK w : w = CHOOSE v : IsTurns(b, p, idx, Len(p), v)
    OBVIOUS
  <1>2. IsTurns(b, p, idx, Len(p), w)
    BY <1>1, TurnsExist, Zenon
  <1>3. Walk(b, p, idx) = w[Len(p)]
    BY <1>1, Zenon DEF Walk, IsTurns, Start
  <1>4. w[0] = Start(b, idx)
    BY <1>2 DEF IsTurns
  <1>5. ASSUME NEW n \in Nat, n < Len(p)
        PROVE  w[n + 1] = Apply(b, w[n], p[n + 1])
    <2>1. n + 1 \in 0 .. Len(p) /\ n + 1 # 0 /\ (n + 1) - 1 = n
      BY <1>5
    <2> QED
      BY <1>2, <2>1 DEF IsTurns
  <1> QED
    BY <1>3, <1>4, <1>5

\* std::sort permutes: every entry of the batch has its turn, and only one.
LEMMA SortPermutes ==
    ASSUME NEW b \in Seq(RawKvMsg), NEW p \in SetToSeqs(DOMAIN b)
    PROVE  /\ p \in [1 .. Len(b) -> 1 .. Len(b)] /\ Len(p) = Len(b) /\ Len(b) \in Nat
           /\ DOMAIN b = 1 .. Len(b)
           /\ \A m, n \in 1 .. Len(b) : p[m] = p[n] => m = n
           /\ \A j \in 1 .. Len(b) : \E n \in 1 .. Len(b) : p[n] = j
  <1>1. Len(b) \in Nat /\ DOMAIN b = 1 .. Len(b)
    OBVIOUS
  <1>2. IsFiniteSet(1 .. Len(b)) /\ Cardinality(1 .. Len(b)) = Len(b)
    BY <1>1, FS_Interval
  <1>3. /\ p \in [1 .. Len(b) -> 1 .. Len(b)]
        /\ \A m, n \in 1 .. Len(b) : m # n => p[m] # p[n]
    BY <1>1, <1>2 DEF SetToSeqs
  <1>4. p \in Injection(1 .. Len(b), 1 .. Len(b))
    BY <1>3 DEF Injection, IsInjective
  <1>5. p \in Surjection(1 .. Len(b), 1 .. Len(b))
    BY <1>2, <1>4, FS_Injection
  <1>6. \A j \in 1 .. Len(b) : \E n \in 1 .. Len(b) : p[n] = j
    BY <1>5 DEF Surjection
  <1>7. Len(p) = Len(b)
    BY <1>1, <1>3
  <1> QED
    BY <1>1, <1>3, <1>6, <1>7

-----------------------------------------------------------------------------
(* What a turn does. *)

IndexOps == {MultiCastPkt, UpdateIndexReq, ReadIndexReq}

\* The packets an index thread receives.
Requests(b) == b \in Seq(RawKvMsg) /\ \A j \in DOMAIN b : b[j].op \in IndexOps

\* The state of the loop over N packets.
Loop(N) == [idx : [Keys -> LogIds \cup {NoLog}], last_key : Nat, out : [1 .. N -> RawKvMsg]]

\* r is a reply to m; an update is answered with the log id it carries.
Answers(m, r) == /\ r.op = ReplyOp(m) /\ r.cli = m.cli /\ r.magic = m.magic
                 /\ r.key = m.key /\ (IsUpdate(m) => r.log = m.log)

\* One turn of the loop, and what it answers.
LEMMA TurnIs ==
    ASSUME NEW b, Requests(b), NEW s \in Loop(Len(b)), NEW i \in 1 .. Len(b)
    PROVE  LET t == Apply(b, s, i) IN
           /\ t \in Loop(Len(b)) /\ t.last_key = b[i].key
           /\ \A k \in Keys :
                  t.idx[k] = IF IsUpdate(b[i]) /\ k = b[i].key /\ k # s.last_key
                             THEN b[i].log ELSE s.idx[k]
           /\ \A j \in 1 .. Len(b) : j # i => t.out[j] = s.out[j]
           /\ Answers(b[i], t.out[i])
           /\ ~ IsUpdate(b[i]) => t.out[i].log = s.idx[b[i].key]
  <1>m. PICK m \in RawKvMsg : m = b[i]
    BY DEF Requests
  <1>0. /\ m.key \in Keys /\ m.key \in Nat /\ m.op \in IndexOps
        /\ m.log \in LogIds \cup {NoLog} /\ s.idx[m.key] \in LogIds \cup {NoLog}
    <2>1. i \in DOMAIN b
      BY DEF Requests
    <2> QED
      BY <1>m, <2>1, KeysAssumption DEF Requests, RawKvMsg, Loop
  <1>1. ReplyOp(m) \in RpcType
    BY <1>0 DEF ReplyOp, IndexOps, RpcType, MultiCastPkt, UpdateIndexReq, ReadIndexReq
  <1>t. PICK t : t = Apply(b, s, i)
    OBVIOUS
  <1>2. CASE IsUpdate(m)
    <2>r. PICK r : r = [m EXCEPT !.op = ReplyOp(m)]
      OBVIOUS
    <2>1. r \in RawKvMsg /\ Answers(m, r)
      BY <1>1, <2>r DEF RawKvMsg, Answers
    <2>2. t = [s EXCEPT !.idx[m.key] = IF m.key # s.last_key THEN m.log ELSE @,
                        !.last_key = m.key, !.out[i] = r]
      BY <1>m, <1>t, <1>2, <2>r DEF Apply
    <2>3. /\ t.idx = [s.idx EXCEPT ![m.key] = IF m.key # s.last_key THEN m.log ELSE @]
          /\ t.last_key = m.key /\ t.out = [s.out EXCEPT ![i] = r]
          /\ t = [idx |-> t.idx, last_key |-> t.last_key, out |-> t.out]
      BY <2>2 DEF Loop
    <2>4. t.idx \in [Keys -> LogIds \cup {NoLog}] /\ t.out \in [1 .. Len(b) -> RawKvMsg]
      BY <1>0, <2>1, <2>3 DEF Loop
    <2>5. t \in Loop(Len(b))
      BY <1>0, <2>3, <2>4 DEF Loop
    <2>6. \A k \in Keys : t.idx[k] = IF k = m.key /\ k # s.last_key THEN m.log ELSE s.idx[k]
      BY <1>0, <2>3 DEF Loop
    <2>7. t.out[i] = r /\ \A j \in 1 .. Len(b) : j # i => t.out[j] = s.out[j]
      BY <2>3 DEF Loop
    <2> QED
      BY <1>m, <1>t, <1>2, <2>1, <2>3, <2>5, <2>6, <2>7
  <1>3. CASE ~ IsUpdate(m)
    <2>r. PICK r : r = [m EXCEPT !.op = ReplyOp(m), !.log = s.idx[m.key]]
      OBVIOUS
    <2>1. r \in RawKvMsg /\ Answers(m, r) /\ r.log = s.idx[m.key]
      BY <1>0, <1>1, <1>3, <2>r DEF RawKvMsg, Answers
    <2>2. t = [s EXCEPT !.last_key = m.key, !.out[i] = r]
      BY <1>m, <1>t, <1>3, <2>r DEF Apply
    <2>3. /\ t.idx = s.idx /\ t.last_key = m.key /\ t.out = [s.out EXCEPT ![i] = r]
          /\ t = [idx |-> t.idx, last_key |-> t.last_key, out |-> t.out]
      BY <2>2 DEF Loop
    <2>4. t.out \in [1 .. Len(b) -> RawKvMsg]
      BY <2>1, <2>3 DEF Loop
    <2>5. t \in Loop(Len(b))
      BY <1>0, <2>3, <2>4 DEF Loop
    <2>7. t.out[i] = r /\ \A j \in 1 .. Len(b) : j # i => t.out[j] = s.out[j]
      BY <2>3 DEF Loop
    <2> QED
      BY <1>m, <1>t, <1>3, <2>1, <2>3, <2>5, <2>7
  <1> QED
    BY <1>2, <1>3

\* The loop keeps the types and answers every entry, whatever their order.
LEMMA WalkAnswers ==
    ASSUME NEW b, Requests(b), NEW p \in SetToSeqs(DOMAIN b),
           NEW idx \in [Keys -> LogIds \cup {NoLog}]
    PROVE  LET w == Walk(b, p, idx) IN
           /\ w.idx \in [Keys -> LogIds \cup {NoLog}]
           /\ w.out \in Seq(RawKvMsg) /\ Len(w.out) = Len(b)
           /\ \A j \in DOMAIN b : Answers(b[j], w.out[j])
  <1>b. b \in Seq(RawKvMsg)
    BY DEF Requests
  <1>p. /\ p \in [1 .. Len(b) -> 1 .. Len(b)] /\ Len(p) = Len(b) /\ Len(b) \in Nat
        /\ DOMAIN b = 1 .. Len(b)
        /\ \A j \in 1 .. Len(b) : \E n \in 1 .. Len(b) : p[n] = j
    BY <1>b, SortPermutes
  <1>w. PICK w : /\ Walk(b, p, idx) = w[Len(b)] /\ w[0] = Start(b, idx)
                 /\ \A n \in Nat : n < Len(b) => w[n + 1] = Apply(b, w[n], p[n + 1])
    <2>1. Len(p) \in Nat
      BY <1>p
    <2>2. \E w : /\ Walk(b, p, idx) = w[Len(p)]
                 /\ w[0] = Start(b, idx)
                 /\ \A n \in Nat : n < Len(p) => w[n + 1] = Apply(b, w[n], p[n + 1])
      BY <2>1, WalkTurns
    <2>3. Len(p) = Len(b)
      BY <1>p
    <2> QED
      BY <2>2, <2>3, Zenon
  <1> DEFINE T == { n \in Nat : /\ w[n] \in Loop(Len(b))
                                /\ \A m \in 1 .. n : m =< Len(b) =>
                                       Answers(b[p[m]], w[n].out[p[m]]) }
  <1>1. 0 \in T
    <2>1. b \in [1 .. Len(b) -> RawKvMsg]
      BY <1>b
    <2>2. Start(b, idx) \in Loop(Len(b))
      BY <2>1 DEF Start, Loop
    <2> QED
      BY <1>w, <2>2
  <1>2. ASSUME NEW n \in Nat, n < Len(b), n \in T
        PROVE  n + 1 \in T
    <2>n. n + 1 \in 1 .. Len(b)
      BY <1>p, <1>2
    <2>i. PICK i \in 1 .. Len(b) : i = p[n + 1]
      BY <1>p, <2>n
    <2>s. PICK s : s = w[n]
      OBVIOUS
    <2>t. PICK t : t = w[n + 1]
      OBVIOUS
    <2>1. /\ s \in Loop(Len(b)) /\ t = Apply(b, s, i)
          /\ \A m \in 1 .. n : m =< Len(b) => Answers(b[p[m]], s.out[p[m]])
      BY <1>w, <1>2, <2>i, <2>s, <2>t
    <2>2. /\ t \in Loop(Len(b)) /\ Answers(b[i], t.out[i])
          /\ \A j \in 1 .. Len(b) : j # i => t.out[j] = s.out[j]
      BY <2>1, TurnIs
    <2>3. ASSUME NEW m \in 1 .. n + 1, m =< Len(b)
          PROVE  Answers(b[p[m]], t.out[p[m]])
      <3>1. CASE p[m] = i
        BY <2>2, <3>1
      <3>2. CASE p[m] # i
        <4>1. m \in 1 .. n
          BY <1>2, <2>i, <2>3, <3>2
        <4>2. m \in 1 .. Len(b)
          BY <1>p, <2>3, <4>1
        <4>3. p[m] \in 1 .. Len(b)
          BY <1>p, <4>2
        <4> QED
          BY <2>1, <2>2, <2>3, <3>2, <4>1, <4>3
      <3> QED
        BY <3>1, <3>2
    <2> QED
      BY <2>t, <2>2, <2>3
  <1> HIDE DEF T
  <1>3. \A n \in 0 .. Len(b) : n \in T
    BY <1>1, <1>2, <1>p, UpTo
  <1>v. PICK v : v = Walk(b, p, idx)
    OBVIOUS
  <1>4. /\ v \in Loop(Len(b))
        /\ \A m \in 1 .. Len(b) : Answers(b[p[m]], v.out[p[m]])
    BY <1>3, <1>p, <1>v, <1>w DEF T
  <1>5. \A j \in DOMAIN b : Answers(b[j], v.out[j])
    BY <1>4, <1>p
  <1>6. v.out \in Seq(RawKvMsg) /\ Len(v.out) = Len(b) /\ v.idx \in [Keys -> LogIds \cup {NoLog}]
    <2>1. v.out \in [1 .. Len(b) -> RawKvMsg] /\ v.idx \in [Keys -> LogIds \cup {NoLog}]
      BY <1>4 DEF Loop
    <2>2. PICK N \in Nat : N = Len(b)
      BY <1>p
    <2>3. v.out \in [1 .. N -> RawKvMsg]
      BY <2>1, <2>2
    <2>4. v.out \in Seq(RawKvMsg) /\ Len(v.out) = N
      BY <2>3
    <2> QED
      BY <2>1, <2>2, <2>4
  <1> QED
    BY <1>v, <1>5, <1>6

-----------------------------------------------------------------------------
(* The order decides: the newest update of a key comes before its other      *)
(* updates, and those before its reads.                                      *)

\* Updates of a key with the same timestamp agree, and a read carries an older
\* timestamp than every update of its key.
Ordered(b) ==
    \A i, j \in DOMAIN b : b[i].key = b[j].key /\ IsUpdate(b[i]) =>
        /\ IsUpdate(b[j]) /\ b[i].ts = b[j].ts => b[i].log = b[j].log
        /\ ~ IsUpdate(b[j]) => b[j].ts < b[i].ts

\* Keys and timestamps are numbers.
LEMMA PacketNumbers ==
    ASSUME NEW m \in RawKvMsg
    PROVE  m.key \in Keys /\ m.key \in Nat /\ m.ts \in Nat
  <1>1. m.key \in Keys /\ m.ts \in 0 .. TsSpace - 1
    BY DEF RawKvMsg
  <1>2. m.key \in Nat
    BY <1>1, KeysAssumption
  <1>3. m.ts \in Nat
    BY <1>1
  <1> QED
    BY <1>1, <1>2, <1>3

\* An update of k as new as every other carries the log id of the newest.
LEMMA NewestIs ==
    ASSUME NEW b, Requests(b), Ordered(b), NEW k, NEW i \in Updates(b, k),
           \A j \in Updates(b, k) : b[j].ts <= b[i].ts
    PROVE  NewestLog(b, k) = b[i].log
  <1>1. PICK c : c = CHOOSE x \in Updates(b, k) : \A j \in Updates(b, k) : b[j].ts <= b[x].ts
    OBVIOUS
  <1>2. c \in Updates(b, k) /\ \A j \in Updates(b, k) : b[j].ts <= b[c].ts
    BY <1>1
  <1>3. \A j \in Updates(b, k) : b[j].ts \in Nat
    BY PacketNumbers DEF Requests, Updates
  <1>4. b[c].ts = b[i].ts
    BY <1>2, <1>3
  <1>5. b[c].log = b[i].log
    BY <1>2, <1>4 DEF Ordered, Updates
  <1> QED
    BY <1>1, <1>5 DEF NewestLog

\* The batch in the order of the loop.
Sorted(b, p, N, q) ==
    /\ N \in Nat /\ N = Len(b)
    /\ \A n \in 1 .. N : /\ p[n] \in 1 .. N /\ q[n] = b[p[n]] /\ q[n] \in RawKvMsg
                         /\ q[n].key \in Nat /\ q[n].key # 0 /\ q[n].ts \in Nat
    /\ \A m, n \in 1 .. N : p[m] = p[n] => m = n
    /\ \A j \in 1 .. N : \E n \in 1 .. N : p[n] = j
    /\ \A m, n \in 1 .. N : m < n =>
           q[m].key =< q[n].key /\ (q[m].key = q[n].key => q[n].ts =< q[m].ts)

\* What every result of std::sort has in common.
LEMMA SortedIs ==
    ASSUME NEW b, Requests(b), \A j \in DOMAIN b : b[j].key # 0, NEW p \in SortOrders(b)
    PROVE  \E N, q : Sorted(b, p, N, q)
  <1>b. b \in Seq(RawKvMsg)
    BY DEF Requests
  <1>s. p \in SetToSeqs(DOMAIN b)
    BY DEF SortOrders
  <1>1. /\ p \in [1 .. Len(b) -> 1 .. Len(b)] /\ Len(b) \in Nat
        /\ DOMAIN b = 1 .. Len(b)
        /\ \A m, n \in 1 .. Len(b) : p[m] = p[n] => m = n
        /\ \A j \in 1 .. Len(b) : \E n \in 1 .. Len(b) : p[n] = j
    BY <1>b, <1>s, SortPermutes
  <1>N. PICK N \in Nat : N = Len(b)
    BY <1>1
  <1>q. PICK q : q = [n \in 1 .. N |-> b[p[n]]]
    OBVIOUS
  <1>2. /\ p \in [1 .. N -> 1 .. N] /\ DOMAIN b = 1 .. N
        /\ \A m, n \in 1 .. N : p[m] = p[n] => m = n
        /\ \A j \in 1 .. N : \E n \in 1 .. N : p[n] = j
    BY <1>1, <1>N
  <1>3. \A m, n \in 1 .. N : m < n => ~ Before(b[p[n]], b[p[m]])
    BY <1>2 DEF SortOrders
  <1>4. ASSUME NEW n \in 1 .. N
        PROVE  /\ p[n] \in 1 .. N /\ q[n] = b[p[n]] /\ q[n] \in RawKvMsg
               /\ q[n].key \in Nat /\ q[n].key # 0 /\ q[n].ts \in Nat
    <2>1. p[n] \in 1 .. N /\ q[n] = b[p[n]]
      BY <1>2, <1>q
    <2>2. q[n] \in RawKvMsg /\ q[n].key # 0
      BY <2>1, <1>2, <1>b
    <2> QED
      BY <2>1, <2>2, PacketNumbers
  <1>5. ASSUME NEW m \in 1 .. N, NEW n \in 1 .. N, m < n
        PROVE  q[m].key =< q[n].key /\ (q[m].key = q[n].key => q[n].ts =< q[m].ts)
    <2>1. ~ Before(q[n], q[m])
      BY <1>3, <1>4, <1>5
    <2> QED
      BY <1>4, <2>1 DEF Before
  <1>6. Sorted(b, p, N, q)
    BY <1>N, <1>2, <1>4, <1>5 DEF Sorted
  <1> QED
    BY <1>6

\* An update of k was among the first n entries.
Met(q, n, k) == \E m \in 1 .. n : IsUpdate(q[m]) /\ q[m].key = k

\* The loop after n turns.
Halfway(b, p, idx, N, q, n, s) ==
    /\ s \in Loop(N)
    /\ s.last_key = IF n = 0 THEN 0 ELSE q[n].key
    /\ \A k \in Keys : s.idx[k] = IF Met(q, n, k) THEN NewestLog(b, k) ELSE idx[k]
    /\ \A m \in 1 .. n : ~ IsUpdate(q[m]) =>
           s.out[p[m]].log = IF Updates(b, q[m].key) = {} THEN idx[q[m].key]
                             ELSE NewestLog(b, q[m].key)

\* A turn of the loop keeps Halfway.
LEMMA HalfwayTurn ==
    ASSUME NEW b, Requests(b), Ordered(b), NEW p, NEW idx, NEW N, NEW q, Sorted(b, p, N, q),
           NEW n \in Nat, n < N, NEW s, Halfway(b, p, idx, N, q, n, s)
    PROVE  Halfway(b, p, idx, N, q, n + 1, Apply(b, s, p[n + 1]))
  <1>n. /\ n + 1 \in 1 .. N /\ N \in Nat /\ N = Len(b) /\ \A m \in 1 .. n : m \in 1 .. N /\ m < n + 1
        /\ n + 1 # 0
    BY DEF Sorted
  <1>i. PICK i \in 1 .. N : i = p[n + 1]
    BY <1>n DEF Sorted
  <1>m. PICK r : r = b[i]
    OBVIOUS
  <1>t. PICK t : t = Apply(b, s, i)
    OBVIOUS
  <1>k. PICK kk : kk = r.key
    OBVIOUS
  <1>1. /\ q[n + 1] = r /\ r \in RawKvMsg /\ kk \in Keys /\ kk \in Nat /\ kk # 0 /\ r.ts \in Nat
    <2>1. q[n + 1] = r /\ r \in RawKvMsg /\ kk # 0
      BY <1>n, <1>i, <1>m, <1>k DEF Sorted
    <2> QED
      BY <1>k, <2>1, PacketNumbers
  <1>2. /\ t \in Loop(N) /\ t.last_key = kk
        /\ \A k \in Keys : t.idx[k] = IF IsUpdate(r) /\ k = kk /\ k # s.last_key
                                      THEN r.log ELSE s.idx[k]
        /\ \A j \in 1 .. N : j # i => t.out[j] = s.out[j]
        /\ ~ IsUpdate(r) => t.out[i].log = s.idx[kk]
    <2>1. s \in Loop(Len(b)) /\ i \in 1 .. Len(b)
      BY <1>n DEF Halfway
    <2>2. /\ t \in Loop(Len(b)) /\ t.last_key = b[i].key
          /\ \A k \in Keys :
                 t.idx[k] = IF IsUpdate(b[i]) /\ k = b[i].key /\ k # s.last_key
                            THEN b[i].log ELSE s.idx[k]
          /\ \A j \in 1 .. Len(b) : j # i => t.out[j] = s.out[j]
          /\ ~ IsUpdate(b[i]) => t.out[i].log = s.idx[b[i].key]
      BY <1>t, <2>1, TurnIs
    <2> QED
      BY <1>n, <1>m, <1>k, <2>2
  <1>3. \A m \in 1 .. n : p[m] # i /\ p[m] \in 1 .. N
    <2>1. \A m \in 1 .. n : m \in 1 .. N /\ m # n + 1
      BY <1>n
    <2>2. \A m \in 1 .. N : p[m] = p[n + 1] => m = n + 1
      BY <1>n DEF Sorted
    <2>3. \A m \in 1 .. N : p[m] \in 1 .. N
      BY DEF Sorted
    <2> QED
      BY <1>i, <2>1, <2>2, <2>3
  <1>4. \A k : Met(q, n + 1, k) <=> Met(q, n, k) \/ (IsUpdate(r) /\ k = kk)
    <2>1. \A m \in 1 .. n + 1 : m \in 1 .. n \/ m = n + 1
      OBVIOUS
    <2>2. n + 1 \in 1 .. n + 1 /\ \A m \in 1 .. n : m \in 1 .. n + 1
      OBVIOUS
    <2> QED
      BY <1>1, <1>k, <2>1, <2>2 DEF Met
  \* An entry of the key among the first n means that the last of them is one.
  <1>5. ASSUME NEW m \in 1 .. n, q[m].key = kk
        PROVE  n # 0 /\ q[n].key = kk /\ n \in 1 .. N
    <2>1. n # 0 /\ n \in 1 .. N /\ n < n + 1 /\ m \in 1 .. N /\ (m = n \/ m < n)
      BY <1>n
    <2>2. q[n].key =< kk /\ q[n].key \in Nat
      BY <1>1, <1>k, <1>n, <2>1 DEF Sorted
    <2>3. kk =< q[n].key
      BY <1>1, <1>5, <2>1, <2>2 DEF Sorted
    <2> QED
      BY <1>1, <2>1, <2>2, <2>3
  <1>d. DOMAIN b = 1 .. N /\ i \in DOMAIN b
    BY <1>n DEF Requests
  \* Where an update of the key stands.
  <1>6. ASSUME NEW j \in Updates(b, kk)
        PROVE  \E o \in 1 .. N : p[o] = j /\ q[o] = b[j] /\ IsUpdate(q[o]) /\ q[o].key = kk
    <2>1. j \in 1 .. N /\ IsUpdate(b[j]) /\ b[j].key = kk
      BY <1>d DEF Updates
    <2>2. PICK o \in 1 .. N : p[o] = j
      BY <2>1 DEF Sorted
    <2>3. q[o] = b[j]
      BY <2>2 DEF Sorted
    <2> QED
      BY <2>1, <2>2, <2>3
  <1>7. CASE IsUpdate(r) /\ kk # s.last_key
    <2>1. \A m \in 1 .. n : q[m].key # kk
      BY <1>5, <1>7 DEF Halfway
    <2>2. i \in Updates(b, kk)
      BY <1>d, <1>k, <1>m, <1>7 DEF Updates
    <2>3. ASSUME NEW j \in Updates(b, kk)
          PROVE  b[j].ts <= b[i].ts
      <3>1. PICK o \in 1 .. N : q[o] = b[j] /\ q[o].key = kk
        BY <1>6
      <3>2. o \notin 1 .. n
        BY <2>1, <3>1
      <3>3. o = n + 1 \/ n + 1 < o
        BY <1>n, <3>2
      <3>4. CASE o = n + 1
        BY <1>1, <1>m, <3>1, <3>4
      <3>5. CASE n + 1 < o
        <4>1. q[n + 1].key = q[o].key => q[o].ts =< q[n + 1].ts
          BY <1>n, <3>5 DEF Sorted
        <4> QED
          BY <1>1, <1>k, <1>m, <3>1, <4>1
      <3> QED
        BY <3>3, <3>4, <3>5
    <2>4. NewestLog(b, kk) = r.log
      BY <1>m, <2>2, <2>3, NewestIs
    <2>5. \A k \in Keys : t.idx[k] = IF Met(q, n + 1, k) THEN NewestLog(b, k) ELSE idx[k]
      BY <1>2, <1>4, <1>7, <2>4 DEF Halfway
    <2>6. ASSUME NEW m \in 1 .. n + 1, ~ IsUpdate(q[m])
          PROVE  t.out[p[m]].log = IF Updates(b, q[m].key) = {} THEN idx[q[m].key]
                                   ELSE NewestLog(b, q[m].key)
      <3>1. m \in 1 .. n
        BY <1>1, <1>7, <2>6
      <3> QED
        BY <1>2, <1>3, <2>6, <3>1 DEF Halfway
    <2> QED
      BY <1>1, <1>2, <1>i, <1>k, <1>n, <1>t, <2>5, <2>6 DEF Halfway
  <1>8. CASE IsUpdate(r) /\ kk = s.last_key
    <2>1. n # 0 /\ q[n].key = kk /\ n \in 1 .. n /\ n \in 1 .. N
      BY <1>1, <1>8, <1>n DEF Halfway
    <2>2. IsUpdate(q[n])
      <3>1. r.ts =< q[n].ts /\ q[n].ts \in Nat
        BY <1>1, <1>k, <1>n, <2>1 DEF Sorted
      <3>2. p[n] \in DOMAIN b /\ b[p[n]] = q[n]
        BY <1>d, <2>1 DEF Sorted
      <3>3. ~ IsUpdate(q[n]) => q[n].ts < r.ts
        BY <1>8, <1>d, <1>k, <1>m, <2>1, <3>2 DEF Ordered
      <3> QED
        BY <1>1, <3>1, <3>3
    <2>3. Met(q, n, kk)
      BY <2>1, <2>2 DEF Met
    <2>5. \A k \in Keys : t.idx[k] = IF Met(q, n + 1, k) THEN NewestLog(b, k) ELSE idx[k]
      BY <1>2, <1>4, <1>8, <2>3 DEF Halfway
    <2>6. ASSUME NEW m \in 1 .. n + 1, ~ IsUpdate(q[m])
          PROVE  t.out[p[m]].log = IF Updates(b, q[m].key) = {} THEN idx[q[m].key]
                                   ELSE NewestLog(b, q[m].key)
      <3>1. m \in 1 .. n
        BY <1>1, <1>8, <2>6
      <3> QED
        BY <1>2, <1>3, <2>6, <3>1 DEF Halfway
    <2> QED
      BY <1>1, <1>2, <1>i, <1>k, <1>n, <1>t, <2>5, <2>6 DEF Halfway
  <1>9. CASE ~ IsUpdate(r)
    <2>1. ASSUME NEW j \in Updates(b, kk)
          PROVE  Met(q, n, kk)
      <3>1. PICK o \in 1 .. N : p[o] = j /\ q[o] = b[j] /\ IsUpdate(q[o]) /\ q[o].key = kk
        BY <1>6
      <3>2. r.ts < q[o].ts /\ q[o].ts \in Nat
        <4>1. j \in DOMAIN b
          BY DEF Updates
        <4>2. r.ts < q[o].ts
          BY <1>9, <1>d, <1>k, <1>m, <3>1, <4>1 DEF Ordered
        <4> QED
          BY <3>1, <4>2 DEF Sorted
      <3>3. o # n + 1
        BY <1>1, <1>9, <3>1
      <3>4. ~ (n + 1 < o)
        <4>1. n + 1 < o /\ q[n + 1].key = q[o].key => q[o].ts =< q[n + 1].ts
          BY <1>n DEF Sorted
        <4> QED
          BY <1>1, <1>k, <3>1, <3>2, <4>1
      <3>5. o \in 1 .. n
        BY <1>n, <3>3, <3>4
      <3> QED
        BY <3>1, <3>5 DEF Met
    <2>2. ASSUME Met(q, n, kk)
          PROVE  Updates(b, kk) # {}
      <3>1. PICK o \in 1 .. n : IsUpdate(q[o]) /\ q[o].key = kk
        BY <2>2 DEF Met
      <3>2. p[o] \in DOMAIN b /\ b[p[o]] = q[o]
        BY <1>d, <1>n DEF Sorted
      <3>3. p[o] \in Updates(b, kk)
        BY <3>1, <3>2 DEF Updates
      <3> QED
        BY <3>3
    <2>3. t.out[i].log = IF Updates(b, kk) = {} THEN idx[kk] ELSE NewestLog(b, kk)
      BY <1>1, <1>2, <1>9, <2>1, <2>2 DEF Halfway
    <2>5. \A k \in Keys : t.idx[k] = IF Met(q, n + 1, k) THEN NewestLog(b, k) ELSE idx[k]
      BY <1>2, <1>4, <1>9 DEF Halfway
    <2>6. ASSUME NEW m \in 1 .. n + 1, ~ IsUpdate(q[m])
          PROVE  t.out[p[m]].log = IF Updates(b, q[m].key) = {} THEN idx[q[m].key]
                                   ELSE NewestLog(b, q[m].key)
      <3>1. CASE m = n + 1
        BY <1>1, <1>i, <1>k, <2>3, <3>1
      <3>2. CASE m \in 1 .. n
        BY <1>2, <1>3, <2>6, <3>2 DEF Halfway
      <3> QED
        BY <3>1, <3>2
    <2> QED
      BY <1>1, <1>2, <1>i, <1>k, <1>n, <1>t, <2>5, <2>6 DEF Halfway
  <1> QED
    BY <1>7, <1>8, <1>9

(***************************************************************************)
(* WalkEffect: sorting the batch and letting only the first entry of each  *)
(* key touch the index (server_batch_CPC) leaves for every key the newest  *)
(* update, and answers the reads with that, for batches of any length and  *)
(* every result of the unstable std::sort.                                 *)
(***************************************************************************)
THEOREM WalkEffect ==
    ASSUME NEW b, Requests(b), Ordered(b), \A j \in DOMAIN b : b[j].key # 0,
           NEW p \in SortOrders(b), NEW idx \in [Keys -> LogIds \cup {NoLog}]
    PROVE  LET w == Walk(b, p, idx) IN
           /\ w.idx = BatchEffect(b, idx)
           /\ \A j \in DOMAIN b : b[j].op = ReadIndexReq =>
                  w.out[j].log = BatchEffect(b, idx)[b[j].key]
  <1>q. PICK N, q : Sorted(b, p, N, q)
    BY SortedIs
  <1>b. b \in Seq(RawKvMsg) /\ p \in SetToSeqs(DOMAIN b) /\ N \in Nat /\ N = Len(b)
        /\ DOMAIN b = 1 .. N
    BY <1>q DEF Requests, SortOrders, Sorted
  <1>l. Len(p) = N
    BY <1>b, SortPermutes
  <1>w. PICK w : /\ Walk(b, p, idx) = w[N] /\ w[0] = Start(b, idx)
                 /\ \A n \in Nat : n < N => w[n + 1] = Apply(b, w[n], p[n + 1])
    <2>1. Len(p) \in Nat
      BY <1>b, <1>l
    <2>2. \E w : /\ Walk(b, p, idx) = w[Len(p)]
                 /\ w[0] = Start(b, idx)
                 /\ \A n \in Nat : n < Len(p) => w[n + 1] = Apply(b, w[n], p[n + 1])
      BY <2>1, WalkTurns
    <2> QED
      BY <2>2, <1>l, Zenon
  <1> DEFINE T == { n \in Nat : n =< N => Halfway(b, p, idx, N, q, n, w[n]) }
  <1>1. 0 \in T
    <2>1. b \in [1 .. N -> RawKvMsg]
      BY <1>b
    <2>2. Start(b, idx) \in Loop(N)
      BY <2>1 DEF Start, Loop
    <2>3. Halfway(b, p, idx, N, q, 0, Start(b, idx))
      BY <2>2 DEF Halfway, Start, Met
    <2> QED
      BY <1>w, <2>3
  <1>2. ASSUME NEW n \in Nat, n < N, n \in T
        PROVE  n + 1 \in T
    <2>1. Halfway(b, p, idx, N, q, n, w[n])
      BY <1>2, <1>b
    <2>2. Halfway(b, p, idx, N, q, n + 1, Apply(b, w[n], p[n + 1]))
      BY <1>2, <1>q, <2>1, HalfwayTurn
    <2>3. w[n + 1] = Apply(b, w[n], p[n + 1])
      BY <1>2, <1>w
    <2> QED
      BY <2>2, <2>3
  <1> HIDE DEF T
  <1>3. \A n \in 0 .. N : n \in T
    BY <1>1, <1>2, <1>b, UpTo
  <1>v. PICK v : v = Walk(b, p, idx)
    OBVIOUS
  <1>4. Halfway(b, p, idx, N, q, N, v)
    <2>1. N \in 0 .. N /\ N =< N
      BY <1>b
    <2>2. N \in T
      BY <1>3, <2>1
    <2> QED
      BY <1>v, <1>w, <2>1, <2>2 DEF T
  <1>5. ASSUME NEW k
        PROVE  Met(q, N, k) <=> Updates(b, k) # {}
    <2>1. ASSUME Met(q, N, k) PROVE Updates(b, k) # {}
      <3>1. PICK o \in 1 .. N : IsUpdate(q[o]) /\ q[o].key = k
        BY <2>1 DEF Met
      <3>2. p[o] \in 1 .. N /\ b[p[o]] = q[o]
        BY <1>q DEF Sorted
      <3>3. p[o] \in Updates(b, k)
        BY <1>b, <3>1, <3>2 DEF Updates
      <3> QED
        BY <3>3
    <2>2. ASSUME NEW j \in Updates(b, k) PROVE Met(q, N, k)
      <3>1. j \in 1 .. N /\ IsUpdate(b[j]) /\ b[j].key = k
        BY <1>b DEF Updates
      <3>2. PICK o \in 1 .. N : p[o] = j
        BY <1>q, <3>1 DEF Sorted
      <3>3. q[o] = b[j]
        BY <1>q, <3>2 DEF Sorted
      <3> QED
        BY <3>1, <3>3 DEF Met
    <2> QED
      BY <2>1, <2>2
  <1>e. PICK e : e = BatchEffect(b, idx)
    OBVIOUS
  <1>6. /\ e = [k \in Keys |-> IF Updates(b, k) = {} THEN idx[k] ELSE NewestLog(b, k)]
        /\ \A k \in Keys : e[k] = IF Updates(b, k) = {} THEN idx[k] ELSE NewestLog(b, k)
    BY <1>e DEF BatchEffect
  <1>7. v.idx = e
    <2>1. v.idx \in [Keys -> LogIds \cup {NoLog}]
      BY <1>4 DEF Halfway, Loop
    <2>2. \A k \in Keys : v.idx[k] = e[k]
      BY <1>4, <1>5, <1>6 DEF Halfway
    <2> QED
      BY <1>6, <2>1, <2>2
  <1>8. ASSUME NEW j \in DOMAIN b, b[j].op = ReadIndexReq
        PROVE  v.out[j].log = e[b[j].key]
    <2>1. PICK m \in 1 .. N : p[m] = j
      BY <1>b, <1>q DEF Sorted
    <2>2. q[m] = b[j] /\ q[m].key \in Keys
      BY <1>q, <2>1 DEF Sorted, RawKvMsg
    <2>3. ~ IsUpdate(q[m])
      BY <1>8, <2>2 DEF IsUpdate, MultiCastPkt, UpdateIndexReq, ReadIndexReq
    <2>4. v.out[p[m]].log = IF Updates(b, q[m].key) = {} THEN idx[q[m].key]
                            ELSE NewestLog(b, q[m].key)
      BY <1>4, <2>3 DEF Halfway
    <2> QED
      BY <1>6, <2>1, <2>2, <2>4
  <1> QED
    BY <1>e, <1>v, <1>7, <1>8

-----------------------------------------------------------------------------
(* The store whose index threads have their batch in front of their queue. *)

Queued == [i \in IndexThreads |-> batch[i] \o s2i[i]]

\* KvStore over these queues, and what is proved of it.
K == INSTANCE KvReplyProofs WITH s2i <- Queued

\* The words of the instance are the words of the store.
LEMMA SameSets ==
    /\ K!SwitchKeys = SwitchKeys /\ K!DataThreads = DataThreads
    /\ K!IndexThreads = IndexThreads /\ K!Coros = Coros
    /\ K!NoLog = NoLog /\ K!LogIds = LogIds
  <1>1. /\ K!SwitchKeys = SwitchKeys /\ K!DataThreads = DataThreads
        /\ K!IndexThreads = IndexThreads /\ K!Coros = Coros /\ K!NoLog = NoLog
    BY Zenon
     DEF K!SwitchKeys, SwitchKeys, K!DataThreads, DataThreads, K!IndexThreads,
         IndexThreads, K!Coros, Coros, K!NoLog, NoLog
  <1>2. \A l, d : K!compute_log_id(l, d) = compute_log_id(l, d)
    BY Zenon DEF K!compute_log_id, compute_log_id
  <1>3. K!LogIds = LogIds
    BY <1>1, <1>2 DEF K!LogIds, LogIds
  <1> QED
    BY <1>1, <1>3

\* The opcodes.
LEMMA SameOps ==
    /\ K!AppendReq = AppendReq
    /\ K!AppendReply = AppendReply
    /\ K!ReadLog = ReadLog
    /\ K!ReadReply = ReadReply
    /\ K!ReplySwitch = ReplySwitch
    /\ K!UpdateIndexReq = UpdateIndexReq
    /\ K!UpdateIndexReply = UpdateIndexReply
    /\ K!ReadIndexReq = ReadIndexReq
    /\ K!ReadIndexReply = ReadIndexReply
    /\ K!MultiCastPkt = MultiCastPkt
  BY DEF K!AppendReq, AppendReq, K!AppendReply, AppendReply, K!ReadLog, ReadLog,
         K!ReadReply, ReadReply, K!ReplySwitch, ReplySwitch, K!UpdateIndexReq,
         UpdateIndexReq, K!UpdateIndexReply, UpdateIndexReply, K!ReadIndexReq,
         ReadIndexReq, K!ReadIndexReply, ReadIndexReply, K!MultiCastPkt,
         MultiCastPkt

\* Packets, coroutines and registers.
LEMMA SameTypes ==
    /\ K!RawKvMsg = RawKvMsg /\ K!RpcIds = RpcIds /\ K!KvCtx = KvCtx
    /\ K!Registers = Registers /\ K!Entries = Entries /\ K!Blank = Blank
  <1>1. K!RpcType = RpcType
    BY SameOps DEF K!RpcType, RpcType
  <1>2. K!RpcIds = RpcIds /\ K!Entries = Entries /\ K!Calls = Calls /\ K!NoRpc = NoRpc
        /\ K!Blank = Blank
    BY SameSets DEF K!RpcIds, RpcIds, K!Entries, Entries, K!Calls, Calls, K!NoRpc, NoRpc, K!Blank, Blank
  <1>3. K!RawKvMsg = RawKvMsg
    BY SameSets, <1>1, <1>2, Zenon DEF K!RawKvMsg, RawKvMsg
  <1>4. K!KvCtx = KvCtx /\ K!Registers = Registers
    BY SameSets, <1>2, Zenon DEF K!KvCtx, KvCtx, K!Registers, Registers
  <1> QED
    BY <1>2, <1>3, <1>4

\* The functions of a key.
LEMMA SameKeys ==
    ASSUME NEW k
    PROVE  /\ K!get_switch_key(k) = get_switch_key(k)
           /\ K!get_fingerprint(k) = get_fingerprint(k)
           /\ K!get_data_thread_id_by_key(k) = get_data_thread_id_by_key(k)
           /\ K!get_index_thread_id(k) = get_index_thread_id(k)
           /\ K!logid_2_threadid(k) = logid_2_threadid(k)
           /\ K!logid_2_locallogid(k) = logid_2_locallogid(k)
           /\ K!next_magic(k) = next_magic(k)
           /\ K!get_next_ts(k) = get_next_ts(k)
           /\ K!rpc_id(k) = rpc_id(k)
           /\ \A d : K!compute_log_id(k, d) = compute_log_id(k, d)
  BY Zenon
     DEF K!get_switch_key, get_switch_key, K!get_fingerprint, get_fingerprint,
         K!get_data_thread_id_by_key, get_data_thread_id_by_key,
         K!get_index_thread_id, get_index_thread_id, K!uint32, uint32,
         K!logid_2_threadid, logid_2_threadid, K!logid_2_locallogid,
         logid_2_locallogid, K!next_magic, next_magic, K!get_next_ts, get_next_ts,
         K!rpc_id, rpc_id, K!compute_log_id, compute_log_id

\* The switch.
LEMMA SameSwitch ==
    ASSUME NEW r, NEW m
    PROVE  /\ K!Granted(r, m) = Granted(r, m) /\ K!NewIndex(r, m) = NewIndex(r, m)
           /\ K!DeleteIndex(r, m) = DeleteIndex(r, m)
           /\ K!Hit(r, m) = Hit(r, m) /\ K!LogId(r, m) = LogId(r, m)
           /\ K!Reset = Reset
  BY Zenon
     DEF K!Granted, Granted, K!NewIndex, NewIndex, K!DeleteIndex, DeleteIndex,
         K!Hit, Hit, K!LogId, LogId, K!FwGranted, FwGranted, K!FwNewIndex,
         FwNewIndex, K!FwDeleteIndex, FwDeleteIndex, K!FwHit, FwHit, K!FwLogId,
         FwLogId, K!OwTimely, OwTimely, K!OwGranted, OwGranted, K!OwNewIndex,
         OwNewIndex, K!OwDeleteIndex, OwDeleteIndex, K!Reset, Reset, K!SwitchKeys,
         SwitchKeys, K!NoRpc, NoRpc, K!NoLog, NoLog, K!get_switch_key,
         get_switch_key, K!get_fingerprint, get_fingerprint, K!rpc_id, rpc_id

\* Queues and the packets a client builds.
LEMMA SameCalls ==
    ASSUME NEW c, NEW x
    PROVE  /\ K!put_value(c, x) = put_value(c, x) /\ K!put_index(c, x) = put_index(c, x)
           /\ K!get_index(c, x) = get_index(c, x) /\ K!get_value(c, x) = get_value(c, x)
           /\ \A q : K!Push(q, c, x) = Push(q, c, x) /\ K!Pop(q, c) = Pop(q, c)
  BY SameOps, SameKeys, SameTypes, SameSets, Zenon
     DEF K!put_value, put_value, K!put_index, put_index, K!get_index, get_index,
         K!get_value, get_value, K!Push, Push, K!Pop, Pop

-----------------------------------------------------------------------------
(* The steps of the other threads are steps of the instance. *)

TypeB == TypeOK /\ batch \in [IndexThreads -> Seq(RawKvMsg)]

\* The queue of an index thread with its batch is a queue.
LEMMA QueuedType ==
    ASSUME TypeB
    PROVE  /\ Queued \in [IndexThreads -> Seq(RawKvMsg)]
           /\ \A i \in IndexThreads : /\ Queued[i] = batch[i] \o s2i[i]
                                      /\ batch[i] \in Seq(RawKvMsg)
                                      /\ s2i[i] \in Seq(RawKvMsg)
  <1>1. \A i \in IndexThreads : batch[i] \in Seq(RawKvMsg) /\ s2i[i] \in Seq(RawKvMsg)
    BY DEF TypeB, TypeOK
  <1>2. \A i \in IndexThreads : batch[i] \o s2i[i] \in Seq(RawKvMsg)
    BY <1>1
  <1> QED
    BY <1>1, <1>2 DEF Queued

\* TypeOK of the instance.
LEMMA InstanceType ==
    /\ TypeB => K!TypeOK
    /\ TypeB' => K!TypeOK'
  <1>1. ASSUME TypeB PROVE K!TypeOK
    BY <1>1, QueuedType, SameSets, SameTypes DEF TypeB, TypeOK, K!TypeOK
  <1>2. ASSUME TypeB' PROVE K!TypeOK'
    <2>1. Queued' \in [IndexThreads -> Seq(RawKvMsg)]
      <3>1. \A i \in IndexThreads : batch'[i] \in Seq(RawKvMsg) /\ s2i'[i] \in Seq(RawKvMsg)
        BY <1>2 DEF TypeB, TypeOK
      <3>2. \A i \in IndexThreads : batch'[i] \o s2i'[i] \in Seq(RawKvMsg)
        BY <3>1
      <3> QED
        BY <3>2 DEF Queued
    <2> QED
      BY <1>2, <2>1, SameSets, SameTypes DEF TypeB, TypeOK, K!TypeOK
  <1> QED
    BY <1>1, <1>2

\* Adding to the second of two sequences adds to their concatenation.
LEMMA AppendConcat ==
    ASSUME NEW S, NEW a \in Seq(S), NEW b \in Seq(S), NEW m \in S
    PROVE  a \o Append(b, m) = Append(a \o b, m)
  <1>1. <<m>> \in Seq(S) /\ a \o b \in Seq(S)
    OBVIOUS
  <1>2. Append(b, m) = b \o <<m>> /\ Append(a \o b, m) = (a \o b) \o <<m>>
    BY <1>1, AppendIsConcat
  <1>3. (a \o b) \o <<m>> = a \o (b \o <<m>>)
    BY <1>1, ConcatAssociative
  <1> QED
    BY <1>2, <1>3

\* A packet added to the queue of an index thread is added behind its batch.
LEMMA QueuedPush ==
    ASSUME TypeB, NEW n, NEW m \in RawKvMsg, s2i' = Push(s2i, n, m), batch' = batch
    PROVE  Queued' = K!Push(Queued, n, m)
  <1>1. ASSUME NEW i \in IndexThreads
        PROVE  Queued'[i] = Push(Queued, n, m)[i]
    <2>1. batch[i] \in Seq(RawKvMsg) /\ s2i[i] \in Seq(RawKvMsg) /\ Queued[i] = batch[i] \o s2i[i]
      BY QueuedType
    <2>2. Queued'[i] = batch[i] \o s2i'[i]
      BY DEF Queued
    <2>3. CASE i = n
      <3>1. s2i'[i] = Append(s2i[i], m) /\ Push(Queued, n, m)[i] = Append(Queued[i], m)
        BY <2>3, QueuedType DEF Push, TypeB, TypeOK
      <3>2. batch[i] \o Append(s2i[i], m) = Append(batch[i] \o s2i[i], m)
        <4>1. PICK a \in Seq(RawKvMsg), b \in Seq(RawKvMsg) : a = batch[i] /\ b = s2i[i]
          BY <2>1
        <4>2. a \o Append(b, m) = Append(a \o b, m)
          BY AppendConcat
        <4> QED
          BY <4>1, <4>2
      <3> QED
        BY <2>1, <2>2, <3>1, <3>2
    <2>4. CASE i # n
      BY <2>1, <2>2, <2>4, QueuedType DEF Push, TypeB, TypeOK
    <2> QED
      BY <2>3, <2>4
  <1>2. Queued' = [i \in IndexThreads |-> Queued'[i]]
    BY DEF Queued
  <1>3. Push(Queued, n, m) = [i \in IndexThreads |-> Push(Queued, n, m)[i]]
    BY QueuedType DEF Push
  <1> QED
    BY <1>1, <1>2, <1>3, SameCalls

\* Nothing happens to the queues of the index threads.
LEMMA QueuedFrame ==
    ASSUME UNCHANGED <<s2i, batch>>
    PROVE  Queued' = Queued
  BY DEF Queued

\* A request.
LEMMA RequestMaps ==
    ASSUME TypeB, batch' = batch, NEW c \in Coros, NEW k \in Keys, kEnumW(c, k) \/ kEnumR(c, k)
    PROVE  K!Next
  <1>1. K!kEnumW(c, k) \/ K!kEnumR(c, k)
    <2>1. \A call : NewRequest(c, k, call) => K!NewRequest(c, k, call)
      <3>1. K!next_magic(ctx[c].magic) = next_magic(ctx[c].magic)
        BY SameKeys
      <3> QED
        BY <3>1, Zenon DEF NewRequest, K!NewRequest
    <2>2. /\ K!put_value(c, ctx'[c]) = put_value(c, ctx'[c])
          /\ K!get_index(c, ctx'[c]) = get_index(c, ctx'[c])
          /\ \A q, m : K!Push(q, c[1], m) = Push(q, c[1], m)
      BY SameCalls
    <2>3. CASE kEnumW(c, k)
      BY <2>1, <2>2, <2>3, QueuedFrame DEF kEnumW, K!kEnumW
    <2>4. CASE kEnumR(c, k)
      BY <2>1, <2>2, <2>4, QueuedFrame DEF kEnumR, K!kEnumR
    <2> QED
      BY <2>3, <2>4
  <1> QED
    BY <1>1, SameSets DEF K!Next

\* A coroutine is resumed.
LEMMA ClientReplyMaps ==
    ASSUME TypeB, batch' = batch, NEW t \in CThreads, ClientReply(t)
    PROVE  K!Next
  <1>1. K!ClientReply(t)
    <2>m. PICK m : m = Head(s2c[t])
      OBVIOUS
    <2>0. Resume(t) => K!Resume(t)
      BY QueuedFrame, SameCalls DEF Resume, K!Resume
    <2>1. PutValueReturns(t, m) => K!PutValueReturns(t, m)
      <3>1. /\ K!put_index(m.cli, ctx'[m.cli]) = put_index(m.cli, ctx'[m.cli])
            /\ \A x : K!Push(c2s, t, x) = Push(c2s, t, x)
            /\ K!MultiCastPkt = MultiCastPkt
        BY SameCalls, SameOps
      <3> QED
        BY <2>0, <3>1, Zenon DEF PutValueReturns, K!PutValueReturns
    <2>2. PutIndexReturns(t, m) => K!PutIndexReturns(t, m)
      BY <2>0 DEF PutIndexReturns, K!PutIndexReturns
    <2>3. GetIndexReturns(t, m) => K!GetIndexReturns(t, m)
      BY <2>0, SameCalls, SameSets, ZenonT(30) DEF GetIndexReturns, K!GetIndexReturns
    <2>4. GetValueReturns(t, m) => K!GetValueReturns(t, m)
      BY <2>0 DEF GetValueReturns, K!GetValueReturns
    <2> QED
      BY <2>m, <2>1, <2>2, <2>3, <2>4 DEF ClientReply, K!ClientReply
  <1> QED
    BY <1>1 DEF K!Next

\* A data thread serves a packet.
LEMMA DataServerMaps ==
    ASSUME TypeB, batch' = batch, NEW d \in DataThreads, DataServer(d)
    PROVE  K!Next
  <1>1. K!DataServer(d)
    <2>m. PICK m : m = Head(s2d[d])
      OBVIOUS
    <2>1. DataAppend(d, m) => K!DataAppend(d, m)
      <3>1. /\ K!get_switch_key(m.key) = get_switch_key(m.key)
            /\ \A x : K!get_next_ts(x) = get_next_ts(x)
            /\ \A x : K!Push(d2s, d, x) = Push(d2s, d, x)
            /\ K!compute_log_id(pos[d], d) = compute_log_id(pos[d], d)
            /\ K!AppendReq = AppendReq /\ K!AppendReply = AppendReply /\ K!Blank = Blank
        BY SameCalls, SameOps, SameKeys, SameTypes
      <3>2. \A s : [tss EXCEPT ![s] = K!get_next_ts(@)] = [tss EXCEPT ![s] = get_next_ts(@)]
        BY <3>1
      <3> QED
        BY <3>1, <3>2, Zenon DEF DataAppend, K!DataAppend
    <2>2. DataReadLog(d, m) => K!DataReadLog(d, m)
      BY SameCalls, SameOps, SameKeys DEF DataReadLog, K!DataReadLog, dataVars, K!dataVars
    <2> QED
      BY <2>m, <2>1, <2>2, QueuedFrame, SameCalls DEF DataServer, K!DataServer
  <1> QED
    BY <1>1, SameSets DEF K!Next

\* The switch forwards a packet of a client,
LEMMA SwitchClientMaps ==
    ASSUME TypeB, batch' = batch, NEW t \in CThreads, SwitchClient(t)
    PROVE  K!Next
  <1>m. PICK m : m = Head(c2s[t])
    OBVIOUS
  <1>t. m \in RawKvMsg
    <2>1. c2s[t] \in Seq(RawKvMsg) /\ c2s[t] # <<>>
      BY DEF SwitchClient, TypeB, TypeOK
    <2> QED
      BY <1>m, <2>1
  <1>1. s2i' = s2i => Queued' = Queued
    BY QueuedFrame
  <1>2. s2i' = Push(s2i, m.port, m) => Queued' = K!Push(Queued, m.port, m)
    BY <1>t, QueuedPush
  <1>3. K!SwitchClient(t)
    BY <1>m, <1>1, <1>2, SameCalls, SameOps, SameSwitch DEF SwitchClient, K!SwitchClient
  <1> QED
    BY <1>3 DEF K!Next

\* of a data thread
LEMMA SwitchDataMaps ==
    ASSUME TypeB, batch' = batch, NEW d \in DataThreads, SwitchData(d)
    PROVE  K!Next
  <1>m. PICK m : m = Head(d2s[d])
    OBVIOUS
  <1>n. PICK n : n = [m EXCEPT !.op = MultiCastPkt]
    OBVIOUS
  <1>t. n \in RawKvMsg
    <2>1. d2s[d] \in Seq(RawKvMsg) /\ d2s[d] # <<>>
      BY DEF SwitchData, TypeB, TypeOK
    <2>2. m \in RawKvMsg
      BY <1>m, <2>1
    <2> QED
      BY <1>n, <2>2 DEF RawKvMsg, RpcType
  <1>1. s2i' = s2i => Queued' = Queued
    BY QueuedFrame
  <1>2. s2i' = Push(s2i, m.ixp, n) => Queued' = K!Push(Queued, m.ixp, n)
    BY <1>t, QueuedPush
  <1>3. K!SwitchData(d)
    BY <1>m, <1>n, <1>1, <1>2, SameCalls, SameOps, SameSwitch DEF SwitchData, K!SwitchData
  <1> QED
    BY <1>3, SameSets DEF K!Next

\* or of an index thread.
LEMMA SwitchIndexMaps ==
    ASSUME TypeB, batch' = batch, NEW i \in IndexThreads, SwitchIndex(i)
    PROVE  K!Next
  <1>1. K!SwitchIndex(i)
    BY QueuedFrame, SameCalls, SameOps, SameSwitch DEF SwitchIndex, K!SwitchIndex
  <1> QED
    BY <1>1, SameSets DEF K!Next

-----------------------------------------------------------------------------
(* A poll of an index thread. *)

\* The index threads are sent index requests only.
PollOps == \A i \in IndexThreads : Requests(Queued[i])

\* What a poll leaves alone.
Rest == <<ctx, c2s, s2c, d2s, s2d, regs, kv, pos, tss, nreq>>

\* Thread i has answered the batch b, which was in front of its queue.
Applied(i, b, p) ==
    /\ Requests(b) /\ p \in SortOrders(b) /\ b # <<>>
    /\ Queued[i] = b \o Queued'[i]
    /\ \A n \in IndexThreads : n # i => Queued'[n] = Queued[n] /\ i2s'[n] = i2s[n]
    /\ i2s'[i] = i2s[i] \o Walk(b, p, index).out
    /\ i2s' \in [IndexThreads -> Seq(RawKvMsg)]
    /\ index' = Walk(b, p, index).idx
    /\ UNCHANGED Rest

\* The length of a concatenation.
LEMMA LenConcat ==
    ASSUME NEW S, NEW a \in Seq(S), NEW b \in Seq(S)
    PROVE  Len(a \o b) = Len(a) + Len(b) /\ a \o b \in Seq(S)
  OBVIOUS

\* A poll cuts the queue s after n packets.
Cut(s, n, q, r) ==
    n \in 1 .. Len(s) /\ q = SubSeq(s, 1, n) /\ r = SubSeq(s, n + 1, Len(s))

\* What a poll takes from the queue of the thread is added to the batch.
LEMMA PollSplits ==
    ASSUME NEW a \in Seq(RawKvMsg), NEW s \in Seq(RawKvMsg), NEW n, NEW q, NEW r,
           Cut(s, n, q, r)
    PROVE  /\ q \in Seq(RawKvMsg) /\ r \in Seq(RawKvMsg)
           /\ a \o q \in Seq(RawKvMsg) /\ a \o q # <<>>
           /\ a \o s = (a \o q) \o r
  <1>0. n \in 1 .. Len(s) /\ q = SubSeq(s, 1, n) /\ r = SubSeq(s, n + 1, Len(s))
    BY DEF Cut
  <1>1. q \in Seq(RawKvMsg) /\ r \in Seq(RawKvMsg) /\ Len(q) = n /\ Len(r) = Len(s) - n
    BY <1>0
  <1>t. q \in Seq(RawKvMsg) /\ r \in Seq(RawKvMsg)
    BY <1>1
  <1>2. s = q \o r
    <2>0. Len(q \o r) = Len(q) + Len(r) /\ q \o r \in Seq(RawKvMsg)
      BY <1>t, LenConcat
    <2>1. Len(q \o r) = Len(s)
      BY <1>1, <2>0
    <2>2. ASSUME NEW j \in 1 .. Len(s) PROVE (q \o r)[j] = s[j]
      BY <1>0, <1>1
    <2> QED
      BY <2>0, <2>1, <2>2, SeqEqual
  <1>3. (a \o q) \o r = a \o (q \o r)
    <2>1. ASSUME NEW x \in Seq(RawKvMsg), NEW y \in Seq(RawKvMsg)
          PROVE  (a \o x) \o y = a \o (x \o y)
      BY ConcatAssociative
    <2> QED
      BY <1>1, <2>1, Zenon
  <1>4. a \o q \in Seq(RawKvMsg) /\ a \o q # <<>>
    <2>1. a \o q \in Seq(RawKvMsg) /\ Len(a \o q) = Len(a) + Len(q) /\ Len(a) \in Nat
      BY <1>t, LenConcat
    <2>2. Len(a \o q) # 0
      BY <1>0, <1>1, <2>1
    <2> QED
      BY <2>1, <2>2
  <1> QED
    BY <1>1, <1>2, <1>3, <1>4, Zenon

\* The front of a queue of requests is a batch of requests.
LEMMA FrontRequests ==
    ASSUME NEW q, NEW b \in Seq(RawKvMsg), NEW r \in Seq(RawKvMsg), q = b \o r, Requests(q)
    PROVE  Requests(b) /\ Requests(r)
  <1>1. \A j \in DOMAIN b : j \in DOMAIN q /\ q[j] = b[j]
    OBVIOUS
  <1>2. \A j \in DOMAIN r : j + Len(b) \in DOMAIN q /\ q[j + Len(b)] = r[j]
    OBVIOUS
  <1> QED
    BY <1>1, <1>2 DEF Requests

\* A poll leaves the batch to the next turn, which the instance does not see, or
\* applies it.
LEMMA PollIs ==
    ASSUME TypeB, PollOps, NEW i \in IndexThreads, IndexPoll(i)
    PROVE  /\ TypeB'
           /\ \/ UNCHANGED K!vars
              \/ \E b, p : Applied(i, b, p)
  <1>n. PICK n \in 1 .. kMaxWcCnt :
            LET q == SubSeq(s2i[i], 1, n)
                b == batch[i] \o q
            IN  /\ n <= Len(s2i[i])
                /\ s2i' = [s2i EXCEPT ![i] = SubSeq(@, n + 1, Len(@))]
                /\ \/ /\ batch' = [batch EXCEPT ![i] = b]
                      /\ UNCHANGED <<index, i2s>>
                   \/ /\ \E p \in SortOrders(b) :
                            LET w == Walk(b, p, index)
                            IN  index' = w.idx /\ i2s' = [i2s EXCEPT ![i] = @ \o w.out]
                      /\ batch' = [batch EXCEPT ![i] = <<>>]
                /\ UNCHANGED Rest
    BY DEF IndexPoll, Rest
  <1>q. PICK b, r : b = batch[i] \o SubSeq(s2i[i], 1, n) /\ r = SubSeq(s2i[i], n + 1, Len(s2i[i]))
    OBVIOUS
  <1>0. /\ s2i \in [IndexThreads -> Seq(RawKvMsg)] /\ i2s \in [IndexThreads -> Seq(RawKvMsg)]
        /\ batch \in [IndexThreads -> Seq(RawKvMsg)] /\ index \in [Keys -> LogIds \cup {NoLog}]
        /\ s2i[i] \in Seq(RawKvMsg) /\ i2s[i] \in Seq(RawKvMsg) /\ batch[i] \in Seq(RawKvMsg)
        /\ n \in 1 .. Len(s2i[i])
    BY <1>n, BatchAssumption DEF TypeB, TypeOK
  <1>1. b \in Seq(RawKvMsg) /\ b # <<>> /\ r \in Seq(RawKvMsg) /\ Queued[i] = b \o r
    <2>1. PICK a \in Seq(RawKvMsg), s \in Seq(RawKvMsg) : a = batch[i] /\ s = s2i[i]
      BY <1>0
    <2>2. n \in 1 .. Len(s)
      BY <1>0, <2>1
    <2>3. PICK x : x = SubSeq(s, 1, n)
      OBVIOUS
    <2>4. b = a \o x /\ r = SubSeq(s, n + 1, Len(s)) /\ Queued[i] = a \o s
      BY <1>q, <2>1, <2>3, QueuedType
    <2>5. /\ r \in Seq(RawKvMsg) /\ a \o x \in Seq(RawKvMsg) /\ a \o x # <<>>
          /\ a \o s = (a \o x) \o r
      <3>1. Cut(s, n, x, r)
        BY <2>2, <2>3, <2>4 DEF Cut
      <3> QED
        BY <3>1, PollSplits
    <2> QED
      BY <2>4, <2>5
  <1>2. Requests(b)
    BY <1>1, FrontRequests DEF PollOps
  <1>3. /\ s2i' = [s2i EXCEPT ![i] = r] /\ s2i' \in [IndexThreads -> Seq(RawKvMsg)]
        /\ s2i'[i] = r /\ \A x \in IndexThreads : x # i => s2i'[x] = s2i[x]
    BY <1>0, <1>1, <1>n, <1>q
  <1>4. CASE batch' = [batch EXCEPT ![i] = b] /\ UNCHANGED <<index, i2s>> /\ UNCHANGED Rest
    <2>1. batch' \in [IndexThreads -> Seq(RawKvMsg)]
      BY <1>0, <1>1, <1>4
    <2>2. TypeB'
      BY <1>3, <1>4, <2>1 DEF TypeB, TypeOK, Rest
    <2>3. \A x \in IndexThreads : batch'[x] \o s2i'[x] = batch[x] \o s2i[x]
      BY <1>0, <1>1, <1>3, <1>4, QueuedType
    <2>4. Queued' = Queued
      BY <2>3 DEF Queued
    <2> QED
      BY <1>4, <2>2, <2>4 DEF K!vars, Rest
  <1>5. CASE /\ \E p \in SortOrders(b) :
                   LET w == Walk(b, p, index)
                   IN  index' = w.idx /\ i2s' = [i2s EXCEPT ![i] = @ \o w.out]
             /\ batch' = [batch EXCEPT ![i] = <<>>] /\ UNCHANGED Rest
    <2>p. PICK p \in SortOrders(b) : LET w == Walk(b, p, index)
                   IN  index' = w.idx /\ i2s' = [i2s EXCEPT ![i] = @ \o w.out]
      BY <1>5
    <2>1. p \in SetToSeqs(DOMAIN b)
      BY DEF SortOrders
    <2>2. /\ Walk(b, p, index).idx \in [Keys -> LogIds \cup {NoLog}]
          /\ Walk(b, p, index).out \in Seq(RawKvMsg)
      BY <1>0, <1>2, <2>1, WalkAnswers
    <2>3. i2s[i] \o Walk(b, p, index).out \in Seq(RawKvMsg)
      BY <1>0, <2>2
    <2>4. /\ i2s' \in [IndexThreads -> Seq(RawKvMsg)]
          /\ i2s'[i] = i2s[i] \o Walk(b, p, index).out
          /\ \A x \in IndexThreads : x # i => i2s'[x] = i2s[x]
      BY <1>0, <2>p, <2>3
    <2>5. /\ batch' \in [IndexThreads -> Seq(RawKvMsg)] /\ batch'[i] = <<>>
          /\ \A x \in IndexThreads : x # i => batch'[x] = batch[x]
      BY <1>0, <1>5
    <2>6. TypeB'
      BY <1>3, <1>5, <2>p, <2>2, <2>4, <2>5 DEF TypeB, TypeOK, Rest
    <2>7. Queued'[i] = r /\ \A x \in IndexThreads : x # i => Queued'[x] = Queued[x]
      <3>1. \A x \in IndexThreads : Queued'[x] = batch'[x] \o s2i'[x]
        BY DEF Queued
      <3>2. <<>> \o r = r
        BY <1>1
      <3> QED
        BY <1>3, <2>5, <3>1, <3>2, QueuedType
    <2>8. Applied(i, b, p)
      BY <1>1, <1>2, <1>5, <2>p, <2>4, <2>7 DEF Applied
    <2> QED
      BY <2>6, <2>8
  <1> QED
    BY <1>n, <1>q, <1>4, <1>5

-----------------------------------------------------------------------------
(* Every step. *)

\* A step is a step of the instance, or applies a batch.
LEMMA StepIs ==
    ASSUME TypeB, PollOps, [NextB]_varsB
    PROVE  /\ TypeB'
           /\ \/ [K!Next]_(K!vars)
              \/ \E i \in IndexThreads : \E b, p : Applied(i, b, p)
  <1>1. CASE UNCHANGED varsB
    <2>1. Queued' = Queued
      BY <1>1 DEF varsB, vars, Queued
    <2> QED
      BY <1>1, <2>1 DEF varsB, vars, K!vars, TypeB, TypeOK
  <1>2. ASSUME NEW i \in IndexThreads, IndexPoll(i)
        PROVE  /\ TypeB'
               /\ \/ [K!Next]_(K!vars)
                  \/ \E n \in IndexThreads : \E b, p : Applied(n, b, p)
    BY <1>2, PollIs
  <1>3. ASSUME batch' = batch,
               \/ \E c \in Coros, k \in Keys : kEnumW(c, k) \/ kEnumR(c, k)
               \/ \E t \in CThreads : ClientReply(t) \/ SwitchClient(t)
               \/ \E d \in DataThreads : DataServer(d) \/ SwitchData(d)
               \/ \E i \in IndexThreads : SwitchIndex(i)
        PROVE  TypeB' /\ K!Next
    <2>1. Next
      BY <1>3 DEF Next
    <2>2. TypeB'
      BY <1>3, <2>1, NextType DEF TypeB
    <2>3. K!Next
      BY <1>3, RequestMaps, ClientReplyMaps, SwitchClientMaps, DataServerMaps,
         SwitchDataMaps, SwitchIndexMaps
    <2> QED
      BY <2>2, <2>3
  <1> QED
    BY <1>1, <1>2, <1>3 DEF NextB

\* A request added to a queue of requests.
LEMMA PushRequests ==
    ASSUME TypeB, PollOps, NEW n, NEW m \in RawKvMsg, m.op \in IndexOps,
           s2i' = Push(s2i, n, m), batch' = batch
    PROVE  PollOps'
  <1>1. Queued' = Push(Queued, n, m) /\ Queued \in [IndexThreads -> Seq(RawKvMsg)]
    BY QueuedPush, QueuedType, SameCalls
  <1>2. ASSUME NEW i \in IndexThreads PROVE Requests(Queued'[i])
    <2>1. Queued[i] \in Seq(RawKvMsg) /\ Requests(Queued[i])
      BY <1>1 DEF PollOps
    <2>2. CASE i = n
      <3>1. Queued'[i] = Append(Queued[i], m)
        BY <1>1, <2>2 DEF Push
      <3>2. PICK q \in Seq(RawKvMsg) : q = Queued[i]
        BY <2>1
      <3>3. /\ Append(q, m) \in Seq(RawKvMsg)
            /\ \A j \in DOMAIN Append(q, m) :
                   (j \in DOMAIN q /\ Append(q, m)[j] = q[j]) \/ Append(q, m)[j] = m
        OBVIOUS
      <3> QED
        BY <2>1, <3>1, <3>2, <3>3 DEF Requests
    <2>3. CASE i # n
      BY <1>1, <2>1, <2>3 DEF Push
    <2> QED
      BY <2>2, <2>3
  <1> QED
    BY <1>2 DEF PollOps

\* Every step sends an index thread nothing but requests.
LEMMA PollOpsNext ==
    ASSUME TypeB, PollOps, [NextB]_varsB
    PROVE  PollOps'
  <1>0. ASSUME UNCHANGED <<s2i, batch>> PROVE PollOps'
    BY <1>0, QueuedFrame DEF PollOps
  <1>1. CASE UNCHANGED varsB
    BY <1>0, <1>1 DEF varsB, vars
  <1>2. ASSUME NEW i \in IndexThreads, IndexPoll(i) PROVE PollOps'
    <2>1. CASE UNCHANGED K!vars
      BY <2>1 DEF K!vars, PollOps
    <2>2. ASSUME NEW b, NEW p, Applied(i, b, p) PROVE PollOps'
      <3>t. TypeB'
        BY <1>2, PollIs
      <3>1. Queued'[i] \in Seq(RawKvMsg)
        <4>1. batch'[i] \in Seq(RawKvMsg) /\ s2i'[i] \in Seq(RawKvMsg)
          BY <3>t DEF TypeB, TypeOK
        <4>2. batch'[i] \o s2i'[i] \in Seq(RawKvMsg)
          BY <4>1
        <4> QED
          BY <4>2 DEF Queued
      <3>2. b \in Seq(RawKvMsg) /\ Queued[i] = b \o Queued'[i] /\ Requests(Queued[i])
        BY <2>2 DEF Applied, Requests, PollOps
      <3>3. PICK q, r \in Seq(RawKvMsg) : q = Queued[i] /\ r = Queued'[i]
        BY <3>1, <3>2 DEF Requests
      <3>4. Requests(r)
        BY <3>2, <3>3, FrontRequests
      <3> QED
        BY <2>2, <3>3, <3>4 DEF Applied, PollOps
    <2> QED
      BY <1>2, <2>1, <2>2, PollIs
  <1>3. ASSUME batch' = batch, NEW t \in CThreads, SwitchClient(t) PROVE PollOps'
    <2>1. PICK m \in RawKvMsg : m = Head(c2s[t])
      BY <1>3, PopType DEF SwitchClient, TypeB, TypeOK
    <2>2. s2i' = s2i \/ (m.op \in IndexOps /\ s2i' = Push(s2i, m.port, m))
      BY <1>3, <2>1 DEF SwitchClient, IndexOps
    <2> QED
      BY <1>0, <1>3, <2>2, PushRequests
  <1>4. ASSUME batch' = batch, NEW d \in DataThreads, SwitchData(d) PROVE PollOps'
    <2>1. PICK m \in RawKvMsg : m = Head(d2s[d])
      BY <1>4, PopType DEF SwitchData, TypeB, TypeOK
    <2>2. PICK n : n = [m EXCEPT !.op = MultiCastPkt]
      OBVIOUS
    <2>3. n \in RawKvMsg /\ n.op \in IndexOps
      BY <2>2 DEF RawKvMsg, RpcType, IndexOps
    <2>4. s2i' = s2i \/ s2i' = Push(s2i, m.ixp, n)
      BY <1>4, <2>1, <2>2 DEF SwitchData
    <2> QED
      BY <1>0, <1>4, <2>3, <2>4, PushRequests
  <1>5. ASSUME batch' = batch,
               \/ \E c \in Coros, k \in Keys : kEnumW(c, k) \/ kEnumR(c, k)
               \/ \E t \in CThreads : ClientReply(t)
               \/ \E d \in DataThreads : DataServer(d)
               \/ \E i \in IndexThreads : SwitchIndex(i)
        PROVE  PollOps'
    <2>1. s2i' = s2i
      BY <1>5 DEF kEnumW, kEnumR, ClientReply, PutValueReturns, PutIndexReturns,
         GetIndexReturns, GetValueReturns, Resume, DataServer, SwitchIndex
    <2> QED
      BY <1>0, <1>5, <2>1
  <1> QED
    BY <1>1, <1>2, <1>3, <1>4, <1>5 DEF NextB

-----------------------------------------------------------------------------
(* Where the packets are after a batch has been applied. *)

\* The N answers of thread i were followed by L more, out, to the L packets of b.
Placed(i, b, L, N, out) ==
    /\ L = Len(b) /\ N = Len(i2s[i]) /\ DOMAIN b = 1 .. L /\ DOMAIN out = 1 .. L
    /\ \A j \in 1 .. L : Answers(b[j], out[j])
    /\ \A j \in DOMAIN Queued[i] : /\ j \in Nat
                                   /\ j =< L => j \in 1 .. L /\ Queued[i][j] = b[j]
                                   /\ j > L => /\ j - L \in DOMAIN Queued'[i]
                                               /\ Queued'[i][j - L] = Queued[i][j]
    /\ \A j \in DOMAIN Queued'[i] : /\ j \in Nat /\ j > 0 /\ j + L \in DOMAIN Queued[i]
                                    /\ Queued[i][j + L] = Queued'[i][j]
    /\ \A j \in DOMAIN i2s[i] : j \in DOMAIN i2s'[i] /\ i2s'[i][j] = i2s[i][j]
    /\ \A j \in 1 .. L : /\ N + j \in DOMAIN i2s'[i] /\ i2s'[i][N + j] = out[j]
                         /\ N + j \notin DOMAIN i2s[i]
                         /\ j \in DOMAIN Queued[i] /\ Queued[i][j] = b[j]
    /\ \A j \in DOMAIN i2s'[i] : j \in DOMAIN i2s[i] \/ \E k \in 1 .. L : j = N + k

\* Where a step that applies a batch leaves the packets of its thread.
LEMMA AppliedPlaces ==
    ASSUME TypeB, TypeB', NEW i \in IndexThreads, NEW b, NEW p, Applied(i, b, p)
    PROVE  \E L, N \in Nat, out \in Seq(RawKvMsg) : Placed(i, b, L, N, out)
  <1>1. /\ b \in Seq(RawKvMsg) /\ Requests(b) /\ p \in SetToSeqs(DOMAIN b)
        /\ index \in [Keys -> LogIds \cup {NoLog}] /\ i2s[i] \in Seq(RawKvMsg)
    BY DEF Applied, Requests, SortOrders, TypeB, TypeOK
  <1>2. PICK out : out = Walk(b, p, index).out
    OBVIOUS
  <1>3. out \in Seq(RawKvMsg) /\ Len(out) = Len(b) /\ \A j \in DOMAIN b : Answers(b[j], out[j])
    BY <1>1, <1>2, WalkAnswers
  <1>4. Queued'[i] \in Seq(RawKvMsg)
    <2>1. batch'[i] \in Seq(RawKvMsg) /\ s2i'[i] \in Seq(RawKvMsg)
      BY DEF TypeB, TypeOK
    <2>2. batch'[i] \o s2i'[i] \in Seq(RawKvMsg)
      BY <2>1
    <2> QED
      BY <2>2 DEF Queued
  <1>5. PICK q, r, a, a2 \in Seq(RawKvMsg) :
            q = Queued[i] /\ r = Queued'[i] /\ a = i2s[i] /\ a2 = i2s'[i]
    BY <1>1, <1>4, QueuedType DEF TypeB, TypeOK
  <1>6. q = b \o r /\ a2 = a \o out
    BY <1>2, <1>5 DEF Applied
  <1>7. PICK L, N \in Nat : L = Len(b) /\ N = Len(a)
    BY <1>1
  <1>8. /\ DOMAIN b = 1 .. L /\ DOMAIN out = 1 .. L /\ DOMAIN a = 1 .. N
        /\ DOMAIN r = 1 .. Len(r) /\ Len(r) \in Nat
        /\ DOMAIN q = 1 .. L + Len(r) /\ DOMAIN a2 = 1 .. N + L
    <2>1. /\ DOMAIN b = 1 .. L /\ DOMAIN out = 1 .. L /\ DOMAIN a = 1 .. N
          /\ DOMAIN r = 1 .. Len(r) /\ Len(r) \in Nat
      BY <1>1, <1>3, <1>7
    <2>2. Len(b \o r) = L + Len(r) /\ b \o r \in Seq(RawKvMsg)
      BY <1>1, <1>7, LenConcat
    <2>3. Len(a \o out) = N + L /\ a \o out \in Seq(RawKvMsg)
      <3>1. out \in Seq(RawKvMsg) /\ Len(out) = L
        BY <1>3, <1>7
      <3>2. Len(a \o out) = Len(a) + Len(out) /\ a \o out \in Seq(RawKvMsg)
        BY <3>1, LenConcat
      <3> QED
        BY <1>7, <3>1, <3>2
    <2>4. DOMAIN q = 1 .. L + Len(r) /\ DOMAIN a2 = 1 .. N + L
      BY <1>6, <2>2, <2>3
    <2> QED
      BY <2>1, <2>4
  <1>9. /\ \A j \in DOMAIN q : q[j] = IF j =< L THEN b[j] ELSE r[j - L]
        /\ \A j \in DOMAIN a2 : a2[j] = IF j =< N THEN a[j] ELSE out[j - N]
    BY <1>1, <1>3, <1>6, <1>7
  <1>10. \A j \in DOMAIN q : /\ j \in Nat
                             /\ j =< L => j \in 1 .. L /\ q[j] = b[j]
                             /\ j > L => j - L \in DOMAIN r /\ r[j - L] = q[j]
    BY <1>7, <1>8, <1>9
  <1>11. \A j \in DOMAIN r : /\ j \in Nat /\ j > 0 /\ j + L \in DOMAIN q
                             /\ q[j + L] = r[j]
    <2>1. ASSUME NEW j \in DOMAIN r
          PROVE  j \in Nat /\ j > 0 /\ j + L \in DOMAIN q /\ ~ (j + L =< L) /\ (j + L) - L = j
      BY <1>7, <1>8
    <2> QED
      BY <1>9, <2>1
  <1>12. \A j \in DOMAIN a : j \in DOMAIN a2 /\ a2[j] = a[j]
    BY <1>7, <1>8, <1>9
  <1>13. \A j \in 1 .. L : /\ N + j \in DOMAIN a2 /\ a2[N + j] = out[j]
                           /\ N + j \notin DOMAIN a
                           /\ j \in DOMAIN q /\ q[j] = b[j]
    <2>1. ASSUME NEW j \in 1 .. L
          PROVE  /\ N + j \in DOMAIN a2 /\ ~ (N + j =< N) /\ (N + j) - N = j
                 /\ N + j \notin DOMAIN a /\ j \in DOMAIN q /\ j =< L
      BY <1>7, <1>8
    <2> QED
      BY <1>9, <2>1
  <1>14. \A j \in DOMAIN a2 : j \in DOMAIN a \/ \E k \in 1 .. L : j = N + k
    <2>1. ASSUME NEW j \in DOMAIN a2, j \notin DOMAIN a
          PROVE  j - N \in 1 .. L /\ j = N + (j - N)
      BY <1>7, <1>8, <2>1
    <2> QED
      BY <2>1
  <1>15. L = Len(b) /\ N = Len(i2s[i]) /\ DOMAIN b = 1 .. L /\ DOMAIN out = 1 .. L
         /\ \A j \in 1 .. L : Answers(b[j], out[j])
    BY <1>3, <1>5, <1>7, <1>8
  <1>16. Placed(i, b, L, N, out)
    BY <1>5, <1>10, <1>11, <1>12, <1>13, <1>14, <1>15 DEF Placed
  <1> QED
    BY <1>3, <1>16

-----------------------------------------------------------------------------
(* Slots and their owners. *)

\* The reply to a multicast stands for its slot like the multicast.
LEMMA AnswerOwns ==
    ASSUME NEW m, m.op = MultiCastPkt, NEW a, Answers(m, a), NEW r, NEW s
    PROVE  /\ a.op = ReplySwitch
           /\ K!OnSlot(m, s) => K!OnSlot(a, s)
           /\ K!Owns(r, m) => K!Owns(r, a)
  <1>1. IsUpdate(m) /\ ReplyOp(m) = ReplySwitch
    BY DEF IsUpdate, ReplyOp, MultiCastPkt, UpdateIndexReq, ReadIndexReq
  <1> QED
    BY <1>1 DEF Answers, K!OnSlot, K!Owns, K!rpc_id

\* A batch that is applied keeps the owner of a slot.
LEMMA AppliedOwner ==
    ASSUME TypeB, TypeB', K!OwnerOutstanding,
           NEW i \in IndexThreads, NEW b, NEW p, Applied(i, b, p)
    PROVE  K!OwnerOutstanding'
  <1> SUFFICES ASSUME NEW s \in SwitchKeys, regs'.key[s] # 0
               PROVE  \E n \in IndexThreads :
                        \/ \E j \in K!Multicasts(n)' :
                               K!OnSlot(Queued'[n][j], s) /\ K!Owns(regs', Queued'[n][j])
                        \/ \E j \in K!ReplySwitches(n)' :
                               K!OnSlot(i2s'[n][j], s) /\ K!Owns(regs', i2s'[n][j])
    BY SameSets DEF K!OwnerOutstanding
  <1>r. regs' = regs
    BY DEF Applied, Rest
  <1>1. PICK n \in IndexThreads :
            \/ \E j \in K!Multicasts(n) :
                   K!OnSlot(Queued[n][j], s) /\ K!Owns(regs, Queued[n][j])
            \/ \E j \in K!ReplySwitches(n) :
                   K!OnSlot(i2s[n][j], s) /\ K!Owns(regs, i2s[n][j])
    BY <1>r, SameSets DEF K!OwnerOutstanding
  <1>2. PICK L, N \in Nat, out \in Seq(RawKvMsg) : Placed(i, b, L, N, out)
    BY AppliedPlaces
  <1>3. ASSUME NEW x \in IndexThreads, NEW j
        PROVE  /\ j \in K!Multicasts(x) <=> j \in DOMAIN Queued[x] /\ Queued[x][j].op = MultiCastPkt
               /\ j \in K!Multicasts(x)' <=> j \in DOMAIN Queued'[x] /\ Queued'[x][j].op = MultiCastPkt
               /\ j \in K!ReplySwitches(x) <=> j \in DOMAIN i2s[x] /\ i2s[x][j].op = ReplySwitch
               /\ j \in K!ReplySwitches(x)' <=> j \in DOMAIN i2s'[x] /\ i2s'[x][j].op = ReplySwitch
    BY SameOps DEF K!Multicasts, K!ReplySwitches, K!Positions
  <1>4. CASE n # i
    <2>1. Queued'[n] = Queued[n] /\ i2s'[n] = i2s[n]
      BY <1>4 DEF Applied
    <2> QED
      BY <1>1, <1>3, <1>r, <2>1
  <1>5. ASSUME n = i, NEW j \in DOMAIN i2s[i], i2s[i][j].op = ReplySwitch,
               K!OnSlot(i2s[i][j], s), K!Owns(regs, i2s[i][j])
        PROVE  \E x \in K!ReplySwitches(i)' :
                   K!OnSlot(i2s'[i][x], s) /\ K!Owns(regs', i2s'[i][x])
    <2>1. j \in DOMAIN i2s'[i] /\ i2s'[i][j] = i2s[i][j]
      BY <1>2 DEF Placed
    <2> QED
      BY <1>3, <1>5, <1>r, <2>1
  <1>6. ASSUME n = i, NEW j \in DOMAIN Queued[i], Queued[i][j].op = MultiCastPkt,
               K!OnSlot(Queued[i][j], s), K!Owns(regs, Queued[i][j])
        PROVE  \/ \E x \in K!Multicasts(i)' :
                      K!OnSlot(Queued'[i][x], s) /\ K!Owns(regs', Queued'[i][x])
               \/ \E x \in K!ReplySwitches(i)' :
                      K!OnSlot(i2s'[i][x], s) /\ K!Owns(regs', i2s'[i][x])
    <2>1. j \in Nat
      BY <1>2 DEF Placed
    <2>2. CASE j =< L
      <3>1. /\ j \in 1 .. L /\ Queued[i][j] = b[j] /\ Answers(b[j], out[j])
            /\ N + j \in DOMAIN i2s'[i] /\ i2s'[i][N + j] = out[j]
        BY <1>2, <2>2 DEF Placed
      <3>2. out[j].op = ReplySwitch /\ K!OnSlot(out[j], s) /\ K!Owns(regs, out[j])
        BY <1>6, <3>1, AnswerOwns
      <3> QED
        BY <1>3, <1>r, <3>1, <3>2
    <2>3. CASE j > L
      <3>1. j - L \in DOMAIN Queued'[i] /\ Queued'[i][j - L] = Queued[i][j]
        BY <1>2, <2>3 DEF Placed
      <3> QED
        BY <1>3, <1>6, <1>r, <3>1
    <2> QED
      BY <2>1, <2>2, <2>3
  <1> QED
    BY <1>1, <1>3, <1>4, <1>5, <1>6

\* Every step keeps the owners of the slots.
LEMMA OwnerNextB ==
    ASSUME TypeB, PollOps, K!OwnerOutstanding, [NextB]_varsB
    PROVE  K!OwnerOutstanding'
  <1>1. CASE [K!Next]_(K!vars)
    BY <1>1, InstanceType, K!OwnerNext, KeysAssumption, WidthAssumption, ThreadAssumption,
       LogAssumption, ProgramAssumption, FlagAssumption, MagicAssumption, BoundAssumption
  <1>2. ASSUME NEW i \in IndexThreads, NEW b, NEW p, Applied(i, b, p)
        PROVE  K!OwnerOutstanding'
    BY <1>2, StepIs, AppliedOwner
  <1> QED
    BY <1>1, <1>2, StepIs

\* The initial states.
LEMMA InitB1 == InitB => TypeB /\ PollOps /\ K!OwnerOutstanding
  <1> SUFFICES ASSUME InitB PROVE TypeB /\ PollOps /\ K!OwnerOutstanding
    OBVIOUS
  <1>1. TypeB
    BY InitType DEF InitB, TypeB
  <1>2. \A i \in IndexThreads : Queued[i] = <<>> \o <<>>
    BY DEF InitB, Init, Queued
  <1>3. PollOps
    <2>1. Requests(<<>> \o <<>>)
      BY DEF Requests
    <2> QED
      BY <1>2, <2>1 DEF PollOps
  <1>4. \A s \in SwitchKeys : regs.key[s] = 0
    BY DEF InitB, Init, Reset
  <1> QED
    BY <1>1, <1>3, <1>4, SameSets DEF K!OwnerOutstanding

\* An owner in a queue of the instance is in the batch or behind it.
LEMMA OwnedIs ==
    ASSUME TypeB, K!OwnerOutstanding
    PROVE  BatchOwned
  <1> SUFFICES ASSUME NEW s \in SwitchKeys, regs.key[s] # 0
               PROVE  \E i \in IndexThreads :
                        \/ \E j \in Multicasts(i) : OnSlot(s2i[i][j], s) /\ Owns(regs, s2i[i][j])
                        \/ \E j \in DOMAIN batch[i] : /\ batch[i][j].op = MultiCastPkt
                                                      /\ OnSlot(batch[i][j], s)
                                                      /\ Owns(regs, batch[i][j])
                        \/ \E j \in ReplySwitches(i) :
                               OnSlot(i2s[i][j], s) /\ Owns(regs, i2s[i][j])
    BY DEF BatchOwned
  <1>0. \A m : (K!OnSlot(m, s) <=> OnSlot(m, s)) /\ (K!Owns(regs, m) <=> Owns(regs, m))
    BY SameKeys DEF K!OnSlot, OnSlot, K!Owns, Owns
  <1>1. PICK i \in IndexThreads :
            \/ \E j \in K!Multicasts(i) : OnSlot(Queued[i][j], s) /\ Owns(regs, Queued[i][j])
            \/ \E j \in K!ReplySwitches(i) : OnSlot(i2s[i][j], s) /\ Owns(regs, i2s[i][j])
    BY <1>0, SameSets DEF K!OwnerOutstanding
  <1>2. K!ReplySwitches(i) = ReplySwitches(i)
    BY SameOps DEF K!ReplySwitches, ReplySwitches, K!Positions, Positions
  <1>3. ASSUME NEW j \in K!Multicasts(i), OnSlot(Queued[i][j], s), Owns(regs, Queued[i][j])
        PROVE  \/ \E x \in Multicasts(i) : OnSlot(s2i[i][x], s) /\ Owns(regs, s2i[i][x])
               \/ \E x \in DOMAIN batch[i] : /\ batch[i][x].op = MultiCastPkt
                                             /\ OnSlot(batch[i][x], s)
                                             /\ Owns(regs, batch[i][x])
    <2>1. j \in DOMAIN Queued[i] /\ Queued[i][j].op = MultiCastPkt
      BY SameOps DEF K!Multicasts, K!Positions
    <2>2. PICK a, q \in Seq(RawKvMsg) : a = batch[i] /\ q = s2i[i] /\ Queued[i] = a \o q
      BY QueuedType
    <2>3. \A x \in DOMAIN (a \o q) : \/ x \in DOMAIN a /\ (a \o q)[x] = a[x]
                                     \/ x - Len(a) \in DOMAIN q /\ (a \o q)[x] = q[x - Len(a)]
      OBVIOUS
    <2> QED
      <3>1. CASE j \in DOMAIN a /\ (a \o q)[j] = a[j]
        BY <1>3, <2>1, <2>2, <3>1
      <3>2. CASE j - Len(a) \in DOMAIN q /\ (a \o q)[j] = q[j - Len(a)]
        <4>1. j - Len(a) \in Multicasts(i) /\ s2i[i][j - Len(a)] = Queued[i][j]
          BY <2>1, <2>2, <3>2 DEF Multicasts, Positions
        <4> QED
          BY <1>3, <4>1
      <3> QED
        BY <2>1, <2>2, <2>3, <3>1, <3>2
  <1> QED
    BY <1>1, <1>2, <1>3

(***************************************************************************)
(* BatchOwnerSafety: with batched index threads (server_batch_CPC), too,   *)
(* the write that holds a slot of the switch has its own multicast on the  *)
(* way to the index thread or in a batch, or its ReplySwitch on the way    *)
(* back, under both programs, for batches and polls of any size and every  *)
(* order std::sort leaves them in. So a batch never swallows the packet    *)
(* that frees a slot.                                                      *)
(***************************************************************************)
THEOREM BatchOwnerSafety == SpecB => []BatchOwned
  <1>1. TypeB /\ PollOps /\ K!OwnerOutstanding /\ [NextB]_varsB
          => (TypeB /\ PollOps /\ K!OwnerOutstanding)'
    BY StepIs, PollOpsNext, OwnerNextB
  <1>2. TypeB /\ K!OwnerOutstanding => BatchOwned
    BY OwnedIs
  <1> QED
    BY InitB1, <1>1, <1>2, PTL DEF SpecB

-----------------------------------------------------------------------------
(* The packet a coroutine awaits. *)

\* Where the packet of place j of queue n on link f is after thread i has answered
\* the first L of its packets behind N others.
Image(i, L, N, f, n, j, g, o, k) ==
    IF f = "s2i" /\ n = i
    THEN IF j =< L THEN g = "i2s" /\ o = i /\ k = N + j
                   ELSE g = "s2i" /\ o = i /\ k = j - L
    ELSE g = f /\ o = n /\ k = j

\* The links of the instance, and those a batch leaves alone.
LEMMA AppliedNet ==
    ASSUME NEW i \in IndexThreads, NEW b, NEW p, Applied(i, b, p)
    PROVE  /\ K!Net["s2i"] = Queued /\ K!Net'["s2i"] = Queued'
           /\ K!Net["i2s"] = i2s /\ K!Net'["i2s"] = i2s'
           /\ "s2i" \in K!Links /\ "i2s" \in K!Links
           /\ K!Ends("s2i") = IndexThreads /\ K!Ends("i2s") = IndexThreads
           /\ \A f \in K!Links : \A n \in K!Ends(f) :
                  ~ (f \in {"s2i", "i2s"} /\ n = i) => K!Net'[f][n] = K!Net[f][n]
  <1>1. /\ K!Net["s2i"] = Queued /\ K!Net'["s2i"] = Queued'
        /\ K!Net["i2s"] = i2s /\ K!Net'["i2s"] = i2s'
        /\ "s2i" \in K!Links /\ "i2s" \in K!Links
    BY DEF K!Net, K!Links
  <1>2. K!Ends("s2i") = IndexThreads /\ K!Ends("i2s") = IndexThreads
    BY SameSets DEF K!Ends
  <1>3. ASSUME NEW f \in K!Links, f \notin {"s2i", "i2s"}
        PROVE  K!Net'[f] = K!Net[f]
    BY <1>3 DEF K!Net, K!Links, Applied, Rest
  <1>4. \A n \in IndexThreads : n # i => Queued'[n] = Queued[n] /\ i2s'[n] = i2s[n]
    BY DEF Applied
  <1>5. ASSUME NEW f \in K!Links, NEW n \in K!Ends(f), ~ (f \in {"s2i", "i2s"} /\ n = i)
        PROVE  K!Net'[f][n] = K!Net[f][n]
    <2>1. CASE f \notin {"s2i", "i2s"}
      BY <1>3, <2>1
    <2>2. CASE f = "s2i"
      BY <1>1, <1>2, <1>4, <1>5, <2>2
    <2>3. CASE f = "i2s"
      BY <1>1, <1>2, <1>4, <1>5, <2>3
    <2> QED
      BY <2>1, <2>2, <2>3
  <1> QED
    BY <1>1, <1>2, <1>5

\* The reply to a request answers whom the request was to answer.
LEMMA AnswerFits ==
    ASSUME NEW m, m.op \in IndexOps, NEW a, Answers(m, a)
    PROVE  /\ K!Answering("s2i", m) <=> K!Answering("i2s", a)
           /\ a.cli = m.cli
           /\ \A x : K!Answering("s2i", m) /\ K!Fits(x, "s2i", m) => K!Fits(x, "i2s", a)
  <1>1. /\ m.op = MultiCastPkt => a.op = ReplySwitch
        /\ m.op = UpdateIndexReq => a.op = UpdateIndexReply
        /\ m.op = ReadIndexReq => a.op = ReadIndexReply
    BY DEF Answers, ReplyOp, MultiCastPkt, UpdateIndexReq, ReadIndexReq
  <1>2. a.cli = m.cli /\ a.key = m.key
    BY DEF Answers
  <1>3. K!Answering("s2i", m) <=> m.op # MultiCastPkt
    BY SameOps DEF K!Answering
  <1>4. K!Answering("i2s", a) <=> a.op # ReplySwitch
    BY SameOps DEF K!Answering
  <1>5. K!Answering("s2i", m) <=> K!Answering("i2s", a)
    BY <1>1, <1>3, <1>4 DEF IndexOps, MultiCastPkt, UpdateIndexReq, ReadIndexReq, ReplySwitch,
       UpdateIndexReply, ReadIndexReply
  <1>6. ASSUME NEW x, K!Answering("s2i", m), K!Fits(x, "s2i", m)
        PROVE  K!Fits(x, "i2s", a)
    <2>1. K!Stage(x.pc, "s2i", m.op) /\ m.key = x.key
      BY <1>6 DEF K!Fits
    <2>2. CASE m.op = UpdateIndexReq
      <3>1. x.pc = "put_index"
        BY <2>1, <2>2, SameOps DEF K!Stage, UpdateIndexReq, ReadIndexReq
      <3>2. K!Stage(x.pc, "i2s", a.op)
        BY <1>1, <2>2, <3>1, SameOps DEF K!Stage
      <3> QED
        BY <1>2, <2>1, <3>2 DEF K!Fits
    <2>3. CASE m.op = ReadIndexReq
      <3>1. x.pc = "get_index"
        BY <2>1, <2>3, SameOps DEF K!Stage, UpdateIndexReq, ReadIndexReq
      <3>2. K!Stage(x.pc, "i2s", a.op)
        BY <1>1, <2>3, <3>1, SameOps DEF K!Stage
      <3> QED
        BY <1>2, <2>1, <3>2 DEF K!Fits
    <2> QED
      BY <1>3, <1>6, <2>2, <2>3 DEF IndexOps
  <1> QED
    BY <1>2, <1>5, <1>6

\* The awaited packet at place j is at place k afterwards, and still fits.
Lands(i, L, N, f, n, j, g, o, k) ==
    /\ Image(i, L, N, f, n, j, g, o, k) /\ K!Answer(K!Net', g, o, k)
    /\ K!Net'[g][o][k].cli = K!Net[f][n][j].cli
    /\ \A x : K!Fits(x, f, K!Net[f][n][j]) => K!Fits(x, g, K!Net'[g][o][k])

\* Every answering packet has an image,
LEMMA ImageOf ==
    ASSUME TypeB, PollOps, NEW i \in IndexThreads, NEW b, NEW p, Applied(i, b, p),
           NEW L \in Nat, NEW N \in Nat, NEW out, Placed(i, b, L, N, out),
           NEW f \in K!Links, NEW n \in K!Ends(f), NEW j \in DOMAIN K!Net[f][n],
           K!Answer(K!Net, f, n, j)
    PROVE  \E g \in K!Links : \E o \in K!Ends(g) : \E k \in DOMAIN K!Net'[g][o] :
               Lands(i, L, N, f, n, j, g, o, k)
  <1>n. /\ K!Net["s2i"] = Queued /\ K!Net'["s2i"] = Queued'
        /\ K!Net["i2s"] = i2s /\ K!Net'["i2s"] = i2s'
        /\ "s2i" \in K!Links /\ "i2s" \in K!Links
        /\ K!Ends("s2i") = IndexThreads /\ K!Ends("i2s") = IndexThreads
        /\ ~ (f \in {"s2i", "i2s"} /\ n = i) => K!Net'[f][n] = K!Net[f][n]
    BY AppliedNet
  <1>1. CASE f = "s2i" /\ n = i
    <2>0. j \in DOMAIN Queued[i] /\ j \in Nat /\ K!Answering("s2i", Queued[i][j])
      BY <1>n, <1>1 DEF K!Answer, Placed
    <2>1. CASE j =< L
      <3>1. /\ j \in 1 .. L /\ Queued[i][j] = b[j] /\ Answers(b[j], out[j]) /\ j \in DOMAIN b
            /\ N + j \in DOMAIN i2s'[i] /\ i2s'[i][N + j] = out[j]
        BY <2>0, <2>1 DEF Placed
      <3>2. b[j].op \in IndexOps
        BY <3>1 DEF Applied, Requests
      <3>3. /\ K!Answering("i2s", out[j]) /\ out[j].cli = b[j].cli
            /\ \A x : K!Fits(x, "s2i", b[j]) => K!Fits(x, "i2s", out[j])
        BY <2>0, <3>1, <3>2, AnswerFits
      <3>4. K!Answer(K!Net', "i2s", i, N + j)
        BY <1>n, <3>1, <3>3 DEF K!Answer
      <3>5. Image(i, L, N, f, n, j, "i2s", i, N + j)
        BY <1>1, <2>1 DEF Image
      <3> QED
        BY <1>n, <1>1, <3>1, <3>3, <3>4, <3>5 DEF Lands
    <2>2. CASE j > L
      <3>1. j - L \in DOMAIN Queued'[i] /\ Queued'[i][j - L] = Queued[i][j]
        BY <2>0, <2>2 DEF Placed
      <3>2. K!Answer(K!Net', "s2i", i, j - L)
        BY <1>n, <2>0, <3>1 DEF K!Answer
      <3>3. Image(i, L, N, f, n, j, "s2i", i, j - L)
        BY <1>1, <2>0, <2>2 DEF Image
      <3> QED
        BY <1>n, <1>1, <3>1, <3>2, <3>3 DEF Lands
    <2> QED
      BY <2>0, <2>1, <2>2
  <1>2. CASE f = "i2s" /\ n = i
    <2>1. j \in DOMAIN i2s'[i] /\ i2s'[i][j] = i2s[i][j]
      BY <1>n, <1>2 DEF Placed
    <2>2. K!Answer(K!Net', f, n, j)
      BY <1>n, <1>2, <2>1 DEF K!Answer
    <2>3. Image(i, L, N, f, n, j, f, n, j)
      BY <1>2 DEF Image
    <2> QED
      BY <1>n, <1>2, <2>1, <2>2, <2>3 DEF Lands
  <1>3. CASE ~ (f \in {"s2i", "i2s"} /\ n = i)
    <2>1. K!Net'[f][n] = K!Net[f][n]
      BY <1>n, <1>3
    <2>2. K!Answer(K!Net', f, n, j)
      BY <2>1 DEF K!Answer
    <2>3. Image(i, L, N, f, n, j, f, n, j)
      BY <1>3 DEF Image
    <2> QED
      BY <2>1, <2>2, <2>3 DEF Lands
  <1> QED
    BY <1>1, <1>2, <1>3

\* and every one that is there is an image.
LEMMA ImageFrom ==
    ASSUME TypeB, PollOps, NEW i \in IndexThreads, NEW b, NEW p, Applied(i, b, p),
           NEW L \in Nat, NEW N \in Nat, NEW out, Placed(i, b, L, N, out),
           NEW g \in K!Links, NEW o \in K!Ends(g), NEW k \in DOMAIN K!Net'[g][o],
           K!Answer(K!Net', g, o, k)
    PROVE  \E f \in K!Links : \E n \in K!Ends(f) : \E j \in DOMAIN K!Net[f][n] :
               /\ Image(i, L, N, f, n, j, g, o, k) /\ K!Answer(K!Net, f, n, j)
               /\ K!Net'[g][o][k].cli = K!Net[f][n][j].cli
  <1>n. /\ K!Net["s2i"] = Queued /\ K!Net'["s2i"] = Queued'
        /\ K!Net["i2s"] = i2s /\ K!Net'["i2s"] = i2s'
        /\ "s2i" \in K!Links /\ "i2s" \in K!Links
        /\ K!Ends("s2i") = IndexThreads /\ K!Ends("i2s") = IndexThreads
        /\ ~ (g \in {"s2i", "i2s"} /\ o = i) => K!Net'[g][o] = K!Net[g][o]
    BY AppliedNet
  <1>1. CASE g = "s2i" /\ o = i
    <2>1. /\ k \in DOMAIN Queued'[i] /\ k \in Nat /\ k > 0 /\ k + L \in DOMAIN Queued[i]
          /\ Queued[i][k + L] = Queued'[i][k] /\ K!Answering("s2i", Queued'[i][k])
      BY <1>n, <1>1 DEF Placed, K!Answer
    <2>2. ~ (k + L =< L) /\ (k + L) - L = k
      BY <2>1
    <2>3. Image(i, L, N, "s2i", i, k + L, g, o, k)
      BY <1>1, <2>2 DEF Image
    <2>4. K!Answer(K!Net, "s2i", i, k + L)
      BY <1>n, <2>1 DEF K!Answer
    <2> QED
      BY <1>n, <1>1, <2>1, <2>3, <2>4
  <1>2. CASE g = "i2s" /\ o = i
    <2>0. k \in DOMAIN i2s'[i] /\ K!Answering("i2s", i2s'[i][k])
      BY <1>n, <1>2 DEF K!Answer
    <2>1. CASE k \in DOMAIN i2s[i]
      <3>1. i2s'[i][k] = i2s[i][k]
        BY <2>1 DEF Placed
      <3>2. Image(i, L, N, "i2s", i, k, g, o, k)
        BY <1>2 DEF Image
      <3>3. K!Answer(K!Net, "i2s", i, k)
        BY <1>n, <2>0, <2>1, <3>1 DEF K!Answer
      <3> QED
        BY <1>n, <1>2, <2>1, <3>1, <3>2, <3>3
    <2>2. ASSUME NEW j \in 1 .. L, k = N + j
          PROVE  /\ j \in DOMAIN Queued[i] /\ Image(i, L, N, "s2i", i, j, g, o, k)
                 /\ K!Answer(K!Net, "s2i", i, j)
                 /\ i2s'[i][k].cli = Queued[i][j].cli
      <3>1. /\ Queued[i][j] = b[j] /\ Answers(b[j], out[j]) /\ j \in DOMAIN b
            /\ i2s'[i][k] = out[j] /\ j \in DOMAIN Queued[i]
        BY <2>2 DEF Placed
      <3>2. b[j].op \in IndexOps
        BY <3>1 DEF Applied, Requests
      <3>3. K!Answering("s2i", b[j]) /\ out[j].cli = b[j].cli
        BY <2>0, <3>1, <3>2, AnswerFits
      <3>4. Image(i, L, N, "s2i", i, j, g, o, k)
        BY <1>2, <2>2 DEF Image
      <3>5. K!Answer(K!Net, "s2i", i, j)
        BY <1>n, <3>1, <3>3 DEF K!Answer
      <3> QED
        BY <3>1, <3>3, <3>4, <3>5
    <2>3. k \in DOMAIN i2s[i] \/ \E j \in 1 .. L : k = N + j
      BY <2>0 DEF Placed
    <2> QED
      BY <1>n, <1>2, <2>1, <2>2, <2>3
  <1>3. CASE ~ (g \in {"s2i", "i2s"} /\ o = i)
    <2>1. K!Net'[g][o] = K!Net[g][o]
      BY <1>n, <1>3
    <2>2. K!Answer(K!Net, g, o, k)
      BY <2>1 DEF K!Answer
    <2>3. Image(i, L, N, g, o, k, g, o, k)
      BY <1>3 DEF Image
    <2> QED
      BY <2>1, <2>2, <2>3
  <1> QED
    BY <1>1, <1>2, <1>3

\* A packet has one image.
LEMMA ImageOne ==
    ASSUME NEW i, NEW L, NEW N, NEW f, NEW n, NEW j, NEW g, NEW o, NEW k, NEW h, NEW u, NEW l,
           Image(i, L, N, f, n, j, g, o, k), Image(i, L, N, f, n, j, h, u, l)
    PROVE  h = g /\ u = o /\ l = k
  BY DEF Image

\* The packet at place j of queue n on link f is the one coroutine c awaits.
Awaited(w, x, c, f, n, j) ==
    /\ K!Answer(w, f, n, j) /\ w[f][n][j].cli = c
    /\ K!Fits(x, f, w[f][n][j])
    /\ \A g \in K!Links : \A o \in K!Ends(g) : \A k \in DOMAIN w[g][o] :
           K!Answer(w, g, o, k) /\ w[g][o][k].cli = c => g = f /\ o = n /\ k = j

\* A batch leaves every coroutine the packet it awaits, or its reply.
LEMMA AppliedSole ==
    ASSUME TypeB, TypeB', PollOps, K!SoleAnswer,
           NEW i \in IndexThreads, NEW b, NEW p, Applied(i, b, p)
    PROVE  K!SoleAnswer'
  <1>1. PICK L \in Nat, N \in Nat, out \in Seq(RawKvMsg) : Placed(i, b, L, N, out)
    BY AppliedPlaces
  <1> SUFFICES ASSUME NEW c \in K!Coros PROVE K!Sole(K!Net', ctx'[c], c)
    BY DEF K!SoleAnswer
  <1>2. ctx' = ctx
    BY DEF Applied, Rest
  <1>3. K!Sole(K!Net, ctx[c], c)
    BY DEF K!SoleAnswer
  <1>4. ASSUME NEW g \in K!Links, NEW o \in K!Ends(g), NEW k \in DOMAIN K!Net'[g][o],
               K!Answer(K!Net', g, o, k), K!Net'[g][o][k].cli = c
        PROVE  \E f \in K!Links : \E n \in K!Ends(f) : \E j \in DOMAIN K!Net[f][n] :
                   /\ Image(i, L, N, f, n, j, g, o, k) /\ K!Answer(K!Net, f, n, j)
                   /\ K!Net[f][n][j].cli = c
    BY <1>1, <1>4, ImageFrom
  <1>5. CASE ctx[c].pc = "free"
    BY <1>2, <1>3, <1>4, <1>5 DEF K!Sole
  <1>6. CASE ctx[c].pc # "free"
    <2>1. PICK f \in K!Links : \E n \in K!Ends(f) : \E j \in DOMAIN K!Net[f][n] :
                   Awaited(K!Net, ctx[c], c, f, n, j)
      BY <1>3, <1>6 DEF K!Sole, Awaited
    <2>2. PICK n \in K!Ends(f) : \E j \in DOMAIN K!Net[f][n] :
                   Awaited(K!Net, ctx[c], c, f, n, j)
      BY <2>1
    <2>3. PICK j \in DOMAIN K!Net[f][n] : Awaited(K!Net, ctx[c], c, f, n, j)
      BY <2>2
    <2>4. K!Answer(K!Net, f, n, j) /\ K!Net[f][n][j].cli = c
          /\ K!Fits(ctx[c], f, K!Net[f][n][j])
      BY <2>3 DEF Awaited
    <2>5. PICK g \in K!Links : \E o \in K!Ends(g) : \E k \in DOMAIN K!Net'[g][o] :
               Lands(i, L, N, f, n, j, g, o, k)
      BY <1>1, <2>4, ImageOf
    <2>6. PICK o \in K!Ends(g) : \E k \in DOMAIN K!Net'[g][o] :
               Lands(i, L, N, f, n, j, g, o, k)
      BY <2>5
    <2>7. PICK k \in DOMAIN K!Net'[g][o] :
               Lands(i, L, N, f, n, j, g, o, k)
      BY <2>6
    <2>8. K!Net'[g][o][k].cli = c /\ K!Fits(ctx[c], g, K!Net'[g][o][k])
      BY <2>4, <2>7 DEF Lands
    <2>9. ASSUME NEW h \in K!Links, NEW u \in K!Ends(h), NEW l \in DOMAIN K!Net'[h][u],
                 K!Answer(K!Net', h, u, l), K!Net'[h][u][l].cli = c
          PROVE  h = g /\ u = o /\ l = k
      <3>1. PICK e \in K!Links : \E y \in K!Ends(e) : \E z \in DOMAIN K!Net[e][y] :
                   /\ Image(i, L, N, e, y, z, h, u, l) /\ K!Answer(K!Net, e, y, z)
                   /\ K!Net[e][y][z].cli = c
        BY <1>4, <2>9
      <3>2. PICK y \in K!Ends(e) : \E z \in DOMAIN K!Net[e][y] :
                   /\ Image(i, L, N, e, y, z, h, u, l) /\ K!Answer(K!Net, e, y, z)
                   /\ K!Net[e][y][z].cli = c
        BY <3>1
      <3>3. PICK z \in DOMAIN K!Net[e][y] :
                   /\ Image(i, L, N, e, y, z, h, u, l) /\ K!Answer(K!Net, e, y, z)
                   /\ K!Net[e][y][z].cli = c
        BY <3>2
      <3>4. e = f /\ y = n /\ z = j
        BY <2>3, <3>3 DEF Awaited
      <3> QED
        BY <2>7, <3>3, <3>4, ImageOne DEF Lands
    <2>10. Awaited(K!Net', ctx[c], c, g, o, k)
      BY <2>7, <2>8, <2>9 DEF Awaited, Lands
    <2> QED
      BY <1>2, <1>6, <2>10 DEF K!Sole, Awaited
  <1> QED
    BY <1>5, <1>6

\* Every step keeps the awaited packets.
LEMMA SoleNextB ==
    ASSUME TypeB, PollOps, K!SoleAnswer, [NextB]_varsB
    PROVE  K!SoleAnswer'
  <1>0. TypeB'
    BY StepIs
  <1>1. CASE [K!Next]_(K!vars)
    BY <1>0, <1>1, InstanceType, K!SoleNext, KeysAssumption, WidthAssumption, ThreadAssumption,
       LogAssumption, ProgramAssumption, FlagAssumption, MagicAssumption, BoundAssumption
  <1>2. ASSUME NEW i \in IndexThreads, NEW b, NEW p, Applied(i, b, p)
        PROVE  K!SoleAnswer'
    BY <1>0, <1>2, AppliedSole
  <1> QED
    BY <1>1, <1>2, StepIs

\* Nothing is awaited at the start.
LEMMA SoleInitB == InitB => K!SoleAnswer
  <1> SUFFICES ASSUME InitB, NEW c \in K!Coros PROVE K!Sole(K!Net, ctx[c], c)
    BY DEF K!SoleAnswer
  <1>1. ctx[c].pc = "free"
    BY SameSets DEF InitB, Init
  <1>2. \A i \in IndexThreads : Queued[i] = <<>>
    BY DEF InitB, Init, Queued
  <1>3. \A f \in K!Links : \A n \in K!Ends(f) : K!Net[f][n] = <<>>
    BY <1>2, SameSets DEF InitB, Init, K!Net, K!Links, K!Ends
  <1> QED
    BY <1>1, <1>3 DEF K!Sole

(***************************************************************************)
(* BatchReplySafety: with batched index threads the assertions of the      *)
(* client (get_index, put_index, get_value, put_value) hold as well. The   *)
(* replies of a batch leave in the order of arrival and not in the order   *)
(* of the sort, and each still resumes a coroutine that waits in the call  *)
(* it answers, for the key that call was about.                            *)
(***************************************************************************)
THEOREM BatchReplySafety == SpecB => []ReplyExpected
  <1>1. TypeB /\ PollOps /\ K!SoleAnswer /\ [NextB]_varsB
          => (TypeB /\ PollOps /\ K!SoleAnswer)'
    BY StepIs, PollOpsNext, SoleNextB
  <1>2. TypeB /\ K!SoleAnswer => ReplyExpected
    <2>1. K!ReplyExpected => ReplyExpected
      BY SameOps DEF K!ReplyExpected, ReplyExpected, K!ExpectedOps, ExpectedOps
    <2> QED
      BY <2>1, InstanceType, K!SoleExpected, KeysAssumption, WidthAssumption, ThreadAssumption,
       LogAssumption, ProgramAssumption, FlagAssumption, MagicAssumption, BoundAssumption
  <1> QED
    BY InitB1, SoleInitB, <1>1, <1>2, PTL DEF SpecB

-----------------------------------------------------------------------------
(* The timestamps in a batch. *)

\* A batch leaves the stamps that are under way alone.
LEMMA AppliedStamps ==
    ASSUME TypeB, TypeB', K!StampInv, NEW i \in IndexThreads, NEW b, NEW p, Applied(i, b, p)
    PROVE  K!StampInv'
  <1>1. PICK L \in Nat, N \in Nat, out \in Seq(RawKvMsg) : Placed(i, b, L, N, out)
    BY AppliedPlaces
  <1>2. UNCHANGED <<c2s, s2c, d2s, tss>>
    BY DEF Applied, Rest
  <1>3. ASSUME NEW n \in IndexThreads, NEW j \in DOMAIN Queued'[n]
        PROVE  \E k \in DOMAIN Queued[n] : Queued[n][k] = Queued'[n][j]
    <2>1. CASE n = i
      BY <1>1, <2>1 DEF Placed
    <2>2. CASE n # i
      BY <2>2 DEF Applied
    <2> QED
      BY <2>1, <2>2
  <1>4. K!Packets(Queued', IndexThreads) \subseteq K!Packets(Queued, IndexThreads)
    BY <1>3 DEF K!Packets
  <1>5. \A m \in K!Stamped' : m \in K!Stamped
    BY <1>2, <1>4, SameSets DEF K!Stamped
  <1>6. \A m \in K!Reads' : m \in K!Reads
    BY <1>2, <1>4, SameSets DEF K!Reads
  <1>7. \A m \in K!Reads' : m.ts = 0
    BY <1>6 DEF K!StampInv
  <1> QED
    BY <1>2, <1>5, <1>7 DEF K!StampInv

\* Every step keeps them apart while no counter wraps around.
LEMMA StampNextB ==
    ASSUME TypeB, PollOps, K!SoleAnswer, K!StampInv, K!ClocksFit, [NextB]_varsB
    PROVE  K!StampInv'
  <1>0. TypeB'
    BY StepIs
  <1>1. CASE [K!Next]_(K!vars)
    BY <1>0, <1>1, InstanceType, K!StampNext, KeysAssumption, WidthAssumption, ThreadAssumption,
       LogAssumption, ProgramAssumption, FlagAssumption, MagicAssumption, BoundAssumption
  <1>2. ASSUME NEW i \in IndexThreads, NEW b, NEW p, Applied(i, b, p)
        PROVE  K!StampInv'
    BY <1>0, <1>2, AppliedStamps
  <1> QED
    BY <1>1, <1>2, StepIs

\* Nothing is stamped at the start.
LEMMA StampInitB == InitB => K!StampInv
  <1> SUFFICES ASSUME InitB PROVE K!StampInv
    OBVIOUS
  <1>1. \A i \in IndexThreads : Queued[i] = <<>>
    BY DEF InitB, Init, Queued
  <1>2. /\ K!Packets(c2s, CThreads) = {} /\ K!Packets(s2c, CThreads) = {}
        /\ K!Packets(d2s, DataThreads) = {}
    BY DEF InitB, Init, K!Packets
  <1>3. K!Packets(Queued, IndexThreads) = {}
    BY <1>1 DEF K!Packets
  <1> QED
    BY <1>2, <1>3, SameSets DEF K!StampInv, K!Stamped, K!Reads

\* A batch in front of a queue can be sorted by timestamp.
LEMMA FrontOrdered ==
    ASSUME TypeB, K!StampInv, NEW i \in IndexThreads, NEW b \in Seq(RawKvMsg), Requests(b),
           NEW r \in Seq(RawKvMsg), Queued[i] = b \o r
    PROVE  Ordered(b)
  <1>1. ASSUME NEW j \in DOMAIN b
        PROVE  /\ b[j] \in K!Packets(Queued, IndexThreads) /\ b[j] \in RawKvMsg
               /\ IsUpdate(b[j]) => b[j] \in K!Stamped
               /\ ~ IsUpdate(b[j]) => b[j] \in K!Reads
    <2>1. j \in DOMAIN (b \o r) /\ (b \o r)[j] = b[j] /\ b[j] \in RawKvMsg
      OBVIOUS
    <2>2. b[j] \in K!Packets(Queued, IndexThreads)
      <3>1. j \in DOMAIN Queued[i] /\ Queued[i][j] = b[j]
        BY <2>1
      <3> QED
        BY <3>1 DEF K!Packets
    <2>3. b[j].op \in IndexOps
      BY DEF Requests
    <2>4. IsUpdate(b[j]) => b[j] \in K!Stamped
      BY <2>2, SameSets, SameOps DEF K!Stamped, IsUpdate
    <2>5. ~ IsUpdate(b[j]) => b[j] \in K!Reads
      BY <2>2, <2>3, SameSets, SameOps DEF K!Reads, IsUpdate, IndexOps
    <2> QED
      BY <2>1, <2>2, <2>4, <2>5
  <1>2. ASSUME NEW j \in DOMAIN b, NEW k \in DOMAIN b, b[j].key = b[k].key, IsUpdate(b[j])
        PROVE  /\ IsUpdate(b[k]) /\ b[j].ts = b[k].ts => b[j].log = b[k].log
               /\ ~ IsUpdate(b[k]) => b[k].ts < b[j].ts
    <2>1. b[j] \in K!Stamped
      BY <1>1, <1>2
    <2>2. ASSUME IsUpdate(b[k]), b[j].ts = b[k].ts PROVE b[j].log = b[k].log
      <3>1. b[k] \in K!Stamped
        BY <1>1, <2>2
      <3> QED
        BY <1>2, <2>1, <2>2, <3>1 DEF K!StampInv
    <2>3. ASSUME ~ IsUpdate(b[k]) PROVE b[k].ts < b[j].ts
      <3>1. b[k] \in K!Reads
        BY <1>1, <2>3
      <3> QED
        BY <2>1, <3>1 DEF K!StampInv
    <2> QED
      BY <2>2, <2>3
  <1> QED
    BY <1>2 DEF Ordered

\* So the batch a poll makes has the effect of its newest updates.
LEMMA AgreesIs ==
    ASSUME 0 \notin Keys, TypeB, PollOps, K!StampInv
    PROVE  BatchAgrees
  <1> SUFFICES ASSUME NEW i \in IndexThreads, NEW n \in 1 .. kMaxWcCnt, n =< Len(s2i[i])
               PROVE  LET b == batch[i] \o SubSeq(s2i[i], 1, n)
                          effect == BatchEffect(b, index)
                      IN  \A p \in SortOrders(b) :
                              LET w == Walk(b, p, index)
                              IN  /\ w.idx = effect
                                  /\ \A j \in DOMAIN b : b[j].op = ReadIndexReq =>
                                         w.out[j].log = effect[b[j].key]
    BY DEF BatchAgrees
  <1>1. PICK a, s \in Seq(RawKvMsg) : a = batch[i] /\ s = s2i[i] /\ Queued[i] = a \o s
    BY QueuedType
  <1>2. PICK q, r : q = SubSeq(s, 1, n) /\ r = SubSeq(s, n + 1, Len(s))
    OBVIOUS
  <1>3. Cut(s, n, q, r)
    BY <1>1, <1>2, BatchAssumption DEF Cut
  <1>4. PICK b : b = a \o q
    OBVIOUS
  <1>5. b \in Seq(RawKvMsg) /\ r \in Seq(RawKvMsg) /\ Queued[i] = b \o r
    <2>1. /\ r \in Seq(RawKvMsg) /\ a \o q \in Seq(RawKvMsg) /\ a \o s = (a \o q) \o r
      BY <1>3, PollSplits, SMTT(30)
    <2> QED
      BY <1>1, <1>4, <2>1
  <1>6. Requests(b)
    BY <1>5, FrontRequests DEF PollOps
  <1>7. Ordered(b)
    BY <1>5, <1>6, FrontOrdered
  <1>8. \A j \in DOMAIN b : b[j].key # 0
    <2>1. \A j \in DOMAIN b : b[j] \in RawKvMsg
      BY <1>5
    <2> QED
      BY <2>1 DEF RawKvMsg
  <1>9. index \in [Keys -> LogIds \cup {NoLog}]
    BY DEF TypeB, TypeOK
  <1>10. ASSUME NEW p \in SortOrders(b)
         PROVE  LET w == Walk(b, p, index) IN
                /\ w.idx = BatchEffect(b, index)
                /\ \A j \in DOMAIN b : b[j].op = ReadIndexReq =>
                       w.out[j].log = BatchEffect(b, index)[b[j].key]
    BY <1>6, <1>7, <1>8, <1>9, WalkEffect
  <1>11. b = batch[i] \o SubSeq(s2i[i], 1, n)
    BY <1>1, <1>2, <1>4
  <1> QED
    BY <1>10, <1>11

(***************************************************************************)
(* BatchAgreement: whatever a poll adds to the batch of an index thread    *)
(* and however std::sort orders equal entries, server_batch_CPC leaves for *)
(* every key the update with the largest timestamp and answers the reads   *)
(* of the batch with it. Two assumptions: key 0, which the loop's last_key *)
(* starts as, is not used, and no counter of Timestamp32 wraps around.     *)
(***************************************************************************)
THEOREM BatchAgreement ==
    ASSUME 0 \notin Keys
    PROVE  SpecB /\ []K!ClocksFit => []BatchAgrees
  <1>1. InitB => TypeB /\ PollOps /\ K!SoleAnswer /\ K!StampInv
    BY InitB1, SoleInitB, StampInitB
  <1>2. TypeB /\ PollOps /\ K!SoleAnswer /\ K!StampInv /\ K!ClocksFit /\ [NextB]_varsB
          => (TypeB /\ PollOps /\ K!SoleAnswer /\ K!StampInv)'
    BY StepIs, PollOpsNext, SoleNextB, StampNextB
  <1>3. TypeB /\ PollOps /\ K!StampInv => BatchAgrees
    BY AgreesIs
  <1> QED
    BY <1>1, <1>2, <1>3, PTL DEF SpecB
=============================================================================
