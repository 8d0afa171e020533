--------------------------- MODULE KvLinearProofs ---------------------------
(***************************************************************************)
(* Reads and writes are linearizable: SpecH => []Linearizable, for both    *)
(* programs of the switch and every number of keys, clients and threads.   *)
(*                                                                         *)
(* The updates of the index get a rank in the order in which they enter    *)
(* the queue of their index thread: a fast write when the switch grants it *)
(* a slot and multicasts it, a slow one when its UpdateIndexReq passes the *)
(* switch. The invariant says that there is such a ranking r for which     *)
(* Low(r, z, k, x), "a read of k that passes the switch now finds rank x   *)
(* or a later one", holds of everything that was seen. Low never becomes   *)
(* false again (Rises), whichever way a value is announced, queued, put    *)
(* into the index, taken over or withdrawn; and each read returns a value  *)
(* of the highest rank its client can know of. Ranks then order all        *)
(* clusters, and no two precede each other.                                *)
(*                                                                         *)
(* The parts of the invariant that are about order in the queues are what  *)
(* makes this work: updates of a key are queued in the order of their      *)
(* ranks (QueueOK); while a slot still announces an older write, the reply *)
(* of a slow update is behind the ReplySwitch that frees it (LagOK); and a *)
(* read in the queue finds nothing that a later read could miss (ReadsOK). *)
(***************************************************************************)
EXTENDS KvLogProofs, KvHistory

\* The index thread of a key, as put_index and get_index compute it, and the log id
\* main() preloads the index with.
ix(k) == get_index_thread_id(get_switch_key(k))
Preload == compute_log_id(0, 0)

\* The log entry every key starts out pointing to is never written.
Preloaded == At(kv, Preload) = Blank

\* put_value computes the same index thread from the long key.
SameThread == \A k \in Keys : get_index_thread_id(k) = ix(k)

\* The state of the store, as far as reads see it.
View == [kv |-> kv, pos |-> pos, index |-> index, s2i |-> s2i, i2s |-> i2s,
         key |-> regs.key, rpc |-> regs.rpc, log |-> regs.log]

-----------------------------------------------------------------------------
(* The order of the updates. r[v] is the rank of the update with value v, 0    *)
(* before it has entered the queue of its index thread.                        *)

rk(r, v) == IF v \in DOMAIN r THEN r[v] ELSE 0

\* Value 0, of a key that was not written, or the value of an update with a rank.
Admitted(r, v) == v = 0 \/ rk(r, v) > 0

Ranked(r, nr) ==
    /\ r \in [Nat -> Nat] /\ r[0] = 0
    /\ \E t \in Nat : \A v \in Nat : r[v] <= t
    /\ \A v \in Nat : r[v] > 0 => v <= nr
    /\ \A u, v \in Nat : r[u] = r[v] /\ r[u] > 0 => u = v

-----------------------------------------------------------------------------
(* What a read of key k may find in view z. *)

Of(k, e) == IF e.key = k THEN e.val ELSE 0
Val(z, m) == At(z.kv, m.log).val
Updates(m, k) == m.op \in {MultiCastPkt, UpdateIndexReq} /\ m.key = k
Indexed(z, k) == Of(k, At(z.kv, z.index[k]))

\* Rank x is not above the index or an update before place j of the queue,
ReachBefore(r, z, k, j, x) ==
    \/ x <= rk(r, Indexed(z, k))
    \/ \E h \in DOMAIN z.s2i[ix(k)] :
           /\ h < j /\ Updates(z.s2i[ix(k)][h], k)
           /\ x <= rk(r, Val(z, z.s2i[ix(k)][h]))

\* or anywhere in the queue.
Reach(r, z, k, x) ==
    \/ x <= rk(r, Indexed(z, k))
    \/ \E h \in DOMAIN z.s2i[ix(k)] :
           Updates(z.s2i[ix(k)][h], k) /\ x <= rk(r, Val(z, z.s2i[ix(k)][h]))

\* The slot of k announces a write of k, and which.
Held(z, k) == z.key[get_switch_key(k)] # 0 /\ At(z.kv, z.log[get_switch_key(k)]).key = k
HeldVal(z, k) == At(z.kv, z.log[get_switch_key(k)]).val

\* A read of k that passes the switch now finds rank x or a later one.
Low(r, z, k, x) == IF Held(z, k) THEN x <= rk(r, HeldVal(z, k)) ELSE Reach(r, z, k, x)

-----------------------------------------------------------------------------
(* The invariant, part by part. *)

Known(z, l) == l = Preload \/ Within(z.pos, l)

IndexOK(r, z) == \A k \in Keys : Known(z, z.index[k]) /\ Admitted(r, Indexed(z, k))

\* What slot s announces is queued for the index or in it.
SlotOK(r, z, s) ==
    LET e == At(z.kv, z.log[s]) IN
    /\ FLAGS_visibility /\ Within(z.pos, z.log[s])
    /\ e.key \in Keys /\ get_switch_key(e.key) = s /\ get_fingerprint(e.key) = z.key[s]
    /\ rk(r, e.val) > 0 /\ Reach(r, z, e.key, rk(r, e.val))
SlotsOK(r, z) == \A s \in SwitchKeys : z.key[s] # 0 => SlotOK(r, z, s)

\* The updates of a key are queued in the order of their ranks.
QueuedOK(r, z, i, j) ==
    LET m == z.s2i[i][j] IN
    \A k \in Keys : Updates(m, k) =>
        /\ rk(r, Val(z, m)) > rk(r, Indexed(z, k))
        /\ \A h \in DOMAIN z.s2i[i] :
               j < h /\ Updates(z.s2i[i][h], k) => rk(r, Val(z, m)) < rk(r, Val(z, z.s2i[i][h]))
QueueOK(r, z) == \A i \in IndexThreads : \A j \in DOMAIN z.s2i[i] : QueuedOK(r, z, i, j)

\* The packet that will free slot s stands before place j.
Clears(z, m, op, s) == m.op = op /\ OnSlot(m, s) /\ Owns(z, m)
Clearing(z, q, op, j, s) == \E h \in DOMAIN q : h < j /\ Clears(z, q[h], op, s)
Cleared(z, q, op, s) == \E h \in DOMAIN q : Clears(z, q[h], op, s)

\* When the reply of a slow update reaches its client, the slot does not hide it.
UpdateOK(r, z, i, j) ==
    LET m == z.s2i[i][j]  s == get_switch_key(m.key) IN
    m.op = UpdateIndexReq =>
        \/ Low(r, z, m.key, rk(r, Val(z, m)))
        \/ Clearing(z, z.s2i[i], MultiCastPkt, j, s)
        \/ Cleared(z, z.i2s[i], ReplySwitch, s)
ReplyOK(r, z, i, j) ==
    LET m == z.i2s[i][j]  s == get_switch_key(m.key) IN
    m.op = UpdateIndexReply =>
        /\ rk(r, Val(z, m)) > 0 /\ Reach(r, z, m.key, rk(r, Val(z, m)))
        /\ \/ Low(r, z, m.key, rk(r, Val(z, m)))
           \/ Clearing(z, z.i2s[i], ReplySwitch, j, s)
LagOK(r, z) ==
    \A i \in IndexThreads :
        /\ \A j \in DOMAIN z.s2i[i] : UpdateOK(r, z, i, j)
        /\ \A j \in DOMAIN z.i2s[i] : ReplyOK(r, z, i, j)

\* A read in the queue finds what its client has seen, and nothing that later reads
\* could miss.
ReadOK(r, z, sn, i, j) ==
    LET m == z.s2i[i][j] IN
    m.op = ReadIndexReq =>
        /\ \A o \in sn[m.cli] : ReachBefore(r, z, m.key, j, rk(r, o[1]))
        /\ \A x \in Nat : ReachBefore(r, z, m.key, j, x) => Low(r, z, m.key, x)
ReadsOK(r, z, sn) ==
    \A i \in IndexThreads : \A j \in DOMAIN z.s2i[i] : ReadOK(r, z, sn, i, j)

\* Entry e is an answer for a read of k by c, or one that read_ok refuses.
GoodEntry(r, z, sn, c, k, e) ==
    \/ e.key # k /\ get_fingerprint(e.key) = get_fingerprint(k)
    \/ /\ Admitted(r, Of(k, e)) /\ Low(r, z, k, rk(r, Of(k, e)))
       /\ \A o \in sn[c] : rk(r, o[1]) <= rk(r, Of(k, e))
GoodLog(r, z, sn, c, k, l) == Known(z, l) /\ GoodEntry(r, z, sn, c, k, At(z.kv, l))

\* Packet m in queue n of link f, by what it is part of: a write before its rank, a
\* write after it, a read before it knows the log id, and after.
WriteOK(r, z, x, f, m) ==
    /\ m.op \in {AppendReq, AppendReply} => m.ixp = ix(m.key) /\ rk(r, x[m.cli].val) = 0
    /\ f = "c2s" /\ m.op = UpdateIndexReq => rk(r, x[m.cli].val) = 0
    /\ f = "s2c" /\ m.op \in {MultiCastPkt, UpdateIndexReply} =>
           rk(r, x[m.cli].val) > 0 /\ Low(r, z, m.key, rk(r, x[m.cli].val))
AskOK(r, z, sn, f, m) ==
    f = "c2s" /\ m.op = ReadIndexReq =>
        m.flag = FLAGS_visibility /\ \A o \in sn[m.cli] : Low(r, z, m.key, rk(r, o[1]))
LogOK(r, z, sn, f, n, m) ==
    /\ (f = "s2c" /\ m.op = ReadIndexReq) \/ m.op \in {ReadIndexReply, ReadLog} =>
           GoodLog(r, z, sn, m.cli, m.key, m.log)
    /\ m.op = ReadLog => logid_2_threadid(m.log) = IF f = "s2d" THEN n ELSE m.port
    /\ m.op = ReadReply => GoodEntry(r, z, sn, m.cli, m.key, m.entry)
\* Where a packet is.
PlaceOK(f, n, m) ==
    /\ f = "c2s" /\ m.op \in {UpdateIndexReq, ReadIndexReq} => m.port = ix(m.key)
    /\ f \in {"s2i", "i2s"} => n = ix(m.key)
    /\ f = "s2c" => n = m.cli[1]

PacketOK(r, z, x, sn, f, n, m) ==
    WriteOK(r, z, x, f, m) /\ AskOK(r, z, sn, f, m) /\ LogOK(r, z, sn, f, n, m) /\ PlaceOK(f, n, m)
PacketsOK(r, z, x, sn, w) ==
    \A f \in Links : \A n \in Ends(f) : \A j \in DOMAIN w[f][n] :
        PacketOK(r, z, x, sn, f, n, w[f][n][j])

\* What was seen is seen by every later read, and what precedes has the lower rank.
Before(r, p) == Admitted(r, p[1]) /\ p[2] # 0 /\ (rk(r, p[2]) > 0 => rk(r, p[1]) < rk(r, p[2]))
HistoryOK(r, z, x, se, sn, pr) ==
    /\ \A k \in Keys : \A o \in se[k] : Admitted(r, o[1]) /\ Low(r, z, k, rk(r, o[1]))
    /\ \A k \in Keys : \A p \in pr[k] : Before(r, p)
    /\ \A c \in Coros : \A o \in sn[c] : Admitted(r, o[1])
    /\ \A c \in Coros : x[c].pc \in {"put_value", "put_index"} =>
           After(sn[c], x[c].val) \subseteq pr[x[c].key]

StoreOK(r, z, sn) ==
    IndexOK(r, z) /\ SlotsOK(r, z) /\ QueueOK(r, z) /\ LagOK(r, z) /\ ReadsOK(r, z, sn)

\* The invariant.
LinearOK(r) ==
    /\ Ranked(r, nreq) /\ StoreOK(r, View, snap) /\ PacketsOK(r, View, ctx, snap, Net)
    /\ HistoryOK(r, View, ctx, seen, snap, prec)
LinearInv == \E r : LinearOK(r)

-----------------------------------------------------------------------------
(* Ranks. *)

\* r2 is r, or r with a rank for u that is above all others.
Extends(r, r2, u) ==
    /\ \A v : v # u => rk(r2, v) = rk(r, v)
    /\ \/ rk(r2, u) = rk(r, u)
       \/ rk(r, u) = 0 /\ u # 0 /\ \A v : rk(r, v) < rk(r2, u)

\* Ranks are numbers.
LEMMA RankNat ==
    ASSUME NEW r, NEW nr, Ranked(r, nr)
    PROVE  /\ \A v : rk(r, v) \in Nat
           /\ rk(r, 0) = 0
           /\ \A u, v : rk(r, u) = rk(r, v) /\ rk(r, u) > 0 => u = v
  <1>1. r \in [Nat -> Nat] /\ r[0] = 0
    BY DEF Ranked
  <1>2. \A v : rk(r, v) \in Nat
    BY <1>1 DEF rk
  <1>3. ASSUME NEW u, NEW v, rk(r, u) = rk(r, v), rk(r, u) > 0 PROVE u = v
    <2>1. u \in Nat /\ v \in Nat /\ r[u] = r[v] /\ r[u] > 0
      BY <1>1, <1>3 DEF rk
    <2> QED
      BY <2>1 DEF Ranked
  <1> QED
    BY <1>1, <1>2, <1>3 DEF rk

\* Values that have a rank keep it.
LEMMA RankKept ==
    ASSUME NEW r, NEW nr, Ranked(r, nr), NEW r2, NEW n2, Ranked(r2, n2), NEW u,
           Extends(r, r2, u)
    PROVE  /\ \A v : Admitted(r, v) => Admitted(r2, v) /\ rk(r2, v) = rk(r, v)
           /\ \A v : rk(r, v) <= rk(r2, v)
           /\ \A v : rk(r, v) \in Nat /\ rk(r2, v) \in Nat
  <1>1. /\ \A v : rk(r, v) \in Nat /\ rk(r2, v) \in Nat
        /\ rk(r, 0) = 0 /\ rk(r2, 0) = 0
    BY RankNat
  <1> QED
    BY <1>1 DEF Extends, Admitted

\* There is always a rank for the next update.
LEMMA NextRank ==
    ASSUME NEW r, NEW nr \in Nat, Ranked(r, nr), NEW u \in 1 .. nr, rk(r, u) = 0
    PROVE  \E r2 : /\ Ranked(r2, nr) /\ Extends(r, r2, u)
                   /\ \A v : rk(r, v) < rk(r2, u)
  <1>1. PICK t \in Nat : \A v \in Nat : r[v] <= t
    BY DEF Ranked
  <1>2. r \in [Nat -> Nat] /\ r[0] = 0 /\ u \in Nat /\ u # 0 /\ u <= nr
    BY DEF Ranked
  <1>3. PICK r2 : r2 = [r EXCEPT ![u] = t + 1]
    OBVIOUS
  <1>4. /\ r2 \in [Nat -> Nat] /\ r2[u] = t + 1 /\ \A v \in Nat : v # u => r2[v] = r[v]
    BY <1>2, <1>3
  <1>5. \A v : v # u => rk(r2, v) = rk(r, v)
    BY <1>2, <1>4 DEF rk
  <1>6. \A v : rk(r, v) < rk(r2, u)
    BY <1>1, <1>2, <1>4 DEF rk
  <1>7. \A v \in Nat : r2[v] <= t + 1
    BY <1>1, <1>2, <1>4
  <1>8. \A v \in Nat : r2[v] > 0 => v <= nr
    BY <1>2, <1>4 DEF Ranked
  <1>9. \A v, w \in Nat : r2[v] = r2[w] /\ r2[v] > 0 => v = w
    <2>1. \A v \in Nat : v # u => r2[v] < r2[u] /\ r2[v] = r[v]
      BY <1>1, <1>2, <1>4
    <2>2. \A v, w \in Nat : r[v] = r[w] /\ r[v] > 0 => v = w
      BY DEF Ranked
    <2>3. \A v \in Nat : r2[v] \in Nat
      BY <1>4
    <2> QED
      BY <2>1, <2>2, <2>3
  <1>10. Ranked(r2, nr)
    <2>1. t + 1 \in Nat /\ r2[0] = 0
      BY <1>2, <1>4
    <2> QED
      BY <1>4, <1>7, <1>8, <1>9, <2>1 DEF Ranked
  <1>11. Extends(r, r2, u)
    BY <1>2, <1>5, <1>6 DEF Extends
  <1> QED
    BY <1>6, <1>10, <1>11

-----------------------------------------------------------------------------
(* Steps of the store, seen from the queues of the index threads. *)

\* q2 is q with m at the end of queue i, in place e;
Pushed(q, q2, i, m, e) ==
    /\ i \in IndexThreads /\ e \in Nat
    /\ \A n \in IndexThreads : \A h \in DOMAIN q[n] :
           h \in Nat /\ h >= 1 /\ h \in DOMAIN q2[n] /\ q2[n][h] = q[n][h]
    /\ \A n \in IndexThreads : \A h \in DOMAIN q2[n] :
           \/ h \in DOMAIN q[n] /\ q2[n][h] = q[n][h]
           \/ n = i /\ h = e /\ q2[n][h] = m
    /\ \A h \in DOMAIN q[i] : h < e
    /\ e \in DOMAIN q2[i] /\ q2[i][e] = m

\* q2 is q without the head m of queue i.
Popped(q, q2, i, m) ==
    /\ i \in IndexThreads /\ 1 \in DOMAIN q[i] /\ q[i][1] = m
    /\ \A n \in IndexThreads : \A g \in DOMAIN q[n] :
           /\ g \in Nat /\ g >= 1
           /\ \/ n = i /\ g = 1
              \/ \E h \in DOMAIN q2[n] :
                     g = (IF n = i THEN h + 1 ELSE h) /\ q2[n][h] = q[n][g]
    /\ \A n \in IndexThreads : \A h \in DOMAIN q2[n] :
           /\ h \in Nat /\ h >= 1
           /\ \E g \in DOMAIN q[n] :
                  g = (IF n = i THEN h + 1 ELSE h) /\ q2[n][h] = q[n][g]

\* The form Push and Pop have.
LEMMA PushIs ==
    ASSUME NEW q \in [IndexThreads -> Seq(RawKvMsg)], NEW i \in IndexThreads,
           NEW m \in RawKvMsg
    PROVE  \E e : Pushed(q, Push(q, i, m), i, m, e)
  <1>q. PICK q2 : q2 = Push(q, i, m)
    OBVIOUS
  <1>e. PICK e : e = Len(q[i]) + 1
    OBVIOUS
  <1>1. ASSUME NEW n \in IndexThreads
        PROVE  \A h \in DOMAIN q[n] : h \in Nat /\ h >= 1 /\ (n = i => h < e)
    <2>1. q[n] \in Seq(RawKvMsg)
      OBVIOUS
    <2> QED
      BY <1>e, <2>1
  <1>2. ASSUME NEW n \in IndexThreads, NEW h \in DOMAIN q2[n] PROVE h \in Nat
    <2>1. q2[n] \in Seq(RawKvMsg)
      BY <1>q, PushType
    <2> QED
      BY <2>1
  <1>3. ASSUME NEW n \in IndexThreads, NEW h \in Nat
        PROVE  /\ h \in DOMAIN q2[n] <=> h \in DOMAIN q[n] \/ (n = i /\ h = e)
               /\ h \in DOMAIN q[n] => q2[n][h] = q[n][h]
               /\ q2[i][e] = m /\ e \in DOMAIN q2[i] /\ e \in Nat
    BY <1>q, <1>e, PushPlaces
  <1>4. e \in Nat /\ e \in DOMAIN q2[i] /\ q2[i][e] = m
    <2>1. 0 \in Nat
      OBVIOUS
    <2> QED
      BY <1>3, <2>1
  <1>5. Pushed(q, q2, i, m, e)
    BY <1>1, <1>2, <1>3, <1>4 DEF Pushed
  <1> QED
    BY <1>q, <1>5

\* Taking the head of one queue pops it and leaves the other queues alone.
LEMMA PopIs ==
    ASSUME NEW q \in [IndexThreads -> Seq(RawKvMsg)], NEW i \in IndexThreads, q[i] # <<>>,
           NEW m, m = Head(q[i])
    PROVE  Popped(q, Pop(q, i), i, m)
  <1>q. PICK q2 : q2 = Pop(q, i)
    OBVIOUS
  <1>0. q2[i] = Tail(q[i]) /\ \A n \in IndexThreads : n # i => q2[n] = q[n]
    BY <1>q DEF Pop
  <1>1. ASSUME NEW n \in IndexThreads
        PROVE  /\ \A g \in DOMAIN q[n] : g \in Nat /\ g >= 1
               /\ \A g \in DOMAIN q2[n] : g \in Nat /\ g >= 1
    <2>1. q[n] \in Seq(RawKvMsg) /\ q[i] \in Seq(RawKvMsg) /\ q2[n] \in Seq(RawKvMsg)
      BY <1>0, SMTT(30)
    <2> QED
      BY <2>1
  <1>2. 1 \in DOMAIN q[i] /\ q[i][1] = m
    BY PopPlaces
  <1>3. ASSUME NEW n \in IndexThreads, NEW g \in DOMAIN q[n], ~ (n = i /\ g = 1)
        PROVE  \E h \in DOMAIN q2[n] :
                     g = (IF n = i THEN h + 1 ELSE h) /\ q2[n][h] = q[n][g]
    <2>1. CASE n # i
      BY <1>0, <2>1
    <2>2. CASE n = i
      <3>1. g - 1 \in DOMAIN q2[n] /\ q2[n][g - 1] = q[n][g] /\ g \in Nat
        BY <1>1, <1>3, <1>q, <2>2, PopPlaces
      <3>2. g = (g - 1) + 1
        BY <3>1
      <3> QED
        BY <2>2, <3>1, <3>2
    <2> QED
      BY <2>1, <2>2
  <1>4. ASSUME NEW n \in IndexThreads, NEW h \in DOMAIN q2[n]
        PROVE  \E g \in DOMAIN q[n] :
                  g = (IF n = i THEN h + 1 ELSE h) /\ q2[n][h] = q[n][g]
    <2>1. CASE n # i
      BY <1>0, <2>1
    <2>2. CASE n = i
      BY <1>1, <1>q, <2>2, PopPlaces
    <2> QED
      BY <2>1, <2>2
  <1>5. Popped(q, q2, i, m)
    BY <1>1, <1>2, <1>3, <1>4 DEF Popped
  <1> QED
    BY <1>q, <1>5

-----------------------------------------------------------------------------
(* Ranks in a step: what has one keeps it. *)
Steady(r, r2) ==
    /\ \A v : Admitted(r, v) => Admitted(r2, v) /\ rk(r2, v) = rk(r, v)
    /\ \A v : rk(r, v) \in Nat /\ rk(r2, v) \in Nat /\ rk(r, v) <= rk(r2, v)
    /\ rk(r, 0) = 0 /\ rk(r2, 0) = 0

\* What was found is found.
Rises(r, z, r2, z2) ==
    \A k \in Keys, x \in Nat : /\ Reach(r, z, k, x) => Reach(r2, z2, k, x)
                               /\ Low(r, z, k, x) => Low(r2, z2, k, x)

SlotKept(z, z2, s) ==
    z2.key[s] = z.key[s] /\ z2.rpc[s] = z.rpc[s] /\ z2.log[s] = z.log[s]

\* What is queued or indexed is found through slot s.
Open(r, r2, z2, s) ==
    \A k \in Keys : \A v : get_switch_key(k) = s /\ Reach(r2, z2, k, rk(r, v))
                              => Low(r2, z2, k, rk(r, v))

\* A ranking that extends another keeps the ranks it had.
LEMMA SteadyIs ==
    ASSUME NEW r, NEW nr, Ranked(r, nr), NEW r2, NEW n2, Ranked(r2, n2), NEW u,
           Extends(r, r2, u)
    PROVE  Steady(r, r2)
  BY RankKept, RankNat DEF Steady

\* The threads and slots of keys.
LEMMA Homes ==
    ASSUME NEW k \in Keys
    PROVE  ix(k) \in IndexThreads /\ get_switch_key(k) \in SwitchKeys
  BY KeyRanges DEF ix

\* What is not above something found is found.
LEMMA ReachDown ==
    ASSUME NEW r, \A v : rk(r, v) \in Nat, NEW z, NEW k, NEW x \in Nat, NEW y \in Nat,
           Reach(r, z, k, y), x <= y
    PROVE  Reach(r, z, k, x)
  BY DEF Reach

\* The updates in a queue have ranks.
LEMMA QueuedRanks ==
    ASSUME NEW r, \A v : rk(r, v) \in Nat, NEW z, QueueOK(r, z), NEW i \in IndexThreads,
           NEW h \in DOMAIN z.s2i[i], NEW k \in Keys, Updates(z.s2i[i][h], k)
    PROVE  /\ Admitted(r, Val(z, z.s2i[i][h])) /\ rk(r, Val(z, z.s2i[i][h])) > 0
           /\ rk(r, Val(z, z.s2i[i][h])) > rk(r, Indexed(z, k))
  <1>1. rk(r, Val(z, z.s2i[i][h])) > rk(r, Indexed(z, k))
    BY DEF QueueOK, QueuedOK
  <1> QED
    BY <1>1 DEF Admitted

\* A packet enters the queue of an index thread.
Enters(z, z2, m, e) ==
    /\ z2.kv = z.kv /\ z2.pos = z.pos /\ z2.index = z.index /\ z2.i2s = z.i2s
    /\ m.key \in Keys /\ Pushed(z.s2i, z2.s2i, ix(m.key), m, e)

\* A packet that enters its index queue hides nothing a read of the queue could reach.
LEMMA EntersReach ==
    ASSUME NEW r, NEW r2, Steady(r, r2), NEW z, NEW z2, NEW m, NEW e, Enters(z, z2, m, e),
           IndexOK(r, z), QueueOK(r, z), NEW k \in Keys, NEW x \in Nat
    PROVE  /\ Reach(r, z, k, x) => Reach(r2, z2, k, x)
           /\ \A j \in DOMAIN z.s2i[ix(k)] :
                  ReachBefore(r2, z2, k, j, x) <=> ReachBefore(r, z, k, j, x)
           /\ k = m.key => (ReachBefore(r2, z2, k, e, x) <=> Reach(r, z, k, x))
  <1>i. PICK i : i = ix(k)
    OBVIOUS
  <1>0. i \in IndexThreads /\ \A v : rk(r, v) \in Nat /\ rk(r2, v) \in Nat
    BY <1>i, Homes DEF Steady
  <1>1. /\ Indexed(z2, k) = Indexed(z, k) /\ rk(r2, Indexed(z, k)) = rk(r, Indexed(z, k))
        /\ \A y : Val(z2, y) = Val(z, y)
    BY DEF Enters, Indexed, Val, IndexOK, Steady
  <1>2. \A h \in DOMAIN z.s2i[i] :
            /\ h \in Nat /\ h \in DOMAIN z2.s2i[i] /\ z2.s2i[i][h] = z.s2i[i][h]
            /\ k = m.key => h < e
            /\ Updates(z.s2i[i][h], k)
                 => rk(r2, Val(z, z.s2i[i][h])) = rk(r, Val(z, z.s2i[i][h]))
    <2>1. \A h \in DOMAIN z.s2i[i] : Updates(z.s2i[i][h], k)
                 => Admitted(r, Val(z, z.s2i[i][h]))
      BY <1>0, QueuedRanks
    <2> QED
      BY <1>0, <1>i, <2>1 DEF Enters, Pushed, Steady
  <1>3. \A h \in DOMAIN z2.s2i[i] :
            h \in DOMAIN z.s2i[i] \/ (h = e /\ i = ix(m.key))
    BY <1>0 DEF Enters, Pushed
  <1>4. i = ix(m.key) => \A h \in DOMAIN z.s2i[i] : h < e /\ h \in Nat
    BY <1>0 DEF Enters, Pushed
  <1>5. Reach(r, z, k, x) => Reach(r2, z2, k, x)
    BY <1>0, <1>1, <1>2, <1>i DEF Reach
  <1>6. ASSUME NEW j \in DOMAIN z.s2i[ix(k)]
        PROVE  ReachBefore(r2, z2, k, j, x) <=> ReachBefore(r, z, k, j, x)
    <2>1. \A h \in DOMAIN z2.s2i[i] : h < j => h \in DOMAIN z.s2i[i]
      <3>1. j \in Nat /\ e \in Nat /\ (i = ix(m.key) => j < e)
        BY <1>2, <1>4, <1>i, <1>6 DEF Enters, Pushed
      <3> QED
        BY <1>3, <3>1
    <2> QED
      BY <1>1, <1>2, <1>i, <2>1 DEF ReachBefore
  <1>7. ASSUME k = m.key
        PROVE  ReachBefore(r2, z2, k, e, x) <=> Reach(r, z, k, x)
    <2>1. \A h \in DOMAIN z2.s2i[i] : h < e => h \in DOMAIN z.s2i[i]
      <3>1. e \in Nat
        BY DEF Enters, Pushed
      <3> QED
        BY <1>3, <3>1
    <2> QED
      BY <1>1, <1>2, <1>7, <1>i, <2>1 DEF ReachBefore, Reach
  <1> QED
    BY <1>5, <1>6, <1>7

\* A slot that is kept hides what it hid, and is freed by what would free it.
LEMMA SlotSame ==
    ASSUME NEW z, NEW z2, NEW k, SlotKept(z, z2, get_switch_key(k)),
           z2.kv = z.kv
    PROVE  /\ Held(z2, k) <=> Held(z, k)
           /\ HeldVal(z2, k) = HeldVal(z, k)
           /\ \A m, op : Clears(z, m, op, get_switch_key(k))
                             <=> Clears(z2, m, op, get_switch_key(k))
  BY DEF SlotKept, Held, HeldVal, Clears, Owns, OnSlot

\* When only queues grow, what was found is found.
LEMMA RisesBy ==
    ASSUME NEW r, NEW r2, Steady(r, r2), NEW z, NEW z2, z2.kv = z.kv, SlotsOK(r, z),
           \A k \in Keys, x \in Nat : Reach(r, z, k, x) => Reach(r2, z2, k, x),
           \A s \in SwitchKeys : SlotKept(z, z2, s) \/ z2.key[s] = 0
    PROVE  Rises(r, z, r2, z2)
  <1> SUFFICES ASSUME NEW k \in Keys, NEW x \in Nat, Low(r, z, k, x)
               PROVE  Low(r2, z2, k, x)
    BY DEF Rises
  <1>s. PICK s : s = get_switch_key(k)
    OBVIOUS
  <1>0. s \in SwitchKeys /\ \A v : rk(r, v) \in Nat /\ rk(r2, v) \in Nat /\ rk(r, v) <= rk(r2, v)
    BY <1>s, Homes DEF Steady
  <1>1. CASE SlotKept(z, z2, s) /\ Held(z, k)
    <2>1. Held(z2, k) /\ HeldVal(z2, k) = HeldVal(z, k)
      BY <1>1, <1>s, SlotSame
    <2> QED
      BY <1>0, <1>1, <2>1 DEF Low
  <1>2. CASE ~ Held(z, k) /\ ~ Held(z2, k)
    BY <1>2 DEF Low
  <1>3. CASE SlotKept(z, z2, s) /\ ~ Held(z, k)
    BY <1>2, <1>3, <1>s, SlotSame
  <1>4. CASE z2.key[s] = 0 /\ Held(z, k)
    <2>1. Reach(r, z, k, rk(r, HeldVal(z, k))) /\ x <= rk(r, HeldVal(z, k))
      BY <1>0, <1>4, <1>s DEF Low, Held, HeldVal, SlotsOK, SlotOK
    <2>2. Reach(r, z, k, x)
      BY <1>0, <2>1, ReachDown
    <2>3. ~ Held(z2, k)
      BY <1>4, <1>s DEF Held
    <2> QED
      BY <2>2, <2>3 DEF Low
  <1>5. CASE z2.key[s] = 0 /\ ~ Held(z, k)
    BY <1>2, <1>5, <1>s DEF Held
  <1> QED
    BY <1>0, <1>1, <1>3, <1>4, <1>5

\* The order of the queue with a new packet, whose rank is above all others.
LEMMA EntersQueue ==
    ASSUME NEW r, NEW r2, Steady(r, r2), NEW z, NEW z2, NEW m, NEW e, Enters(z, z2, m, e),
           IndexOK(r, z), QueueOK(r, z),
           Updates(m, m.key) => \A v : rk(r, v) < rk(r2, Val(z, m))
    PROVE  QueueOK(r2, z2) /\ IndexOK(r2, z2)
  <1>0. /\ \A v : rk(r, v) \in Nat /\ rk(r2, v) \in Nat
        /\ \A k : Indexed(z2, k) = Indexed(z, k)
        /\ \A k \in Keys : rk(r2, Indexed(z, k)) = rk(r, Indexed(z, k))
        /\ \A y : Val(z2, y) = Val(z, y)
    BY DEF Enters, Indexed, Val, IndexOK, Steady
  <1>1. IndexOK(r2, z2)
    BY <1>0 DEF IndexOK, Enters, Known, Steady
  <1>2. ASSUME NEW i \in IndexThreads, NEW h \in DOMAIN z2.s2i[i], NEW k \in Keys,
               Updates(z2.s2i[i][h], k)
        PROVE  \/ /\ h \in DOMAIN z.s2i[i] /\ z2.s2i[i][h] = z.s2i[i][h]
                  /\ rk(r2, Val(z, z2.s2i[i][h])) = rk(r, Val(z, z2.s2i[i][h]))
                  /\ rk(r, Val(z, z2.s2i[i][h])) > rk(r, Indexed(z, k))
               \/ /\ i = ix(m.key) /\ h = e /\ z2.s2i[i][h] = m
                  /\ \A v : rk(r, v) < rk(r2, Val(z, z2.s2i[i][h]))
    <2>1. CASE h \in DOMAIN z.s2i[i] /\ z2.s2i[i][h] = z.s2i[i][h]
      BY <1>0, <1>2, <2>1, QueuedRanks DEF Steady
    <2>2. CASE i = ix(m.key) /\ h = e /\ z2.s2i[i][h] = m
      BY <1>2, <2>2 DEF Updates
    <2> QED
      BY <2>1, <2>2 DEF Enters, Pushed
  <1>3. ASSUME NEW i \in IndexThreads, NEW j \in DOMAIN z2.s2i[i] PROVE QueuedOK(r2, z2, i, j)
    <2> SUFFICES ASSUME NEW k \in Keys, Updates(z2.s2i[i][j], k)
                 PROVE  /\ rk(r2, Val(z, z2.s2i[i][j])) > rk(r2, Indexed(z, k))
                        /\ \A h \in DOMAIN z2.s2i[i] : j < h /\ Updates(z2.s2i[i][h], k) =>
                               rk(r2, Val(z, z2.s2i[i][j])) < rk(r2, Val(z, z2.s2i[i][h]))
      BY <1>0 DEF QueuedOK
    <2>1. rk(r2, Val(z, z2.s2i[i][j])) > rk(r2, Indexed(z, k))
      BY <1>0, <1>2
    <2>2. ASSUME NEW h \in DOMAIN z2.s2i[i], j < h, Updates(z2.s2i[i][h], k)
          PROVE  rk(r2, Val(z, z2.s2i[i][j])) < rk(r2, Val(z, z2.s2i[i][h]))
      <3>0. e \in Nat /\ (i = ix(m.key) => \A g \in DOMAIN z.s2i[i] : g \in Nat /\ g < e)
        BY DEF Enters, Pushed
      <3>1. j \in DOMAIN z.s2i[i]
        BY <1>2, <2>2, <3>0
      <3>2. CASE h \in DOMAIN z.s2i[i]
        <4>1. /\ z2.s2i[i][h] = z.s2i[i][h] /\ z2.s2i[i][j] = z.s2i[i][j]
          BY <3>1, <3>2 DEF Enters, Pushed
        <4>2. QueuedOK(r, z, i, j)
          BY <3>1 DEF QueueOK
        <4>3. rk(r, Val(z, z.s2i[i][j])) < rk(r, Val(z, z.s2i[i][h]))
          BY <2>2, <3>2, <4>1, <4>2 DEF QueuedOK
        <4>4. rk(r2, Val(z, z2.s2i[i][j])) = rk(r, Val(z, z2.s2i[i][j]))
          <5>1. rk(r, Val(z, z.s2i[i][j])) > 0
            BY <1>0, <3>1, <4>1, QueuedRanks
          <5> QED
            BY <4>1, <5>1 DEF Steady, Admitted
        <4>5. rk(r2, Val(z, z2.s2i[i][h])) = rk(r, Val(z, z2.s2i[i][h]))
          <5>1. rk(r, Val(z, z.s2i[i][h])) > 0
            BY <1>0, <2>2, <3>2, <4>1, QueuedRanks
          <5> QED
            BY <4>1, <5>1 DEF Steady, Admitted
        <4> QED
          BY <4>1, <4>3, <4>4, <4>5
      <3>3. CASE h \notin DOMAIN z.s2i[i]
        <4>1. \A v : rk(r, v) < rk(r2, Val(z, z2.s2i[i][h]))
          BY <1>2, <2>2, <3>3
        <4>2. rk(r2, Val(z, z2.s2i[i][j])) = rk(r, Val(z, z2.s2i[i][j]))
          <5>1. z2.s2i[i][j] = z.s2i[i][j]
            BY <3>1 DEF Enters, Pushed
          <5>2. rk(r, Val(z, z.s2i[i][j])) > 0
            BY <1>0, <3>1, <5>1, QueuedRanks
          <5> QED
            BY <5>1, <5>2 DEF Steady, Admitted
        <4> QED
          BY <4>1, <4>2
      <3> QED
        BY <3>2, <3>3
    <2> QED
      BY <2>1, <2>2
  <1> QED
    BY <1>1, <1>3 DEF QueueOK

\* The packets in the queues of index threads have their homes there.
Homed(z) ==
    \A i \in IndexThreads :
        /\ \A j \in DOMAIN z.s2i[i] : /\ z.s2i[i][j].key \in Keys /\ i = ix(z.s2i[i][j].key)
                                      /\ z.s2i[i][j].cli \in Coros
        /\ \A j \in DOMAIN z.i2s[i] : z.i2s[i][j].key \in Keys /\ i = ix(z.i2s[i][j].key)

\* In a step slot s is kept, or hides nothing afterwards.
Clean(r, r2, z, z2, s) ==
    \/ SlotKept(z, z2, s)
    \/ Open(r, r2, z2, s) /\ (z2.key[s] # 0 => SlotOK(r2, z2, s))

\* Only a slot that is kept can hide a value after the step.
LEMMA Hidden ==
    ASSUME NEW r, NEW r2, Steady(r, r2), NEW z, NEW z2, Rises(r, z, r2, z2),
           NEW k \in Keys, NEW v, rk(r, v) > 0, Reach(r, z, k, rk(r, v)),
           Clean(r, r2, z, z2, get_switch_key(k))
    PROVE  /\ Reach(r2, z2, k, rk(r2, v)) /\ rk(r2, v) > 0
           /\ \/ Low(r2, z2, k, rk(r2, v))
              \/ ~ Low(r, z, k, rk(r, v)) /\ SlotKept(z, z2, get_switch_key(k))
  <1>1. rk(r2, v) = rk(r, v) /\ rk(r, v) \in Nat
    BY DEF Steady, Admitted
  <1>2. Reach(r2, z2, k, rk(r, v)) /\ (Low(r, z, k, rk(r, v)) => Low(r2, z2, k, rk(r, v)))
    BY <1>1 DEF Rises
  <1> QED
    BY <1>1, <1>2 DEF Clean, Open

\* The slots after a step.
LEMMA SlotsClean ==
    ASSUME NEW r, NEW r2, Steady(r, r2), NEW z, NEW z2, Rises(r, z, r2, z2),
           z2.kv = z.kv, z2.pos = z.pos, SlotsOK(r, z),
           \A s \in SwitchKeys : Clean(r, r2, z, z2, s)
    PROVE  SlotsOK(r2, z2)
  <1> SUFFICES ASSUME NEW s \in SwitchKeys, z2.key[s] # 0 PROVE SlotOK(r2, z2, s)
    BY DEF SlotsOK
  <1>1. CASE SlotKept(z, z2, s)
    <2>e. PICK e : e = At(z.kv, z.log[s])
      OBVIOUS
    <2>1. /\ FLAGS_visibility /\ Within(z.pos, z.log[s])
          /\ e.key \in Keys /\ get_switch_key(e.key) = s /\ get_fingerprint(e.key) = z.key[s]
          /\ rk(r, e.val) > 0 /\ Reach(r, z, e.key, rk(r, e.val))
      BY <1>1, <2>e DEF SlotKept, SlotsOK, SlotOK
    <2>2. rk(r2, e.val) = rk(r, e.val) /\ rk(r, e.val) \in Nat
      BY <2>1 DEF Steady, Admitted
    <2>3. Reach(r2, z2, e.key, rk(r, e.val))
      BY <2>1, <2>2 DEF Rises
    <2> QED
      BY <1>1, <2>1, <2>2, <2>3, <2>e DEF SlotKept, SlotOK
  <1> QED
    BY <1>1 DEF Clean

\* A packet enters the queue of its index thread.
LEMMA EntersStore ==
    ASSUME NEW r, NEW r2, Steady(r, r2), NEW z, NEW z2, NEW m, NEW e, Enters(z, z2, m, e),
           NEW sn, StoreOK(r, z, sn), Homed(z), Rises(r, z, r2, z2),
           \A s \in SwitchKeys : Clean(r, r2, z, z2, s),
           Updates(m, m.key) => \A v : rk(r, v) < rk(r2, Val(z, m)),
           UpdateOK(r2, z2, ix(m.key), e), ReadOK(r2, z2, sn, ix(m.key), e),
           \A c \in Coros : \A o \in sn[c] : Admitted(r, o[1])
    PROVE  StoreOK(r2, z2, sn)
  <1>0. /\ IndexOK(r, z) /\ SlotsOK(r, z) /\ QueueOK(r, z) /\ LagOK(r, z) /\ ReadsOK(r, z, sn)
        /\ \A v : rk(r, v) \in Nat /\ rk(r2, v) \in Nat
        /\ z2.kv = z.kv /\ z2.pos = z.pos /\ z2.i2s = z.i2s /\ \A y : Val(z2, y) = Val(z, y)
    BY DEF StoreOK, Steady, Enters, Val
  <1>p. \A i \in IndexThreads : \A j \in DOMAIN z2.s2i[i] :
            \/ j \in DOMAIN z.s2i[i] /\ z2.s2i[i][j] = z.s2i[i][j] /\ j \in Nat
            \/ i = ix(m.key) /\ j = e
    BY DEF Enters, Pushed
  <1>q. \A i \in IndexThreads : \A j \in DOMAIN z.s2i[i] :
            j \in Nat /\ j \in DOMAIN z2.s2i[i] /\ z2.s2i[i][j] = z.s2i[i][j]
    BY DEF Enters, Pushed
  <1>1. IndexOK(r2, z2) /\ QueueOK(r2, z2)
    BY <1>0, EntersQueue
  <1>2. SlotsOK(r2, z2)
    BY <1>0, SlotsClean
  <1>3. ASSUME NEW i \in IndexThreads, NEW j \in DOMAIN z2.s2i[i]
        PROVE  UpdateOK(r2, z2, i, j)
    <2> SUFFICES ASSUME j \in DOMAIN z.s2i[i], z2.s2i[i][j] = z.s2i[i][j], j \in Nat,
                        z.s2i[i][j].op = UpdateIndexReq
                 PROVE  UpdateOK(r2, z2, i, j)
      BY <1>p DEF UpdateOK
    <2>y. PICK y : y = z.s2i[i][j]
      OBVIOUS
    <2>1. y.key \in Keys /\ i = ix(y.key) /\ Updates(y, y.key)
      BY <2>y DEF Homed, Updates
    <2>2. rk(r, Val(z, y)) > 0 /\ rk(r, Val(z, y)) \in Nat /\ Reach(r, z, y.key, rk(r, Val(z, y)))
      <3>1. rk(r, Val(z, y)) > 0 /\ rk(r, Val(z, y)) \in Nat
        BY <1>0, <2>1, <2>y, QueuedRanks
      <3>2. rk(r, Val(z, y)) <= rk(r, Val(z, y))
        BY <3>1
      <3> QED
        BY <2>1, <2>y, <3>1, <3>2 DEF Reach
    <2>3. \/ Low(r2, z2, y.key, rk(r2, Val(z, y)))
          \/ /\ ~ Low(r, z, y.key, rk(r, Val(z, y)))
             /\ SlotKept(z, z2, get_switch_key(y.key))
      BY <2>1, <2>2, Homes, Hidden
    <2>4. CASE /\ ~ Low(r, z, y.key, rk(r, Val(z, y)))
               /\ SlotKept(z, z2, get_switch_key(y.key))
      <3>1. \A p, op : Clears(z, p, op, get_switch_key(y.key))
                             <=> Clears(z2, p, op, get_switch_key(y.key))
        BY <1>0, <2>4, SlotSame
      <3>2. \/ Clearing(z, z.s2i[i], MultiCastPkt, j, get_switch_key(y.key))
            \/ Cleared(z, z.i2s[i], ReplySwitch, get_switch_key(y.key))
        BY <1>0, <2>4, <2>y DEF LagOK, UpdateOK
      <3>3. \/ Clearing(z2, z2.s2i[i], MultiCastPkt, j, get_switch_key(y.key))
            \/ Cleared(z2, z2.i2s[i], ReplySwitch, get_switch_key(y.key))
        BY <1>0, <1>q, <3>1, <3>2 DEF Clearing, Cleared
      <3> QED
        BY <2>y, <3>3 DEF UpdateOK
    <2> QED
      BY <1>0, <2>3, <2>4, <2>y DEF UpdateOK
  <1>4. ASSUME NEW i \in IndexThreads, NEW j \in DOMAIN z2.i2s[i]
        PROVE  ReplyOK(r2, z2, i, j)
    <2> SUFFICES ASSUME z.i2s[i][j].op = UpdateIndexReply
                 PROVE  ReplyOK(r2, z2, i, j)
      BY <1>0 DEF ReplyOK
    <2>y. PICK y : y = z.i2s[i][j]
      OBVIOUS
    <2>1. y.key \in Keys /\ ReplyOK(r, z, i, j)
      BY <1>0, <2>y DEF Homed, LagOK
    <2>2. /\ rk(r, Val(z, y)) > 0 /\ Reach(r, z, y.key, rk(r, Val(z, y)))
          /\ \/ Low(r, z, y.key, rk(r, Val(z, y)))
             \/ Clearing(z, z.i2s[i], ReplySwitch, j, get_switch_key(y.key))
      BY <2>1, <2>y DEF ReplyOK
    <2>3. /\ Reach(r2, z2, y.key, rk(r2, Val(z, y))) /\ rk(r2, Val(z, y)) > 0
          /\ \/ Low(r2, z2, y.key, rk(r2, Val(z, y)))
             \/ ~ Low(r, z, y.key, rk(r, Val(z, y))) /\ SlotKept(z, z2, get_switch_key(y.key))
      BY <2>1, <2>2, Homes, Hidden
    <2>4. CASE /\ ~ Low(r, z, y.key, rk(r, Val(z, y)))
               /\ SlotKept(z, z2, get_switch_key(y.key))
      <3>1. \A p, op : Clears(z, p, op, get_switch_key(y.key))
                             <=> Clears(z2, p, op, get_switch_key(y.key))
        BY <1>0, <2>4, SlotSame
      <3>2. Clearing(z2, z2.i2s[i], ReplySwitch, j, get_switch_key(y.key))
        BY <1>0, <2>2, <2>4, <3>1 DEF Clearing
      <3> QED
        BY <1>0, <2>3, <2>y, <3>2 DEF ReplyOK
    <2> QED
      BY <1>0, <2>3, <2>4, <2>y DEF ReplyOK
  <1>5. ASSUME NEW i \in IndexThreads, NEW j \in DOMAIN z2.s2i[i]
        PROVE  ReadOK(r2, z2, sn, i, j)
    <2> SUFFICES ASSUME j \in DOMAIN z.s2i[i], z2.s2i[i][j] = z.s2i[i][j],
                        z.s2i[i][j].op = ReadIndexReq
                 PROVE  ReadOK(r2, z2, sn, i, j)
      BY <1>p DEF ReadOK
    <2>y. PICK y : y = z.s2i[i][j]
      OBVIOUS
    <2>1. y.key \in Keys /\ i = ix(y.key) /\ y.cli \in Coros
      BY <2>y DEF Homed
    <2>2. /\ \A o \in sn[y.cli] : ReachBefore(r, z, y.key, j, rk(r, o[1]))
          /\ \A x \in Nat : ReachBefore(r, z, y.key, j, x) => Low(r, z, y.key, x)
      BY <1>0, <2>y DEF ReadsOK, ReadOK
    <2>3. \A x \in Nat : ReachBefore(r2, z2, y.key, j, x) <=> ReachBefore(r, z, y.key, j, x)
      BY <1>0, <2>1, EntersReach
    <2>4. \A o \in sn[y.cli] : rk(r2, o[1]) = rk(r, o[1]) /\ rk(r, o[1]) \in Nat
      BY <2>1 DEF Steady
    <2>5. \A x \in Nat : Low(r, z, y.key, x) => Low(r2, z2, y.key, x)
      BY <2>1 DEF Rises
    <2> QED
      BY <2>2, <2>3, <2>4, <2>5, <2>y DEF ReadOK
  <1> QED
    BY <1>1, <1>2, <1>3, <1>4, <1>5 DEF StoreOK, LagOK, ReadsOK

\* SwitchClient passes a read on that its slot does not answer.
LEMMA ReadEnters ==
    ASSUME NEW r, Steady(r, r), NEW z, NEW z2, NEW m, NEW e, Enters(z, z2, m, e),
           NEW sn, StoreOK(r, z, sn), Homed(z), m.op = ReadIndexReq,
           \A s \in SwitchKeys : SlotKept(z, z2, s), ~ Held(z, m.key),
           \A o \in sn[m.cli] : Low(r, z, m.key, rk(r, o[1])),
           \A c \in Coros : \A o \in sn[c] : Admitted(r, o[1])
    PROVE  StoreOK(r, z2, sn) /\ Rises(r, z, r, z2)
  <1>0. /\ IndexOK(r, z) /\ SlotsOK(r, z) /\ QueueOK(r, z) /\ \A v : rk(r, v) \in Nat
        /\ z2.kv = z.kv /\ m.key \in Keys /\ z2.s2i[ix(m.key)][e] = m
    BY DEF StoreOK, Steady, Enters, Pushed
  <1>1. Rises(r, z, r, z2)
    BY <1>0, EntersReach, RisesBy
  <1>2. \A x \in Nat : /\ ReachBefore(r, z2, m.key, e, x) <=> Reach(r, z, m.key, x)
                       /\ Reach(r, z, m.key, x) <=> Low(r, z, m.key, x)
                       /\ Low(r, z, m.key, x) => Low(r, z2, m.key, x)
    <2>1. \A x \in Nat : Reach(r, z, m.key, x) <=> Low(r, z, m.key, x)
      BY DEF Low
    <2> QED
      BY <1>0, <1>1, <2>1, EntersReach DEF Rises
  <1>3. ReadOK(r, z2, sn, ix(m.key), e)
    BY <1>0, <1>2 DEF ReadOK
  <1>4. UpdateOK(r, z2, ix(m.key), e) /\ ~ Updates(m, m.key)
    BY <1>0 DEF UpdateOK, Updates, ReadIndexReq, UpdateIndexReq, MultiCastPkt
  <1> QED
    BY <1>1, <1>3, <1>4, EntersStore DEF Clean

\* SwitchClient passes a slow update on: it gets its rank.
LEMMA UpdateEnters ==
    ASSUME NEW r, NEW r2, Steady(r, r2), NEW z, NEW z2, NEW m, NEW e, Enters(z, z2, m, e),
           NEW sn, StoreOK(r, z, sn), Homed(z), m.op = UpdateIndexReq,
           \A s \in SwitchKeys : SlotKept(z, z2, s),
           \A v : rk(r, v) < rk(r2, Val(z, m)),
           Held(z, m.key) =>
               \/ Cleared(z, z.s2i[ix(m.key)], MultiCastPkt, get_switch_key(m.key))
               \/ Cleared(z, z.i2s[ix(m.key)], ReplySwitch, get_switch_key(m.key)),
           \A c \in Coros : \A o \in sn[c] : Admitted(r, o[1])
    PROVE  StoreOK(r2, z2, sn) /\ Rises(r, z, r2, z2)
  <1>i. PICK i : i = ix(m.key)
    OBVIOUS
  <1>s. PICK s : s = get_switch_key(m.key)
    OBVIOUS
  <1>0. /\ IndexOK(r, z) /\ SlotsOK(r, z) /\ QueueOK(r, z)
        /\ \A v : rk(r, v) \in Nat /\ rk(r2, v) \in Nat
        /\ z2.kv = z.kv /\ z2.i2s = z.i2s /\ m.key \in Keys /\ z2.s2i[i][e] = m
        /\ e \in DOMAIN z2.s2i[i] /\ Val(z2, m) = Val(z, m)
        /\ \A h \in DOMAIN z.s2i[i] : /\ h < e /\ h \in DOMAIN z2.s2i[i]
                                      /\ z2.s2i[i][h] = z.s2i[i][h]
    BY <1>i DEF StoreOK, Steady, Enters, Pushed, Val
  <1>1. Rises(r, z, r2, z2)
    BY <1>0, EntersReach, RisesBy
  <1>2. SlotKept(z, z2, s)
    BY <1>0, <1>s, Homes
  <1>3. UpdateOK(r2, z2, i, e)
    <2>1. CASE Held(z, m.key)
      <3>1. \A p, op : Clears(z, p, op, s) <=> Clears(z2, p, op, s)
        BY <1>0, <1>2, <1>s, SlotSame
      <3>2. \/ Clearing(z2, z2.s2i[i], MultiCastPkt, e, s)
            \/ Cleared(z2, z2.i2s[i], ReplySwitch, s)
        BY <1>0, <1>i, <1>s, <2>1, <3>1 DEF Clearing, Cleared
      <3> QED
        BY <1>0, <1>s, <3>2 DEF UpdateOK
    <2>2. CASE ~ Held(z, m.key)
      <3>1. ~ Held(z2, m.key)
        BY <1>0, <1>2, <1>s, <2>2, SlotSame
      <3>2. Updates(m, m.key) /\ rk(r2, Val(z, m)) <= rk(r2, Val(z, m))
        BY <1>0 DEF Updates
      <3>3. Reach(r2, z2, m.key, rk(r2, Val(z2, m)))
        BY <1>0, <1>i, <3>2 DEF Reach
      <3> QED
        BY <1>0, <3>1, <3>3 DEF UpdateOK, Low
    <2> QED
      BY <2>1, <2>2
  <1>4. ReadOK(r2, z2, sn, i, e)
    BY <1>0 DEF ReadOK, ReadIndexReq, UpdateIndexReq
  <1> QED
    BY <1>1, <1>3, <1>4, <1>i, EntersStore DEF Clean

\* SwitchData grants a slot, which may have announced another write, and multicasts
\* the packet: the write gets its rank.
LEMMA GrantEnters ==
    ASSUME NEW r, NEW r2, Steady(r, r2), NEW z, NEW z2, NEW m, NEW e, Enters(z, z2, m, e),
           NEW sn, StoreOK(r, z, sn), Homed(z), m.op = MultiCastPkt, FLAGS_visibility,
           NEW s, s = get_switch_key(m.key), NEW u,
           \A t \in SwitchKeys : t # s => SlotKept(z, z2, t),
           z2.key[s] = get_fingerprint(m.key), z2.log[s] = m.log,
           Has(z.pos, z.kv, m.log, m.key, u), \A v : rk(r, v) < rk(r2, u),
           \A c \in Coros : \A o \in sn[c] : Admitted(r, o[1])
    PROVE  StoreOK(r2, z2, sn) /\ Rises(r, z, r2, z2)
  <1>0. /\ IndexOK(r, z) /\ SlotsOK(r, z) /\ QueueOK(r, z)
        /\ \A v : rk(r, v) \in Nat /\ rk(r2, v) \in Nat /\ rk(r, v) <= rk(r2, v)
        /\ z2.kv = z.kv /\ z2.pos = z.pos /\ m.key \in Keys /\ z2.s2i[ix(m.key)][e] = m
        /\ e \in DOMAIN z2.s2i[ix(m.key)]
    BY DEF StoreOK, Steady, Enters, Pushed
  <1>1. /\ At(z.kv, m.log).key = m.key /\ At(z.kv, m.log).val = u
        /\ Val(z, m) = u /\ Val(z2, m) = u /\ Within(z.pos, m.log)
    BY <1>0 DEF Has, Val
  <1>2. /\ get_fingerprint(m.key) # 0 /\ s \in SwitchKeys
    <2>1. get_fingerprint(m.key) \in 1 .. FingerprintSpace - 2
      BY <1>0, KeyRanges
    <2> QED
      BY <1>0, <2>1, Homes, WidthAssumption
  <1>3. /\ Held(z2, m.key) /\ HeldVal(z2, m.key) = u
        /\ \A k : get_switch_key(k) = s /\ k # m.key => ~ Held(z2, k)
    BY <1>0, <1>1, <1>2 DEF Held, HeldVal
  <1>4. \A k \in Keys, x \in Nat : Reach(r, z, k, x) => Reach(r2, z2, k, x)
    BY <1>0, EntersReach
  <1>5. ASSUME NEW k \in Keys, NEW x \in Nat, Low(r, z, k, x) PROVE Low(r2, z2, k, x)
    <2>1. CASE get_switch_key(k) # s
      <3>1. /\ Held(z2, k) <=> Held(z, k)
            /\ HeldVal(z2, k) = HeldVal(z, k)
        BY <1>0, <2>1, Homes, SlotSame
      <3> QED
        BY <1>0, <1>4, <1>5, <3>1 DEF Low
    <2>2. CASE k = m.key
      <3>1. \E v : x <= rk(r, v)
        BY <1>5 DEF Low, Reach
      <3> QED
        BY <1>0, <1>3, <2>2, <3>1 DEF Low
    <2>3. CASE get_switch_key(k) = s /\ k # m.key
      <3>1. CASE Held(z, k)
        <4>1. Reach(r, z, k, rk(r, HeldVal(z, k))) /\ x <= rk(r, HeldVal(z, k))
          BY <1>0, <1>2, <1>5, <2>3, <3>1 DEF Low, Held, HeldVal, SlotsOK, SlotOK
        <4>2. Reach(r, z, k, x)
          BY <1>0, <4>1, ReachDown
        <4> QED
          BY <1>3, <1>4, <2>3, <4>2 DEF Low
      <3>2. CASE ~ Held(z, k)
        BY <1>3, <1>4, <1>5, <2>3, <3>2 DEF Low
      <3> QED
        BY <3>1, <3>2
    <2> QED
      BY <2>1, <2>2, <2>3
  <1>6. Rises(r, z, r2, z2)
    BY <1>4, <1>5 DEF Rises
  <1>7. Open(r, r2, z2, s)
    <2> SUFFICES ASSUME NEW k \in Keys, NEW v, get_switch_key(k) = s,
                        Reach(r2, z2, k, rk(r, v))
                 PROVE  Low(r2, z2, k, rk(r, v))
      BY DEF Open
    <2> QED
      BY <1>0, <1>3 DEF Low
  <1>8. SlotOK(r2, z2, s)
    <2>1. rk(r2, u) > 0 /\ rk(r2, u) <= rk(r2, u)
      BY <1>0
    <2>2. Updates(m, m.key)
      BY DEF Updates
    <2>3. Reach(r2, z2, m.key, rk(r2, u))
      BY <1>0, <1>1, <2>1, <2>2 DEF Reach
    <2> QED
      BY <1>0, <1>1, <2>1, <2>3 DEF SlotOK
  <1>9. \A t \in SwitchKeys : Clean(r, r2, z, z2, t)
    BY <1>7, <1>8 DEF Clean
  <1>10. UpdateOK(r2, z2, ix(m.key), e) /\ ReadOK(r2, z2, sn, ix(m.key), e)
    BY <1>0 DEF UpdateOK, ReadOK, ReadIndexReq, UpdateIndexReq, MultiCastPkt
  <1> QED
    BY <1>1, <1>6, <1>9, <1>10, EntersStore

-----------------------------------------------------------------------------
(* An index thread serves a packet. *)

Serves(z, z2, i, m, y, e) ==
    /\ z2.kv = z.kv /\ z2.pos = z.pos /\ \A s \in SwitchKeys : SlotKept(z, z2, s)
    /\ m.key \in Keys /\ i = ix(m.key)
    /\ Popped(z.s2i, z2.s2i, i, m) /\ Pushed(z.i2s, z2.i2s, i, y, e)
    /\ \A k \in Keys : z2.index[k] = IF Updates(m, k) THEN m.log ELSE z.index[k]
    /\ Updates(m, m.key) => Within(z.pos, m.log) /\ At(z.kv, m.log).key = m.key

\* The place before it moves up.
Was(i, n, h) == IF n = i THEN h + 1 ELSE h

\* What is found before and after.
LEMMA ServesReach ==
    ASSUME NEW r, \A v : rk(r, v) \in Nat, NEW z, NEW z2, NEW i, NEW m, NEW y, NEW e,
           Serves(z, z2, i, m, y, e), QueueOK(r, z), NEW k \in Keys, NEW x \in Nat
    PROVE  /\ Reach(r, z, k, x) => Reach(r, z2, k, x)
           /\ \A j \in DOMAIN z2.s2i[ix(k)] :
                  ReachBefore(r, z2, k, j, x) <=> ReachBefore(r, z, k, Was(i, ix(k), j), x)
           /\ rk(r, Indexed(z, k)) <= rk(r, Indexed(z2, k))
  <1>n. PICK n : n = ix(k)
    OBVIOUS
  <1>0. n \in IndexThreads /\ i \in IndexThreads /\ (Updates(m, k) => k = m.key /\ n = i)
    BY <1>n, Homes DEF Serves, Updates
  <1>1. \A p : Val(z2, p) = Val(z, p)
    BY DEF Serves, Val
  <1>2. /\ ~ Updates(m, k) => Indexed(z2, k) = Indexed(z, k)
        /\ Updates(m, k) => /\ Indexed(z2, k) = Val(z, m)
                            /\ rk(r, Val(z, m)) > rk(r, Indexed(z, k))
    <2>1. ~ Updates(m, k) => Indexed(z2, k) = Indexed(z, k)
      BY DEF Serves, Indexed
    <2>2. ASSUME Updates(m, k)
          PROVE  /\ Indexed(z2, k) = Val(z, m)
                 /\ rk(r, Val(z, m)) > rk(r, Indexed(z, k))
      <3>1. 1 \in DOMAIN z.s2i[i] /\ z.s2i[i][1] = m
        BY DEF Serves, Popped
      <3>2. rk(r, Val(z, m)) > rk(r, Indexed(z, k))
        BY <1>0, <2>2, <3>1, QueuedRanks
      <3>3. z2.index[k] = m.log /\ At(z.kv, m.log).key = k
        BY <2>2 DEF Serves, Updates
      <3> QED
        BY <3>2, <3>3 DEF Serves, Indexed, Of, Val
    <2> QED
      BY <2>1, <2>2
  <1>3. \A g \in DOMAIN z.s2i[n] :
            /\ g \in Nat /\ g >= 1
            /\ \/ n = i /\ g = 1 /\ z.s2i[n][g] = m
               \/ \E h \in DOMAIN z2.s2i[n] :
                      g = Was(i, n, h) /\ z2.s2i[n][h] = z.s2i[n][g]
    BY <1>0 DEF Serves, Popped, Was
  <1>4. \A h \in DOMAIN z2.s2i[n] :
            /\ h \in Nat /\ h >= 1
            /\ \E g \in DOMAIN z.s2i[n] : g = Was(i, n, h) /\ z2.s2i[n][h] = z.s2i[n][g]
    BY <1>0 DEF Serves, Popped, Was
  <1>5. Reach(r, z, k, x) => Reach(r, z2, k, x)
    BY <1>1, <1>2, <1>3, <1>n DEF Reach
  <1>6. ASSUME NEW j \in DOMAIN z2.s2i[n]
        PROVE  ReachBefore(r, z2, k, j, x) <=> ReachBefore(r, z, k, Was(i, n, j), x)
    <2>0. j \in Nat /\ j >= 1
      BY <1>4
    <2>1. ASSUME ReachBefore(r, z2, k, j, x) PROVE ReachBefore(r, z, k, Was(i, n, j), x)
      <3>1. CASE x <= rk(r, Indexed(z2, k))
        <4>1. CASE Updates(m, k)
          <5>1. 1 \in DOMAIN z.s2i[n] /\ z.s2i[n][1] = m /\ 1 < Was(i, n, j)
            BY <1>0, <2>0, <4>1 DEF Serves, Popped, Was
          <5> QED
            BY <1>2, <1>n, <3>1, <4>1, <5>1 DEF ReachBefore
        <4>2. CASE ~ Updates(m, k)
          BY <1>2, <3>1, <4>2 DEF ReachBefore
        <4> QED
          BY <4>1, <4>2
      <3>2. CASE \E h \in DOMAIN z2.s2i[n] :
                      /\ h < j /\ Updates(z2.s2i[n][h], k)
                      /\ x <= rk(r, Val(z2, z2.s2i[n][h]))
        <4>1. PICK h \in DOMAIN z2.s2i[n] : /\ h < j /\ Updates(z2.s2i[n][h], k)
                                            /\ x <= rk(r, Val(z, z2.s2i[n][h]))
          BY <1>1, <3>2
        <4>2. PICK g \in DOMAIN z.s2i[n] : g = Was(i, n, h) /\ z2.s2i[n][h] = z.s2i[n][g]
          BY <1>4
        <4>3. g < Was(i, n, j)
          BY <1>4, <2>0, <4>1, <4>2 DEF Was
        <4> QED
          BY <1>n, <4>1, <4>2, <4>3 DEF ReachBefore
      <3> QED
        BY <1>n, <2>1, <3>1, <3>2 DEF ReachBefore
    <2>2. ASSUME ReachBefore(r, z, k, Was(i, n, j), x) PROVE ReachBefore(r, z2, k, j, x)
      <3>1. CASE x <= rk(r, Indexed(z, k))
        BY <1>2, <3>1 DEF ReachBefore
      <3>2. CASE \E g \in DOMAIN z.s2i[n] :
                      /\ g < Was(i, n, j) /\ Updates(z.s2i[n][g], k)
                      /\ x <= rk(r, Val(z, z.s2i[n][g]))
        <4>1. PICK g \in DOMAIN z.s2i[n] : /\ g < Was(i, n, j) /\ Updates(z.s2i[n][g], k)
                                           /\ x <= rk(r, Val(z, z.s2i[n][g]))
          BY <3>2
        <4>2. CASE n = i /\ g = 1 /\ z.s2i[n][g] = m
          BY <1>2, <4>1, <4>2 DEF ReachBefore
        <4>3. CASE \E h \in DOMAIN z2.s2i[n] :
                      g = Was(i, n, h) /\ z2.s2i[n][h] = z.s2i[n][g]
          <5>1. PICK h \in DOMAIN z2.s2i[n] : g = Was(i, n, h) /\ z2.s2i[n][h] = z.s2i[n][g]
            BY <4>3
          <5>2. h < j
            BY <1>4, <2>0, <4>1, <5>1 DEF Was
          <5> QED
            BY <1>1, <1>n, <4>1, <5>1, <5>2 DEF ReachBefore
        <4> QED
          BY <1>3, <4>2, <4>3
      <3> QED
        BY <1>n, <2>2, <3>1, <3>2 DEF ReachBefore
    <2> QED
      BY <2>1, <2>2
  <1> QED
    BY <1>2, <1>5, <1>6, <1>n

\* The order of what is left in the queue.
LEMMA ServesQueue ==
    ASSUME NEW r, Steady(r, r), NEW z, NEW z2, NEW i, NEW m, NEW y, NEW e,
           Serves(z, z2, i, m, y, e), IndexOK(r, z), QueueOK(r, z), Homed(z)
    PROVE  IndexOK(r, z2) /\ QueueOK(r, z2)
  <1>0. /\ \A v : rk(r, v) \in Nat /\ \A p : Val(z2, p) = Val(z, p)
        /\ i \in IndexThreads /\ 1 \in DOMAIN z.s2i[i] /\ z.s2i[i][1] = m
    BY DEF Serves, Val, Steady, Popped
  <1>1. ASSUME NEW k \in Keys
        PROVE  /\ Known(z2, z2.index[k]) /\ Admitted(r, Indexed(z2, k))
               /\ ~ Updates(m, k) => Indexed(z2, k) = Indexed(z, k)
               /\ Updates(m, k) => Indexed(z2, k) = Val(z, m)
    <2>1. CASE ~ Updates(m, k)
      BY <2>1 DEF Serves, Indexed, IndexOK, Known
    <2>2. CASE Updates(m, k)
      <3>1. Admitted(r, Val(z, m))
        BY <1>0, <2>2, QueuedRanks
      <3>2. z2.index[k] = m.log /\ At(z2.kv, m.log).key = k /\ Within(z2.pos, m.log)
        BY <2>2 DEF Serves, Updates
      <3> QED
        BY <2>2, <3>1, <3>2 DEF Serves, Indexed, Of, Val, Known
    <2> QED
      BY <2>1, <2>2
  <1>2. ASSUME NEW n \in IndexThreads, NEW j \in DOMAIN z2.s2i[n], NEW k \in Keys,
               Updates(z2.s2i[n][j], k)
        PROVE  /\ rk(r, Val(z, z2.s2i[n][j])) > rk(r, Indexed(z2, k))
               /\ \A h \in DOMAIN z2.s2i[n] : j < h /\ Updates(z2.s2i[n][h], k) =>
                      rk(r, Val(z, z2.s2i[n][j])) < rk(r, Val(z, z2.s2i[n][h]))
    <2>1. PICK g \in DOMAIN z.s2i[n] :
              g = (IF n = i THEN j + 1 ELSE j) /\ z2.s2i[n][j] = z.s2i[n][g]
      BY DEF Serves, Popped
    <2>2. j \in Nat /\ j >= 1
      BY DEF Serves, Popped
    <2>3. QueuedOK(r, z, n, g)
      BY DEF QueueOK
    <2>4. rk(r, Val(z, z2.s2i[n][j])) > rk(r, Indexed(z2, k))
      <3>1. CASE ~ Updates(m, k)
        BY <1>1, <1>2, <2>1, <2>3, <3>1 DEF QueuedOK
      <3>2. CASE Updates(m, k) /\ n = i
        <4>1. QueuedOK(r, z, i, 1) /\ 1 < g
          BY <1>0, <2>1, <2>2, <3>2 DEF QueueOK
        <4> QED
          BY <1>0, <1>1, <1>2, <2>1, <3>2, <4>1 DEF QueuedOK
      <3>3. CASE Updates(m, k) /\ n # i
        <4>1. n = ix(k)
          BY <1>2, <2>1 DEF Homed, Updates
        <4> QED
          BY <3>3, <4>1 DEF Updates, Serves
      <3> QED
        BY <3>1, <3>2, <3>3
    <2>5. ASSUME NEW h \in DOMAIN z2.s2i[n], j < h, Updates(z2.s2i[n][h], k)
          PROVE  rk(r, Val(z, z2.s2i[n][j])) < rk(r, Val(z, z2.s2i[n][h]))
      <3>1. PICK f \in DOMAIN z.s2i[n] :
                f = (IF n = i THEN h + 1 ELSE h) /\ z2.s2i[n][h] = z.s2i[n][f]
        BY DEF Serves, Popped
      <3>2. h \in Nat /\ g < f
        <4>1. h \in Nat
          BY DEF Serves, Popped
        <4> QED
          BY <2>1, <2>2, <2>5, <3>1, <4>1
      <3> QED
        BY <1>2, <2>1, <2>3, <2>5, <3>1, <3>2 DEF QueuedOK
    <2> QED
      BY <2>4, <2>5
  <1>3. QueueOK(r, z2)
    BY <1>0, <1>2 DEF QueueOK, QueuedOK
  <1> QED
    BY <1>1, <1>3 DEF IndexOK

\* What a packet becomes when the index thread has served it.
Answered(m, y) ==
    /\ y.key = m.key /\ m.op \in {MultiCastPkt, UpdateIndexReq, ReadIndexReq}
    /\ m.op = MultiCastPkt => y.op = ReplySwitch /\ y.log = m.log /\ rpc_id(y) = rpc_id(m)
    /\ m.op = UpdateIndexReq => y.op = UpdateIndexReply /\ y.log = m.log
    /\ m.op = ReadIndexReq => y.op = ReadIndexReply

\* IndexPut and IndexGet: a multicast ahead of a slow update becomes a ReplySwitch
\* ahead of its reply.
LEMMA ServesStore ==
    ASSUME NEW r, Steady(r, r), NEW z, NEW z2, NEW i, NEW m, NEW y, NEW e,
           Serves(z, z2, i, m, y, e), Answered(m, y), NEW sn, StoreOK(r, z, sn), Homed(z)
    PROVE  StoreOK(r, z2, sn) /\ Rises(r, z, r, z2)
  <1>0. /\ IndexOK(r, z) /\ SlotsOK(r, z) /\ QueueOK(r, z) /\ LagOK(r, z) /\ ReadsOK(r, z, sn)
        /\ \A v : rk(r, v) \in Nat /\ \A p : Val(z2, p) = Val(z, p)
        /\ z2.kv = z.kv /\ z2.pos = z.pos /\ i \in IndexThreads
        /\ \A s \in SwitchKeys : SlotKept(z, z2, s)
        /\ 1 \in DOMAIN z.s2i[i] /\ z.s2i[i][1] = m /\ m.key \in Keys /\ i = ix(m.key)
    BY DEF StoreOK, Steady, Serves, Popped, Val
  <1>r. Rises(r, z, r, z2)
    BY <1>0, ServesReach, RisesBy
  <1>1. IndexOK(r, z2) /\ QueueOK(r, z2)
    BY <1>0, ServesQueue
  <1>c. \A s \in SwitchKeys : Clean(r, r, z, z2, s)
    BY <1>0 DEF Clean
  <1>2. SlotsOK(r, z2)
    BY <1>0, <1>r, <1>c, SlotsClean
  <1>k. ASSUME NEW k \in Keys, NEW p, NEW op
        PROVE  Clears(z, p, op, get_switch_key(k)) <=> Clears(z2, p, op, get_switch_key(k))
    BY <1>0, Homes, SlotSame
  <1>p. \A n \in IndexThreads : \A h \in DOMAIN z2.s2i[n] :
            /\ h \in Nat /\ h >= 1
            /\ \E g \in DOMAIN z.s2i[n] : g = Was(i, n, h) /\ z2.s2i[n][h] = z.s2i[n][g]
    BY DEF Serves, Popped, Was
  <1>q. \A n \in IndexThreads : \A g \in DOMAIN z.s2i[n] :
            \/ n = i /\ g = 1 /\ z.s2i[n][g] = m
            \/ \E h \in DOMAIN z2.s2i[n] : g = Was(i, n, h) /\ z2.s2i[n][h] = z.s2i[n][g]
    BY DEF Serves, Popped, Was
  <1>b. /\ \A n \in IndexThreads : \A h \in DOMAIN z.i2s[n] :
               h \in DOMAIN z2.i2s[n] /\ z2.i2s[n][h] = z.i2s[n][h] /\ h \in Nat
        /\ \A n \in IndexThreads : \A h \in DOMAIN z2.i2s[n] :
               \/ h \in DOMAIN z.i2s[n] /\ z2.i2s[n][h] = z.i2s[n][h]
               \/ n = i /\ h = e /\ z2.i2s[n][h] = y
        /\ \A h \in DOMAIN z.i2s[i] : h < e
        /\ e \in DOMAIN z2.i2s[i] /\ z2.i2s[i][e] = y /\ e \in Nat
    BY DEF Serves, Pushed
  <1>3. ASSUME NEW n \in IndexThreads, NEW j \in DOMAIN z2.s2i[n],
               z2.s2i[n][j].op = UpdateIndexReq
        PROVE  UpdateOK(r, z2, n, j)
    <2>p. PICK p : p = z2.s2i[n][j]
      OBVIOUS
    <2>g. PICK g \in DOMAIN z.s2i[n] : g = Was(i, n, j) /\ p = z.s2i[n][g]
      BY <1>p, <2>p
    <2>s. PICK s : s = get_switch_key(p.key)
      OBVIOUS
    <2>1. p.key \in Keys /\ n = ix(p.key) /\ j \in Nat /\ j >= 1
      BY <1>p, <2>g DEF Homed
    <2>2. \/ Low(r, z, p.key, rk(r, Val(z, p)))
          \/ Clearing(z, z.s2i[n], MultiCastPkt, g, s)
          \/ Cleared(z, z.i2s[n], ReplySwitch, s)
      BY <1>0, <1>3, <2>g, <2>p, <2>s DEF LagOK, UpdateOK
    <2>3. CASE Low(r, z, p.key, rk(r, Val(z, p)))
      BY <1>0, <1>r, <2>1, <2>3, <2>p DEF Rises, UpdateOK
    <2>4. CASE Clearing(z, z.s2i[n], MultiCastPkt, g, s)
      <3>1. PICK h \in DOMAIN z.s2i[n] : h < g /\ Clears(z, z.s2i[n][h], MultiCastPkt, s)
        BY <2>4 DEF Clearing
      <3>2. Clears(z2, z.s2i[n][h], MultiCastPkt, s)
        BY <1>k, <2>1, <2>s, <3>1
      <3>3. CASE n = i /\ h = 1 /\ z.s2i[n][h] = m
        <4>1. Clears(z2, y, ReplySwitch, s)
          BY <3>2, <3>3 DEF Clears, OnSlot, Owns, Answered
        <4> QED
          BY <1>b, <2>p, <2>s, <3>3, <4>1 DEF UpdateOK, Cleared
      <3>4. CASE \E f \in DOMAIN z2.s2i[n] : h = Was(i, n, f) /\ z2.s2i[n][f] = z.s2i[n][h]
        <4>1. PICK f \in DOMAIN z2.s2i[n] : h = Was(i, n, f) /\ z2.s2i[n][f] = z.s2i[n][h]
          BY <3>4
        <4>0. f \in Nat
          BY <1>p
        <4>2. f < j
          <5>1. Was(i, n, f) < Was(i, n, j)
            BY <2>g, <3>1, <4>1
          <5> QED
            BY <2>1, <4>0, <5>1 DEF Was
        <4> QED
          BY <2>p, <2>s, <3>2, <4>1, <4>2 DEF UpdateOK, Clearing
      <3> QED
        BY <1>q, <3>3, <3>4
    <2>5. CASE Cleared(z, z.i2s[n], ReplySwitch, s)
      <3>1. PICK h \in DOMAIN z.i2s[n] : Clears(z, z.i2s[n][h], ReplySwitch, s)
        BY <2>5 DEF Cleared
      <3>2. Clears(z2, z.i2s[n][h], ReplySwitch, s)
        BY <1>k, <2>1, <2>s, <3>1
      <3> QED
        BY <1>b, <2>p, <2>s, <3>2 DEF UpdateOK, Cleared
    <2> QED
      BY <2>2, <2>3, <2>4, <2>5
  <1>4. ASSUME NEW n \in IndexThreads, NEW j \in DOMAIN z2.i2s[n],
               z2.i2s[n][j].op = UpdateIndexReply
        PROVE  ReplyOK(r, z2, n, j)
    <2>p. PICK p : p = z2.i2s[n][j]
      OBVIOUS
    <2>s. PICK s : s = get_switch_key(p.key)
      OBVIOUS
    <2>1. CASE j \in DOMAIN z.i2s[n] /\ p = z.i2s[n][j]
      <3>1. p.key \in Keys
        BY <2>1 DEF Homed
      <3>2. /\ rk(r, Val(z, p)) > 0 /\ Reach(r, z, p.key, rk(r, Val(z, p)))
            /\ \/ Low(r, z, p.key, rk(r, Val(z, p)))
               \/ Clearing(z, z.i2s[n], ReplySwitch, j, s)
        BY <1>0, <1>4, <2>1, <2>p, <2>s DEF LagOK, ReplyOK
      <3>3. /\ Reach(r, z2, p.key, rk(r, Val(z, p)))
            /\ Low(r, z, p.key, rk(r, Val(z, p))) => Low(r, z2, p.key, rk(r, Val(z, p)))
        BY <1>0, <1>r, <3>1, <3>2 DEF Rises
      <3>4. Clearing(z, z.i2s[n], ReplySwitch, j, s) => Clearing(z2, z2.i2s[n], ReplySwitch, j, s)
        <4>1. \A q : Clears(z, q, ReplySwitch, s) <=> Clears(z2, q, ReplySwitch, s)
          BY <1>k, <2>s, <3>1
        <4> QED
          BY <1>b, <4>1 DEF Clearing
      <3> QED
        BY <1>0, <2>p, <2>s, <3>2, <3>3, <3>4 DEF ReplyOK
    <2>2. CASE n = i /\ j = e /\ p = y
      <3>1. m.op = UpdateIndexReq /\ y.log = m.log /\ y.key = m.key
        BY <1>4, <2>2, <2>p DEF Answered, MultiCastPkt, UpdateIndexReq, ReadIndexReq,
                                ReplySwitch, UpdateIndexReply, ReadIndexReply
      <3>2. Updates(m, m.key) /\ Val(z, y) = Val(z, m)
        BY <3>1 DEF Updates, Val
      <3>3. rk(r, Val(z, m)) > 0
        BY <1>0, <3>2, QueuedRanks
      <3>4. Reach(r, z2, m.key, rk(r, Val(z, m)))
        <4>1. rk(r, Val(z, m)) <= rk(r, Val(z, m))
          BY <1>0
        <4>2. Reach(r, z, m.key, rk(r, Val(z, m)))
          BY <1>0, <3>2, <4>1 DEF Reach
        <4> QED
          BY <1>0, <1>r, <4>2 DEF Rises
      <3>5. \/ Low(r, z, m.key, rk(r, Val(z, m)))
            \/ Cleared(z, z.i2s[i], ReplySwitch, s)
        <4>1. \A h \in DOMAIN z.s2i[i] : ~ (h < 1)
          BY <1>0 DEF Serves, Popped
        <4>2. UpdateOK(r, z, i, 1)
          BY <1>0 DEF LagOK
        <4> QED
          BY <1>0, <2>2, <2>s, <3>1, <4>1, <4>2 DEF UpdateOK, Clearing
      <3>6. Low(r, z, m.key, rk(r, Val(z, m))) => Low(r, z2, m.key, rk(r, Val(z, m)))
        BY <1>0, <1>r DEF Rises
      <3>7. Cleared(z, z.i2s[i], ReplySwitch, s) => Clearing(z2, z2.i2s[i], ReplySwitch, e, s)
        <4>1. \A q : Clears(z, q, ReplySwitch, s) <=> Clears(z2, q, ReplySwitch, s)
          BY <1>0, <1>k, <2>2, <2>s, <3>1
        <4> QED
          BY <1>0, <1>b, <4>1 DEF Clearing, Cleared
      <3> QED
        BY <1>0, <2>2, <2>p, <2>s, <3>1, <3>2, <3>3, <3>4, <3>5, <3>6, <3>7 DEF ReplyOK
    <2> QED
      BY <1>b, <2>p, <2>1, <2>2
  <1>5. ASSUME NEW n \in IndexThreads, NEW j \in DOMAIN z2.s2i[n],
               z2.s2i[n][j].op = ReadIndexReq
        PROVE  ReadOK(r, z2, sn, n, j)
    <2>p. PICK p : p = z2.s2i[n][j]
      OBVIOUS
    <2>g. PICK g \in DOMAIN z.s2i[n] : g = Was(i, n, j) /\ p = z.s2i[n][g]
      BY <1>p, <2>p
    <2>1. p.key \in Keys /\ n = ix(p.key)
      BY <2>g DEF Homed
    <2>2. /\ \A o \in sn[p.cli] : ReachBefore(r, z, p.key, g, rk(r, o[1]))
          /\ \A x \in Nat : ReachBefore(r, z, p.key, g, x) => Low(r, z, p.key, x)
      BY <1>0, <1>5, <2>g, <2>p DEF ReadsOK, ReadOK
    <2>3. \A x \in Nat : ReachBefore(r, z2, p.key, j, x) <=> ReachBefore(r, z, p.key, g, x)
      <3>1. ASSUME NEW x \in Nat
            PROVE  \A h \in DOMAIN z2.s2i[ix(p.key)] :
                       ReachBefore(r, z2, p.key, h, x)
                         <=> ReachBefore(r, z, p.key, Was(i, ix(p.key), h), x)
        BY <1>0, <2>1, ServesReach
      <3> QED
        BY <2>1, <2>g, <3>1
    <2>4. \A x \in Nat : Low(r, z, p.key, x) => Low(r, z2, p.key, x)
      BY <1>r, <2>1 DEF Rises
    <2> QED
      BY <1>0, <2>2, <2>3, <2>4, <2>p DEF ReadOK
  <1>6. LagOK(r, z2)
    BY <1>3, <1>4 DEF LagOK, UpdateOK, ReplyOK
  <1>7. ReadsOK(r, z2, sn)
    BY <1>5 DEF ReadsOK, ReadOK
  <1> QED
    BY <1>r, <1>1, <1>2, <1>6, <1>7 DEF StoreOK

-----------------------------------------------------------------------------
(* A packet of an index thread comes back to the switch, which may free a slot. *)

Comes(z, z2, i, m) ==
    /\ z2.kv = z.kv /\ z2.pos = z.pos /\ z2.index = z.index /\ z2.s2i = z.s2i
    /\ Popped(z.i2s, z2.i2s, i, m)
    /\ \A s \in SwitchKeys : /\ SlotKept(z, z2, s) \/ z2.key[s] = 0
                             /\ Clears(z, m, ReplySwitch, s) => z2.key[s] = 0

\* A free slot hides nothing.
LEMMA FreeSlot ==
    ASSUME NEW r, NEW z, NEW k, NEW x, z.key[get_switch_key(k)] = 0
    PROVE  Low(r, z, k, x) <=> Reach(r, z, k, x)
  BY DEF Low, Held

\* SwitchIndex: the ReplySwitch that was ahead of the reply has freed the slot.
LEMMA ComesStore ==
    ASSUME NEW r, Steady(r, r), NEW z, NEW z2, NEW i, NEW m, Comes(z, z2, i, m),
           NEW sn, StoreOK(r, z, sn), Homed(z)
    PROVE  StoreOK(r, z2, sn) /\ Rises(r, z, r, z2)
  <1>0. /\ IndexOK(r, z) /\ SlotsOK(r, z) /\ QueueOK(r, z) /\ LagOK(r, z) /\ ReadsOK(r, z, sn)
        /\ \A v : rk(r, v) \in Nat /\ \A p : Val(z2, p) = Val(z, p)
        /\ z2.kv = z.kv /\ z2.pos = z.pos /\ z2.s2i = z.s2i /\ z2.index = z.index
        /\ \A k : Indexed(z2, k) = Indexed(z, k)
    BY DEF StoreOK, Steady, Comes, Val, Indexed
  <1>e. /\ \A k, x : Reach(r, z, k, x) <=> Reach(r, z2, k, x)
        /\ \A k, j, x : ReachBefore(r, z, k, j, x) <=> ReachBefore(r, z2, k, j, x)
    BY <1>0 DEF Reach, ReachBefore
  <1>r. Rises(r, z, r, z2)
    <2>1. \A s \in SwitchKeys : SlotKept(z, z2, s) \/ z2.key[s] = 0
      BY DEF Comes
    <2>2. \A k \in Keys, x \in Nat : Reach(r, z, k, x) => Reach(r, z2, k, x)
      BY <1>e
    <2> QED
      BY <1>0, <2>1, <2>2, RisesBy
  <1>1. IndexOK(r, z2) /\ QueueOK(r, z2)
    BY <1>0 DEF IndexOK, QueueOK, QueuedOK, Known
  <1>2. SlotsOK(r, z2)
    <2>1. \A s \in SwitchKeys : Clean(r, r, z, z2, s)
      BY FreeSlot DEF Clean, Comes, Open
    <2> QED
      BY <1>0, <1>r, <2>1, SlotsClean
  <1>p. /\ i \in IndexThreads /\ z.i2s[i][1] = m
        /\ \A n \in IndexThreads : \A h \in DOMAIN z2.i2s[n] :
               /\ h \in Nat
               /\ \E g \in DOMAIN z.i2s[n] : g = Was(i, n, h) /\ z2.i2s[n][h] = z.i2s[n][g]
        /\ \A n \in IndexThreads : \A g \in DOMAIN z.i2s[n] :
               \/ n = i /\ g = 1 /\ z.i2s[n][g] = m
               \/ \E h \in DOMAIN z2.i2s[n] : g = Was(i, n, h) /\ z2.i2s[n][h] = z.i2s[n][g]
    BY DEF Comes, Popped, Was
  <1>l. ASSUME NEW k \in Keys, NEW v, Reach(r, z, k, rk(r, v)),
               Low(r, z, k, rk(r, v)) \/ z2.key[get_switch_key(k)] = 0
        PROVE  Low(r, z2, k, rk(r, v))
    <2>1. CASE Low(r, z, k, rk(r, v))
      BY <1>0, <1>r, <2>1 DEF Rises
    <2>2. CASE z2.key[get_switch_key(k)] = 0
      BY <1>e, <1>l, <2>2, FreeSlot
    <2> QED
      BY <1>l, <2>1, <2>2
  <1>c. ASSUME NEW k \in Keys, z2.key[get_switch_key(k)] # 0, NEW p, NEW op,
               Clears(z, p, op, get_switch_key(k))
        PROVE  Clears(z2, p, op, get_switch_key(k)) /\ (op = ReplySwitch => p # m)
    <2>1. SlotKept(z, z2, get_switch_key(k)) /\ ~ Clears(z, m, ReplySwitch, get_switch_key(k))
      BY <1>c, Homes DEF Comes
    <2> QED
      BY <1>0, <1>c, <2>1, SlotSame
  <1>3. ASSUME NEW n \in IndexThreads, NEW j \in DOMAIN z2.s2i[n],
               z2.s2i[n][j].op = UpdateIndexReq
        PROVE  UpdateOK(r, z2, n, j)
    <2>p. PICK p : p = z.s2i[n][j]
      OBVIOUS
    <2>s. PICK s : s = get_switch_key(p.key)
      OBVIOUS
    <2>1. /\ p.key \in Keys /\ n = ix(p.key) /\ Updates(p, p.key)
      BY <1>0, <1>3, <2>p DEF Homed, Updates
    <2>2. Reach(r, z, p.key, rk(r, Val(z, p)))
      <3>1. rk(r, Val(z, p)) <= rk(r, Val(z, p))
        BY <1>0
      <3> QED
        BY <1>0, <2>1, <2>p, <3>1 DEF Reach
    <2>3. \/ Low(r, z, p.key, rk(r, Val(z, p)))
          \/ Clearing(z, z.s2i[n], MultiCastPkt, j, s)
          \/ Cleared(z, z.i2s[n], ReplySwitch, s)
      BY <1>0, <1>3, <2>p, <2>s DEF LagOK, UpdateOK
    <2>4. CASE Low(r, z, p.key, rk(r, Val(z, p))) \/ z2.key[s] = 0
      BY <1>0, <1>l, <2>1, <2>2, <2>4, <2>p, <2>s DEF UpdateOK
    <2>5. CASE Clearing(z, z.s2i[n], MultiCastPkt, j, s) /\ z2.key[s] # 0
      <3>1. Clearing(z2, z2.s2i[n], MultiCastPkt, j, s)
        BY <1>0, <1>c, <2>1, <2>5, <2>s DEF Clearing
      <3> QED
        BY <1>0, <2>p, <2>s, <3>1 DEF UpdateOK
    <2>6. CASE Cleared(z, z.i2s[n], ReplySwitch, s) /\ z2.key[s] # 0
      <3>1. Cleared(z2, z2.i2s[n], ReplySwitch, s)
        BY <1>p, <1>c, <2>1, <2>6, <2>s DEF Cleared
      <3> QED
        BY <1>0, <2>p, <2>s, <3>1 DEF UpdateOK
    <2> QED
      BY <2>3, <2>4, <2>5, <2>6
  <1>4. ASSUME NEW n \in IndexThreads, NEW j \in DOMAIN z2.i2s[n],
               z2.i2s[n][j].op = UpdateIndexReply
        PROVE  ReplyOK(r, z2, n, j)
    <2>p. PICK p : p = z2.i2s[n][j]
      OBVIOUS
    <2>g. PICK g \in DOMAIN z.i2s[n] : g = Was(i, n, j) /\ p = z.i2s[n][g]
      BY <1>p, <2>p
    <2>s. PICK s : s = get_switch_key(p.key)
      OBVIOUS
    <2>1. p.key \in Keys /\ j \in Nat
      BY <1>p, <2>g DEF Homed
    <2>2. /\ rk(r, Val(z, p)) > 0 /\ Reach(r, z, p.key, rk(r, Val(z, p)))
          /\ \/ Low(r, z, p.key, rk(r, Val(z, p)))
             \/ Clearing(z, z.i2s[n], ReplySwitch, g, s)
      BY <1>0, <1>4, <2>g, <2>p, <2>s DEF LagOK, ReplyOK
    <2>3. CASE Low(r, z, p.key, rk(r, Val(z, p))) \/ z2.key[s] = 0
      BY <1>0, <1>e, <1>l, <2>1, <2>2, <2>3, <2>p, <2>s DEF ReplyOK
    <2>4. CASE Clearing(z, z.i2s[n], ReplySwitch, g, s) /\ z2.key[s] # 0
      <3>1. PICK h \in DOMAIN z.i2s[n] : h < g /\ Clears(z, z.i2s[n][h], ReplySwitch, s)
        BY <2>4 DEF Clearing
      <3>2. Clears(z2, z.i2s[n][h], ReplySwitch, s) /\ z.i2s[n][h] # m
        BY <1>c, <2>1, <2>4, <2>s, <3>1
      <3>3. PICK f \in DOMAIN z2.i2s[n] : h = Was(i, n, f) /\ z2.i2s[n][f] = z.i2s[n][h]
        BY <1>p, <3>2
      <3>4. f < j
        <4>1. Was(i, n, f) < Was(i, n, j) /\ f \in Nat
          BY <1>p, <2>g, <3>1, <3>3
        <4> QED
          BY <2>1, <4>1 DEF Was
      <3>5. Clearing(z2, z2.i2s[n], ReplySwitch, j, s)
        BY <3>2, <3>3, <3>4 DEF Clearing
      <3> QED
        BY <1>0, <1>e, <2>2, <2>p, <2>s, <3>5 DEF ReplyOK
    <2> QED
      BY <2>2, <2>3, <2>4
  <1>5. LagOK(r, z2)
    BY <1>3, <1>4 DEF LagOK, UpdateOK, ReplyOK
  <1>6. ReadsOK(r, z2, sn)
    <2> SUFFICES ASSUME NEW n \in IndexThreads, NEW j \in DOMAIN z.s2i[n],
                        z.s2i[n][j].op = ReadIndexReq
                 PROVE  ReadOK(r, z2, sn, n, j)
      BY <1>0 DEF ReadsOK, ReadOK
    <2>1. z.s2i[n][j].key \in Keys /\ ReadOK(r, z, sn, n, j)
      BY <1>0 DEF Homed, ReadsOK
    <2> QED
      BY <1>0, <1>e, <1>r, <2>1 DEF ReadOK, Rises
  <1> QED
    BY <1>r, <1>1, <1>2, <1>5, <1>6 DEF StoreOK

-----------------------------------------------------------------------------
(* The other steps leave the queues of the index threads, the index and the slots *)
(* alone. The log may grow.                                                        *)

Keeps(z, z2) ==
    \A l : /\ Within(z.pos, l) => Within(z2.pos, l)
           /\ Known(z, l) => At(z2.kv, l) = At(z.kv, l)

\* The updates under way are in the log.
Logged(z) ==
    \A i \in IndexThreads :
        /\ \A j \in DOMAIN z.s2i[i] :
               z.s2i[i][j].op \in {MultiCastPkt, UpdateIndexReq} => Within(z.pos, z.s2i[i][j].log)
        /\ \A j \in DOMAIN z.i2s[i] :
               z.i2s[i][j].op = UpdateIndexReply => Within(z.pos, z.i2s[i][j].log)

Quiet(z, z2) ==
    /\ z2.index = z.index /\ z2.s2i = z.s2i /\ z2.i2s = z.i2s
    /\ \A s \in SwitchKeys : SlotKept(z, z2, s)
    /\ Keeps(z, z2)

\* A step that moves no index, queue or slot keeps the store's invariant.
LEMMA QuietStore ==
    ASSUME NEW r, Steady(r, r), NEW z, NEW z2, Quiet(z, z2), Logged(z), Homed(z),
           NEW sn, NEW sn2, StoreOK(r, z, sn),
           \A i \in IndexThreads : \A j \in DOMAIN z.s2i[i] :
               z.s2i[i][j].op = ReadIndexReq => sn2[z.s2i[i][j].cli] = sn[z.s2i[i][j].cli]
    PROVE  StoreOK(r, z2, sn2) /\ Rises(r, z, r, z2)
  <1>0. /\ IndexOK(r, z) /\ SlotsOK(r, z) /\ QueueOK(r, z) /\ LagOK(r, z) /\ ReadsOK(r, z, sn)
        /\ z2.index = z.index /\ z2.s2i = z.s2i /\ z2.i2s = z.i2s
        /\ \A s \in SwitchKeys : SlotKept(z, z2, s)
    BY DEF StoreOK, Quiet
  <1>l. \A l : Within(z.pos, l) => Within(z2.pos, l) /\ At(z2.kv, l) = At(z.kv, l)
    BY DEF Quiet, Keeps, Known
  <1>1. \A k \in Keys : Indexed(z2, k) = Indexed(z, k)
    BY <1>0 DEF IndexOK, Indexed, Quiet, Keeps
  <1>2. /\ \A i \in IndexThreads : \A j \in DOMAIN z.s2i[i] :
               /\ \A k : Updates(z.s2i[i][j], k)
                            => Val(z2, z.s2i[i][j]) = Val(z, z.s2i[i][j])
               /\ z.s2i[i][j].op = UpdateIndexReq
                      => Val(z2, z.s2i[i][j]) = Val(z, z.s2i[i][j])
        /\ \A i \in IndexThreads : \A j \in DOMAIN z.i2s[i] :
               z.i2s[i][j].op = UpdateIndexReply
                   => Val(z2, z.i2s[i][j]) = Val(z, z.i2s[i][j])
    BY <1>l DEF Logged, Val, Updates
  <1>3. ASSUME NEW k \in Keys
        PROVE  /\ \A x : Reach(r, z2, k, x) <=> Reach(r, z, k, x)
               /\ \A j, x : ReachBefore(r, z2, k, j, x) <=> ReachBefore(r, z, k, j, x)
    <2>i. PICK i : i = ix(k)
      OBVIOUS
    <2>1. i \in IndexThreads /\ Indexed(z2, k) = Indexed(z, k) /\ z2.s2i[i] = z.s2i[i]
      BY <1>0, <1>1, <2>i, Homes
    <2>2. \A j \in DOMAIN z.s2i[i] : Updates(z.s2i[i][j], k)
                                        => Val(z2, z.s2i[i][j]) = Val(z, z.s2i[i][j])
      BY <1>2, <2>1
    <2> QED
      BY <2>1, <2>2, <2>i DEF Reach, ReachBefore
  <1>4. \A s \in SwitchKeys : z.key[s] # 0 => /\ Within(z.pos, z.log[s]) /\ Within(z2.pos, z.log[s])
                                              /\ At(z2.kv, z.log[s]) = At(z.kv, z.log[s])
    BY <1>0, <1>l DEF SlotsOK, SlotOK
  <1>5. ASSUME NEW k \in Keys
        PROVE  \A x : Low(r, z2, k, x) <=> Low(r, z, k, x)
    <2>1. /\ Held(z2, k) <=> Held(z, k)
          /\ Held(z, k) => HeldVal(z2, k) = HeldVal(z, k)
      BY <1>0, <1>4, Homes DEF Held, HeldVal, SlotKept
    <2> QED
      BY <1>3, <2>1 DEF Low
  <1>6. IndexOK(r, z2)
    BY <1>0, <1>1, <1>l DEF IndexOK, Known
  <1>7. SlotsOK(r, z2)
    <2> SUFFICES ASSUME NEW s \in SwitchKeys, z.key[s] # 0 PROVE SlotOK(r, z2, s)
      BY <1>0 DEF SlotsOK, SlotKept
    <2>1. SlotOK(r, z, s) /\ z2.log[s] = z.log[s] /\ z2.key[s] = z.key[s]
      BY <1>0 DEF SlotsOK, SlotKept
    <2> QED
      BY <1>3, <1>4, <2>1 DEF SlotOK
  <1>8. QueueOK(r, z2)
    <2> SUFFICES ASSUME NEW i \in IndexThreads, NEW j \in DOMAIN z.s2i[i]
                 PROVE  QueuedOK(r, z2, i, j)
      BY <1>0 DEF QueueOK
    <2>1. QueuedOK(r, z, i, j) /\ z2.s2i = z.s2i
      BY <1>0 DEF QueueOK
    <2> QED
      BY <1>1, <1>2, <2>1, ZenonT(30) DEF QueuedOK
  <1>9. LagOK(r, z2)
    <2>1. \A m, op, s : s \in SwitchKeys => (Clears(z2, m, op, s) <=> Clears(z, m, op, s))
      BY <1>0 DEF Clears, OnSlot, Owns, SlotKept
    <2>2. ASSUME NEW i \in IndexThreads, NEW j \in DOMAIN z.s2i[i] PROVE UpdateOK(r, z2, i, j)
      <3>1. UpdateOK(r, z, i, j) /\ z.s2i[i][j].key \in Keys
        BY <1>0 DEF LagOK, Homed
      <3>2. get_switch_key(z.s2i[i][j].key) \in SwitchKeys
        BY <3>1, Homes
      <3> QED
        BY <1>0, <1>2, <1>5, <2>1, <3>1, <3>2 DEF UpdateOK, Clearing, Cleared
    <2>3. ASSUME NEW i \in IndexThreads, NEW j \in DOMAIN z.i2s[i] PROVE ReplyOK(r, z2, i, j)
      <3>1. ReplyOK(r, z, i, j) /\ z.i2s[i][j].key \in Keys
        BY <1>0 DEF LagOK, Homed
      <3>2. get_switch_key(z.i2s[i][j].key) \in SwitchKeys
        BY <3>1, Homes
      <3> QED
        BY <1>0, <1>2, <1>3, <1>5, <2>1, <3>1, <3>2 DEF ReplyOK, Clearing, Cleared
    <2> QED
      BY <1>0, <2>2, <2>3 DEF LagOK
  <1>10. ReadsOK(r, z2, sn2)
    <2> SUFFICES ASSUME NEW i \in IndexThreads, NEW j \in DOMAIN z.s2i[i]
                 PROVE  ReadOK(r, z2, sn2, i, j)
      BY <1>0 DEF ReadsOK
    <2>1. ReadOK(r, z, sn, i, j) /\ z.s2i[i][j].key \in Keys
      BY <1>0 DEF ReadsOK, Homed
    <2> QED
      BY <1>0, <1>3, <1>5, <2>1 DEF ReadOK
  <1>11. Rises(r, z, r, z2)
    BY <1>3, <1>5 DEF Rises
  <1> QED
    BY <1>6, <1>7, <1>8, <1>9, <1>10, <1>11 DEF StoreOK

-----------------------------------------------------------------------------
(* The packets and the history in a step. *)

\* The packets that stay in their queues.
LEMMA PacketsStep ==
    ASSUME LogInv, NEW f0, NEW n0, NEW S, NEW C, Step(f0, n0, S, C),
           NEW r, NEW r2, Steady(r, r2), NEW z, NEW z2, Keeps(z, z2), Rises(r, z, r2, z2),
           \A d \in Coros : d \notin C /\ ctx[d].pc # "free"
                                => rk(r2, ctx[d].val) = rk(r, ctx[d].val),
           \A d \in Coros : d \notin C => snap'[d] = snap[d],
           \A c \in Coros : \A o \in snap[c] : Admitted(r, o[1]),
           PacketsOK(r, z, ctx, snap, Net),
           \A f, n, x : <<f, n, x>> \in S => PacketOK(r2, z2, ctx', snap', f, n, x)
    PROVE  PacketsOK(r2, z2, ctx', snap', Net')
  <1> SUFFICES ASSUME NEW f \in Links, NEW n \in Ends(f), NEW j \in DOMAIN Net'[f][n]
               PROVE  PacketOK(r2, z2, ctx', snap', f, n, Net'[f][n][j])
    BY DEF PacketsOK
  <1>m. PICK m : m = Net'[f][n][j]
    OBVIOUS
  <1>1. CASE <<f, n, m>> \in S
    BY <1>m, <1>1
  <1>2. CASE \E h \in DOMAIN Net[f][n] : m = Net[f][n][h] /\ ~ (f = f0 /\ n = n0 /\ h = 1)
    <2>h. PICK h \in DOMAIN Net[f][n] : m = Net[f][n][h] /\ ~ (f = f0 /\ n = n0 /\ h = 1)
      BY <1>2
    <2>0. /\ PacketOK(r, z, ctx, snap, f, n, m) /\ m.cli \in Coros /\ m.key \in Keys
          /\ Answering(f, m) => ctx[m.cli].pc # "free" /\ m.cli \notin C
          /\ \A v : rk(r, v) \in Nat
      <3>1. PacketOK(r, z, ctx, snap, f, n, m)
        BY <2>h DEF PacketsOK
      <3>2. /\ m.cli \in Coros /\ m.key \in Keys
            /\ Answering(f, m) => ctx[m.cli].pc # "free"
        BY <2>h, Awaited DEF LogInv
      <3>3. Answering(f, m) => m.cli \notin C
        BY <2>h DEF Step, Still
      <3> QED
        BY <3>1, <3>2, <3>3 DEF Steady
    <2>1. PlaceOK(f, n, m)
      BY <2>0 DEF PacketOK
    <2>2. CASE ~ Answering(f, m)
      BY <1>m, <2>1, <2>2 DEF Answering, PacketOK, WriteOK, AskOK, LogOK, MultiCastPkt,
            ReplySwitch, AppendReq, AppendReply, UpdateIndexReq, UpdateIndexReply, ReadLog,
            ReadReply, ReadIndexReq, ReadIndexReply
    <2>3. CASE Answering(f, m)
      <3>c. PICK c : c = m.cli
        OBVIOUS
      <3>k. PICK k : k = m.key
        OBVIOUS
      <3>1. /\ c \in Coros /\ k \in Keys /\ ctx'[c] = ctx[c] /\ snap'[c] = snap[c]
            /\ rk(r2, ctx[c].val) = rk(r, ctx[c].val)
            /\ \A o \in snap[c] : rk(r2, o[1]) = rk(r, o[1])
        BY <2>0, <2>3, <3>c, <3>k DEF Step, Steady
      <3>2. \A v : Low(r, z, k, rk(r, v)) => Low(r2, z2, k, rk(r, v))
        BY <2>0, <3>1 DEF Rises
      <3>3. WriteOK(r2, z2, ctx', f, m)
        BY <2>0, <3>1, <3>2, <3>c, <3>k DEF PacketOK, WriteOK
      <3>4. AskOK(r2, z2, snap', f, m)
        BY <2>0, <3>1, <3>2, <3>c, <3>k DEF PacketOK, AskOK
      <3>5. \A e : GoodEntry(r, z, snap, c, k, e) => GoodEntry(r2, z2, snap', c, k, e)
        <4> SUFFICES ASSUME NEW e, Admitted(r, Of(k, e)), Low(r, z, k, rk(r, Of(k, e))),
                            \A o \in snap[c] : rk(r, o[1]) <= rk(r, Of(k, e))
                     PROVE  /\ Admitted(r2, Of(k, e)) /\ Low(r2, z2, k, rk(r2, Of(k, e)))
                            /\ \A o \in snap'[c] : rk(r2, o[1]) <= rk(r2, Of(k, e))
          BY DEF GoodEntry
        <4>1. Admitted(r2, Of(k, e)) /\ rk(r2, Of(k, e)) = rk(r, Of(k, e))
          BY DEF Steady
        <4> QED
          BY <3>1, <3>2, <4>1
      <3>6. \A l : GoodLog(r, z, snap, c, k, l) => GoodLog(r2, z2, snap', c, k, l)
        BY <3>5 DEF GoodLog, Keeps, Known
      <3>7. LogOK(r2, z2, snap', f, n, m)
        BY <2>0, <3>5, <3>6, <3>c, <3>k DEF PacketOK, LogOK
      <3> QED
        BY <1>m, <2>1, <3>3, <3>4, <3>7 DEF PacketOK
    <2> QED
      BY <2>2, <2>3
  <1> QED
    BY <1>m, <1>1, <1>2 DEF Step, Arrives

\* A pair of the history, when an update gets its rank.
LEMMA BeforeStep ==
    ASSUME NEW r, NEW r2, Steady(r, r2), NEW u, Extends(r, r2, u), NEW p, Before(r, p)
    PROVE  Before(r2, p)
  <1>1. /\ \A v : rk(r, v) \in Nat /\ rk(r2, v) \in Nat
        /\ Admitted(r2, p[1]) /\ rk(r2, p[1]) = rk(r, p[1]) /\ p[2] # 0
    BY DEF Steady, Before
  <1>2. rk(r, p[2]) > 0 => rk(r2, p[2]) = rk(r, p[2]) /\ rk(r, p[1]) < rk(r, p[2])
    BY DEF Steady, Before, Admitted
  <1>3. \/ rk(r2, p[2]) = rk(r, p[2])
        \/ rk(r, p[1]) < rk(r2, p[2])
    BY DEF Extends
  <1> QED
    BY <1>1, <1>2, <1>3 DEF Before

\* A step in which no request starts or ends.
LEMMA HistoryStep ==
    ASSUME NEW r, NEW r2, Steady(r, r2), NEW u, Extends(r, r2, u), NEW z, NEW z2,
           Rises(r, z, r2, z2), HistoryOK(r, z, ctx, seen, snap, prec), UNCHANGED histVars,
           \A c \in Coros : ctx'[c].pc \in {"put_value", "put_index"} =>
               /\ ctx[c].pc \in {"put_value", "put_index"}
               /\ ctx'[c].val = ctx[c].val /\ ctx'[c].key = ctx[c].key
    PROVE  HistoryOK(r2, z2, ctx', seen', snap', prec')
  <1>1. seen' = seen /\ snap' = snap /\ prec' = prec
    BY DEF histVars
  <1>2. ASSUME NEW k \in Keys, NEW o \in seen[k]
        PROVE  Admitted(r2, o[1]) /\ Low(r2, z2, k, rk(r2, o[1]))
    <2>1. Admitted(r, o[1]) /\ Low(r, z, k, rk(r, o[1]))
      BY DEF HistoryOK
    <2>2. Admitted(r2, o[1]) /\ rk(r2, o[1]) = rk(r, o[1]) /\ rk(r, o[1]) \in Nat
      BY <2>1 DEF Steady
    <2> QED
      BY <2>1, <2>2 DEF Rises
  <1>3. \A k \in Keys : \A p \in prec[k] : Before(r2, p)
    BY BeforeStep DEF HistoryOK
  <1>4. \A c \in Coros : \A o \in snap[c] : Admitted(r2, o[1])
    BY DEF HistoryOK, Steady
  <1>5. \A c \in Coros : ctx'[c].pc \in {"put_value", "put_index"} =>
           After(snap[c], ctx'[c].val) \subseteq prec[ctx'[c].key]
    BY DEF HistoryOK
  <1> QED
    BY <1>1, <1>2, <1>3, <1>4, <1>5 DEF HistoryOK

-----------------------------------------------------------------------------
(* The view of a state. *)

\* The parts of the view.
LEMMA ViewIs ==
    /\ View.kv = kv /\ View.pos = pos /\ View.index = index
    /\ View.s2i = s2i /\ View.i2s = i2s
    /\ View.key = regs.key /\ View.rpc = regs.rpc /\ View.log = regs.log
    /\ View'.kv = kv' /\ View'.pos = pos' /\ View'.index = index'
    /\ View'.s2i = s2i' /\ View'.i2s = i2s'
    /\ View'.key = regs'.key /\ View'.rpc = regs'.rpc /\ View'.log = regs'.log
  BY DEF View

\* A step keeps the log entries that are known.
LEMMA ViewKeeps ==
    ASSUME NEW f0, NEW n0, NEW S, NEW C, Step(f0, n0, S, C), Preloaded, Preloaded',
           NEW z, z = View, NEW z2, z2 = View'
    PROVE  Keeps(z, z2)
  <1>1. \A l : Within(pos, l) => Within(pos', l) /\ At(kv', l) = At(kv, l)
    BY DEF Step, Appended, Entry
  <1>2. At(kv', Preload) = At(kv, Preload)
    BY DEF Preloaded
  <1>3. z.kv = kv /\ z.pos = pos /\ z2.kv = kv' /\ z2.pos = pos'
    BY ViewIs
  <1> QED
    BY <1>1, <1>2, <1>3 DEF Keeps, Known

\* The packets of the index threads are where their keys belong.
LEMMA ViewHomed ==
    ASSUME LogInv, NEW r, NEW z, z = View, PacketsOK(r, z, ctx, snap, Net)
    PROVE  Homed(z)
  <1>1. z.s2i = Net["s2i"] /\ z.i2s = Net["i2s"] /\ "s2i" \in Links /\ "i2s" \in Links
    BY ViewIs, NetIs DEF Links
  <1>2. ASSUME NEW f \in {"s2i", "i2s"}, NEW i \in IndexThreads, NEW j \in DOMAIN Net[f][i]
        PROVE  /\ Net[f][i][j].key \in Keys /\ Net[f][i][j].cli \in Coros
               /\ i = ix(Net[f][i][j].key)
    <2>1. f \in Links /\ i \in Ends(f)
      BY EndsAre DEF Links
    <2>2. Net[f][i][j].key \in Keys /\ Net[f][i][j].cli \in Coros
      BY <2>1, Awaited DEF LogInv
    <2>3. PacketOK(r, z, ctx, snap, f, i, Net[f][i][j])
      BY <2>1 DEF PacketsOK
    <2>4. PlaceOK(f, i, Net[f][i][j])
      BY <2>3 DEF PacketOK
    <2> QED
      BY <2>2, <2>4 DEF PlaceOK
  <1> QED
    BY <1>1, <1>2 DEF Homed

\* The updates under way are in the log.
LEMMA ViewLogged ==
    ASSUME LogInv, NEW z, z = View
    PROVE  Logged(z)
  <1>1. /\ z.s2i = Net["s2i"] /\ z.i2s = Net["i2s"] /\ z.pos = pos
        /\ "s2i" \in Links /\ "i2s" \in Links
    BY ViewIs, NetIs DEF Links
  <1>2. ASSUME NEW f \in {"s2i", "i2s"}, NEW i \in IndexThreads, NEW j \in DOMAIN Net[f][i],
               Net[f][i][j].op \in {MultiCastPkt, UpdateIndexReq, UpdateIndexReply}
        PROVE  Within(pos, Net[f][i][j].log)
    <2>m. PICK m : m = Net[f][i][j]
      OBVIOUS
    <2>1. Sound(Net, pos, kv, ctx, nreq, f, m)
      BY <2>m, EndsAre DEF LogInv, Carried, Carries, Links
    <2>2. CASE Answering(f, m)
      BY <1>2, <2>1, <2>2, <2>m DEF Sound, WriteReplies, Has
    <2>3. CASE ~ Answering(f, m)
      BY <2>1, <2>3, <2>m DEF Sound, Has
    <2> QED
      BY <2>2, <2>3, <2>m
  <1> QED
    BY <1>1, <1>2 DEF Logged

\* Nothing is recorded when no request starts or ends.
LEMMA Unrecorded ==
    ASSUME Record, \A c \in Coros : ctx[c].pc = "free" <=> ctx'[c].pc = "free"
    PROVE  UNCHANGED histVars
  BY DEF Record, Called, Returned

\* The invariant after a step in which no request starts or ends.
LEMMA LinearStep ==
    ASSUME LogInv, Record, Preloaded, Preloaded', NEW f0, NEW n0, NEW S, NEW C,
           Step(f0, n0, S, C), NEW r, LinearOK(r), NEW r2, NEW u, Extends(r, r2, u),
           Ranked(r2, nreq'), NEW z, z = View, NEW z2, z2 = View',
           StoreOK(r2, z2, snap), Rises(r, z, r2, z2),
           \A c \in Coros : ctx[c].pc = "free" <=> ctx'[c].pc = "free",
           \A c \in Coros : ctx'[c].pc \in {"put_value", "put_index"} =>
               /\ ctx[c].pc \in {"put_value", "put_index"}
               /\ ctx'[c].val = ctx[c].val /\ ctx'[c].key = ctx[c].key,
           \A d \in Coros : d \notin C /\ ctx[d].pc # "free" => ctx[d].val # u,
           \A f, n, x : <<f, n, x>> \in S => PacketOK(r2, z2, ctx', snap, f, n, x)
    PROVE  LinearOK(r2)'
  <1>1. /\ Ranked(r, nreq) /\ PacketsOK(r, z, ctx, snap, Net)
        /\ HistoryOK(r, z, ctx, seen, snap, prec)
    BY DEF LinearOK
  <1>2. Steady(r, r2)
    BY <1>1, SteadyIs
  <1>3. UNCHANGED histVars /\ snap' = snap
    BY Unrecorded DEF histVars
  <1>4. Keeps(z, z2)
    BY ViewKeeps
  <1>5. HistoryOK(r2, z2, ctx', seen', snap', prec')
    BY <1>1, <1>2, <1>3, HistoryStep
  <1>6. \A c \in Coros : \A o \in snap[c] : Admitted(r, o[1])
    BY <1>1 DEF HistoryOK
  <1>7. \A d \in Coros : d \notin C /\ ctx[d].pc # "free"
                             => rk(r2, ctx[d].val) = rk(r, ctx[d].val)
    BY DEF Extends
  <1>8. PacketsOK(r2, z2, ctx', snap', Net')
    BY <1>1, <1>2, <1>3, <1>4, <1>6, <1>7, PacketsStep
  <1> QED
    BY <1>3, <1>5, <1>8 DEF LinearOK

-----------------------------------------------------------------------------
(* Steps that leave the queues of the index threads, the index and the slots alone. *)

QuietState ==
    /\ UNCHANGED <<s2i, i2s, index>> /\ nreq' = nreq
    /\ \A s \in SwitchKeys : SameOwner(s)

\* What is known of a state and of a step.
LEMMA LinearParts ==
    ASSUME NEW r, LinearOK(r), NEW z, z = View
    PROVE  /\ Ranked(r, nreq) /\ Steady(r, r) /\ Extends(r, r, 0) /\ StoreOK(r, z, snap)
           /\ PacketsOK(r, z, ctx, snap, Net) /\ HistoryOK(r, z, ctx, seen, snap, prec)
           /\ \A c \in Coros : \A o \in snap[c] : Admitted(r, o[1])
           /\ \A v : rk(r, v) \in Nat
  <1>1. /\ Ranked(r, nreq) /\ StoreOK(r, z, snap)
        /\ PacketsOK(r, z, ctx, snap, Net) /\ HistoryOK(r, z, ctx, seen, snap, prec)
    BY DEF LinearOK
  <1>2. Extends(r, r, 0)
    BY DEF Extends
  <1>3. Steady(r, r)
    BY <1>1, <1>2, SteadyIs
  <1> QED
    BY <1>1, <1>2, <1>3 DEF HistoryOK, Steady

\* What holds of a packet that is taken.
LEMMA TakenOK ==
    ASSUME TypeOK, NEW r, LinearOK(r), NEW z, z = View, NEW f, NEW n, NEW m, Takes(f, n, m)
    PROVE  PacketOK(r, z, ctx, snap, f, n, m)
  <1>1. f \in Links /\ n \in Ends(f) /\ 1 \in DOMAIN Net[f][n] /\ m = Net[f][n][1]
    BY TakenType
  <1> QED
    BY <1>1 DEF LinearOK, PacketsOK

\* A quiet step keeps what reads find.
LEMMA QuietRises ==
    ASSUME LogInv, Preloaded, Preloaded', NEW f0, NEW n0, NEW S, NEW C,
           Step(f0, n0, S, C), NEW r, LinearOK(r), QuietState,
           NEW z, z = View, NEW z2, z2 = View'
    PROVE  StoreOK(r, z2, snap) /\ Rises(r, z, r, z2) /\ Keeps(z, z2)
  <1>1. Keeps(z, z2) /\ Logged(z)
    BY ViewKeeps, ViewLogged
  <1>2. Steady(r, r) /\ StoreOK(r, z, snap) /\ PacketsOK(r, z, ctx, snap, Net)
    BY LinearParts
  <1>3. Homed(z)
    BY <1>2, ViewHomed
  <1>4. /\ z2.index = z.index /\ z2.s2i = z.s2i /\ z2.i2s = z.i2s
        /\ \A s \in SwitchKeys : SlotKept(z, z2, s)
    BY ViewIs DEF QuietState, SameOwner, SlotKept
  <1>5. Quiet(z, z2)
    BY <1>1, <1>4 DEF Quiet
  <1> QED
    BY <1>1, <1>2, <1>3, <1>5, QuietStore

\* A log id and an entry that answer a read go on doing so.
LEMMA GoodKept ==
    ASSUME NEW r, NEW z, NEW z2, Steady(r, r), Keeps(z, z2), Rises(r, z, r, z2),
           NEW k \in Keys, NEW c
    PROVE  /\ \A l : GoodLog(r, z, snap, c, k, l) => GoodLog(r, z2, snap, c, k, l)
           /\ \A e : GoodEntry(r, z, snap, c, k, e) => GoodEntry(r, z2, snap, c, k, e)
  <1>1. \A v : rk(r, v) \in Nat /\ (Low(r, z, k, rk(r, v)) => Low(r, z2, k, rk(r, v)))
    BY DEF Steady, Rises
  <1>2. \A e : GoodEntry(r, z, snap, c, k, e) => GoodEntry(r, z2, snap, c, k, e)
    BY <1>1 DEF GoodEntry
  <1> QED
    BY <1>2 DEF GoodLog, Keeps, Known

\* A quiet step in which no request starts or ends.
LEMMA QuietStep ==
    ASSUME LogInv, Record, Preloaded, Preloaded', NEW f0, NEW n0, NEW S, NEW C,
           Step(f0, n0, S, C), NEW r, LinearOK(r), QuietState,
           NEW z2, z2 = View',
           \A c \in Coros : ctx[c].pc = "free" <=> ctx'[c].pc = "free",
           \A c \in Coros : ctx'[c].pc \in {"put_value", "put_index"} =>
               /\ ctx[c].pc \in {"put_value", "put_index"}
               /\ ctx'[c].val = ctx[c].val /\ ctx'[c].key = ctx[c].key,
           \A f, n, x : <<f, n, x>> \in S => PacketOK(r, z2, ctx', snap, f, n, x)
    PROVE  LinearOK(r)'
  <1>z. PICK z : z = View
    OBVIOUS
  <1>1. Ranked(r, nreq') /\ Extends(r, r, 0)
    BY <1>z, LinearParts DEF QuietState
  <1>2. StoreOK(r, z2, snap) /\ Rises(r, z, r, z2)
    BY <1>z, QuietRises
  <1>3. \A d \in Coros : d \notin C /\ ctx[d].pc # "free" => ctx[d].val # 0
    BY DEF LogInv, Values
  <1> QED
    BY <1>z, <1>1, <1>2, <1>3, LinearStep

\* put_value returned with an AppendReply: the client updates the index.
LEMMA LinearDefers ==
    ASSUME LogInv, Record, Preloaded, Preloaded', NEW r, LinearOK(r),
           NEW t, NEW m \in RawKvMsg, NEW x, Defers(t, m, x)
    PROVE  LinearOK(r)'
  <1>z. PICK z : z = View
    OBVIOUS
  <1>2. PICK z2 : z2 = View'
    OBVIOUS
  <1>c. PICK c : c = m.cli
    OBVIOUS
  <1>0. /\ Takes("s2c", t, m) /\ StoreSame /\ nreq' = nreq
        /\ m.op \in {AppendReply, MultiCastPkt} /\ (FLAGS_visibility => m.op = AppendReply)
        /\ ctx'[c].pc = "put_index" /\ ctx'[c].key = m.key /\ ctx'[c].val = ctx[c].val
        /\ x = put_index(c, ctx'[c]) /\ Step("s2c", t, {<<"c2s", t, x>>}, {c})
    BY <1>c DEF Defers
  <1>1. /\ TypeOK /\ SoleAnswer /\ c \in Coros /\ m.key \in Keys /\ Answering("s2c", m)
    BY <1>0, <1>c, TakenType DEF LogInv, Answering
  <1>3. m.op = AppendReply
    <2>1. Sound(Net, pos, kv, ctx, nreq, "s2c", m)
      BY <1>0, TakenSound
    <2> QED
      BY <1>0, <2>1 DEF Sound
  <1>4. Fits(ctx[c], "s2c", m) /\ ctx[c].pc # "free"
    BY <1>0, <1>1, <1>c, TakenFits
  <1>5. ctx[c].pc = "put_value" /\ ctx[c].key = m.key
    BY <1>3, <1>4 DEF Fits, Stage, AppendReply, AppendReq, MultiCastPkt, UpdateIndexReq,
          UpdateIndexReply, ReadIndexReq, ReadIndexReply, ReadLog, ReadReply
  <1>6. \A d \in Coros : d # c => ctx'[d] = ctx[d]
    BY <1>0 DEF Step
  <1>7. QuietState
    BY <1>0 DEF QuietState, StoreSame, SameOwner
  <1>8. rk(r, ctx'[c].val) = 0
    <2>1. PacketOK(r, z, ctx, snap, "s2c", t, m)
      BY <1>0, <1>1, <1>z, TakenOK
    <2> QED
      BY <1>0, <1>3, <1>c, <2>1 DEF PacketOK, WriteOK
  <1>9. PacketOK(r, z2, ctx', snap, "c2s", t, x)
    <2>1. x.op = UpdateIndexReq /\ x.cli = c /\ x.key = m.key /\ x.port = ix(m.key)
      BY <1>0 DEF put_index, ix
    <2> QED
      BY <1>8, <2>1 DEF PacketOK, WriteOK, AskOK, LogOK, PlaceOK, AppendReply, AppendReq,
            MultiCastPkt, UpdateIndexReq, UpdateIndexReply, ReadIndexReq, ReadIndexReply,
            ReadLog, ReadReply
  <1> QED
    BY <1>0, <1>1, <1>2, <1>4, <1>5, <1>6, <1>7, <1>9, QuietStep

\* get_index returned: the client reads the log.
LEMMA LinearFetches ==
    ASSUME LogInv, Record, Preloaded, Preloaded', NEW r, LinearOK(r),
           NEW t, NEW m \in RawKvMsg, NEW x, Fetches(t, m, x)
    PROVE  LinearOK(r)'
  <1>z. PICK z : z = View
    OBVIOUS
  <1>2. PICK z2 : z2 = View'
    OBVIOUS
  <1>c. PICK c : c = m.cli
    OBVIOUS
  <1>0. /\ Takes("s2c", t, m) /\ StoreSame /\ nreq' = nreq
        /\ m.op \in {ReadIndexReq, ReadIndexReply}
        /\ ctx'[c].pc = "get_value" /\ ctx'[c].log = m.log /\ ctx'[c].key = m.key
        /\ x = get_value(c, ctx'[c]) /\ Step("s2c", t, {<<"c2s", t, x>>}, {c})
    BY <1>c DEF Fetches
  <1>1. /\ TypeOK /\ SoleAnswer /\ c \in Coros /\ m.key \in Keys /\ Answering("s2c", m)
    BY <1>0, <1>c, TakenType DEF LogInv, Answering
  <1>4. ctx[c].pc # "free"
    BY <1>0, <1>1, <1>c, TakenFits
  <1>6. \A d \in Coros : d # c => ctx'[d] = ctx[d]
    BY <1>0 DEF Step
  <1>7. QuietState
    BY <1>0 DEF QuietState, StoreSame, SameOwner
  <1>8. GoodLog(r, z2, snap, c, m.key, m.log)
    <2>1. PacketOK(r, z, ctx, snap, "s2c", t, m)
      BY <1>0, <1>1, <1>z, TakenOK
    <2>2. GoodLog(r, z, snap, c, m.key, m.log)
      BY <1>0, <1>c, <2>1 DEF PacketOK, LogOK
    <2>3. Rises(r, z, r, z2) /\ Keeps(z, z2) /\ Steady(r, r)
      BY <1>0, <1>2, <1>7, <1>z, QuietRises, LinearParts
    <2> QED
      BY <1>1, <2>2, <2>3, GoodKept
  <1>9. PacketOK(r, z2, ctx', snap, "c2s", t, x)
    <2>1. /\ x.op = ReadLog /\ x.cli = c /\ x.key = m.key /\ x.log = m.log
          /\ x.port = logid_2_threadid(m.log)
      BY <1>0 DEF get_value
    <2> QED
      BY <1>8, <2>1 DEF PacketOK, WriteOK, AskOK, LogOK, PlaceOK, AppendReply, AppendReq,
            MultiCastPkt, UpdateIndexReq, UpdateIndexReply, ReadIndexReq, ReadIndexReply,
            ReadLog, ReadReply
  <1> QED
    BY <1>0, <1>1, <1>2, <1>4, <1>6, <1>7, <1>9, QuietStep

\* The switch forwards to the data node.
LEMMA LinearToData ==
    ASSUME LogInv, Record, Preloaded, Preloaded', NEW r, LinearOK(r),
           NEW t, NEW m \in RawKvMsg, ToData(t, m)
    PROVE  LinearOK(r)'
  <1>z. PICK z : z = View
    OBVIOUS
  <1>2. PICK z2 : z2 = View'
    OBVIOUS
  <1>0. /\ Takes("c2s", t, m) /\ StoreSame /\ ctx' = ctx /\ nreq' = nreq
        /\ m.op \in {AppendReq, ReadLog} /\ Step("c2s", t, {<<"s2d", m.port, m>>}, {m.cli})
    BY DEF ToData
  <1>1. TypeOK /\ m.cli \in Coros /\ m.key \in Keys
    BY <1>0, TakenType DEF LogInv
  <1>7. QuietState
    BY <1>0 DEF QuietState, StoreSame, SameOwner
  <1>3. PacketOK(r, z, ctx, snap, "c2s", t, m)
    BY <1>0, <1>1, <1>z, TakenOK
  <1>4. m.op = ReadLog => GoodLog(r, z2, snap, m.cli, m.key, m.log)
    <2>1. m.op = ReadLog => GoodLog(r, z, snap, m.cli, m.key, m.log)
      BY <1>3 DEF PacketOK, LogOK
    <2>3. Rises(r, z, r, z2) /\ Keeps(z, z2) /\ Steady(r, r)
      BY <1>0, <1>2, <1>7, <1>z, QuietRises, LinearParts
    <2> QED
      BY <1>1, <2>1, <2>3, GoodKept
  <1>5. PacketOK(r, z2, ctx', snap, "s2d", m.port, m)
    BY <1>0, <1>3, <1>4 DEF PacketOK, WriteOK, AskOK, LogOK, PlaceOK, AppendReply, AppendReq,
          MultiCastPkt, UpdateIndexReq, UpdateIndexReply, ReadIndexReq, ReadIndexReply,
          ReadLog, ReadReply
  <1> QED
    BY <1>0, <1>2, <1>5, <1>7, QuietStep

\* The switch answers a read from a slot: with the write the slot announces, which is
\* of the highest rank anyone has seen, or with a log id of another key.
LEMMA LinearHits ==
    ASSUME LogInv, Record, Preloaded, Preloaded', NEW r, LinearOK(r),
           NEW t, NEW m \in RawKvMsg, NEW x, Hits(t, m, x)
    PROVE  LinearOK(r)'
  <1>z. PICK z : z = View
    OBVIOUS
  <1>2. PICK z2 : z2 = View'
    OBVIOUS
  <1>c. PICK c : c = m.cli
    OBVIOUS
  <1>k. PICK k : k = m.key
    OBVIOUS
  <1>s. PICK s : s = get_switch_key(k)
    OBVIOUS
  <1>0. /\ Takes("c2s", t, m) /\ StoreSame /\ ctx' = ctx /\ nreq' = nreq
        /\ m.op = ReadIndexReq /\ Hit(regs, m) /\ x = [m EXCEPT !.log = regs.log[s]]
        /\ Step("c2s", t, {<<"s2c", c[1], x>>}, {c})
    BY <1>c, <1>k, <1>s DEF Hits, LogId, FwLogId
  <1>1. TypeOK /\ c \in Coros /\ k \in Keys
    BY <1>0, <1>c, <1>k, TakenType DEF LogInv
  <1>7. QuietState
    BY <1>0 DEF QuietState, StoreSame, SameOwner
  <1>3. PacketOK(r, z, ctx, snap, "c2s", t, m)
    BY <1>0, <1>1, <1>z, TakenOK
  <1>4. GoodLog(r, z, snap, c, k, z.log[s])
    <2>1. s \in SwitchKeys /\ z.key[s] = get_fingerprint(k) /\ get_fingerprint(k) # 0
      <3>1. s \in SwitchKeys /\ get_fingerprint(k) \in 1 .. FingerprintSpace - 2
        BY <1>1, <1>s, KeyRanges
      <3>2. z.key[s] = get_fingerprint(k)
        BY <1>0, <1>k, <1>s, <1>z, ViewIs DEF Hit, FwHit
      <3> QED
        BY <3>1, <3>2
    <2>2. SlotOK(r, z, s)
      BY <1>z, <2>1, LinearParts DEF StoreOK, SlotsOK
    <2>e. PICK e : e = At(z.kv, z.log[s])
      OBVIOUS
    <2>3. /\ Within(z.pos, z.log[s]) /\ rk(r, e.val) > 0
          /\ get_fingerprint(e.key) = get_fingerprint(k)
      BY <2>1, <2>2, <2>e DEF SlotOK
    <2>4. CASE e.key # k
      BY <2>3, <2>4, <2>e DEF GoodLog, GoodEntry, Known
    <2>5. CASE e.key = k
      <3>1. Held(z, k) /\ HeldVal(z, k) = e.val /\ Of(k, e) = e.val
        BY <1>s, <2>1, <2>5, <2>e DEF Held, HeldVal, Of
      <3>2. rk(r, e.val) \in Nat
        BY <1>z, LinearParts
      <3>3. Low(r, z, k, rk(r, e.val))
        BY <3>1, <3>2 DEF Low
      <3>4. \A o \in snap[c] : rk(r, o[1]) <= rk(r, e.val)
        <4>1. \A o \in snap[c] : Low(r, z, k, rk(r, o[1]))
          BY <1>0, <1>3, <1>c, <1>k DEF PacketOK, AskOK
        <4> QED
          BY <3>1, <4>1 DEF Low
      <3> QED
        BY <2>3, <2>e, <3>1, <3>3, <3>4 DEF GoodLog, GoodEntry, Known, Admitted
    <2> QED
      BY <2>4, <2>5
  <1>5. GoodLog(r, z2, snap, c, k, z.log[s])
    <2>3. Rises(r, z, r, z2) /\ Keeps(z, z2) /\ Steady(r, r)
      BY <1>0, <1>2, <1>7, <1>z, QuietRises, LinearParts
    <2> QED
      BY <1>1, <1>4, <2>3, GoodKept
  <1>6. PacketOK(r, z2, ctx', snap, "s2c", c[1], x)
    <2>1. x.op = ReadIndexReq /\ x.cli = c /\ x.key = k /\ x.log = z.log[s]
      BY <1>0, <1>c, <1>k, <1>z, ViewIs DEF RawKvMsg
    <2> QED
      BY <1>5, <2>1 DEF PacketOK, WriteOK, AskOK, LogOK, PlaceOK, AppendReply, AppendReq,
            MultiCastPkt, UpdateIndexReq, UpdateIndexReply, ReadIndexReq, ReadIndexReply,
            ReadLog, ReadReply
  <1> QED
    BY <1>0, <1>2, <1>6, <1>7, QuietStep

\* The data node appends a value.
LEMMA LinearAppends ==
    ASSUME LogInv, Record, Preloaded, Preloaded', NEW r, LinearOK(r),
           NEW d, NEW m \in RawKvMsg, NEW x, Appends(d, m, x)
    PROVE  LinearOK(r)'
  <1>z. PICK z : z = View
    OBVIOUS
  <1>2. PICK z2 : z2 = View'
    OBVIOUS
  <1>0. /\ Takes("s2d", d, m) /\ UNCHANGED <<s2i, i2s, regs, index, ctx, nreq>>
        /\ m.op = AppendReq /\ Step("s2d", d, {<<"d2s", d, x>>}, {m.cli})
        /\ x = [m EXCEPT !.op = AppendReply, !.log = compute_log_id(pos[d], d),
                         !.ts = get_next_ts(tss[get_switch_key(m.key)]), !.entry = Blank]
    BY DEF Appends
  <1>1. TypeOK
    BY DEF LogInv
  <1>7. QuietState
    BY <1>0 DEF QuietState, SameOwner
  <1>3. PacketOK(r, z, ctx, snap, "s2d", d, m)
    BY <1>0, <1>1, <1>z, TakenOK
  <1>4. m.ixp = ix(m.key) /\ rk(r, ctx[m.cli].val) = 0
    BY <1>0, <1>3 DEF PacketOK, WriteOK
  <1>5. PacketOK(r, z2, ctx', snap, "d2s", d, x)
    <2>1. x.op = AppendReply /\ x.cli = m.cli /\ x.key = m.key /\ x.ixp = m.ixp
      BY <1>0 DEF RawKvMsg
    <2> QED
      BY <1>0, <1>4, <2>1 DEF PacketOK, WriteOK, AskOK, LogOK, PlaceOK, AppendReply, AppendReq,
            MultiCastPkt, UpdateIndexReq, UpdateIndexReply, ReadIndexReq, ReadIndexReply,
            ReadLog, ReadReply
  <1> QED
    BY <1>0, <1>2, <1>5, <1>7, QuietStep

\* The data node reads its log: the thread a ReadLog is sent to is the one of the log id.
LEMMA LinearLooks ==
    ASSUME LogInv, Record, Preloaded, Preloaded', NEW r, LinearOK(r),
           NEW d, NEW m \in RawKvMsg, NEW x, Looks(d, m, x)
    PROVE  LinearOK(r)'
  <1>z. PICK z : z = View
    OBVIOUS
  <1>2. PICK z2 : z2 = View'
    OBVIOUS
  <1>0. /\ Takes("s2d", d, m) /\ StoreSame /\ UNCHANGED <<ctx, nreq>>
        /\ m.op = ReadLog /\ Step("s2d", d, {<<"d2s", d, x>>}, {m.cli})
        /\ x = [m EXCEPT !.op = ReadReply, !.entry = kv[d][logid_2_locallogid(m.log)]]
    BY DEF Looks
  <1>1. TypeOK /\ m.cli \in Coros /\ m.key \in Keys
    BY <1>0, TakenType DEF LogInv
  <1>7. QuietState
    BY <1>0 DEF QuietState, StoreSame, SameOwner
  <1>3. PacketOK(r, z, ctx, snap, "s2d", d, m)
    BY <1>0, <1>1, <1>z, TakenOK
  <1>4. GoodEntry(r, z, snap, m.cli, m.key, At(z.kv, m.log)) /\ logid_2_threadid(m.log) = d
    BY <1>0, <1>3 DEF PacketOK, LogOK, GoodLog
  <1>5. GoodEntry(r, z2, snap, m.cli, m.key, At(z.kv, m.log))
    <2>3. Rises(r, z, r, z2) /\ Keeps(z, z2) /\ Steady(r, r)
      BY <1>0, <1>2, <1>7, <1>z, QuietRises, LinearParts
    <2> QED
      BY <1>1, <1>4, <2>3, GoodKept
  <1>6. PacketOK(r, z2, ctx', snap, "d2s", d, x)
    <2>1. x.op = ReadReply /\ x.cli = m.cli /\ x.key = m.key /\ x.entry = At(z.kv, m.log)
      BY <1>0, <1>4, <1>z, ViewIs DEF RawKvMsg, At
    <2> QED
      BY <1>5, <2>1 DEF PacketOK, WriteOK, AskOK, LogOK, PlaceOK, AppendReply, AppendReq,
            MultiCastPkt, UpdateIndexReq, UpdateIndexReply, ReadIndexReq, ReadIndexReply,
            ReadLog, ReadReply
  <1> QED
    BY <1>0, <1>2, <1>6, <1>7, QuietStep

\* The switch forwards a packet of the data node to the client.
LEMMA LinearPasses ==
    ASSUME LogInv, Record, Preloaded, Preloaded', NEW r, LinearOK(r),
           NEW d, NEW m \in RawKvMsg, Passes(d, m)
    PROVE  LinearOK(r)'
  <1>z. PICK z : z = View
    OBVIOUS
  <1>2. PICK z2 : z2 = View'
    OBVIOUS
  <1>0. /\ Takes("d2s", d, m) /\ UNCHANGED <<s2i, i2s, index, kv, pos, ctx, nreq>>
        /\ m.op \in {AppendReply, ReadReply} /\ \A s \in SwitchKeys : SameOwner(s)
        /\ Step("d2s", d, {<<"s2c", m.cli[1], m>>}, {m.cli})
    BY DEF Passes
  <1>1. TypeOK /\ m.cli \in Coros /\ m.key \in Keys
    BY <1>0, TakenType DEF LogInv
  <1>7. QuietState
    BY <1>0 DEF QuietState
  <1>3. PacketOK(r, z, ctx, snap, "d2s", d, m)
    BY <1>0, <1>1, <1>z, TakenOK
  <1>4. m.op = ReadReply => GoodEntry(r, z2, snap, m.cli, m.key, m.entry)
    <2>1. m.op = ReadReply => GoodEntry(r, z, snap, m.cli, m.key, m.entry)
      BY <1>3 DEF PacketOK, LogOK
    <2>3. Rises(r, z, r, z2) /\ Keeps(z, z2) /\ Steady(r, r)
      BY <1>0, <1>2, <1>7, <1>z, QuietRises, LinearParts
    <2> QED
      BY <1>1, <2>1, <2>3, GoodKept
  <1>5. PacketOK(r, z2, ctx', snap, "s2c", m.cli[1], m)
    BY <1>0, <1>3, <1>4 DEF PacketOK, WriteOK, AskOK, LogOK, PlaceOK, AppendReply, AppendReq,
          MultiCastPkt, UpdateIndexReq, UpdateIndexReply, ReadIndexReq, ReadIndexReply,
          ReadLog, ReadReply
  <1> QED
    BY <1>0, <1>2, <1>5, <1>7, QuietStep

-----------------------------------------------------------------------------
(* Steps of the index threads and of the switch behind them. *)

\* Packets of the index threads are typed queues.
LEMMA QueueTypes ==
    ASSUME TypeOK
    PROVE  /\ s2i \in [IndexThreads -> Seq(RawKvMsg)] /\ i2s \in [IndexThreads -> Seq(RawKvMsg)]
           /\ Net["s2i"] = s2i /\ Net["i2s"] = i2s
  BY NetIs DEF TypeOK

\* An update is taken up by the index.
LEMMA LinearPuts ==
    ASSUME LogInv, Record, Preloaded, Preloaded', NEW r, LinearOK(r),
           NEW i, NEW m \in RawKvMsg, NEW x \in RawKvMsg, Puts(i, m, x)
    PROVE  LinearOK(r)'
  <1>z. PICK z : z = View
    OBVIOUS
  <1>2. PICK z2 : z2 = View'
    OBVIOUS
  <1>0. /\ Takes("s2i", i, m) /\ UNCHANGED <<regs, kv, pos, ctx, nreq>>
        /\ m.op \in {MultiCastPkt, UpdateIndexReq}
        /\ x = [m EXCEPT !.op = IF m.op = MultiCastPkt THEN ReplySwitch ELSE UpdateIndexReply]
        /\ index' = [index EXCEPT ![m.key] = m.log]
        /\ s2i' = Pop(s2i, i) /\ i2s' = Push(i2s, i, x)
        /\ Step("s2i", i, {<<"i2s", i, x>>}, IF m.op = MultiCastPkt THEN {} ELSE {m.cli})
    BY DEF Puts
  <1>1. /\ TypeOK /\ m.cli \in Coros /\ m.key \in Keys /\ i \in IndexThreads
        /\ s2i[i] # <<>> /\ m = Head(s2i[i])
    BY <1>0, TakenType, EndsAre, NetIs DEF LogInv, Takes
  <1>3. PacketOK(r, z, ctx, snap, "s2i", i, m)
    BY <1>0, <1>1, <1>z, TakenOK
  <1>4. i = ix(m.key)
    BY <1>3 DEF PacketOK, PlaceOK
  <1>5. Within(pos, m.log) /\ At(kv, m.log).key = m.key
    <2>1. Sound(Net, pos, kv, ctx, nreq, "s2i", m)
      BY <1>0, TakenSound
    <2>2. \E v : Has(pos, kv, m.log, m.key, v)
      BY <1>0, <2>1 DEF Sound, Answering, WriteReplies
    <2> QED
      BY <2>2 DEF Has
  <1>6. x.op = (IF m.op = MultiCastPkt THEN ReplySwitch ELSE UpdateIndexReply)
        /\ x.key = m.key /\ x.log = m.log /\ x.cli = m.cli /\ x.magic = m.magic
    BY <1>0 DEF RawKvMsg
  <1>7. Popped(s2i, s2i', i, m)
    BY <1>0, <1>1, QueueTypes, PopIs
  <1>8. PICK e : Pushed(i2s, i2s', i, x, e)
    BY <1>0, <1>1, QueueTypes, PushIs
  <1>9. Serves(z, z2, i, m, x, e)
    <2>1. \A k \in Keys : index'[k] = IF Updates(m, k) THEN m.log ELSE index[k]
      BY <1>0, <1>1 DEF Updates, TypeOK
    <2>2. \A s \in SwitchKeys : SlotKept(z, z2, s)
      BY <1>0, <1>2, <1>z, ViewIs DEF SlotKept
    <2> QED
      BY <1>0, <1>1, <1>2, <1>4, <1>5, <1>7, <1>8, <1>z, <2>1, <2>2, ViewIs, ZenonT(30) DEF Serves
  <1>10. Answered(m, x)
    BY <1>0, <1>6 DEF Answered, rpc_id, MultiCastPkt, UpdateIndexReq, ReadIndexReq
  <1>11. StoreOK(r, z2, snap) /\ Rises(r, z, r, z2)
    <2>1. Steady(r, r) /\ StoreOK(r, z, snap) /\ PacketsOK(r, z, ctx, snap, Net)
      BY <1>z, LinearParts
    <2>2. Homed(z)
      BY <1>z, <2>1, ViewHomed
    <2> QED
      BY <1>9, <1>10, <2>1, <2>2, ServesStore
  <1>12. PacketOK(r, z2, ctx', snap, "i2s", i, x)
    BY <1>0, <1>4, <1>6 DEF PacketOK, WriteOK, AskOK, LogOK, PlaceOK, AppendReply, AppendReq,
          MultiCastPkt, UpdateIndexReq, UpdateIndexReply, ReadIndexReq, ReadIndexReply,
          ReadLog, ReadReply, ReplySwitch
  <1>13. Ranked(r, nreq') /\ Extends(r, r, 0)
    BY <1>0, <1>z, LinearParts
  <1>14. \A c \in Coros : ctx[c].pc # "free" => ctx[c].val # 0
    BY DEF LogInv, Values
  <1> QED
    BY <1>0, <1>2, <1>11, <1>12, <1>13, <1>14, <1>z, LinearStep

\* The index answers a read: with what it holds, which is as late as everything the
\* client has seen, and which no later read can miss.
LEMMA LinearGets ==
    ASSUME LogInv, Record, Preloaded, Preloaded', NEW r, LinearOK(r),
           NEW i, NEW m \in RawKvMsg, NEW x \in RawKvMsg, Gets(i, m, x)
    PROVE  LinearOK(r)'
  <1>z. PICK z : z = View
    OBVIOUS
  <1>2. PICK z2 : z2 = View'
    OBVIOUS
  <1>k. PICK k : k = m.key
    OBVIOUS
  <1>0. /\ Takes("s2i", i, m) /\ UNCHANGED <<regs, index, kv, pos, ctx, nreq>>
        /\ m.op = ReadIndexReq /\ x = [m EXCEPT !.op = ReadIndexReply, !.log = index[k]]
        /\ s2i' = Pop(s2i, i) /\ i2s' = Push(i2s, i, x)
        /\ Step("s2i", i, {<<"i2s", i, x>>}, {m.cli})
    BY <1>k DEF Gets
  <1>1. /\ TypeOK /\ m.cli \in Coros /\ k \in Keys /\ i \in IndexThreads
        /\ s2i[i] # <<>> /\ m = Head(s2i[i])
    BY <1>0, <1>k, TakenType, EndsAre, NetIs DEF LogInv, Takes
  <1>3. PacketOK(r, z, ctx, snap, "s2i", i, m)
    BY <1>0, <1>1, <1>z, TakenOK
  <1>4. i = ix(k)
    BY <1>3, <1>k DEF PacketOK, PlaceOK
  <1>6. x.op = ReadIndexReply /\ x.key = k /\ x.log = z.index[k] /\ x.cli = m.cli
    BY <1>0, <1>k, <1>z, ViewIs DEF RawKvMsg
  <1>7. Popped(s2i, s2i', i, m)
    BY <1>0, <1>1, QueueTypes, PopIs
  <1>8. PICK e : Pushed(i2s, i2s', i, x, e)
    BY <1>0, <1>1, QueueTypes, PushIs
  <1>p. Steady(r, r) /\ StoreOK(r, z, snap) /\ PacketsOK(r, z, ctx, snap, Net)
    BY <1>z, LinearParts
  <1>9. Serves(z, z2, i, m, x, e)
    <2>1. ~ Updates(m, m.key) /\ \A n \in Keys : ~ Updates(m, n)
      BY <1>0 DEF Updates, MultiCastPkt, UpdateIndexReq, ReadIndexReq
    <2>2. \A s \in SwitchKeys : SlotKept(z, z2, s)
      BY <1>0, <1>2, <1>z, ViewIs DEF SlotKept
    <2> QED
      BY <1>0, <1>1, <1>2, <1>4, <1>7, <1>8, <1>k, <1>z, <2>1, <2>2, ViewIs DEF Serves
  <1>10. Answered(m, x)
    BY <1>0, <1>6, <1>k DEF Answered, MultiCastPkt, UpdateIndexReq, ReadIndexReq
  <1>11. StoreOK(r, z2, snap) /\ Rises(r, z, r, z2)
    <2>2. Homed(z)
      BY <1>p, <1>z, ViewHomed
    <2> QED
      BY <1>9, <1>10, <1>p, <2>2, ServesStore
  <1>12. GoodLog(r, z, snap, m.cli, k, z.index[k])
    <2>v. PICK v : v = Indexed(z, k)
      OBVIOUS
    <2>0. rk(r, v) \in Nat /\ Known(z, z.index[k]) /\ Admitted(r, v)
          /\ v = Of(k, At(z.kv, z.index[k]))
      BY <1>1, <1>p, <2>v DEF StoreOK, IndexOK, Steady, Indexed
    <2>1. 1 \in DOMAIN z.s2i[i] /\ z.s2i[i][1] = m /\ \A h \in DOMAIN z.s2i[i] : ~ (h < 1)
      <3>1. z.s2i = s2i /\ \A h \in DOMAIN s2i[i] : h \in Nat /\ h >= 1
        BY <1>1, <1>7, <1>z, ViewIs DEF Popped
      <3> QED
        BY <1>7, <3>1 DEF Popped
    <2>2. ReadOK(r, z, snap, i, 1)
      BY <1>1, <1>p, <2>1 DEF StoreOK, ReadsOK
    <2>3. \A y : ReachBefore(r, z, k, 1, y) <=> y <= rk(r, v)
      BY <1>4, <2>1, <2>v DEF ReachBefore
    <2>4. \A o \in snap[m.cli] : rk(r, o[1]) <= rk(r, v)
      BY <1>0, <1>k, <2>1, <2>2, <2>3 DEF ReadOK
    <2>5. Low(r, z, k, rk(r, v))
      BY <1>0, <1>k, <2>0, <2>1, <2>2, <2>3 DEF ReadOK
    <2> QED
      BY <2>0, <2>4, <2>5 DEF GoodLog, GoodEntry
  <1>13. GoodLog(r, z2, snap, m.cli, k, z.index[k])
    <2>1. Keeps(z, z2)
      BY <1>0, <1>2, <1>z, ViewKeeps
    <2> QED
      BY <1>1, <1>11, <1>12, <1>p, <2>1, GoodKept
  <1>14. PacketOK(r, z2, ctx', snap, "i2s", i, x)
    BY <1>0, <1>4, <1>6, <1>13 DEF PacketOK, WriteOK, AskOK, LogOK, PlaceOK, AppendReply,
          AppendReq, MultiCastPkt, UpdateIndexReq, UpdateIndexReply, ReadIndexReq,
          ReadIndexReply, ReadLog, ReadReply, ReplySwitch
  <1>15. Ranked(r, nreq') /\ Extends(r, r, 0)
    BY <1>0, <1>z, LinearParts
  <1>16. \A c \in Coros : ctx[c].pc # "free" => ctx[c].val # 0
    BY DEF LogInv, Values
  <1> QED
    BY <1>0, <1>2, <1>11, <1>14, <1>15, <1>16, <1>z, LinearStep

\* A ReplySwitch comes back to the switch.
LEMMA LinearFrees ==
    ASSUME LogInv, Record, Preloaded, Preloaded', NEW r, LinearOK(r),
           NEW i, NEW m \in RawKvMsg, Frees(i, m)
    PROVE  LinearOK(r)'
  <1>z. PICK z : z = View
    OBVIOUS
  <1>2. PICK z2 : z2 = View'
    OBVIOUS
  <1>0. /\ Takes("i2s", i, m) /\ UNCHANGED <<s2i, index, kv, pos, ctx, nreq>>
        /\ m.op = ReplySwitch /\ regs' = DeleteIndex(regs, m) /\ i2s' = Pop(i2s, i)
        /\ Step("i2s", i, {}, {})
    BY DEF Frees
  <1>1. /\ TypeOK /\ m.key \in Keys /\ i \in IndexThreads /\ i2s[i] # <<>> /\ m = Head(i2s[i])
        /\ regs \in Registers
    BY <1>0, TakenType, EndsAre, NetIs DEF LogInv, Takes, TypeOK
  <1>7. Popped(i2s, i2s', i, m)
    BY <1>0, <1>1, QueueTypes, PopIs
  <1>p. Steady(r, r) /\ StoreOK(r, z, snap) /\ PacketsOK(r, z, ctx, snap, Net)
    BY <1>z, LinearParts
  <1>3. ASSUME NEW s \in SwitchKeys
        PROVE  /\ SameOwner(s) \/ regs'.key[s] = 0
               /\ Clears(z, m, ReplySwitch, s) => regs'.key[s] = 0
    <2>1. Clears(z, m, ReplySwitch, s) => get_switch_key(m.key) = s /\ regs.rpc[s] = rpc_id(m)
      BY <1>z, ViewIs DEF Clears, OnSlot, Owns
    <2>2. CASE get_switch_key(m.key) # s
      BY <1>0, <1>1, <2>1, <2>2, KeyRanges
         DEF DeleteIndex, FwDeleteIndex, OwDeleteIndex, Registers, SameOwner
    <2>3. CASE get_switch_key(m.key) = s /\ regs.rpc[s] # rpc_id(m)
      BY <1>0, <1>1, <2>1, <2>3
         DEF DeleteIndex, FwDeleteIndex, OwDeleteIndex, Registers, SameOwner
    <2>4. CASE get_switch_key(m.key) = s /\ regs.rpc[s] = rpc_id(m)
      BY <1>0, <1>1, <2>4
         DEF DeleteIndex, FwDeleteIndex, OwDeleteIndex, Registers
    <2> QED
      BY <2>2, <2>3, <2>4
  <1>4. Comes(z, z2, i, m)
    <2>1. /\ z2.kv = z.kv /\ z2.pos = z.pos /\ z2.index = z.index /\ z2.s2i = z.s2i
          /\ Popped(z.i2s, z2.i2s, i, m)
      BY <1>0, <1>2, <1>7, <1>z, ViewIs
    <2>2. \A s \in SwitchKeys : /\ SlotKept(z, z2, s) \/ z2.key[s] = 0
                                /\ Clears(z, m, ReplySwitch, s) => z2.key[s] = 0
      BY <1>2, <1>3, <1>z, ViewIs DEF SlotKept, SameOwner
    <2> QED
      BY <2>1, <2>2 DEF Comes
  <1>11. StoreOK(r, z2, snap) /\ Rises(r, z, r, z2)
    <2>2. Homed(z)
      BY <1>p, <1>z, ViewHomed
    <2> QED
      BY <1>4, <1>p, <2>2, ComesStore
  <1>15. Ranked(r, nreq') /\ Extends(r, r, 0)
    BY <1>0, <1>z, LinearParts
  <1>16. \A c \in Coros : ctx[c].pc # "free" => ctx[c].val # 0
    BY DEF LogInv, Values
  <1> QED
    BY <1>0, <1>2, <1>11, <1>15, <1>16, <1>z, LinearStep

\* A reply of an index thread passes the switch. No slot hides the update it confirms:
\* the ReplySwitch that would free such a slot would have come before it.
LEMMA LinearForwards ==
    ASSUME LogInv, Record, Preloaded, Preloaded', NEW r, LinearOK(r),
           NEW i, NEW m \in RawKvMsg, Forwards(i, m)
    PROVE  LinearOK(r)'
  <1>z. PICK z : z = View
    OBVIOUS
  <1>2. PICK z2 : z2 = View'
    OBVIOUS
  <1>k. PICK k : k = m.key
    OBVIOUS
  <1>0. /\ Takes("i2s", i, m) /\ UNCHANGED <<s2i, regs, index, kv, pos, ctx, nreq>>
        /\ m.op \in {UpdateIndexReply, ReadIndexReply} /\ i2s' = Pop(i2s, i)
        /\ Step("i2s", i, {<<"s2c", m.cli[1], m>>}, {m.cli})
    BY DEF Forwards
  <1>1. /\ TypeOK /\ m.cli \in Coros /\ k \in Keys /\ i \in IndexThreads
        /\ i2s[i] # <<>> /\ m = Head(i2s[i])
    BY <1>0, <1>k, TakenType, EndsAre, NetIs DEF LogInv, Takes
  <1>7. Popped(i2s, i2s', i, m)
    BY <1>0, <1>1, QueueTypes, PopIs
  <1>p. /\ Steady(r, r) /\ StoreOK(r, z, snap) /\ PacketsOK(r, z, ctx, snap, Net)
        /\ \A v : rk(r, v) \in Nat
    BY <1>z, LinearParts
  <1>3. PacketOK(r, z, ctx, snap, "i2s", i, m)
    BY <1>0, <1>1, <1>z, TakenOK
  <1>4. Comes(z, z2, i, m)
    <2>1. /\ z2.kv = z.kv /\ z2.pos = z.pos /\ z2.index = z.index /\ z2.s2i = z.s2i
          /\ Popped(z.i2s, z2.i2s, i, m)
      BY <1>0, <1>2, <1>7, <1>z, ViewIs
    <2>2. \A s \in SwitchKeys : SlotKept(z, z2, s) /\ ~ Clears(z, m, ReplySwitch, s)
      BY <1>0, <1>2, <1>z, ViewIs
         DEF SlotKept, Clears, ReplySwitch, UpdateIndexReply, ReadIndexReply
    <2> QED
      BY <2>1, <2>2 DEF Comes
  <1>11. StoreOK(r, z2, snap) /\ Rises(r, z, r, z2)
    <2>2. Homed(z)
      BY <1>p, <1>z, ViewHomed
    <2> QED
      BY <1>4, <1>p, <2>2, ComesStore
  <1>5. m.op = UpdateIndexReply =>
            rk(r, ctx[m.cli].val) > 0 /\ Low(r, z2, k, rk(r, ctx[m.cli].val))
    <2> SUFFICES ASSUME m.op = UpdateIndexReply
                 PROVE  rk(r, ctx[m.cli].val) > 0 /\ Low(r, z2, k, rk(r, ctx[m.cli].val))
      OBVIOUS
    <2>1. Val(z, m) = ctx[m.cli].val
      <3>1. Sound(Net, pos, kv, ctx, nreq, "i2s", m)
        BY <1>0, TakenSound
      <3>2. Has(pos, kv, m.log, m.key, ctx[m.cli].val)
        BY <3>1 DEF Sound, Answering, WriteReplies, UpdateIndexReply, ReplySwitch
      <3> QED
        BY <1>z, <3>2, ViewIs DEF Has, Val
    <2>2. 1 \in DOMAIN z.i2s[i] /\ z.i2s[i][1] = m /\ \A h \in DOMAIN z.i2s[i] : ~ (h < 1)
      <3>1. z.i2s = i2s /\ \A h \in DOMAIN i2s[i] : h \in Nat /\ h >= 1
        BY <1>1, <1>7, <1>z, ViewIs DEF Popped
      <3> QED
        BY <1>7, <3>1 DEF Popped
    <2>3. ReplyOK(r, z, i, 1)
      BY <1>1, <1>p, <2>2 DEF StoreOK, LagOK
    <2>4. rk(r, Val(z, m)) > 0 /\ Low(r, z, k, rk(r, Val(z, m)))
      BY <1>k, <2>2, <2>3 DEF ReplyOK, Clearing
    <2> QED
      BY <1>1, <1>11, <1>p, <2>1, <2>4 DEF Rises
  <1>6. m.op = ReadIndexReply => GoodLog(r, z2, snap, m.cli, k, m.log)
    <2>1. m.op = ReadIndexReply => GoodLog(r, z, snap, m.cli, k, m.log)
      BY <1>3, <1>k DEF PacketOK, LogOK
    <2>2. Keeps(z, z2)
      BY <1>0, <1>2, <1>z, ViewKeeps
    <2> QED
      BY <1>1, <1>11, <1>p, <2>1, <2>2, GoodKept
  <1>8. PacketOK(r, z2, ctx', snap, "s2c", m.cli[1], m)
    BY <1>0, <1>5, <1>6, <1>k DEF PacketOK, WriteOK, AskOK, LogOK, PlaceOK, AppendReply,
          AppendReq, MultiCastPkt, UpdateIndexReq, UpdateIndexReply, ReadIndexReq,
          ReadIndexReply, ReadLog, ReadReply, ReplySwitch
  <1>15. Ranked(r, nreq') /\ Extends(r, r, 0)
    BY <1>0, <1>z, LinearParts
  <1>16. \A c \in Coros : ctx[c].pc # "free" => ctx[c].val # 0
    BY DEF LogInv, Values
  <1> QED
    BY <1>0, <1>2, <1>8, <1>11, <1>15, <1>16, <1>z, LinearStep

-----------------------------------------------------------------------------
(* Steps in which a packet enters the queue of an index thread. *)

\* A read that no slot answers passes the switch. A slot that announces its key would
\* have answered it.
LEMMA LinearAsks ==
    ASSUME LogInv, Record, Preloaded, Preloaded', NEW r, LinearOK(r),
           NEW t, NEW m \in RawKvMsg, ToIndex(t, m), m.op = ReadIndexReq
    PROVE  LinearOK(r)'
  <1>z. PICK z : z = View
    OBVIOUS
  <1>2. PICK z2 : z2 = View'
    OBVIOUS
  <1>k. PICK k : k = m.key
    OBVIOUS
  <1>0. /\ Takes("c2s", t, m) /\ UNCHANGED <<i2s, regs, index, kv, pos, ctx, nreq>>
        /\ ~ (m.flag /\ Hit(regs, m)) /\ m.port \in IndexThreads /\ s2i' = Push(s2i, m.port, m)
        /\ Step("c2s", t, {<<"s2i", m.port, m>>}, {m.cli})
    BY DEF ToIndex, ReadIndexReq, UpdateIndexReq
  <1>1. TypeOK /\ m.cli \in Coros /\ k \in Keys
    BY <1>0, <1>k, TakenType DEF LogInv
  <1>p. /\ Steady(r, r) /\ StoreOK(r, z, snap) /\ PacketsOK(r, z, ctx, snap, Net)
        /\ \A c \in Coros : \A o \in snap[c] : Admitted(r, o[1])
    BY <1>z, LinearParts
  <1>3. PacketOK(r, z, ctx, snap, "c2s", t, m)
    BY <1>0, <1>1, <1>z, TakenOK
  <1>4. /\ m.port = ix(m.key) /\ m.flag = FLAGS_visibility
        /\ \A o \in snap[m.cli] : Low(r, z, m.key, rk(r, o[1]))
    BY <1>3 DEF PacketOK, PlaceOK, AskOK
  <1>5. ~ Held(z, m.key)
    <2> SUFFICES ASSUME Held(z, k) PROVE FALSE
      BY <1>k
    <2>s. PICK s : s = get_switch_key(k)
      OBVIOUS
    <2>1. z.key[s] # 0 /\ At(z.kv, z.log[s]).key = k /\ s \in SwitchKeys
      BY <1>1, <2>s, Homes DEF Held
    <2>2. SlotOK(r, z, s)
      BY <1>p, <2>1 DEF StoreOK, SlotsOK
    <2>3. FLAGS_visibility /\ z.key[s] = get_fingerprint(k)
      BY <2>1, <2>2 DEF SlotOK
    <2>4. Hit(regs, m)
      BY <1>k, <1>z, <2>3, <2>s, ViewIs DEF Hit, FwHit
    <2> QED
      BY <1>0, <1>4, <2>3, <2>4
  <1>6. PICK e : Pushed(s2i, s2i', m.port, m, e)
    BY <1>0, <1>1, QueueTypes, PushIs
  <1>7. Enters(z, z2, m, e) /\ \A s \in SwitchKeys : SlotKept(z, z2, s)
    BY <1>0, <1>1, <1>2, <1>4, <1>6, <1>k, <1>z, ViewIs DEF Enters, SlotKept
  <1>8. StoreOK(r, z2, snap) /\ Rises(r, z, r, z2)
    <2>1. Homed(z)
      BY <1>p, <1>z, ViewHomed
    <2> QED
      BY <1>4, <1>5, <1>7, <1>p, <2>1, ReadEnters
  <1>9. PacketOK(r, z2, ctx', snap, "s2i", m.port, m)
    BY <1>4 DEF PacketOK, WriteOK, AskOK, LogOK, PlaceOK, AppendReply,
          AppendReq, MultiCastPkt, UpdateIndexReq, UpdateIndexReply, ReadIndexReq,
          ReadIndexReply, ReadLog, ReadReply, ReplySwitch
  <1>15. Ranked(r, nreq') /\ Extends(r, r, 0)
    BY <1>0, <1>z, LinearParts
  <1>16. \A c \in Coros : ctx[c].pc # "free" => ctx[c].val # 0
    BY DEF LogInv, Values
  <1> QED
    BY <1>0, <1>2, <1>8, <1>9, <1>15, <1>16, <1>z, LinearStep

\* An UpdateIndexReq passes the switch and gets the next rank. The write that holds the
\* slot of its key has its own multicast or ReplySwitch ahead of it.
LEMMA LinearUpdates ==
    ASSUME LogInv, OwnerOutstanding, Record, Preloaded, Preloaded', NEW r, LinearOK(r),
           NEW t, NEW m \in RawKvMsg, ToIndex(t, m), m.op = UpdateIndexReq
    PROVE  \E r2 : LinearOK(r2)'
  <1>z. PICK z : z = View
    OBVIOUS
  <1>2. PICK z2 : z2 = View'
    OBVIOUS
  <1>k. PICK k : k = m.key
    OBVIOUS
  <1>u. PICK u : u = ctx[m.cli].val
    OBVIOUS
  <1>0. /\ Takes("c2s", t, m) /\ UNCHANGED <<i2s, regs, index, kv, pos, ctx, nreq>>
        /\ m.port \in IndexThreads /\ s2i' = Push(s2i, m.port, m)
        /\ Step("c2s", t, {<<"s2i", m.port, m>>}, {m.cli}) /\ Answering("c2s", m)
    BY DEF ToIndex, Answering
  <1>1. TypeOK /\ SoleAnswer /\ m.cli \in Coros /\ k \in Keys /\ nreq \in Nat
    BY <1>0, <1>k, TakenType, BoundAssumption DEF LogInv, TypeOK
  <1>p. /\ Ranked(r, nreq) /\ StoreOK(r, z, snap) /\ PacketsOK(r, z, ctx, snap, Net)
        /\ \A c \in Coros : \A o \in snap[c] : Admitted(r, o[1])
    BY <1>z, LinearParts
  <1>3. PacketOK(r, z, ctx, snap, "c2s", t, m)
    BY <1>0, <1>1, <1>z, TakenOK
  <1>4. m.port = ix(m.key) /\ rk(r, u) = 0
    BY <1>3, <1>u DEF PacketOK, PlaceOK, WriteOK
  <1>5. ctx[m.cli].pc # "free"
    BY <1>0, <1>1, TakenFits
  <1>6. u \in 1 .. nreq /\ \A d \in Coros : d # m.cli /\ ctx[d].pc # "free" => ctx[d].val # u
    BY <1>1, <1>5, <1>u DEF LogInv, Values
  <1>7. Val(z, m) = u
    <2>1. Sound(Net, pos, kv, ctx, nreq, "c2s", m)
      BY <1>0, TakenSound
    <2>2. Has(pos, kv, m.log, m.key, u)
      BY <1>0, <1>u, <2>1 DEF Sound, WriteReplies
    <2> QED
      BY <1>z, <2>2, ViewIs DEF Has, Val
  <1>8. PICK r2 : /\ Ranked(r2, nreq) /\ Extends(r, r2, u)
                  /\ \A v : rk(r, v) < rk(r2, u)
    BY <1>1, <1>4, <1>6, <1>p, NextRank
  <1>9. Steady(r, r2)
    BY <1>8, <1>p, SteadyIs
  <1>10. PICK e : Pushed(s2i, s2i', m.port, m, e)
    BY <1>0, <1>1, QueueTypes, PushIs
  <1>11. Enters(z, z2, m, e) /\ \A s \in SwitchKeys : SlotKept(z, z2, s)
    BY <1>0, <1>1, <1>2, <1>4, <1>10, <1>k, <1>z, ViewIs DEF Enters, SlotKept
  <1>h. Homed(z)
    BY <1>p, <1>z, ViewHomed
  <1>12. Held(z, m.key) =>
            \/ Cleared(z, z.s2i[ix(m.key)], MultiCastPkt, get_switch_key(m.key))
            \/ Cleared(z, z.i2s[ix(m.key)], ReplySwitch, get_switch_key(m.key))
    <2> SUFFICES ASSUME Held(z, k)
                 PROVE  \/ Cleared(z, z.s2i[ix(k)], MultiCastPkt, get_switch_key(k))
                        \/ Cleared(z, z.i2s[ix(k)], ReplySwitch, get_switch_key(k))
      BY <1>k
    <2>s. PICK s : s = get_switch_key(k)
      OBVIOUS
    <2>1. regs.key[s] # 0 /\ s \in SwitchKeys
      BY <1>1, <1>z, <2>s, Homes, ViewIs DEF Held
    <2>o. \A p : Owns(regs, p) => Owns(z, p)
      BY <1>z, ViewIs DEF Owns
    <2>2. PICK i \in IndexThreads :
            \/ \E j \in Multicasts(i) : OnSlot(s2i[i][j], s) /\ Owns(regs, s2i[i][j])
            \/ \E j \in ReplySwitches(i) : OnSlot(i2s[i][j], s) /\ Owns(regs, i2s[i][j])
      BY <2>1 DEF OwnerOutstanding
    <2>3. CASE \E j \in Multicasts(i) : OnSlot(s2i[i][j], s) /\ Owns(regs, s2i[i][j])
      <3>1. PICK j \in Multicasts(i) : OnSlot(s2i[i][j], s) /\ Owns(regs, s2i[i][j])
        BY <2>3
      <3>2. j \in DOMAIN z.s2i[i] /\ z.s2i[i][j] = s2i[i][j] /\ s2i[i][j].op = MultiCastPkt
        BY <1>z, ViewIs DEF Multicasts, Positions
      <3>3. i = ix(z.s2i[i][j].key)
        BY <1>h, <3>2 DEF Homed
      <3>4. i = ix(k)
        BY <2>s, <3>1, <3>2, <3>3 DEF ix, OnSlot
      <3> QED
        BY <2>o, <2>s, <3>1, <3>2, <3>4 DEF Cleared, Clears
    <2>4. CASE \E j \in ReplySwitches(i) : OnSlot(i2s[i][j], s) /\ Owns(regs, i2s[i][j])
      <3>1. PICK j \in ReplySwitches(i) : OnSlot(i2s[i][j], s) /\ Owns(regs, i2s[i][j])
        BY <2>4
      <3>2. j \in DOMAIN z.i2s[i] /\ z.i2s[i][j] = i2s[i][j] /\ i2s[i][j].op = ReplySwitch
        BY <1>z, ViewIs DEF ReplySwitches, Positions
      <3>3. i = ix(z.i2s[i][j].key)
        BY <1>h, <3>2 DEF Homed
      <3>4. i = ix(k)
        BY <2>s, <3>1, <3>2, <3>3 DEF ix, OnSlot
      <3> QED
        BY <2>o, <2>s, <3>1, <3>2, <3>4 DEF Cleared, Clears
    <2> QED
      BY <2>2, <2>3, <2>4
  <1>13. StoreOK(r2, z2, snap) /\ Rises(r, z, r2, z2)
    BY <1>7, <1>8, <1>9, <1>11, <1>12, <1>h, <1>p, UpdateEnters
  <1>14. PacketOK(r2, z2, ctx', snap, "s2i", m.port, m)
    BY <1>4 DEF PacketOK, WriteOK, AskOK, LogOK, PlaceOK, AppendReply,
          AppendReq, MultiCastPkt, UpdateIndexReq, UpdateIndexReply, ReadIndexReq,
          ReadIndexReply, ReadLog, ReadReply, ReplySwitch
  <1>15. LinearOK(r2)'
    BY <1>0, <1>2, <1>6, <1>8, <1>13, <1>14, <1>z, LinearStep
  <1> QED
    BY <1>15

\* The switch grants a slot and multicasts the packet: the write gets the next rank and
\* is what every read finds from now on.
LEMMA LinearGrants ==
    ASSUME LogInv, Record, Preloaded, Preloaded', NEW r, LinearOK(r),
           NEW d, NEW m \in RawKvMsg, NEW x \in RawKvMsg, Grants(d, m, x)
    PROVE  \E r2 : LinearOK(r2)'
  <1>z. PICK z : z = View
    OBVIOUS
  <1>2. PICK z2 : z2 = View'
    OBVIOUS
  <1>k. PICK k : k = m.key
    OBVIOUS
  <1>u. PICK u : u = ctx[m.cli].val
    OBVIOUS
  <1>s. PICK s : s = get_switch_key(k)
    OBVIOUS
  <1>0. /\ Takes("d2s", d, m) /\ UNCHANGED <<i2s, index, kv, pos, ctx, nreq>>
        /\ m.op = AppendReply /\ m.flag /\ Granted(regs, m) /\ regs' = NewIndex(regs, m)
        /\ x = [m EXCEPT !.op = MultiCastPkt] /\ s2i' = Push(s2i, m.ixp, x)
        /\ Step("d2s", d, {<<"s2i", m.ixp, x>>, <<"s2c", m.cli[1], x>>}, {m.cli})
        /\ Answering("d2s", m)
    BY DEF Grants, Answering
  <1>1. /\ TypeOK /\ SoleAnswer /\ m.cli \in Coros /\ k \in Keys /\ nreq \in Nat
        /\ regs \in Registers /\ s \in SwitchKeys
    BY <1>0, <1>k, <1>s, TakenType, BoundAssumption, Homes DEF LogInv, TypeOK
  <1>p. /\ Ranked(r, nreq) /\ StoreOK(r, z, snap) /\ PacketsOK(r, z, ctx, snap, Net)
        /\ \A c \in Coros : \A o \in snap[c] : Admitted(r, o[1])
    BY <1>z, LinearParts
  <1>3. PacketOK(r, z, ctx, snap, "d2s", d, m)
    BY <1>0, <1>1, <1>z, TakenOK
  <1>4. m.ixp = ix(m.key) /\ rk(r, u) = 0
    BY <1>0, <1>3, <1>u DEF PacketOK, WriteOK
  <1>5. ctx[m.cli].pc # "free"
    BY <1>0, <1>1, TakenFits
  <1>6. u \in 1 .. nreq /\ \A c \in Coros : c # m.cli /\ ctx[c].pc # "free" => ctx[c].val # u
    BY <1>1, <1>5, <1>u DEF LogInv, Values
  <1>7. Has(z.pos, z.kv, m.log, m.key, u) /\ FLAGS_visibility
    <2>1. Sound(Net, pos, kv, ctx, nreq, "d2s", m)
      BY <1>0, TakenSound
    <2>2. Has(pos, kv, m.log, m.key, u) /\ m.flag = FLAGS_visibility
      BY <1>0, <1>u, <2>1 DEF Sound, WriteReplies
    <2> QED
      BY <1>0, <1>z, <2>2, ViewIs
  <1>8. PICK r2 : /\ Ranked(r2, nreq) /\ Extends(r, r2, u)
                  /\ \A v : rk(r, v) < rk(r2, u)
    BY <1>1, <1>4, <1>6, <1>p, NextRank
  <1>9. Steady(r, r2)
    BY <1>8, <1>p, SteadyIs
  <1>x. x.op = MultiCastPkt /\ x.key = k /\ x.log = m.log /\ x.cli = m.cli
    BY <1>0, <1>k DEF RawKvMsg
  <1>10. PICK e : Pushed(s2i, s2i', m.ixp, x, e)
    BY <1>0, <1>1, <1>4, <1>k, Homes, QueueTypes, PushIs
  <1>11. Enters(z, z2, x, e)
    BY <1>0, <1>1, <1>2, <1>4, <1>10, <1>k, <1>x, <1>z, ViewIs DEF Enters
  <1>12. /\ \A a \in SwitchKeys : a # s => SlotKept(z, z2, a)
         /\ z2.key[s] = get_fingerprint(k) /\ z2.log[s] = m.log
    <2>1. /\ \A a \in SwitchKeys : a # s => SameOwner(a)
          /\ regs'.key[s] = get_fingerprint(k) /\ regs'.log[s] = m.log
      BY <1>0, <1>1, <1>k, <1>s
         DEF NewIndex, Granted, FwNewIndex, OwNewIndex, SameOwner, Registers
    <2> QED
      BY <1>2, <1>z, <2>1, ViewIs DEF SlotKept, SameOwner
  <1>h. Homed(z)
    BY <1>p, <1>z, ViewHomed
  <1>13. StoreOK(r2, z2, snap) /\ Rises(r, z, r2, z2)
    BY <1>7, <1>8, <1>9, <1>11, <1>12, <1>h, <1>k, <1>p, <1>s, <1>x, GrantEnters
  <1>14. PacketOK(r2, z2, ctx', snap, "s2i", m.ixp, x)
    BY <1>4, <1>k, <1>x DEF PacketOK, WriteOK, AskOK, LogOK, PlaceOK, AppendReply,
          AppendReq, MultiCastPkt, UpdateIndexReq, UpdateIndexReply, ReadIndexReq,
          ReadIndexReply, ReadLog, ReadReply, ReplySwitch
  <1>15. rk(r2, u) > 0 /\ Low(r2, z2, k, rk(r2, u))
    <2>1. Held(z2, k) /\ HeldVal(z2, k) = u
      <3>1. get_fingerprint(k) # 0
        BY <1>1, KeyRanges
      <3>2. At(z2.kv, m.log) = [key |-> k, val |-> u]
        BY <1>7, <1>11, <1>k DEF Has, Enters
      <3> QED
        BY <1>12, <1>s, <3>1, <3>2 DEF Held, HeldVal
    <2>2. rk(r2, u) \in Nat /\ rk(r, u) < rk(r2, u)
      BY <1>8, RankNat
    <2> QED
      BY <1>4, <2>1, <2>2 DEF Low
  <1>16. PacketOK(r2, z2, ctx', snap, "s2c", m.cli[1], x)
    BY <1>0, <1>15, <1>u, <1>x DEF PacketOK, WriteOK, AskOK, LogOK, PlaceOK, AppendReply,
          AppendReq, MultiCastPkt, UpdateIndexReq, UpdateIndexReply, ReadIndexReq,
          ReadIndexReply, ReadLog, ReadReply, ReplySwitch
  <1>17. LinearOK(r2)'
    BY <1>0, <1>2, <1>6, <1>8, <1>13, <1>14, <1>16, <1>z, LinearStep
  <1> QED
    BY <1>17

-----------------------------------------------------------------------------
(* A request starts and ends. *)

\* The history is kept for the keys and the coroutines.
Recorded == DOMAIN seen = Keys /\ DOMAIN snap = Coros /\ DOMAIN prec = Keys

\* What the store keeps in a quiet step, when the coroutine of a queued read keeps what
\* it has seen.
LEMMA QuietSnap ==
    ASSUME LogInv, Preloaded, Preloaded', NEW f0, NEW n0, NEW S, NEW c,
           Step(f0, n0, S, {c}), f0 # "s2i", NEW r, LinearOK(r), StoreSame,
           \A d \in Coros : d # c => snap'[d] = snap[d],
           NEW z, z = View, NEW z2, z2 = View'
    PROVE  StoreOK(r, z2, snap') /\ Rises(r, z, r, z2) /\ Keeps(z, z2)
  <1>1. Keeps(z, z2) /\ Logged(z)
    BY ViewKeeps, ViewLogged
  <1>2. Steady(r, r) /\ StoreOK(r, z, snap) /\ PacketsOK(r, z, ctx, snap, Net)
    BY LinearParts
  <1>3. Homed(z)
    BY <1>2, ViewHomed
  <1>4. /\ z2.index = z.index /\ z2.s2i = z.s2i /\ z2.i2s = z.i2s
        /\ \A s \in SwitchKeys : SlotKept(z, z2, s)
    BY ViewIs DEF StoreSame, SlotKept
  <1>5. Quiet(z, z2)
    BY <1>1, <1>4 DEF Quiet
  <1>6. ASSUME NEW i \in IndexThreads, NEW j \in DOMAIN z.s2i[i], z.s2i[i][j].op = ReadIndexReq
        PROVE  snap'[z.s2i[i][j].cli] = snap[z.s2i[i][j].cli]
    <2>1. z.s2i[i][j] = Net["s2i"][i][j] /\ j \in DOMAIN Net["s2i"][i]
      BY ViewIs, NetIs
    <2>2. Answering("s2i", Net["s2i"][i][j])
      BY <1>6, <2>1 DEF Answering, ReadIndexReq, MultiCastPkt
    <2>3. z.s2i[i][j].cli # c
      BY <2>1, <2>2, EndsAre DEF Step, Still, Links
    <2>4. z.s2i[i][j].cli \in Coros
      BY <1>3 DEF Homed
    <2> QED
      BY <2>3, <2>4
  <1> QED
    BY <1>1, <1>2, <1>3, <1>5, <1>6, QuietStore

\* A request starts: its client has seen nothing that a read could miss.
LEMMA LinearBegins ==
    ASSUME LogInv, SameThread, Recorded, Record, Preloaded, Preloaded', NEW r, LinearOK(r),
           NEW c \in Coros, NEW x \in RawKvMsg, Begins(c, x)
    PROVE  LinearOK(r)'
  <1>z. PICK z : z = View
    OBVIOUS
  <1>2. PICK z2 : z2 = View'
    OBVIOUS
  <1>k. PICK k : k = ctx'[c].key
    OBVIOUS
  <1>0. /\ ctx[c].pc = "free" /\ nreq' = nreq + 1 /\ StoreSame
        /\ ctx'[c].val = nreq + 1 /\ k \in Keys
        /\ \/ ctx'[c].pc = "put_value" /\ x = put_value(c, ctx'[c])
           \/ ctx'[c].pc = "get_index" /\ x = get_index(c, ctx'[c])
        /\ Step("none", c[1], {<<"c2s", c[1], x>>}, {c})
    BY <1>k DEF Begins
  <1>1. \A d \in Coros : d # c => ctx'[d] = ctx[d]
    BY <1>0 DEF Step
  <1>3. RecordCall(c)
    <2>1. \A d \in Coros : ~ Returned(d) /\ (Called(d) => d = c)
      BY <1>0, <1>1 DEF Returned, Called
    <2>2. Called(c)
      BY <1>0 DEF Called
    <2> QED
      BY <2>1, <2>2 DEF Record
  <1>4. /\ snap'[c] = seen[k] /\ \A d \in Coros : d # c => snap'[d] = snap[d]
        /\ seen' = seen
        /\ \A n \in Keys : \A p : p \in prec'[n] <=>
               p \in prec[n] \/ (n = k /\ ctx'[c].pc = "put_value" /\ p \in After(seen[k], nreq + 1))
    BY <1>0, <1>3, <1>k DEF RecordCall, Recorded
  <1>p. /\ Ranked(r, nreq) /\ Steady(r, r) /\ HistoryOK(r, z, ctx, seen, snap, prec)
        /\ PacketsOK(r, z, ctx, snap, Net)
        /\ \A a \in Coros : \A o \in snap[a] : Admitted(r, o[1])
    BY <1>z, LinearParts
  <1>n. nreq \in Nat
    BY BoundAssumption DEF LogInv, TypeOK
  <1>5. Ranked(r, nreq') /\ rk(r, nreq + 1) = 0
    <2>1. \A v \in Nat : r[v] > 0 => v <= nreq
      BY <1>p DEF Ranked
    <2>2. \A v \in Nat : r[v] > 0 => v <= nreq'
      BY <1>0, <1>n, <2>1
    <2>3. rk(r, nreq + 1) = 0
      <3>1. r \in [Nat -> Nat] /\ nreq + 1 \in Nat /\ ~ (nreq + 1 <= nreq)
        BY <1>n, <1>p DEF Ranked
      <3> QED
        BY <2>1, <3>1 DEF rk
    <2> QED
      BY <1>p, <2>2, <2>3 DEF Ranked
  <1>6. StoreOK(r, z2, snap') /\ Rises(r, z, r, z2) /\ Keeps(z, z2)
    BY <1>0, <1>2, <1>4, <1>z, QuietSnap
  <1>7. \A n \in Keys : \A o \in seen[n] :
            Admitted(r, o[1]) /\ Low(r, z2, n, rk(r, o[1]))
    BY <1>6, <1>p DEF HistoryOK, Rises, Steady
  <1>8. PacketOK(r, z2, ctx', snap', "c2s", c[1], x)
    <2>1. CASE ctx'[c].pc = "put_value" /\ x = put_value(c, ctx'[c])
      <3>1. x.op = AppendReq /\ x.cli = c /\ x.key = k /\ x.ixp = get_index_thread_id(k)
        BY <1>k, <2>1 DEF put_value
      <3>2. x.ixp = ix(k)
        BY <1>0, <3>1 DEF SameThread
      <3> QED
        BY <1>0, <1>5, <3>1, <3>2 DEF PacketOK, WriteOK, AskOK, LogOK, PlaceOK, AppendReply,
              AppendReq, MultiCastPkt, UpdateIndexReq, UpdateIndexReply, ReadIndexReq,
              ReadIndexReply, ReadLog, ReadReply, ReplySwitch
    <2>2. CASE ctx'[c].pc = "get_index" /\ x = get_index(c, ctx'[c])
      <3>1. /\ x.op = ReadIndexReq /\ x.cli = c /\ x.key = k /\ x.port = ix(k)
            /\ x.flag = FLAGS_visibility
        BY <1>k, <2>2 DEF get_index, ix
      <3>2. \A o \in snap'[c] : Low(r, z2, k, rk(r, o[1]))
        BY <1>0, <1>4, <1>7
      <3> QED
        BY <3>1, <3>2 DEF PacketOK, WriteOK, AskOK, LogOK, PlaceOK, AppendReply,
              AppendReq, MultiCastPkt, UpdateIndexReq, UpdateIndexReply, ReadIndexReq,
              ReadIndexReply, ReadLog, ReadReply, ReplySwitch
    <2> QED
      BY <1>0, <2>1, <2>2
  <1>9. PacketsOK(r, z2, ctx', snap', Net')
    BY <1>0, <1>4, <1>6, <1>8, <1>p, PacketsStep
  <1>10. \A n \in Keys : \A p \in prec'[n] : Before(r, p)
    <2>1. \A n \in Keys : \A p \in prec[n] : Before(r, p)
      BY <1>p DEF HistoryOK
    <2>2. ASSUME NEW p \in After(seen[k], nreq + 1) PROVE Before(r, p)
      <3>1. PICK o \in seen[k] : p = <<o[1], nreq + 1, o[2]>>
        BY DEF After
      <3>2. p[1] = o[1] /\ p[2] = nreq + 1 /\ nreq + 1 # 0
        BY <1>n, <3>1
      <3> QED
        BY <1>0, <1>5, <1>7, <3>2 DEF Before
    <2> QED
      BY <1>4, <2>1, <2>2
  <1>11. \A a \in Coros : \A o \in snap'[a] : Admitted(r, o[1])
    BY <1>0, <1>4, <1>7, <1>p
  <1>12. ASSUME NEW a \in Coros, ctx'[a].pc \in {"put_value", "put_index"}
         PROVE  After(snap'[a], ctx'[a].val) \subseteq prec'[ctx'[a].key]
    <2>1. CASE a = c
      BY <1>0, <1>4, <1>12, <1>k, <2>1
    <2>2. CASE a # c
      <3>1. After(snap[a], ctx[a].val) \subseteq prec[ctx[a].key] /\ ctx'[a] = ctx[a]
        BY <1>1, <1>12, <1>p, <2>2 DEF HistoryOK
      <3>2. ctx[a].key \in Keys
        BY DEF LogInv, TypeOK, KvCtx
      <3> QED
        BY <1>4, <2>2, <3>1, <3>2
    <2> QED
      BY <2>1, <2>2
  <1>13. HistoryOK(r, z2, ctx', seen', snap', prec')
    BY <1>4, <1>7, <1>10, <1>11, <1>12 DEF HistoryOK
  <1> QED
    BY <1>2, <1>5, <1>6, <1>9, <1>13 DEF LinearOK

\* Known log ids are log ids.
LEMMA KnownLog ==
    ASSUME NEW z, NEW l, Known(z, l)
    PROVE  l # NoLog
  <1>1. 0 \in 0 .. logspace - 1 /\ 0 \in DataThreads
    BY LogAssumption, ThreadAssumption DEF DataThreads
  <1>2. Preload \in LogIds
    BY <1>1, LogParts DEF Preload
  <1> QED
    BY <1>2, NoLogApart DEF Known, Within

\* The clusters a request has seen before its own come before it.
LEMMA RanksBefore ==
    ASSUME NEW r, NEW nr, Ranked(r, nr), NEW s, \A o \in s : Admitted(r, o[1]),
           NEW v, Admitted(r, v), \A o \in s : rk(r, o[1]) <= rk(r, v)
    PROVE  \A p \in After(s, v) : Before(r, p)
  <1> SUFFICES ASSUME NEW p \in After(s, v) PROVE Before(r, p)
    OBVIOUS
  <1>1. PICK o \in s : o[1] # v /\ p = <<o[1], v, o[2]>>
    BY DEF After
  <1>2. p[1] = o[1] /\ p[2] = v
    BY <1>1
  <1>3. /\ \A a : rk(r, a) \in Nat
        /\ rk(r, 0) = 0
        /\ \A a, b : rk(r, a) = rk(r, b) /\ rk(r, a) > 0 => a = b
    BY RankNat
  <1>4. Admitted(r, o[1]) /\ rk(r, o[1]) <= rk(r, v)
    BY <1>1
  <1> QED
    BY <1>1, <1>2, <1>3, <1>4 DEF Before, Admitted

\* A request ends: what it returns is seen by every later read.
LEMMA LinearFinishes ==
    ASSUME LogInv, Recorded, Record, Preloaded, Preloaded', NEW r, LinearOK(r),
           NEW t, NEW m \in RawKvMsg, Finishes(t, m)
    PROVE  LinearOK(r)'
  <1>z. PICK z : z = View
    OBVIOUS
  <1>2. PICK z2 : z2 = View'
    OBVIOUS
  <1>c. PICK c : c = m.cli
    OBVIOUS
  <1>k. PICK k : k = m.key
    OBVIOUS
  <1>0. /\ Takes("s2c", t, m) /\ StoreSame /\ nreq' = nreq
        /\ \/ m.op \in {MultiCastPkt, UpdateIndexReply, ReadReply}
           \/ m.op \in {ReadIndexReq, ReadIndexReply} /\ m.log = NoLog
        /\ ctx'[c].pc = "free" /\ Step("s2c", t, {}, {c})
    BY <1>c DEF Finishes
  <1>1. /\ TypeOK /\ SoleAnswer /\ c \in Coros /\ k \in Keys /\ Answering("s2c", m)
    BY <1>0, <1>c, <1>k, TakenType DEF LogInv, Answering
  <1>3. PacketOK(r, z, ctx, snap, "s2c", t, m)
    BY <1>0, <1>1, <1>z, TakenOK
  <1>4. t = c[1] /\ m = Head(s2c[c[1]])
    BY <1>0, <1>3, <1>c, NetIs DEF PacketOK, PlaceOK, Takes
  <1>5. m.op \in {MultiCastPkt, UpdateIndexReply, ReadReply}
    <2> SUFFICES ASSUME m.op \in {ReadIndexReq, ReadIndexReply}, m.log = NoLog
                 PROVE  FALSE
      BY <1>0
    <2>1. Known(z, m.log)
      BY <1>3 DEF PacketOK, LogOK, GoodLog
    <2> QED
      BY <2>1, KnownLog
  <1>6. Fits(ctx[c], "s2c", m) /\ ctx[c].pc # "free"
    BY <1>0, <1>1, <1>c, TakenFits
  <1>7. /\ ctx[c].key = k
        /\ m.op = ReadReply => ctx[c].pc = "get_value"
        /\ m.op # ReadReply => ctx[c].pc \in {"put_value", "put_index"}
    BY <1>5, <1>6, <1>k DEF Fits, Stage, AppendReply, AppendReq, MultiCastPkt,
          UpdateIndexReq, UpdateIndexReply, ReadIndexReq, ReadIndexReply, ReadLog, ReadReply
  <1>8. \A d \in Coros : d # c => ctx'[d] = ctx[d]
    BY <1>0 DEF Step
  <1>p. /\ Ranked(r, nreq) /\ Steady(r, r) /\ HistoryOK(r, z, ctx, seen, snap, prec)
        /\ PacketsOK(r, z, ctx, snap, Net) /\ Extends(r, r, 0)
        /\ \A a \in Coros : \A o \in snap[a] : Admitted(r, o[1])
    BY <1>z, LinearParts
  <1>9. \/ ~ Discarded(c) /\ RecordReturn(c)
        \/ UNCHANGED histVars
    <2>1. \A d \in Coros : ~ Called(d) /\ (Returned(d) => d = c)
      BY <1>0, <1>6, <1>8 DEF Returned, Called
    <2> QED
      BY <2>1 DEF Record
  <1>10. CASE UNCHANGED histVars
    <2>1. snap' = snap
      BY <1>10 DEF histVars
    <2>2. StoreOK(r, z2, snap') /\ Rises(r, z, r, z2) /\ Keeps(z, z2)
      BY <1>0, <1>2, <1>z, <2>1, QuietSnap
    <2>3. PacketsOK(r, z2, ctx', snap', Net')
      BY <1>0, <1>p, <2>1, <2>2, PacketsStep
    <2>4. HistoryOK(r, z2, ctx', seen', snap', prec')
      <3>1. \A a \in Coros : ctx'[a].pc \in {"put_value", "put_index"} =>
               /\ ctx[a].pc \in {"put_value", "put_index"}
               /\ ctx'[a].val = ctx[a].val /\ ctx'[a].key = ctx[a].key
        BY <1>0, <1>8
      <3> QED
        BY <1>10, <1>p, <2>2, <3>1, HistoryStep
    <2> QED
      BY <1>0, <1>2, <1>p, <2>2, <2>3, <2>4 DEF LinearOK
  <1>11. CASE ~ Discarded(c) /\ RecordReturn(c)
    <2>v. PICK v : v = Cluster(c)
      OBVIOUS
    <2>1. /\ snap'[c] = {} /\ \A d \in Coros : d # c => snap'[d] = snap[d]
          /\ \A n \in Keys : \A o : o \in seen'[n] <=>
                 o \in seen[n] \/ (n = k /\ o = <<v, Writing(c)>>)
          /\ \A n \in Keys : \A p : p \in prec'[n] <=>
                 p \in prec[n] \/ (n = k /\ p \in After(snap[c], v))
      BY <1>1, <1>7, <1>11, <2>v DEF RecordReturn, Recorded
    <2>2. StoreOK(r, z2, snap') /\ Rises(r, z, r, z2) /\ Keeps(z, z2)
      BY <1>0, <1>2, <1>z, <2>1, QuietSnap
    <2>3. PacketsOK(r, z2, ctx', snap', Net')
      BY <1>0, <1>p, <2>1, <2>2, PacketsStep
    <2>4. /\ Admitted(r, v) /\ Low(r, z, k, rk(r, v))
          /\ \A p \in After(snap[c], v) : Before(r, p)
      <3>1. CASE m.op # ReadReply
        <4>1. v = ctx[c].val
          BY <1>7, <2>v, <3>1 DEF Cluster, Writing
        <4>2. rk(r, v) > 0 /\ Low(r, z, k, rk(r, v))
          BY <1>3, <1>5, <1>c, <1>k, <3>1, <4>1 DEF PacketOK, WriteOK
        <4>3. After(snap[c], v) \subseteq prec[k]
          BY <1>1, <1>7, <1>p, <3>1, <4>1 DEF HistoryOK
        <4> QED
          BY <1>1, <1>p, <4>2, <4>3 DEF HistoryOK, Admitted
      <3>2. CASE m.op = ReadReply
        <4>1. v = Of(k, m.entry)
          BY <1>4, <1>7, <2>v, <3>2 DEF Cluster, Writing, Of
        <4>2. GoodEntry(r, z, snap, c, k, m.entry)
          BY <1>3, <1>c, <1>k, <3>2 DEF PacketOK, LogOK
        <4>3. read_ok(k, m.entry)
          BY <1>4, <1>7, <1>11, <3>2 DEF Discarded
        <4>4. /\ Admitted(r, v) /\ Low(r, z, k, rk(r, v))
              /\ \A o \in snap[c] : rk(r, o[1]) <= rk(r, v)
          BY <4>1, <4>2, <4>3 DEF GoodEntry, read_ok
        <4> QED
          BY <1>1, <1>p, <4>4, RanksBefore
      <3> QED
        BY <3>1, <3>2
    <2>5. \A n \in Keys : \A o \in seen'[n] :
              Admitted(r, o[1]) /\ Low(r, z2, n, rk(r, o[1]))
      <3>1. \A n \in Keys : \A o \in seen[n] :
                Admitted(r, o[1]) /\ Low(r, z2, n, rk(r, o[1]))
        BY <1>p, <2>2 DEF HistoryOK, Rises, Steady
      <3>2. Low(r, z2, k, rk(r, v))
        BY <1>1, <1>p, <2>2, <2>4 DEF Rises, Steady
      <3>3. \A w : <<v, w>>[1] = v
        OBVIOUS
      <3> QED
        BY <2>1, <2>4, <3>1, <3>2, <3>3
    <2>6. \A n \in Keys : \A p \in prec'[n] : Before(r, p)
      BY <1>p, <2>1, <2>4 DEF HistoryOK
    <2>7. \A a \in Coros : \A o \in snap'[a] : Admitted(r, o[1])
      BY <1>p, <2>1
    <2>8. ASSUME NEW a \in Coros, ctx'[a].pc \in {"put_value", "put_index"}
          PROVE  After(snap'[a], ctx'[a].val) \subseteq prec'[ctx'[a].key]
      <3>1. a # c /\ ctx'[a] = ctx[a] /\ snap'[a] = snap[a]
        BY <1>0, <1>8, <2>1, <2>8
      <3>2. After(snap[a], ctx[a].val) \subseteq prec[ctx[a].key]
        BY <1>p, <2>8, <3>1 DEF HistoryOK
      <3>3. ctx[a].key \in Keys
        BY DEF LogInv, TypeOK, KvCtx
      <3> QED
        BY <2>1, <3>1, <3>2, <3>3
    <2>9. HistoryOK(r, z2, ctx', seen', snap', prec')
      BY <2>5, <2>6, <2>7, <2>8 DEF HistoryOK
    <2> QED
      BY <1>0, <1>2, <1>p, <2>2, <2>3, <2>9 DEF LinearOK
  <1> QED
    BY <1>9, <1>10, <1>11

-----------------------------------------------------------------------------
(* The invariant. *)

\* Initially no update has a rank.
LEMMA LinearInit ==
    ASSUME Init, InitHistory
    PROVE  LinearInv /\ Recorded
  <1>z. PICK z : z = View
    OBVIOUS
  <1>r. PICK r : r = [v \in Nat |-> 0]
    OBVIOUS
  <1>1. \A v : rk(r, v) = 0
    BY <1>r DEF rk
  <1>2. Ranked(r, nreq)
    <2>1. nreq = 0 /\ r \in [Nat -> Nat] /\ \A v \in Nat : r[v] = 0
      BY <1>r DEF Init
    <2>2. \E t \in Nat : \A v \in Nat : r[v] <= t
      <3>1. 0 \in Nat /\ \A v \in Nat : r[v] <= 0
        BY <2>1
      <3> QED
        BY <3>1
    <2> QED
      BY <2>1, <2>2 DEF Ranked
  <1>3. /\ z.kv = kv /\ z.index = index /\ z.s2i = s2i /\ z.i2s = i2s /\ z.key = regs.key
    BY <1>z, ViewIs
  <1>4. /\ \A k \in Keys : index[k] = Preload
        /\ \A i \in IndexThreads : s2i[i] = <<>> /\ i2s[i] = <<>>
        /\ \A s \in SwitchKeys : regs.key[s] = 0
        /\ \A c \in Coros : ctx[c].pc = "free"
    BY DEF Init, Reset, Preload
  <1>5. At(kv, Preload) = Blank
    <2>1. 0 \in 0 .. logspace - 1 /\ 0 \in DataThreads
      BY LogAssumption, ThreadAssumption DEF DataThreads
    <2>2. logid_2_threadid(Preload) = 0 /\ logid_2_locallogid(Preload) = 0
      BY <2>1, LogParts DEF Preload
    <2> QED
      BY <2>1, <2>2 DEF Init, At
  <1>6. \A k \in Keys : Indexed(z, k) = 0
    <2>1. \A k : Of(k, Blank) = 0
      BY DEF Of, Blank
    <2> QED
      BY <1>3, <1>4, <1>5, <2>1 DEF Indexed
  <1>7. StoreOK(r, z, snap)
    <2>1. IndexOK(r, z)
      BY <1>3, <1>4, <1>6 DEF IndexOK, Known, Admitted
    <2>2. SlotsOK(r, z)
      BY <1>3, <1>4 DEF SlotsOK
    <2>3. QueueOK(r, z) /\ LagOK(r, z) /\ ReadsOK(r, z, snap)
      BY <1>3, <1>4 DEF QueueOK, LagOK, ReadsOK
    <2> QED
      BY <2>1, <2>2, <2>3 DEF StoreOK
  <1>8. PacketsOK(r, z, ctx, snap, Net)
    <2>1. \A f \in Links : \A n \in Ends(f) : Net[f][n] = <<>>
      BY NetIs, EndsAre DEF Init, Links
    <2> QED
      BY <2>1 DEF PacketsOK
  <1>9. HistoryOK(r, z, ctx, seen, snap, prec)
    <2>1. /\ \A k \in Keys : seen[k] = {<<0, TRUE>>} /\ prec[k] = {}
          /\ \A c \in Coros : snap[c] = {}
      BY DEF InitHistory
    <2>2. \A k \in Keys : Low(r, z, k, 0)
      <3>1. \A k \in Keys : ~ Held(z, k)
        BY <1>3, <1>4, Homes DEF Held
      <3>2. \A k \in Keys : 0 <= rk(r, Indexed(z, k))
        BY <1>1
      <3> QED
        BY <3>1, <3>2 DEF Low, Reach
    <2>3. <<0, TRUE>>[1] = 0
      OBVIOUS
    <2> QED
      BY <1>1, <1>4, <2>1, <2>2, <2>3 DEF HistoryOK, Admitted
  <1>10. LinearOK(r)
    BY <1>2, <1>7, <1>8, <1>9, <1>z DEF LinearOK
  <1> QED
    BY <1>10 DEF LinearInv, Recorded, InitHistory

\* The history keeps its domains.
LEMMA RecordedNext ==
    ASSUME Recorded, Record \/ UNCHANGED histVars
    PROVE  Recorded'
  BY DEF Recorded, Record, RecordCall, RecordReturn, histVars

\* Every step keeps the invariant.
LEMMA LinearNext ==
    ASSUME SameThread, LogInv, OwnerOutstanding, RingsOpen, Preloaded, Preloaded',
           Recorded, LinearInv, [Next /\ Record]_<<vars, histVars>>
    PROVE  LinearInv'
  <1>r. PICK r : LinearOK(r)
    BY DEF LinearInv
  <1> SUFFICES \E r2 : LinearOK(r2)'
    BY DEF LinearInv
  <1>0. TypeOK /\ SoleAnswer
    BY DEF LogInv
  <1>1. CASE UNCHANGED <<vars, histVars>>
    <2>1. View' = View /\ Net' = Net /\ UNCHANGED <<ctx, nreq, seen, snap, prec>>
      BY <1>1 DEF vars, histVars, View, Net
    <2>2. LinearOK(r)'
      BY <1>r, <2>1 DEF LinearOK
    <2> QED
      BY <2>2
  <1>2. CASE Next /\ Record
    <2>0. TypeOK' /\ Record
      BY <1>0, <1>2, NextType
    <2>2. CASE \E c \in Coros, k \in Keys : kEnumW(c, k) \/ kEnumR(c, k)
      BY <1>0, <1>r, <2>0, <2>2, RequestForm, LinearBegins
    <2>3. CASE \E t \in CThreads : ClientReply(t)
      BY <1>0, <1>r, <2>0, <2>3, ClientForm, LinearFinishes, LinearDefers, LinearFetches
    <2>4. CASE \E t \in CThreads : SwitchClient(t)
      <3>1. PICK t \in CThreads, m \in RawKvMsg :
                ToData(t, m) \/ ToIndex(t, m) \/ \E x \in RawKvMsg : Hits(t, m, x)
        BY <1>0, <2>4, SwitchClientForm
      <3>2. CASE ToIndex(t, m)
        <4>1. m.op \in {ReadIndexReq, UpdateIndexReq}
          BY <3>2 DEF ToIndex
        <4> QED
          BY <1>r, <2>0, <3>2, <4>1, LinearAsks, LinearUpdates
      <3> QED
        BY <1>r, <2>0, <3>1, <3>2, LinearToData, LinearHits
    <2>5. CASE \E d \in DataThreads : DataServer(d)
      BY <1>0, <1>r, <2>0, <2>5, DataServerForm, LinearAppends, LinearLooks
    <2>6. CASE \E d \in DataThreads : SwitchData(d)
      BY <1>0, <1>r, <2>0, <2>6, SwitchDataForm, LinearPasses, LinearGrants
    <2>7. CASE \E i \in IndexThreads : IndexServer(i)
      BY <1>0, <1>r, <2>0, <2>7, IndexServerForm, LinearPuts, LinearGets
    <2>8. CASE \E i \in IndexThreads : SwitchIndex(i)
      BY <1>0, <1>r, <2>0, <2>8, SwitchIndexForm, LinearFrees, LinearForwards
    <2> QED
      BY <1>2, <2>2, <2>3, <2>4, <2>5, <2>6, <2>7, <2>8 DEF Next
  <1> QED
    BY <1>1, <1>2

\* Clusters that have ranks do not precede each other.
LEMMA RanksOrder == LinearInv => Linearizable
  <1> SUFFICES ASSUME NEW r, LinearOK(r), NEW k \in Keys, NEW p \in prec[k], NEW q \in prec[k],
                      Opposite(p, q)
               PROVE  FALSE
    BY DEF LinearInv, Linearizable
  <1>z. PICK z : z = View
    OBVIOUS
  <1>1. Before(r, p) /\ Before(r, q) /\ p[1] = q[2] /\ p[2] = q[1]
    BY <1>z, LinearParts DEF HistoryOK, Opposite
  <1>2. rk(r, p[1]) \in Nat /\ rk(r, p[2]) \in Nat
    BY <1>z, LinearParts
  <1> QED
    BY <1>1, <1>2 DEF Before, Admitted

\* Of two writes in sequence the later one is seen.
LEMMA LinearizableFresh == Linearizable => Fresh
  BY DEF Linearizable, Fresh

(***************************************************************************)
(* Reads and writes of the store are linearizable, whichever of the two    *)
(* programs the switch runs, with and without visibility, for every number *)
(* of keys, clients, threads and slots and every width of fingerprint,     *)
(* magic and timestamp: as long as put_value and put_index agree on the    *)
(* index thread of a key (SameThread), no ring of a data thread goes round *)
(* (RingsOpen), and the log entry that main() lets every key point to is   *)
(* not written (Preloaded).                                                *)
(***************************************************************************)
THEOREM LinearSafety ==
    ASSUME SameThread
    PROVE  SpecH /\ []RingsOpen /\ []Preloaded => []Linearizable
  <1>1. Init /\ InitHistory => LogInv /\ OwnerOutstanding /\ Recorded /\ LinearInv
    BY LogInit, OwnerInit, LinearInit
  <1>2. /\ LogInv /\ OwnerOutstanding /\ Recorded /\ LinearInv
        /\ RingsOpen /\ Preloaded /\ Preloaded' /\ [Next /\ Record]_<<vars, histVars>>
        => (LogInv /\ OwnerOutstanding /\ Recorded /\ LinearInv)'
    <2> SUFFICES ASSUME LogInv, OwnerOutstanding, Recorded, LinearInv, RingsOpen, Preloaded,
                        Preloaded', [Next /\ Record]_<<vars, histVars>>
                 PROVE  (LogInv /\ OwnerOutstanding /\ Recorded /\ LinearInv)'
      OBVIOUS
    <2>1. [Next]_vars /\ (Record \/ UNCHANGED histVars)
      OBVIOUS
    <2>2. TypeOK
      BY DEF LogInv
    <2> QED
      BY <2>1, <2>2, LogNext, OwnerNext, RecordedNext, LinearNext
  <1>3. LinearInv => Linearizable
    BY RanksOrder
  <1> QED
    BY <1>1, <1>2, <1>3, PTL DEF SpecH

(***************************************************************************)
(* A read called after a write has returned never returns the value of an  *)
(* earlier write, also when the write was fast and no index holds it yet.  *)
(***************************************************************************)
THEOREM FreshSafety ==
    ASSUME SameThread
    PROVE  SpecH /\ []RingsOpen /\ []Preloaded => []Fresh
  <1>1. SpecH /\ []RingsOpen /\ []Preloaded => []Linearizable
    BY LinearSafety
  <1>2. Linearizable => Fresh
    BY LinearizableFresh
  <1> QED
    BY <1>1, <1>2, PTL
=============================================================================
