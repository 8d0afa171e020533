---------------------------- MODULE KvLogProofs ----------------------------
(***************************************************************************)
(* Which write a log id stands for, and what follows from it: with p4_fw   *)
(* the store implements Visibility, as long as no ring of a data thread    *)
(* goes round.                                                             *)
(*                                                                         *)
(* The invariant LogInv follows the value of a write. An AppendReq carries *)
(* the value of its coroutine; every later packet of the write carries a   *)
(* log id under which the log has the key and the value of the write; and  *)
(* a write whose client has still to update the index is not the write of  *)
(* any multicast or ReplySwitch. The last part is why an update of the     *)
(* index that no slot announces is never taken for an announced one.       *)
(***************************************************************************)
EXTENDS KvReplyProofs, KvRefinement

\* The entry that log id l names in the logs q, and the log ids handed out when
\* the positions are p.
At(q, l) == q[logid_2_threadid(l)][logid_2_locallogid(l)]
Within(p, l) == l \in LogIds /\ logid_2_locallogid(l) < p[logid_2_threadid(l)]
Has(p, q, l, k, v) == Within(p, l) /\ At(q, l) = [key |-> k, val |-> v]

Entry(l) == At(kv, l)
Appended(l) == Within(pos, l)
Holds(l, k, v) == Has(pos, kv, l, k, v)

\* No data thread has come to the last entry of its ring: no log id is used twice.
RingsOpen == \A d \in DataThreads : pos[d] < logspace - 1

\* Requests that have not returned have numbers of their own.
Values ==
    /\ \A c \in Coros : ctx[c].pc # "free" => ctx[c].val \in 1 .. nreq
    /\ \A c, d \in Coros :
           ctx[c].pc # "free" /\ ctx[d].pc # "free" /\ c # d => ctx[c].val # ctx[d].val

\* In the queues w no multicast and no ReplySwitch is about the write with value v.
Silent(w, q, v) ==
    \A f \in Links : \A n \in Ends(f) : \A j \in DOMAIN w[f][n] :
        ~ Answering(f, w[f][n][j]) => At(q, w[f][n][j].log).val # v
Unannounced(v) == Silent(Net, kv, v)

\* The packets of a write between its append and the end of its index update.
WriteReplies == {AppendReply, MultiCastPkt, UpdateIndexReq, UpdateIndexReply}
Deferred == {AppendReq, AppendReply, UpdateIndexReq, UpdateIndexReply}

\* What packet m on link f carries, when the coroutines are in the states x and
\* nr requests were issued.
Sound(w, p, q, x, nr, f, m) ==
    /\ m.op = AppendReq => m.entry = [key |-> m.key, val |-> x[m.cli].val]
    /\ Answering(f, m) /\ m.op \in WriteReplies => Has(p, q, m.log, m.key, x[m.cli].val)
    /\ ~ Answering(f, m) => \E v \in 1 .. nr : Has(p, q, m.log, m.key, v)
    /\ m.op \in Deferred => Silent(w, q, x[m.cli].val)
    /\ m.op \in {AppendReq, AppendReply} => m.flag = FLAGS_visibility
    /\ m.op = MultiCastPkt => FLAGS_visibility

Carries(f, m) == Sound(Net, pos, kv, ctx, nreq, f, m)

Carried ==
    \A f \in Links : \A n \in Ends(f) : \A j \in DOMAIN Net[f][n] : Carries(f, Net[f][n][j])

LogInv == TypeOK /\ SoleAnswer /\ Values /\ Carried

-----------------------------------------------------------------------------
(* Steps. A step takes the head of w[f0][n0], unless f0 is "none", and adds the *)
(* packets of S, each as <<link, node, packet>>.                                *)

Hops(w, v, f0, n0, S) ==
    \A f \in Links :
        \/ f # f0 /\ v[f] = w[f]
        \/ f = f0 /\ v[f] = Pop(w[f], n0)
        \/ f # f0 /\ \E n \in Ends(f), x \in RawKvMsg :
                         <<f, n, x>> \in S /\ v[f] = Push(w[f], n, x)

Arrives(w, v, f0, n0, S) ==
    \A f \in Links : \A n \in Ends(f) : \A j \in DOMAIN v[f][n] :
        \/ <<f, n, v[f][n][j]>> \in S
        \/ \E h \in DOMAIN w[f][n] : /\ h = IF f = f0 /\ n = n0 THEN j + 1 ELSE j
                                     /\ v[f][n][j] = w[f][n][h]
                                     /\ ~ (f = f0 /\ n = n0 /\ h = 1)

\* The packets that stay answer none of the coroutines C.
Still(w, f0, n0, C) ==
    \A f \in Links : \A n \in Ends(f) : \A h \in DOMAIN w[f][n] :
        Answering(f, w[f][n][h]) /\ ~ (f = f0 /\ n = n0 /\ h = 1)
            => w[f][n][h].cli \notin C

\* A step in which only the coroutines C have to do with the packets that move.
Step(f0, n0, S, C) ==
    /\ Arrives(Net, Net', f0, n0, S)
    /\ Still(Net, f0, n0, C)
    /\ \A d \in Coros : d \notin C => ctx'[d] = ctx[d]
    /\ \A l : Appended(l) => Appended(l)' /\ Entry(l)' = Entry(l)
    /\ nreq <= nreq'

\* What stands in the queues after such a step.
LEMMA HopArrives ==
    ASSUME NEW w, NEW v, TypedNet(w), NEW f0, NEW n0, NEW S,
           f0 \in Links => n0 \in Ends(f0) /\ w[f0][n0] # <<>>,
           Hops(w, v, f0, n0, S)
    PROVE  Arrives(w, v, f0, n0, S)
  <1> SUFFICES ASSUME NEW f \in Links, NEW n \in Ends(f), NEW j \in DOMAIN v[f][n]
               PROVE  \/ <<f, n, v[f][n][j]>> \in S
                      \/ \E h \in DOMAIN w[f][n] :
                             /\ h = IF f = f0 /\ n = n0 THEN j + 1 ELSE j
                             /\ v[f][n][j] = w[f][n][h]
                             /\ ~ (f = f0 /\ n = n0 /\ h = 1)
    BY DEF Arrives
  <1>q. PICK q : q = w[f]
    OBVIOUS
  <1>t. q \in [Ends(f) -> Seq(RawKvMsg)] /\ q[n] \in Seq(RawKvMsg)
    BY <1>q DEF TypedNet
  <1>1. CASE f # f0 /\ v[f] = w[f]
    BY <1>1
  <1>2. CASE f = f0 /\ v[f] = Pop(w[f], n0)
    <2>1. n0 \in Ends(f) /\ q[n0] # <<>> /\ v[f] = Pop(q, n0)
      BY <1>2, <1>q
    <2>2. CASE n = n0
      <3>1. v[f][n] = Tail(q[n]) /\ q[n] # <<>>
        BY <1>t, <2>1, <2>2 DEF Pop
      <3>2. j \in Nat /\ j + 1 \in DOMAIN q[n] /\ j + 1 # 1 /\ Tail(q[n])[j] = q[n][j + 1]
        BY <1>t, <3>1
      <3> QED
        BY <1>2, <1>q, <2>2, <3>1, <3>2
    <2>3. CASE n # n0
      <3>1. v[f][n] = q[n]
        BY <1>t, <2>1, <2>3 DEF Pop
      <3> QED
        BY <1>q, <2>3, <3>1
    <2> QED
      BY <2>2, <2>3
  <1>3. CASE f # f0 /\ \E a \in Ends(f), x \in RawKvMsg :
                          <<f, a, x>> \in S /\ v[f] = Push(w[f], a, x)
    <2>1. PICK a \in Ends(f), x \in RawKvMsg : <<f, a, x>> \in S /\ v[f] = Push(q, a, x)
      BY <1>3, <1>q
    <2>2. CASE n = a
      <3>1. v[f][n] = Append(q[n], x)
        BY <1>t, <2>1, <2>2 DEF Push
      <3>2. \/ j \in DOMAIN q[n] /\ v[f][n][j] = q[n][j]
            \/ v[f][n][j] = x
        BY <1>t, <3>1
      <3> QED
        BY <1>3, <1>q, <2>1, <2>2, <3>2
    <2>3. CASE n # a
      <3>1. v[f][n] = q[n]
        BY <1>t, <2>1, <2>3 DEF Push
      <3> QED
        BY <1>3, <1>q, <3>1
    <2> QED
      BY <2>2, <2>3
  <1> QED
    BY <1>1, <1>2, <1>3 DEF Hops

\* Of the packets that answer a coroutine only the head that is taken does so.
LEMMA StillHead ==
    ASSUME TypeOK, SoleAnswer, NEW f0 \in Links, NEW n0 \in Ends(f0), Net[f0][n0] # <<>>,
           Answering(f0, Head(Net[f0][n0]))
    PROVE  Still(Net, f0, n0, {Head(Net[f0][n0]).cli})
  <1>1. PICK w : w = Net
    OBVIOUS
  <1>2. TypedNet(w)
    BY <1>1, NetType
  <1>3. /\ Head(w[f0][n0]) = w[f0][n0][1] /\ 1 \in DOMAIN w[f0][n0]
        /\ w[f0][n0][1] \in RawKvMsg
    BY <1>1, <1>2, HeadPlace
  <1>c. PICK c : c = w[f0][n0][1].cli
    OBVIOUS
  <1>4. c \in Coros /\ Sole(w, ctx[c], c) /\ Answer(w, f0, n0, 1)
    BY <1>1, <1>3, <1>c DEF RawKvMsg, SoleAnswer, Answer
  <1>5. ASSUME NEW f \in Links, NEW n \in Ends(f), NEW h \in DOMAIN w[f][n],
               Answering(f, w[f][n][h]), ~ (f = f0 /\ n = n0 /\ h = 1), w[f][n][h].cli = c
        PROVE  FALSE
    <2>1. Answer(w, f, n, h)
      BY <1>5 DEF Answer
    <2> QED
      BY <1>3, <1>4, <1>5, <1>c, <2>1, SoleFits
  <1> QED
    BY <1>1, <1>3, <1>5, <1>c DEF Still

\* No packet answers a free coroutine.
LEMMA StillFree ==
    ASSUME SoleAnswer, NEW c \in Coros, ctx[c].pc = "free", NEW f0, NEW n0
    PROVE  Still(Net, f0, n0, {c})
  <1>1. PICK w : w = Net
    OBVIOUS
  <1>2. Sole(w, ctx[c], c)
    BY <1>1 DEF SoleAnswer
  <1>3. \A f \in Links : \A n \in Ends(f) : \A j \in DOMAIN w[f][n] :
             Answer(w, f, n, j) => w[f][n][j].cli # c
    BY <1>2 DEF Sole
  <1> QED
    BY <1>1, <1>3 DEF Still, Answer

\* A packet that answers somebody answers a coroutine that waits for it.
LEMMA Awaited ==
    ASSUME TypeOK, SoleAnswer, NEW f \in Links, NEW n \in Ends(f), NEW j \in DOMAIN Net[f][n]
    PROVE  /\ Net[f][n][j] \in RawKvMsg /\ Net[f][n][j].cli \in Coros
           /\ Net[f][n][j].key \in Keys
           /\ Answering(f, Net[f][n][j]) =>
                  /\ ctx[Net[f][n][j].cli].pc # "free"
                  /\ Fits(ctx[Net[f][n][j].cli], f, Net[f][n][j])
  <1>1. PICK w : w = Net
    OBVIOUS
  <1>2. w[f][n][j] \in RawKvMsg
    BY <1>1, NetType, PlaceType
  <1>3. w[f][n][j].cli \in Coros /\ w[f][n][j].key \in Keys
    BY <1>2 DEF RawKvMsg
  <1>4. ASSUME Answering(f, w[f][n][j])
        PROVE  /\ ctx[w[f][n][j].cli].pc # "free"
               /\ Fits(ctx[w[f][n][j].cli], f, w[f][n][j])
    <2>1. Sole(w, ctx[w[f][n][j].cli], w[f][n][j].cli) /\ Answer(w, f, n, j)
      BY <1>1, <1>3, <1>4 DEF SoleAnswer, Answer
    <2> QED
      BY <1>1, <2>1, SoleFits
  <1> QED
    BY <1>1, <1>2, <1>3, <1>4

-----------------------------------------------------------------------------
(* The steps by what they do to the packets, one form per branch of a handler. *)

\* m is the packet that is taken next from queue n of link f.
Takes(f, n, m) == f \in Links /\ n \in Ends(f) /\ Net[f][n] # <<>> /\ m = Head(Net[f][n])

StoreSame == UNCHANGED <<s2i, i2s, regs, index, kv, pos>>

\* kEnumW, kEnumR
Begins(c, x) ==
    /\ ctx[c].pc = "free" /\ nreq' = nreq + 1 /\ StoreSame
    /\ ctx'[c].val = nreq + 1 /\ ctx'[c].key \in Keys
    /\ \/ ctx'[c].pc = "put_value" /\ x = put_value(c, ctx'[c])
       \/ ctx'[c].pc = "get_index" /\ x = get_index(c, ctx'[c])
    /\ Step("none", c[1], {<<"c2s", c[1], x>>}, {c})

\* ClientReply: the request is over, the index is to be updated, the log to be read.
Finishes(t, m) ==
    /\ Takes("s2c", t, m) /\ StoreSame /\ nreq' = nreq
    /\ \/ m.op \in {MultiCastPkt, UpdateIndexReply, ReadReply}
       \/ m.op \in {ReadIndexReq, ReadIndexReply} /\ m.log = NoLog
    /\ ctx'[m.cli].pc = "free"
    /\ Step("s2c", t, {}, {m.cli})

Defers(t, m, x) ==
    /\ Takes("s2c", t, m) /\ StoreSame /\ nreq' = nreq
    /\ m.op \in {AppendReply, MultiCastPkt} /\ (FLAGS_visibility => m.op = AppendReply)
    /\ ctx'[m.cli].pc = "put_index" /\ ctx'[m.cli].log = m.log
    /\ ctx'[m.cli].key = m.key /\ ctx'[m.cli].val = ctx[m.cli].val
    /\ x = put_index(m.cli, ctx'[m.cli])
    /\ Step("s2c", t, {<<"c2s", t, x>>}, {m.cli})

Fetches(t, m, x) ==
    /\ Takes("s2c", t, m) /\ StoreSame /\ nreq' = nreq
    /\ m.op \in {ReadIndexReq, ReadIndexReply} /\ m.log # NoLog
    /\ ctx'[m.cli].pc = "get_value" /\ ctx'[m.cli].log = m.log
    /\ ctx'[m.cli].key = m.key /\ ctx'[m.cli].val = ctx[m.cli].val
    /\ x = get_value(m.cli, ctx'[m.cli])
    /\ Step("s2c", t, {<<"c2s", t, x>>}, {m.cli})

\* SwitchClient: on to the data node, answered from a slot, on to the index node.
ToData(t, m) ==
    /\ Takes("c2s", t, m) /\ StoreSame /\ UNCHANGED <<ctx, nreq>>
    /\ m.op \in {AppendReq, ReadLog}
    /\ Step("c2s", t, {<<"s2d", m.port, m>>}, {m.cli})

Hits(t, m, x) ==
    /\ Takes("c2s", t, m) /\ StoreSame /\ UNCHANGED <<ctx, nreq>>
    /\ m.op = ReadIndexReq /\ m.flag /\ Hit(regs, m)
    /\ x = [m EXCEPT !.log = LogId(regs, m)]
    /\ Step("c2s", t, {<<"s2c", m.cli[1], x>>}, {m.cli})

ToIndex(t, m) ==
    /\ Takes("c2s", t, m) /\ UNCHANGED <<i2s, regs, index, kv, pos, ctx, nreq>>
    /\ \/ m.op = ReadIndexReq /\ ~ (m.flag /\ Hit(regs, m))
       \/ m.op = UpdateIndexReq
    /\ m.port \in IndexThreads /\ s2i' = Push(s2i, m.port, m)
    /\ Step("c2s", t, {<<"s2i", m.port, m>>}, {m.cli})

\* DataServer
Appends(d, m, x) ==
    /\ Takes("s2d", d, m) /\ UNCHANGED <<s2i, i2s, regs, index, ctx, nreq>>
    /\ m.op = AppendReq
    /\ x = [m EXCEPT !.op = AppendReply, !.log = compute_log_id(pos[d], d),
                     !.ts = get_next_ts(tss[get_switch_key(m.key)]), !.entry = Blank]
    /\ kv' = [kv EXCEPT ![d][pos[d]] = m.entry]
    /\ pos' = [pos EXCEPT ![d] = (@ + 1) % logspace]
    /\ Step("s2d", d, {<<"d2s", d, x>>}, {m.cli})

Looks(d, m, x) ==
    /\ Takes("s2d", d, m) /\ StoreSame /\ UNCHANGED <<ctx, nreq>>
    /\ m.op = ReadLog
    /\ x = [m EXCEPT !.op = ReadReply, !.entry = kv[d][logid_2_locallogid(m.log)]]
    /\ Step("s2d", d, {<<"d2s", d, x>>}, {m.cli})

\* SwitchData: a slot is taken, or the packet passes.
Grants(d, m, x) ==
    /\ Takes("d2s", d, m) /\ UNCHANGED <<i2s, index, kv, pos, ctx, nreq>>
    /\ m.op = AppendReply /\ m.flag /\ Granted(regs, m) /\ regs' = NewIndex(regs, m)
    /\ x = [m EXCEPT !.op = MultiCastPkt]
    /\ s2i' = Push(s2i, m.ixp, x)
    /\ Step("d2s", d, {<<"s2i", m.ixp, x>>, <<"s2c", m.cli[1], x>>}, {m.cli})

Passes(d, m) ==
    /\ Takes("d2s", d, m) /\ UNCHANGED <<s2i, i2s, index, kv, pos, ctx, nreq>>
    /\ m.op \in {AppendReply, ReadReply}
    /\ \A s \in SwitchKeys : SameOwner(s)
    /\ Step("d2s", d, {<<"s2c", m.cli[1], m>>}, {m.cli})

\* IndexServer
Puts(i, m, x) ==
    /\ Takes("s2i", i, m) /\ UNCHANGED <<regs, kv, pos, ctx, nreq>>
    /\ m.op \in {MultiCastPkt, UpdateIndexReq}
    /\ x = [m EXCEPT !.op = IF m.op = MultiCastPkt THEN ReplySwitch ELSE UpdateIndexReply]
    /\ index' = [index EXCEPT ![m.key] = m.log]
    /\ s2i' = Pop(s2i, i) /\ i2s' = Push(i2s, i, x)
    /\ Step("s2i", i, {<<"i2s", i, x>>}, IF m.op = MultiCastPkt THEN {} ELSE {m.cli})

Gets(i, m, x) ==
    /\ Takes("s2i", i, m) /\ UNCHANGED <<regs, index, kv, pos, ctx, nreq>>
    /\ m.op = ReadIndexReq
    /\ x = [m EXCEPT !.op = ReadIndexReply, !.log = index[m.key]]
    /\ s2i' = Pop(s2i, i) /\ i2s' = Push(i2s, i, x)
    /\ Step("s2i", i, {<<"i2s", i, x>>}, {m.cli})

\* SwitchIndex
Frees(i, m) ==
    /\ Takes("i2s", i, m) /\ UNCHANGED <<s2i, index, kv, pos, ctx, nreq>>
    /\ m.op = ReplySwitch /\ regs' = DeleteIndex(regs, m) /\ i2s' = Pop(i2s, i)
    /\ Step("i2s", i, {}, {})

Forwards(i, m) ==
    /\ Takes("i2s", i, m) /\ UNCHANGED <<s2i, regs, index, kv, pos, ctx, nreq>>
    /\ m.op \in {UpdateIndexReply, ReadIndexReply} /\ i2s' = Pop(i2s, i)
    /\ Step("i2s", i, {<<"s2c", m.cli[1], m>>}, {m.cli})

-----------------------------------------------------------------------------
(* Every action has one of these forms. *)

\* A step that moves packets as Hops says and leaves the logs alone.
LEMMA StepForm ==
    ASSUME TypeOK, NEW f0, NEW n0, NEW S, NEW C,
           f0 \in Links => n0 \in Ends(f0) /\ Net[f0][n0] # <<>>,
           Hops(Net, Net', f0, n0, S), Still(Net, f0, n0, C),
           \A d \in Coros : d \notin C => ctx'[d] = ctx[d],
           kv' = kv, pos' = pos, nreq <= nreq'
    PROVE  Step(f0, n0, S, C)
  <1>1. Arrives(Net, Net', f0, n0, S)
    BY NetType, HopArrives
  <1>2. \A l : Appended(l) => Appended(l)' /\ Entry(l)' = Entry(l)
    BY DEF Appended, Entry
  <1> QED
    BY <1>1, <1>2 DEF Step

\* What is known of a packet that is taken.
LEMMA TakenType ==
    ASSUME TypeOK, NEW f, NEW n, NEW m, Takes(f, n, m)
    PROVE  /\ f \in Links /\ n \in Ends(f) /\ Net[f][n] # <<>>
           /\ m \in RawKvMsg /\ m.cli \in Coros /\ m.key \in Keys
           /\ 1 \in DOMAIN Net[f][n] /\ m = Net[f][n][1]
  <1>1. PICK w : w = Net
    OBVIOUS
  <1>2. /\ f \in Links /\ n \in Ends(f) /\ w[f][n] # <<>> /\ m = Head(w[f][n])
        /\ TypedNet(w)
    BY <1>1, NetType DEF Takes
  <1>3. /\ m = w[f][n][1] /\ 1 \in DOMAIN w[f][n] /\ m \in RawKvMsg
    BY <1>2, HeadPlace
  <1> QED
    BY <1>1, <1>2, <1>3 DEF RawKvMsg

\* The packet that is taken is the one its coroutine awaits.
LEMMA TakenFits ==
    ASSUME TypeOK, SoleAnswer, NEW f, NEW n, NEW m, Takes(f, n, m), Answering(f, m)
    PROVE  /\ Fits(ctx[m.cli], f, m) /\ ctx[m.cli].pc # "free"
           /\ Still(Net, f, n, {m.cli})
  <1>1. /\ f \in Links /\ n \in Ends(f) /\ Net[f][n] # <<>> /\ m = Head(Net[f][n])
    BY DEF Takes
  <1>2. Fits(ctx[m.cli], f, m)
    BY <1>1, HeadFits
  <1>3. Still(Net, f, n, {m.cli})
    BY <1>1, StillHead
  <1>4. ctx[m.cli].pc # "free"
    BY <1>2 DEF Fits, Stage
  <1> QED
    BY <1>2, <1>3, <1>4

\* A request of a client.
LEMMA RequestForm ==
    ASSUME TypeOK, TypeOK', SoleAnswer, NEW c \in Coros, NEW k \in Keys,
           kEnumW(c, k) \/ kEnumR(c, k)
    PROVE  \E x \in RawKvMsg : Begins(c, x)
  <1>1. PICK call \in {"put_value", "get_index"} :
            /\ NewRequest(c, k, call)
            /\ c2s' = Push(c2s, c[1], IF call = "put_value" THEN put_value(c, ctx'[c])
                                      ELSE get_index(c, ctx'[c]))
            /\ UNCHANGED <<s2c, d2s, s2d, i2s, s2i, regs, kv, pos, tss, index>>
    BY DEF kEnumW, kEnumR
  <1>2. PICK x : x = IF call = "put_value" THEN put_value(c, ctx'[c])
                     ELSE get_index(c, ctx'[c])
    OBVIOUS
  <1>3. /\ ctx'[c] \in KvCtx /\ ctx'[c].pc = call /\ ctx[c].pc = "free"
        /\ ctx'[c].val = nreq + 1 /\ ctx'[c].key \in Keys
        /\ \A d \in Coros : d # c => ctx'[d] = ctx[d]
        /\ nreq' = nreq + 1 /\ nreq \in Nat
    BY <1>1, BoundAssumption DEF TypeOK, NewRequest, KvCtx
  <1>4. x \in RawKvMsg
    BY <1>2, <1>3, CallType
  <1>5. "none" \notin Links /\ c[1] \in Ends("c2s")
    BY CoroThread, EndsAre DEF Links
  <1>6. Hops(Net, Net', "none", c[1], {<<"c2s", c[1], x>>})
    BY <1>1, <1>2, <1>4, <1>5, NetIs DEF Hops, Links
  <1>7. Still(Net, "none", c[1], {c})
    BY <1>3, StillFree
  <1>8. Step("none", c[1], {<<"c2s", c[1], x>>}, {c})
    BY <1>1, <1>3, <1>5, <1>6, <1>7, StepForm
  <1> QED
    BY <1>1, <1>2, <1>3, <1>4, <1>8 DEF Begins, StoreSame

\* A reply resumes a coroutine.
LEMMA ClientForm ==
    ASSUME TypeOK, TypeOK', SoleAnswer, NEW t \in CThreads, ClientReply(t)
    PROVE  \E m \in RawKvMsg :
               \/ Finishes(t, m)
               \/ \E x \in RawKvMsg : Defers(t, m, x) \/ Fetches(t, m, x)
  <1>1. /\ "s2c" \in Links /\ "c2s" \in Links /\ t \in Ends("s2c") /\ t \in Ends("c2s")
        /\ Net["s2c"][t] = s2c[t] /\ s2c[t] # <<>>
    BY EndsAre, NetIs DEF Links, ClientReply
  <1>m. PICK m : m = Head(s2c[t])
    OBVIOUS
  <1>2. Takes("s2c", t, m) /\ Answering("s2c", m)
    BY <1>1, <1>m DEF Takes, Answering
  <1>3. m \in RawKvMsg /\ m.cli \in Coros
    BY <1>2, TakenType
  <1>f. Fits(ctx[m.cli], "s2c", m) /\ Still(Net, "s2c", t, {m.cli})
    BY <1>2, TakenFits
  <1>4. ctx'[m.cli] \in KvCtx /\ ctx[m.cli] \in KvCtx /\ ctx \in [Coros -> KvCtx]
    BY <1>3 DEF TypeOK
  <1>r. /\ \A c \in Coros : c # m.cli => ctx'[c] = ctx[c]
        /\ s2c' = Pop(s2c, t) /\ UNCHANGED <<d2s, s2d, i2s, s2i, regs, kv, pos, index, nreq>>
        /\ ctx'[m.cli].key = ctx[m.cli].key /\ ctx'[m.cli].val = ctx[m.cli].val
        /\ \/ /\ ctx'[m.cli].pc = "free" /\ c2s' = c2s
              /\ \/ ctx[m.cli].pc = "put_value" /\ m.op = MultiCastPkt
                 \/ ctx[m.cli].pc = "put_index"
                 \/ ctx[m.cli].pc = "get_index" /\ m.log = NoLog
                 \/ ctx[m.cli].pc = "get_value"
           \/ /\ ctx'[m.cli].pc = "put_index" /\ ctx'[m.cli].log = m.log
              /\ ctx[m.cli].pc = "put_value" /\ ~ (FLAGS_visibility /\ m.op = MultiCastPkt)
              /\ c2s' = Push(c2s, t, put_index(m.cli, ctx'[m.cli]))
           \/ /\ ctx'[m.cli].pc = "get_value" /\ ctx'[m.cli].log = m.log /\ m.log # NoLog
              /\ ctx[m.cli].pc = "get_index"
              /\ c2s' = Push(c2s, t, get_value(m.cli, ctx'[m.cli]))
    <2>1. CASE PutValueReturns(t, m)
      <3>1. CASE FLAGS_visibility /\ m.op = MultiCastPkt
        BY <1>3, <1>4, <2>1, <3>1 DEF PutValueReturns, Resume, KvCtx
      <3>2. CASE ~ (FLAGS_visibility /\ m.op = MultiCastPkt)
        BY <1>3, <1>4, <2>1, <3>2 DEF PutValueReturns, Resume, KvCtx
      <3> QED
        BY <3>1, <3>2
    <2>2. CASE PutIndexReturns(t, m)
      BY <1>3, <1>4, <2>2 DEF PutIndexReturns, Resume, KvCtx
    <2>3. CASE GetIndexReturns(t, m)
      <3>1. CASE m.log = NoLog
        BY <1>3, <1>4, <2>3, <3>1 DEF GetIndexReturns, Resume, KvCtx
      <3>2. CASE m.log # NoLog
        BY <1>3, <1>4, <2>3, <3>2 DEF GetIndexReturns, Resume, KvCtx
      <3> QED
        BY <3>1, <3>2
    <2>4. CASE GetValueReturns(t, m)
      BY <1>3, <1>4, <2>4 DEF GetValueReturns, Resume, KvCtx
    <2> QED
      BY <1>m, <2>1, <2>2, <2>3, <2>4 DEF ClientReply
  <1>k. ctx[m.cli].key = m.key /\ nreq \in Nat
    BY <1>f, BoundAssumption DEF Fits, TypeOK
  <1>5. CASE ctx'[m.cli].pc = "free" /\ c2s' = c2s
    <2>1. Hops(Net, Net', "s2c", t, {})
      BY <1>5, <1>r, NetIs DEF Hops, Links
    <2>2. Step("s2c", t, {}, {m.cli})
      BY <1>1, <1>f, <1>k, <1>r, <2>1, StepForm
    <2>3. \/ m.op \in {MultiCastPkt, UpdateIndexReply, ReadReply}
          \/ m.op \in {ReadIndexReq, ReadIndexReply} /\ m.log = NoLog
      BY <1>5, <1>f, <1>r DEF Fits, Stage
    <2>4. Finishes(t, m)
      BY <1>2, <1>5, <1>r, <2>2, <2>3 DEF Finishes, StoreSame
    <2> QED
      BY <1>3, <2>4
  <1>6. ASSUME NEW x \in RawKvMsg, c2s' = Push(c2s, t, x)
        PROVE  Step("s2c", t, {<<"c2s", t, x>>}, {m.cli})
    <2>1. Hops(Net, Net', "s2c", t, {<<"c2s", t, x>>})
      BY <1>1, <1>6, <1>r, NetIs DEF Hops, Links
    <2> QED
      BY <1>1, <1>f, <1>k, <1>r, <2>1, StepForm
  <1>7. CASE /\ ctx'[m.cli].pc = "put_index" /\ ctx[m.cli].pc = "put_value"
             /\ ~ (FLAGS_visibility /\ m.op = MultiCastPkt) /\ ctx'[m.cli].log = m.log
             /\ c2s' = Push(c2s, t, put_index(m.cli, ctx'[m.cli]))
    <2>x. PICK x : x = put_index(m.cli, ctx'[m.cli])
      OBVIOUS
    <2>1. x \in RawKvMsg
      BY <1>3, <1>4, <2>x, CallType
    <2>2. Step("s2c", t, {<<"c2s", t, x>>}, {m.cli})
      BY <1>6, <1>7, <2>1, <2>x
    <2>3. m.op \in {AppendReply, MultiCastPkt} /\ (FLAGS_visibility => m.op = AppendReply)
      BY <1>7, <1>f, FlagAssumption DEF Fits, Stage
    <2>4. Defers(t, m, x)
      BY <1>2, <1>7, <1>k, <1>r, <2>2, <2>3, <2>x DEF Defers, StoreSame
    <2> QED
      BY <1>3, <2>1, <2>4
  <1>8. CASE /\ ctx'[m.cli].pc = "get_value" /\ ctx[m.cli].pc = "get_index"
             /\ ctx'[m.cli].log = m.log /\ m.log # NoLog
             /\ c2s' = Push(c2s, t, get_value(m.cli, ctx'[m.cli]))
    <2>x. PICK x : x = get_value(m.cli, ctx'[m.cli])
      OBVIOUS
    <2>1. x \in RawKvMsg
      BY <1>3, <1>4, <2>x, CallType
    <2>2. Step("s2c", t, {<<"c2s", t, x>>}, {m.cli})
      BY <1>6, <1>8, <2>1, <2>x
    <2>3. m.op \in {ReadIndexReq, ReadIndexReply}
      BY <1>8, <1>f DEF Fits, Stage
    <2>4. Fetches(t, m, x)
      BY <1>2, <1>8, <1>k, <1>r, <2>2, <2>3, <2>x DEF Fetches, StoreSame
    <2> QED
      BY <1>3, <2>1, <2>4
  <1> QED
    BY <1>r, <1>5, <1>7, <1>8

\* The switch forwards or answers a packet of a client.
LEMMA SwitchClientForm ==
    ASSUME TypeOK, SoleAnswer, NEW t \in CThreads, SwitchClient(t)
    PROVE  \E m \in RawKvMsg :
               ToData(t, m) \/ ToIndex(t, m) \/ \E x \in RawKvMsg : Hits(t, m, x)
  <1>1. /\ "c2s" \in Links /\ "s2d" \in Links /\ "s2i" \in Links /\ "s2c" \in Links
        /\ t \in Ends("c2s") /\ Net["c2s"][t] = c2s[t] /\ c2s[t] # <<>>
        /\ UNCHANGED <<ctx, i2s, d2s, regs, index, kv, pos, nreq>> /\ c2s' = Pop(c2s, t)
    BY EndsAre, NetIs DEF Links, SwitchClient
  <1>m. PICK m : m = Head(c2s[t])
    OBVIOUS
  <1>2. Takes("c2s", t, m) /\ Answering("c2s", m)
    BY <1>1, <1>m DEF Takes, Answering
  <1>3. m \in RawKvMsg /\ m.cli \in Coros /\ nreq \in Nat
    BY <1>2, TakenType, BoundAssumption DEF TypeOK
  <1>f. Fits(ctx[m.cli], "c2s", m) /\ Still(Net, "c2s", t, {m.cli})
    BY <1>2, TakenFits
  <1>4. CASE /\ m.op \in {AppendReq, ReadLog}
             /\ s2d' = Push(s2d, m.port, m) /\ UNCHANGED <<s2c, s2i>>
    <2>1. m.port \in Ends("s2d")
      BY <1>f, <1>4, EndsAre DEF Fits, Routed
    <2>2. Hops(Net, Net', "c2s", t, {<<"s2d", m.port, m>>})
      BY <1>1, <1>3, <1>4, <2>1, NetIs DEF Hops, Links
    <2>3. Step("c2s", t, {<<"s2d", m.port, m>>}, {m.cli})
      BY <1>1, <1>3, <1>f, <2>2, StepForm
    <2>4. ToData(t, m)
      BY <1>1, <1>2, <1>4, <2>3 DEF ToData, StoreSame
    <2> QED
      BY <1>3, <2>4
  <1>5. CASE /\ \/ m.op = ReadIndexReq /\ ~ (m.flag /\ Hit(regs, m))
                \/ m.op = UpdateIndexReq
             /\ s2i' = Push(s2i, m.port, m) /\ UNCHANGED <<s2c, s2d>>
    <2>1. m.port \in Ends("s2i") /\ m.port \in IndexThreads
      BY <1>f, <1>5, EndsAre DEF Fits, Routed, AppendReq, ReadLog, ReadIndexReq,
                                 UpdateIndexReq
    <2>2. Hops(Net, Net', "c2s", t, {<<"s2i", m.port, m>>})
      BY <1>1, <1>3, <1>5, <2>1, NetIs DEF Hops, Links
    <2>3. Step("c2s", t, {<<"s2i", m.port, m>>}, {m.cli})
      BY <1>1, <1>3, <1>f, <2>2, StepForm
    <2>4. ToIndex(t, m)
      BY <1>1, <1>2, <1>5, <2>1, <2>3 DEF ToIndex
    <2> QED
      BY <1>3, <2>4
  <1>6. CASE /\ m.op = ReadIndexReq /\ m.flag /\ Hit(regs, m)
             /\ s2c' = Push(s2c, m.cli[1], [m EXCEPT !.log = LogId(regs, m)])
             /\ UNCHANGED <<s2d, s2i>>
    <2>x. PICK x : x = [m EXCEPT !.log = LogId(regs, m)]
      OBVIOUS
    <2>1. x \in RawKvMsg
      BY <1>3, <2>x, RegistersType DEF RawKvMsg, TypeOK
    <2>2. m.cli[1] \in Ends("s2c")
      BY <1>3, CoroThread, EndsAre
    <2>3. Hops(Net, Net', "c2s", t, {<<"s2c", m.cli[1], x>>})
      BY <1>1, <1>6, <2>1, <2>2, <2>x, NetIs DEF Hops, Links
    <2>4. Step("c2s", t, {<<"s2c", m.cli[1], x>>}, {m.cli})
      BY <1>1, <1>3, <1>f, <2>3, StepForm
    <2>5. Hits(t, m, x)
      BY <1>1, <1>2, <1>6, <2>4, <2>x DEF Hits, StoreSame
    <2> QED
      BY <1>3, <2>1, <2>5
  <1> QED
    BY <1>m, <1>4, <1>5, <1>6 DEF SwitchClient

\* The switch multicasts or forwards a packet of a data thread.
LEMMA SwitchDataForm ==
    ASSUME TypeOK, SoleAnswer, NEW d \in DataThreads, SwitchData(d)
    PROVE  \E m \in RawKvMsg : Passes(d, m) \/ \E x \in RawKvMsg : Grants(d, m, x)
  <1>1. /\ "d2s" \in Links /\ "s2i" \in Links /\ "s2c" \in Links
        /\ d \in Ends("d2s") /\ Net["d2s"][d] = d2s[d] /\ d2s[d] # <<>>
        /\ UNCHANGED <<ctx, c2s, s2d, i2s, index, kv, pos, nreq>> /\ d2s' = Pop(d2s, d)
    BY EndsAre, NetIs DEF Links, SwitchData
  <1>m. PICK m : m = Head(d2s[d])
    OBVIOUS
  <1>2. Takes("d2s", d, m) /\ Answering("d2s", m)
    BY <1>1, <1>m DEF Takes, Answering
  <1>3. m \in RawKvMsg /\ m.cli \in Coros /\ nreq \in Nat
    BY <1>2, TakenType, BoundAssumption DEF TypeOK
  <1>f. Still(Net, "d2s", d, {m.cli})
    BY <1>2, TakenFits
  <1>4. m.cli[1] \in Ends("s2c") /\ m.ixp \in Ends("s2i")
    BY <1>3, CoroThread, EndsAre DEF RawKvMsg
  <1>5. ASSUME m.op \in {AppendReply, ReadReply}, s2c' = Push(s2c, m.cli[1], m), s2i' = s2i,
               \A s \in SwitchKeys : SameOwner(s)
        PROVE  Passes(d, m)
    <2>1. Hops(Net, Net', "d2s", d, {<<"s2c", m.cli[1], m>>})
      BY <1>1, <1>3, <1>4, <1>5, NetIs DEF Hops, Links
    <2>2. Step("d2s", d, {<<"s2c", m.cli[1], m>>}, {m.cli})
      BY <1>1, <1>3, <1>f, <2>1, StepForm
    <2> QED
      BY <1>1, <1>2, <1>5, <2>2 DEF Passes
  <1>6. CASE /\ m.op = AppendReply /\ m.flag /\ Granted(regs, m) /\ regs' = NewIndex(regs, m)
             /\ s2i' = Push(s2i, m.ixp, [m EXCEPT !.op = MultiCastPkt])
             /\ s2c' = Push(s2c, m.cli[1], [m EXCEPT !.op = MultiCastPkt])
    <2>x. PICK x : x = [m EXCEPT !.op = MultiCastPkt]
      OBVIOUS
    <2>1. x \in RawKvMsg
      BY <1>3, <2>x DEF RawKvMsg, RpcType
    <2>2. Hops(Net, Net', "d2s", d, {<<"s2i", m.ixp, x>>, <<"s2c", m.cli[1], x>>})
      BY <1>1, <1>4, <1>6, <2>1, <2>x, NetIs DEF Hops, Links
    <2>3. Step("d2s", d, {<<"s2i", m.ixp, x>>, <<"s2c", m.cli[1], x>>}, {m.cli})
      BY <1>1, <1>3, <1>f, <2>2, StepForm
    <2>4. Grants(d, m, x)
      BY <1>1, <1>2, <1>6, <2>3, <2>x DEF Grants
    <2> QED
      BY <1>3, <2>1, <2>4
  <1>7. CASE /\ m.op = AppendReply /\ ~ (m.flag /\ Granted(regs, m))
             /\ regs' = IF m.flag THEN NewIndex(regs, m) ELSE regs
             /\ s2c' = Push(s2c, m.cli[1], m) /\ s2i' = s2i
    <2>1. \A s \in SwitchKeys : SameOwner(s)
      <3>1. regs \in Registers
        BY DEF TypeOK
      <3> QED
        BY <1>7, <3>1 DEF NewIndex, Granted, FwNewIndex, OwNewIndex, SameOwner, Registers
    <2> QED
      BY <1>3, <1>5, <1>7, <2>1
  <1>8. CASE m.op = ReadReply /\ s2c' = Push(s2c, m.cli[1], m) /\ regs' = regs /\ s2i' = s2i
    BY <1>3, <1>5, <1>8 DEF SameOwner
  <1> QED
    BY <1>m, <1>6, <1>7, <1>8 DEF SwitchData

\* An index thread serves a packet.
LEMMA IndexServerForm ==
    ASSUME TypeOK, SoleAnswer, NEW i \in IndexThreads, IndexServer(i)
    PROVE  \E m, x \in RawKvMsg : Puts(i, m, x) \/ Gets(i, m, x)
  <1>1. /\ "s2i" \in Links /\ "i2s" \in Links /\ i \in Ends("s2i") /\ i \in Ends("i2s")
        /\ Net["s2i"][i] = s2i[i] /\ s2i[i] # <<>> /\ s2i' = Pop(s2i, i)
        /\ UNCHANGED <<ctx, c2s, s2c, d2s, s2d, regs, kv, pos, nreq>>
    BY EndsAre, NetIs DEF Links, IndexServer
  <1>m. PICK m : m = Head(s2i[i])
    OBVIOUS
  <1>2. Takes("s2i", i, m)
    BY <1>1, <1>m DEF Takes
  <1>3. m \in RawKvMsg /\ m.cli \in Coros /\ nreq \in Nat /\ index[m.key] \in LogIds \cup {NoLog}
    BY <1>2, TakenType, BoundAssumption DEF TypeOK
  <1>4. ASSUME NEW x \in RawKvMsg, i2s' = Push(i2s, i, x), NEW C, Still(Net, "s2i", i, C)
        PROVE  Step("s2i", i, {<<"i2s", i, x>>}, C)
    <2>1. Hops(Net, Net', "s2i", i, {<<"i2s", i, x>>})
      BY <1>1, <1>4, NetIs DEF Hops, Links
    <2> QED
      BY <1>1, <1>3, <1>4, <2>1, StepForm
  <1>5. CASE IndexPut(i, m)
    <2>x. PICK x : x = [m EXCEPT !.op = IF m.op = MultiCastPkt THEN ReplySwitch
                                        ELSE UpdateIndexReply]
      OBVIOUS
    <2>1. x \in RawKvMsg
      BY <1>3, <2>x DEF RawKvMsg, RpcType
    <2>2. /\ i2s' = Push(i2s, i, x) /\ m.op \in {MultiCastPkt, UpdateIndexReq}
          /\ index' = [index EXCEPT ![m.key] = m.log]
      BY <1>5, <2>x DEF IndexPut
    <2>3. Still(Net, "s2i", i, IF m.op = MultiCastPkt THEN {} ELSE {m.cli})
      <3>1. CASE m.op = MultiCastPkt
        BY <3>1 DEF Still
      <3>2. CASE m.op # MultiCastPkt
        <4>1. Answering("s2i", m)
          BY <3>2 DEF Answering
        <4> QED
          BY <1>2, <3>2, <4>1, TakenFits
      <3> QED
        BY <3>1, <3>2
    <2>4. Step("s2i", i, {<<"i2s", i, x>>}, IF m.op = MultiCastPkt THEN {} ELSE {m.cli})
      BY <1>4, <2>1, <2>2, <2>3
    <2>5. Puts(i, m, x)
      BY <1>1, <1>2, <2>2, <2>4, <2>x DEF Puts
    <2> QED
      BY <1>3, <2>1, <2>5
  <1>6. CASE IndexGet(i, m)
    <2>x. PICK x : x = [m EXCEPT !.op = ReadIndexReply, !.log = index[m.key]]
      OBVIOUS
    <2>1. x \in RawKvMsg
      BY <1>3, <2>x DEF RawKvMsg, RpcType
    <2>2. i2s' = Push(i2s, i, x) /\ m.op = ReadIndexReq /\ index' = index
      BY <1>6, <2>x DEF IndexGet
    <2>3. Still(Net, "s2i", i, {m.cli})
      <3>1. Answering("s2i", m)
        BY <2>2 DEF Answering, ReadIndexReq, MultiCastPkt
      <3> QED
        BY <1>2, <3>1, TakenFits
    <2>4. Step("s2i", i, {<<"i2s", i, x>>}, {m.cli})
      BY <1>4, <2>1, <2>2, <2>3
    <2>5. Gets(i, m, x)
      BY <1>1, <1>2, <2>2, <2>4, <2>x DEF Gets
    <2> QED
      BY <1>3, <2>1, <2>5
  <1> QED
    BY <1>m, <1>5, <1>6 DEF IndexServer

\* The switch takes a packet of an index thread.
LEMMA SwitchIndexForm ==
    ASSUME TypeOK, SoleAnswer, NEW i \in IndexThreads, SwitchIndex(i)
    PROVE  \E m \in RawKvMsg : Frees(i, m) \/ Forwards(i, m)
  <1>1. /\ "i2s" \in Links /\ "s2c" \in Links /\ i \in Ends("i2s") /\ i2s' = Pop(i2s, i)
        /\ Net["i2s"][i] = i2s[i] /\ i2s[i] # <<>>
        /\ UNCHANGED <<ctx, c2s, d2s, s2d, s2i, index, kv, pos, nreq>>
    BY EndsAre, NetIs DEF Links, SwitchIndex
  <1>m. PICK m : m = Head(i2s[i])
    OBVIOUS
  <1>2. Takes("i2s", i, m)
    BY <1>1, <1>m DEF Takes
  <1>3. m \in RawKvMsg /\ m.cli \in Coros /\ nreq \in Nat
    BY <1>2, TakenType, BoundAssumption DEF TypeOK
  <1>4. CASE m.op = ReplySwitch /\ regs' = DeleteIndex(regs, m) /\ s2c' = s2c
    <2>1. Hops(Net, Net', "i2s", i, {})
      BY <1>1, <1>4, NetIs DEF Hops, Links
    <2>2. Still(Net, "i2s", i, {})
      BY DEF Still
    <2>3. Step("i2s", i, {}, {})
      BY <1>1, <1>3, <2>1, <2>2, StepForm
    <2>4. Frees(i, m)
      BY <1>1, <1>2, <1>4, <2>3 DEF Frees
    <2> QED
      BY <1>3, <2>4
  <1>5. CASE /\ m.op \in {UpdateIndexReply, ReadIndexReply} /\ regs' = regs
             /\ s2c' = Push(s2c, m.cli[1], m)
    <2>0. m.cli[1] \in Ends("s2c") /\ Answering("i2s", m)
      BY <1>3, <1>5, CoroThread, EndsAre DEF Answering, ReplySwitch, UpdateIndexReply,
                                             ReadIndexReply
    <2>1. Hops(Net, Net', "i2s", i, {<<"s2c", m.cli[1], m>>})
      BY <1>1, <1>3, <1>5, <2>0, NetIs DEF Hops, Links
    <2>2. Still(Net, "i2s", i, {m.cli})
      BY <1>2, <2>0, TakenFits
    <2>3. Step("i2s", i, {<<"s2c", m.cli[1], m>>}, {m.cli})
      BY <1>1, <1>3, <2>1, <2>2, StepForm
    <2>4. Forwards(i, m)
      BY <1>1, <1>2, <1>5, <2>3 DEF Forwards
    <2> QED
      BY <1>3, <2>4
  <1> QED
    BY <1>m, <1>4, <1>5 DEF SwitchIndex

\* Thread and position undo compute_log_id.
LEMMA LogParts ==
    ASSUME NEW l \in 0 .. logspace - 1, NEW d \in DataThreads
    PROVE  /\ logid_2_threadid(compute_log_id(l, d)) = d
           /\ logid_2_locallogid(compute_log_id(l, d)) = l
           /\ compute_log_id(l, d) \in LogIds /\ compute_log_id(l, d) # NoLog
  <1>1. /\ keyspace \in Nat \ {0} /\ l \in 0 .. keyspace - 1 /\ d \in Nat
        /\ dn_thread \in Nat /\ d \in 0 .. dn_thread - 1
    BY LogAssumption, ThreadAssumption DEF DataThreads
  <1>2. (d * keyspace + l) \div keyspace = d
    BY <1>1
  <1>3. (d * keyspace + l) % keyspace = l
    BY <1>1
  <1>4. compute_log_id(l, d) \in LogIds
    BY DEF LogIds
  <1>5. compute_log_id(l, d) # NoLog
    <2>1. (dn_thread * keyspace + 0) \div keyspace = dn_thread
      BY <1>1
    <2>2. dn_thread * keyspace + 0 = dn_thread * keyspace
      BY <1>1
    <2> QED
      BY <1>1, <1>2, <2>1, <2>2 DEF compute_log_id, NoLog
  <1> QED
    BY <1>2, <1>3, <1>4, <1>5 DEF compute_log_id, logid_2_threadid, logid_2_locallogid

\* An append to an open ring leaves the earlier entries alone and names its own.
LEMMA AppendLog ==
    ASSUME TypeOK, RingsOpen, NEW d \in DataThreads, NEW e \in Entries,
           NEW g, g = compute_log_id(pos[d], d),
           kv' = [kv EXCEPT ![d][pos[d]] = e],
           pos' = [pos EXCEPT ![d] = (@ + 1) % logspace]
    PROVE  /\ \A l : Appended(l) => Appended(l)' /\ Entry(l)' = Entry(l)
           /\ Appended(g)' /\ ~ Appended(g) /\ Entry(g)' = e
  <1>1. /\ pos \in [DataThreads -> 0 .. logspace - 1] /\ pos[d] \in 0 .. logspace - 1
        /\ kv \in [DataThreads -> [0 .. logspace - 1 -> Entries]]
        /\ logspace \in Nat \ {0} /\ pos[d] < logspace - 1
    BY LogAssumption DEF TypeOK, RingsOpen
  <1>2. (pos[d] + 1) % logspace = pos[d] + 1
    <2>1. ASSUME NEW n \in Nat \ {0}, NEW a \in 0 .. n - 1, NEW z, z = 0
          PROVE  (z * n + a) % n = a /\ z * n + a = a
      BY <2>1
    <2>2. pos[d] + 1 \in 0 .. logspace - 1
      BY <1>1
    <2> QED
      BY <1>1, <2>1, <2>2
  <1>3. /\ pos'[d] = pos[d] + 1 /\ \A b \in DataThreads : b # d => pos'[b] = pos[b]
    BY <1>1, <1>2
  <1>4. /\ kv'[d][pos[d]] = e
        /\ \A l \in 0 .. logspace - 1 : l # pos[d] => kv'[d][l] = kv[d][l]
        /\ \A b \in DataThreads : b # d => kv'[b] = kv[b]
    BY <1>1
  <1>5. /\ logid_2_threadid(g) = d /\ logid_2_locallogid(g) = pos[d] /\ g \in LogIds
    BY <1>1, LogParts
  <1>6. ASSUME NEW l, Appended(l)
        PROVE  Appended(l)' /\ Entry(l)' = Entry(l)
    <2>1. /\ l \in LogIds /\ logid_2_threadid(l) \in DataThreads
          /\ logid_2_locallogid(l) \in 0 .. logspace - 1
          /\ logid_2_locallogid(l) < pos[logid_2_threadid(l)]
      BY <1>6, LogThread, LogRanges DEF Appended, Within
    <2>2. CASE logid_2_threadid(l) = d
      BY <1>1, <1>3, <1>4, <2>1, <2>2 DEF Appended, Entry, Within, At
    <2>3. CASE logid_2_threadid(l) # d
      BY <1>1, <1>3, <1>4, <2>1, <2>3 DEF Appended, Entry, Within, At
    <2> QED
      BY <2>2, <2>3
  <1>7. Appended(g)' /\ ~ Appended(g)
    BY <1>1, <1>3, <1>5 DEF Appended, Within
  <1>8. Entry(g)' = e
    BY <1>4, <1>5 DEF Entry, At
  <1> QED
    BY <1>6, <1>7, <1>8

\* A data thread serves a packet.
LEMMA DataServerForm ==
    ASSUME TypeOK, RingsOpen, SoleAnswer, NEW d \in DataThreads, DataServer(d)
    PROVE  \E m, x \in RawKvMsg : Appends(d, m, x) \/ Looks(d, m, x)
  <1>1. /\ "s2d" \in Links /\ "d2s" \in Links /\ d \in Ends("s2d") /\ d \in Ends("d2s")
        /\ Net["s2d"][d] = s2d[d] /\ s2d[d] # <<>> /\ s2d' = Pop(s2d, d)
        /\ UNCHANGED <<ctx, c2s, s2c, i2s, s2i, regs, index, nreq>>
    BY EndsAre, NetIs DEF Links, DataServer
  <1>m. PICK m : m = Head(s2d[d])
    OBVIOUS
  <1>2. Takes("s2d", d, m) /\ Answering("s2d", m)
    BY <1>1, <1>m DEF Takes, Answering
  <1>3. /\ m \in RawKvMsg /\ m.cli \in Coros /\ m.key \in Keys /\ nreq \in Nat
        /\ m.entry \in Entries /\ m.log \in LogIds \cup {NoLog}
    <2>1. m \in RawKvMsg /\ m.cli \in Coros /\ m.key \in Keys
      BY <1>2, TakenType
    <2> QED
      BY <2>1, BoundAssumption DEF TypeOK, RawKvMsg
  <1>f. Still(Net, "s2d", d, {m.cli})
    BY <1>2, TakenFits
  <1>4. ASSUME NEW x \in RawKvMsg, d2s' = Push(d2s, d, x),
               \A l : Appended(l) => Appended(l)' /\ Entry(l)' = Entry(l)
        PROVE  Step("s2d", d, {<<"d2s", d, x>>}, {m.cli})
    <2>1. Hops(Net, Net', "s2d", d, {<<"d2s", d, x>>})
      BY <1>1, <1>4, NetIs DEF Hops, Links
    <2>2. Arrives(Net, Net', "s2d", d, {<<"d2s", d, x>>})
      BY <1>1, <2>1, NetType, HopArrives
    <2> QED
      BY <1>1, <1>3, <1>4, <1>f, <2>2 DEF Step
  <1>5. CASE DataAppend(d, m)
    <2>g. PICK g : g = compute_log_id(pos[d], d)
      OBVIOUS
    <2>t. PICK ts : ts = get_next_ts(tss[get_switch_key(m.key)])
      OBVIOUS
    <2>x. PICK x : x = [m EXCEPT !.op = AppendReply, !.log = compute_log_id(pos[d], d),
                                 !.ts = get_next_ts(tss[get_switch_key(m.key)]),
                                 !.entry = Blank]
      OBVIOUS
    <2>0. g \in LogIds /\ ts \in 0 .. TsSpace - 1
      <3>1. get_switch_key(m.key) \in SwitchKeys
        BY <1>3, KeyRanges
      <3>2. pos[d] \in 0 .. logspace - 1 /\ tss[get_switch_key(m.key)] \in 0 .. TsSpace - 1
        BY <3>1 DEF TypeOK
      <3>3. compute_log_id(pos[d], d) \in LogIds
        BY <3>2, LogRanges
      <3>4. get_next_ts(tss[get_switch_key(m.key)]) \in 0 .. TsSpace - 1
        BY <3>2, CounterRanges
      <3> QED
        BY <2>g, <2>t, <3>3, <3>4
    <2>1. Blank \in Entries
      BY DEF Blank, Entries
    <2>2. x \in RawKvMsg
      BY <1>3, <2>0, <2>1, <2>g, <2>t, <2>x DEF RawKvMsg, RpcType
    <2>3. /\ m.op = AppendReq /\ d2s' = Push(d2s, d, x)
          /\ kv' = [kv EXCEPT ![d][pos[d]] = m.entry]
          /\ pos' = [pos EXCEPT ![d] = (@ + 1) % logspace]
      BY <1>5, <2>x DEF DataAppend
    <2>4. \A l : Appended(l) => Appended(l)' /\ Entry(l)' = Entry(l)
      BY <1>3, <2>3, <2>g, AppendLog
    <2>5. Step("s2d", d, {<<"d2s", d, x>>}, {m.cli})
      BY <1>4, <2>2, <2>3, <2>4
    <2>6. Appends(d, m, x)
      BY <1>1, <1>2, <2>3, <2>5, <2>x DEF Appends
    <2> QED
      BY <1>3, <2>2, <2>6
  <1>6. CASE DataReadLog(d, m)
    <2>x. PICK x : x = [m EXCEPT !.op = ReadReply,
                                 !.entry = kv[d][logid_2_locallogid(m.log)]]
      OBVIOUS
    <2>1. kv[d][logid_2_locallogid(m.log)] \in Entries
      <3>1. logid_2_locallogid(m.log) \in 0 .. logspace - 1
        BY <1>3, LogRanges
      <3>2. kv[d] \in [0 .. logspace - 1 -> Entries]
        BY DEF TypeOK
      <3> QED
        BY <3>1, <3>2
    <2>2. x \in RawKvMsg
      BY <1>3, <2>1, <2>x DEF RawKvMsg, RpcType
    <2>3. m.op = ReadLog /\ d2s' = Push(d2s, d, x) /\ kv' = kv /\ pos' = pos
      BY <1>6, <2>x DEF DataReadLog, dataVars
    <2>4. \A l : Appended(l) => Appended(l)' /\ Entry(l)' = Entry(l)
      BY <2>3 DEF Appended, Entry
    <2>5. Step("s2d", d, {<<"d2s", d, x>>}, {m.cli})
      BY <1>4, <2>2, <2>3, <2>4
    <2>6. Looks(d, m, x)
      BY <1>1, <1>2, <2>3, <2>5, <2>x DEF Looks, StoreSame
    <2> QED
      BY <1>3, <2>2, <2>6
  <1> QED
    BY <1>m, <1>5, <1>6 DEF DataServer

-----------------------------------------------------------------------------
(* What a step does to the values packets carry. *)

\* The multicasts and ReplySwitches after a step are the earlier ones and the new one.
LEMMA UnannouncedStep ==
    ASSUME LogInv, NEW f0, NEW n0, NEW S, NEW C, Step(f0, n0, S, C), NEW v, Unannounced(v),
           \A f, n, x : <<f, n, x>> \in S /\ ~ Answering(f, x) => At(kv', x.log).val # v
    PROVE  Unannounced(v)'
  <1> SUFFICES ASSUME NEW f \in Links, NEW n \in Ends(f), NEW j \in DOMAIN Net'[f][n],
                      ~ Answering(f, Net'[f][n][j])
               PROVE  At(kv', Net'[f][n][j].log).val # v
    BY DEF Unannounced, Silent
  <1>1. PICK m : m = Net'[f][n][j]
    OBVIOUS
  <1>2. CASE <<f, n, m>> \in S
    BY <1>1, <1>2
  <1>3. CASE \E h \in DOMAIN Net[f][n] : m = Net[f][n][h]
    <2>1. Carries(f, m) /\ At(kv, m.log).val # v
      BY <1>1, <1>3 DEF LogInv, Carried, Unannounced, Silent
    <2>2. Appended(m.log)
      BY <1>1, <2>1 DEF Carries, Sound, Has, Appended
    <2>3. At(kv', m.log) = At(kv, m.log)
      BY <2>2 DEF Step, Entry
    <2> QED
      BY <1>1, <2>1, <2>3
  <1> QED
    BY <1>1, <1>2, <1>3 DEF Step, Arrives

\* Carried survives a step that adds sound packets, whose announcements are not of
\* a write that another coroutine still has to put into the index.
LEMMA CarriedStep ==
    ASSUME LogInv, TypeOK', NEW f0, NEW n0, NEW S, NEW C, Step(f0, n0, S, C),
           \A f, n, x : <<f, n, x>> \in S => Sound(Net', pos', kv', ctx', nreq', f, x),
           \A d \in Coros : ctx[d].pc # "free" /\ d \notin C /\ Unannounced(ctx[d].val) =>
               \A f, n, x : <<f, n, x>> \in S /\ ~ Answering(f, x)
                                => At(kv', x.log).val # ctx[d].val
    PROVE  Carried'
  <1> SUFFICES ASSUME NEW f \in Links, NEW n \in Ends(f), NEW j \in DOMAIN Net'[f][n]
               PROVE  Sound(Net', pos', kv', ctx', nreq', f, Net'[f][n][j])
    BY DEF Carried, Carries
  <1>1. PICK m : m = Net'[f][n][j]
    OBVIOUS
  <1>2. CASE <<f, n, m>> \in S
    BY <1>1, <1>2
  <1>3. CASE \E h \in DOMAIN Net[f][n] : m = Net[f][n][h] /\ ~ (f = f0 /\ n = n0 /\ h = 1)
    <2>h. PICK h \in DOMAIN Net[f][n] : m = Net[f][n][h] /\ ~ (f = f0 /\ n = n0 /\ h = 1)
      BY <1>3
    <2>1. Sound(Net, pos, kv, ctx, nreq, f, m) /\ m \in RawKvMsg /\ m.cli \in Coros
      BY <2>h, Awaited DEF LogInv, Carried, Carries
    <2>2. \A l, k, v : Has(pos, kv, l, k, v) => Has(pos', kv', l, k, v)
      BY DEF Step, Appended, Entry, Has
    <2>3. CASE Answering(f, m)
      <3>1. m.cli \notin C /\ ctx'[m.cli] = ctx[m.cli]
        BY <2>1, <2>3, <2>h DEF Step, Still
      <3>2. ctx[m.cli].pc # "free"
        BY <2>3, <2>h, Awaited DEF LogInv
      <3>3. m.op \in WriteReplies => Has(pos', kv', m.log, m.key, ctx'[m.cli].val)
        BY <2>1, <2>2, <2>3, <3>1 DEF Sound
      <3>4. m.op \in Deferred => Silent(Net', kv', ctx'[m.cli].val)
        <4>1. PICK v : v = ctx[m.cli].val
          OBVIOUS
        <4>2. m.op \in Deferred => Unannounced(v)
          BY <2>1, <4>1 DEF Sound, Unannounced
        <4>3. m.op \in Deferred => Unannounced(v)'
          BY <2>1, <3>1, <3>2, <4>1, <4>2, UnannouncedStep
        <4> QED
          BY <3>1, <4>1, <4>3 DEF Unannounced
      <3> QED
        BY <1>1, <2>1, <2>3, <3>1, <3>3, <3>4 DEF Sound
    <2>4. CASE ~ Answering(f, m)
      <3>1. PICK v \in 1 .. nreq : Has(pos, kv, m.log, m.key, v)
        BY <2>1, <2>4 DEF Sound
      <3>2. Has(pos', kv', m.log, m.key, v) /\ v \in 1 .. nreq'
        <4>1. nreq \in Nat /\ nreq <= nreq' /\ nreq' \in Nat
          BY BoundAssumption DEF Step, LogInv, TypeOK
        <4> QED
          BY <2>2, <3>1, <4>1
      <3>3. m.op \notin Deferred /\ m.op \notin {AppendReq, AppendReply}
        BY <2>4 DEF Answering, Deferred, AppendReq, AppendReply, UpdateIndexReq,
                    UpdateIndexReply, MultiCastPkt, ReplySwitch
      <3>4. m.op # AppendReq
        BY <3>3
      <3> QED
        BY <1>1, <2>1, <2>4, <3>2, <3>3, <3>4 DEF Sound
    <2> QED
      BY <2>3, <2>4
  <1> QED
    BY <1>1, <1>2, <1>3 DEF Step, Arrives

\* The numbers of the requests, when no request starts.
LEMMA ValuesStep ==
    ASSUME LogInv, TypeOK', NEW f0, NEW n0, NEW S, NEW C, Step(f0, n0, S, C),
           \A c \in Coros \cap C : \/ ctx'[c].pc = "free"
                                   \/ ctx[c].pc # "free" /\ ctx'[c].val = ctx[c].val
    PROVE  Values'
  <1>1. nreq \in Nat /\ nreq <= nreq' /\ nreq' \in Nat
    BY BoundAssumption DEF Step, LogInv, TypeOK
  <1>2. \A c \in Coros : ctx'[c].pc # "free" => ctx[c].pc # "free" /\ ctx'[c].val = ctx[c].val
    BY DEF Step
  <1>3. /\ \A c \in Coros : ctx[c].pc # "free" => ctx[c].val \in 1 .. nreq
        /\ \A c, d \in Coros : ctx[c].pc # "free" /\ ctx[d].pc # "free" /\ c # d
                                  => ctx[c].val # ctx[d].val
    BY DEF LogInv, Values
  <1>4. ASSUME NEW c \in Coros, ctx'[c].pc # "free" PROVE ctx'[c].val \in 1 .. nreq'
    <2>1. ctx'[c].val \in 1 .. nreq
      BY <1>2, <1>3, <1>4
    <2> QED
      BY <1>1, <2>1
  <1>5. \A c, d \in Coros : ctx'[c].pc # "free" /\ ctx'[d].pc # "free" /\ c # d
                               => ctx'[c].val # ctx'[d].val
    BY <1>2, <1>3
  <1> QED
    BY <1>4, <1>5 DEF Values

\* What LogInv says of the packet that is taken.
LEMMA TakenSound ==
    ASSUME LogInv, NEW f, NEW n, NEW m, Takes(f, n, m)
    PROVE  Sound(Net, pos, kv, ctx, nreq, f, m)
  <1>1. /\ f \in Links /\ n \in Ends(f) /\ 1 \in DOMAIN Net[f][n] /\ m = Net[f][n][1]
    BY TakenType DEF LogInv
  <1> QED
    BY <1>1 DEF LogInv, Carried, Carries

\* An awaited packet m is taken and the next packet x of the same request is sent.
LEMMA LogMoved ==
    ASSUME LogInv, TypeOK', NEW f0, NEW n0, NEW m, Takes(f0, n0, m), Answering(f0, m),
           NEW f1, NEW n1, NEW x, Step(f0, n0, {<<f1, n1, x>>}, {m.cli}), Answering(f1, x),
           x.cli = m.cli, ctx'[m.cli].val = ctx[m.cli].val,
           x.op = AppendReq => m.op = AppendReq /\ x.entry = m.entry /\ x.key = m.key,
           x.op \in WriteReplies => Has(pos', kv', x.log, x.key, ctx[m.cli].val),
           x.op \in Deferred => m.op \in Deferred,
           x.op \in {AppendReq, AppendReply} =>
               m.op \in {AppendReq, AppendReply} /\ x.flag = m.flag,
           x.op = MultiCastPkt => FLAGS_visibility
    PROVE  Values' /\ Carried'
  <1>1. /\ Sound(Net, pos, kv, ctx, nreq, f0, m) /\ m.cli \in Coros
        /\ ctx[m.cli].pc # "free"
    BY TakenSound, TakenType, TakenFits DEF LogInv
  <1>2. Values'
    BY <1>1, ValuesStep
  <1>3. x.op \in Deferred => Silent(Net', kv', ctx'[m.cli].val)
    <2>1. PICK v : v = ctx[m.cli].val
      OBVIOUS
    <2>2. x.op \in Deferred => Unannounced(v)
      BY <1>1, <2>1 DEF Sound, Unannounced
    <2>3. \A f, n, y : <<f, n, y>> \in {<<f1, n1, x>>} => f = f1 /\ n = n1 /\ y = x
      OBVIOUS
    <2>4. x.op \in Deferred => Unannounced(v)'
      BY <2>2, <2>3, UnannouncedStep
    <2> QED
      BY <2>1, <2>4 DEF Unannounced
  <1>4. Sound(Net', pos', kv', ctx', nreq', f1, x)
    BY <1>1, <1>3 DEF Sound
  <1>5. \A f, n, y : <<f, n, y>> \in {<<f1, n1, x>>} => f = f1 /\ n = n1 /\ y = x
    OBVIOUS
  <1>6. Carried'
    BY <1>4, <1>5, CarriedStep
  <1> QED
    BY <1>2, <1>6

\* A new request has a number that no entry of the log has.
LEMMA LogBegins ==
    ASSUME LogInv, TypeOK', NEW c \in Coros, NEW x \in RawKvMsg, Begins(c, x)
    PROVE  Values' /\ Carried'
  <1>1. /\ Step("none", c[1], {<<"c2s", c[1], x>>}, {c}) /\ nreq' = nreq + 1
        /\ ctx'[c].val = nreq + 1 /\ nreq \in Nat /\ ctx[c].pc = "free"
        /\ x.op \in {AppendReq, ReadIndexReq} /\ x.cli = c /\ x.flag = FLAGS_visibility
        /\ x.op = AppendReq => x.entry = [key |-> x.key, val |-> nreq + 1]
    <2>1. nreq \in Nat
      BY BoundAssumption DEF LogInv, TypeOK
    <2>2. /\ put_value(c, ctx'[c]).op = AppendReq /\ put_value(c, ctx'[c]).cli = c
          /\ put_value(c, ctx'[c]).flag = FLAGS_visibility
          /\ put_value(c, ctx'[c]).entry = [key |-> put_value(c, ctx'[c]).key,
                                            val |-> ctx'[c].val]
      BY DEF put_value
    <2>3. /\ get_index(c, ctx'[c]).op = ReadIndexReq /\ get_index(c, ctx'[c]).cli = c
          /\ get_index(c, ctx'[c]).flag = FLAGS_visibility
      BY DEF get_index
    <2> QED
      BY <2>1, <2>2, <2>3 DEF Begins, AppendReq, ReadIndexReq
  <1>2. \A d \in Coros : d # c => ctx'[d] = ctx[d]
    BY <1>1 DEF Step
  <1>3. Values'
    <2>1. /\ \A d \in Coros : ctx[d].pc # "free" => ctx[d].val \in 1 .. nreq
          /\ \A b, d \in Coros : ctx[b].pc # "free" /\ ctx[d].pc # "free" /\ b # d
                                  => ctx[b].val # ctx[d].val
      BY DEF LogInv, Values
    <2>2. ASSUME NEW d \in Coros, ctx'[d].pc # "free"
          PROVE  ctx'[d].val \in 1 .. nreq' /\ (d # c => ctx'[d].val # nreq + 1)
      BY <1>1, <1>2, <2>1, <2>2
    <2>3. ASSUME NEW b \in Coros, NEW d \in Coros, ctx'[b].pc # "free", ctx'[d].pc # "free",
                 b # d
          PROVE  ctx'[b].val # ctx'[d].val
      <3>1. CASE b = c
        BY <1>1, <2>2, <2>3, <3>1
      <3>2. CASE d = c
        BY <1>1, <2>2, <2>3, <3>2
      <3>3. CASE b # c /\ d # c
        BY <1>2, <2>1, <2>3, <3>3
      <3> QED
        BY <3>1, <3>2, <3>3
    <2> QED
      BY <2>2, <2>3 DEF Values
  <1>4. Silent(Net', kv', ctx'[c].val)
    <2>1. PICK v : v = nreq + 1
      OBVIOUS
    <2>2. Unannounced(v)
      <3> SUFFICES ASSUME NEW f \in Links, NEW n \in Ends(f), NEW j \in DOMAIN Net[f][n],
                          ~ Answering(f, Net[f][n][j])
                   PROVE  At(kv, Net[f][n][j].log).val # v
        BY DEF Unannounced, Silent
      <3>1. PICK m : m = Net[f][n][j]
        OBVIOUS
      <3>2. PICK u \in 1 .. nreq : Has(pos, kv, m.log, m.key, u)
        BY <3>1 DEF LogInv, Carried, Carries, Sound
      <3>3. At(kv, m.log).val = u
        BY <3>2 DEF Has
      <3> QED
        BY <1>1, <2>1, <3>1, <3>3
    <2>3. \A f, n, y : <<f, n, y>> \in {<<"c2s", c[1], x>>} => f = "c2s" /\ y = x
      OBVIOUS
    <2>4. Answering("c2s", x)
      BY DEF Answering
    <2>5. Unannounced(v)'
      BY <1>1, <2>2, <2>3, <2>4, UnannouncedStep
    <2> QED
      BY <1>1, <2>1, <2>5 DEF Unannounced
  <1>5. Sound(Net', pos', kv', ctx', nreq', "c2s", x)
    BY <1>1, <1>4 DEF Sound, Answering, WriteReplies, Deferred, AppendReq, ReadIndexReq,
                      AppendReply, MultiCastPkt, UpdateIndexReq, UpdateIndexReply
  <1>6. \A f, n, y : <<f, n, y>> \in {<<"c2s", c[1], x>>} =>
              f = "c2s" /\ y = x /\ Answering(f, y)
    BY DEF Answering
  <1>7. Carried'
    BY <1>1, <1>5, <1>6, CarriedStep
  <1> QED
    BY <1>3, <1>7

\* A resumed coroutine passes the value of its write on, or drops it.
LEMMA LogClient ==
    ASSUME LogInv, TypeOK', NEW t, NEW m \in RawKvMsg,
           \/ Finishes(t, m)
           \/ \E x \in RawKvMsg : Defers(t, m, x) \/ Fetches(t, m, x)
    PROVE  Values' /\ Carried'
  <1>1. Takes("s2c", t, m) /\ Answering("s2c", m) /\ m.cli \in Coros
    BY DEF Finishes, Defers, Fetches, Answering, RawKvMsg
  <1>2. CASE Finishes(t, m)
    <2>1. Step("s2c", t, {}, {m.cli}) /\ ctx'[m.cli].pc = "free"
      BY <1>2 DEF Finishes
    <2>2. Values'
      BY <1>1, <2>1, ValuesStep
    <2>3. Carried'
      BY <2>1, CarriedStep
    <2> QED
      BY <2>2, <2>3
  <1>3. CASE \E x \in RawKvMsg : Defers(t, m, x)
    <2>1. PICK x \in RawKvMsg : Defers(t, m, x)
      BY <1>3
    <2>2. /\ Step("s2c", t, {<<"c2s", t, x>>}, {m.cli}) /\ kv' = kv /\ pos' = pos
          /\ m.op \in {AppendReply, MultiCastPkt} /\ (FLAGS_visibility => m.op = AppendReply)
          /\ ctx'[m.cli].val = ctx[m.cli].val
          /\ x.op = UpdateIndexReq /\ x.cli = m.cli /\ x.log = m.log /\ x.key = m.key
      BY <2>1 DEF Defers, StoreSame, put_index
    <2>3. Sound(Net, pos, kv, ctx, nreq, "s2c", m)
      BY <1>1, TakenSound
    <2>4. m.op = AppendReply
      BY <2>2, <2>3 DEF Sound
    <2>5. Has(pos', kv', x.log, x.key, ctx[m.cli].val)
      BY <1>1, <2>2, <2>3, <2>4 DEF Sound, WriteReplies
    <2>6. Answering("c2s", x)
      BY DEF Answering
    <2> QED
      BY <1>1, <2>2, <2>4, <2>5, <2>6, LogMoved DEF WriteReplies, Deferred, AppendReq,
           AppendReply, UpdateIndexReq, MultiCastPkt
  <1>4. CASE \E x \in RawKvMsg : Fetches(t, m, x)
    <2>1. PICK x \in RawKvMsg : Fetches(t, m, x)
      BY <1>4
    <2>2. /\ Step("s2c", t, {<<"c2s", t, x>>}, {m.cli}) /\ ctx'[m.cli].val = ctx[m.cli].val
          /\ x.op = ReadLog /\ x.cli = m.cli
      BY <2>1 DEF Fetches, get_value
    <2>3. Answering("c2s", x)
      BY DEF Answering
    <2> QED
      BY <1>1, <2>2, <2>3, LogMoved DEF WriteReplies, Deferred, ReadLog, AppendReq,
           AppendReply, UpdateIndexReq, UpdateIndexReply, MultiCastPkt
  <1> QED
    BY <1>2, <1>3, <1>4

\* The switch forwards or answers what a client sent, with the value it came with.
LEMMA LogSwitchClient ==
    ASSUME LogInv, TypeOK', NEW t, NEW m \in RawKvMsg,
           ToData(t, m) \/ ToIndex(t, m) \/ \E x \in RawKvMsg : Hits(t, m, x)
    PROVE  Values' /\ Carried'
  <1>1. /\ Takes("c2s", t, m) /\ Answering("c2s", m)
        /\ UNCHANGED <<kv, pos, ctx>>
    BY DEF ToData, ToIndex, Hits, StoreSame, Answering
  <1>2. Sound(Net, pos, kv, ctx, nreq, "c2s", m)
    BY <1>1, TakenSound
  <1>3. CASE ToData(t, m)
    <2>1. Step("c2s", t, {<<"s2d", m.port, m>>}, {m.cli}) /\ m.op \in {AppendReq, ReadLog}
      BY <1>3 DEF ToData
    <2>2. Answering("s2d", m)
      BY DEF Answering
    <2> QED
      BY <1>1, <1>2, <2>1, <2>2, LogMoved DEF WriteReplies, Deferred, AppendReq, ReadLog,
           AppendReply, UpdateIndexReq, UpdateIndexReply, MultiCastPkt
  <1>4. CASE ToIndex(t, m)
    <2>1. /\ Step("c2s", t, {<<"s2i", m.port, m>>}, {m.cli})
          /\ m.op \in {UpdateIndexReq, ReadIndexReq}
      BY <1>4 DEF ToIndex
    <2>2. Answering("s2i", m)
      BY <2>1 DEF Answering, UpdateIndexReq, ReadIndexReq, MultiCastPkt
    <2>3. m.op \in WriteReplies => Has(pos', kv', m.log, m.key, ctx[m.cli].val)
      BY <1>1, <1>2 DEF Sound
    <2> QED
      BY <1>1, <2>1, <2>2, <2>3, LogMoved DEF Deferred, AppendReq, ReadIndexReq,
           AppendReply, UpdateIndexReq, UpdateIndexReply, MultiCastPkt
  <1>5. CASE \E x \in RawKvMsg : Hits(t, m, x)
    <2>1. PICK x \in RawKvMsg : Hits(t, m, x)
      BY <1>5
    <2>2. /\ Step("c2s", t, {<<"s2c", m.cli[1], x>>}, {m.cli})
          /\ m.op = ReadIndexReq /\ x = [m EXCEPT !.log = LogId(regs, m)]
      BY <2>1 DEF Hits
    <2>3. Answering("s2c", x) /\ x.cli = m.cli /\ x.op = ReadIndexReq
      BY <2>2 DEF Answering, RawKvMsg
    <2> QED
      BY <1>1, <2>2, <2>3, LogMoved DEF WriteReplies, Deferred, AppendReq, ReadIndexReq,
           AppendReply, UpdateIndexReq, UpdateIndexReply, MultiCastPkt
  <1> QED
    BY <1>3, <1>4, <1>5

\* An append hands the value over to the log, under a log id of its own.
LEMMA LogDataServer ==
    ASSUME LogInv, TypeOK', RingsOpen, NEW d \in DataThreads,
           NEW m \in RawKvMsg, NEW x \in RawKvMsg, Appends(d, m, x) \/ Looks(d, m, x)
    PROVE  Values' /\ Carried'
  <1>1. /\ Takes("s2d", d, m) /\ Answering("s2d", m) /\ ctx' = ctx /\ Answering("d2s", x)
        /\ Step("s2d", d, {<<"d2s", d, x>>}, {m.cli})
    BY DEF Appends, Looks, Answering
  <1>2. Sound(Net, pos, kv, ctx, nreq, "s2d", m) /\ m.entry \in Entries
    BY <1>1, TakenSound DEF RawKvMsg
  <1>3. CASE Appends(d, m, x)
    <2>1. /\ m.op = AppendReq /\ x.op = AppendReply /\ x.cli = m.cli /\ x.key = m.key
          /\ x.flag = m.flag /\ x.log = compute_log_id(pos[d], d)
          /\ kv' = [kv EXCEPT ![d][pos[d]] = m.entry]
          /\ pos' = [pos EXCEPT ![d] = (@ + 1) % logspace]
      BY <1>3 DEF Appends, RawKvMsg
    <2>2. Appended(x.log)' /\ Entry(x.log)' = m.entry
      BY <1>2, <2>1, AppendLog DEF LogInv
    <2>3. Has(pos', kv', x.log, x.key, ctx[m.cli].val)
      BY <1>2, <2>1, <2>2 DEF Sound, Has, Appended, Entry
    <2> QED
      BY <1>1, <2>1, <2>3, LogMoved DEF Deferred, AppendReq, AppendReply, MultiCastPkt
  <1>4. CASE Looks(d, m, x)
    <2>1. x.op = ReadReply /\ x.cli = m.cli
      BY <1>4 DEF Looks, RawKvMsg
    <2> QED
      BY <1>1, <2>1, LogMoved DEF WriteReplies, Deferred, ReadReply, AppendReq,
           AppendReply, UpdateIndexReq, UpdateIndexReply, MultiCastPkt
  <1> QED
    BY <1>3, <1>4

\* A granted write leaves its AppendReply behind, so that no packet of its
\* coroutine calls it deferred any more when its multicast is on the way.
LEMMA LogSwitchData ==
    ASSUME LogInv, TypeOK', NEW d, NEW m \in RawKvMsg,
           Passes(d, m) \/ \E x \in RawKvMsg : Grants(d, m, x)
    PROVE  Values' /\ Carried'
  <1>1. /\ Takes("d2s", d, m) /\ Answering("d2s", m) /\ UNCHANGED <<kv, pos, ctx, nreq>>
    BY DEF Passes, Grants, Answering
  <1>2. /\ Sound(Net, pos, kv, ctx, nreq, "d2s", m) /\ m.cli \in Coros
        /\ ctx[m.cli].pc # "free"
    BY <1>1, TakenSound, TakenFits DEF RawKvMsg, LogInv
  <1>3. CASE Passes(d, m)
    <2>1. /\ Step("d2s", d, {<<"s2c", m.cli[1], m>>}, {m.cli})
          /\ m.op \in {AppendReply, ReadReply}
      BY <1>3 DEF Passes
    <2>2. Answering("s2c", m)
      BY DEF Answering
    <2>3. m.op \in WriteReplies => Has(pos', kv', m.log, m.key, ctx[m.cli].val)
      BY <1>1, <1>2 DEF Sound
    <2> QED
      BY <1>1, <2>1, <2>2, <2>3, LogMoved DEF Deferred, AppendReq, ReadReply,
           AppendReply, UpdateIndexReq, UpdateIndexReply, MultiCastPkt
  <1>4. CASE \E x \in RawKvMsg : Grants(d, m, x)
    <2>1. PICK x \in RawKvMsg : Grants(d, m, x)
      BY <1>4
    <2>2. /\ Step("d2s", d, {<<"s2i", m.ixp, x>>, <<"s2c", m.cli[1], x>>}, {m.cli})
          /\ m.op = AppendReply /\ m.flag /\ x.op = MultiCastPkt /\ x.cli = m.cli
          /\ x.key = m.key /\ x.log = m.log
      BY <2>1 DEF Grants, RawKvMsg
    <2>3. Values'
      BY <1>1, <1>2, <2>2, ValuesStep
    <2>4. Has(pos', kv', x.log, x.key, ctx'[m.cli].val)
      BY <1>1, <1>2, <2>2 DEF Sound, WriteReplies
    <2>5. FLAGS_visibility /\ ctx'[m.cli].val \in 1 .. nreq'
      BY <1>1, <1>2, <2>2 DEF Sound, LogInv, Values
    <2>6. ASSUME NEW f PROVE Sound(Net', pos', kv', ctx', nreq', f, x)
      BY <2>2, <2>4, <2>5 DEF Sound, Deferred, MultiCastPkt, AppendReq, AppendReply,
           UpdateIndexReq, UpdateIndexReply
    <2>7. \A f, n, y : <<f, n, y>> \in {<<"s2i", m.ixp, x>>, <<"s2c", m.cli[1], x>>} => y = x
      OBVIOUS
    <2>8. At(kv', x.log).val = ctx[m.cli].val
      BY <1>1, <2>4 DEF Has
    <2>9. \A b \in Coros : ctx[b].pc # "free" /\ b \notin {m.cli}
                              => ctx[m.cli].val # ctx[b].val
      BY <1>2 DEF LogInv, Values
    <2>10. Carried'
      BY <2>2, <2>6, <2>7, <2>8, <2>9, CarriedStep
    <2> QED
      BY <2>3, <2>10
  <1> QED
    BY <1>3, <1>4

\* The index node answers an update or a multicast with the log id it came with.
LEMMA LogIndexServer ==
    ASSUME LogInv, TypeOK', NEW i, NEW m \in RawKvMsg, NEW x \in RawKvMsg,
           Puts(i, m, x) \/ Gets(i, m, x)
    PROVE  Values' /\ Carried'
  <1>1. Takes("s2i", i, m) /\ UNCHANGED <<kv, pos, ctx, nreq>>
    BY DEF Puts, Gets
  <1>2. Sound(Net, pos, kv, ctx, nreq, "s2i", m)
    BY <1>1, TakenSound
  <1>3. CASE Puts(i, m, x) /\ m.op = MultiCastPkt
    <2>1. /\ Step("s2i", i, {<<"i2s", i, x>>}, {}) /\ x.op = ReplySwitch
          /\ x.key = m.key /\ x.log = m.log
      BY <1>3 DEF Puts, RawKvMsg
    <2>2. Values'
      BY <2>1, ValuesStep
    <2>3. ~ Answering("s2i", m)
      BY <1>3 DEF Answering
    <2>4. PICK v \in 1 .. nreq : Has(pos, kv, m.log, m.key, v)
      BY <1>2, <2>3 DEF Sound
    <2>5. Sound(Net', pos', kv', ctx', nreq', "i2s", x)
      BY <1>1, <2>1, <2>4 DEF Sound, Answering, Deferred, MultiCastPkt, AppendReq,
           AppendReply, UpdateIndexReq, UpdateIndexReply, ReplySwitch
    <2>6. \A f, n, y : <<f, n, y>> \in {<<"i2s", i, x>>} => f = "i2s" /\ y = x
      OBVIOUS
    <2>7. ASSUME NEW u, Unannounced(u) PROVE At(kv', x.log).val # u
      <3>1. "s2i" \in Links /\ i \in Ends("s2i") /\ 1 \in DOMAIN Net["s2i"][i]
            /\ m = Net["s2i"][i][1]
        BY <1>1, TakenType DEF LogInv
      <3> QED
        BY <1>1, <2>1, <2>3, <2>7, <3>1 DEF Unannounced, Silent
    <2>8. Carried'
      BY <2>1, <2>5, <2>6, <2>7, CarriedStep
    <2> QED
      BY <2>2, <2>8
  <1>4. CASE Puts(i, m, x) /\ m.op # MultiCastPkt
    <2>1. /\ Step("s2i", i, {<<"i2s", i, x>>}, {m.cli}) /\ m.op = UpdateIndexReq
          /\ x.op = UpdateIndexReply /\ x.key = m.key /\ x.log = m.log /\ x.cli = m.cli
      BY <1>4 DEF Puts, RawKvMsg
    <2>2. Answering("s2i", m) /\ Answering("i2s", x)
      BY <1>4, <2>1 DEF Answering, UpdateIndexReply, ReplySwitch
    <2>3. Has(pos', kv', x.log, x.key, ctx[m.cli].val)
      BY <1>1, <1>2, <2>1, <2>2 DEF Sound, WriteReplies
    <2> QED
      BY <1>1, <2>1, <2>2, <2>3, LogMoved DEF Deferred, AppendReq, AppendReply,
           UpdateIndexReq, UpdateIndexReply, MultiCastPkt
  <1>5. CASE Gets(i, m, x)
    <2>1. /\ Step("s2i", i, {<<"i2s", i, x>>}, {m.cli}) /\ m.op = ReadIndexReq
          /\ x.op = ReadIndexReply /\ x.cli = m.cli
      BY <1>5 DEF Gets, RawKvMsg
    <2>2. Answering("s2i", m) /\ Answering("i2s", x)
      BY <2>1 DEF Answering, ReadIndexReq, ReadIndexReply, ReplySwitch, MultiCastPkt
    <2> QED
      BY <1>1, <2>1, <2>2, LogMoved DEF WriteReplies, Deferred, ReadIndexReply, AppendReq,
           AppendReply, UpdateIndexReq, UpdateIndexReply, MultiCastPkt
  <1> QED
    BY <1>3, <1>4, <1>5

\* The switch forwards a reply of the index node, or takes a ReplySwitch.
LEMMA LogSwitchIndex ==
    ASSUME LogInv, TypeOK', NEW i, NEW m \in RawKvMsg, Frees(i, m) \/ Forwards(i, m)
    PROVE  Values' /\ Carried'
  <1>1. Takes("i2s", i, m) /\ UNCHANGED <<kv, pos, ctx, nreq>>
    BY DEF Frees, Forwards
  <1>2. Sound(Net, pos, kv, ctx, nreq, "i2s", m)
    BY <1>1, TakenSound
  <1>3. CASE Frees(i, m)
    <2>1. Step("i2s", i, {}, {})
      BY <1>3 DEF Frees
    <2>2. Values'
      BY <2>1, ValuesStep
    <2>3. Carried'
      BY <2>1, CarriedStep
    <2> QED
      BY <2>2, <2>3
  <1>4. CASE Forwards(i, m)
    <2>1. /\ Step("i2s", i, {<<"s2c", m.cli[1], m>>}, {m.cli})
          /\ m.op \in {UpdateIndexReply, ReadIndexReply}
      BY <1>4 DEF Forwards
    <2>2. Answering("i2s", m) /\ Answering("s2c", m)
      BY <2>1 DEF Answering, UpdateIndexReply, ReadIndexReply, ReplySwitch
    <2>3. m.op \in WriteReplies => Has(pos', kv', m.log, m.key, ctx[m.cli].val)
      BY <1>1, <1>2, <2>2 DEF Sound
    <2> QED
      BY <1>1, <2>1, <2>2, <2>3, LogMoved DEF Deferred, AppendReq, ReadIndexReply,
           AppendReply, UpdateIndexReq, UpdateIndexReply, MultiCastPkt
  <1> QED
    BY <1>3, <1>4

\* At the start nothing is in flight and no request was issued.
LEMMA LogInit == Init => LogInv
  <1> SUFFICES ASSUME Init PROVE LogInv
    OBVIOUS
  <1>1. TypeOK /\ SoleAnswer
    BY InitType, SoleInit
  <1>2. Values
    <2>1. \A c \in Coros : ctx[c].pc = "free"
      BY DEF Init
    <2> QED
      BY <2>1 DEF Values
  <1>3. \A f \in Links : \A n \in Ends(f) : Net[f][n] = <<>>
    BY NetIs, EndsAre DEF Init, Links
  <1>4. Carried
    BY <1>3 DEF Carried
  <1> QED
    BY <1>1, <1>2, <1>4 DEF LogInv

\* Every step from a state with open rings keeps LogInv.
LEMMA LogNext ==
    ASSUME LogInv, RingsOpen, [Next]_vars
    PROVE  LogInv'
  <1>0. TypeOK /\ SoleAnswer
    BY DEF LogInv
  <1>1. TypeOK'
    BY <1>0, NextType
  <1>2. SoleAnswer'
    BY <1>0, <1>1, SoleNext
  <1>3. Values' /\ Carried'
    <2>1. CASE UNCHANGED vars
      <3>1. Net' = Net /\ UNCHANGED <<ctx, nreq, kv, pos>>
        BY <2>1 DEF vars, Net
      <3>2. Values'
        BY <3>1 DEF LogInv, Values
      <3>3. Carried'
        BY <3>1 DEF LogInv, Carried, Carries
      <3> QED
        BY <3>2, <3>3
    <2>2. CASE \E c \in Coros, k \in Keys : kEnumW(c, k) \/ kEnumR(c, k)
      BY <1>0, <1>1, <2>2, RequestForm, LogBegins
    <2>3. CASE \E t \in CThreads : ClientReply(t)
      BY <1>0, <1>1, <2>3, ClientForm, LogClient
    <2>4. CASE \E t \in CThreads : SwitchClient(t)
      BY <1>0, <1>1, <2>4, SwitchClientForm, LogSwitchClient
    <2>5. CASE \E d \in DataThreads : DataServer(d)
      BY <1>0, <1>1, <2>5, DataServerForm, LogDataServer
    <2>6. CASE \E d \in DataThreads : SwitchData(d)
      BY <1>0, <1>1, <2>6, SwitchDataForm, LogSwitchData
    <2>7. CASE \E i \in IndexThreads : IndexServer(i)
      BY <1>0, <1>1, <2>7, IndexServerForm, LogIndexServer
    <2>8. CASE \E i \in IndexThreads : SwitchIndex(i)
      BY <1>0, <1>1, <2>8, SwitchIndexForm, LogSwitchIndex
    <2> QED
      BY <2>1, <2>2, <2>3, <2>4, <2>5, <2>6, <2>7, <2>8 DEF Next
  <1> QED
    BY <1>1, <1>2, <1>3 DEF LogInv

(***************************************************************************)
(* A log id a packet carries names the log entry with the key and the      *)
(* value of its write, from DataAppend over the switch and the client to   *)
(* the index node and back, and no write is put into the index both by its *)
(* client and by a multicast, as long as no ring of a data thread goes     *)
(* round.                                                                  *)
(***************************************************************************)
THEOREM LogSafety == Spec /\ []RingsOpen => []LogInv
  <1>1. Init => LogInv
    BY LogInit
  <1>2. LogInv /\ RingsOpen /\ [Next]_vars => LogInv'
    BY LogNext
  <1> QED
    BY <1>1, <1>2, PTL DEF Spec

-----------------------------------------------------------------------------
(* p4_fw and Visibility. *)

\* What InFlight is made of.
LEMMA FlightIs ==
    \A m : m \in InFlight <=>
        \E i \in IndexThreads :
            \/ \E j \in DOMAIN s2i[i] : m = s2i[i][j] /\ m.op = MultiCastPkt
            \/ \E j \in DOMAIN i2s[i] : m = i2s[i][j] /\ m.op = ReplySwitch
  BY DEF InFlight, Multicasts, ReplySwitches, Positions

\* The announcement of a slot is the packet of its owner; an empty register
\* announces nothing.
Mapped ==
    /\ \A s \in SwitchKeys : regs.key[s] = 0 =>
           AnnouncedWrite(s) = [key |-> 0, log |-> NoLog, taken |-> FALSE]
    /\ \A s \in SwitchKeys : regs.key[s] # 0 => \E m \in InFlight : OnSlot(m, s)
    /\ \A m \in InFlight :
           /\ m \in RawKvMsg /\ m.op \in {MultiCastPkt, ReplySwitch} /\ Owns(regs, m)
           /\ AnnouncedWrite(get_switch_key(m.key)) =
                  [key |-> m.key, log |-> m.log, taken |-> m.op = ReplySwitch]

\* SlotOwned decides every announcement.
LEMMA SlotsMapped == TypeOK /\ SlotOwned => Mapped
  <1> SUFFICES ASSUME TypeOK, SlotOwned PROVE Mapped
    OBVIOUS
  <1>1. \A m \in InFlight :
            m \in RawKvMsg /\ m.op \in {MultiCastPkt, ReplySwitch} /\ Owns(regs, m)
    <2> SUFFICES ASSUME NEW m \in InFlight
                 PROVE  m \in RawKvMsg /\ m.op \in {MultiCastPkt, ReplySwitch} /\ Owns(regs, m)
      OBVIOUS
    <2>1. PICK i \in IndexThreads :
              \/ \E j \in DOMAIN s2i[i] : m = s2i[i][j] /\ m.op = MultiCastPkt
              \/ \E j \in DOMAIN i2s[i] : m = i2s[i][j] /\ m.op = ReplySwitch
      BY FlightIs
    <2>2. s2i[i] \in Seq(RawKvMsg) /\ i2s[i] \in Seq(RawKvMsg)
      BY DEF TypeOK
    <2>3. m \in RawKvMsg
      BY <2>1, <2>2
    <2>4. Owns(regs, m)
      BY <2>1 DEF SlotOwned, SlotMatches, Multicasts, ReplySwitches, Positions
    <2> QED
      BY <2>1, <2>3, <2>4
  <1>2. ASSUME NEW m \in InFlight, NEW n \in InFlight, SameSlot(m, n)
        PROVE  m = n
    <2>1. PICK i \in IndexThreads :
              \/ \E j \in DOMAIN s2i[i] : m = s2i[i][j] /\ m.op = MultiCastPkt
              \/ \E j \in DOMAIN i2s[i] : m = i2s[i][j] /\ m.op = ReplySwitch
      BY FlightIs
    <2>2. PICK k \in IndexThreads :
              \/ \E j \in DOMAIN s2i[k] : n = s2i[k][j] /\ n.op = MultiCastPkt
              \/ \E j \in DOMAIN i2s[k] : n = i2s[k][j] /\ n.op = ReplySwitch
      BY FlightIs
    <2> QED
      BY <1>2, <2>1, <2>2 DEF SlotOwned, SlotUnique, SameSlot, Multicasts, ReplySwitches,
                              Positions
  <1>3. ASSUME NEW m \in InFlight
        PROVE  AnnouncedWrite(get_switch_key(m.key)) =
                   [key |-> m.key, log |-> m.log, taken |-> m.op = ReplySwitch]
    <2>1. PICK s : s = get_switch_key(m.key)
      OBVIOUS
    <2>2. /\ regs.key[s] = get_fingerprint(m.key) /\ regs.log[s] = m.log /\ m.key \in Keys
      BY <1>1, <2>1 DEF Owns, RawKvMsg
    <2>3. regs.key[s] # 0
      BY <2>2, KeyRanges
    <2>4. Owners(s) = {m}
      <3>1. m \in Owners(s)
        BY <1>1, <2>1 DEF Owners, OnSlot
      <3>2. \A n \in Owners(s) : n = m
        BY <1>2, <2>1 DEF Owners, OnSlot, SameSlot
      <3> QED
        BY <3>1, <3>2
    <2>5. (CHOOSE n \in Owners(s) : TRUE) = m
      BY <2>4
    <2> QED
      BY <2>1, <2>2, <2>3, <2>4, <2>5 DEF AnnouncedWrite
  <1>4. \A s \in SwitchKeys : regs.key[s] # 0 => \E m \in InFlight : OnSlot(m, s)
    <2> SUFFICES ASSUME NEW s \in SwitchKeys, regs.key[s] # 0
                 PROVE  \E m \in InFlight : OnSlot(m, s)
      OBVIOUS
    <2>1. PICK i \in IndexThreads :
            \/ \E j \in Multicasts(i) : OnSlot(s2i[i][j], s)
            \/ \E j \in ReplySwitches(i) : OnSlot(i2s[i][j], s)
      BY DEF SlotOwned, SlotHeld
    <2> QED
      BY <2>1, FlightIs DEF Multicasts, ReplySwitches, Positions
  <1> QED
    BY <1>1, <1>3, <1>4 DEF Mapped, AnnouncedWrite

\* Queues keep what they hold when a packet is added.
LEMMA PushHolds ==
    ASSUME NEW D, NEW q \in [D -> Seq(RawKvMsg)], NEW a \in D, NEW x \in RawKvMsg
    PROVE  /\ \A n \in D : \A j \in DOMAIN q[n] :
                  j \in DOMAIN Push(q, a, x)[n] /\ Push(q, a, x)[n][j] = q[n][j]
           /\ \E j \in DOMAIN Push(q, a, x)[a] : Push(q, a, x)[a][j] = x
  <1>1. ASSUME NEW n \in D, NEW j \in DOMAIN q[n]
        PROVE  j \in DOMAIN Push(q, a, x)[n] /\ Push(q, a, x)[n][j] = q[n][j]
    <2>1. q[n] \in Seq(RawKvMsg)
      OBVIOUS
    <2>2. j \in Nat
      BY <2>1
    <2> QED
      BY <2>2, PushPlaces
  <1>2. /\ Len(q[a]) + 1 \in DOMAIN Push(q, a, x)[a]
        /\ Push(q, a, x)[a][Len(q[a]) + 1] = x
    <2>1. 1 \in Nat
      OBVIOUS
    <2> QED
      BY <2>1, PushPlaces
  <1> QED
    BY <1>1, <1>2

\* A head that is taken leaves the rest.
LEMMA PopHolds ==
    ASSUME NEW D, NEW q \in [D -> Seq(RawKvMsg)], NEW a \in D, q[a] # <<>>
    PROVE  \A n \in D : \A j \in DOMAIN q[n] :
               q[n][j] # Head(q[a]) =>
                   \E h \in DOMAIN Pop(q, a)[n] : Pop(q, a)[n][h] = q[n][j]
  <1> SUFFICES ASSUME NEW n \in D, NEW j \in DOMAIN q[n], q[n][j] # Head(q[a])
               PROVE  \E h \in DOMAIN Pop(q, a)[n] : Pop(q, a)[n][h] = q[n][j]
    OBVIOUS
  <1>1. q[n] \in Seq(RawKvMsg) /\ q[a] \in Seq(RawKvMsg)
    OBVIOUS
  <1>2. j \in Nat
    BY <1>1
  <1>3. CASE n # a
    BY <1>2, <1>3, PopPlaces
  <1>4. CASE n = a
    <2>1. j # 1
      BY <1>1, <1>4
    <2>2. j - 1 \in DOMAIN Pop(q, a)[a] /\ Pop(q, a)[a][j - 1] = q[a][j]
      BY <1>2, <1>4, <2>1, PopPlaces
    <2> QED
      BY <1>4, <2>2
  <1> QED
    BY <1>3, <1>4

\* What is in flight when the queues of the index threads stay as they are,
LEMMA FlightSame ==
    ASSUME UNCHANGED <<s2i, i2s>>
    PROVE  InFlight' = InFlight
  BY DEF InFlight, Multicasts, ReplySwitches

\* when the switch sends an index thread a packet,
LEMMA FlightPush ==
    ASSUME TypeOK, NEW n \in IndexThreads, NEW x \in RawKvMsg,
           s2i' = Push(s2i, n, x), i2s' = i2s
    PROVE  InFlight \subseteq InFlight' /\ (x.op = MultiCastPkt => x \in InFlight')
  <1>1. /\ \A i \in IndexThreads : \A j \in DOMAIN s2i[i] :
               j \in DOMAIN s2i'[i] /\ s2i'[i][j] = s2i[i][j]
        /\ \E j \in DOMAIN s2i'[n] : s2i'[n][j] = x
    <2>1. s2i \in [IndexThreads -> Seq(RawKvMsg)]
      BY DEF TypeOK
    <2>2. /\ \A i \in IndexThreads : \A j \in DOMAIN s2i[i] :
                 /\ j \in DOMAIN Push(s2i, n, x)[i]
                 /\ Push(s2i, n, x)[i][j] = s2i[i][j]
          /\ \E j \in DOMAIN Push(s2i, n, x)[n] : Push(s2i, n, x)[n][j] = x
      BY <2>1, PushHolds
    <2> QED
      BY <2>2
  <1>2. \A m : m \in InFlight' <=>
            \E i \in IndexThreads :
                \/ \E j \in DOMAIN s2i'[i] : m = s2i'[i][j] /\ m.op = MultiCastPkt
                \/ \E j \in DOMAIN i2s'[i] : m = i2s'[i][j] /\ m.op = ReplySwitch
    BY DEF InFlight, Multicasts, ReplySwitches, Positions
  <1>3. ASSUME NEW m \in InFlight PROVE m \in InFlight'
    <2>1. PICK i \in IndexThreads :
              \/ \E j \in DOMAIN s2i[i] : m = s2i[i][j] /\ m.op = MultiCastPkt
              \/ \E j \in DOMAIN i2s[i] : m = i2s[i][j] /\ m.op = ReplySwitch
      BY FlightIs
    <2> QED
      BY <1>1, <1>2, <2>1
  <1> QED
    BY <1>1, <1>2, <1>3

\* when an index thread serves one,
LEMMA FlightServed ==
    ASSUME TypeOK, NEW n \in IndexThreads, s2i[n] # <<>>, NEW x \in RawKvMsg,
           s2i' = Pop(s2i, n), i2s' = Push(i2s, n, x)
    PROVE  /\ \A m \in InFlight : m # Head(s2i[n]) => m \in InFlight'
           /\ x.op = ReplySwitch => x \in InFlight'
           /\ Head(s2i[n]).op # MultiCastPkt => InFlight \subseteq InFlight'
  <1>1. /\ \A i \in IndexThreads : \A j \in DOMAIN i2s[i] :
               j \in DOMAIN i2s'[i] /\ i2s'[i][j] = i2s[i][j]
        /\ \E j \in DOMAIN i2s'[n] : i2s'[n][j] = x
    <2>1. i2s \in [IndexThreads -> Seq(RawKvMsg)]
      BY DEF TypeOK
    <2>2. /\ \A i \in IndexThreads : \A j \in DOMAIN i2s[i] :
                 /\ j \in DOMAIN Push(i2s, n, x)[i]
                 /\ Push(i2s, n, x)[i][j] = i2s[i][j]
          /\ \E j \in DOMAIN Push(i2s, n, x)[n] : Push(i2s, n, x)[n][j] = x
      BY <2>1, PushHolds
    <2> QED
      BY <2>2
  <1>2. \A i \in IndexThreads : \A j \in DOMAIN s2i[i] :
            s2i[i][j] # Head(s2i[n]) => \E h \in DOMAIN s2i'[i] : s2i'[i][h] = s2i[i][j]
    <2>1. s2i \in [IndexThreads -> Seq(RawKvMsg)]
      BY DEF TypeOK
    <2>2. \A i \in IndexThreads : \A j \in DOMAIN s2i[i] :
              s2i[i][j] # Head(s2i[n]) =>
                  \E h \in DOMAIN Pop(s2i, n)[i] : Pop(s2i, n)[i][h] = s2i[i][j]
      BY <2>1, PopHolds
    <2> QED
      BY <2>2
  <1>3. \A m : m \in InFlight' <=>
            \E i \in IndexThreads :
                \/ \E j \in DOMAIN s2i'[i] : m = s2i'[i][j] /\ m.op = MultiCastPkt
                \/ \E j \in DOMAIN i2s'[i] : m = i2s'[i][j] /\ m.op = ReplySwitch
    BY DEF InFlight, Multicasts, ReplySwitches, Positions
  <1>4. ASSUME NEW m \in InFlight
        PROVE  (m # Head(s2i[n]) \/ Head(s2i[n]).op # MultiCastPkt) => m \in InFlight'
    <2>1. PICK i \in IndexThreads :
              \/ \E j \in DOMAIN s2i[i] : m = s2i[i][j] /\ m.op = MultiCastPkt
              \/ \E j \in DOMAIN i2s[i] : m = i2s[i][j] /\ m.op = ReplySwitch
      BY FlightIs
    <2>2. CASE \E j \in DOMAIN s2i[i] : m = s2i[i][j] /\ m.op = MultiCastPkt
      BY <1>2, <1>3, <2>2
    <2>3. CASE \E j \in DOMAIN i2s[i] : m = i2s[i][j] /\ m.op = ReplySwitch
      BY <1>1, <1>3, <2>3
    <2> QED
      BY <2>1, <2>2, <2>3
  <1> QED
    BY <1>1, <1>3, <1>4

\* and when the switch takes what an index thread sent.
LEMMA FlightTaken ==
    ASSUME TypeOK, NEW n \in IndexThreads, i2s[n] # <<>>, s2i' = s2i, i2s' = Pop(i2s, n)
    PROVE  /\ \A m \in InFlight : m # Head(i2s[n]) => m \in InFlight'
           /\ Head(i2s[n]).op # ReplySwitch => InFlight \subseteq InFlight'
  <1>2. \A i \in IndexThreads : \A j \in DOMAIN i2s[i] :
            i2s[i][j] # Head(i2s[n]) => \E h \in DOMAIN i2s'[i] : i2s'[i][h] = i2s[i][j]
    <2>1. i2s \in [IndexThreads -> Seq(RawKvMsg)]
      BY DEF TypeOK
    <2>2. \A i \in IndexThreads : \A j \in DOMAIN i2s[i] :
              i2s[i][j] # Head(i2s[n]) =>
                  \E h \in DOMAIN Pop(i2s, n)[i] : Pop(i2s, n)[i][h] = i2s[i][j]
      BY <2>1, PopHolds
    <2> QED
      BY <2>2
  <1>3. \A m : m \in InFlight' <=>
            \E i \in IndexThreads :
                \/ \E j \in DOMAIN s2i'[i] : m = s2i'[i][j] /\ m.op = MultiCastPkt
                \/ \E j \in DOMAIN i2s'[i] : m = i2s'[i][j] /\ m.op = ReplySwitch
    BY DEF InFlight, Multicasts, ReplySwitches, Positions
  <1>4. ASSUME NEW m \in InFlight
        PROVE  (m # Head(i2s[n]) \/ Head(i2s[n]).op # ReplySwitch) => m \in InFlight'
    <2>1. PICK i \in IndexThreads :
              \/ \E j \in DOMAIN s2i[i] : m = s2i[i][j] /\ m.op = MultiCastPkt
              \/ \E j \in DOMAIN i2s[i] : m = i2s[i][j] /\ m.op = ReplySwitch
      BY FlightIs
    <2>2. CASE \E j \in DOMAIN s2i[i] : m = s2i[i][j] /\ m.op = MultiCastPkt
      BY <1>3, <2>2
    <2>3. CASE \E j \in DOMAIN i2s[i] : m = i2s[i][j] /\ m.op = ReplySwitch
      BY <1>2, <1>3, <2>3
    <2> QED
      BY <2>1, <2>2, <2>3
  <1> QED
    BY <1>4

\* A slot whose register and whose packets stay keeps its announcement.
LEMMA AnnouncementStays ==
    ASSUME Mapped, Mapped', NEW s \in SwitchKeys, regs'.key[s] = regs.key[s],
           \A m \in InFlight : OnSlot(m, s) => m \in InFlight'
    PROVE  Announcements'[s] = Announcements[s]
  <1>1. Announcements[s] = AnnouncedWrite(s) /\ Announcements'[s] = AnnouncedWrite(s)'
    BY DEF Announcements
  <1>2. CASE regs.key[s] = 0
    BY <1>1, <1>2 DEF Mapped
  <1>3. CASE regs.key[s] # 0
    <2>1. PICK m \in InFlight : OnSlot(m, s)
      BY <1>3 DEF Mapped
    <2>2. m \in InFlight'
      BY <2>1
    <2>3. get_switch_key(m.key) = s
      BY <2>1 DEF OnSlot
    <2>4. AnnouncedWrite(s) = [key |-> m.key, log |-> m.log, taken |-> m.op = ReplySwitch]
      BY <2>1, <2>3 DEF Mapped
    <2>5. AnnouncedWrite(s)' = [key |-> m.key, log |-> m.log, taken |-> m.op = ReplySwitch]
      BY <2>2, <2>3 DEF Mapped
    <2> QED
      BY <1>1, <2>4, <2>5
  <1> QED
    BY <1>2, <1>3

\* No announcement changes when registers and packets in flight stay.
LEMMA AllStay ==
    ASSUME Mapped, Mapped', \A s \in SwitchKeys : regs'.key[s] = regs.key[s],
           InFlight \subseteq InFlight'
    PROVE  Announcements' = Announcements
  <1>1. \A s \in SwitchKeys : Announcements'[s] = Announcements[s]
    BY AnnouncementStays
  <1>2. /\ Announcements = [s \in SwitchKeys |-> Announcements[s]]
        /\ Announcements' = [s \in SwitchKeys |-> Announcements'[s]]
    BY DEF Announcements
  <1> QED
    BY <1>1, <1>2

\* Only the announcement of slot s changes, and becomes a.
LEMMA OneChanges ==
    ASSUME NEW s \in SwitchKeys, NEW a, AnnouncedWrite(s)' = a,
           \A x \in SwitchKeys : x # s => Announcements'[x] = Announcements[x]
    PROVE  Announcements' = [Announcements EXCEPT ![s] = a]
  <1>1. Announcements'[s] = a
    BY DEF Announcements
  <1>2. /\ Announcements = [x \in SwitchKeys |-> Announcements[x]]
        /\ Announcements' = [x \in SwitchKeys |-> Announcements'[x]]
    BY DEF Announcements
  <1> QED
    BY <1>1, <1>2

\* Visibility and the store agree on the vocabulary of KvTypes.
LEMMA SameWords ==
    /\ V!NoLog = NoLog /\ V!LogIds = LogIds /\ V!SwitchKeys = SwitchKeys
    /\ \A k : V!get_switch_key(k) = get_switch_key(k)
    /\ \A l, d : V!compute_log_id(l, d) = compute_log_id(l, d)
  BY DEF V!NoLog, NoLog, V!LogIds, LogIds, V!SwitchKeys, SwitchKeys, V!get_switch_key,
         get_switch_key, V!compute_log_id, compute_log_id, V!DataThreads, DataThreads

\* A granted slot announces its write.
LEMMA GrantsAnnounce ==
    ASSUME Program = "fw", LogInv, Mapped, Mapped', NEW d \in DataThreads,
           NEW m \in RawKvMsg, NEW x \in RawKvMsg, Grants(d, m, x)
    PROVE  V!Announce(m.key, m.log) /\ m.log \in LogIds
  <1>s. PICK s : s = get_switch_key(m.key)
    OBVIOUS
  <1>1. /\ s2i' = Push(s2i, m.ixp, x) /\ i2s' = i2s /\ index' = index /\ m.op = AppendReply
        /\ Granted(regs, m) /\ regs' = NewIndex(regs, m) /\ Takes("d2s", d, m)
        /\ x.op = MultiCastPkt /\ x.key = m.key /\ x.log = m.log
    BY DEF Grants, RawKvMsg
  <1>2. m.key \in Keys /\ m.ixp \in IndexThreads /\ TypeOK /\ regs \in Registers
    BY DEF RawKvMsg, LogInv, TypeOK
  <1>3. s \in SwitchKeys
    BY <1>2, <1>s, KeyRanges
  <1>4. regs.key[s] = 0 /\ \A y \in SwitchKeys : y # s => regs'.key[y] = regs.key[y]
    BY <1>1, <1>2, <1>3, <1>s DEF Granted, FwGranted, NewIndex, FwNewIndex, Registers
  <1>5. InFlight \subseteq InFlight' /\ x \in InFlight'
    BY <1>1, <1>2, FlightPush
  <1>6. m.log \in LogIds
    <2>1. Sound(Net, pos, kv, ctx, nreq, "d2s", m) /\ Answering("d2s", m)
      BY <1>1, TakenSound DEF Answering
    <2> QED
      BY <1>1, <2>1 DEF Sound, WriteReplies, Has, Within
  <1>7. AnnouncedWrite(s)' = [key |-> m.key, log |-> m.log, taken |-> FALSE]
    <2>1. AnnouncedWrite(s)' = [key |-> x.key, log |-> x.log, taken |-> x.op = ReplySwitch]
      BY <1>1, <1>5, <1>s DEF Mapped
    <2>2. (x.op = ReplySwitch) = FALSE
      BY <1>1 DEF MultiCastPkt, ReplySwitch
    <2> QED
      BY <1>1, <2>1, <2>2
  <1>8. \A y \in SwitchKeys : y # s => Announcements'[y] = Announcements[y]
    BY <1>4, <1>5, AnnouncementStays
  <1>9. Announcements' = [Announcements EXCEPT ![s] = [key |-> m.key, log |-> m.log,
                                                       taken |-> FALSE]]
    BY <1>3, <1>7, <1>8, OneChanges
  <1>10. Announcements[s] = [key |-> 0, log |-> NoLog, taken |-> FALSE]
    BY <1>3, <1>4 DEF Mapped, Announcements
  <1> QED
    BY <1>1, <1>6, <1>9, <1>10, <1>s, SameWords DEF V!Announce, V!Open, V!Empty, V!Announced

\* NoLog is no log id of the store.
LEMMA NoLogApart == NoLog \notin LogIds
  <1> SUFFICES ASSUME NEW l \in 0 .. logspace - 1, NEW d \in DataThreads
               PROVE  compute_log_id(l, d) # NoLog
    BY DEF LogIds
  <1> QED
    BY LogParts

\* Taking an announcement up changes its flag alone.
LEMMA TakenRaised ==
    ASSUME NEW K, NEW L, NEW w \in [key : K, log : L, taken : BOOLEAN],
           NEW y, y = [w EXCEPT !.taken = TRUE]
    PROVE  y = [key |-> w.key, log |-> w.log, taken |-> TRUE]
  OBVIOUS

\* The index takes an announced write up.
LEMMA CastTakenUp ==
    ASSUME LogInv, Mapped, Mapped', NEW i \in IndexThreads,
           NEW m \in RawKvMsg, NEW x \in RawKvMsg, Puts(i, m, x), m.op = MultiCastPkt
    PROVE  V!TakeUp(get_switch_key(m.key))
  <1>s. PICK s : s = get_switch_key(m.key)
    OBVIOUS
  <1>1. /\ Takes("s2i", i, m) /\ x.op = ReplySwitch /\ x.key = m.key /\ x.log = m.log
        /\ index' = [index EXCEPT ![m.key] = m.log] /\ regs' = regs
        /\ s2i' = Pop(s2i, i) /\ i2s' = Push(i2s, i, x)
    BY DEF Puts, RawKvMsg
  <1>2. /\ m = Head(s2i[i]) /\ s2i[i] # <<>> /\ m = s2i[i][1] /\ 1 \in DOMAIN s2i[i]
    BY <1>1, NetIs, TakenType DEF Takes, LogInv
  <1>3. m.key \in Keys /\ s \in SwitchKeys /\ TypeOK
    BY <1>s, KeyRanges DEF RawKvMsg, LogInv
  <1>4. m \in InFlight
    BY <1>2, FlightIs
  <1>5. /\ \A y \in InFlight : y # m => y \in InFlight'
        /\ x \in InFlight'
    BY <1>1, <1>2, <1>3, FlightServed
  <1>6. AnnouncedWrite(s) = [key |-> m.key, log |-> m.log, taken |-> FALSE]
    <2>1. (m.op = ReplySwitch) = FALSE
      BY DEF MultiCastPkt, ReplySwitch
    <2> QED
      BY <1>4, <1>s, <2>1 DEF Mapped
  <1>7. AnnouncedWrite(s)' = [key |-> m.key, log |-> m.log, taken |-> TRUE]
    <2>1. AnnouncedWrite(s)' = [key |-> x.key, log |-> x.log, taken |-> x.op = ReplySwitch]
      BY <1>1, <1>5, <1>s DEF Mapped
    <2>2. (x.op = ReplySwitch) = TRUE
      BY <1>1
    <2> QED
      BY <1>1, <2>1, <2>2
  <1>8. \A y \in SwitchKeys : y # s => Announcements'[y] = Announcements[y]
    <2> SUFFICES ASSUME NEW y \in SwitchKeys, y # s
                 PROVE  Announcements'[y] = Announcements[y]
      OBVIOUS
    <2>1. \A z \in InFlight : OnSlot(z, y) => z \in InFlight'
      BY <1>5, <1>s DEF OnSlot
    <2> QED
      BY <1>1, <2>1, AnnouncementStays
  <1>9. Announcements' = [Announcements EXCEPT ![s] = [key |-> m.key, log |-> m.log,
                                                       taken |-> TRUE]]
    BY <1>3, <1>7, <1>8, OneChanges
  <1>10. Announcements[s] = [key |-> m.key, log |-> m.log, taken |-> FALSE]
    BY <1>3, <1>6 DEF Announcements
  <1>11. Announcements' = [Announcements EXCEPT ![s].taken = TRUE]
    <2> PICK a : a = Announcements
      OBVIOUS
    <2> PICK w : w = a[s]
      OBVIOUS
    <2> PICK y : y = [w EXCEPT !.taken = TRUE]
      OBVIOUS
    <2>1. w \in [key : {m.key}, log : {m.log}, taken : BOOLEAN]
      BY <1>10
    <2>2. y = [key |-> w.key, log |-> w.log, taken |-> TRUE]
      BY <2>1, TakenRaised
    <2>3. w.key = m.key /\ w.log = m.log
      BY <2>1
    <2>4. [a EXCEPT ![s].taken = TRUE] = [a EXCEPT ![s] = y]
      OBVIOUS
    <2>5. Announcements' = [a EXCEPT ![s] = y]
      BY <1>9, <2>2, <2>3
    <2>6. Announcements' = [a EXCEPT ![s].taken = TRUE]
      BY <2>4, <2>5
    <2> QED
      BY <2>6
  <1>12. m.log \in LogIds
    <2>1. Sound(Net, pos, kv, ctx, nreq, "s2i", m) /\ ~ Answering("s2i", m)
      BY <1>1, TakenSound DEF Answering
    <2> QED
      BY <2>1 DEF Sound, Has, Within
  <1>13. /\ Announcements[s] # [key |-> 0, log |-> NoLog, taken |-> FALSE]
         /\ Announcements[s].taken = FALSE /\ Announcements[s].key = m.key
         /\ Announcements[s].log = m.log
    BY <1>10, <1>12, NoLogApart
  <1> QED
    BY <1>1, <1>11, <1>13, <1>s, SameWords DEF V!TakeUp, V!Empty

\* A slow update of the index is one no slot announces.
LEMMA PutUpdates ==
    ASSUME LogInv, Mapped, Mapped', NEW i \in IndexThreads,
           NEW m \in RawKvMsg, NEW x \in RawKvMsg, Puts(i, m, x), m.op = UpdateIndexReq
    PROVE  V!Update(m.key, m.log) /\ m.log \in LogIds
  <1>s. PICK s : s = get_switch_key(m.key)
    OBVIOUS
  <1>1. /\ Takes("s2i", i, m) /\ index' = [index EXCEPT ![m.key] = m.log] /\ regs' = regs
        /\ s2i' = Pop(s2i, i) /\ i2s' = Push(i2s, i, x)
    BY DEF Puts
  <1>2. m = Head(s2i[i]) /\ s2i[i] # <<>> /\ TypeOK
    BY <1>1, NetIs DEF Takes, LogInv
  <1>3. m.key \in Keys /\ s \in SwitchKeys
    BY <1>s, KeyRanges DEF RawKvMsg
  <1>4. InFlight \subseteq InFlight'
    BY <1>1, <1>2, FlightServed DEF UpdateIndexReq, MultiCastPkt
  <1>5. Announcements' = Announcements
    BY <1>1, <1>4, AllStay
  <1>6. Sound(Net, pos, kv, ctx, nreq, "s2i", m) /\ Answering("s2i", m)
    BY <1>1, TakenSound DEF Answering, UpdateIndexReq, MultiCastPkt
  <1>7. Has(pos, kv, m.log, m.key, ctx[m.cli].val) /\ Silent(Net, kv, ctx[m.cli].val)
    BY <1>6 DEF Sound, WriteReplies, Deferred
  <1>8. m.log \in LogIds /\ At(kv, m.log).val = ctx[m.cli].val
    BY <1>7 DEF Has, Within
  <1>9. ASSUME Announcements[s].log = m.log PROVE FALSE
    <2>1. AnnouncedWrite(s).log = m.log
      BY <1>3, <1>9 DEF Announcements
    <2>2. regs.key[s] # 0
      BY <1>3, <1>8, <2>1, NoLogApart DEF Mapped
    <2>3. PICK y \in InFlight : OnSlot(y, s)
      BY <1>3, <2>2 DEF Mapped
    <2>4. y.log = m.log
      <3>1. AnnouncedWrite(get_switch_key(y.key)) =
                [key |-> y.key, log |-> y.log, taken |-> y.op = ReplySwitch]
        BY <2>3 DEF Mapped
      <3>2. AnnouncedWrite(get_switch_key(y.key)).log = y.log
        BY <3>1
      <3> QED
        BY <2>1, <2>3, <3>2 DEF OnSlot
    <2>5. At(kv, y.log).val # ctx[m.cli].val
      <3>1. PICK n \in IndexThreads :
                \/ \E j \in DOMAIN s2i[n] : y = s2i[n][j] /\ y.op = MultiCastPkt
                \/ \E j \in DOMAIN i2s[n] : y = i2s[n][j] /\ y.op = ReplySwitch
        BY FlightIs
      <3>2. PICK f \in {"s2i", "i2s"} : \E j \in DOMAIN Net[f][n] :
                                            y = Net[f][n][j] /\ ~ Answering(f, y)
        BY <3>1, NetIs DEF Answering
      <3>3. f \in Links /\ n \in Ends(f)
        BY EndsAre DEF Links
      <3> QED
        BY <1>7, <3>2, <3>3 DEF Silent
    <2> QED
      BY <1>8, <2>4, <2>5
  <1> QED
    BY <1>1, <1>5, <1>8, <1>9, <1>s, SameWords DEF V!Update

\* The owner's ReplySwitch withdraws the announcement.
LEMMA FreesWithdraw ==
    ASSUME Program = "fw", LogInv, Mapped, Mapped', NEW i \in IndexThreads,
           NEW m \in RawKvMsg, Frees(i, m)
    PROVE  V!Withdraw(get_switch_key(m.key))
  <1>s. PICK s : s = get_switch_key(m.key)
    OBVIOUS
  <1>1. /\ Takes("i2s", i, m) /\ m.op = ReplySwitch /\ index' = index /\ s2i' = s2i
        /\ regs' = DeleteIndex(regs, m) /\ i2s' = Pop(i2s, i)
    BY DEF Frees
  <1>2. /\ m = Head(i2s[i]) /\ i2s[i] # <<>> /\ m = i2s[i][1] /\ 1 \in DOMAIN i2s[i]
    BY <1>1, NetIs, TakenType DEF Takes, LogInv
  <1>3. m.key \in Keys /\ s \in SwitchKeys /\ TypeOK /\ regs \in Registers
    BY <1>s, KeyRanges DEF RawKvMsg, LogInv, TypeOK
  <1>4. m \in InFlight
    BY <1>1, <1>2, FlightIs
  <1>5. \A y \in InFlight : y # m => y \in InFlight'
    BY <1>1, <1>2, <1>3, FlightTaken
  <1>6. AnnouncedWrite(s) = [key |-> m.key, log |-> m.log, taken |-> TRUE]
    <2>1. (m.op = ReplySwitch) = TRUE
      BY <1>1
    <2> QED
      BY <1>4, <1>s, <2>1 DEF Mapped
  <1>7. regs.rpc[s] = rpc_id(m)
    BY <1>4, <1>s DEF Mapped, Owns
  <1>8. regs'.key[s] = 0 /\ \A y \in SwitchKeys : y # s => regs'.key[y] = regs.key[y]
    BY <1>1, <1>3, <1>7, <1>s DEF DeleteIndex, FwDeleteIndex, Registers
  <1>9. AnnouncedWrite(s)' = [key |-> 0, log |-> NoLog, taken |-> FALSE]
    BY <1>3, <1>8 DEF Mapped
  <1>10. \A y \in SwitchKeys : y # s => Announcements'[y] = Announcements[y]
    <2> SUFFICES ASSUME NEW y \in SwitchKeys, y # s
                 PROVE  Announcements'[y] = Announcements[y]
      OBVIOUS
    <2>1. \A z \in InFlight : OnSlot(z, y) => z \in InFlight'
      BY <1>5, <1>s DEF OnSlot
    <2> QED
      BY <1>8, <2>1, AnnouncementStays
  <1>11. Announcements' = [Announcements EXCEPT ![s] = [key |-> 0, log |-> NoLog,
                                                        taken |-> FALSE]]
    BY <1>3, <1>9, <1>10, OneChanges
  <1>12. /\ Announcements[s] # [key |-> 0, log |-> NoLog, taken |-> FALSE]
         /\ Announcements[s].taken = TRUE
    BY <1>3, <1>6 DEF Announcements
  <1> QED
    BY <1>1, <1>11, <1>12, <1>s, SameWords DEF V!Withdraw, V!Empty

\* Every step is a step of Visibility or leaves it alone.
LEMMA VisibilityNext ==
    ASSUME Program = "fw", LogInv, RingsOpen, Mapped, Mapped', TypeOK', [Next]_vars
    PROVE  V!Next \/ UNCHANGED <<Announcements, index>>
  <1>0. TypeOK /\ SoleAnswer
    BY DEF LogInv
  <1>w. \A m \in RawKvMsg : m.key \in Keys /\ get_switch_key(m.key) \in SwitchKeys
    <2>1. \A m \in RawKvMsg : m.key \in Keys
      BY DEF RawKvMsg
    <2> QED
      BY <2>1, KeyRanges
  <1>1. ASSUME UNCHANGED <<s2i, i2s, index>>, \A s \in SwitchKeys : regs'.key[s] = regs.key[s]
        PROVE  UNCHANGED <<Announcements, index>>
    BY <1>1, FlightSame, AllStay
  <1>2. CASE UNCHANGED vars
    BY <1>1, <1>2 DEF vars
  <1>3. CASE \E c \in Coros, k \in Keys : kEnumW(c, k) \/ kEnumR(c, k)
    BY <1>1, <1>3 DEF kEnumW, kEnumR
  <1>4. CASE \E t \in CThreads : ClientReply(t)
    BY <1>1, <1>4 DEF ClientReply, PutValueReturns, PutIndexReturns,
                      GetIndexReturns, GetValueReturns, Resume
  <1>5. CASE \E t \in CThreads : SwitchClient(t)
    <2>1. PICK t \in CThreads, m \in RawKvMsg :
              ToData(t, m) \/ ToIndex(t, m) \/ \E x \in RawKvMsg : Hits(t, m, x)
      BY <1>0, <1>5, SwitchClientForm
    <2>2. CASE ToData(t, m) \/ \E x \in RawKvMsg : Hits(t, m, x)
      BY <1>1, <2>2 DEF ToData, Hits, StoreSame
    <2>3. CASE ToIndex(t, m)
      <3>1. /\ m.port \in IndexThreads /\ s2i' = Push(s2i, m.port, m)
            /\ UNCHANGED <<i2s, regs, index>>
        BY <2>3 DEF ToIndex
      <3>2. InFlight \subseteq InFlight'
        BY <1>0, <3>1, FlightPush
      <3> QED
        BY <3>1, <3>2, AllStay
    <2> QED
      BY <2>1, <2>2, <2>3
  <1>6. CASE \E d \in DataThreads : DataServer(d)
    BY <1>1, <1>6 DEF DataServer
  <1>7. CASE \E d \in DataThreads : SwitchData(d)
    <2>1. PICK d \in DataThreads, m \in RawKvMsg :
              Passes(d, m) \/ \E x \in RawKvMsg : Grants(d, m, x)
      BY <1>0, <1>7, SwitchDataForm
    <2>2. CASE Passes(d, m)
      BY <1>1, <2>2 DEF Passes, SameOwner
    <2>3. CASE \E x \in RawKvMsg : Grants(d, m, x)
      <3>1. V!Announce(m.key, m.log) /\ m.log \in LogIds
        BY <2>3, GrantsAnnounce
      <3> QED
        BY <1>w, <3>1, SameWords DEF V!Next
    <2> QED
      BY <2>1, <2>2, <2>3
  <1>8. CASE \E i \in IndexThreads : IndexServer(i)
    <2>1. PICK i \in IndexThreads, m \in RawKvMsg, x \in RawKvMsg :
              Puts(i, m, x) \/ Gets(i, m, x)
      BY <1>0, <1>8, IndexServerForm
    <2>2. CASE Puts(i, m, x) /\ m.op = MultiCastPkt
      BY <1>w, <2>2, CastTakenUp, SameWords DEF V!Next
    <2>3. CASE Puts(i, m, x) /\ m.op = UpdateIndexReq
      <3>1. V!Update(m.key, m.log) /\ m.log \in LogIds
        BY <2>3, PutUpdates
      <3> QED
        BY <1>w, <3>1, SameWords DEF V!Next
    <2>4. CASE Gets(i, m, x)
      <3>1. /\ m.op # MultiCastPkt /\ m = Head(s2i[i]) /\ s2i[i] # <<>>
            /\ UNCHANGED <<regs, index>> /\ s2i' = Pop(s2i, i) /\ i2s' = Push(i2s, i, x)
        BY <2>4, NetIs DEF Gets, Takes, ReadIndexReq, MultiCastPkt
      <3>2. InFlight \subseteq InFlight'
        BY <1>0, <3>1, FlightServed
      <3> QED
        BY <3>1, <3>2, AllStay
    <2> QED
      BY <2>1, <2>2, <2>3, <2>4 DEF Puts
  <1>9. CASE \E i \in IndexThreads : SwitchIndex(i)
    <2>1. PICK i \in IndexThreads, m \in RawKvMsg : Frees(i, m) \/ Forwards(i, m)
      BY <1>0, <1>9, SwitchIndexForm
    <2>2. CASE Frees(i, m)
      BY <1>w, <2>2, FreesWithdraw, SameWords DEF V!Next
    <2>3. CASE Forwards(i, m)
      <3>1. /\ m.op # ReplySwitch /\ m = Head(i2s[i]) /\ i2s[i] # <<>>
            /\ UNCHANGED <<regs, index, s2i>> /\ i2s' = Pop(i2s, i)
        BY <2>3, NetIs DEF Forwards, Takes, UpdateIndexReply, ReadIndexReply, ReplySwitch
      <3>2. InFlight \subseteq InFlight'
        BY <1>0, <3>1, FlightTaken
      <3> QED
        BY <3>1, <3>2, AllStay
    <2> QED
      BY <2>1, <2>2, <2>3
  <1> QED
    BY <1>2, <1>3, <1>4, <1>5, <1>6, <1>7, <1>8, <1>9 DEF Next

\* At the start no slot announces anything.
LEMMA VisibilityInit == Init => V!Init
  <1> SUFFICES ASSUME Init PROVE V!Init
    OBVIOUS
  <1>1. \A s \in SwitchKeys : regs.key[s] = 0
    BY DEF Init, Reset
  <1>2. Announcements = [s \in SwitchKeys |-> [key |-> 0, log |-> NoLog, taken |-> FALSE]]
    BY <1>1 DEF Announcements, AnnouncedWrite
  <1>3. index = [k \in Keys |-> compute_log_id(0, 0)]
    BY DEF Init
  <1> QED
    BY <1>2, <1>3, SameWords DEF V!Init, V!Empty

(***************************************************************************)
(* With p4_fw.p4 in the switch the store implements Visibility, for every  *)
(* number of clients, keys and threads and every width of fingerprint and  *)
(* magic: a write is announced only in a free slot, the index node takes   *)
(* it up exactly once and with the announced key and log id, the           *)
(* announcement is withdrawn only afterwards, and a slow update never is   *)
(* the one that a slot announces. The hypothesis is that no ring of a data *)
(* thread goes round, which the code does not guard against (kv.cc,        *)
(* SampleLog).                                                             *)
(***************************************************************************)
THEOREM VisibilityImplemented ==
    ASSUME Program = "fw"
    PROVE  Spec /\ []RingsOpen => ImplementsVisibility
  <1>1. Init => V!Init
    BY VisibilityInit
  <1>2. /\ LogInv /\ RingsOpen /\ Mapped /\ Mapped' /\ TypeOK' /\ [Next]_vars
            => [V!Next]_<<Announcements, index>>
    BY VisibilityNext
  <1>3. TypeOK /\ SlotOwned => Mapped
    BY SlotsMapped
  <1>4. Spec => []TypeOK
    BY TypeCorrect
  <1>5. Spec => []SlotOwned
    BY SlotSafety
  <1>6. Spec /\ []RingsOpen => []LogInv
    BY LogSafety
  <1> QED
    BY <1>1, <1>2, <1>3, <1>4, <1>5, <1>6, PTL DEF Spec, ImplementsVisibility, V!Spec
=============================================================================
