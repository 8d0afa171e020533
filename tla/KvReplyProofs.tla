--------------------------- MODULE KvReplyProofs ---------------------------
(***************************************************************************)
(* A client coroutine is only ever resumed by the reply it waits for:      *)
(* Spec => []ReplyExpected, for both programs of the switch and every      *)
(* value of the constants.                                                 *)
(*                                                                         *)
(* ReplyExpected looks at the heads of the queues to the client threads    *)
(* only and is far from inductive. The invariant behind it, SoleAnswer,    *)
(* follows the one packet by which a call of kv_test will be answered      *)
(* through all six families of queues: a coroutine that waits has exactly  *)
(* one such packet in flight, at a stage that belongs to its call, with    *)
(* its key; a free coroutine has none. The copies of a write that the      *)
(* switch and the index node exchange about a slot (the multicast to the   *)
(* index thread, the ReplySwitch) end in the switch and answer nobody.     *)
(***************************************************************************)
EXTENDS KvStoreProofs

Links == {"c2s", "s2d", "d2s", "s2c", "s2i", "i2s"}

\* All the queues, by the link they belong to.
Net == [f \in Links |-> CASE f = "c2s" -> c2s [] f = "s2d" -> s2d
                          [] f = "d2s" -> d2s [] f = "s2c" -> s2c
                          [] f = "s2i" -> s2i [] f = "i2s" -> i2s]

Ends(f) == CASE f \in {"c2s", "s2c"} -> CThreads
             [] f \in {"s2d", "d2s"} -> DataThreads
             [] f \in {"s2i", "i2s"} -> IndexThreads

\* Packet m on link f is on its way to becoming the reply its coroutine awaits.
Answering(f, m) == /\ ~ (f = "s2i" /\ m.op = MultiCastPkt)
                   /\ ~ (f = "i2s" /\ m.op = ReplySwitch)

Answer(w, f, n, j) == /\ n \in Ends(f) /\ j \in DOMAIN w[f][n]
                      /\ Answering(f, w[f][n][j])

\* Which packets a call of kv_test is made of, link by link.
Stage(pc, f, op) ==
    \/ /\ pc = "put_value"
       /\ \/ f \in {"c2s", "s2d"} /\ op = AppendReq
          \/ f = "d2s" /\ op = AppendReply
          \/ f = "s2c" /\ op \in {AppendReply, MultiCastPkt}
    \/ /\ pc = "put_index"
       /\ \/ f \in {"c2s", "s2i"} /\ op = UpdateIndexReq
          \/ f \in {"i2s", "s2c"} /\ op = UpdateIndexReply
    \/ /\ pc = "get_index"
       /\ \/ f \in {"c2s", "s2i"} /\ op = ReadIndexReq
          \/ f = "i2s" /\ op = ReadIndexReply
          \/ f = "s2c" /\ op \in {ReadIndexReq, ReadIndexReply}
    \/ /\ pc = "get_value"
       /\ \/ f \in {"c2s", "s2d"} /\ op = ReadLog
          \/ f \in {"d2s", "s2c"} /\ op = ReadReply

\* The port a client writes into a packet is one of the node it goes to.
Routed(m) == m.port \in IF m.op \in {AppendReq, ReadLog} THEN DataThreads
                        ELSE IndexThreads

Fits(x, f, m) == /\ Stage(x.pc, f, m.op)
                 /\ m.key = x.key
                 /\ f = "c2s" => Routed(m)

\* Coroutine c, whose state is x, awaits exactly one packet, or none.
Sole(w, x, c) ==
    IF x.pc = "free"
    THEN \A f \in Links : \A n \in Ends(f) : \A j \in DOMAIN w[f][n] :
             Answer(w, f, n, j) => w[f][n][j].cli # c
    ELSE \E f \in Links : \E n \in Ends(f) : \E j \in DOMAIN w[f][n] :
             /\ Answer(w, f, n, j) /\ w[f][n][j].cli = c
             /\ Fits(x, f, w[f][n][j])
             /\ \A g \in Links : \A o \in Ends(g) : \A k \in DOMAIN w[g][o] :
                    Answer(w, g, o, k) /\ w[g][o][k].cli = c
                    => g = f /\ o = n /\ k = j

SoleAnswer == \A c \in Coros : Sole(Net, ctx[c], c)

-----------------------------------------------------------------------------
(* Places in the queues. A step takes the head of at most one queue, w[f0][n0],  *)
(* and adds at most one answering packet, x at the end of w[f1][n1]; f0 or f1 is *)
(* "none" for a step that does not.                                              *)

TypedNet(w) == \A f \in Links : w[f] \in [Ends(f) -> Seq(RawKvMsg)]

Moves(w, v, f0, n0, f1, n1, x) ==
    \A f \in Links :
        /\ f = f0 => v[f] = Pop(w[f], n0)
        /\ f = f1 => v[f] = Push(w[f], n1, x)
        /\ f # f0 /\ f # f1 =>
               \/ v[f] = w[f]
               \/ \E y \in RawKvMsg, n \in Ends(f) :
                      ~ Answering(f, y) /\ v[f] = Push(w[f], n, y)

\* Every answering packet but the head that was taken is still there,
Kept(w, v, f0, n0) ==
    \A f \in Links : \A n \in Ends(f) : \A j \in Nat :
        Answer(w, f, n, j) /\ ~ (f = f0 /\ n = n0 /\ j = 1) =>
            \E k \in Nat : /\ k = IF f = f0 /\ n = n0 THEN j - 1 ELSE j
                           /\ Answer(v, f, n, k) /\ v[f][n][k] = w[f][n][j]

\* and every one that is there is the added one or was there before.
Came(w, v, f0, n0, f1, n1, l) ==
    \A f \in Links : \A n \in Ends(f) : \A j \in Nat :
        Answer(v, f, n, j) =>
            \/ f = f1 /\ n = n1 /\ j = l
            \/ \E k \in Nat : /\ k = IF f = f0 /\ n = n0 THEN j + 1 ELSE j
                              /\ ~ (f = f0 /\ n = n0 /\ k = 1)
                              /\ Answer(w, f, n, k) /\ v[f][n][j] = w[f][n][k]

\* Places after a packet was added.
LEMMA PushPlaces ==
    ASSUME NEW D, NEW q \in [D -> Seq(RawKvMsg)], NEW a \in D, NEW m \in RawKvMsg,
           NEW n \in D, NEW j \in Nat
    PROVE  /\ j \in DOMAIN Push(q, a, m)[n]
                <=> j \in DOMAIN q[n] \/ (n = a /\ j = Len(q[a]) + 1)
           /\ j \in DOMAIN q[n] => Push(q, a, m)[n][j] = q[n][j]
           /\ Push(q, a, m)[a][Len(q[a]) + 1] = m
           /\ Len(q[a]) + 1 \in DOMAIN Push(q, a, m)[a] /\ Len(q[a]) + 1 \in Nat
  <1>1. q[n] \in Seq(RawKvMsg) /\ q[a] \in Seq(RawKvMsg)
    OBVIOUS
  <1>2. Push(q, a, m)[a] = Append(q[a], m) /\ (n # a => Push(q, a, m)[n] = q[n])
    BY DEF Push
  <1>3. CASE n = a
    BY <1>1, <1>2, <1>3
  <1>4. CASE n # a
    BY <1>1, <1>2, <1>4
  <1> QED
    BY <1>3, <1>4

\* Places after a head was taken.
LEMMA PopPlaces ==
    ASSUME NEW D, NEW q \in [D -> Seq(RawKvMsg)], NEW a \in D, q[a] # <<>>,
           NEW n \in D, NEW j \in Nat
    PROVE  /\ n # a => Pop(q, a)[n] = q[n]
           /\ j \in DOMAIN Pop(q, a)[a] => /\ j + 1 \in DOMAIN q[a] /\ j + 1 # 1
                                           /\ Pop(q, a)[a][j] = q[a][j + 1]
           /\ j \in DOMAIN q[a] /\ j # 1 => /\ j - 1 \in Nat
                                            /\ j - 1 \in DOMAIN Pop(q, a)[a]
                                            /\ Pop(q, a)[a][j - 1] = q[a][j]
           /\ 1 \in DOMAIN q[a] /\ q[a][1] = Head(q[a])
  <1>1. q[a] \in Seq(RawKvMsg)
    OBVIOUS
  <1>2. Pop(q, a)[a] = Tail(q[a]) /\ (n # a => Pop(q, a)[n] = q[n])
    BY DEF Pop
  <1> QED
    BY <1>1, <1>2

\* A step of that form keeps the answering packets and adds x.
LEMMA Transport ==
    ASSUME NEW w, NEW v, TypedNet(w), NEW f0, NEW n0, NEW f1, NEW n1, NEW x,
           f0 \in Links => n0 \in Ends(f0) /\ w[f0][n0] # <<>>,
           f1 \in Links => n1 \in Ends(f1) /\ x \in RawKvMsg /\ Answering(f1, x),
           f0 # f1,
           Moves(w, v, f0, n0, f1, n1, x)
    PROVE  /\ Kept(w, v, f0, n0)
           /\ \E l \in Nat : /\ Came(w, v, f0, n0, f1, n1, l)
                             /\ f1 \in Links => /\ Answer(v, f1, n1, l)
                                                /\ v[f1][n1][l] = x
  <1>l. PICK l : l = IF f1 \in Links THEN Len(w[f1][n1]) + 1 ELSE 0
    OBVIOUS
  <1>1. ASSUME NEW f \in Links, NEW n \in Ends(f), NEW j \in Nat, f = f0
        PROVE  /\ Answer(w, f, n, j) /\ ~ (n = n0 /\ j = 1) =>
                    \E k \in Nat : /\ k = IF f = f0 /\ n = n0 THEN j - 1 ELSE j
                                   /\ Answer(v, f, n, k) /\ v[f][n][k] = w[f][n][j]
               /\ Answer(v, f, n, j) =>
                    \E k \in Nat : /\ k = IF f = f0 /\ n = n0 THEN j + 1 ELSE j
                                   /\ ~ (f = f0 /\ n = n0 /\ k = 1)
                                   /\ Answer(w, f, n, k) /\ v[f][n][j] = w[f][n][k]
    <2>1. PICK q : q = w[f]
      OBVIOUS
    <2>2. /\ q \in [Ends(f) -> Seq(RawKvMsg)] /\ n0 \in Ends(f) /\ q[n0] # <<>>
          /\ v[f] = Pop(q, n0)
      BY <1>1, <2>1 DEF TypedNet, Moves
    <2>3. /\ n # n0 => Pop(q, n0)[n] = q[n]
          /\ j \in DOMAIN Pop(q, n0)[n0] => /\ j + 1 \in DOMAIN q[n0] /\ j + 1 # 1
                                            /\ Pop(q, n0)[n0][j] = q[n0][j + 1]
          /\ j \in DOMAIN q[n0] /\ j # 1 => /\ j - 1 \in Nat
                                            /\ j - 1 \in DOMAIN Pop(q, n0)[n0]
                                            /\ Pop(q, n0)[n0][j - 1] = q[n0][j]
      BY <2>2, PopPlaces
    <2>4. CASE n = n0
      BY <1>1, <2>1, <2>2, <2>3, <2>4 DEF Answer
    <2>5. CASE n # n0
      BY <1>1, <2>1, <2>2, <2>3, <2>5 DEF Answer
    <2> QED
      BY <2>4, <2>5
  <1>2. ASSUME NEW f \in Links, NEW n \in Ends(f), NEW j \in Nat, f = f1
        PROVE  /\ Answer(w, f, n, j) => Answer(v, f, n, j) /\ v[f][n][j] = w[f][n][j]
               /\ Answer(v, f, n, j) /\ ~ (n = n1 /\ j = l) =>
                      Answer(w, f, n, j) /\ v[f][n][j] = w[f][n][j]
               /\ l \in Nat /\ Answer(v, f1, n1, l) /\ v[f1][n1][l] = x
    <2>1. PICK q : q = w[f]
      OBVIOUS
    <2>2. /\ q \in [Ends(f) -> Seq(RawKvMsg)] /\ n1 \in Ends(f) /\ x \in RawKvMsg
          /\ v[f] = Push(q, n1, x) /\ l = Len(q[n1]) + 1 /\ Answering(f, x)
      BY <1>2, <1>l, <2>1 DEF TypedNet, Moves
    <2>3. /\ j \in DOMAIN Push(q, n1, x)[n]
               <=> j \in DOMAIN q[n] \/ (n = n1 /\ j = Len(q[n1]) + 1)
          /\ j \in DOMAIN q[n] => Push(q, n1, x)[n][j] = q[n][j]
          /\ Push(q, n1, x)[n1][Len(q[n1]) + 1] = x
          /\ Len(q[n1]) + 1 \in DOMAIN Push(q, n1, x)[n1] /\ Len(q[n1]) + 1 \in Nat
      BY <2>2, PushPlaces
    <2> QED
      BY <1>2, <2>1, <2>2, <2>3 DEF Answer
  <1>3. ASSUME NEW f \in Links, NEW n \in Ends(f), NEW j \in Nat, f # f0, f # f1
        PROVE  /\ Answer(w, f, n, j) => Answer(v, f, n, j) /\ v[f][n][j] = w[f][n][j]
               /\ Answer(v, f, n, j) => Answer(w, f, n, j) /\ v[f][n][j] = w[f][n][j]
    <2>1. CASE v[f] = w[f]
      BY <2>1 DEF Answer
    <2>2. CASE \E y \in RawKvMsg, a \in Ends(f) :
                   ~ Answering(f, y) /\ v[f] = Push(w[f], a, y)
      <3>1. PICK y \in RawKvMsg, a \in Ends(f) :
                     ~ Answering(f, y) /\ v[f] = Push(w[f], a, y)
        BY <2>2
      <3>2. PICK q : q = w[f]
        OBVIOUS
      <3>3. q \in [Ends(f) -> Seq(RawKvMsg)] /\ v[f] = Push(q, a, y)
        BY <3>1, <3>2 DEF TypedNet
      <3>4. /\ j \in DOMAIN Push(q, a, y)[n]
                 <=> j \in DOMAIN q[n] \/ (n = a /\ j = Len(q[a]) + 1)
            /\ j \in DOMAIN q[n] => Push(q, a, y)[n][j] = q[n][j]
            /\ Push(q, a, y)[a][Len(q[a]) + 1] = y
        BY <3>3, PushPlaces
      <3> QED
        BY <3>1, <3>2, <3>3, <3>4 DEF Answer
    <2> QED
      BY <1>3, <2>1, <2>2 DEF Moves
  <1>4. Kept(w, v, f0, n0)
    <2> SUFFICES ASSUME NEW f \in Links, NEW n \in Ends(f), NEW j \in Nat,
                        Answer(w, f, n, j), ~ (f = f0 /\ n = n0 /\ j = 1)
                 PROVE  \E k \in Nat : /\ k = IF f = f0 /\ n = n0 THEN j - 1 ELSE j
                                       /\ Answer(v, f, n, k) /\ v[f][n][k] = w[f][n][j]
      BY DEF Kept
    <2>1. CASE f = f0
      BY <1>1, <2>1
    <2>2. CASE f # f0
      BY <1>2, <1>3, <2>2
    <2> QED
      BY <2>1, <2>2
  <1>5. Came(w, v, f0, n0, f1, n1, l)
    <2> SUFFICES ASSUME NEW f \in Links, NEW n \in Ends(f), NEW j \in Nat,
                        Answer(v, f, n, j), ~ (f = f1 /\ n = n1 /\ j = l)
                 PROVE  \E k \in Nat : /\ k = IF f = f0 /\ n = n0 THEN j + 1 ELSE j
                                       /\ ~ (f = f0 /\ n = n0 /\ k = 1)
                                       /\ Answer(w, f, n, k) /\ v[f][n][j] = w[f][n][k]
      BY DEF Came
    <2>1. CASE f = f0
      BY <1>1, <2>1
    <2>2. CASE f # f0
      BY <1>2, <1>3, <2>2
    <2> QED
      BY <2>1, <2>2
  <1>6. f1 \in Links => l \in Nat /\ Answer(v, f1, n1, l) /\ v[f1][n1][l] = x
    <2> SUFFICES ASSUME f1 \in Links
                 PROVE  l \in Nat /\ Answer(v, f1, n1, l) /\ v[f1][n1][l] = x
      OBVIOUS
    <2>1. 1 \in Nat /\ n1 \in Ends(f1)
      OBVIOUS
    <2> QED
      BY <1>2, <2>1
  <1>7. l \in Nat
    BY <1>6, <1>l
  <1> QED
    BY <1>4, <1>5, <1>6, <1>7

-----------------------------------------------------------------------------
(* What a step does to the packet a coroutine awaits. *)

\* A place of a typed net is a natural number, and holds a packet.
LEMMA PlaceType ==
    ASSUME NEW w, TypedNet(w), NEW f \in Links, NEW n \in Ends(f),
           NEW j \in DOMAIN w[f][n]
    PROVE  j \in Nat /\ w[f][n][j] \in RawKvMsg
  <1>1. w[f][n] \in Seq(RawKvMsg)
    BY DEF TypedNet
  <1> QED
    BY <1>1

\* A coroutine that awaits a packet finds that packet wherever an answering packet
\* names it.
LEMMA SoleFits ==
    ASSUME NEW w, NEW x, NEW c, Sole(w, x, c),
           NEW f \in Links, NEW n \in Ends(f), NEW j \in DOMAIN w[f][n],
           Answer(w, f, n, j), w[f][n][j].cli = c
    PROVE  /\ x.pc # "free" /\ Fits(x, f, w[f][n][j])
           /\ \A g \in Links : \A o \in Ends(g) : \A k \in DOMAIN w[g][o] :
                  Answer(w, g, o, k) /\ w[g][o][k].cli = c => g = f /\ o = n /\ k = j
  BY DEF Sole

\* A coroutine that neither sends nor is resumed.
LEMMA SoleFrame ==
    ASSUME NEW w, NEW v, TypedNet(w), TypedNet(v),
           NEW f0, NEW n0, NEW f1, NEW n1, NEW l, NEW x, NEW c,
           Kept(w, v, f0, n0), Came(w, v, f0, n0, f1, n1, l), Sole(w, x, c),
           f0 \in Links /\ Answering(f0, w[f0][n0][1]) => w[f0][n0][1].cli # c,
           f1 \in Links => v[f1][n1][l].cli # c
    PROVE  Sole(v, x, c)
  <1>1. ASSUME NEW g \in Links, NEW o \in Ends(g), NEW k \in DOMAIN v[g][o],
               Answer(v, g, o, k), v[g][o][k].cli = c
        PROVE  \E i \in Nat : /\ i = IF g = f0 /\ o = n0 THEN k + 1 ELSE k
                              /\ i \in DOMAIN w[g][o] /\ k \in Nat
                              /\ Answer(w, g, o, i) /\ w[g][o][i].cli = c
    <2>1. k \in Nat
      BY PlaceType
    <2> QED
      BY <1>1, <2>1 DEF Came, Answer
  <1>2. CASE x.pc = "free"
    BY <1>1, <1>2 DEF Sole
  <1>3. CASE x.pc # "free"
    <2> DEFINE Here(f, n, j) ==
             /\ Answer(w, f, n, j) /\ w[f][n][j].cli = c
             /\ Fits(x, f, w[f][n][j])
             /\ \A g \in Links : \A o \in Ends(g) : \A k \in DOMAIN w[g][o] :
                    Answer(w, g, o, k) /\ w[g][o][k].cli = c
                    => g = f /\ o = n /\ k = j
    <2>a. PICK f \in Links : \E n \in Ends(f) : \E j \in DOMAIN w[f][n] : Here(f, n, j)
      BY <1>3 DEF Sole
    <2>b. PICK n \in Ends(f) : \E j \in DOMAIN w[f][n] : Here(f, n, j)
      BY <2>a
    <2>1. PICK j \in DOMAIN w[f][n] : Here(f, n, j)
      BY <2>b
    <2>2. j \in Nat
      BY PlaceType
    <2>3. ~ (f = f0 /\ n = n0 /\ j = 1)
      BY <2>1 DEF Answer
    <2>4. PICK i \in Nat : /\ i = IF f = f0 /\ n = n0 THEN j - 1 ELSE j
                           /\ Answer(v, f, n, i) /\ v[f][n][i] = w[f][n][j]
      BY <2>1, <2>2, <2>3 DEF Kept
    <2>5. ASSUME NEW g \in Links, NEW o \in Ends(g), NEW k \in DOMAIN v[g][o],
                 Answer(v, g, o, k), v[g][o][k].cli = c
          PROVE  g = f /\ o = n /\ k = i
      <3>1. PICK b \in Nat : /\ b = IF g = f0 /\ o = n0 THEN k + 1 ELSE k
                             /\ b \in DOMAIN w[g][o] /\ k \in Nat
                             /\ Answer(w, g, o, b) /\ w[g][o][b].cli = c
        BY <1>1, <2>5
      <3>2. g = f /\ o = n /\ b = j
        BY <2>1, <3>1
      <3> QED
        BY <2>2, <2>4, <3>1, <3>2
    <2>6. i \in DOMAIN v[f][n]
      BY <2>4 DEF Answer
    <2> QED
      BY <1>3, <2>1, <2>4, <2>5, <2>6 DEF Sole
  <1> QED
    BY <1>2, <1>3

\* The awaited packet moves on: taken from w[f0][n0], added to w[f1][n1].
LEMMA SoleMoved ==
    ASSUME NEW w, NEW v, TypedNet(w), TypedNet(v),
           NEW f0 \in Links, NEW n0 \in Ends(f0), 1 \in DOMAIN w[f0][n0],
           NEW f1 \in Links, NEW n1 \in Ends(f1), NEW l, NEW x, NEW y, NEW c,
           Came(w, v, f0, n0, f1, n1, l), Sole(w, x, c),
           Answer(w, f0, n0, 1), w[f0][n0][1].cli = c,
           Answer(v, f1, n1, l), v[f1][n1][l].cli = c,
           Fits(y, f1, v[f1][n1][l])
    PROVE  Sole(v, y, c)
  <1>1. ASSUME NEW g \in Links, NEW o \in Ends(g), NEW k \in DOMAIN v[g][o],
               Answer(v, g, o, k), v[g][o][k].cli = c
        PROVE  g = f1 /\ o = n1 /\ k = l
    <2>1. k \in Nat
      BY PlaceType
    <2>2. ASSUME NEW i \in Nat, ~ (g = f0 /\ o = n0 /\ i = 1),
                 Answer(w, g, o, i), v[g][o][k] = w[g][o][i]
          PROVE  FALSE
      <3>1. i \in DOMAIN w[g][o] /\ w[g][o][i].cli = c
        BY <1>1, <2>2 DEF Answer
      <3>2. g = f0 /\ o = n0 /\ i = 1
        BY <2>2, <3>1, SoleFits
      <3> QED
        BY <2>2, <3>2
    <2> QED
      BY <1>1, <2>1, <2>2 DEF Came
  <1>2. y.pc # "free"
    BY DEF Fits, Stage
  <1>3. l \in DOMAIN v[f1][n1]
    BY DEF Answer
  <1> QED
    BY <1>1, <1>2, <1>3 DEF Sole

\* The awaited packet has arrived and the request is over.
LEMMA SoleDone ==
    ASSUME NEW w, NEW v, TypedNet(w), TypedNet(v),
           NEW f0 \in Links, NEW n0 \in Ends(f0), 1 \in DOMAIN w[f0][n0],
           NEW n1, NEW l, NEW x, NEW y, NEW c,
           Came(w, v, f0, n0, "none", n1, l), Sole(w, x, c),
           Answer(w, f0, n0, 1), w[f0][n0][1].cli = c, y.pc = "free"
    PROVE  Sole(v, y, c)
  <1>1. ASSUME NEW g \in Links, NEW o \in Ends(g), NEW k \in DOMAIN v[g][o],
               Answer(v, g, o, k), v[g][o][k].cli = c
        PROVE  FALSE
    <2>1. k \in Nat /\ g # "none"
      BY PlaceType DEF Links
    <2>2. PICK i \in Nat : /\ ~ (g = f0 /\ o = n0 /\ i = 1)
                           /\ Answer(w, g, o, i) /\ v[g][o][k] = w[g][o][i]
      BY <1>1, <2>1 DEF Came
    <2>3. i \in DOMAIN w[g][o] /\ w[g][o][i].cli = c
      BY <1>1, <2>2 DEF Answer
    <2>4. g = f0 /\ o = n0 /\ i = 1
      BY <2>2, <2>3, SoleFits
    <2> QED
      BY <2>2, <2>4
  <1> QED
    BY <1>1 DEF Sole

\* A free coroutine sends the first packet of a request.
LEMMA SoleNew ==
    ASSUME NEW w, NEW v, TypedNet(w), TypedNet(v), NEW n0,
           NEW f1 \in Links, NEW n1 \in Ends(f1), NEW l, NEW x, NEW y, NEW c,
           Came(w, v, "none", n0, f1, n1, l), Sole(w, x, c), x.pc = "free",
           Answer(v, f1, n1, l), v[f1][n1][l].cli = c,
           Fits(y, f1, v[f1][n1][l])
    PROVE  Sole(v, y, c)
  <1>1. ASSUME NEW g \in Links, NEW o \in Ends(g), NEW k \in DOMAIN v[g][o],
               Answer(v, g, o, k), v[g][o][k].cli = c
        PROVE  g = f1 /\ o = n1 /\ k = l
    <2>1. k \in Nat
      BY PlaceType
    <2>2. ASSUME NEW i \in Nat, Answer(w, g, o, i), v[g][o][k] = w[g][o][i]
          PROVE  FALSE
      <3>1. i \in DOMAIN w[g][o] /\ w[g][o][i].cli = c
        BY <1>1, <2>2 DEF Answer
      <3> QED
        BY <2>2, <3>1, SoleFits
    <2> QED
      BY <1>1, <2>1, <2>2 DEF Came
  <1>2. y.pc # "free"
    BY DEF Fits, Stage
  <1>3. l \in DOMAIN v[f1][n1]
    BY DEF Answer
  <1> QED
    BY <1>1, <1>2, <1>3 DEF Sole

-----------------------------------------------------------------------------
(* The four kinds of step, for all coroutines at once. *)

\* The net is made of the six families of queues.
LEMMA NetIs ==
    /\ Net["c2s"] = c2s /\ Net["s2d"] = s2d /\ Net["d2s"] = d2s
    /\ Net["s2c"] = s2c /\ Net["s2i"] = s2i /\ Net["i2s"] = i2s
    /\ Net'["c2s"] = c2s' /\ Net'["s2d"] = s2d' /\ Net'["d2s"] = d2s'
    /\ Net'["s2c"] = s2c' /\ Net'["s2i"] = s2i' /\ Net'["i2s"] = i2s'
  BY DEF Net, Links

\* Which nodes a link has.
LEMMA EndsAre ==
    /\ Ends("c2s") = CThreads /\ Ends("s2c") = CThreads
    /\ Ends("s2d") = DataThreads /\ Ends("d2s") = DataThreads
    /\ Ends("s2i") = IndexThreads /\ Ends("i2s") = IndexThreads
  BY DEF Ends

\* TypeOK types the net.
LEMMA NetType ==
    /\ TypeOK => TypedNet(Net)
    /\ TypeOK' => TypedNet(Net')
  <1>1. ASSUME TypeOK PROVE TypedNet(Net)
    BY <1>1, NetIs, EndsAre DEF TypeOK, TypedNet, Links
  <1>2. ASSUME TypeOK' PROVE TypedNet(Net')
    BY <1>2, NetIs, EndsAre DEF TypeOK, TypedNet, Links
  <1> QED
    BY <1>1, <1>2

\* The head of a queue is at place 1.
LEMMA HeadPlace ==
    ASSUME NEW w, TypedNet(w), NEW f \in Links, NEW n \in Ends(f), w[f][n] # <<>>
    PROVE  /\ Head(w[f][n]) = w[f][n][1] /\ 1 \in DOMAIN w[f][n]
           /\ Head(w[f][n]) \in RawKvMsg
  <1>1. w[f][n] \in Seq(RawKvMsg)
    BY DEF TypedNet
  <1> QED
    BY <1>1

\* An awaited packet is taken from one queue and goes on into another.
LEMMA StepMoved ==
    ASSUME TypeOK, TypeOK', SoleAnswer,
           NEW f0 \in Links, NEW n0 \in Ends(f0), Net[f0][n0] # <<>>,
           NEW f1 \in Links, NEW n1 \in Ends(f1), f0 # f1, NEW x \in RawKvMsg,
           NEW c \in Coros, Head(Net[f0][n0]).cli = c, x.cli = c,
           Answering(f0, Head(Net[f0][n0])), Answering(f1, x),
           Moves(Net, Net', f0, n0, f1, n1, x),
           \A d \in Coros : d # c => ctx'[d] = ctx[d],
           Fits(ctx'[c], f1, x)
    PROVE  SoleAnswer'
  <1>1. PICK w, v : w = Net /\ v = Net'
    OBVIOUS
  <1>2. TypedNet(w) /\ TypedNet(v) /\ Moves(w, v, f0, n0, f1, n1, x) /\ w[f0][n0] # <<>>
    BY <1>1, NetType
  <1>3. /\ Kept(w, v, f0, n0)
        /\ \E l \in Nat : /\ Came(w, v, f0, n0, f1, n1, l)
                          /\ f1 \in Links => Answer(v, f1, n1, l) /\ v[f1][n1][l] = x
    BY <1>2, Transport, SMTT(30)
  <1>4. PICK l \in Nat : /\ Kept(w, v, f0, n0) /\ Came(w, v, f0, n0, f1, n1, l)
                         /\ Answer(v, f1, n1, l) /\ v[f1][n1][l] = x
    BY <1>3
  <1>5. /\ Head(w[f0][n0]) = w[f0][n0][1] /\ 1 \in DOMAIN w[f0][n0]
        /\ w[f0][n0][1].cli = c /\ Answer(w, f0, n0, 1)
    BY <1>1, <1>2, HeadPlace DEF Answer
  <1>6. \A d \in Coros : Sole(w, ctx[d], d)
    BY <1>1 DEF SoleAnswer
  <1>7. Sole(v, ctx'[c], c)
    BY <1>2, <1>4, <1>5, <1>6, SoleMoved
  <1>8. ASSUME NEW d \in Coros, d # c PROVE Sole(v, ctx[d], d)
    BY <1>2, <1>4, <1>5, <1>6, <1>8, SoleFrame
  <1>9. ASSUME NEW d \in Coros PROVE Sole(v, ctx'[d], d)
    BY <1>7, <1>8
  <1> QED
    BY <1>1, <1>9 DEF SoleAnswer

\* An awaited packet is taken and its coroutine is free.
LEMMA StepDone ==
    ASSUME TypeOK, TypeOK', SoleAnswer,
           NEW f0 \in Links, NEW n0 \in Ends(f0), Net[f0][n0] # <<>>, NEW x,
           NEW c \in Coros, Head(Net[f0][n0]).cli = c,
           Answering(f0, Head(Net[f0][n0])),
           Moves(Net, Net', f0, n0, "none", n0, x),
           \A d \in Coros : d # c => ctx'[d] = ctx[d],
           ctx'[c].pc = "free"
    PROVE  SoleAnswer'
  <1>0. "none" \notin Links
    BY DEF Links
  <1>1. PICK w, v : w = Net /\ v = Net'
    OBVIOUS
  <1>2. TypedNet(w) /\ TypedNet(v) /\ Moves(w, v, f0, n0, "none", n0, x) /\ w[f0][n0] # <<>>
    BY <1>1, NetType
  <1>4. PICK l \in Nat : Kept(w, v, f0, n0) /\ Came(w, v, f0, n0, "none", n0, l)
    BY <1>0, <1>2, Transport
  <1>5. /\ Head(w[f0][n0]) = w[f0][n0][1] /\ 1 \in DOMAIN w[f0][n0]
        /\ w[f0][n0][1].cli = c /\ Answer(w, f0, n0, 1)
    BY <1>1, <1>2, HeadPlace DEF Answer
  <1>6. \A d \in Coros : Sole(w, ctx[d], d)
    BY <1>1 DEF SoleAnswer
  <1>7. Sole(v, ctx'[c], c)
    BY <1>2, <1>4, <1>5, <1>6, SoleDone
  <1>8. ASSUME NEW d \in Coros, d # c PROVE Sole(v, ctx[d], d)
    BY <1>0, <1>2, <1>4, <1>5, <1>6, <1>8, SoleFrame
  <1>9. ASSUME NEW d \in Coros PROVE Sole(v, ctx'[d], d)
    BY <1>7, <1>8
  <1> QED
    BY <1>1, <1>9 DEF SoleAnswer

\* A packet that answers nobody is taken.
LEMMA StepInner ==
    ASSUME TypeOK, TypeOK', SoleAnswer,
           NEW f0 \in Links, NEW n0 \in Ends(f0), Net[f0][n0] # <<>>, NEW x,
           ~ Answering(f0, Head(Net[f0][n0])),
           Moves(Net, Net', f0, n0, "none", n0, x),
           ctx' = ctx
    PROVE  SoleAnswer'
  <1>0. "none" \notin Links
    BY DEF Links
  <1>1. PICK w, v : w = Net /\ v = Net'
    OBVIOUS
  <1>2. TypedNet(w) /\ TypedNet(v) /\ Moves(w, v, f0, n0, "none", n0, x) /\ w[f0][n0] # <<>>
    BY <1>1, NetType
  <1>4. PICK l \in Nat : Kept(w, v, f0, n0) /\ Came(w, v, f0, n0, "none", n0, l)
    BY <1>0, <1>2, Transport
  <1>5. ~ Answering(f0, w[f0][n0][1])
    BY <1>1, <1>2, HeadPlace
  <1>6. \A d \in Coros : Sole(w, ctx[d], d)
    BY <1>1 DEF SoleAnswer
  <1>8. ASSUME NEW d \in Coros PROVE Sole(v, ctx[d], d)
    BY <1>0, <1>2, <1>4, <1>5, <1>6, SoleFrame
  <1> QED
    BY <1>1, <1>8 DEF SoleAnswer

\* A free coroutine sends a packet.
LEMMA StepNew ==
    ASSUME TypeOK, TypeOK', SoleAnswer, NEW n0,
           NEW f1 \in Links, NEW n1 \in Ends(f1), NEW x \in RawKvMsg,
           NEW c \in Coros, x.cli = c, Answering(f1, x),
           Moves(Net, Net', "none", n0, f1, n1, x),
           \A d \in Coros : d # c => ctx'[d] = ctx[d],
           ctx[c].pc = "free", Fits(ctx'[c], f1, x)
    PROVE  SoleAnswer'
  <1>0. "none" \notin Links
    BY DEF Links
  <1>1. PICK w, v : w = Net /\ v = Net'
    OBVIOUS
  <1>2. TypedNet(w) /\ TypedNet(v) /\ Moves(w, v, "none", n0, f1, n1, x)
    BY <1>1, NetType
  <1>3. /\ Kept(w, v, "none", n0)
        /\ \E l \in Nat : /\ Came(w, v, "none", n0, f1, n1, l)
                          /\ f1 \in Links => Answer(v, f1, n1, l) /\ v[f1][n1][l] = x
    BY <1>0, <1>2, Transport
  <1>4. PICK l \in Nat : /\ Kept(w, v, "none", n0) /\ Came(w, v, "none", n0, f1, n1, l)
                         /\ Answer(v, f1, n1, l) /\ v[f1][n1][l] = x
    BY <1>3
  <1>6. \A d \in Coros : Sole(w, ctx[d], d)
    BY <1>1 DEF SoleAnswer
  <1>7. Sole(v, ctx'[c], c)
    BY <1>2, <1>4, <1>6, SoleNew
  <1>8. ASSUME NEW d \in Coros, d # c PROVE Sole(v, ctx[d], d)
    BY <1>0, <1>2, <1>4, <1>6, <1>8, SoleFrame
  <1>9. ASSUME NEW d \in Coros PROVE Sole(v, ctx'[d], d)
    BY <1>7, <1>8
  <1> QED
    BY <1>1, <1>9 DEF SoleAnswer

\* What SoleAnswer says of an answering packet at the head of a queue.
LEMMA HeadFits ==
    ASSUME TypeOK, SoleAnswer, NEW f \in Links, NEW n \in Ends(f), Net[f][n] # <<>>,
           Answering(f, Head(Net[f][n]))
    PROVE  /\ Head(Net[f][n]) \in RawKvMsg /\ Head(Net[f][n]).cli \in Coros
           /\ Fits(ctx[Head(Net[f][n]).cli], f, Head(Net[f][n]))
  <1>1. TypedNet(Net)
    BY NetType
  <1>2. /\ Head(Net[f][n]) = Net[f][n][1] /\ 1 \in DOMAIN Net[f][n]
        /\ Head(Net[f][n]) \in RawKvMsg
    BY <1>1, HeadPlace
  <1>3. Head(Net[f][n]).cli \in Coros
    BY <1>2 DEF RawKvMsg
  <1>4. Sole(Net, ctx[Head(Net[f][n]).cli], Head(Net[f][n]).cli)
    BY <1>3 DEF SoleAnswer
  <1>5. Answer(Net, f, n, 1)
    BY <1>2 DEF Answer
  <1>6. Fits(ctx[Head(Net[f][n]).cli], f, Net[f][n][1])
    BY <1>2, <1>4, <1>5, SoleFits
  <1> QED
    BY <1>2, <1>3, <1>6

-----------------------------------------------------------------------------
(* The actions. *)

\* The quotient undoes compute_log_id: a read goes to the data thread that owns
\* the log entry.
LEMMA LogThread ==
    ASSUME NEW g \in LogIds
    PROVE  logid_2_threadid(g) \in DataThreads
  <1>1. PICK l \in 0 .. logspace - 1, d \in DataThreads : g = d * keyspace + l
    BY DEF LogIds, compute_log_id
  <1>2. /\ keyspace \in Nat \ {0} /\ l \in 0 .. keyspace - 1 /\ d \in Nat
    BY LogAssumption, ThreadAssumption DEF DataThreads
  <1>3. (d * keyspace + l) \div keyspace = d
    BY <1>2
  <1> QED
    BY <1>1, <1>3 DEF logid_2_threadid

\* What each call of kv_test sends fits the call.
LEMMA CallFits ==
    ASSUME NEW c \in Coros, NEW x \in KvCtx
    PROVE  /\ x.pc = "put_value" => Fits(x, "c2s", put_value(c, x))
           /\ x.pc = "put_index" => Fits(x, "c2s", put_index(c, x))
           /\ x.pc = "get_index" => Fits(x, "c2s", get_index(c, x))
           /\ x.pc = "get_value" /\ x.log # NoLog => Fits(x, "c2s", get_value(c, x))
  <1>1. /\ x.key \in Keys /\ x.log \in LogIds \cup {NoLog}
    BY DEF KvCtx
  <1>2. /\ get_data_thread_id_by_key(x.key) \in DataThreads
        /\ get_index_thread_id(get_switch_key(x.key)) \in IndexThreads
    BY <1>1, KeyRanges
  <1>3. x.log # NoLog => logid_2_threadid(x.log) \in DataThreads
    BY <1>1, LogThread
  <1>4. x.pc = "put_value" => Fits(x, "c2s", put_value(c, x))
    BY <1>2 DEF Fits, Stage, Routed, put_value, AppendReq, ReadLog
  <1>5. x.pc = "put_index" => Fits(x, "c2s", put_index(c, x))
    BY <1>2 DEF Fits, Stage, Routed, put_index, AppendReq, ReadLog, UpdateIndexReq
  <1>6. x.pc = "get_index" => Fits(x, "c2s", get_index(c, x))
    BY <1>2 DEF Fits, Stage, Routed, get_index, AppendReq, ReadLog, ReadIndexReq
  <1>7. x.pc = "get_value" /\ x.log # NoLog => Fits(x, "c2s", get_value(c, x))
    BY <1>3 DEF Fits, Stage, Routed, get_value, AppendReq, ReadLog
  <1> QED
    BY <1>4, <1>5, <1>6, <1>7

\* A coroutine belongs to a client thread.
LEMMA CoroThread == \A c \in Coros : c[1] \in CThreads
  BY DEF Coros

\* A request of a client.
LEMMA ReplyRequest ==
    ASSUME TypeOK, TypeOK', SoleAnswer, NEW c \in Coros, NEW k \in Keys,
           kEnumW(c, k) \/ kEnumR(c, k)
    PROVE  SoleAnswer'
  <1>1. PICK call \in {"put_value", "get_index"} :
            /\ NewRequest(c, k, call)
            /\ c2s' = Push(c2s, c[1], IF call = "put_value" THEN put_value(c, ctx'[c])
                                      ELSE get_index(c, ctx'[c]))
            /\ UNCHANGED <<s2c, d2s, s2d, i2s, s2i>>
    BY DEF kEnumW, kEnumR
  <1>2. PICK x : x = IF call = "put_value" THEN put_value(c, ctx'[c])
                     ELSE get_index(c, ctx'[c])
    OBVIOUS
  <1>3. /\ ctx'[c] \in KvCtx /\ ctx'[c].pc = call /\ ctx[c].pc = "free"
        /\ \A d \in Coros : d # c => ctx'[d] = ctx[d]
    BY <1>1 DEF TypeOK, NewRequest
  <1>4. x \in RawKvMsg
    BY <1>2, <1>3, CallType
  <1>5. Fits(ctx'[c], "c2s", x)
    BY <1>2, <1>3, CallFits
  <1>6. x.cli = c
    BY <1>2 DEF put_value, get_index
  <1>7. c[1] \in Ends("c2s") /\ "c2s" \in Links /\ Answering("c2s", x)
    BY CoroThread, EndsAre DEF Links, Answering
  <1>8. Moves(Net, Net', "none", c[1], "c2s", c[1], x)
    BY <1>1, <1>2, NetIs DEF Moves, Links
  <1> QED
    BY <1>3, <1>4, <1>5, <1>6, <1>7, <1>8, StepNew

\* A data thread serves a packet.
LEMMA ReplyDataServer ==
    ASSUME TypeOK, TypeOK', SoleAnswer, NEW d \in DataThreads, DataServer(d)
    PROVE  SoleAnswer'
  <1>1. /\ "s2d" \in Links /\ "d2s" \in Links /\ d \in Ends("s2d") /\ d \in Ends("d2s")
        /\ Net["s2d"][d] = s2d[d] /\ s2d[d] # <<>>
    BY EndsAre, NetIs DEF Links, DataServer
  <1>m. PICK m : m = Head(s2d[d])
    OBVIOUS
  <1>2. Answering("s2d", m)
    BY DEF Answering
  <1>3. m \in RawKvMsg /\ m.cli \in Coros /\ Fits(ctx[m.cli], "s2d", m)
    BY <1>1, <1>2, <1>m, HeadFits
  <1>4. ASSUME NEW x \in RawKvMsg, d2s' = Push(d2s, d, x), x.cli = m.cli, x.key = m.key,
               \/ m.op = AppendReq /\ x.op = AppendReply
               \/ m.op = ReadLog /\ x.op = ReadReply
        PROVE  SoleAnswer'
    <2>1. Moves(Net, Net', "s2d", d, "d2s", d, x)
      BY <1>4, NetIs DEF Moves, Links, DataServer
    <2>2. ctx' = ctx /\ Answering("d2s", x)
      BY DEF DataServer, Answering
    <2>3. Fits(ctx'[m.cli], "d2s", x)
      BY <1>3, <1>4, <2>2 DEF Fits, Stage, AppendReq, ReadLog, AppendReply, ReadReply
    <2> QED
      BY <1>1, <1>2, <1>3, <1>4, <1>m, <2>1, <2>2, <2>3, StepMoved
  <1>5. CASE DataAppend(d, m)
    <2>1. PICK x : x = [m EXCEPT !.op = AppendReply, !.log = compute_log_id(pos[d], d),
                                 !.ts = get_next_ts(tss[get_switch_key(m.key)]),
                                 !.entry = Blank]
      OBVIOUS
    <2>2. /\ compute_log_id(pos[d], d) \in LogIds /\ m.key \in Keys
          /\ get_next_ts(tss[get_switch_key(m.key)]) \in 0 .. TsSpace - 1
      <3>1. m.key \in Keys
        BY <1>3 DEF RawKvMsg
      <3>2. get_switch_key(m.key) \in SwitchKeys
        BY <3>1, KeyRanges
      <3>3. pos[d] \in 0 .. logspace - 1 /\ tss[get_switch_key(m.key)] \in 0 .. TsSpace - 1
        BY <3>2 DEF TypeOK
      <3>4. compute_log_id(pos[d], d) \in LogIds
        BY <3>3, LogRanges
      <3>5. get_next_ts(tss[get_switch_key(m.key)]) \in 0 .. TsSpace - 1
        BY <3>3, CounterRanges
      <3> QED
        BY <3>1, <3>4, <3>5
    <2>3. Blank \in Entries
      BY DEF Blank, Entries
    <2>4. x \in RawKvMsg /\ x.cli = m.cli /\ x.key = m.key /\ x.op = AppendReply
      BY <1>3, <2>1, <2>2, <2>3 DEF RawKvMsg, RpcType
    <2>5. m.op = AppendReq /\ d2s' = Push(d2s, d, x)
      BY <1>5, <2>1 DEF DataAppend
    <2> QED
      BY <1>4, <2>4, <2>5
  <1>6. CASE DataReadLog(d, m)
    <2>1. PICK x : x = [m EXCEPT !.op = ReadReply,
                                 !.entry = kv[d][logid_2_locallogid(m.log)]]
      OBVIOUS
    <2>2. kv[d][logid_2_locallogid(m.log)] \in Entries
      <3>1. m.log \in LogIds \cup {NoLog}
        BY <1>3 DEF RawKvMsg
      <3>2. logid_2_locallogid(m.log) \in 0 .. logspace - 1
        BY <3>1, LogRanges
      <3>3. kv[d] \in [0 .. logspace - 1 -> Entries]
        BY DEF TypeOK
      <3> QED
        BY <3>2, <3>3
    <2>3. x \in RawKvMsg /\ x.cli = m.cli /\ x.key = m.key /\ x.op = ReadReply
      BY <1>3, <2>1, <2>2 DEF RawKvMsg, RpcType
    <2>4. m.op = ReadLog /\ d2s' = Push(d2s, d, x)
      BY <1>6, <2>1 DEF DataReadLog
    <2> QED
      BY <1>4, <2>3, <2>4
  <1> QED
    BY <1>m, <1>5, <1>6 DEF DataServer

\* An index thread serves a packet.
LEMMA ReplyIndexServer ==
    ASSUME TypeOK, TypeOK', SoleAnswer, NEW i \in IndexThreads, IndexServer(i)
    PROVE  SoleAnswer'
  <1>1. /\ "s2i" \in Links /\ "i2s" \in Links /\ i \in Ends("s2i") /\ i \in Ends("i2s")
        /\ Net["s2i"][i] = s2i[i] /\ s2i[i] # <<>>
    BY EndsAre, NetIs DEF Links, IndexServer
  <1>m. PICK m \in RawKvMsg : m = Head(s2i[i])
    BY <1>1, HeadPlace, NetType
  <1>x. PICK x \in RawKvMsg :
            /\ i2s' = Push(i2s, i, x) /\ x.cli = m.cli /\ x.key = m.key
            /\ \/ m.op = MultiCastPkt /\ x.op = ReplySwitch
               \/ m.op = UpdateIndexReq /\ x.op = UpdateIndexReply
               \/ m.op = ReadIndexReq /\ x.op = ReadIndexReply
    <2>1. CASE IndexPut(i, m)
      <3>1. PICK x : x = [m EXCEPT !.op = IF m.op = MultiCastPkt THEN ReplySwitch
                                          ELSE UpdateIndexReply]
        OBVIOUS
      <3>2. /\ x \in RawKvMsg /\ x.cli = m.cli /\ x.key = m.key
            /\ x.op = IF m.op = MultiCastPkt THEN ReplySwitch ELSE UpdateIndexReply
        BY <3>1 DEF RawKvMsg, RpcType
      <3>3. i2s' = Push(i2s, i, x) /\ m.op \in {MultiCastPkt, UpdateIndexReq}
        BY <2>1, <3>1 DEF IndexPut
      <3> QED
        BY <3>2, <3>3
    <2>2. CASE IndexGet(i, m)
      <3>1. PICK x : x = [m EXCEPT !.op = ReadIndexReply, !.log = index[m.key]]
        OBVIOUS
      <3>2. x \in RawKvMsg /\ x.cli = m.cli /\ x.key = m.key /\ x.op = ReadIndexReply
        BY <3>1 DEF RawKvMsg, RpcType, TypeOK
      <3>3. i2s' = Push(i2s, i, x) /\ m.op = ReadIndexReq
        BY <2>2, <3>1 DEF IndexGet
      <3> QED
        BY <3>2, <3>3
    <2> QED
      BY <1>m, <2>1, <2>2 DEF IndexServer
  <1>2. CASE m.op = MultiCastPkt
    <2>1. ~ Answering("s2i", m) /\ ~ Answering("i2s", x)
      BY <1>2, <1>x DEF Answering, MultiCastPkt, UpdateIndexReq, ReadIndexReq
    <2>2. Moves(Net, Net', "s2i", i, "none", i, x)
      BY <1>1, <1>x, <2>1, NetIs DEF Moves, Links, IndexServer
    <2>3. ctx' = ctx
      BY DEF IndexServer
    <2> QED
      BY <1>1, <1>m, <2>1, <2>2, <2>3, StepInner
  <1>3. CASE m.op # MultiCastPkt
    <2>1. Answering("s2i", m) /\ Answering("i2s", x)
      BY <1>3, <1>x DEF Answering, ReplySwitch, UpdateIndexReply, ReadIndexReply
    <2>2. m.cli \in Coros /\ Fits(ctx[m.cli], "s2i", m)
      BY <1>1, <1>m, <2>1, HeadFits
    <2>3. Moves(Net, Net', "s2i", i, "i2s", i, x)
      BY <1>x, NetIs DEF Moves, Links, IndexServer
    <2>4. ctx' = ctx
      BY DEF IndexServer
    <2>5. Fits(ctx'[m.cli], "i2s", x)
      BY <1>3, <1>x, <2>2, <2>4 DEF Fits, Stage, UpdateIndexReq, ReadIndexReq,
                                    UpdateIndexReply, ReadIndexReply
    <2> QED
      BY <1>1, <1>m, <1>x, <2>1, <2>2, <2>3, <2>4, <2>5, StepMoved
  <1> QED
    BY <1>2, <1>3

\* The switch forwards or answers a packet of a client.
LEMMA ReplySwitchClient ==
    ASSUME TypeOK, TypeOK', SoleAnswer, NEW t \in CThreads, SwitchClient(t)
    PROVE  SoleAnswer'
  <1>1. /\ "c2s" \in Links /\ "s2d" \in Links /\ "s2i" \in Links /\ "s2c" \in Links
        /\ t \in Ends("c2s") /\ Net["c2s"][t] = c2s[t] /\ c2s[t] # <<>> /\ ctx' = ctx
    BY EndsAre, NetIs DEF Links, SwitchClient
  <1>m. PICK m : m = Head(c2s[t])
    OBVIOUS
  <1>2. Answering("c2s", m)
    BY DEF Answering
  <1>3. m \in RawKvMsg /\ m.cli \in Coros /\ Fits(ctx[m.cli], "c2s", m)
    BY <1>1, <1>2, <1>m, HeadFits
  <1>4. CASE /\ m.op \in {AppendReq, ReadLog}
             /\ s2d' = Push(s2d, m.port, m) /\ UNCHANGED <<s2c, s2i>>
    <2>1. m.port \in Ends("s2d")
      BY <1>3, <1>4, EndsAre DEF Fits, Routed
    <2>2. Moves(Net, Net', "c2s", t, "s2d", m.port, m)
      BY <1>4, <1>m, NetIs DEF Moves, Links, SwitchClient
    <2>3. Answering("s2d", m) /\ Fits(ctx'[m.cli], "s2d", m)
      BY <1>1, <1>3, <1>4 DEF Answering, Fits, Stage, AppendReq, ReadLog, UpdateIndexReq,
                              ReadIndexReq
    <2> QED
      BY <1>1, <1>2, <1>3, <1>m, <2>1, <2>2, <2>3, StepMoved
  <1>5. CASE /\ m.op \in {ReadIndexReq, UpdateIndexReq}
             /\ s2i' = Push(s2i, m.port, m) /\ UNCHANGED <<s2c, s2d>>
    <2>1. m.port \in Ends("s2i")
      BY <1>3, <1>5, EndsAre DEF Fits, Routed, AppendReq, ReadLog, ReadIndexReq,
                                 UpdateIndexReq
    <2>2. Moves(Net, Net', "c2s", t, "s2i", m.port, m)
      BY <1>5, <1>m, NetIs DEF Moves, Links, SwitchClient
    <2>3. Answering("s2i", m) /\ Fits(ctx'[m.cli], "s2i", m)
      BY <1>1, <1>3, <1>5 DEF Answering, Fits, Stage, AppendReq, ReadLog, UpdateIndexReq,
                              ReadIndexReq, MultiCastPkt
    <2> QED
      BY <1>1, <1>2, <1>3, <1>m, <2>1, <2>2, <2>3, StepMoved
  <1>6. CASE /\ m.op = ReadIndexReq
             /\ s2c' = Push(s2c, m.cli[1], [m EXCEPT !.log = LogId(regs, m)])
             /\ UNCHANGED <<s2d, s2i>>
    <2>1. PICK x : x = [m EXCEPT !.log = LogId(regs, m)]
      OBVIOUS
    <2>2. x \in RawKvMsg /\ x.cli = m.cli /\ x.key = m.key /\ x.op = m.op
      BY <1>3, <2>1, RegistersType DEF RawKvMsg, TypeOK
    <2>3. m.cli[1] \in Ends("s2c")
      BY <1>3, CoroThread, EndsAre
    <2>4. Moves(Net, Net', "c2s", t, "s2c", m.cli[1], x)
      BY <1>6, <1>m, <2>1, NetIs DEF Moves, Links, SwitchClient
    <2>5. Answering("s2c", x) /\ Fits(ctx'[m.cli], "s2c", x)
      BY <1>1, <1>3, <1>6, <2>2 DEF Answering, Fits, Stage, AppendReq, ReadLog,
                                    UpdateIndexReq, ReadIndexReq
    <2> QED
      BY <1>1, <1>2, <1>3, <1>m, <2>2, <2>3, <2>4, <2>5, StepMoved
  <1> QED
    BY <1>m, <1>4, <1>5, <1>6 DEF SwitchClient

\* The switch forwards a packet of a data thread, or multicasts it: the copy for
\* the client is the answer, the copy for the index thread is not.
LEMMA ReplySwitchData ==
    ASSUME TypeOK, TypeOK', SoleAnswer, NEW d \in DataThreads, SwitchData(d)
    PROVE  SoleAnswer'
  <1>1. /\ "d2s" \in Links /\ "s2i" \in Links /\ "s2c" \in Links
        /\ d \in Ends("d2s") /\ Net["d2s"][d] = d2s[d] /\ d2s[d] # <<>> /\ ctx' = ctx
    BY EndsAre, NetIs DEF Links, SwitchData
  <1>m. PICK m : m = Head(d2s[d])
    OBVIOUS
  <1>2. Answering("d2s", m)
    BY DEF Answering
  <1>3. m \in RawKvMsg /\ m.cli \in Coros /\ Fits(ctx[m.cli], "d2s", m)
    BY <1>1, <1>2, <1>m, HeadFits
  <1>4. m.cli[1] \in Ends("s2c") /\ m.ixp \in Ends("s2i")
    BY <1>3, CoroThread, EndsAre DEF RawKvMsg
  <1>5. CASE m.op \in {AppendReply, ReadReply} /\ s2c' = Push(s2c, m.cli[1], m) /\ s2i' = s2i
    <2>1. Moves(Net, Net', "d2s", d, "s2c", m.cli[1], m)
      BY <1>5, <1>m, NetIs DEF Moves, Links, SwitchData
    <2>2. Answering("s2c", m) /\ Fits(ctx'[m.cli], "s2c", m)
      BY <1>1, <1>3, <1>5 DEF Answering, Fits, Stage, AppendReply, ReadReply
    <2> QED
      BY <1>1, <1>2, <1>3, <1>4, <1>m, <2>1, <2>2, StepMoved
  <1>6. CASE /\ m.op = AppendReply
             /\ s2i' = Push(s2i, m.ixp, [m EXCEPT !.op = MultiCastPkt])
             /\ s2c' = Push(s2c, m.cli[1], [m EXCEPT !.op = MultiCastPkt])
    <2>1. PICK x : x = [m EXCEPT !.op = MultiCastPkt]
      OBVIOUS
    <2>2. x \in RawKvMsg /\ x.cli = m.cli /\ x.key = m.key /\ x.op = MultiCastPkt
      BY <1>3, <2>1 DEF RawKvMsg, RpcType
    <2>3. ~ Answering("s2i", x) /\ Answering("s2c", x)
      BY <2>2 DEF Answering
    <2>4. Moves(Net, Net', "d2s", d, "s2c", m.cli[1], x)
      BY <1>4, <1>6, <1>m, <2>1, <2>2, <2>3, NetIs DEF Moves, Links, SwitchData
    <2>5. Fits(ctx'[m.cli], "s2c", x)
      BY <1>1, <1>3, <1>6, <2>2 DEF Fits, Stage, AppendReply, ReadReply
    <2> QED
      BY <1>1, <1>2, <1>3, <1>4, <1>m, <2>2, <2>3, <2>4, <2>5, StepMoved
  <1> QED
    BY <1>m, <1>5, <1>6 DEF SwitchData

\* The switch forwards a packet of an index thread, or takes a ReplySwitch.
LEMMA ReplySwitchIndex ==
    ASSUME TypeOK, TypeOK', SoleAnswer, NEW i \in IndexThreads, SwitchIndex(i)
    PROVE  SoleAnswer'
  <1>1. /\ "i2s" \in Links /\ "s2c" \in Links
        /\ i \in Ends("i2s") /\ Net["i2s"][i] = i2s[i] /\ i2s[i] # <<>> /\ ctx' = ctx
    BY EndsAre, NetIs DEF Links, SwitchIndex
  <1>m. PICK m : m = Head(i2s[i])
    OBVIOUS
  <1>2. CASE m.op = ReplySwitch
    <2>1. ~ Answering("i2s", m)
      BY <1>2 DEF Answering
    <2>2. Moves(Net, Net', "i2s", i, "none", i, m)
      BY <1>2, <1>m, NetIs DEF Moves, Links, SwitchIndex, ReplySwitch, UpdateIndexReply,
                               ReadIndexReply
    <2> QED
      BY <1>1, <1>m, <2>1, <2>2, StepInner
  <1>3. CASE m.op # ReplySwitch
    <2>1. Answering("i2s", m)
      BY <1>3 DEF Answering
    <2>2. m \in RawKvMsg /\ m.cli \in Coros /\ Fits(ctx[m.cli], "i2s", m)
      BY <1>1, <1>m, <2>1, HeadFits
    <2>3. m.cli[1] \in Ends("s2c")
      BY <2>2, CoroThread, EndsAre
    <2>4. Moves(Net, Net', "i2s", i, "s2c", m.cli[1], m)
      BY <1>3, <1>m, NetIs DEF Moves, Links, SwitchIndex
    <2>5. Answering("s2c", m) /\ Fits(ctx'[m.cli], "s2c", m)
      BY <1>1, <2>2 DEF Answering, Fits, Stage
    <2> QED
      BY <1>1, <1>m, <2>1, <2>2, <2>3, <2>4, <2>5, StepMoved
  <1> QED
    BY <1>2, <1>3

\* A reply resumes its coroutine, which sends its next packet or becomes free.
LEMMA ReplyClient ==
    ASSUME TypeOK, TypeOK', SoleAnswer, NEW t \in CThreads, ClientReply(t)
    PROVE  SoleAnswer'
  <1>1. /\ "s2c" \in Links /\ "c2s" \in Links /\ t \in Ends("s2c") /\ t \in Ends("c2s")
        /\ Net["s2c"][t] = s2c[t] /\ s2c[t] # <<>>
    BY EndsAre, NetIs DEF Links, ClientReply
  <1>m. PICK m : m = Head(s2c[t])
    OBVIOUS
  <1>2. Answering("s2c", m)
    BY DEF Answering
  <1>3. m \in RawKvMsg /\ m.cli \in Coros
    BY <1>1, <1>2, <1>m, HeadFits
  <1>4. ctx'[m.cli] \in KvCtx
    BY <1>3 DEF TypeOK
  <1>r. /\ \A c \in Coros : c # m.cli => ctx'[c] = ctx[c]
        /\ s2c' = Pop(s2c, t) /\ UNCHANGED <<d2s, s2d, i2s, s2i>>
        /\ \/ ctx'[m.cli].pc = "free" /\ c2s' = c2s
           \/ ctx'[m.cli].pc = "put_index" /\ c2s' = Push(c2s, t, put_index(m.cli, ctx'[m.cli]))
           \/ /\ ctx'[m.cli].pc = "get_value" /\ ctx'[m.cli].log # NoLog
              /\ c2s' = Push(c2s, t, get_value(m.cli, ctx'[m.cli]))
    <2>0. ctx \in [Coros -> KvCtx] /\ ctx[m.cli] \in KvCtx
      BY <1>3 DEF TypeOK
    <2>1. CASE PutValueReturns(t, m)
      <3>1. CASE FLAGS_visibility /\ m.op = MultiCastPkt
        BY <1>3, <2>0, <2>1, <3>1 DEF PutValueReturns, Resume, KvCtx
      <3>2. CASE ~ (FLAGS_visibility /\ m.op = MultiCastPkt)
        BY <1>3, <2>0, <2>1, <3>2 DEF PutValueReturns, Resume, KvCtx
      <3> QED
        BY <3>1, <3>2
    <2>2. CASE PutIndexReturns(t, m)
      BY <1>3, <2>0, <2>2 DEF PutIndexReturns, Resume, KvCtx
    <2>3. CASE GetIndexReturns(t, m)
      <3>1. CASE m.log = NoLog
        BY <1>3, <2>0, <2>3, <3>1 DEF GetIndexReturns, Resume, KvCtx
      <3>2. CASE m.log # NoLog
        BY <1>3, <2>0, <2>3, <3>2 DEF GetIndexReturns, Resume, KvCtx
      <3> QED
        BY <3>1, <3>2
    <2>4. CASE GetValueReturns(t, m)
      BY <1>3, <2>0, <2>4 DEF GetValueReturns, Resume, KvCtx
    <2> QED
      BY <1>m, <2>1, <2>2, <2>3, <2>4 DEF ClientReply
  <1>5. CASE ctx'[m.cli].pc = "free" /\ c2s' = c2s
    <2>1. Moves(Net, Net', "s2c", t, "none", t, m)
      BY <1>5, <1>r, NetIs DEF Moves, Links
    <2> QED
      BY <1>1, <1>2, <1>3, <1>5, <1>m, <1>r, <2>1, StepDone
  <1>6. ASSUME NEW x \in RawKvMsg, x.cli = m.cli, c2s' = Push(c2s, t, x),
               Fits(ctx'[m.cli], "c2s", x)
        PROVE  SoleAnswer'
    <2>1. Moves(Net, Net', "s2c", t, "c2s", t, x)
      BY <1>6, <1>r, NetIs DEF Moves, Links
    <2>2. Answering("c2s", x)
      BY DEF Answering
    <2> QED
      BY <1>1, <1>2, <1>3, <1>6, <1>m, <1>r, <2>1, <2>2, StepMoved
  <1>7. CASE /\ ctx'[m.cli].pc = "put_index"
             /\ c2s' = Push(c2s, t, put_index(m.cli, ctx'[m.cli]))
    <2>1. /\ put_index(m.cli, ctx'[m.cli]) \in RawKvMsg
          /\ Fits(ctx'[m.cli], "c2s", put_index(m.cli, ctx'[m.cli]))
      BY <1>3, <1>4, <1>7, CallType, CallFits
    <2>2. put_index(m.cli, ctx'[m.cli]).cli = m.cli
      BY DEF put_index
    <2> QED
      BY <1>6, <1>7, <2>1, <2>2
  <1>8. CASE /\ ctx'[m.cli].pc = "get_value" /\ ctx'[m.cli].log # NoLog
             /\ c2s' = Push(c2s, t, get_value(m.cli, ctx'[m.cli]))
    <2>1. /\ get_value(m.cli, ctx'[m.cli]) \in RawKvMsg
          /\ Fits(ctx'[m.cli], "c2s", get_value(m.cli, ctx'[m.cli]))
      BY <1>3, <1>4, <1>8, CallType, CallFits
    <2>2. get_value(m.cli, ctx'[m.cli]).cli = m.cli
      BY DEF get_value
    <2> QED
      BY <1>6, <1>8, <2>1, <2>2
  <1> QED
    BY <1>r, <1>5, <1>7, <1>8

-----------------------------------------------------------------------------
\* At the start every coroutine is free and nothing is in flight.
LEMMA SoleInit == Init => SoleAnswer
  <1> SUFFICES ASSUME Init, NEW c \in Coros PROVE Sole(Net, ctx[c], c)
    BY DEF SoleAnswer
  <1>1. ctx[c].pc = "free"
    BY DEF Init
  <1>2. \A f \in Links : \A n \in Ends(f) : Net[f][n] = <<>>
    BY NetIs, EndsAre DEF Init, Links
  <1> QED
    BY <1>1, <1>2 DEF Sole

\* Every step keeps SoleAnswer.
LEMMA SoleNext ==
    ASSUME TypeOK, TypeOK', SoleAnswer, [Next]_vars
    PROVE  SoleAnswer'
  <1>1. CASE UNCHANGED vars
    <2>1. ctx' = ctx /\ Net' = Net
      BY <1>1 DEF vars, Net
    <2> QED
      BY <2>1 DEF SoleAnswer
  <1>2. CASE \E c \in Coros, k \in Keys : kEnumW(c, k) \/ kEnumR(c, k)
    BY <1>2, ReplyRequest
  <1>3. CASE \E t \in CThreads : ClientReply(t)
    BY <1>3, ReplyClient
  <1>4. CASE \E t \in CThreads : SwitchClient(t)
    BY <1>4, ReplySwitchClient
  <1>5. CASE \E d \in DataThreads : DataServer(d)
    BY <1>5, ReplyDataServer
  <1>6. CASE \E d \in DataThreads : SwitchData(d)
    BY <1>6, ReplySwitchData
  <1>7. CASE \E i \in IndexThreads : IndexServer(i)
    BY <1>7, ReplyIndexServer
  <1>8. CASE \E i \in IndexThreads : SwitchIndex(i)
    BY <1>8, ReplySwitchIndex
  <1> QED
    BY <1>1, <1>2, <1>3, <1>4, <1>5, <1>6, <1>7, <1>8 DEF Next

(***************************************************************************)
(* Every coroutine that waits in put_value, put_index, get_index or        *)
(* get_value has exactly one packet in flight that will resume it, at a    *)
(* stage of that call, addressed to an existing thread and with the key it *)
(* asked about; a free coroutine has none. No request can be left waiting  *)
(* with nothing under way, and none is answered twice: the safety core of  *)
(* RequestsReturn.                                                         *)
(***************************************************************************)
THEOREM AnswerSafety == Spec => []SoleAnswer
  <1>1. Init => TypeOK /\ SoleAnswer
    BY InitType, SoleInit
  <1>2. TypeOK /\ SoleAnswer /\ [Next]_vars => (TypeOK /\ SoleAnswer)'
    BY NextType, SoleNext
  <1> QED
    BY <1>1, <1>2, PTL DEF Spec

\* What SoleAnswer says of the packet a client thread takes next.
LEMMA SoleExpected == TypeOK /\ SoleAnswer => ReplyExpected
  <1> SUFFICES ASSUME TypeOK, SoleAnswer, NEW t \in CThreads, s2c[t] # <<>>
               PROVE  /\ Head(s2c[t]).op \in ExpectedOps[ctx[Head(s2c[t]).cli].pc]
                      /\ Head(s2c[t]).key = ctx[Head(s2c[t]).cli].key
    BY DEF ReplyExpected
  <1>1. /\ "s2c" \in Links /\ t \in Ends("s2c") /\ Net["s2c"][t] = s2c[t]
        /\ Answering("s2c", Head(s2c[t]))
    BY EndsAre, NetIs DEF Links, Answering
  <1>2. Fits(ctx[Head(s2c[t]).cli], "s2c", Head(s2c[t]))
    BY <1>1, HeadFits
  <1>3. PICK pc, op : pc = ctx[Head(s2c[t]).cli].pc /\ op = Head(s2c[t]).op
    OBVIOUS
  <1>4. Stage(pc, "s2c", op)
    BY <1>2, <1>3 DEF Fits
  <1>5. op \in ExpectedOps[pc]
    BY <1>4 DEF Stage, ExpectedOps
  <1> QED
    BY <1>2, <1>3, <1>5 DEF Fits

(***************************************************************************)
(* The assertions of get_index, put_index, get_value and put_value hold:   *)
(* the packet a coroutine is resumed with is a reply to the call it waits  *)
(* in, for the key it asked about, for every number of clients, coroutines *)
(* and servers and under both programs of the switch.                      *)
(***************************************************************************)
THEOREM ReplySafety == Spec => []ReplyExpected
  BY TypeCorrect, AnswerSafety, SoleExpected, PTL

-----------------------------------------------------------------------------
(* Timestamps. The packets of a write carry the log id and the timestamp its *)
(* append was given; until a counter wraps around, no two writes of a slot   *)
(* have the same.                                                            *)

Packets(q, D) == UNION { { q[n][j] : j \in DOMAIN q[n] } : n \in D }

\* The packets with the timestamp of a write, on the links they travel.
Stamped ==
    { m \in Packets(d2s, DataThreads) \cup Packets(s2c, CThreads) : m.op = AppendReply }
    \cup { m \in Packets(s2c, CThreads) \cup Packets(s2i, IndexThreads) : m.op = MultiCastPkt }
    \cup { m \in Packets(c2s, CThreads) \cup Packets(s2i, IndexThreads) : m.op = UpdateIndexReq }

\* The reads of the index on their way to it.
Reads == { m \in Packets(c2s, CThreads) \cup Packets(s2i, IndexThreads) : m.op = ReadIndexReq }

\* A write is stamped with a timestamp its slot has reached, which tells it from
\* the other writes of the slot, and a read with none.
StampInv ==
    /\ \A m \in Stamped : 0 < m.ts /\ m.ts =< tss[get_switch_key(m.key)]
    /\ \A m, n \in Stamped :
           get_switch_key(m.key) = get_switch_key(n.key) /\ m.ts = n.ts => m.log = n.log
    /\ \A m \in Reads : m.ts = 0

\* No counter of Timestamp32 is about to wrap around.
ClocksFit == \A s \in SwitchKeys : tss[s] < TsSpace - 1

\* Taking a packet from a queue adds none.
LEMMA PacketsPop ==
    ASSUME NEW D, NEW q \in [D -> Seq(RawKvMsg)], NEW a \in D, q[a] # <<>>
    PROVE  Packets(Pop(q, a), D) \subseteq Packets(q, D) /\ Head(q[a]) \in Packets(q, D)
           /\ Head(q[a]) \in RawKvMsg
  <1>0. Pop(q, a) \in [D -> Seq(RawKvMsg)] /\ Head(q[a]) \in RawKvMsg
    <2>1. q[a] \in Seq(RawKvMsg) /\ Tail(q[a]) \in Seq(RawKvMsg) /\ Head(q[a]) \in RawKvMsg
      OBVIOUS
    <2> QED
      BY <2>1 DEF Pop
  <1>1. ASSUME NEW n \in D, NEW j \in DOMAIN Pop(q, a)[n]
        PROVE  Pop(q, a)[n][j] \in Packets(q, D)
    <2>1. j \in Nat /\ Pop(q, a)[n] \in Seq(RawKvMsg)
      BY <1>0
    <2>2. CASE n # a
      <3>1. Pop(q, a)[n] = q[n]
        BY <2>2 DEF Pop
      <3> QED
        BY <3>1 DEF Packets
    <2>3. CASE n = a
      <3>1. j + 1 \in DOMAIN q[a] /\ Pop(q, a)[a][j] = q[a][j + 1]
        BY <2>1, <2>3, PopPlaces
      <3> QED
        BY <2>3, <3>1 DEF Packets
    <2> QED
      BY <2>2, <2>3
  <1>2. 1 \in DOMAIN q[a] /\ q[a][1] = Head(q[a])
    <2>1. q[a] \in Seq(RawKvMsg)
      OBVIOUS
    <2> QED
      BY <2>1
  <1>3. Packets(Pop(q, a), D) \subseteq Packets(q, D)
    BY <1>1 DEF Packets
  <1>4. Head(q[a]) \in Packets(q, D)
    BY <1>2 DEF Packets
  <1> QED
    BY <1>0, <1>3, <1>4

\* Adding a packet adds no other.
LEMMA PacketsPush ==
    ASSUME NEW D, NEW q \in [D -> Seq(RawKvMsg)], NEW a, NEW m
    PROVE  Packets(Push(q, a, m), D) \subseteq Packets(q, D) \cup {m}
  <1>1. ASSUME NEW n \in D, NEW j \in DOMAIN Push(q, a, m)[n]
        PROVE  Push(q, a, m)[n][j] \in Packets(q, D) \cup {m}
    <2>1. CASE n # a
      <3>1. Push(q, a, m)[n] = q[n]
        BY <2>1 DEF Push
      <3> QED
        BY <3>1 DEF Packets
    <2>2. CASE n = a
      <3>1. q[n] \in Seq(RawKvMsg) /\ Push(q, a, m)[n] = Append(q[n], m)
        BY <2>2 DEF Push
      <3>2. (j \in DOMAIN q[n] /\ Append(q[n], m)[j] = q[n][j]) \/ Append(q[n], m)[j] = m
        BY <3>1
      <3> QED
        BY <3>1, <3>2 DEF Packets
    <2> QED
      BY <2>1, <2>2
  <1> QED
    BY <1>1 DEF Packets

\* Every packet in a queue is one.
LEMMA PacketsType ==
    ASSUME NEW D, NEW q \in [D -> Seq(RawKvMsg)]
    PROVE  Packets(q, D) \subseteq RawKvMsg
  BY DEF Packets

\* What a stamp is: n stands for the same write as m.
SameStamp(m, n) == m.key = n.key /\ m.ts = n.ts /\ m.log = n.log

\* A step in which stamps are only passed on.
LEMMA StampKept ==
    ASSUME StampInv, tss' = tss,
           \A m \in Stamped' : \E n \in Stamped : SameStamp(m, n),
           \A m \in Reads' : m.ts = 0
    PROVE  StampInv'
  <1>1. ASSUME NEW m \in Stamped' PROVE 0 < m.ts /\ m.ts =< tss'[get_switch_key(m.key)]
    <2>1. PICK n \in Stamped : SameStamp(m, n)
      OBVIOUS
    <2>2. 0 < n.ts /\ n.ts =< tss[get_switch_key(n.key)]
      BY DEF StampInv
    <2> QED
      BY <2>1, <2>2 DEF SameStamp
  <1>2. ASSUME NEW m \in Stamped', NEW n \in Stamped',
               get_switch_key(m.key) = get_switch_key(n.key), m.ts = n.ts
        PROVE  m.log = n.log
    <2>1. PICK x \in Stamped : SameStamp(m, x)
      OBVIOUS
    <2>2. PICK y \in Stamped : SameStamp(n, y)
      OBVIOUS
    <2>3. get_switch_key(x.key) = get_switch_key(y.key) /\ x.ts = y.ts
      BY <1>2, <2>1, <2>2 DEF SameStamp
    <2>4. x.log = y.log
      BY <2>3 DEF StampInv
    <2> QED
      BY <2>1, <2>2, <2>4 DEF SameStamp
  <1> QED
    BY <1>1, <1>2 DEF StampInv

\* An append: the counter of the slot moves on and its new value is stamped on x.
LEMMA StampAppended ==
    ASSUME TypeOK, StampInv, ClocksFit, NEW x \in RawKvMsg,
           x.ts = get_next_ts(tss[get_switch_key(x.key)]),
           tss' = [tss EXCEPT ![get_switch_key(x.key)] = get_next_ts(@)],
           Stamped' \subseteq Stamped \cup {x}, Stamped \subseteq RawKvMsg, Reads' \subseteq Reads
    PROVE  StampInv'
  <1>1. PICK s : s = get_switch_key(x.key)
    OBVIOUS
  <1>2. s \in SwitchKeys /\ tss \in [SwitchKeys -> 0 .. TsSpace - 1] /\ tss[s] \in 0 .. TsSpace - 1
    BY <1>1, KeyRanges DEF TypeOK, RawKvMsg
  <1>3. x.ts = tss[s] + 1 /\ tss[s] \in Nat
    <2>1. tss[s] + 1 < TsSpace /\ tss[s] \in Nat
      BY <1>2, WidthAssumption DEF ClocksFit
    <2>2. (tss[s] + 1) % TsSpace = tss[s] + 1 /\ tss[s] + 1 # 0
      BY <2>1, WidthAssumption
    <2>3. get_next_ts(tss[s]) = tss[s] + 1
      BY <2>2 DEF get_next_ts
    <2> QED
      BY <1>1, <2>1, <2>3
  <1>4. tss'[s] = tss[s] + 1 /\ \A z \in SwitchKeys : z # s => tss'[z] = tss[z]
    BY <1>1, <1>2, <1>3
  <1>5. ASSUME NEW m \in Stamped
        PROVE  /\ m.ts \in Nat /\ 0 < m.ts /\ m.ts =< tss[get_switch_key(m.key)]
               /\ m.ts =< tss'[get_switch_key(m.key)]
               /\ get_switch_key(m.key) = s => m.ts # x.ts
    <2>1. m.ts \in Nat /\ get_switch_key(m.key) \in SwitchKeys
      BY KeyRanges DEF RawKvMsg
    <2>2. 0 < m.ts /\ m.ts =< tss[get_switch_key(m.key)]
      BY DEF StampInv
    <2>3. CASE get_switch_key(m.key) = s
      BY <1>3, <1>4, <2>1, <2>2, <2>3
    <2>4. CASE get_switch_key(m.key) # s
      BY <1>4, <2>1, <2>2, <2>4
    <2> QED
      BY <2>1, <2>2, <2>3, <2>4
  <1>6. \A m \in Stamped' : 0 < m.ts /\ m.ts =< tss'[get_switch_key(m.key)]
    <2>1. 0 < x.ts /\ x.ts =< tss'[s]
      BY <1>3, <1>4
    <2> QED
      BY <1>1, <1>5, <2>1
  <1>7. ASSUME NEW m \in Stamped', NEW n \in Stamped',
               get_switch_key(m.key) = get_switch_key(n.key), m.ts = n.ts
        PROVE  m.log = n.log
    <2>1. CASE m \in Stamped /\ n \in Stamped
      BY <1>7, <2>1 DEF StampInv
    <2>2. CASE m = x \/ n = x
      BY <1>1, <1>5, <1>7, <2>2
    <2> QED
      BY <2>1, <2>2
  <1>8. \A m \in Reads' : m.ts = 0
    BY DEF StampInv
  <1> QED
    BY <1>6, <1>7, <1>8 DEF StampInv

\* The actions: a new request,
LEMMA StampRequest ==
    ASSUME TypeOK, StampInv, NEW c \in Coros, NEW k \in Keys, kEnumW(c, k) \/ kEnumR(c, k)
    PROVE  StampInv'
  <1>1. PICK m \in {put_value(c, ctx'[c]), get_index(c, ctx'[c])} : c2s' = Push(c2s, c[1], m)
    BY DEF kEnumW, kEnumR
  <1>2. m.op \in {AppendReq, ReadIndexReq} /\ m.ts = 0
    BY <1>1 DEF put_value, get_index
  <1>3. UNCHANGED <<s2c, d2s, s2i, tss>>
    BY DEF kEnumW, kEnumR
  <1>5. Packets(c2s', CThreads) \subseteq Packets(c2s, CThreads) \cup {m}
    BY <1>1, PacketsPush, ZenonT(30) DEF TypeOK
  <1>6. \A n \in Stamped' : n \in Stamped
    BY <1>2, <1>3, <1>5 DEF Stamped, AppendReq, ReadIndexReq, UpdateIndexReq
  <1>7. \A n \in Reads' : n.ts = 0
    BY <1>2, <1>3, <1>5 DEF Reads, StampInv
  <1> QED
    BY <1>3, <1>6, <1>7, StampKept DEF SameStamp

\* a reply to a client,
LEMMA StampClient ==
    ASSUME TypeOK, SoleAnswer, StampInv, NEW t \in CThreads, ClientReply(t)
    PROVE  StampInv'
  <1>m. PICK m : m = Head(s2c[t])
    OBVIOUS
  <1>1. /\ s2c[t] # <<>> /\ s2c' = Pop(s2c, t) /\ UNCHANGED <<d2s, s2i, tss>>
        /\ \/ PutValueReturns(t, m) \/ PutIndexReturns(t, m)
           \/ GetIndexReturns(t, m) \/ GetValueReturns(t, m)
    BY <1>m DEF ClientReply, PutValueReturns, PutIndexReturns, GetIndexReturns, GetValueReturns,
       Resume
  <1>2. /\ Packets(s2c', CThreads) \subseteq Packets(s2c, CThreads)
        /\ m \in Packets(s2c, CThreads) /\ m \in RawKvMsg
    BY <1>m, <1>1, PacketsPop DEF TypeOK
  <1>3. m.cli \in Coros /\ ctx \in [Coros -> KvCtx]
    BY <1>2 DEF RawKvMsg, TypeOK
  <1>4. Fits(ctx[m.cli], "s2c", m)
    <2>1. /\ "s2c" \in Links /\ t \in Ends("s2c") /\ Net["s2c"][t] = s2c[t]
          /\ Answering("s2c", Head(s2c[t]))
      BY EndsAre, NetIs DEF Links, Answering
    <2> QED
      BY <1>m, <1>1, <2>1, HeadFits
  <1>5. CASE c2s' = c2s
    <2>1. \A n \in Stamped' : n \in Stamped
      BY <1>1, <1>2, <1>5 DEF Stamped
    <2>2. \A n \in Reads' : n.ts = 0
      BY <1>1, <1>5 DEF Reads, StampInv
    <2> QED
      BY <1>1, <2>1, <2>2, StampKept DEF SameStamp
  <1>6. ASSUME NEW x, c2s' = Push(c2s, t, x), x.op \in {UpdateIndexReq, ReadLog},
               x.op = UpdateIndexReq => SameStamp(x, m) /\ m \in Stamped
        PROVE  StampInv'
    <2>1. Packets(c2s', CThreads) \subseteq Packets(c2s, CThreads) \cup {x}
      BY <1>6, PacketsPush DEF TypeOK
    <2>2. ASSUME NEW n \in Stamped' PROVE n \in Stamped \/ (n = x /\ x.op = UpdateIndexReq)
      BY <1>1, <1>2, <2>1 DEF Stamped
    <2>3. ASSUME NEW n \in Stamped' PROVE \E o \in Stamped : SameStamp(n, o)
      BY <1>6, <2>2 DEF SameStamp
    <2>4. \A n \in Reads' : n.ts = 0
      BY <1>1, <1>6, <2>1 DEF Reads, StampInv, UpdateIndexReq, ReadLog, ReadIndexReq
    <2> QED
      BY <1>1, <2>3, <2>4, StampKept
  <1>7. CASE PutValueReturns(t, m)
    <2>1. ctx[m.cli].pc = "put_value" /\ m.key = ctx[m.cli].key
      BY <1>4, <1>7 DEF PutValueReturns, Fits
    <2>2. m.op \in {AppendReply, MultiCastPkt}
      BY <1>4, <2>1 DEF Fits, Stage
    <2>3. m \in Stamped
      BY <1>2, <2>2 DEF Stamped
    <2>4. CASE c2s' = c2s
      BY <2>4, <1>5
    <2>5. CASE /\ ctx' = [ctx EXCEPT ![m.cli].pc = "put_index",
                                     ![m.cli].log = m.log, ![m.cli].ts = m.ts]
               /\ c2s' = Push(c2s, t, put_index(m.cli, ctx'[m.cli]))
      <3>1. PICK x : x = put_index(m.cli, ctx'[m.cli])
        OBVIOUS
      <3>2. ctx'[m.cli].key = m.key /\ ctx'[m.cli].log = m.log /\ ctx'[m.cli].ts = m.ts
        BY <1>3, <2>1, <2>5 DEF KvCtx
      <3>3. x.op = UpdateIndexReq /\ x.key = m.key /\ x.log = m.log /\ x.ts = m.ts
        BY <3>1, <3>2 DEF put_index
      <3> QED
        BY <1>6, <2>3, <2>5, <3>1, <3>3 DEF SameStamp
    <2> QED
      BY <1>7, <2>4, <2>5 DEF PutValueReturns
  <1>8. CASE GetIndexReturns(t, m)
    <2>1. CASE c2s' = c2s
      BY <2>1, <1>5
    <2>2. CASE c2s' = Push(c2s, t, get_value(m.cli, ctx'[m.cli]))
      <3>1. PICK x : x = get_value(m.cli, ctx'[m.cli])
        OBVIOUS
      <3>2. x.op = ReadLog /\ x.op # UpdateIndexReq
        BY <3>1 DEF get_value, ReadLog, UpdateIndexReq
      <3> QED
        BY <1>6, <2>2, <3>1, <3>2
    <2> QED
      BY <1>8, <2>1, <2>2 DEF GetIndexReturns
  <1>9. CASE PutIndexReturns(t, m) \/ GetValueReturns(t, m)
    BY <1>5, <1>9 DEF PutIndexReturns, GetValueReturns
  <1> QED
    BY <1>1, <1>7, <1>8, <1>9

\* a data thread,
LEMMA StampDataServer ==
    ASSUME TypeOK, TypeOK', StampInv, ClocksFit, NEW d \in DataThreads, DataServer(d)
    PROVE  StampInv'
  <1>m. PICK m : m = Head(s2d[d])
    OBVIOUS
  <1>1. s2d[d] # <<>> /\ UNCHANGED <<c2s, s2c, s2i>> /\ (DataAppend(d, m) \/ DataReadLog(d, m))
    BY <1>m DEF DataServer
  <1>2. m \in RawKvMsg
    BY <1>m, <1>1, PacketsPop DEF TypeOK
  <1>3. CASE DataAppend(d, m)
    <2>1. PICK x : x = [m EXCEPT !.op = AppendReply, !.log = compute_log_id(pos[d], d),
                                 !.ts = get_next_ts(tss[get_switch_key(m.key)]),
                                 !.entry = Blank]
      OBVIOUS
    <2>2. /\ x.key = m.key /\ x.ts = get_next_ts(tss[get_switch_key(m.key)])
          /\ d2s' = Push(d2s, d, x)
          /\ tss' = [tss EXCEPT ![get_switch_key(m.key)] = get_next_ts(@)]
      BY <1>2, <1>3, <2>1 DEF RawKvMsg, DataAppend
    <2>3. x \in RawKvMsg
      <3>1. d2s[d] \in Seq(RawKvMsg) /\ d2s'[d] \in Seq(RawKvMsg) /\ d2s'[d] = Append(d2s[d], x)
        BY <2>2 DEF TypeOK, Push
      <3>2. PICK q, r : q = d2s[d] /\ r = d2s'[d]
        OBVIOUS
      <3>3. r[Len(q) + 1] = x /\ Len(q) + 1 \in DOMAIN r
        BY <3>1, <3>2
      <3> QED
        BY <3>1, <3>2, <3>3
    <2>4. Packets(d2s', DataThreads) \subseteq Packets(d2s, DataThreads) \cup {x}
      BY <2>2, PacketsPush DEF TypeOK
    <2>5. Stamped' \subseteq Stamped \cup {x} /\ Reads' \subseteq Reads
      BY <1>1, <2>4 DEF Stamped, Reads
    <2>6. Stamped \subseteq RawKvMsg
      BY PacketsType DEF Stamped, TypeOK
    <2> QED
      BY <2>2, <2>3, <2>5, <2>6, StampAppended
  <1>4. CASE DataReadLog(d, m)
    <2>0. PICK x : x = [m EXCEPT !.op = ReadReply,
                                 !.entry = kv[d][logid_2_locallogid(m.log)]]
      OBVIOUS
    <2>1. d2s' = Push(d2s, d, x) /\ x.op = ReadReply
      BY <1>2, <1>4, <2>0 DEF DataReadLog, RawKvMsg
    <2>2. Packets(d2s', DataThreads) \subseteq Packets(d2s, DataThreads) \cup {x}
      BY <2>1, PacketsPush DEF TypeOK
    <2>3. \A n \in Stamped' : n \in Stamped
      BY <1>1, <2>1, <2>2 DEF Stamped, ReadReply, AppendReply
    <2>4. \A n \in Reads' : n.ts = 0
      BY <1>1 DEF Reads, StampInv
    <2>5. tss' = tss
      BY <1>4 DEF DataReadLog, dataVars
    <2> QED
      BY <2>3, <2>4, <2>5, StampKept DEF SameStamp
  <1> QED
    BY <1>1, <1>3, <1>4

\* the switch, on a packet of a client,
LEMMA StampSwitchClient ==
    ASSUME TypeOK, StampInv, NEW t \in CThreads, SwitchClient(t)
    PROVE  StampInv'
  <1>m. PICK m : m = Head(c2s[t])
    OBVIOUS
  <1>1. c2s[t] # <<>> /\ c2s' = Pop(c2s, t) /\ UNCHANGED <<d2s, tss>>
    BY DEF SwitchClient
  <1>2. /\ Packets(c2s', CThreads) \subseteq Packets(c2s, CThreads)
        /\ m \in Packets(c2s, CThreads) /\ m \in RawKvMsg
    BY <1>m, <1>1, PacketsPop DEF TypeOK
  <1>3. CASE UNCHANGED <<s2c, s2i>>
    <2>1. \A n \in Stamped' : n \in Stamped
      BY <1>1, <1>2, <1>3 DEF Stamped
    <2>2. \A n \in Reads' : n.ts = 0
      BY <1>1, <1>2, <1>3 DEF Reads, StampInv
    <2> QED
      BY <1>1, <2>1, <2>2, StampKept DEF SameStamp
  <1>4. CASE /\ m.op = ReadIndexReq /\ UNCHANGED s2i
             /\ s2c' = Push(s2c, m.cli[1], [m EXCEPT !.log = LogId(regs, m)])
    <2>0. PICK x : x = [m EXCEPT !.log = LogId(regs, m)]
      OBVIOUS
    <2>1. x.op = ReadIndexReq
      BY <1>2, <1>4, <2>0 DEF RawKvMsg
    <2>a. PICK a : a = m.cli[1]
      OBVIOUS
    <2>2. Packets(s2c', CThreads) \subseteq Packets(s2c, CThreads) \cup {x}
      <3>1. s2c' = Push(s2c, a, x) /\ s2c \in [CThreads -> Seq(RawKvMsg)]
        BY <1>4, <2>0, <2>a DEF TypeOK
      <3> QED
        BY <3>1, PacketsPush
    <2>3. \A n \in Stamped' : n \in Stamped
      BY <1>1, <1>2, <1>4, <2>1, <2>2 DEF Stamped, ReadIndexReq, AppendReply, MultiCastPkt
    <2>4. \A n \in Reads' : n.ts = 0
      BY <1>1, <1>2, <1>4 DEF Reads, StampInv
    <2> QED
      BY <1>1, <2>3, <2>4, StampKept DEF SameStamp
  <1>5. CASE /\ m.op \in {ReadIndexReq, UpdateIndexReq} /\ UNCHANGED s2c
             /\ s2i' = Push(s2i, m.port, m)
    <2>1. Packets(s2i', IndexThreads) \subseteq Packets(s2i, IndexThreads) \cup {m}
      BY <1>5, PacketsPush, ZenonT(30) DEF TypeOK
    <2>2. m.op # MultiCastPkt
      BY <1>5 DEF ReadIndexReq, UpdateIndexReq, MultiCastPkt
    <2>3. \A n \in Stamped' : n \in Stamped
      BY <1>1, <1>2, <1>5, <2>1, <2>2 DEF Stamped
    <2>4. \A n \in Reads' : n \in Reads
      BY <1>1, <1>2, <1>5, <2>1 DEF Reads
    <2>5. \A n \in Reads' : n.ts = 0
      BY <2>4 DEF StampInv
    <2> QED
      BY <1>1, <2>3, <2>5, StampKept DEF SameStamp
  <1> QED
    BY <1>m, <1>3, <1>4, <1>5 DEF SwitchClient

\* of a data thread,
LEMMA StampSwitchData ==
    ASSUME TypeOK, StampInv, NEW d \in DataThreads, SwitchData(d)
    PROVE  StampInv'
  <1>m. PICK m : m = Head(d2s[d])
    OBVIOUS
  <1>1. d2s[d] # <<>> /\ d2s' = Pop(d2s, d) /\ UNCHANGED <<c2s, tss>>
    BY DEF SwitchData
  <1>2. /\ Packets(d2s', DataThreads) \subseteq Packets(d2s, DataThreads)
        /\ m \in Packets(d2s, DataThreads) /\ m \in RawKvMsg
    BY <1>m, <1>1, PacketsPop DEF TypeOK
  <1>3. CASE /\ m.op \in {AppendReply, ReadReply} /\ UNCHANGED s2i
             /\ s2c' = Push(s2c, m.cli[1], m)
    <2>a. PICK a : a = m.cli[1]
      OBVIOUS
    <2>1. Packets(s2c', CThreads) \subseteq Packets(s2c, CThreads) \cup {m}
      <3>1. s2c' = Push(s2c, a, m) /\ s2c \in [CThreads -> Seq(RawKvMsg)]
        BY <1>3, <2>a DEF TypeOK
      <3> QED
        BY <3>1, PacketsPush
    <2>2. m.op # MultiCastPkt
      BY <1>3 DEF ReadReply, AppendReply, MultiCastPkt
    <2>3. \A n \in Stamped' : n \in Stamped
      BY <1>1, <1>2, <1>3, <2>1, <2>2 DEF Stamped
    <2>4. \A n \in Reads' : n.ts = 0
      BY <1>1, <1>3 DEF Reads, StampInv
    <2> QED
      BY <1>1, <2>3, <2>4, StampKept DEF SameStamp
  <1>4. CASE /\ m.op = AppendReply
             /\ s2i' = Push(s2i, m.ixp, [m EXCEPT !.op = MultiCastPkt])
             /\ s2c' = Push(s2c, m.cli[1], [m EXCEPT !.op = MultiCastPkt])
    <2>0. PICK x : x = [m EXCEPT !.op = MultiCastPkt]
      OBVIOUS
    <2>1. x.op = MultiCastPkt /\ SameStamp(x, m) /\ m \in Stamped
      <3>1. x.op = MultiCastPkt /\ SameStamp(x, m)
        BY <1>2, <2>0 DEF RawKvMsg, SameStamp
      <3>2. m \in Stamped
        BY <1>2, <1>4 DEF Stamped
      <3> QED
        BY <3>1, <3>2
    <2>a. PICK a : a = m.cli[1]
      OBVIOUS
    <2>2. Packets(s2c', CThreads) \subseteq Packets(s2c, CThreads) \cup {x}
      <3>1. s2c' = Push(s2c, a, x) /\ s2c \in [CThreads -> Seq(RawKvMsg)]
        BY <1>4, <2>0, <2>a DEF TypeOK
      <3> QED
        BY <3>1, PacketsPush
    <2>3. Packets(s2i', IndexThreads) \subseteq Packets(s2i, IndexThreads) \cup {x}
      BY <1>4, <2>0, PacketsPush DEF TypeOK
    <2>4. \A n \in Stamped' : n \in Stamped \/ n = x
      BY <1>1, <1>2, <2>2, <2>3 DEF Stamped
    <2>5. \A n \in Stamped' : \E o \in Stamped : SameStamp(n, o)
      BY <2>1, <2>4 DEF SameStamp
    <2>6. \A n \in Reads' : n.ts = 0
      BY <1>1, <2>1, <2>3 DEF Reads, StampInv, MultiCastPkt, ReadIndexReq
    <2> QED
      BY <1>1, <2>5, <2>6, StampKept
  <1> QED
    BY <1>m, <1>3, <1>4 DEF SwitchData

\* of an index thread,
LEMMA StampSwitchIndex ==
    ASSUME TypeOK, StampInv, NEW i \in IndexThreads, SwitchIndex(i)
    PROVE  StampInv'
  <1>m. PICK m : m = Head(i2s[i])
    OBVIOUS
  <1>1. i2s[i] # <<>> /\ UNCHANGED <<c2s, d2s, s2i, tss>>
    BY DEF SwitchIndex
  <1>2. \/ s2c' = s2c
        \/ s2c' = Push(s2c, m.cli[1], m) /\ m.op \in {UpdateIndexReply, ReadIndexReply}
    BY <1>m DEF SwitchIndex
  <1>3. \A n \in Packets(s2c', CThreads) :
            n \in Packets(s2c, CThreads) \/ n.op \in {UpdateIndexReply, ReadIndexReply}
    <2>a. PICK a : a = m.cli[1]
      OBVIOUS
    <2>1. s2c \in [CThreads -> Seq(RawKvMsg)]
      BY DEF TypeOK
    <2>2. CASE s2c' = Push(s2c, a, m) /\ m.op \in {UpdateIndexReply, ReadIndexReply}
      BY <2>1, <2>2, PacketsPush
    <2> QED
      BY <1>2, <2>a, <2>2
  <1>4. \A n \in Stamped' : n \in Stamped
    BY <1>1, <1>3 DEF Stamped, UpdateIndexReply, ReadIndexReply, AppendReply, MultiCastPkt
  <1>5. \A n \in Reads' : n.ts = 0
    BY <1>1 DEF Reads, StampInv
  <1> QED
    BY <1>1, <1>4, <1>5, StampKept DEF SameStamp

\* and an index thread.
LEMMA StampIndexServer ==
    ASSUME TypeOK, StampInv, NEW i \in IndexThreads, IndexServer(i)
    PROVE  StampInv'
  <1>1. s2i[i] # <<>> /\ s2i' = Pop(s2i, i) /\ UNCHANGED <<c2s, s2c, d2s, tss>>
    BY DEF IndexServer
  <1>2. Packets(s2i', IndexThreads) \subseteq Packets(s2i, IndexThreads)
    BY <1>1, PacketsPop DEF TypeOK
  <1>3. \A n \in Stamped' : n \in Stamped
    BY <1>1, <1>2 DEF Stamped
  <1>4. \A n \in Reads' : n.ts = 0
    BY <1>1, <1>2 DEF Reads, StampInv
  <1> QED
    BY <1>1, <1>3, <1>4, StampKept DEF SameStamp

\* Nothing is stamped at the start.
LEMMA StampInit == Init => StampInv
  <1> SUFFICES ASSUME Init PROVE StampInv
    OBVIOUS
  <1>1. /\ Packets(c2s, CThreads) = {} /\ Packets(s2c, CThreads) = {}
        /\ Packets(d2s, DataThreads) = {} /\ Packets(s2i, IndexThreads) = {}
    BY DEF Init, Packets
  <1> QED
    BY <1>1 DEF StampInv, Stamped, Reads

\* Every step keeps StampInv while no counter wraps around.
LEMMA StampNext ==
    ASSUME TypeOK, TypeOK', SoleAnswer, StampInv, ClocksFit, [Next]_vars
    PROVE  StampInv'
  <1>1. CASE UNCHANGED vars
    BY <1>1 DEF vars, StampInv, Stamped, Reads
  <1>2. CASE \E c \in Coros, k \in Keys : kEnumW(c, k) \/ kEnumR(c, k)
    BY <1>2, StampRequest
  <1>3. CASE \E t \in CThreads : ClientReply(t)
    BY <1>3, StampClient
  <1>4. CASE \E t \in CThreads : SwitchClient(t)
    BY <1>4, StampSwitchClient
  <1>5. CASE \E d \in DataThreads : DataServer(d)
    BY <1>5, StampDataServer
  <1>6. CASE \E d \in DataThreads : SwitchData(d)
    BY <1>6, StampSwitchData
  <1>7. CASE \E i \in IndexThreads : IndexServer(i)
    BY <1>7, StampIndexServer
  <1>8. CASE \E i \in IndexThreads : SwitchIndex(i)
    BY <1>8, StampSwitchIndex
  <1> QED
    BY <1>1, <1>2, <1>3, <1>4, <1>5, <1>6, <1>7, <1>8 DEF Next

(***************************************************************************)
(* StampSafety: while no 31-bit counter is about to wrap around, packets   *)
(* of a slot with the same timestamp belong to the same append, because    *)
(* the data threads share one counter per switch key (Timestamp32), and a  *)
(* read of the index carries the timestamp 0, older than every write.      *)
(***************************************************************************)
THEOREM StampSafety == Spec /\ []ClocksFit => []StampInv
  <1>1. Init => TypeOK /\ SoleAnswer /\ StampInv
    BY InitType, SoleInit, StampInit
  <1>2. TypeOK /\ SoleAnswer /\ StampInv /\ ClocksFit /\ [Next]_vars
          => (TypeOK /\ SoleAnswer /\ StampInv)'
    BY NextType, SoleNext, StampNext
  <1> QED
    BY <1>1, <1>2, PTL DEF Spec
=============================================================================
