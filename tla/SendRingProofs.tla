-------------------------- MODULE SendRingProofs --------------------------
(***************************************************************************)
(* The send ring is safe for every size of the signal groups, every poll   *)
(* size and every batch size.                                              *)
(*                                                                         *)
(* The properties speak of buffers and completions; what makes them        *)
(* inductive is that the counters of QPInfo describe the ring exactly:     *)
(* the requests with the card are the buffers before send_begin_id, the    *)
(* appended replies those from it on, every kMaxSignal-th posted request   *)
(* counted from the last one given back is signalled, and cq is the number *)
(* of those the card has sent.                                             *)
(***************************************************************************)
EXTENDS SendRing, Integers, TLAPS

\* The ring is four signal groups long, so these are all the multiples that occur.
Groups == {0, 1, 2, 3, 4}

\* Posted requests that the card has sent and the thread has not taken back.
Sent == send_counter - Len(nic)

\* Position x of the ring is n places after position b.
After(x, b, n) == x = b + n \/ x = b + n - kStaticSendBuf

Counters ==
    /\ send_counter + send_pending_cnt <= kStaticSendBuf
    /\ Len(nic) <= send_counter
    /\ \E g \in Groups : /\ signal_counter = g
                         /\ send_counter = g * kMaxSignal + send_cnt_bf_signal
    /\ \E g \in Groups : /\ cq = g
                         /\ g * kMaxSignal <= Sent /\ Sent < (g + 1) * kMaxSignal

Places ==
    /\ After(send_buf_pos, send_begin_id, send_pending_cnt)
    /\ \A i \in 1 .. Len(nic) :
           /\ After(send_begin_id, nic[i].buf, Len(nic) - i + 1)
           /\ nic[i].signaled <=> \E g \in Groups : Sent + i = g * kMaxSignal

\* The entries of the batch are the appended replies, as long as none is posted
\* early.
BatchPlaces ==
    /\ Len(batch) + todo <= batch_size - 1 + kMaxWcCnt
    /\ polling => Len(batch) < batch_size
    /\ Fits => /\ Len(batch) = send_pending_cnt
               /\ \A i \in 1 .. Len(batch) : After(batch[i], send_begin_id, i - 1)

RingInv == RingTypeOK /\ Counters /\ Places /\ BatchPlaces

-----------------------------------------------------------------------------
(* Arithmetic. *)

\* A remainder is known from the group it lies in.
LEMMA DivMod ==
    ASSUME NEW k \in Nat \ {0}, NEW g \in Nat, NEW l \in 0 .. k - 1
    PROVE  (g * k + l) \div k = g /\ (g * k + l) % k = l
  OBVIOUS

\* The groups of the ring.
LEMMA GroupOf ==
    ASSUME NEW a \in Nat, NEW k \in Nat \ {0}, a < 5 * k
    PROVE  \E g \in Groups : /\ g * k <= a /\ a < (g + 1) * k
                             /\ a \div k = g /\ a % k = a - g * k
  <1>1. PICK g \in Groups : g * k <= a /\ a < (g + 1) * k
    <2>1. \/ 0 * k <= a /\ a < (0 + 1) * k
          \/ 1 * k <= a /\ a < (1 + 1) * k
          \/ 2 * k <= a /\ a < (2 + 1) * k
          \/ 3 * k <= a /\ a < (3 + 1) * k
          \/ 4 * k <= a /\ a < (4 + 1) * k
      OBVIOUS
    <2> QED
      BY <2>1 DEF Groups
  <1>2. g \in Nat /\ g * k \in Nat /\ (g + 1) * k = g * k + k
    BY DEF Groups
  <1>3. PICK l \in 0 .. k - 1 : l = a - g * k
    BY <1>1, <1>2
  <1>4. a = g * k + l
    BY <1>2, <1>3
  <1>5. a \div k = g /\ a % k = l
    BY <1>2, <1>4, DivMod
  <1> QED
    BY <1>1, <1>3, <1>5

\* The ring is positive and four groups long.
LEMMA RingSize ==
    /\ kMaxSignal \in Nat \ {0} /\ kMaxWcCnt \in Nat \ {0}
    /\ kStaticSendBuf = 4 * kMaxSignal /\ kStaticSendBuf \in Nat \ {0}
  BY RingAssumption DEF kStaticSendBuf

\* The position n places after b, as ADD_ROUND and the loops over the ring compute
\* it.
LEMMA Wrap ==
    ASSUME NEW b \in Bufs, NEW n \in 0 .. kStaticSendBuf
    PROVE  (b + n) % kStaticSendBuf \in Bufs /\ After((b + n) % kStaticSendBuf, b, n)
  <1>1. kStaticSendBuf \in Nat \ {0}
    BY RingSize
  <1>2. PICK a \in Nat : a = b + n
    BY <1>1 DEF Bufs
  <1>3. a < 2 * kStaticSendBuf /\ a < 5 * kStaticSendBuf
    BY <1>1, <1>2 DEF Bufs
  <1>4. PICK g \in Groups : /\ g * kStaticSendBuf <= a /\ a < (g + 1) * kStaticSendBuf
                            /\ a \div kStaticSendBuf = g
                            /\ a % kStaticSendBuf = a - g * kStaticSendBuf
    BY <1>1, <1>3, GroupOf, Zenon
  <1>5. PICK r : r = a % kStaticSendBuf
    OBVIOUS
  <1>6. r \in 0 .. kStaticSendBuf - 1 /\ (r = b + n \/ r = b + n - kStaticSendBuf)
    BY <1>1, <1>2, <1>3, <1>4, <1>5 DEF Groups, Bufs
  <1> QED
    BY <1>2, <1>5, <1>6 DEF Bufs, After

\* Places add up, over at most one round.
LEMMA AfterAdd ==
    ASSUME NEW x \in Bufs, NEW y \in Bufs, NEW z \in Bufs, NEW m \in Nat, NEW n \in Nat,
           m + n <= kStaticSendBuf, After(y, x, m), After(z, y, n)
    PROVE  After(z, x, m + n)
  BY RingSize DEF After, Bufs

\* and subtract.
LEMMA AfterSub ==
    ASSUME NEW x \in Bufs, NEW y \in Bufs, NEW z \in Bufs, NEW m \in Nat, NEW n \in Nat,
           m <= n, n <= kStaticSendBuf, After(y, x, m), After(z, x, n)
    PROVE  After(z, y, n - m)
  BY RingSize DEF After, Bufs

\* A position is reached after one number of places only, less than a round.
LEMMA AfterUnique ==
    ASSUME NEW x \in Bufs, NEW y \in Bufs, NEW m \in Nat, NEW n \in Nat,
           m < kStaticSendBuf, n < kStaticSendBuf, After(y, x, m), After(y, x, n)
    PROVE  m = n
  BY RingSize DEF After, Bufs

-----------------------------------------------------------------------------
(* Posting. *)

\* An element of a sequence of requests is a request.
LEMMA SeqElement ==
    ASSUME NEW q \in Seq([buf : Bufs, signaled : BOOLEAN]), NEW i \in 1 .. Len(q)
    PROVE  /\ q[i] \in [buf : Bufs, signaled : BOOLEAN]
           /\ q[i].buf \in Bufs /\ q[i].signaled \in BOOLEAN
  <1> DEFINE Requests == [buf : Bufs, signaled : BOOLEAN]
  <1>1. q[i] \in Requests
    <2> HIDE DEF Requests
    <2>1. q \in Seq(Requests)
      BY DEF Requests
    <2> QED
      BY <2>1
  <1> QED
    BY <1>1

\* The types of the ring alone.
LEMMA RingNumbers ==
    ASSUME RingTypeOK
    PROVE  /\ send_buf_pos \in Bufs /\ send_begin_id \in Bufs
           /\ send_pending_cnt \in Nat /\ send_counter \in Nat
           /\ send_cnt_bf_signal \in Nat /\ send_cnt_bf_signal < kMaxSignal
           /\ Len(nic) \in Nat
           /\ \A i \in 1 .. Len(nic) : nic[i].buf \in Bufs
  <1>1. nic \in Seq([buf : Bufs, signaled : BOOLEAN])
    BY DEF RingTypeOK
  <1>2. \A i \in 1 .. Len(nic) : nic[i].buf \in Bufs
    BY <1>1, SeqElement
  <1> QED
    BY <1>1, <1>2, RingSize DEF RingTypeOK

\* The requests that Post hands to the card stand behind those it has.
LEMMA IssuedPlaces ==
    ASSUME RingInv, Post
    PROVE  /\ nic' \in Seq([buf : Bufs, signaled : BOOLEAN])
           /\ Len(nic') = Len(nic) + send_pending_cnt
           /\ \A i \in 1 .. Len(nic) : nic'[i] = nic[i]
           /\ \A j \in 1 .. send_pending_cnt :
                  /\ nic'[Len(nic) + j].buf = (send_begin_id + j - 1) % kStaticSendBuf
                  /\ nic'[Len(nic) + j].signaled = Signaled(j)
  <1>1. /\ send_pending_cnt \in Nat /\ nic \in Seq([buf : Bufs, signaled : BOOLEAN])
        /\ send_pending_cnt <= kStaticSendBuf
    BY RingSize DEF RingInv, RingTypeOK
  <1>2. Issued \in Seq([buf : Bufs, signaled : BOOLEAN])
    <2>1. ASSUME NEW j \in 1 .. send_pending_cnt
          PROVE  (send_begin_id + j - 1) % kStaticSendBuf \in Bufs /\ Signaled(j) \in BOOLEAN
      <3>1. j - 1 \in 0 .. kStaticSendBuf /\ send_begin_id \in Bufs
        BY <1>1, RingNumbers, RingSize DEF RingInv
      <3>2. (send_begin_id + (j - 1)) % kStaticSendBuf \in Bufs
        BY <3>1, Wrap
      <3>3. send_begin_id + j - 1 = send_begin_id + (j - 1)
        BY <3>1, RingSize DEF Bufs
      <3> QED
        BY <3>2, <3>3 DEF Signaled
    <2> QED
      BY <1>1, <2>1 DEF Issued
  <1>3. Len(Issued) = send_pending_cnt
    BY <1>1, <1>2 DEF Issued
  <1>4. \A j \in 1 .. send_pending_cnt :
            /\ Issued[j].buf = (send_begin_id + j - 1) % kStaticSendBuf
            /\ Issued[j].signaled = Signaled(j)
    BY DEF Issued
  <1>5. nic' = nic \o Issued
    BY DEF Post
  <1> HIDE DEF Issued
  <1> QED
    BY <1>1, <1>2, <1>3, <1>4, <1>5

\* What Post leaves alone and what it counts.
LEMMA PostCounters ==
    ASSUME RingInv, Post, cq' = cq
    PROVE  /\ Counters'
           /\ send_cnt_bf_signal' \in 0 .. kMaxSignal - 1
           /\ send_counter' \in 0 .. kStaticSendBuf
           /\ send_pending_cnt' = 0
  <1>n. /\ send_pending_cnt \in Nat /\ send_counter \in Nat /\ send_cnt_bf_signal \in Nat
        /\ send_cnt_bf_signal < kMaxSignal /\ Len(nic) \in Nat
    BY RingNumbers DEF RingInv
  <1>c. /\ send_counter + send_pending_cnt <= kStaticSendBuf
        /\ Len(nic) <= send_counter
    BY DEF RingInv, Counters
  <1>1. PICK g \in Groups : /\ signal_counter = g
                            /\ send_counter = g * kMaxSignal + send_cnt_bf_signal
    BY DEF RingInv, Counters
  <1>a. PICK a \in Nat : a = send_cnt_bf_signal + send_pending_cnt
    BY <1>n
  <1>2. PICK h \in Groups : /\ h * kMaxSignal <= a /\ a < (h + 1) * kMaxSignal
                            /\ a \div kMaxSignal = h
                            /\ a % kMaxSignal = a - h * kMaxSignal
    <2>1. a < 5 * kMaxSignal /\ kMaxSignal \in Nat \ {0}
      BY <1>n, <1>c, <1>a, RingSize
    <2> QED
      BY <2>1, GroupOf, Zenon
  <1>3. /\ signal_counter' = g + h
        /\ send_cnt_bf_signal' = a - h * kMaxSignal
        /\ send_counter' = send_counter + send_pending_cnt /\ send_pending_cnt' = 0
        /\ Len(nic') = Len(nic) + send_pending_cnt
    BY <1>1, <1>a, <1>2, IssuedPlaces DEF Post
  <1>4. /\ send_cnt_bf_signal' \in 0 .. kMaxSignal - 1
        /\ send_counter' \in 0 .. kStaticSendBuf
    BY <1>n, <1>c, <1>a, <1>2, <1>3, RingSize DEF Groups
  <1>5. g + h \in Groups /\ send_counter' = (g + h) * kMaxSignal + send_cnt_bf_signal'
    BY <1>n, <1>c, <1>a, <1>1, <1>2, <1>3, RingSize DEF Groups
  <1>6. Sent' = Sent
    BY <1>n, <1>3 DEF Sent
  <1>7. \E x \in Groups : /\ cq' = x
                          /\ x * kMaxSignal <= Sent' /\ Sent' < (x + 1) * kMaxSignal
    BY <1>6 DEF RingInv, Counters
  <1> QED
    BY <1>n, <1>c, <1>3, <1>4, <1>5, <1>7 DEF Counters

\* The requests that were with the card and the new ones are again the buffers
\* before send_begin_id.
LEMMA PostPlaces ==
    ASSUME RingInv, Post
    PROVE  Places'
  <1>n. /\ send_buf_pos \in Bufs /\ send_begin_id \in Bufs
        /\ send_pending_cnt \in Nat /\ send_counter \in Nat
        /\ send_cnt_bf_signal \in Nat /\ send_cnt_bf_signal < kMaxSignal /\ Len(nic) \in Nat
        /\ \A i \in 1 .. Len(nic) : nic[i].buf \in Bufs
    BY RingNumbers DEF RingInv
  <1>c. /\ send_counter + send_pending_cnt <= kStaticSendBuf
        /\ Len(nic) <= send_counter
    BY DEF RingInv, Counters
  <1>p. /\ send_begin_id' = send_buf_pos /\ send_buf_pos' = send_buf_pos
        /\ send_pending_cnt' = 0 /\ Len(nic') = Len(nic) + send_pending_cnt
        /\ send_counter' = send_counter + send_pending_cnt
    BY IssuedPlaces DEF Post
  <1>s. Sent' = Sent /\ Sent \in Nat /\ Sent + Len(nic) = send_counter
    BY <1>n, <1>c, <1>p DEF Sent
  <1>a. After(send_buf_pos, send_begin_id, send_pending_cnt)
    BY DEF RingInv, Places
  <1>1. After(send_buf_pos', send_begin_id', send_pending_cnt')
    BY <1>n, <1>p, RingSize DEF After, Bufs
  <1>2. ASSUME NEW i \in 1 .. Len(nic)
        PROVE  /\ After(send_begin_id', nic'[i].buf, Len(nic') - i + 1)
               /\ nic'[i].signaled <=> \E g \in Groups : Sent' + i = g * kMaxSignal
    <2>1. /\ nic'[i] = nic[i] /\ After(send_begin_id, nic[i].buf, Len(nic) - i + 1)
          /\ nic[i].signaled <=> \E g \in Groups : Sent + i = g * kMaxSignal
      BY IssuedPlaces DEF RingInv, Places
    <2>2. After(send_begin_id', nic'[i].buf, Len(nic') - i + 1)
      <3>1. /\ Len(nic) - i + 1 \in Nat
            /\ (Len(nic) - i + 1) + send_pending_cnt <= kStaticSendBuf
            /\ Len(nic') - i + 1 = (Len(nic) - i + 1) + send_pending_cnt
        BY <1>n, <1>c, <1>p, RingSize
      <3>2. After(send_buf_pos, nic[i].buf, (Len(nic) - i + 1) + send_pending_cnt)
        BY <1>n, <1>a, <2>1, <3>1, AfterAdd
      <3> QED
        BY <1>p, <2>1, <3>1, <3>2
    <2> QED
      BY <1>s, <2>1, <2>2
  <1>3. ASSUME NEW j \in 1 .. send_pending_cnt
        PROVE  /\ After(send_begin_id', nic'[Len(nic) + j].buf, Len(nic') - (Len(nic) + j) + 1)
               /\ nic'[Len(nic) + j].signaled
                    <=> \E g \in Groups : Sent' + (Len(nic) + j) = g * kMaxSignal
    <2>1. /\ nic'[Len(nic) + j].buf = (send_begin_id + j - 1) % kStaticSendBuf
          /\ nic'[Len(nic) + j].signaled = Signaled(j)
      BY IssuedPlaces
    <2>2. /\ (send_begin_id + j - 1) % kStaticSendBuf \in Bufs
          /\ After((send_begin_id + j - 1) % kStaticSendBuf, send_begin_id, j - 1)
      <3>1. j - 1 \in 0 .. kStaticSendBuf /\ send_begin_id + (j - 1) = send_begin_id + j - 1
        BY <1>n, <1>c, RingSize DEF Bufs
      <3> QED
        BY <1>n, <3>1, Wrap
    <2>3. /\ j - 1 \in Nat /\ j - 1 <= send_pending_cnt
          /\ send_pending_cnt <= kStaticSendBuf
          /\ Len(nic') - (Len(nic) + j) + 1 = send_pending_cnt - (j - 1)
      BY <1>n, <1>c, <1>p, RingSize
    <2>4. After(send_begin_id', nic'[Len(nic) + j].buf, Len(nic') - (Len(nic) + j) + 1)
      <3>1. After(send_buf_pos, (send_begin_id + j - 1) % kStaticSendBuf,
                  send_pending_cnt - (j - 1))
        BY <1>n, <1>a, <2>2, <2>3, AfterSub
      <3> QED
        BY <1>p, <2>1, <2>3, <3>1
    <2>5. PICK g \in Groups : send_counter = g * kMaxSignal + send_cnt_bf_signal
      BY DEF RingInv, Counters
    <2>a. PICK a \in Nat : a = send_cnt_bf_signal + j
      BY <1>n
    <2>6. PICK h \in Groups : /\ h * kMaxSignal <= a /\ a < (h + 1) * kMaxSignal
                              /\ a \div kMaxSignal = h
                              /\ a % kMaxSignal = a - h * kMaxSignal
      <3>1. a < 5 * kMaxSignal /\ kMaxSignal \in Nat \ {0}
        BY <1>n, <1>c, <2>a, RingSize
      <3> QED
        BY <3>1, GroupOf, Zenon
    <2>7. Signaled(j) <=> a = h * kMaxSignal
      <3>1. Signaled(j) <=> a % kMaxSignal = 0
        BY <2>a DEF Signaled
      <3>2. PICK r : r = a % kMaxSignal
        OBVIOUS
      <3>3. r = 0 <=> a = h * kMaxSignal
        BY <2>6, <3>2, RingSize DEF Groups
      <3> QED
        BY <3>1, <3>2, <3>3
    <2>8. a = h * kMaxSignal <=> \E x \in Groups : send_counter + j = x * kMaxSignal
      BY <1>n, <1>c, <2>a, <2>5, <2>6, RingSize DEF Groups
    <2>9. Sent' + (Len(nic) + j) = send_counter + j
      BY <1>n, <1>s
    <2> QED
      BY <2>1, <2>4, <2>7, <2>8, <2>9
  <1>4. ASSUME NEW i \in 1 .. Len(nic')
        PROVE  /\ After(send_begin_id', nic'[i].buf, Len(nic') - i + 1)
               /\ nic'[i].signaled <=> \E g \in Groups : Sent' + i = g * kMaxSignal
    <2>1. CASE i \in 1 .. Len(nic)
      BY <1>2, <2>1
    <2>2. CASE i \notin 1 .. Len(nic)
      <3>1. PICK j \in 1 .. send_pending_cnt : i = Len(nic) + j
        <4>1. i - Len(nic) \in 1 .. send_pending_cnt /\ i = Len(nic) + (i - Len(nic))
          BY <1>n, <1>p, <2>2
        <4> QED
          BY <4>1
      <3> QED
        BY <1>3, <3>1
    <2> QED
      BY <2>1, <2>2
  <1> QED
    BY <1>1, <1>4 DEF Places, After

-----------------------------------------------------------------------------
(* One lemma per step of the thread and of the card. *)

\* The ring starts empty.
LEMMA RingInit == Init => RingInv
  <1> SUFFICES ASSUME Init PROVE RingInv
    OBVIOUS
  <1>1. RingTypeOK
    <2>1. /\ 0 \in Bufs /\ 0 \in 0 .. kStaticSendBuf /\ 0 \in 0 .. kMaxSignal - 1
          /\ 0 \in 0 .. kMaxWcCnt
      BY RingSize DEF Bufs
    <2>2. nic \in Seq([buf : Bufs, signaled : BOOLEAN]) /\ batch \in Seq(Bufs)
      BY DEF Init
    <2> QED
      BY <2>1, <2>2 DEF Init, RingTypeOK
  <1>2. Counters
    <2>1. /\ send_counter = 0 /\ send_pending_cnt = 0 /\ signal_counter = 0 /\ cq = 0
          /\ send_cnt_bf_signal = 0 /\ Len(nic) = 0
      BY DEF Init
    <2>2. /\ 0 \in Groups /\ 0 = 0 * kMaxSignal + 0
          /\ 0 * kMaxSignal <= Sent /\ Sent < (0 + 1) * kMaxSignal
      BY <2>1, RingSize DEF Groups, Sent
    <2> QED
      BY <2>1, <2>2, RingSize DEF Counters
  <1>3. Places
    BY RingSize DEF Init, Places, After
  <1>4. BatchPlaces
    BY RingSize, RingAssumption DEF Init, BatchPlaces, After
  <1> QED
    BY <1>1, <1>2, <1>3, <1>4 DEF RingInv

\* A poll brings requests and touches no buffer.
LEMMA RingPoll ==
    ASSUME RingInv, Poll
    PROVE  RingInv'
  <1>1. RingTypeOK'
    <2>1. todo' \in 0 .. kMaxWcCnt
      BY RingSize DEF Poll
    <2>2. onpath' \in BOOLEAN /\ polling' \in BOOLEAN
      BY DEF Poll
    <2>3. UNCHANGED <<batch_size, ringVars, nic, cq, batch>>
      BY DEF Poll
    <2> QED
      BY <2>1, <2>2, <2>3 DEF ringVars, RingInv, RingTypeOK, Bufs, kStaticSendBuf
  <1>2. Counters' /\ Places'
    <2>1. UNCHANGED <<ringVars, nic, cq>>
      BY DEF Poll
    <2>2. Sent' = Sent
      BY <2>1 DEF ringVars, Sent
    <2>3. Counters'
      BY <2>1, <2>2 DEF ringVars, RingInv, Counters, kStaticSendBuf
    <2>4. Places'
      BY <2>1, <2>2 DEF ringVars, RingInv, Places, After, kStaticSendBuf
    <2> QED
      BY <2>3, <2>4
  <1>3. BatchPlaces'
    <2>1. /\ batch' = batch /\ batch_size' = batch_size /\ polling' = FALSE
          /\ todo' \in 1 .. kMaxWcCnt /\ Len(batch) < batch_size
          /\ Len(batch) \in Nat /\ batch_size \in Nat
      BY RingAssumption DEF Poll, ringVars, RingInv, BatchPlaces, RingTypeOK
    <2>2. Fits' = Fits /\ UNCHANGED <<send_pending_cnt, send_begin_id>>
      BY DEF Poll, ringVars, Fits, kStaticSendBuf
    <2>3. Len(batch) + todo' <= batch_size - 1 + kMaxWcCnt
      BY <2>1, RingSize
    <2> QED
      BY <2>1, <2>2, <2>3 DEF RingInv, BatchPlaces, After, kStaticSendBuf
  <1> QED
    BY <1>1, <1>2, <1>3 DEF RingInv

\* A reply takes the buffer at send_buf_pos.
LEMMA RingReceive ==
    ASSUME RingInv, Receive
    PROVE  RingInv'
  <1>n. /\ send_buf_pos \in Bufs /\ send_begin_id \in Bufs
        /\ send_pending_cnt \in Nat /\ send_counter \in Nat
        /\ send_counter + send_pending_cnt < kStaticSendBuf
        /\ batch \in Seq(Bufs) /\ todo \in Nat /\ todo > 0 /\ todo <= kMaxWcCnt
        /\ batch_size \in Nat
    BY RingNumbers, RingSize, RingAssumption DEF RingInv, RingTypeOK, Receive, Room
  <1>r. /\ batch' = Append(batch, send_buf_pos) /\ send_pending_cnt' = send_pending_cnt + 1
        /\ send_buf_pos' = (send_buf_pos + 1) % kStaticSendBuf /\ todo' = todo - 1
        /\ UNCHANGED <<batch_size, send_begin_id, send_counter, send_cnt_bf_signal,
                       signal_counter, nic, cq, onpath, polling>>
    BY DEF Receive, ADD_ROUND
  <1>a. After(send_buf_pos, send_begin_id, send_pending_cnt)
    BY DEF RingInv, Places
  <1>1. /\ send_buf_pos' \in Bufs
        /\ After(send_buf_pos', send_begin_id, send_pending_cnt + 1)
    <2>1. 1 \in 0 .. kStaticSendBuf
      BY RingSize
    <2>2. send_buf_pos' \in Bufs /\ After(send_buf_pos', send_buf_pos, 1)
      BY <1>n, <1>r, <2>1, Wrap
    <2>3. send_pending_cnt + 1 <= kStaticSendBuf
      BY <1>n, RingSize
    <2> QED
      BY <1>n, <1>a, <2>2, <2>3, AfterAdd
  <1>2. RingTypeOK'
    <2>1. /\ send_pending_cnt' \in 0 .. kStaticSendBuf /\ todo' \in 0 .. kMaxWcCnt
          /\ batch' \in Seq(Bufs)
      BY <1>n, <1>r, RingSize
    <2> QED
      BY <1>r, <1>1, <2>1 DEF RingInv, RingTypeOK, Bufs, kStaticSendBuf
  <1>3. Counters'
    <2>1. send_counter + send_pending_cnt' <= kStaticSendBuf
      BY <1>n, <1>r, RingSize
    <2> QED
      BY <1>r, <2>1 DEF RingInv, Counters, Sent, kStaticSendBuf
  <1>4. Places'
    BY <1>r, <1>1 DEF RingInv, Places, Sent, After, kStaticSendBuf
  <1>5. BatchPlaces'
    <2>1. Len(batch') = Len(batch) + 1 /\ Len(batch) \in Nat /\ ~ polling
      BY <1>n, <1>r DEF Receive
    <2>2. Len(batch') + todo' <= batch_size' - 1 + kMaxWcCnt
      <3>1. Len(batch) + todo <= batch_size - 1 + kMaxWcCnt
        BY DEF RingInv, BatchPlaces
      <3> QED
        BY <1>n, <1>r, <2>1, <3>1, RingSize
    <2>3. ASSUME Fits'
          PROVE  /\ Len(batch') = send_pending_cnt'
                 /\ \A i \in 1 .. Len(batch') : After(batch'[i], send_begin_id', i - 1)
      <3>1. /\ Len(batch) = send_pending_cnt
            /\ \A i \in 1 .. Len(batch) : After(batch[i], send_begin_id, i - 1)
        BY <1>r, <2>3 DEF RingInv, BatchPlaces, Fits, kStaticSendBuf
      <3>2. ASSUME NEW i \in 1 .. Len(batch')
            PROVE  After(batch'[i], send_begin_id, i - 1)
        <4>1. CASE i \in 1 .. Len(batch)
          BY <1>n, <1>r, <3>1, <4>1
        <4>2. CASE i = Len(batch) + 1
          <5>1. batch'[i] = send_buf_pos /\ i - 1 = send_pending_cnt
            BY <1>n, <1>r, <2>1, <3>1, <4>2
          <5> QED
            BY <1>a, <5>1
        <4> QED
          BY <2>1, <4>1, <4>2
      <3> QED
        BY <1>r, <2>1, <3>1, <3>2
    <2> QED
      BY <1>r, <2>1, <2>2, <2>3 DEF BatchPlaces, After, kStaticSendBuf
  <1> QED
    BY <1>2, <1>3, <1>4, <1>5 DEF RingInv

\* The completion of a signalled request gives its group back.
LEMMA RingPollSend ==
    ASSUME RingInv, PollSend
    PROVE  RingInv'
  <1>p. /\ cq > 0 /\ cq' = cq - 1 /\ signal_counter' = signal_counter - 1
        /\ send_counter' = send_counter - kMaxSignal
        /\ UNCHANGED <<batch_size, send_buf_pos, send_begin_id, send_pending_cnt,
                       send_cnt_bf_signal, nic, batch, todo, onpath, polling>>
    BY DEF PollSend
  <1>n. /\ send_pending_cnt \in Nat /\ send_counter \in Nat /\ send_cnt_bf_signal \in Nat
        /\ send_cnt_bf_signal < kMaxSignal /\ Len(nic) \in Nat
        /\ send_counter + send_pending_cnt <= kStaticSendBuf /\ Len(nic) <= send_counter
    BY RingNumbers DEF RingInv, Counters
  <1>1. PICK g \in Groups : /\ signal_counter = g
                            /\ send_counter = g * kMaxSignal + send_cnt_bf_signal
    BY DEF RingInv, Counters
  <1>2. PICK h \in Groups : /\ cq = h
                            /\ h * kMaxSignal <= Sent /\ Sent < (h + 1) * kMaxSignal
    BY DEF RingInv, Counters
  <1>3. Sent \in Nat /\ Sent' = Sent - kMaxSignal /\ Sent >= kMaxSignal
        /\ Sent + Len(nic) = send_counter
    <2>1. Sent \in Nat /\ Sent' = Sent - kMaxSignal /\ Sent + Len(nic) = send_counter
      BY <1>n, <1>p, RingSize DEF Sent
    <2> QED
      BY <1>2, <1>p, <2>1, RingSize DEF Groups
  <1>4. Counters'
    <2>1. /\ send_counter' + send_pending_cnt' <= kStaticSendBuf
          /\ Len(nic') <= send_counter' /\ send_counter' \in Nat
      BY <1>n, <1>p, <1>3, RingSize
    <2>2. /\ g - 1 \in Groups
          /\ send_counter' = (g - 1) * kMaxSignal + send_cnt_bf_signal
      BY <1>n, <1>p, <1>1, <1>3, RingSize DEF Groups
    <2>3. /\ h - 1 \in Groups
          /\ (h - 1) * kMaxSignal <= Sent' /\ Sent' < ((h - 1) + 1) * kMaxSignal
      BY <1>p, <1>2, <1>3, RingSize DEF Groups
    <2> QED
      BY <1>p, <1>1, <1>2, <2>1, <2>2, <2>3 DEF Counters
  <1>5. Places'
    <2>1. ASSUME NEW i \in 1 .. Len(nic)
          PROVE  (\E x \in Groups : Sent + i = x * kMaxSignal)
                   <=> \E x \in Groups : Sent' + i = x * kMaxSignal
      BY <1>n, <1>3, RingSize DEF Groups
    <2> QED
      BY <1>p, <2>1 DEF RingInv, Places, After, kStaticSendBuf
  <1>6. RingTypeOK'
    <2>1. send_counter' \in 0 .. kStaticSendBuf /\ signal_counter' \in Nat /\ cq' \in Nat
      BY <1>n, <1>p, <1>1, <1>2, <1>3, RingSize DEF Groups
    <2> QED
      BY <1>p, <2>1 DEF RingInv, RingTypeOK, Bufs, kStaticSendBuf
  <1>7. BatchPlaces'
    BY <1>p DEF RingInv, BatchPlaces, Fits, After, kStaticSendBuf
  <1> QED
    BY <1>4, <1>5, <1>6, <1>7 DEF RingInv

\* What Post leaves of the types.
LEMMA PostType ==
    ASSUME RingInv, Post, UNCHANGED <<batch_size, cq>>, batch' \in Seq(Bufs),
           todo' = todo, onpath' = onpath, polling' \in BOOLEAN
    PROVE  RingTypeOK'
  <1>1. nic' \in Seq([buf : Bufs, signaled : BOOLEAN])
    BY IssuedPlaces
  <1>2. /\ send_cnt_bf_signal' \in 0 .. kMaxSignal - 1
        /\ send_counter' \in 0 .. kStaticSendBuf
        /\ send_pending_cnt' = 0 /\ Counters'
    BY PostCounters
  <1>3. signal_counter' \in Nat
    BY <1>2 DEF Counters, Groups
  <1>4. send_pending_cnt' \in 0 .. kStaticSendBuf
    BY <1>2, RingSize
  <1>5. send_begin_id' = send_buf_pos /\ send_buf_pos' = send_buf_pos
    BY DEF Post
  <1> QED
    BY <1>1, <1>2, <1>3, <1>4, <1>5 DEF RingInv, RingTypeOK, Bufs, kStaticSendBuf

\* A batch that fits never fills the ring before it is applied: a full ring has
\* posted requests of a whole signal group.
LEMMA FullRing ==
    ASSUME RingInv, Fits, todo > 0, ~ Room
    PROVE  send_counter >= kMaxSignal
  <1>1. /\ Len(batch) = send_pending_cnt
        /\ Len(batch) + todo <= batch_size - 1 + kMaxWcCnt
    BY DEF RingInv, BatchPlaces
  <1>2. /\ send_pending_cnt \in Nat /\ send_counter \in Nat /\ todo \in Nat
        /\ batch_size \in Nat
    BY RingNumbers, RingAssumption DEF RingInv, RingTypeOK
  <1> QED
    BY <1>1, <1>2, RingSize DEF Room, Fits

\* Replies that are not applied are only posted when the batch does not fit.
LEMMA RingEarlyPost ==
    ASSUME RingInv, EarlyPost
    PROVE  RingInv'
  <1>1. /\ Post /\ todo > 0 /\ ~ Room /\ send_counter = 0
        /\ UNCHANGED <<batch_size, cq, batch, todo, onpath, polling>>
    BY DEF EarlyPost
  <1>2. ~ Fits
    BY <1>1, FullRing, RingSize
  <1>3. RingTypeOK'
    BY <1>1, PostType DEF RingInv, RingTypeOK
  <1>4. Counters' /\ Places'
    BY <1>1, PostCounters, PostPlaces
  <1>5. BatchPlaces'
    BY <1>1, <1>2 DEF RingInv, BatchPlaces, Fits, kStaticSendBuf
  <1> QED
    BY <1>3, <1>4, <1>5 DEF RingInv

\* The end of a poll leaves the batch open or posts all its replies.
LEMMA RingEndPoll ==
    ASSUME RingInv, EndPoll
    PROVE  RingInv'
  <1>1. /\ todo = 0 /\ polling' = TRUE
        /\ UNCHANGED <<batch_size, cq, todo, onpath>>
    BY DEF EndPoll
  <1>n. Len(batch) \in Nat /\ batch_size \in Nat \ {0} /\ kMaxWcCnt \in Nat \ {0}
    BY RingAssumption DEF RingInv, RingTypeOK
  <1>2. CASE Waits /\ UNCHANGED <<ringVars, nic, batch>>
    <2>1. Sent' = Sent
      BY <1>2 DEF Sent, ringVars
    <2>2. RingTypeOK'
      BY <1>1, <1>2 DEF ringVars, RingInv, RingTypeOK, Bufs, kStaticSendBuf
    <2>3. Counters'
      BY <1>1, <1>2, <2>1 DEF ringVars, RingInv, Counters, kStaticSendBuf
    <2>4. Places'
      BY <1>1, <1>2, <2>1 DEF ringVars, RingInv, Places, After, kStaticSendBuf
    <2>5. BatchPlaces'
      BY <1>1, <1>2 DEF ringVars, RingInv, BatchPlaces, Waits, Fits, After, kStaticSendBuf
    <2> QED
      BY <2>2, <2>3, <2>4, <2>5 DEF RingInv
  <1>3. CASE ~ Waits /\ batch' = <<>> /\ Post
    <2>1. RingTypeOK'
      BY <1>1, <1>3, PostType
    <2>2. Counters' /\ Places' /\ send_pending_cnt' = 0
      BY <1>1, <1>3, PostCounters, PostPlaces
    <2>3. Len(batch') = 0
      BY <1>3
    <2>4. BatchPlaces'
      BY <1>n, <1>1, <2>2, <2>3 DEF BatchPlaces
    <2> QED
      BY <2>1, <2>2, <2>4 DEF RingInv
  <1> QED
    BY <1>2, <1>3 DEF EndPoll

\* The card sends the oldest request.
LEMMA RingTransmit ==
    ASSUME RingInv, Transmit
    PROVE  RingInv'
  <1>t. /\ nic # <<>> /\ nic' = Tail(nic)
        /\ cq' = IF Head(nic).signaled THEN cq + 1 ELSE cq
        /\ UNCHANGED <<batch_size, send_buf_pos, send_begin_id, send_pending_cnt,
                       send_counter, send_cnt_bf_signal, signal_counter, batch, todo,
                       onpath, polling>>
    BY DEF Transmit, ringVars
  <1>n. /\ send_pending_cnt \in Nat /\ send_counter \in Nat /\ Len(nic) \in Nat
        /\ send_counter + send_pending_cnt <= kStaticSendBuf /\ Len(nic) <= send_counter
        /\ nic \in Seq([buf : Bufs, signaled : BOOLEAN])
    BY RingNumbers DEF RingInv, RingTypeOK, Counters
  <1>l. /\ Len(nic) > 0 /\ Len(nic') = Len(nic) - 1
        /\ nic' \in Seq([buf : Bufs, signaled : BOOLEAN])
        /\ Head(nic) = nic[1]
        /\ \A i \in 1 .. Len(nic') : i + 1 \in 1 .. Len(nic) /\ nic'[i] = nic[i + 1]
    BY <1>t, <1>n
  <1>s. Sent' = Sent + 1 /\ Sent \in Nat /\ Sent + Len(nic) = send_counter
    BY <1>t, <1>n, <1>l DEF Sent
  <1>1. Places'
    <2>1. ASSUME NEW i \in 1 .. Len(nic')
          PROVE  /\ After(send_begin_id, nic'[i].buf, Len(nic') - i + 1)
                 /\ nic'[i].signaled <=> \E g \in Groups : Sent' + i = g * kMaxSignal
      <3>1. /\ i + 1 \in 1 .. Len(nic) /\ nic'[i] = nic[i + 1]
            /\ Len(nic') - i + 1 = Len(nic) - (i + 1) + 1
            /\ Sent' + i = Sent + (i + 1)
        BY <1>n, <1>l, <1>s
      <3> QED
        BY <3>1 DEF RingInv, Places
    <2> QED
      BY <1>t, <2>1 DEF RingInv, Places, After, kStaticSendBuf
  <1>2. PICK h \in Groups : /\ cq = h
                            /\ h * kMaxSignal <= Sent /\ Sent < (h + 1) * kMaxSignal
    BY DEF RingInv, Counters
  <1>3. Head(nic).signaled <=> \E g \in Groups : Sent + 1 = g * kMaxSignal
    BY <1>n, <1>l DEF RingInv, Places
  <1>4. \E g \in Groups : /\ cq' = g
                          /\ g * kMaxSignal <= Sent' /\ Sent' < (g + 1) * kMaxSignal
    <2>1. CASE Head(nic).signaled
      <3>1. PICK g \in Groups : Sent + 1 = g * kMaxSignal
        BY <1>3, <2>1
      <3>2. h + 1 \in Groups /\ g = h + 1
        BY <1>2, <1>s, <3>1, RingSize DEF Groups
      <3>3. (h + 1) * kMaxSignal <= Sent' /\ Sent' < ((h + 1) + 1) * kMaxSignal
        BY <1>2, <1>s, <3>1, <3>2, RingSize DEF Groups
      <3> QED
        BY <1>t, <1>2, <2>1, <3>2, <3>3
    <2>2. CASE ~ Head(nic).signaled
      <3>1. Sent + 1 # (h + 1) * kMaxSignal
        <4>1. CASE h + 1 \in Groups
          BY <1>3, <2>2, <4>1
        <4>2. CASE h = 4
          BY <1>n, <1>l, <1>s, <1>2, <4>2, RingSize
        <4> QED
          BY <4>1, <4>2 DEF Groups
      <3>2. h * kMaxSignal <= Sent' /\ Sent' < (h + 1) * kMaxSignal
        BY <1>2, <1>s, <3>1, RingSize DEF Groups
      <3> QED
        BY <1>t, <1>2, <2>2, <3>2
    <2> QED
      BY <2>1, <2>2
  <1>5. Counters'
    <2>1. Len(nic') <= send_counter
      BY <1>n, <1>l
    <2> QED
      BY <1>t, <1>n, <1>4, <2>1 DEF RingInv, Counters, kStaticSendBuf
  <1>6. RingTypeOK'
    <2>1. cq' \in Nat
      BY <1>4 DEF Groups
    <2> QED
      BY <1>t, <1>l, <2>1 DEF RingInv, RingTypeOK, Bufs, kStaticSendBuf
  <1>7. BatchPlaces'
    BY <1>t DEF RingInv, BatchPlaces, Fits, After, kStaticSendBuf
  <1> QED
    BY <1>1, <1>5, <1>6, <1>7 DEF RingInv

-----------------------------------------------------------------------------
(***************************************************************************)
(* The counters of QPInfo describe the ring after every step of the thread *)
(* and of the card: the inductive invariant.                               *)
(***************************************************************************)
LEMMA RingInvariant == Spec => []RingInv
  <1>1. RingInv /\ [Next]_vars => RingInv'
    <2> SUFFICES ASSUME RingInv, [Next]_vars PROVE RingInv'
      OBVIOUS
    <2>1. CASE UNCHANGED vars
      BY <2>1 DEF vars, ringVars, RingInv, RingTypeOK, Counters, Places, BatchPlaces,
                  Sent, After, Fits, Bufs, kStaticSendBuf
    <2> QED
      BY <2>1, RingPoll, RingReceive, RingEarlyPost, RingPollSend, RingEndPoll,
         RingTransmit DEF Next
  <1> QED
    BY <1>1, RingInit, PTL DEF Spec

\* The appended replies lie from send_begin_id on.
LEMMA PendingPlaces ==
    ASSUME RingInv
    PROVE  /\ \A b \in PendingBufs : b \in Bufs /\ \E m \in Nat : /\ m < send_pending_cnt
                                                               /\ After(b, send_begin_id, m)
           /\ \A m \in Nat, b \in Bufs :
                  m < send_pending_cnt /\ After(b, send_begin_id, m) => b \in PendingBufs
  <1>n. /\ send_begin_id \in Bufs /\ send_pending_cnt \in Nat
        /\ send_pending_cnt <= kStaticSendBuf
    BY RingSize DEF RingInv, RingTypeOK
  <1>1. ASSUME NEW m \in Nat, m < send_pending_cnt
        PROVE  /\ (send_begin_id + m) % kStaticSendBuf \in Bufs
               /\ After((send_begin_id + m) % kStaticSendBuf, send_begin_id, m)
    <2>1. m \in 0 .. kStaticSendBuf
      BY <1>n, <1>1, RingSize
    <2> QED
      BY <1>n, <2>1, Wrap
  <1>2. ASSUME NEW b \in PendingBufs
        PROVE  b \in Bufs /\ \E m \in Nat : m < send_pending_cnt /\ After(b, send_begin_id, m)
    <2>1. PICK m \in 0 .. send_pending_cnt - 1 : b = (send_begin_id + m) % kStaticSendBuf
      BY DEF PendingBufs
    <2>2. m \in Nat /\ m < send_pending_cnt
      BY <1>n
    <2> QED
      BY <1>1, <2>1, <2>2
  <1>3. ASSUME NEW m \in Nat, NEW b \in Bufs, m < send_pending_cnt, After(b, send_begin_id, m)
        PROVE  b \in PendingBufs
    <2>1. PICK c \in Bufs : c = (send_begin_id + m) % kStaticSendBuf
      BY <1>1, <1>3
    <2>2. After(c, send_begin_id, m)
      BY <1>1, <1>3, <2>1
    <2>3. b = c
      BY <1>n, <1>3, <2>2, RingSize DEF After, Bufs
    <2>4. m \in 0 .. send_pending_cnt - 1
      BY <1>n, <1>3
    <2> QED
      BY <2>1, <2>3, <2>4 DEF PendingBufs
  <1> QED
    BY <1>2, <1>3

(***************************************************************************)
(* RingTypeCorrect: the counters of QPInfo never leave their ranges: the   *)
(* subtraction of a whole group in modify_send_qp_info_by_wc never goes    *)
(* below zero, and no position leaves the ring.                            *)
(***************************************************************************)
THEOREM RingTypeCorrect == Spec => []RingTypeOK
  <1>1. RingInv => RingTypeOK
    BY DEF RingInv
  <1> QED
    BY <1>1, RingInvariant, PTL

(***************************************************************************)
(* RingInFlight: get_send_msg_sg never hands out a buffer the card has     *)
(* still to read, and none that is still filled in is with the card,       *)
(* whatever the batch size, also when the ring is posted early.            *)
(***************************************************************************)
THEOREM RingInFlight == Spec => []InFlightUntouched
  <1>1. ASSUME RingInv PROVE InFlightUntouched
    <2> SUFFICES ASSUME NEW i \in 1 .. Len(nic)
                 PROVE  /\ nic[i].buf \notin PendingBufs
                        /\ Room => nic[i].buf # send_buf_pos
      <3>1. DOMAIN nic = 1 .. Len(nic)
        BY <1>1 DEF RingInv, RingTypeOK
      <3> QED
        BY <3>1 DEF InFlightUntouched
    <2>n. /\ send_buf_pos \in Bufs /\ send_begin_id \in Bufs
          /\ send_pending_cnt \in Nat /\ send_counter \in Nat /\ Len(nic) \in Nat
          /\ send_counter + send_pending_cnt <= kStaticSendBuf /\ Len(nic) <= send_counter
          /\ After(send_buf_pos, send_begin_id, send_pending_cnt)
      BY <1>1, RingNumbers DEF RingInv, Counters, Places
    <2>1. PICK b \in Bufs : b = nic[i].buf
      BY <1>1, RingNumbers DEF RingInv
    <2>2. After(send_begin_id, b, Len(nic) - i + 1)
      BY <1>1, <2>1 DEF RingInv, Places
    <2>3. PICK n \in Nat : /\ n = Len(nic) - i + 1 /\ n > 0
                           /\ n + send_pending_cnt <= kStaticSendBuf
      BY <2>n, RingSize
    <2>4. ASSUME NEW m \in Nat, m + n < kStaticSendBuf, After(b, send_begin_id, m)
          PROVE  FALSE
      BY <2>n, <2>2, <2>3, <2>4, RingSize DEF After, Bufs
    <2>5. b \notin PendingBufs
      <3> SUFFICES ASSUME b \in PendingBufs PROVE FALSE
        OBVIOUS
      <3>1. PICK m \in Nat : m < send_pending_cnt /\ After(b, send_begin_id, m)
        BY <1>1, PendingPlaces
      <3>2. m + n < kStaticSendBuf
        BY <2>n, <2>3, <3>1, RingSize
      <3> QED
        BY <2>4, <3>1, <3>2
    <2>6. ASSUME Room, b = send_buf_pos
          PROVE  FALSE
      <3>1. send_pending_cnt + n < kStaticSendBuf
        BY <2>n, <2>3, <2>6, RingSize DEF Room
      <3> QED
        BY <2>n, <2>4, <2>6, <3>1
    <2> QED
      BY <2>1, <2>5, <2>6
  <1> QED
    BY <1>1, RingInvariant, PTL

(***************************************************************************)
(* RingCompletions: at most four signalled requests are outstanding, so    *)
(* that a completion queue longer than that never fills up and             *)
(* check_signal has nothing to do. The code asks for FLAGS_cq_len entries, *)
(* 65536 by default.                                                       *)
(***************************************************************************)
THEOREM RingCompletions ==
    ASSUME cq_len > 4
    PROVE  Spec => []CompletionsFit
  <1>1. ASSUME RingInv PROVE CompletionsFit
    <2>1. PICK g \in Groups : /\ signal_counter = g
                              /\ send_counter = g * kMaxSignal + send_cnt_bf_signal
      BY <1>1 DEF RingInv, Counters
    <2>2. PICK h \in Groups : /\ cq = h
                              /\ h * kMaxSignal <= Sent /\ Sent < (h + 1) * kMaxSignal
      BY <1>1 DEF RingInv, Counters
    <2>3. Sent <= send_counter /\ send_counter \in Nat /\ Sent \in Nat
          /\ send_cnt_bf_signal \in Nat /\ send_cnt_bf_signal < kMaxSignal
      BY <1>1, RingNumbers DEF RingInv, Counters, Sent
    <2>4. h <= g /\ g <= 4 /\ g \in Nat
      BY <2>1, <2>2, <2>3, RingSize DEF Groups
    <2> QED
      BY <2>1, <2>2, <2>4, RingAssumption DEF CompletionsFit
  <1> QED
    BY <1>1, RingInvariant, PTL

(***************************************************************************)
(* RingReplies: until a batch that fits in the ring is applied, each entry *)
(* keeps a reply buffer of its own that is not with the card: the key and  *)
(* the log id the batch is applied from are those the request brought.     *)
(***************************************************************************)
THEOREM RingReplies == Spec => []RepliesPrivate
  <1>1. ASSUME RingInv, Fits
        PROVE  /\ \A i, j \in DOMAIN batch : i # j => batch[i] # batch[j]
               /\ \A i \in DOMAIN batch : batch[i] \in PendingBufs
    <2>n. /\ send_begin_id \in Bufs /\ send_pending_cnt \in Nat
          /\ send_pending_cnt <= kStaticSendBuf
          /\ batch \in Seq(Bufs) /\ Len(batch) = send_pending_cnt
          /\ \A i \in 1 .. Len(batch) : After(batch[i], send_begin_id, i - 1)
      BY <1>1, RingSize DEF RingInv, RingTypeOK, BatchPlaces
    <2>1. DOMAIN batch = 1 .. send_pending_cnt
      BY <2>n
    <2>2. ASSUME NEW i \in 1 .. send_pending_cnt
          PROVE  /\ i - 1 \in Nat /\ i - 1 < send_pending_cnt /\ i - 1 < kStaticSendBuf
                 /\ batch[i] \in Bufs /\ After(batch[i], send_begin_id, i - 1)
      BY <2>n, RingSize
    <2>3. ASSUME NEW i \in 1 .. send_pending_cnt, NEW j \in 1 .. send_pending_cnt,
                 batch[i] = batch[j]
          PROVE  i = j
      <3>1. i - 1 = j - 1
        BY <2>n, <2>2, <2>3, AfterUnique
      <3> QED
        BY <2>n, <3>1
    <2>4. ASSUME NEW i \in 1 .. send_pending_cnt
          PROVE  batch[i] \in PendingBufs
      BY <1>1, <2>2, PendingPlaces
    <2> QED
      BY <2>1, <2>3, <2>4
  <1>2. RingInv => RepliesPrivate
    BY <1>1 DEF RepliesPrivate
  <1> QED
    BY <1>2, RingInvariant, PTL

(***************************************************************************)
(* CompletionComes: when get_send_msg_sg spins in poll_cq_a_wc, a          *)
(* completion is already there or a request that will bring one is with    *)
(* the card. Without it the thread spins for ever, as ServerReturns shows  *)
(* for a batch that does not fit.                                          *)
(***************************************************************************)
CompletionComes ==
    Fits /\ todo > 0 /\ ~ Room => cq > 0 \/ \E i \in 1 .. Len(nic) : nic[i].signaled

(***************************************************************************)
(* RingProgress: with a batch that fits the thread never waits for a       *)
(* completion that no posted request will bring: what makes FittingReturns *)
(* hold.                                                                   *)
(***************************************************************************)
THEOREM RingProgress == Spec => []CompletionComes
  <1>1. ASSUME RingInv, Fits, todo > 0, ~ Room, ~ (cq > 0)
        PROVE  \E i \in 1 .. Len(nic) : nic[i].signaled
    <2>n. /\ send_counter >= kMaxSignal /\ send_counter \in Nat /\ Len(nic) \in Nat
          /\ Len(nic) <= send_counter
      BY <1>1, FullRing, RingNumbers DEF RingInv, Counters
    <2>1. Sent < kMaxSignal /\ Sent \in Nat /\ Sent + Len(nic) = send_counter
      <3>1. PICK h \in Groups : /\ cq = h
                                /\ h * kMaxSignal <= Sent /\ Sent < (h + 1) * kMaxSignal
        BY <1>1 DEF RingInv, Counters
      <3>2. h = 0
        BY <1>1, <3>1 DEF Groups
      <3> QED
        BY <2>n, <3>1, <3>2, RingSize DEF Sent
    <2>2. PICK i \in 1 .. Len(nic) : Sent + i = kMaxSignal
      <3>1. kMaxSignal - Sent \in 1 .. Len(nic) /\ Sent + (kMaxSignal - Sent) = kMaxSignal
        BY <2>n, <2>1, RingSize
      <3> QED
        BY <3>1
    <2>3. 1 \in Groups /\ Sent + i = 1 * kMaxSignal
      BY <2>2, RingSize DEF Groups
    <2>4. nic[i].signaled <=> \E g \in Groups : Sent + i = g * kMaxSignal
      BY <1>1 DEF RingInv, Places
    <2> QED
      BY <2>3, <2>4
  <1>2. RingInv => CompletionComes
    BY <1>1 DEF CompletionComes
  <1> QED
    BY <1>2, RingInvariant, PTL
=============================================================================
