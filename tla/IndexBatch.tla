---------------------------- MODULE IndexBatch ----------------------------
(***************************************************************************)
(* How KvRpc::server_batch_CPC applies a batch of index requests: it sorts *)
(* them by key and, within a key, by descending timestamp (batchEntry::    *)
(* operator<), then walks the sorted batch and lets only the first update  *)
(* of each key touch the index. Reads carry timestamp 0 and come last, so  *)
(* that they are answered with the effect of the batch.                    *)
(*                                                                         *)
(* A batch is a sequence of packets in order of arrival, which is also the *)
(* order of the replies in the send ring: the sort moves only batchEntry   *)
(* records, each with the address of its reply.                            *)
(***************************************************************************)
EXTENDS KvTypes, SequencesExt

\* batchEntry::operator<
Before(m, n) == m.key < n.key \/ (m.key = n.key /\ m.ts > n.ts)

\* The results of std::sort, as sequences of positions of b. It is not stable:
\* entries of which neither is before the other come out in any order.
SortOrders(b) ==
    { p \in SetToSeqs(DOMAIN b) :
        \A i, j \in DOMAIN b : i < j => ~ Before(b[p[j]], b[p[i]]) }

\* Fault: a multicast is answered like an UpdateIndexReq.
ReplyOp_no_ReplySwitch(m) ==
    IF m.op = ReadIndexReq THEN ReadIndexReply ELSE UpdateIndexReply

\* The opcode of the reply, chosen when the packet is received.
ReplyOp(m) ==
    CASE m.op = MultiCastPkt   -> ReplySwitch
      [] m.op = UpdateIndexReq -> UpdateIndexReply
      [] m.op = ReadIndexReq   -> ReadIndexReply

IsUpdate(m) == m.op \in {MultiCastPkt, UpdateIndexReq}

\* Fault: every entry touches the index, the last one wins.
Apply_all(b, s, i) ==
    LET m == b[i] IN
    IF IsUpdate(m)
    THEN [s EXCEPT !.idx[m.key] = m.log,
                   !.last_key = m.key, !.out[i] = [m EXCEPT !.op = ReplyOp(m)]]
    ELSE [s EXCEPT !.last_key = m.key,
                   !.out[i] = [m EXCEPT !.op = ReplyOp(m), !.log = s.idx[m.key]]]

\* One turn of the loop over the sorted batch, for the entry at position i.
Apply(b, s, i) ==
    LET m == b[i] IN
    IF IsUpdate(m)
    THEN [s EXCEPT !.idx[m.key] = IF m.key # s.last_key THEN m.log ELSE @,
                   !.last_key = m.key, !.out[i] = [m EXCEPT !.op = ReplyOp(m)]]
    ELSE [s EXCEPT !.last_key = m.key,
                   !.out[i] = [m EXCEPT !.op = ReplyOp(m), !.log = s.idx[m.key]]]

\* The loop: from the index idx and the batch b sorted as p, the new index and
\* the replies. last_key starts as 0.
Walk(b, p, idx) ==
    LET after[n \in 0 .. Len(p)] ==
            IF n = 0 THEN [idx |-> idx, last_key |-> 0, out |-> b]
            ELSE Apply(b, after[n - 1], p[n])
    IN  after[Len(p)]

-----------------------------------------------------------------------------
(* What the batch has to do, whatever the order of its packets. *)

Updates(b, k) == { i \in DOMAIN b : IsUpdate(b[i]) /\ b[i].key = k }

\* The log id of the update of key k with the largest timestamp.
NewestLog(b, k) ==
    b[CHOOSE i \in Updates(b, k) : \A j \in Updates(b, k) : b[j].ts <= b[i].ts].log

BatchEffect(b, idx) ==
    [k \in DOMAIN idx |-> IF Updates(b, k) = {} THEN idx[k] ELSE NewestLog(b, k)]
=============================================================================
