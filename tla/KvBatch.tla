----------------------------- MODULE KvBatch -----------------------------
(***************************************************************************)
(* The key-value store with batched index threads (--batch=true): the      *)
(* index node runs server_batch_CPC instead of run_server_CPC. An index    *)
(* thread gathers the packets of one or more polls and applies them only   *)
(* when batch_size of them are there or the last poll brought a packet a   *)
(* client waits for. Until then neither the index nor the replies move, so *)
(* the switch answers reads of the keys in the batch.                      *)
(***************************************************************************)
EXTENDS KvProperties, IndexBatch

CONSTANTS
    batch_size,  \* FLAGS_batch_size
    kMaxWcCnt    \* completions one poll returns at most

ASSUME BatchAssumption == batch_size \in Nat \ {0} /\ kMaxWcCnt \in Nat \ {0}

VARIABLE batch   \* batch[i]: packets index thread i has not applied

varsB == <<vars, batch>>

InitB == Init /\ batch = [i \in IndexThreads |-> <<>>]

OnPath(q) == \E j \in DOMAIN q : q[j].op \in {ReadIndexReq, UpdateIndexReq}

\* Fault: a packet that a client waits for does not end the batch.
Full_no_onpath(b, q) == Len(b) >= batch_size

\* The batch b, the last packets of which are the poll q, is applied.
Full(b, q) == Len(b) >= batch_size \/ OnPath(q)

\* A poll takes the first n packets of thread i. The batch is sorted, applied
\* and answered in the same turn of the loop, or left to the next turn.
IndexPoll(i) ==
    \E n \in 1 .. kMaxWcCnt :
        LET q == SubSeq(s2i[i], 1, n)
            b == batch[i] \o q
        IN  /\ n <= Len(s2i[i])
            /\ s2i' = [s2i EXCEPT ![i] = SubSeq(@, n + 1, Len(@))]
            /\ \/ /\ ~ Full(b, q)
                  /\ batch' = [batch EXCEPT ![i] = b]
                  /\ UNCHANGED <<index, i2s>>
               \/ /\ Full(b, q)
                  /\ \E p \in SortOrders(b) :
                        LET w == Walk(b, p, index)
                        IN  index' = w.idx /\ i2s' = [i2s EXCEPT ![i] = @ \o w.out]
                  /\ batch' = [batch EXCEPT ![i] = <<>>]
            /\ UNCHANGED <<ctx, c2s, s2c, d2s, s2d, regs, kv, pos, tss, nreq>>

NextB ==
    \/ /\ \/ \E c \in Coros, k \in Keys : kEnumW(c, k) \/ kEnumR(c, k)
          \/ \E t \in CThreads : ClientReply(t) \/ SwitchClient(t)
          \/ \E d \in DataThreads : DataServer(d) \/ SwitchData(d)
          \/ \E i \in IndexThreads : SwitchIndex(i)
       /\ UNCHANGED batch
    \/ \E i \in IndexThreads : IndexPoll(i)

SpecB == InitB /\ [][NextB]_varsB

FairSpecB ==
    /\ SpecB
    /\ \A t \in CThreads : WF_varsB(ClientReply(t) /\ UNCHANGED batch)
                           /\ WF_varsB(SwitchClient(t) /\ UNCHANGED batch)
    /\ \A d \in DataThreads : WF_varsB(DataServer(d) /\ UNCHANGED batch)
                              /\ WF_varsB(SwitchData(d) /\ UNCHANGED batch)
    /\ \A i \in IndexThreads : WF_varsB(IndexPoll(i))
                               /\ WF_varsB(SwitchIndex(i) /\ UNCHANGED batch)

-----------------------------------------------------------------------------
(***************************************************************************)
(* BatchAgrees: whichever packets a poll adds to the batch and whichever   *)
(* way std::sort orders them, skipping all but the first entry of each key *)
(* leaves for every key the update with the largest timestamp, and each    *)
(* read of the batch is answered with that.                                *)
(***************************************************************************)
BatchAgrees ==
    \A i \in IndexThreads : \A n \in 1 .. kMaxWcCnt :
        n <= Len(s2i[i]) =>
            LET b == batch[i] \o SubSeq(s2i[i], 1, n)
                effect == BatchEffect(b, index)
            IN  \A p \in SortOrders(b) :
                    LET w == Walk(b, p, index)
                    IN  /\ w.idx = effect
                        /\ \A j \in DOMAIN b : b[j].op = ReadIndexReq =>
                               w.out[j].log = effect[b[j].key]

(***************************************************************************)
(* BatchOwned (p4_fw): a slot stays with its write while the multicast     *)
(* waits in a batch: an occupied slot has its owner's packet on the way to *)
(* the index thread, in a batch or on the way back, so a batch never drops *)
(* the ReplySwitch of a write whose entry it skipped.                      *)
(***************************************************************************)
BatchOwned ==
    \A s \in SwitchKeys : regs.key[s] # 0 =>
        \E i \in IndexThreads :
            \/ \E j \in Multicasts(i) : OnSlot(s2i[i][j], s) /\ Owns(regs, s2i[i][j])
            \/ \E j \in DOMAIN batch[i] : /\ batch[i][j].op = MultiCastPkt
                                          /\ OnSlot(batch[i][j], s)
                                          /\ Owns(regs, batch[i][j])
            \/ \E j \in ReplySwitches(i) : OnSlot(i2s[i][j], s) /\ Owns(regs, i2s[i][j])
=============================================================================
