--------------------------- MODULE KvProperties ---------------------------
(***************************************************************************)
(* Correctness conditions of the key-value store that need no history:     *)
(* who owns a visibility slot, what a resumed coroutine finds in its       *)
(* reply, and what must eventually happen.                                 *)
(***************************************************************************)
EXTENDS KvStore

\* The packets that stand for an occupied slot of the switch: a multicast on its
\* way to the index thread, and the ReplySwitch on its way back.
Positions(q, i, op) == { j \in DOMAIN q[i] : q[i][j].op = op }
Multicasts(i) == Positions(s2i, i, MultiCastPkt)
ReplySwitches(i) == Positions(i2s, i, ReplySwitch)

\* In the registers r, the slot of packet m is held by the write m belongs to.
Owns(r, m) ==
    LET s == get_switch_key(m.key) IN
    /\ r.key[s] = get_fingerprint(m.key)
    /\ r.rpc[s] = rpc_id(m)
    /\ r.log[s] = m.log

OnSlot(m, s) == get_switch_key(m.key) = s
SameSlot(m, n) == get_switch_key(m.key) = get_switch_key(n.key)

-----------------------------------------------------------------------------
(***************************************************************************)
(* SlotOwned (p4_fw): the switch and the index threads agree on who owns   *)
(* every slot. Each multicast and each ReplySwitch in flight belongs to    *)
(* the write that holds its slot; no slot has two of them; and an occupied *)
(* slot has one. So a late ReplySwitch cannot free the slot of another     *)
(* write, although the 8-bit magic in rpc_id repeats, and no slot is left  *)
(* without the packet that frees it.                                       *)
(***************************************************************************)
SlotMatches ==
    \A i \in IndexThreads :
        /\ \A j \in Multicasts(i) : Owns(regs, s2i[i][j])
        /\ \A j \in ReplySwitches(i) : Owns(regs, i2s[i][j])

SlotUnique ==
    \A i1, i2 \in IndexThreads :
        /\ \A j1 \in Multicasts(i1), j2 \in Multicasts(i2) :
               SameSlot(s2i[i1][j1], s2i[i2][j2]) => i1 = i2 /\ j1 = j2
        /\ \A j1 \in ReplySwitches(i1), j2 \in ReplySwitches(i2) :
               SameSlot(i2s[i1][j1], i2s[i2][j2]) => i1 = i2 /\ j1 = j2
        /\ \A j1 \in Multicasts(i1), j2 \in ReplySwitches(i2) :
               ~ SameSlot(s2i[i1][j1], i2s[i2][j2])

SlotHeld ==
    \A s \in SwitchKeys : regs.key[s] # 0 =>
        \E i \in IndexThreads :
            \/ \E j \in Multicasts(i) : OnSlot(s2i[i][j], s)
            \/ \E j \in ReplySwitches(i) : OnSlot(i2s[i][j], s)

SlotOwned == SlotMatches /\ SlotUnique /\ SlotHeld

(***************************************************************************)
(* OwnerOutstanding (overwrite): the write that holds a slot still has its *)
(* own multicast or ReplySwitch in flight, although later writes take the  *)
(* slot over, several multicasts of a slot are in flight and the magic     *)
(* repeats: no slot is left without the packet that frees it.              *)
(***************************************************************************)
OwnerOutstanding ==
    \A s \in SwitchKeys : regs.key[s] # 0 =>
        \E i \in IndexThreads :
            \/ \E j \in Multicasts(i) : OnSlot(s2i[i][j], s) /\ Owns(regs, s2i[i][j])
            \/ \E j \in ReplySwitches(i) : OnSlot(i2s[i][j], s) /\ Owns(regs, i2s[i][j])

(***************************************************************************)
(* ReplyExpected: the assertions of get_index, put_index, get_value and    *)
(* put_value. The packet a coroutine is resumed with is a reply to the     *)
(* call it waits in, for the key it asked about; a coroutine between two   *)
(* requests is never resumed by a packet of an earlier one.                *)
(***************************************************************************)
ExpectedOps ==
    [free      |-> {},
     put_value |-> {AppendReply, MultiCastPkt},
     put_index |-> {UpdateIndexReply},
     get_index |-> {ReadIndexReq, ReadIndexReply},
     get_value |-> {ReadReply}]

ReplyExpected ==
    \A t \in CThreads : s2c[t] # <<>> =>
        LET m == Head(s2c[t])
        IN  /\ m.op \in ExpectedOps[ctx[m.cli].pc]
            /\ m.key = ctx[m.cli].key

-----------------------------------------------------------------------------
(* Liveness, under FairSpec. *)

(***************************************************************************)
(* RequestsReturn: no coroutine waits for ever; every put_value, put_index,*)
(* get_index and get_value is answered, whichever packets of other         *)
(* requests are in the same queues.                                        *)
(***************************************************************************)
RequestsReturn ==
    \A c \in Coros : ctx[c].pc # "free" ~> ctx[c].pc = "free"

(***************************************************************************)
(* SlotsFreed: an occupied slot is handed back, so that fast writes to its *)
(* switch key become possible again.                                       *)
(***************************************************************************)
SlotsFreed ==
    \A s \in SwitchKeys : regs.key[s] # 0 ~> regs.key[s] = 0
=============================================================================
