--------------------------- MODULE KvStoreProofs ---------------------------
(***************************************************************************)
(* Theorems about KvStore for every number of keys, threads and            *)
(* coroutines, every width of the switch words and every log size: types,  *)
(* and who owns a slot of the switch.                                      *)
(*                                                                         *)
(* Types. What is not routine is the arithmetic: that a read of the log    *)
(* stays inside the ring buffer depends on logid_2_locallogid undoing      *)
(* compute_log_id, which needs logspace <= keyspace.                       *)
(*                                                                         *)
(* Slots. The first-write switch program keeps exactly one freeing packet  *)
(* per occupied slot. SlotOwned is inductive together with TypeOK. A slot  *)
(* is only granted when it is empty, and then SlotMatches says that no     *)
(* multicast and no ReplySwitch of that slot is in flight; a ReplySwitch   *)
(* always finds its own rpc_id, and SlotUnique says that it leaves no      *)
(* other packet of its slot behind. OwnerOutstanding holds for both        *)
(* programs.                                                               *)
(***************************************************************************)
EXTENDS KvProperties, TLAPS

(***************************************************************************)
(* What % and \div give for a positive divisor: the facts of the C         *)
(* operators that the key arithmetic of kv.cc relies on.                   *)
(***************************************************************************)
LEMMA ModRange ==
    ASSUME NEW a \in Nat, NEW b \in Nat \ {0}
    PROVE  a % b \in 0 .. b - 1
  OBVIOUS

\* A quotient of naturals is a natural.
LEMMA DivNat ==
    ASSUME NEW a \in Nat, NEW b \in Nat \ {0}
    PROVE  a \div b \in Nat
  OBVIOUS

\* The remainder undoes compute_log_id.
LEMMA ModOfSum ==
    ASSUME NEW a \in Nat, NEW b \in Nat \ {0}, NEW l \in 0 .. b - 1
    PROVE  (a * b + l) % b = l
  OBVIOUS

\* The modulus of uint32 is positive.
LEMMA ProductNat ==
    ASSUME NEW a \in Nat, NEW b \in Nat
    PROVE  a * b \in Nat
  OBVIOUS

-----------------------------------------------------------------------------
(***************************************************************************)
(* Every key has a register slot, a fingerprint that is neither the empty  *)
(* register 0 nor the miss marker, a data thread and an index thread.      *)
(***************************************************************************)
LEMMA KeyRanges ==
    ASSUME NEW k \in Keys
    PROVE  /\ get_switch_key(k) \in SwitchKeys
           /\ get_fingerprint(k) \in 1 .. FingerprintSpace - 2
           /\ get_data_thread_id_by_key(k) \in DataThreads
           /\ get_index_thread_id(k) \in IndexThreads
           /\ get_index_thread_id(get_switch_key(k)) \in IndexThreads
  <1>k. k \in Nat /\ SwitchKeySpace \in Nat \ {0}
    BY KeysAssumption, WidthAssumption
  <1>s. get_switch_key(k) \in 0 .. SwitchKeySpace - 1
    BY <1>k, ModRange DEF get_switch_key
  <1>1. get_switch_key(k) \in SwitchKeys
    BY <1>s DEF SwitchKeys
  <1>2. get_fingerprint(k) \in 1 .. FingerprintSpace - 2
    <2> DEFINE q == k \div SwitchKeySpace
    <2>1. q \in Nat
      BY <1>k, DivNat
    <2>2. FingerprintSpace \in Nat \ {0} /\ FingerprintSpace - 2 \in Nat \ {0}
      BY WidthAssumption
    <2>3. q % FingerprintSpace \in Nat
      BY <2>1, <2>2, ModRange
    <2>4. (q % FingerprintSpace) % (FingerprintSpace - 2)
            \in 0 .. (FingerprintSpace - 2) - 1
      BY <2>2, <2>3, ModRange
    <2> QED
      BY <2>2, <2>4 DEF get_fingerprint
  <1>u. ASSUME NEW n \in Nat PROVE uint32(n) \in Nat
    <2>1. SwitchKeySpace * SwitchKeySpace \in Nat \ {0}
      BY <1>k
    <2> QED
      BY <2>1, ModRange, SMTT(30) DEF uint32
  <1>3. get_data_thread_id_by_key(k) \in DataThreads
    BY <1>k, <1>u, ModRange, ThreadAssumption DEF get_data_thread_id_by_key, DataThreads
  <1>4. get_index_thread_id(k) \in IndexThreads
    BY <1>k, <1>u, ModRange, ThreadAssumption DEF get_index_thread_id, IndexThreads
  <1>5. get_index_thread_id(get_switch_key(k)) \in IndexThreads
    BY <1>k, <1>s, <1>u, ModRange, ThreadAssumption DEF get_index_thread_id, IndexThreads
  <1> QED
    BY <1>1, <1>2, <1>3, <1>4, <1>5

(***************************************************************************)
(* compute_log_id yields log ids; of a log id, or of the marker the index  *)
(* returns for a missing key, logid_2_locallogid is a place in the ring.   *)
(***************************************************************************)
LEMMA LogRanges ==
    /\ \A l \in 0 .. logspace - 1, d \in DataThreads : compute_log_id(l, d) \in LogIds
    /\ \A g \in LogIds \cup {NoLog} :
           /\ logid_2_threadid(g) \in Nat
           /\ logid_2_locallogid(g) \in 0 .. logspace - 1
  <1>1. ASSUME NEW l \in 0 .. logspace - 1, NEW d \in DataThreads
        PROVE  compute_log_id(l, d) \in LogIds
    BY DEF LogIds
  <1>2. ASSUME NEW g \in LogIds \cup {NoLog}
        PROVE  \E d \in Nat, l \in 0 .. logspace - 1 : g = d * keyspace + l
    <2>1. CASE g \in LogIds
      BY <2>1, ThreadAssumption DEF LogIds, compute_log_id, DataThreads
    <2>2. CASE g = NoLog
      <3>1. g = dn_thread * keyspace + 0
        BY <2>2, ThreadAssumption, LogAssumption DEF NoLog
      <3> QED
        BY <3>1, ThreadAssumption, LogAssumption
    <2> QED
      BY <2>1, <2>2
  <1>3. ASSUME NEW g \in LogIds \cup {NoLog}
        PROVE  logid_2_threadid(g) \in Nat /\ logid_2_locallogid(g) \in 0 .. logspace - 1
    <2>1. PICK d \in Nat, l \in 0 .. logspace - 1 : g = d * keyspace + l
      BY <1>2
    <2>2. keyspace \in Nat \ {0} /\ l \in 0 .. keyspace - 1
      BY LogAssumption
    <2>3. g \in Nat
      BY <2>1, <2>2, ProductNat
    <2>4. g % keyspace = l
      BY <2>1, <2>2, ModOfSum
    <2> QED
      BY <2>2, <2>3, <2>4, DivNat DEF logid_2_threadid, logid_2_locallogid
  <1> QED
    BY <1>1, <1>3

(***************************************************************************)
(* next_magic stays in its 16 bits, its low 8 bits in the packet, and      *)
(* get_next_ts in its 31 bits.                                             *)
(***************************************************************************)
LEMMA CounterRanges ==
    /\ \A g \in 0 .. MagicSpace * MagicSpace - 1 :
           /\ next_magic(g) \in 0 .. MagicSpace * MagicSpace - 1
           /\ g % MagicSpace \in 0 .. MagicSpace - 1
    /\ \A t \in 0 .. TsSpace - 1 : get_next_ts(t) \in 0 .. TsSpace - 1
  <1>1. MagicSpace \in Nat \ {0} /\ MagicSpace * MagicSpace \in Nat \ {0, 1}
    BY WidthAssumption
  <1>2. ASSUME NEW g \in 0 .. MagicSpace * MagicSpace - 1
        PROVE  /\ next_magic(g) \in 0 .. MagicSpace * MagicSpace - 1
               /\ g % MagicSpace \in 0 .. MagicSpace - 1
    <2>1. (g + 1) % (MagicSpace * MagicSpace) \in 0 .. MagicSpace * MagicSpace - 1
      BY <1>1, ModRange
    <2> QED
      BY <1>1, <2>1, ModRange DEF next_magic
  <1>3. ASSUME NEW t \in 0 .. TsSpace - 1
        PROVE  get_next_ts(t) \in 0 .. TsSpace - 1
    <2>1. (t + 1) % TsSpace \in 0 .. TsSpace - 1
      BY WidthAssumption, ModRange
    <2> QED
      BY <2>1, WidthAssumption DEF get_next_ts
  <1> QED
    BY <1>2, <1>3

-----------------------------------------------------------------------------
(* Queues. *)

\* Pushing a packet keeps a family of queues typed, wherever the packet goes.
LEMMA PushType ==
    ASSUME NEW D, NEW S, NEW q \in [D -> Seq(S)], NEW n, NEW m \in S
    PROVE  Push(q, n, m) \in [D -> Seq(S)]
  <1>1. ASSUME NEW x \in D
        PROVE  [q EXCEPT ![n] = Append(@, m)][x] \in Seq(S)
    <2>1. CASE x = n
      <3>1. q[x] \in Seq(S)
        OBVIOUS
      <3> QED
        BY <2>1, <3>1
    <2>2. CASE x # n
      BY <2>2
    <2> QED
      BY <2>1, <2>2
  <1> QED
    BY <1>1 DEF Push

\* The oldest packet of a nonempty queue is a packet, and taking it keeps the
\* queues typed.
LEMMA PopType ==
    ASSUME NEW D, NEW S, NEW q \in [D -> Seq(S)], NEW n \in D, q[n] # <<>>
    PROVE  Head(q[n]) \in S /\ Pop(q, n) \in [D -> Seq(S)]
  BY DEF Pop

-----------------------------------------------------------------------------
(* Registers of the switch. *)

\* Both programs leave the registers typed after an AppendReply and after a
\* ReplySwitch, and what a read finds in the slot is a log id.
LEMMA RegistersType ==
    ASSUME NEW r \in Registers, NEW m \in RawKvMsg
    PROVE  /\ NewIndex(r, m) \in Registers
           /\ DeleteIndex(r, m) \in Registers
           /\ LogId(r, m) \in LogIds \cup {NoLog}
  <1> DEFINE s == get_switch_key(m.key)
  <1>m. /\ m.key \in Keys /\ m.log \in LogIds \cup {NoLog}
        /\ m.ts \in 0 .. TsSpace - 1 /\ rpc_id(m) \in RpcIds
    BY DEF RawKvMsg, rpc_id, RpcIds
  <1>s. s \in SwitchKeys /\ get_fingerprint(m.key) \in 0 .. FingerprintSpace - 2
    BY <1>m, KeyRanges, WidthAssumption
  <1> HIDE DEF s
  <1>t. 0 \in 0 .. TsSpace - 1 /\ 0 \in 0 .. FingerprintSpace - 2
    BY WidthAssumption
  <1>1. FwNewIndex(r, m) \in Registers
    BY <1>m, <1>s DEF FwNewIndex, Registers, s
  <1>2. FwDeleteIndex(r, m) \in Registers
    BY <1>m, <1>s, <1>t DEF FwDeleteIndex, Registers, s
  <1>3. OwNewIndex(r, m) \in Registers
    <2> DEFINE timed == IF OwTimely(r, m) THEN [r EXCEPT !.ts[s] = m.ts] ELSE r
    <2>1. timed \in Registers
      BY <1>m, <1>s DEF Registers
    <2> HIDE DEF timed
    <2>2. [timed EXCEPT !.key[s] = get_fingerprint(m.key),
                        !.rpc[s] = rpc_id(m), !.log[s] = m.log] \in Registers
      BY <1>m, <1>s, <2>1 DEF Registers
    <2> QED
      BY <2>1, <2>2 DEF OwNewIndex, timed, s
  <1>4. OwDeleteIndex(r, m) \in Registers
    <2> DEFINE timed == IF r.ts[s] = m.ts THEN [r EXCEPT !.ts[s] = 0] ELSE r
    <2>1. timed \in Registers
      BY <1>s, <1>t DEF Registers
    <2> HIDE DEF timed
    <2>2. [timed EXCEPT !.key[s] = 0, !.rpc[s] = NoRpc] \in Registers
      BY <1>s, <1>t, <2>1 DEF Registers
    <2> QED
      BY <2>1, <2>2 DEF OwDeleteIndex, timed, s
  <1>5. LogId(r, m) \in LogIds \cup {NoLog}
    BY <1>s DEF LogId, FwLogId, Registers, s
  <1> QED
    BY <1>1, <1>2, <1>3, <1>4, <1>5 DEF NewIndex, DeleteIndex

-----------------------------------------------------------------------------
(* Packets of a client. *)

\* Each call of kv_test sends a well-formed packet.
LEMMA CallType ==
    ASSUME NEW c \in Coros, NEW x \in KvCtx
    PROVE  /\ put_value(c, x) \in RawKvMsg
           /\ put_index(c, x) \in RawKvMsg
           /\ get_index(c, x) \in RawKvMsg
           /\ get_value(c, x) \in RawKvMsg
  <1>x. /\ x.key \in Keys /\ x.val \in Nat /\ x.log \in LogIds \cup {NoLog}
        /\ x.ts \in 0 .. TsSpace - 1 /\ x.magic \in 0 .. MagicSpace * MagicSpace - 1
    BY BoundAssumption DEF KvCtx
  <1>m. x.magic % MagicSpace \in 0 .. MagicSpace - 1 /\ 0 \in 0 .. MagicSpace - 1
    BY <1>x, CounterRanges, WidthAssumption
  <1>t. 0 \in 0 .. TsSpace - 1
    BY WidthAssumption
  <1>p. /\ get_data_thread_id_by_key(x.key) \in Nat
        /\ get_index_thread_id(x.key) \in IndexThreads
        /\ get_index_thread_id(get_switch_key(x.key)) \in IndexThreads
        /\ get_index_thread_id(get_switch_key(x.key)) \in Nat
        /\ logid_2_threadid(x.log) \in Nat
    BY <1>x, KeyRanges, LogRanges DEF DataThreads, IndexThreads
  <1>e. Blank \in Entries /\ [key |-> x.key, val |-> x.val] \in Entries
    BY <1>x DEF Blank, Entries
  <1>f. FLAGS_visibility \in BOOLEAN
    BY FlagAssumption
  <1>1. put_value(c, x) \in RawKvMsg
    BY <1>x, <1>m, <1>t, <1>p, <1>e, <1>f DEF put_value, RawKvMsg, RpcType
  <1>2. put_index(c, x) \in RawKvMsg
    BY <1>x, <1>m, <1>t, <1>p, <1>e, <1>f DEF put_index, RawKvMsg, RpcType
  <1>3. get_index(c, x) \in RawKvMsg
    BY <1>x, <1>m, <1>t, <1>p, <1>e, <1>f DEF get_index, RawKvMsg, RpcType
  <1>4. get_value(c, x) \in RawKvMsg
    BY <1>x, <1>m, <1>t, <1>p, <1>e, <1>f DEF get_value, RawKvMsg, RpcType
  <1> QED
    BY <1>1, <1>2, <1>3, <1>4

-----------------------------------------------------------------------------
(* The initial states are typed. *)
LEMMA InitType == Init => TypeOK
  <1> SUFFICES ASSUME Init PROVE TypeOK
    OBVIOUS
  <1>1. ctx \in [Coros -> KvCtx]
    <2>1. (CHOOSE k \in Keys : TRUE) \in Keys
      BY KeysAssumption
    <2>2. ASSUME NEW g \in InitialMagics
          PROVE  [pc |-> "free", key |-> CHOOSE k \in Keys : TRUE,
                  val |-> 0, magic |-> g, log |-> NoLog, ts |-> 0] \in KvCtx
      BY <2>1, MagicAssumption, WidthAssumption, BoundAssumption DEF KvCtx, Calls
    <2> QED
      BY <2>2, ZenonT(30) DEF Init
  <1>2. /\ c2s \in [CThreads -> Seq(RawKvMsg)] /\ s2c \in [CThreads -> Seq(RawKvMsg)]
        /\ d2s \in [DataThreads -> Seq(RawKvMsg)] /\ s2d \in [DataThreads -> Seq(RawKvMsg)]
        /\ i2s \in [IndexThreads -> Seq(RawKvMsg)] /\ s2i \in [IndexThreads -> Seq(RawKvMsg)]
    BY DEF Init
  <1>3. regs \in Registers
    BY WidthAssumption DEF Init, Reset, Registers
  <1>4. kv \in [DataThreads -> [0 .. logspace - 1 -> Entries]]
    <2>1. Blank \in Entries
      BY DEF Blank, Entries
    <2> QED
      BY <2>1 DEF Init
  <1>5. pos \in [DataThreads -> 0 .. logspace - 1]
    BY LogAssumption DEF Init
  <1>6. tss \in [SwitchKeys -> 0 .. TsSpace - 1]
    BY WidthAssumption DEF Init
  <1>7. index \in [Keys -> LogIds \cup {NoLog}]
    <2>1. compute_log_id(0, 0) \in LogIds
      BY LogRanges, LogAssumption, ThreadAssumption DEF DataThreads
    <2> QED
      BY <2>1 DEF Init
  <1>8. nreq \in 0 .. MaxRequests
    BY BoundAssumption DEF Init
  <1> QED
    BY <1>1, <1>2, <1>3, <1>4, <1>5, <1>6, <1>7, <1>8 DEF TypeOK

-----------------------------------------------------------------------------
(* Every step keeps the types: one lemma per process. *)

\* A request of a client.
LEMMA RequestType ==
    ASSUME TypeOK, NEW c \in Coros, NEW k \in Keys, kEnumW(c, k) \/ kEnumR(c, k)
    PROVE  TypeOK'
  <1>1. PICK call \in Calls : NewRequest(c, k, call)
    BY DEF kEnumW, kEnumR, Calls
  <1>2. nreq' \in 0 .. MaxRequests /\ nreq + 1 \in 0 .. MaxRequests
    BY <1>1, BoundAssumption DEF NewRequest, TypeOK
  <1>3. ctx' \in [Coros -> KvCtx]
    <2>1. ctx[c] \in KvCtx /\ next_magic(ctx[c].magic) \in 0 .. MagicSpace * MagicSpace - 1
      BY CounterRanges DEF TypeOK, KvCtx
    <2>2. [ctx[c] EXCEPT !.pc = call, !.key = k, !.val = nreq + 1,
                         !.magic = next_magic(@)] \in KvCtx
      BY <1>2, <2>1 DEF KvCtx
    <2>3. ctx' = [ctx EXCEPT ![c] = [ctx[c] EXCEPT !.pc = call, !.key = k,
                                !.val = nreq + 1, !.magic = next_magic(@)]]
      BY <1>1 DEF NewRequest, TypeOK
    <2> QED
      BY <2>2, <2>3 DEF TypeOK
  <1>4. ctx'[c] \in KvCtx
    BY <1>3
  <1>5. put_value(c, ctx'[c]) \in RawKvMsg /\ get_index(c, ctx'[c]) \in RawKvMsg
    BY <1>4, CallType
  <1>6. c2s' \in [CThreads -> Seq(RawKvMsg)]
    <2>1. c2s \in [CThreads -> Seq(RawKvMsg)]
      BY DEF TypeOK
    <2>2. CASE kEnumW(c, k)
      BY <1>5, <2>1, <2>2, PushType DEF kEnumW
    <2>3. CASE kEnumR(c, k)
      BY <1>5, <2>1, <2>3, PushType DEF kEnumR
    <2> QED
      BY <2>2, <2>3
  <1> QED
    BY <1>2, <1>3, <1>6 DEF TypeOK, kEnumW, kEnumR

\* A reply resumes a coroutine.
LEMMA ClientReplyType ==
    ASSUME TypeOK, NEW t \in CThreads, ClientReply(t)
    PROVE  TypeOK'
  <1> DEFINE m == Head(s2c[t])
             c == m.cli
  <1>1. m \in RawKvMsg /\ Pop(s2c, t) \in [CThreads -> Seq(RawKvMsg)]
    BY PopType DEF ClientReply, TypeOK
  <1>2. /\ c \in Coros /\ m.log \in LogIds \cup {NoLog} /\ m.ts \in 0 .. TsSpace - 1
        /\ ctx[c] \in KvCtx
    BY <1>1 DEF RawKvMsg, TypeOK
  <1> HIDE DEF m, c
  <1>3. Resume(t)
    BY DEF ClientReply, PutValueReturns, PutIndexReturns, GetIndexReturns, GetValueReturns
  <1>4. ctx' \in [Coros -> KvCtx]
    <2>1. ASSUME NEW call \in Calls
          PROVE  /\ [ctx EXCEPT ![c].pc = call] \in [Coros -> KvCtx]
                 /\ [ctx EXCEPT ![c].pc = call, ![c].log = m.log] \in [Coros -> KvCtx]
                 /\ [ctx EXCEPT ![c].pc = call, ![c].log = NoLog] \in [Coros -> KvCtx]
                 /\ [ctx EXCEPT ![c].pc = call, ![c].log = m.log, ![c].ts = m.ts]
                        \in [Coros -> KvCtx]
      BY <1>2 DEF TypeOK, KvCtx
    <2>2. {"free", "put_index", "get_value"} \subseteq Calls
      BY DEF Calls
    <2>3. CASE PutValueReturns(t, m)
      <3>1. \E call \in Calls :
                ctx' = [ctx EXCEPT ![c].pc = call, ![c].log = m.log, ![c].ts = m.ts]
        BY <2>2, <2>3 DEF PutValueReturns, c
      <3> QED
        BY <2>1, <3>1, ZenonT(30)
    <2>4. CASE PutIndexReturns(t, m)
      <3>1. \E call \in Calls : ctx' = [ctx EXCEPT ![c].pc = call]
        BY <2>2, <2>4 DEF PutIndexReturns, c
      <3> QED
        BY <2>1, <3>1
    <2>5. CASE GetIndexReturns(t, m)
      <3>1. \E call \in Calls :
                \/ ctx' = [ctx EXCEPT ![c].pc = call, ![c].log = NoLog]
                \/ ctx' = [ctx EXCEPT ![c].pc = call, ![c].log = m.log]
        BY <2>2, <2>5 DEF GetIndexReturns, c
      <3> QED
        BY <2>1, <3>1
    <2>6. CASE GetValueReturns(t, m)
      <3>1. \E call \in Calls : ctx' = [ctx EXCEPT ![c].pc = call]
        BY <2>2, <2>6 DEF GetValueReturns, c
      <3> QED
        BY <2>1, <3>1
    <2> QED
      BY <2>3, <2>4, <2>5, <2>6 DEF ClientReply, m
  <1>5. c2s' \in [CThreads -> Seq(RawKvMsg)]
    <2>1. put_index(c, ctx'[c]) \in RawKvMsg /\ get_value(c, ctx'[c]) \in RawKvMsg
      BY <1>2, <1>4, CallType
    <2>2. \/ c2s' = c2s
          \/ c2s' = Push(c2s, t, put_index(c, ctx'[c]))
          \/ c2s' = Push(c2s, t, get_value(c, ctx'[c]))
      BY DEF ClientReply, PutValueReturns, PutIndexReturns, GetIndexReturns,
             GetValueReturns, m, c
    <2>3. c2s \in [CThreads -> Seq(RawKvMsg)]
      BY DEF TypeOK
    <2> QED
      BY <2>1, <2>2, <2>3, PushType
  <1> QED
    BY <1>1, <1>3, <1>4, <1>5 DEF TypeOK, Resume

\* A data thread serves a packet.
LEMMA DataServerType ==
    ASSUME TypeOK, NEW d \in DataThreads, DataServer(d)
    PROVE  TypeOK'
  <1> DEFINE m == Head(s2d[d])
             s == get_switch_key(m.key)
  <1>1. m \in RawKvMsg /\ Pop(s2d, d) \in [DataThreads -> Seq(RawKvMsg)]
    BY PopType DEF DataServer, TypeOK
  <1>2. m.entry \in Entries /\ m.log \in LogIds \cup {NoLog} /\ s \in SwitchKeys
    BY <1>1, KeyRanges DEF RawKvMsg
  <1> HIDE DEF m, s
  <1>3. CASE DataAppend(d, m)
    <2>1. kv' \in [DataThreads -> [0 .. logspace - 1 -> Entries]]
      BY <1>2, <1>3 DEF DataAppend, TypeOK
    <2>2. pos' \in [DataThreads -> 0 .. logspace - 1]
      <3>1. pos[d] + 1 \in Nat
        BY LogAssumption DEF TypeOK
      <3>2. (pos[d] + 1) % logspace \in 0 .. logspace - 1
        BY <3>1, LogAssumption, ModRange
      <3> QED
        BY <1>3, <3>2 DEF DataAppend, TypeOK
    <2>3. get_next_ts(tss[s]) \in 0 .. TsSpace - 1
      BY <1>2, CounterRanges DEF TypeOK
    <2>4. tss' \in [SwitchKeys -> 0 .. TsSpace - 1]
      BY <1>3, <2>3 DEF DataAppend, TypeOK, s
    <2>5. compute_log_id(pos[d], d) \in LogIds
      BY LogRanges DEF TypeOK
    <2>6. [m EXCEPT !.op = AppendReply, !.log = compute_log_id(pos[d], d),
                    !.ts = get_next_ts(tss[s]), !.entry = Blank] \in RawKvMsg
      BY <1>1, <2>3, <2>5 DEF RawKvMsg, RpcType, Blank, Entries
    <2>7. d2s' \in [DataThreads -> Seq(RawKvMsg)]
      BY <1>3, <2>6, PushType DEF DataAppend, TypeOK, s
    <2> QED
      BY <1>1, <2>1, <2>2, <2>4, <2>7 DEF DataServer, TypeOK, m
  <1>4. CASE DataReadLog(d, m)
    <2>1. kv[d][logid_2_locallogid(m.log)] \in Entries
      BY <1>2, LogRanges DEF TypeOK
    <2>2. [m EXCEPT !.op = ReadReply, !.entry = kv[d][logid_2_locallogid(m.log)]]
              \in RawKvMsg
      BY <1>1, <2>1 DEF RawKvMsg, RpcType
    <2>3. d2s' \in [DataThreads -> Seq(RawKvMsg)]
      BY <1>4, <2>2, PushType DEF DataReadLog, TypeOK
    <2> QED
      BY <1>1, <1>4, <2>3 DEF DataServer, DataReadLog, dataVars, TypeOK, m
  <1> QED
    BY <1>3, <1>4 DEF DataServer, m

\* An index thread serves a packet.
LEMMA IndexServerType ==
    ASSUME TypeOK, NEW i \in IndexThreads, IndexServer(i)
    PROVE  TypeOK'
  <1> DEFINE m == Head(s2i[i])
  <1>1. m \in RawKvMsg /\ Pop(s2i, i) \in [IndexThreads -> Seq(RawKvMsg)]
    BY PopType DEF IndexServer, TypeOK
  <1> HIDE DEF m
  <1>2. CASE IndexPut(i, m)
    <2>1. \A op \in RpcType : [m EXCEPT !.op = op] \in RawKvMsg
      BY <1>1 DEF RawKvMsg
    <2>2. index' \in [Keys -> LogIds \cup {NoLog}]
      BY <1>1, <1>2 DEF IndexPut, TypeOK, RawKvMsg
    <2>3. i2s' \in [IndexThreads -> Seq(RawKvMsg)]
      BY <1>2, <2>1, PushType DEF IndexPut, TypeOK, RpcType
    <2> QED
      BY <1>1, <2>2, <2>3 DEF IndexServer, TypeOK, m
  <1>3. CASE IndexGet(i, m)
    <2>1. [m EXCEPT !.op = ReadIndexReply, !.log = index[m.key]] \in RawKvMsg
      BY <1>1 DEF RawKvMsg, RpcType, TypeOK
    <2>2. i2s' \in [IndexThreads -> Seq(RawKvMsg)]
      BY <1>3, <2>1, PushType DEF IndexGet, TypeOK
    <2> QED
      BY <1>1, <1>3, <2>2 DEF IndexServer, IndexGet, TypeOK, m
  <1> QED
    BY <1>2, <1>3 DEF IndexServer, m

\* The switch forwards a packet of a client, a data thread or an index thread.
LEMMA SwitchType ==
    ASSUME TypeOK,
           \/ \E t \in CThreads : SwitchClient(t)
           \/ \E d \in DataThreads : SwitchData(d)
           \/ \E i \in IndexThreads : SwitchIndex(i)
    PROVE  TypeOK'
  <1>1. ASSUME NEW t \in CThreads, SwitchClient(t) PROVE TypeOK'
    <2> DEFINE m == Head(c2s[t])
               hit == [m EXCEPT !.log = LogId(regs, m)]
    <2>1. m \in RawKvMsg /\ Pop(c2s, t) \in [CThreads -> Seq(RawKvMsg)]
      BY <1>1, PopType DEF SwitchClient, TypeOK
    <2>2. hit \in RawKvMsg
      BY <2>1, RegistersType DEF RawKvMsg, TypeOK
    <2>3. /\ s2d' = s2d \/ s2d' = Push(s2d, m.port, m)
          /\ s2i' = s2i \/ s2i' = Push(s2i, m.port, m)
          /\ s2c' = s2c \/ s2c' = Push(s2c, m.cli[1], hit)
      BY <1>1 DEF SwitchClient
    <2> HIDE DEF m, hit
    <2>4. /\ s2d' \in [DataThreads -> Seq(RawKvMsg)]
          /\ s2i' \in [IndexThreads -> Seq(RawKvMsg)]
          /\ s2c' \in [CThreads -> Seq(RawKvMsg)]
      <3>1. /\ s2d \in [DataThreads -> Seq(RawKvMsg)]
            /\ s2i \in [IndexThreads -> Seq(RawKvMsg)]
            /\ s2c \in [CThreads -> Seq(RawKvMsg)]
        BY DEF TypeOK
      <3>2. s2d' \in [DataThreads -> Seq(RawKvMsg)]
        BY <2>1, <2>3, <3>1, PushType, SMTT(30)
      <3>3. s2i' \in [IndexThreads -> Seq(RawKvMsg)]
        BY <2>1, <2>3, <3>1, PushType, SMTT(30)
      <3>4. s2c' \in [CThreads -> Seq(RawKvMsg)]
        BY <2>2, <2>3, <3>1, PushType
      <3> QED
        BY <3>2, <3>3, <3>4
    <2> QED
      BY <1>1, <2>1, <2>4 DEF SwitchClient, TypeOK
  <1>2. ASSUME NEW d \in DataThreads, SwitchData(d) PROVE TypeOK'
    <2> DEFINE m == Head(d2s[d])
               mc == [m EXCEPT !.op = MultiCastPkt]
    <2>1. m \in RawKvMsg /\ Pop(d2s, d) \in [DataThreads -> Seq(RawKvMsg)]
      BY <1>2, PopType DEF SwitchData, TypeOK
    <2>2. mc \in RawKvMsg
      BY <2>1 DEF RawKvMsg, RpcType
    <2>3. /\ s2i' = s2i \/ s2i' = Push(s2i, m.ixp, mc)
          /\ s2c' = Push(s2c, m.cli[1], m) \/ s2c' = Push(s2c, m.cli[1], mc)
          /\ regs' = regs \/ regs' = NewIndex(regs, m)
      BY <1>2 DEF SwitchData
    <2> HIDE DEF m, mc
    <2>4. /\ s2i' \in [IndexThreads -> Seq(RawKvMsg)]
          /\ s2c' \in [CThreads -> Seq(RawKvMsg)]
      <3>1. /\ s2i \in [IndexThreads -> Seq(RawKvMsg)]
            /\ s2c \in [CThreads -> Seq(RawKvMsg)]
        BY DEF TypeOK
      <3>2. s2i' \in [IndexThreads -> Seq(RawKvMsg)]
        BY <2>2, <2>3, <3>1, PushType
      <3>3. s2c' \in [CThreads -> Seq(RawKvMsg)]
        BY <2>1, <2>2, <2>3, <3>1, PushType
      <3> QED
        BY <3>2, <3>3
    <2>5. regs' \in Registers
      BY <2>1, <2>3, RegistersType DEF TypeOK
    <2> QED
      BY <1>2, <2>1, <2>4, <2>5 DEF SwitchData, TypeOK
  <1>3. ASSUME NEW i \in IndexThreads, SwitchIndex(i) PROVE TypeOK'
    <2> DEFINE m == Head(i2s[i])
    <2>1. m \in RawKvMsg /\ Pop(i2s, i) \in [IndexThreads -> Seq(RawKvMsg)]
      BY <1>3, PopType DEF SwitchIndex, TypeOK
    <2>2. /\ s2c' = s2c \/ s2c' = Push(s2c, m.cli[1], m)
          /\ regs' = regs \/ regs' = DeleteIndex(regs, m)
      BY <1>3 DEF SwitchIndex
    <2> HIDE DEF m
    <2>3. s2c' \in [CThreads -> Seq(RawKvMsg)] /\ regs' \in Registers
      <3>1. s2c \in [CThreads -> Seq(RawKvMsg)] /\ regs \in Registers
        BY DEF TypeOK
      <3>2. s2c' \in [CThreads -> Seq(RawKvMsg)]
        BY <2>1, <2>2, <3>1, PushType
      <3>3. regs' \in Registers
        BY <2>1, <2>2, <3>1, RegistersType
      <3> QED
        BY <3>2, <3>3
    <2> QED
      BY <1>3, <2>1, <2>3 DEF SwitchIndex, TypeOK
  <1> QED
    BY <1>1, <1>2, <1>3

\* Every step of every process keeps the types.
LEMMA NextType == TypeOK /\ [Next]_vars => TypeOK'
  <1> SUFFICES ASSUME TypeOK, [Next]_vars PROVE TypeOK'
    OBVIOUS
  <1>1. CASE UNCHANGED vars
    BY <1>1 DEF vars, TypeOK
  <1>2. CASE Next
    BY <1>2, RequestType, ClientReplyType, DataServerType, IndexServerType, SwitchType
       DEF Next
  <1> QED
    BY <1>1, <1>2

(***************************************************************************)
(* Type correctness: no packet leaves the widths of its fields, no log id  *)
(* points outside the ring of a data thread, and no register holds a value *)
(* the pipeline cannot, for every value of the constants.                  *)
(***************************************************************************)
THEOREM TypeCorrect == Spec => []TypeOK
  BY InitType, NextType, PTL DEF Spec

-----------------------------------------------------------------------------
(* Where the packets of one opcode stand in the queues of the index threads. *)

\* A packet of another opcode moves nothing.
LEMMA PushOther ==
    ASSUME NEW q \in [IndexThreads -> Seq(RawKvMsg)], NEW n \in Nat, NEW m \in RawKvMsg,
           NEW op \in RpcType, m.op # op, NEW i \in IndexThreads
    PROVE  /\ Positions(Push(q, n, m), i, op) = Positions(q, i, op)
           /\ \A j \in Positions(q, i, op) : Push(q, n, m)[i][j] = q[i][j]
  <1>1. q[i] \in Seq(RawKvMsg)
    OBVIOUS
  <1>2. CASE i = n
    <2>1. Push(q, n, m)[i] = Append(q[i], m)
      BY <1>2 DEF Push
    <2> QED
      BY <1>1, <2>1 DEF Positions
  <1>3. CASE i # n
    BY <1>3 DEF Push, Positions
  <1> QED
    BY <1>2, <1>3

\* A packet of this opcode is added at the end of its queue,
LEMMA PushEnd ==
    ASSUME NEW q \in [IndexThreads -> Seq(RawKvMsg)], NEW n \in IndexThreads,
           NEW m \in RawKvMsg
    PROVE  /\ \A j : j \in Positions(Push(q, n, m), n, m.op)
                      <=> j \in Positions(q, n, m.op) \/ j = Len(q[n]) + 1
           /\ Push(q, n, m)[n][Len(q[n]) + 1] = m
           /\ Len(q[n]) + 1 \notin Positions(q, n, m.op)
  <1>1. q[n] \in Seq(RawKvMsg)
    OBVIOUS
  <1>2. Push(q, n, m)[n] = Append(q[n], m)
    BY DEF Push
  <1> QED
    BY <1>1, <1>2 DEF Positions

\* and moves no other packet.
LEMMA PushRest ==
    ASSUME NEW q \in [IndexThreads -> Seq(RawKvMsg)], NEW n \in IndexThreads,
           NEW m \in RawKvMsg, NEW op \in RpcType, NEW i \in IndexThreads
    PROVE  /\ i # n => Positions(Push(q, n, m), i, op) = Positions(q, i, op)
           /\ \A j \in Positions(q, i, op) : Push(q, n, m)[i][j] = q[i][j]
  <1>1. q[i] \in Seq(RawKvMsg)
    OBVIOUS
  <1>2. CASE i = n
    <2>1. Push(q, n, m)[i] = Append(q[i], m)
      BY <1>2 DEF Push
    <2> QED
      BY <1>1, <1>2, <2>1 DEF Positions
  <1>3. CASE i # n
    BY <1>3 DEF Push, Positions
  <1> QED
    BY <1>2, <1>3

\* Taking the head of a queue leaves the other queues alone.
LEMMA PopOther ==
    ASSUME NEW q \in [IndexThreads -> Seq(RawKvMsg)], NEW n \in IndexThreads,
           NEW op \in RpcType, NEW i \in IndexThreads, i # n
    PROVE  /\ Positions(Pop(q, n), i, op) = Positions(q, i, op)
           /\ Pop(q, n)[i] = q[i]
  BY DEF Pop, Positions

\* A packet that stays has moved up by one,
LEMMA PopDown ==
    ASSUME NEW q \in [IndexThreads -> Seq(RawKvMsg)], NEW n \in IndexThreads, q[n] # <<>>,
           NEW op \in RpcType, NEW j \in Positions(Pop(q, n), n, op)
    PROVE  /\ j \in Nat /\ j > 0 /\ j + 1 \in Positions(q, n, op)
           /\ Pop(q, n)[n][j] = q[n][j + 1]
  <1>1. q[n] \in Seq(RawKvMsg) /\ Pop(q, n)[n] = Tail(q[n])
    BY DEF Pop
  <1> QED
    BY <1>1 DEF Positions

\* every packet but the head stays,
LEMMA PopUp ==
    ASSUME NEW q \in [IndexThreads -> Seq(RawKvMsg)], NEW n \in IndexThreads, q[n] # <<>>,
           NEW op \in RpcType, NEW j \in Positions(q, n, op), j # 1
    PROVE  /\ j \in Nat /\ j - 1 \in Positions(Pop(q, n), n, op)
           /\ Pop(q, n)[n][j - 1] = q[n][j]
  <1>1. q[n] \in Seq(RawKvMsg) /\ Pop(q, n)[n] = Tail(q[n])
    BY DEF Pop
  <1> QED
    BY <1>1 DEF Positions

\* and the head is the packet at place 1.
LEMMA PopHead ==
    ASSUME NEW q \in [IndexThreads -> Seq(RawKvMsg)], NEW n \in IndexThreads, q[n] # <<>>,
           NEW op \in RpcType
    PROVE  Head(q[n]) = q[n][1] /\ (1 \in Positions(q, n, op) <=> Head(q[n]).op = op)
  <1>1. q[n] \in Seq(RawKvMsg)
    OBVIOUS
  <1> QED
    BY <1>1 DEF Positions

-----------------------------------------------------------------------------
(* Steps that move no multicast and no ReplySwitch and leave the registers. *)

\* The same packets at the same places, and the same registers.
LEMMA SlotFrame ==
    ASSUME SlotOwned, regs' = regs,
           \A i \in IndexThreads :
               /\ Multicasts(i)' = Multicasts(i)
               /\ \A j \in Multicasts(i) : s2i'[i][j] = s2i[i][j]
               /\ ReplySwitches(i)' = ReplySwitches(i)
               /\ \A j \in ReplySwitches(i) : i2s'[i][j] = i2s[i][j]
    PROVE  SlotOwned'
  <1>1. SlotMatches'
    BY DEF SlotOwned, SlotMatches, Owns
  <1>2. SlotUnique'
    BY DEF SlotOwned, SlotUnique, SameSlot
  <1>3. SlotHeld'
    BY DEF SlotOwned, SlotHeld, OnSlot
  <1> QED
    BY <1>1, <1>2, <1>3 DEF SlotOwned

\* The switch forwards a packet of a client.
LEMMA SlotSwitchClient ==
    ASSUME TypeOK, SlotOwned, NEW t \in CThreads, SwitchClient(t)
    PROVE  SlotOwned'
  <1> DEFINE m == Head(c2s[t])
  <1>1. m \in RawKvMsg /\ s2i \in [IndexThreads -> Seq(RawKvMsg)]
    BY PopType DEF SwitchClient, TypeOK
  <1>2. /\ s2i' = s2i \/ (m.op # MultiCastPkt /\ s2i' = Push(s2i, m.port, m))
        /\ i2s' = i2s /\ regs' = regs
    BY DEF SwitchClient, MultiCastPkt, ReadIndexReq, UpdateIndexReq
  <1> HIDE DEF m
  <1>3. ASSUME NEW i \in IndexThreads
        PROVE  /\ Multicasts(i)' = Multicasts(i)
               /\ \A j \in Multicasts(i) : s2i'[i][j] = s2i[i][j]
    <2>1. CASE s2i' = s2i
      BY <2>1 DEF Multicasts, Positions
    <2>2. CASE m.op # MultiCastPkt /\ s2i' = Push(s2i, m.port, m)
      <3>0. /\ m.op # MultiCastPkt /\ m \in RawKvMsg
            /\ s2i \in [IndexThreads -> Seq(RawKvMsg)] /\ MultiCastPkt \in RpcType
            /\ m.port \in Nat
        BY <1>1, <2>2 DEF RawKvMsg, RpcType
      <3>1. /\ Positions(Push(s2i, m.port, m), i, MultiCastPkt)
                  = Positions(s2i, i, MultiCastPkt)
            /\ \A j \in Positions(s2i, i, MultiCastPkt) :
                   Push(s2i, m.port, m)[i][j] = s2i[i][j]
        BY <3>0, PushOther
      <3> QED
        BY <2>2, <3>1 DEF Multicasts
    <2> QED
      BY <1>2, <2>1, <2>2
  <1>4. \A i \in IndexThreads : ReplySwitches(i)' = ReplySwitches(i)
    BY <1>2 DEF ReplySwitches, Positions
  <1> QED
    BY <1>2, <1>3, <1>4, SlotFrame

-----------------------------------------------------------------------------
(* The switch grants a slot. *)

\* A granted AppendReply makes its write the owner and sends one multicast.
LEMMA SlotSwitchData ==
    ASSUME Program = "fw", TypeOK, SlotOwned, NEW d \in DataThreads, SwitchData(d)
    PROVE  SlotOwned'
  <1>m. /\ Head(d2s[d]) \in RawKvMsg
        /\ s2i \in [IndexThreads -> Seq(RawKvMsg)] /\ i2s' = i2s
    BY PopType DEF SwitchData, TypeOK
  <1>p. PICK m \in RawKvMsg : m = Head(d2s[d])
    BY <1>m
  <1> DEFINE n == [m EXCEPT !.op = MultiCastPkt]
             s == get_switch_key(m.key)
  <1>1. m \in RawKvMsg /\ s2i \in [IndexThreads -> Seq(RawKvMsg)] /\ i2s' = i2s
    BY <1>m
  <1>2. /\ m.key \in Keys /\ s \in SwitchKeys /\ m.ixp \in IndexThreads
        /\ get_fingerprint(m.key) # 0 /\ regs \in Registers
    <2>1. m.key \in Keys /\ m.ixp \in IndexThreads
      BY DEF RawKvMsg
    <2>2. s \in SwitchKeys /\ get_fingerprint(m.key) # 0
      BY <2>1, KeyRanges
    <2> QED
      BY <2>1, <2>2 DEF TypeOK
  <1>o. MultiCastPkt \in RpcType
    BY DEF RpcType
  <1>l. PICK l : l = Len(s2i[m.ixp]) + 1
    OBVIOUS
  <1>3. /\ n \in RawKvMsg /\ n.op = MultiCastPkt /\ n.key = m.key
        /\ n.log = m.log /\ rpc_id(n) = rpc_id(m)
    BY <1>1 DEF RawKvMsg, RpcType, rpc_id
  <1>4. \A i \in IndexThreads : ReplySwitches(i)' = ReplySwitches(i)
    BY <1>1 DEF ReplySwitches, Positions
  <1>5. \/ /\ FwGranted(regs, m)
           /\ regs' = FwNewIndex(regs, m) /\ s2i' = Push(s2i, m.ixp, n)
        \/ regs' = regs /\ s2i' = s2i
    BY <1>p DEF SwitchData, Granted, NewIndex, FwNewIndex
  <1> HIDE DEF n, s
  <1>6. CASE regs' = regs /\ s2i' = s2i
    <2>1. \A i \in IndexThreads : Multicasts(i)' = Multicasts(i)
      BY <1>6 DEF Multicasts, Positions
    <2> QED
      BY <1>1, <1>4, <1>6, <2>1, SlotFrame
  <1>7. CASE /\ FwGranted(regs, m)
             /\ regs' = FwNewIndex(regs, m) /\ s2i' = Push(s2i, m.ixp, n)
    <2>1. regs.key[s] = 0
      BY <1>7 DEF FwGranted, s
    <2>2. /\ regs'.key[s] = get_fingerprint(m.key) /\ regs'.rpc[s] = rpc_id(m)
          /\ regs'.log[s] = m.log
          /\ \A x \in SwitchKeys : x # s => /\ regs'.key[x] = regs.key[x]
                                            /\ regs'.rpc[x] = regs.rpc[x]
                                            /\ regs'.log[x] = regs.log[x]
      BY <1>2, <1>7 DEF FwNewIndex, Registers, s
    <2>3. ASSUME NEW i \in IndexThreads
          PROVE  /\ Multicasts(i)' = IF i = m.ixp THEN Multicasts(i) \cup {l}
                                     ELSE Multicasts(i)
                 /\ \A j \in Multicasts(i) : s2i'[i][j] = s2i[i][j]
      <3>1. \A j : j \in Multicasts(m.ixp)' <=> j \in Multicasts(m.ixp) \/ j = l
        <4>1. \A j : j \in Positions(Push(s2i, m.ixp, n), m.ixp, n.op)
                     <=> j \in Positions(s2i, m.ixp, n.op) \/ j = Len(s2i[m.ixp]) + 1
          BY <1>1, <1>2, <1>3, PushEnd
        <4> QED
          BY <1>3, <1>7, <1>l, <4>1 DEF Multicasts
      <3>2. /\ i # m.ixp => Positions(Push(s2i, m.ixp, n), i, MultiCastPkt)
                             = Positions(s2i, i, MultiCastPkt)
            /\ \A j \in Positions(s2i, i, MultiCastPkt) :
                   Push(s2i, m.ixp, n)[i][j] = s2i[i][j]
        BY <1>1, <1>2, <1>3, <1>o, PushRest
      <3> QED
        BY <1>7, <3>1, <3>2 DEF Multicasts
    <2>4. s2i'[m.ixp][l] = n /\ l \notin Multicasts(m.ixp)
      BY <1>1, <1>2, <1>3, <1>7, <1>l, PushEnd DEF Multicasts
    \* No packet of the empty slot was in flight.
    <2>5. ASSUME NEW i \in IndexThreads
          PROVE  /\ \A j \in Multicasts(i) : /\ s2i[i][j].key \in Keys
                                             /\ get_switch_key(s2i[i][j].key) # s
                 /\ \A j \in ReplySwitches(i) : /\ i2s[i][j].key \in Keys
                                                /\ get_switch_key(i2s[i][j].key) # s
      <3>1. \A j \in Multicasts(i) : s2i[i][j] \in RawKvMsg
        BY DEF Multicasts, Positions, TypeOK
      <3>2. \A j \in ReplySwitches(i) : i2s[i][j] \in RawKvMsg
        BY DEF ReplySwitches, Positions, TypeOK
      <3>3. \A x \in RawKvMsg : Owns(regs, x) =>
                x.key \in Keys /\ get_switch_key(x.key) # s
        <4> SUFFICES ASSUME NEW x \in RawKvMsg, Owns(regs, x)
                     PROVE  x.key \in Keys /\ get_switch_key(x.key) # s
          OBVIOUS
        <4>1. x.key \in Keys
          BY DEF RawKvMsg
        <4>2. get_fingerprint(x.key) # 0
          BY <4>1, KeyRanges
        <4> QED
          BY <2>1, <4>1, <4>2 DEF Owns
      <3> QED
        BY <3>1, <3>2, <3>3 DEF SlotOwned, SlotMatches
    <2>6. SlotMatches'
      <3>1. ASSUME NEW x, x.key \in Keys, get_switch_key(x.key) # s,
                   Owns(regs, x)
            PROVE  Owns(regs', x)
        BY <2>2, <3>1, KeyRanges DEF Owns
      <3>2. Owns(regs', n)
        BY <1>3, <2>2 DEF Owns, s
      <3>3. ASSUME NEW i \in IndexThreads, NEW j \in Multicasts(i)'
            PROVE  Owns(regs', s2i'[i][j])
        BY <2>3, <2>4, <2>5, <3>1, <3>2 DEF SlotOwned, SlotMatches
      <3>4. ASSUME NEW i \in IndexThreads, NEW j \in ReplySwitches(i)'
            PROVE  Owns(regs', i2s'[i][j])
        BY <1>1, <1>4, <2>5, <3>1 DEF SlotOwned, SlotMatches
      <3> QED
        BY <3>3, <3>4 DEF SlotMatches
    <2>7. SlotUnique'
      <3>0. get_switch_key(n.key) = s
        BY <1>3 DEF s
      <3>1. ASSUME NEW i1 \in IndexThreads, NEW i2 \in IndexThreads,
                   NEW j1 \in Multicasts(i1)', NEW j2 \in Multicasts(i2)',
                   SameSlot(s2i[i1][j1], s2i[i2][j2])'
            PROVE  i1 = i2 /\ j1 = j2
        BY <2>3, <2>4, <2>5, <3>0, <3>1 DEF SlotOwned, SlotUnique, SameSlot
      <3>2. ASSUME NEW i1 \in IndexThreads, NEW i2 \in IndexThreads,
                   NEW j1 \in Multicasts(i1)', NEW j2 \in ReplySwitches(i2)'
            PROVE  ~ SameSlot(s2i[i1][j1], i2s[i2][j2])'
        BY <1>1, <1>4, <2>3, <2>4, <2>5, <3>0 DEF SlotOwned, SlotUnique, SameSlot
      <3>3. ASSUME NEW i1 \in IndexThreads, NEW i2 \in IndexThreads,
                   NEW j1 \in ReplySwitches(i1)', NEW j2 \in ReplySwitches(i2)',
                   SameSlot(i2s[i1][j1], i2s[i2][j2])'
            PROVE  i1 = i2 /\ j1 = j2
        BY <1>1, <1>4, <3>3 DEF SlotOwned, SlotUnique, SameSlot
      <3> QED
        BY <3>1, <3>2, <3>3 DEF SlotUnique
    <2>8. SlotHeld'
      <3> SUFFICES ASSUME NEW x \in SwitchKeys, regs'.key[x] # 0
                   PROVE  \E i \in IndexThreads :
                              \/ \E j \in Multicasts(i)' : OnSlot(s2i'[i][j], x)
                              \/ \E j \in ReplySwitches(i)' : OnSlot(i2s'[i][j], x)
        BY DEF SlotHeld, OnSlot
      <3>1. CASE x = s
        BY <1>2, <1>3, <2>3, <2>4, <3>1 DEF OnSlot, s
      <3>2. CASE x # s
        BY <1>1, <1>4, <2>2, <2>3, <3>2 DEF SlotOwned, SlotHeld, OnSlot
      <3> QED
        BY <3>1, <3>2
    <2> QED
      BY <2>6, <2>7, <2>8 DEF SlotOwned
  <1> QED
    BY <1>5, <1>6, <1>7

-----------------------------------------------------------------------------
(* An index thread serves a packet: a multicast turns into its ReplySwitch. *)

\* The packet that stands for the slot moves from s2i to i2s.
LEMMA SlotIndexServer ==
    ASSUME TypeOK, SlotOwned, NEW i0 \in IndexThreads, IndexServer(i0)
    PROVE  SlotOwned'
  <1>m. /\ Head(s2i[i0]) \in RawKvMsg /\ s2i[i0] # <<>>
        /\ s2i \in [IndexThreads -> Seq(RawKvMsg)] /\ i2s \in [IndexThreads -> Seq(RawKvMsg)]
        /\ regs' = regs /\ s2i' = Pop(s2i, i0)
    BY PopType DEF IndexServer, TypeOK
  <1>p. PICK m \in RawKvMsg : m = Head(s2i[i0])
    BY <1>m
  <1>o. MultiCastPkt \in RpcType /\ ReplySwitch \in RpcType
    BY DEF RpcType
  <1>q. PICK n \in RawKvMsg :
            /\ i2s' = Push(i2s, i0, n)
            /\ m.op = MultiCastPkt => /\ n.op = ReplySwitch /\ n.key = m.key
                                      /\ n.log = m.log /\ rpc_id(n) = rpc_id(m)
            /\ m.op # MultiCastPkt => n.op # ReplySwitch
    <2>1. CASE IndexPut(i0, m)
      <3> DEFINE n == [m EXCEPT !.op = IF m.op = MultiCastPkt THEN ReplySwitch
                                       ELSE UpdateIndexReply]
      <3>1. n \in RawKvMsg
        BY DEF RawKvMsg, RpcType
      <3>2. /\ m.op = MultiCastPkt => /\ n.op = ReplySwitch /\ n.key = m.key
                                      /\ n.log = m.log /\ rpc_id(n) = rpc_id(m)
            /\ m.op # MultiCastPkt => n.op # ReplySwitch
        BY DEF RawKvMsg, rpc_id, ReplySwitch, UpdateIndexReply
      <3>3. i2s' = Push(i2s, i0, n)
        BY <2>1 DEF IndexPut
      <3> QED
        BY <3>1, <3>2, <3>3
    <2>2. CASE IndexGet(i0, m)
      <3> DEFINE n == [m EXCEPT !.op = ReadIndexReply, !.log = index[m.key]]
      <3>1. n \in RawKvMsg /\ n.op # ReplySwitch
        BY DEF RawKvMsg, RpcType, TypeOK, ReplySwitch, ReadIndexReply
      <3>2. i2s' = Push(i2s, i0, n) /\ m.op # MultiCastPkt
        BY <2>2 DEF IndexGet, ReadIndexReq, MultiCastPkt
      <3> QED
        BY <3>1, <3>2
    <2> QED
      BY <1>p, <2>1, <2>2 DEF IndexServer
  <1>l. PICK l : l = Len(i2s[i0]) + 1
    OBVIOUS
  \* How the packets moved.
  <1>1. ASSUME NEW i \in IndexThreads
        PROVE  /\ i # i0 => Multicasts(i)' = Multicasts(i) /\ s2i'[i] = s2i[i]
               /\ \A j \in Multicasts(i0)' :
                      /\ j \in Nat /\ j > 0 /\ j + 1 \in Multicasts(i0)
                      /\ s2i'[i0][j] = s2i[i0][j + 1]
               /\ \A j \in Multicasts(i0) : j # 1 =>
                      /\ j \in Nat /\ j - 1 \in Multicasts(i0)'
                      /\ s2i'[i0][j - 1] = s2i[i0][j]
               /\ m = s2i[i0][1] /\ (1 \in Multicasts(i0) <=> m.op = MultiCastPkt)
    <2>1. i # i0 => /\ Positions(Pop(s2i, i0), i, MultiCastPkt) = Positions(s2i, i, MultiCastPkt)
                    /\ Pop(s2i, i0)[i] = s2i[i]
      BY <1>m, <1>o, PopOther
    <2>2. \A j \in Positions(Pop(s2i, i0), i0, MultiCastPkt) :
              /\ j \in Nat /\ j > 0 /\ j + 1 \in Positions(s2i, i0, MultiCastPkt)
              /\ Pop(s2i, i0)[i0][j] = s2i[i0][j + 1]
      BY <1>m, <1>o, PopDown
    <2>3. \A j \in Positions(s2i, i0, MultiCastPkt) : j # 1 =>
              /\ j \in Nat /\ j - 1 \in Positions(Pop(s2i, i0), i0, MultiCastPkt)
              /\ Pop(s2i, i0)[i0][j - 1] = s2i[i0][j]
      BY <1>m, <1>o, PopUp
    <2>4. /\ Head(s2i[i0]) = s2i[i0][1]
          /\ (1 \in Positions(s2i, i0, MultiCastPkt) <=> Head(s2i[i0]).op = MultiCastPkt)
      BY <1>m, <1>o, PopHead
    <2> QED
      BY <1>m, <1>p, <2>1, <2>2, <2>3, <2>4, Zenon DEF Multicasts
  <1>2. ASSUME NEW i \in IndexThreads
        PROVE  /\ i # i0 => ReplySwitches(i)' = ReplySwitches(i)
               /\ \A j \in ReplySwitches(i) : i2s'[i][j] = i2s[i][j]
    <2>1. /\ i # i0 => Positions(Push(i2s, i0, n), i, ReplySwitch)
                         = Positions(i2s, i, ReplySwitch)
          /\ \A j \in Positions(i2s, i, ReplySwitch) :
                 Push(i2s, i0, n)[i][j] = i2s[i][j]
      BY <1>m, <1>o, PushRest, ZenonT(30)
    <2> QED
      BY <1>q, <2>1 DEF ReplySwitches
  <1>3. CASE m.op # MultiCastPkt
    <2>1. ReplySwitches(i0)' = ReplySwitches(i0)
      <3>1. Positions(Push(i2s, i0, n), i0, ReplySwitch) = Positions(i2s, i0, ReplySwitch)
        <4>1. i0 \in Nat /\ n.op # ReplySwitch
          BY <1>3, <1>q DEF IndexThreads
        <4> QED
          BY <1>m, <1>o, <4>1, PushOther
      <3> QED
        BY <1>q, <3>1 DEF ReplySwitches
    <2>2. 1 \notin Multicasts(i0)
      BY <1>1, <1>3
    <2>3. SlotMatches'
      <3>1. ASSUME NEW i \in IndexThreads, NEW j \in Multicasts(i)'
            PROVE  Owns(regs', s2i'[i][j])
        BY <1>m, <1>1, <3>1 DEF SlotOwned, SlotMatches
      <3>2. ASSUME NEW i \in IndexThreads, NEW j \in ReplySwitches(i)'
            PROVE  Owns(regs', i2s'[i][j])
        BY <1>m, <1>2, <2>1, <3>2 DEF SlotOwned, SlotMatches
      <3> QED
        BY <3>1, <3>2 DEF SlotMatches
    <2>4. SlotUnique'
      BY <1>1, <1>2, <2>1 DEF SlotOwned, SlotUnique, SameSlot
    <2>5. SlotHeld'
      <3> SUFFICES ASSUME NEW x \in SwitchKeys, regs'.key[x] # 0
                   PROVE  \E i \in IndexThreads :
                              \/ \E j \in Multicasts(i)' : OnSlot(s2i'[i][j], x)
                              \/ \E j \in ReplySwitches(i)' : OnSlot(i2s'[i][j], x)
        BY DEF SlotHeld, OnSlot
      <3>1. PICK i \in IndexThreads : \/ \E j \in Multicasts(i) : OnSlot(s2i[i][j], x)
                                      \/ \E j \in ReplySwitches(i) : OnSlot(i2s[i][j], x)
        BY <1>m DEF SlotOwned, SlotHeld
      <3>2. ASSUME NEW j \in Multicasts(i), OnSlot(s2i[i][j], x)
            PROVE  \E k \in Multicasts(i)' : OnSlot(s2i'[i][k], x)
        BY <1>1, <2>2, <3>2
      <3>3. ASSUME NEW j \in ReplySwitches(i), OnSlot(i2s[i][j], x)
            PROVE  j \in ReplySwitches(i)' /\ OnSlot(i2s'[i][j], x)
        BY <1>2, <2>1, <3>3
      <3> QED
        BY <3>1, <3>2, <3>3
    <2> QED
      BY <2>3, <2>4, <2>5 DEF SlotOwned
  <1>4. CASE m.op = MultiCastPkt
    <2>1. /\ \A j : j \in ReplySwitches(i0)' <=> j \in ReplySwitches(i0) \/ j = l
          /\ i2s'[i0][l] = n
      <3>1. \A j : j \in Positions(Push(i2s, i0, n), i0, n.op)
                   <=> j \in Positions(i2s, i0, n.op) \/ j = Len(i2s[i0]) + 1
        BY <1>m, PushEnd
      <3>2. Push(i2s, i0, n)[i0][Len(i2s[i0]) + 1] = n
        BY <1>m, PushEnd
      <3> QED
        BY <1>4, <1>q, <1>l, <3>1, <3>2 DEF ReplySwitches
    <2>2. 1 \in Multicasts(i0) /\ s2i[i0][1] = m
      BY <1>1, <1>4
    <2>3. /\ n.key = m.key /\ n.log = m.log /\ rpc_id(n) = rpc_id(m)
      BY <1>4, <1>q
    <2>4. SlotMatches'
      <3>1. Owns(regs, n)
        BY <2>2, <2>3 DEF SlotOwned, SlotMatches, Owns
      <3>2. ASSUME NEW i \in IndexThreads, NEW j \in Multicasts(i)'
            PROVE  Owns(regs', s2i'[i][j])
        BY <1>m, <1>1, <3>2 DEF SlotOwned, SlotMatches
      <3>3. ASSUME NEW i \in IndexThreads, NEW j \in ReplySwitches(i)'
            PROVE  Owns(regs', i2s'[i][j])
        BY <1>m, <1>2, <2>1, <3>1 DEF SlotOwned, SlotMatches
      <3> QED
        BY <3>2, <3>3 DEF SlotMatches
    <2>5. SlotUnique'
      <3>0. /\ \A i \in IndexThreads : \A j \in Multicasts(i) :
                   SameSlot(s2i[i][j], n) => i = i0 /\ j = 1
            /\ \A i \in IndexThreads : \A j \in ReplySwitches(i) :
                   ~ SameSlot(i2s[i][j], n)
        BY <2>2, <2>3 DEF SlotOwned, SlotUnique, SameSlot
      <3>1. ASSUME NEW i1 \in IndexThreads, NEW i2 \in IndexThreads,
                   NEW j1 \in Multicasts(i1)', NEW j2 \in Multicasts(i2)',
                   SameSlot(s2i'[i1][j1], s2i'[i2][j2])
            PROVE  i1 = i2 /\ j1 = j2
        BY <1>1, <3>1 DEF SlotOwned, SlotUnique, SameSlot
      <3>2. ASSUME NEW i1 \in IndexThreads, NEW i2 \in IndexThreads,
                   NEW j1 \in ReplySwitches(i1)', NEW j2 \in ReplySwitches(i2)',
                   SameSlot(i2s'[i1][j1], i2s'[i2][j2])
            PROVE  i1 = i2 /\ j1 = j2
        BY <1>2, <2>1, <3>0, <3>2 DEF SlotOwned, SlotUnique, SameSlot
      <3>3. ASSUME NEW i1 \in IndexThreads, NEW i2 \in IndexThreads,
                   NEW j1 \in Multicasts(i1)', NEW j2 \in ReplySwitches(i2)',
                   SameSlot(s2i'[i1][j1], i2s'[i2][j2])
            PROVE  FALSE
        <4>1. PICK k1 \in Multicasts(i1) : /\ s2i'[i1][j1] = s2i[i1][k1]
                                           /\ ~ (i1 = i0 /\ k1 = 1)
          BY <1>1, <3>3
        <4>2. CASE i2 = i0 /\ j2 = l
          BY <2>1, <3>0, <3>3, <4>1, <4>2
        <4>3. CASE j2 \in ReplySwitches(i2) /\ i2s'[i2][j2] = i2s[i2][j2]
          BY <3>3, <4>1, <4>3 DEF SlotOwned, SlotUnique, SameSlot
        <4> QED
          BY <1>2, <2>1, <4>2, <4>3
      <3> QED
        BY <3>1, <3>2, <3>3 DEF SlotUnique, SameSlot
    <2>6. SlotHeld'
      <3> SUFFICES ASSUME NEW x \in SwitchKeys, regs'.key[x] # 0
                   PROVE  \E i \in IndexThreads :
                              \/ \E j \in Multicasts(i)' : OnSlot(s2i'[i][j], x)
                              \/ \E j \in ReplySwitches(i)' : OnSlot(i2s'[i][j], x)
        BY DEF SlotHeld, OnSlot
      <3>1. CASE get_switch_key(n.key) = x
        BY <2>1, <3>1 DEF OnSlot
      <3>2. CASE get_switch_key(n.key) # x
        <4>1. PICK i \in IndexThreads :
                  \/ \E j \in Multicasts(i) : OnSlot(s2i[i][j], x)
                  \/ \E j \in ReplySwitches(i) : OnSlot(i2s[i][j], x)
          BY <1>m DEF SlotOwned, SlotHeld
        <4>2. ASSUME NEW j \in Multicasts(i), OnSlot(s2i[i][j], x)
              PROVE  \E k \in Multicasts(i)' : OnSlot(s2i'[i][k], x)
          <5>1. ~ (i = i0 /\ j = 1)
            BY <2>2, <2>3, <3>2, <4>2 DEF OnSlot
          <5> QED
            BY <1>1, <4>2, <5>1
        <4>3. ASSUME NEW j \in ReplySwitches(i), OnSlot(i2s[i][j], x)
              PROVE  j \in ReplySwitches(i)' /\ OnSlot(i2s'[i][j], x)
          BY <1>2, <2>1, <4>3
        <4> QED
          BY <4>1, <4>2, <4>3
      <3> QED
        BY <3>1, <3>2
    <2> QED
      BY <2>4, <2>5, <2>6 DEF SlotOwned
  <1> QED
    BY <1>3, <1>4

-----------------------------------------------------------------------------
(* The switch takes a packet of an index thread: a ReplySwitch empties its   *)
(* slot.                                                                     *)

\* Only the slot of the ReplySwitch is emptied, with its last packet.
LEMMA SlotSwitchIndex ==
    ASSUME Program = "fw", TypeOK, SlotOwned, NEW i0 \in IndexThreads, SwitchIndex(i0)
    PROVE  SlotOwned'
  <1>m. /\ Head(i2s[i0]) \in RawKvMsg /\ i2s[i0] # <<>>
        /\ i2s \in [IndexThreads -> Seq(RawKvMsg)]
        /\ s2i' = s2i /\ i2s' = Pop(i2s, i0)
    BY PopType DEF SwitchIndex, TypeOK
  <1>p. PICK m \in RawKvMsg : m = Head(i2s[i0])
    BY <1>m
  <1>o. ReplySwitch \in RpcType
    BY DEF RpcType
  \* How the packets moved.
  <1>1. ASSUME NEW i \in IndexThreads
        PROVE  /\ i # i0 => ReplySwitches(i)' = ReplySwitches(i) /\ i2s'[i] = i2s[i]
               /\ \A j \in ReplySwitches(i0)' :
                      /\ j \in Nat /\ j > 0 /\ j + 1 \in ReplySwitches(i0)
                      /\ i2s'[i0][j] = i2s[i0][j + 1]
               /\ \A j \in ReplySwitches(i0) : j # 1 =>
                      /\ j \in Nat /\ j - 1 \in ReplySwitches(i0)'
                      /\ i2s'[i0][j - 1] = i2s[i0][j]
               /\ m = i2s[i0][1] /\ (1 \in ReplySwitches(i0) <=> m.op = ReplySwitch)
    <2>1. i # i0 => /\ Positions(Pop(i2s, i0), i, ReplySwitch) = Positions(i2s, i, ReplySwitch)
                    /\ Pop(i2s, i0)[i] = i2s[i]
      BY <1>m, <1>o, PopOther
    <2>2. \A j \in Positions(Pop(i2s, i0), i0, ReplySwitch) :
              /\ j \in Nat /\ j > 0 /\ j + 1 \in Positions(i2s, i0, ReplySwitch)
              /\ Pop(i2s, i0)[i0][j] = i2s[i0][j + 1]
      BY <1>m, <1>o, PopDown
    <2>3. \A j \in Positions(i2s, i0, ReplySwitch) : j # 1 =>
              /\ j \in Nat /\ j - 1 \in Positions(Pop(i2s, i0), i0, ReplySwitch)
              /\ Pop(i2s, i0)[i0][j - 1] = i2s[i0][j]
      BY <1>m, <1>o, PopUp
    <2>4. /\ Head(i2s[i0]) = i2s[i0][1]
          /\ (1 \in Positions(i2s, i0, ReplySwitch) <=> Head(i2s[i0]).op = ReplySwitch)
      BY <1>m, <1>o, PopHead
    <2> QED
      BY <1>m, <1>p, <2>1, <2>2, <2>3, <2>4, Zenon DEF ReplySwitches
  <1>2. \A i \in IndexThreads : Multicasts(i)' = Multicasts(i)
    BY <1>m DEF Multicasts
  \* Each packet in flight after the step was in flight before, elsewhere than at
  \* the head that was taken, and different places were different.
  <1>3. ASSUME NEW i \in IndexThreads, NEW j \in ReplySwitches(i)'
        PROVE  \E k \in ReplySwitches(i) :
                   i2s'[i][j] = i2s[i][k] /\ ~ (i = i0 /\ k = 1)
    BY <1>1, <1>3
  <1>4. SlotUnique'
    <2>1. ASSUME NEW i1 \in IndexThreads, NEW i2 \in IndexThreads,
                 NEW j1 \in Multicasts(i1)', NEW j2 \in Multicasts(i2)',
                 SameSlot(s2i'[i1][j1], s2i'[i2][j2])
          PROVE  i1 = i2 /\ j1 = j2
      BY <1>m, <1>2, <2>1 DEF SlotOwned, SlotUnique
    <2>2. ASSUME NEW i1 \in IndexThreads, NEW i2 \in IndexThreads,
                 NEW j1 \in ReplySwitches(i1)', NEW j2 \in ReplySwitches(i2)',
                 SameSlot(i2s'[i1][j1], i2s'[i2][j2])
          PROVE  i1 = i2 /\ j1 = j2
      BY <1>1, <2>2 DEF SlotOwned, SlotUnique, SameSlot
    <2>3. ASSUME NEW i1 \in IndexThreads, NEW i2 \in IndexThreads,
                 NEW j1 \in Multicasts(i1)', NEW j2 \in ReplySwitches(i2)'
          PROVE  ~ SameSlot(s2i'[i1][j1], i2s'[i2][j2])
      BY <1>m, <1>2, <1>3 DEF SlotOwned, SlotUnique
    <2> QED
      BY <2>1, <2>2, <2>3 DEF SlotUnique, SameSlot
  <1>5. CASE m.op # ReplySwitch
    <2>1. regs' = regs /\ 1 \notin ReplySwitches(i0)
      BY <1>1, <1>5, <1>p DEF SwitchIndex
    <2>2. SlotMatches'
      <3>1. ASSUME NEW i \in IndexThreads, NEW j \in Multicasts(i)'
            PROVE  Owns(regs', s2i'[i][j])
        BY <1>m, <1>2, <2>1 DEF SlotOwned, SlotMatches
      <3>2. ASSUME NEW i \in IndexThreads, NEW j \in ReplySwitches(i)'
            PROVE  Owns(regs', i2s'[i][j])
        BY <1>3, <2>1 DEF SlotOwned, SlotMatches
      <3> QED
        BY <3>1, <3>2 DEF SlotMatches
    <2>3. SlotHeld'
      <3> SUFFICES ASSUME NEW x \in SwitchKeys, regs'.key[x] # 0
                   PROVE  \E i \in IndexThreads :
                              \/ \E j \in Multicasts(i)' : OnSlot(s2i'[i][j], x)
                              \/ \E j \in ReplySwitches(i)' : OnSlot(i2s'[i][j], x)
        BY DEF SlotHeld, OnSlot
      <3>1. PICK i \in IndexThreads : \/ \E j \in Multicasts(i) : OnSlot(s2i[i][j], x)
                                      \/ \E j \in ReplySwitches(i) : OnSlot(i2s[i][j], x)
        BY <2>1 DEF SlotOwned, SlotHeld
      <3>2. ASSUME NEW j \in Multicasts(i), OnSlot(s2i[i][j], x)
            PROVE  j \in Multicasts(i)' /\ OnSlot(s2i'[i][j], x)
        BY <1>m, <1>2, <3>2
      <3>3. ASSUME NEW j \in ReplySwitches(i), OnSlot(i2s[i][j], x)
            PROVE  \E k \in ReplySwitches(i)' : OnSlot(i2s'[i][k], x)
        BY <1>1, <2>1, <3>3
      <3> QED
        BY <3>1, <3>2, <3>3
    <2> QED
      BY <1>4, <2>2, <2>3 DEF SlotOwned
  <1>6. CASE m.op = ReplySwitch
    <2> DEFINE s == get_switch_key(m.key)
    <2>1. m.key \in Keys /\ s \in SwitchKeys /\ regs \in Registers
      <3>1. m.key \in Keys
        BY DEF RawKvMsg
      <3> QED
        BY <3>1, KeyRanges DEF TypeOK
    <2>2. 1 \in ReplySwitches(i0) /\ i2s[i0][1] = m
      BY <1>1, <1>6
    <2>3. regs.rpc[s] = rpc_id(m)
      BY <2>2 DEF SlotOwned, SlotMatches, Owns
    <2>4. regs' = FwDeleteIndex(regs, m)
      BY <1>6, <1>p DEF SwitchIndex, DeleteIndex, ReplySwitch, UpdateIndexReply,
                        ReadIndexReply
    <2>5. /\ regs'.key[s] = 0
          /\ \A x \in SwitchKeys : x # s => /\ regs'.key[x] = regs.key[x]
                                            /\ regs'.rpc[x] = regs.rpc[x]
                                            /\ regs'.log[x] = regs.log[x]
      BY <2>1, <2>3, <2>4 DEF FwDeleteIndex, Registers
    <2> HIDE DEF s
    \* No other packet of the slot was in flight.
    <2>6. /\ \A i \in IndexThreads : \A j \in Multicasts(i) :
                 get_switch_key(s2i[i][j].key) # s
          /\ \A i \in IndexThreads : \A j \in ReplySwitches(i) :
                 get_switch_key(i2s[i][j].key) = s => i = i0 /\ j = 1
      BY <2>2 DEF SlotOwned, SlotUnique, SameSlot, s
    <2>7. \A x \in RawKvMsg : Owns(regs, x) /\ get_switch_key(x.key) # s
                              => Owns(regs', x)
      <3> SUFFICES ASSUME NEW x \in RawKvMsg, Owns(regs, x), get_switch_key(x.key) # s
                   PROVE  Owns(regs', x)
        OBVIOUS
      <3>1. get_switch_key(x.key) \in SwitchKeys
        <4>1. x.key \in Keys
          BY DEF RawKvMsg
        <4> QED
          BY <4>1, KeyRanges
      <3> QED
        BY <2>5, <3>1 DEF Owns
    <2>8. SlotMatches'
      <3>1. ASSUME NEW i \in IndexThreads, NEW j \in Multicasts(i)'
            PROVE  Owns(regs', s2i'[i][j])
        <4>1. s2i[i][j] \in RawKvMsg
          BY <1>2, <3>1 DEF Multicasts, Positions, TypeOK
        <4> QED
          BY <1>m, <1>2, <2>6, <2>7, <3>1, <4>1 DEF SlotOwned, SlotMatches
      <3>2. ASSUME NEW i \in IndexThreads, NEW j \in ReplySwitches(i)'
            PROVE  Owns(regs', i2s'[i][j])
        <4>1. PICK k \in ReplySwitches(i) :
                       i2s'[i][j] = i2s[i][k] /\ ~ (i = i0 /\ k = 1)
          BY <1>3, <3>2
        <4>2. i2s[i][k] \in RawKvMsg
          BY DEF ReplySwitches, Positions, TypeOK
        <4> QED
          BY <2>6, <2>7, <4>1, <4>2 DEF SlotOwned, SlotMatches
      <3> QED
        BY <3>1, <3>2 DEF SlotMatches
    <2>9. SlotHeld'
      <3> SUFFICES ASSUME NEW x \in SwitchKeys, regs'.key[x] # 0
                   PROVE  \E i \in IndexThreads :
                              \/ \E j \in Multicasts(i)' : OnSlot(s2i'[i][j], x)
                              \/ \E j \in ReplySwitches(i)' : OnSlot(i2s'[i][j], x)
        BY DEF SlotHeld, OnSlot
      <3>0. x # s /\ regs.key[x] # 0
        BY <2>5
      <3>1. PICK i \in IndexThreads : \/ \E j \in Multicasts(i) : OnSlot(s2i[i][j], x)
                                      \/ \E j \in ReplySwitches(i) : OnSlot(i2s[i][j], x)
        BY <3>0 DEF SlotOwned, SlotHeld
      <3>2. ASSUME NEW j \in Multicasts(i), OnSlot(s2i[i][j], x)
            PROVE  j \in Multicasts(i)' /\ OnSlot(s2i'[i][j], x)
        BY <1>m, <1>2, <3>2
      <3>3. ASSUME NEW j \in ReplySwitches(i), OnSlot(i2s[i][j], x)
            PROVE  \E k \in ReplySwitches(i)' : OnSlot(i2s'[i][k], x)
        <4>1. ~ (i = i0 /\ j = 1)
          BY <2>2, <3>0, <3>3 DEF OnSlot, s
        <4> QED
          BY <1>1, <3>3, <4>1
      <3> QED
        BY <3>1, <3>2, <3>3
    <2> QED
      BY <1>4, <2>8, <2>9 DEF SlotOwned
  <1> QED
    BY <1>5, <1>6

-----------------------------------------------------------------------------
\* At the start every slot is free and nothing is in flight.
LEMMA SlotInit == Init => SlotOwned
  <1> SUFFICES ASSUME Init PROVE SlotOwned
    OBVIOUS
  <1>1. \A i \in IndexThreads : Multicasts(i) = {} /\ ReplySwitches(i) = {}
    BY DEF Init, Multicasts, ReplySwitches, Positions
  <1>2. \A s \in SwitchKeys : regs.key[s] = 0
    BY DEF Init, Reset
  <1> QED
    BY <1>1, <1>2 DEF SlotOwned, SlotMatches, SlotUnique, SlotHeld

\* Every step of p4_fw and of the store around it keeps SlotOwned.
LEMMA SlotNext ==
    ASSUME Program = "fw", TypeOK, SlotOwned, [Next]_vars
    PROVE  SlotOwned'
  <1>1. ASSUME UNCHANGED <<s2i, i2s, regs>> PROVE SlotOwned'
    <2>1. \A i \in IndexThreads : /\ Multicasts(i)' = Multicasts(i)
                                  /\ ReplySwitches(i)' = ReplySwitches(i)
      BY <1>1 DEF Multicasts, ReplySwitches
    <2> QED
      BY <1>1, <2>1, SlotFrame
  <1>2. CASE UNCHANGED vars
    BY <1>1, <1>2 DEF vars
  <1>3. CASE \E c \in Coros, k \in Keys : kEnumW(c, k) \/ kEnumR(c, k)
    BY <1>1, <1>3 DEF kEnumW, kEnumR
  <1>4. CASE \E t \in CThreads : ClientReply(t)
    BY <1>1, <1>4 DEF ClientReply, PutValueReturns, PutIndexReturns,
                      GetIndexReturns, GetValueReturns, Resume
  <1>5. CASE \E d \in DataThreads : DataServer(d)
    BY <1>1, <1>5 DEF DataServer
  <1>6. CASE \E t \in CThreads : SwitchClient(t)
    BY <1>6, SlotSwitchClient
  <1>7. CASE \E d \in DataThreads : SwitchData(d)
    BY <1>7, SlotSwitchData
  <1>8. CASE \E i \in IndexThreads : IndexServer(i)
    BY <1>8, SlotIndexServer
  <1>9. CASE \E i \in IndexThreads : SwitchIndex(i)
    BY <1>9, SlotSwitchIndex
  <1> QED
    BY <1>2, <1>3, <1>4, <1>5, <1>6, <1>7, <1>8, <1>9 DEF Next

(***************************************************************************)
(* With p4_fw.p4 in the switch, every occupied slot has exactly one packet *)
(* in flight that frees it, and that packet belongs to the write that owns *)
(* the slot, for every number of clients, keys and index threads and every *)
(* width of the magic.                                                     *)
(***************************************************************************)
THEOREM SlotSafety ==
    ASSUME Program = "fw"
    PROVE  Spec => []SlotOwned
  <1>1. Init => TypeOK /\ SlotOwned
    BY InitType, SlotInit
  <1>2. TypeOK /\ SlotOwned /\ [Next]_vars => (TypeOK /\ SlotOwned)'
    BY NextType, SlotNext
  <1> QED
    BY <1>1, <1>2, PTL DEF Spec

-----------------------------------------------------------------------------
(***************************************************************************)
(* Under either program the write that holds a slot still has its own      *)
(* multicast or ReplySwitch in flight. OwnerOutstanding is inductive       *)
(* together with TypeOK. A takeover brings the multicast of the new owner  *)
(* with it; an index thread turns the owner's multicast into a ReplySwitch *)
(* with the same rpc_id and log id; and the only step that takes an        *)
(* owner's packet out of flight is the one in which its rpc_id empties the *)
(* slot. A late ReplySwitch of an earlier owner may repeat the rpc_id of   *)
(* the present one, because the magic has 8 bits, and free the slot too    *)
(* early, but it cannot leave it stuck.                                    *)
(***************************************************************************)

\* The owner of slot s has its packet in flight.
Outstanding(s) ==
    \E i \in IndexThreads :
        \/ \E j \in Multicasts(i) : OnSlot(s2i[i][j], s) /\ Owns(regs, s2i[i][j])
        \/ \E j \in ReplySwitches(i) : OnSlot(i2s[i][j], s) /\ Owns(regs, i2s[i][j])

\* The registers of a slot decide who owns it.
SameOwner(s) == /\ regs'.key[s] = regs.key[s]
                /\ regs'.rpc[s] = regs.rpc[s]
                /\ regs'.log[s] = regs.log[s]

\* A packet of slot s belongs to its owner as long as the slot keeps its owner.
LEMMA OwnsFrame ==
    ASSUME NEW s, NEW m, OnSlot(m, s), Owns(regs, m), SameOwner(s)
    PROVE  Owns(regs', m)
  BY DEF OnSlot, Owns, SameOwner

-----------------------------------------------------------------------------
(* The steps that move packets of the index threads. *)

\* The packets of the index threads stay where they are, and the slot keeps its
\* owner.
LEMMA OwnerFrame ==
    ASSUME NEW s, Outstanding(s), SameOwner(s),
           \A i \in IndexThreads :
               /\ \A j \in Multicasts(i) : j \in Multicasts(i)' /\ s2i'[i][j] = s2i[i][j]
               /\ \A j \in ReplySwitches(i) :
                      j \in ReplySwitches(i)' /\ i2s'[i][j] = i2s[i][j]
    PROVE  Outstanding(s)'
  <1>1. PICK i \in IndexThreads :
            \/ \E j \in Multicasts(i) : OnSlot(s2i[i][j], s) /\ Owns(regs, s2i[i][j])
            \/ \E j \in ReplySwitches(i) : OnSlot(i2s[i][j], s) /\ Owns(regs, i2s[i][j])
    BY DEF Outstanding
  <1>2. ASSUME NEW j \in Multicasts(i), OnSlot(s2i[i][j], s), Owns(regs, s2i[i][j])
        PROVE  \E k \in Multicasts(i)' : OnSlot(s2i'[i][k], s) /\ Owns(regs', s2i'[i][k])
    BY <1>2, OwnsFrame
  <1>3. ASSUME NEW j \in ReplySwitches(i), OnSlot(i2s[i][j], s), Owns(regs, i2s[i][j])
        PROVE  \E k \in ReplySwitches(i)' : OnSlot(i2s'[i][k], s) /\ Owns(regs', i2s'[i][k])
    BY <1>3, OwnsFrame
  <1>4. \/ \E k \in Multicasts(i)' : OnSlot(s2i'[i][k], s) /\ Owns(regs', s2i'[i][k])
        \/ \E k \in ReplySwitches(i)' : OnSlot(i2s'[i][k], s) /\ Owns(regs', i2s'[i][k])
    BY <1>1, <1>2, <1>3
  <1> QED
    BY <1>4 DEF Outstanding, OnSlot, Owns

\* The switch forwards a packet of a client.
LEMMA OwnerSwitchClient ==
    ASSUME TypeOK, NEW t \in CThreads, SwitchClient(t), NEW s, Outstanding(s)
    PROVE  Outstanding(s)'
  <1>p. PICK m \in RawKvMsg : m = Head(c2s[t])
    BY PopType DEF SwitchClient, TypeOK
  <1>1. /\ s2i' = s2i \/ (m.op # MultiCastPkt /\ s2i' = Push(s2i, m.port, m))
        /\ i2s' = i2s /\ regs' = regs /\ s2i \in [IndexThreads -> Seq(RawKvMsg)]
    BY <1>p DEF SwitchClient, MultiCastPkt, ReadIndexReq, UpdateIndexReq, TypeOK
  <1>2. ASSUME NEW i \in IndexThreads
        PROVE  /\ Multicasts(i)' = Multicasts(i)
               /\ \A j \in Multicasts(i) : s2i'[i][j] = s2i[i][j]
    <2>1. CASE s2i' = s2i
      BY <2>1 DEF Multicasts, Positions
    <2>2. CASE m.op # MultiCastPkt /\ s2i' = Push(s2i, m.port, m)
      <3>0. m.port \in Nat /\ MultiCastPkt \in RpcType
        BY DEF RawKvMsg, RpcType
      <3>1. /\ Positions(Push(s2i, m.port, m), i, MultiCastPkt)
                  = Positions(s2i, i, MultiCastPkt)
            /\ \A j \in Positions(s2i, i, MultiCastPkt) :
                   Push(s2i, m.port, m)[i][j] = s2i[i][j]
        BY <1>1, <2>2, <3>0, PushOther
      <3> QED
        BY <2>2, <3>1 DEF Multicasts
    <2> QED
      BY <1>1, <2>1, <2>2
  <1>3. \A i \in IndexThreads : ReplySwitches(i)' = ReplySwitches(i)
    BY <1>1 DEF ReplySwitches, Positions
  <1> QED
    BY <1>1, <1>2, <1>3, OwnerFrame DEF SameOwner

\* An AppendReply either leaves the owners alone or makes its own write the owner
\* of its slot and sends the multicast of that write.
LEMMA OwnerSwitchData ==
    ASSUME TypeOK, NEW d \in DataThreads, SwitchData(d),
           NEW x \in SwitchKeys, regs'.key[x] # 0, SameOwner(x) => Outstanding(x)
    PROVE  Outstanding(x)'
  <1>p. PICK m \in RawKvMsg : m = Head(d2s[d])
    BY PopType DEF SwitchData, TypeOK
  <1>s. PICK s : s = get_switch_key(m.key)
    OBVIOUS
  <1>n. PICK n : n = [m EXCEPT !.op = MultiCastPkt]
    OBVIOUS
  <1>1. /\ s2i \in [IndexThreads -> Seq(RawKvMsg)] /\ i2s' = i2s
        /\ m.key \in Keys /\ m.ixp \in IndexThreads /\ regs \in Registers
        /\ MultiCastPkt \in RpcType
    BY DEF SwitchData, TypeOK, RawKvMsg, RpcType
  <1>2. s \in SwitchKeys
    BY <1>1, <1>s, KeyRanges
  <1>3. /\ n \in RawKvMsg /\ n.op = MultiCastPkt /\ n.key = m.key
        /\ n.log = m.log /\ rpc_id(n) = rpc_id(m)
    BY <1>n DEF RawKvMsg, RpcType, rpc_id
  <1>4. \/ /\ regs' = NewIndex(regs, m) /\ Granted(regs, m)
           /\ s2i' = Push(s2i, m.ixp, n)
        \/ /\ regs' = NewIndex(regs, m) /\ ~ Granted(regs, m)
           /\ s2i' = s2i
        \/ regs' = regs /\ s2i' = s2i
    BY <1>p, <1>n DEF SwitchData
  <1>5. \A i \in IndexThreads : ReplySwitches(i)' = ReplySwitches(i)
    BY <1>1 DEF ReplySwitches, Positions
  <1>6. ASSUME s2i' = s2i, SameOwner(x)
        PROVE  Outstanding(x)'
    <2>1. Outstanding(x)
      BY <1>6
    <2>2. \A i \in IndexThreads : Multicasts(i)' = Multicasts(i)
      BY <1>6 DEF Multicasts, Positions
    <2> QED
      BY <1>1, <1>5, <1>6, <2>1, <2>2, OwnerFrame
  <1>7. CASE regs' = regs /\ s2i' = s2i
    BY <1>6, <1>7 DEF SameOwner
  <1>8. CASE regs' = NewIndex(regs, m) /\ ~ Granted(regs, m) /\ s2i' = s2i
    <2>1. SameOwner(x)
      BY <1>1, <1>8 DEF NewIndex, Granted, FwNewIndex, OwNewIndex, SameOwner, Registers
    <2> QED
      BY <1>6, <1>8, <2>1
  <1>9. CASE /\ regs' = NewIndex(regs, m) /\ Granted(regs, m)
             /\ s2i' = Push(s2i, m.ixp, n)
    <2>1. /\ regs'.key[s] = get_fingerprint(m.key) /\ regs'.rpc[s] = rpc_id(m)
          /\ regs'.log[s] = m.log
          /\ x # s => SameOwner(x)
      BY <1>1, <1>2, <1>9, <1>s DEF NewIndex, Granted, FwNewIndex, OwNewIndex,
                                    SameOwner, Registers
    <2>2. CASE x = s
      <3>1. PICK l : l = Len(s2i[m.ixp]) + 1
        OBVIOUS
      <3>2. /\ l \in Positions(Push(s2i, m.ixp, n), m.ixp, MultiCastPkt)
            /\ Push(s2i, m.ixp, n)[m.ixp][l] = n
        <4>1. \A j : j \in Positions(Push(s2i, m.ixp, n), m.ixp, n.op)
                     <=> j \in Positions(s2i, m.ixp, n.op) \/ j = Len(s2i[m.ixp]) + 1
          BY <1>1, <1>3, PushEnd
        <4>2. Push(s2i, m.ixp, n)[m.ixp][Len(s2i[m.ixp]) + 1] = n
          BY <1>1, <1>3, PushEnd
        <4> QED
          BY <1>3, <3>1, <4>1, <4>2
      <3>3. l \in Multicasts(m.ixp)' /\ s2i'[m.ixp][l] = n
        BY <1>9, <3>2 DEF Multicasts
      <3>4. OnSlot(n, x) /\ Owns(regs', n)
        BY <1>3, <1>s, <2>1, <2>2 DEF OnSlot, Owns
      <3> QED
        BY <1>1, <3>3, <3>4 DEF Outstanding, OnSlot, Owns
    <2>3. CASE x # s
      <3>1. Outstanding(x)
        BY <2>1, <2>3
      <3>2. ASSUME NEW i \in IndexThreads, NEW j \in Multicasts(i)
            PROVE  j \in Multicasts(i)' /\ s2i'[i][j] = s2i[i][j]
        <4>1. \A k \in Positions(s2i, i, MultiCastPkt) :
                   Push(s2i, m.ixp, n)[i][k] = s2i[i][k]
          BY <1>1, <1>3, PushRest
        <4>2. i # m.ixp => Positions(Push(s2i, m.ixp, n), i, MultiCastPkt)
                              = Positions(s2i, i, MultiCastPkt)
          BY <1>1, <1>3, PushRest
        <4>3. \A k : k \in Positions(s2i, m.ixp, MultiCastPkt)
                     => k \in Positions(Push(s2i, m.ixp, n), m.ixp, MultiCastPkt)
          BY <1>1, <1>3, PushEnd
        <4> QED
          BY <1>9, <4>1, <4>2, <4>3 DEF Multicasts
      <3> QED
        BY <1>1, <1>5, <2>1, <2>3, <3>1, <3>2, OwnerFrame
    <2> QED
      BY <2>2, <2>3
  <1> QED
    BY <1>4, <1>7, <1>8, <1>9

\* An index thread serves a packet: the owner's multicast becomes its ReplySwitch.
LEMMA OwnerIndexServer ==
    ASSUME TypeOK, NEW i0 \in IndexThreads, IndexServer(i0), NEW s, Outstanding(s)
    PROVE  Outstanding(s)'
  <1>m. /\ Head(s2i[i0]) \in RawKvMsg /\ s2i[i0] # <<>>
        /\ s2i \in [IndexThreads -> Seq(RawKvMsg)] /\ i2s \in [IndexThreads -> Seq(RawKvMsg)]
        /\ regs' = regs /\ s2i' = Pop(s2i, i0)
        /\ MultiCastPkt \in RpcType /\ ReplySwitch \in RpcType
    BY PopType DEF IndexServer, TypeOK, RpcType
  <1>p. PICK m \in RawKvMsg : m = Head(s2i[i0])
    BY <1>m
  <1>q. PICK n \in RawKvMsg :
            /\ i2s' = Push(i2s, i0, n)
            /\ m.op = MultiCastPkt => /\ n.op = ReplySwitch /\ n.key = m.key
                                      /\ n.log = m.log /\ rpc_id(n) = rpc_id(m)
    <2>1. CASE IndexPut(i0, m)
      <3>1. PICK n : n = [m EXCEPT !.op = IF m.op = MultiCastPkt THEN ReplySwitch
                                          ELSE UpdateIndexReply]
        OBVIOUS
      <3>2. /\ n \in RawKvMsg
            /\ m.op = MultiCastPkt => /\ n.op = ReplySwitch /\ n.key = m.key
                                      /\ n.log = m.log /\ rpc_id(n) = rpc_id(m)
        BY <3>1 DEF RawKvMsg, RpcType, rpc_id
      <3> QED
        BY <2>1, <3>1, <3>2 DEF IndexPut
    <2>2. CASE IndexGet(i0, m)
      <3>1. PICK n : n = [m EXCEPT !.op = ReadIndexReply, !.log = index[m.key]]
        OBVIOUS
      <3>2. n \in RawKvMsg
        BY <3>1 DEF RawKvMsg, RpcType, TypeOK
      <3>3. i2s' = Push(i2s, i0, n) /\ m.op # MultiCastPkt
        BY <2>2, <3>1 DEF IndexGet, ReadIndexReq, MultiCastPkt
      <3> QED
        BY <3>2, <3>3
    <2> QED
      BY <1>p, <2>1, <2>2 DEF IndexServer
  <1>1. PICK i \in IndexThreads :
            \/ \E j \in Multicasts(i) : OnSlot(s2i[i][j], s) /\ Owns(regs, s2i[i][j])
            \/ \E j \in ReplySwitches(i) : OnSlot(i2s[i][j], s) /\ Owns(regs, i2s[i][j])
    BY DEF Outstanding
  \* A ReplySwitch stays, behind it the answer is queued.
  <1>2. ASSUME NEW j \in ReplySwitches(i)
        PROVE  j \in ReplySwitches(i)' /\ i2s'[i][j] = i2s[i][j]
    <2>1. /\ \A k \in Positions(i2s, i, ReplySwitch) : Push(i2s, i0, n)[i][k] = i2s[i][k]
          /\ i # i0 => Positions(Push(i2s, i0, n), i, ReplySwitch)
                          = Positions(i2s, i, ReplySwitch)
      BY <1>m, PushRest
    <2>2. j \in Positions(Push(i2s, i0, n), i, ReplySwitch)
      <3>1. CASE i # i0
        BY <2>1, <3>1 DEF ReplySwitches
      <3>2. CASE i = i0 /\ n.op # ReplySwitch
        <4>1. i0 \in Nat
          BY DEF IndexThreads
        <4>2. Positions(Push(i2s, i0, n), i, ReplySwitch) = Positions(i2s, i, ReplySwitch)
          BY <1>m, <3>2, <4>1, PushOther
        <4> QED
          BY <4>2 DEF ReplySwitches
      <3>3. CASE i = i0 /\ n.op = ReplySwitch
        <4>1. \A k : k \in Positions(i2s, i0, n.op)
                     => k \in Positions(Push(i2s, i0, n), i0, n.op)
          BY <1>m, PushEnd
        <4> QED
          BY <3>3, <4>1 DEF ReplySwitches
      <3> QED
        BY <3>1, <3>2, <3>3
    <2> QED
      BY <1>q, <2>1, <2>2 DEF ReplySwitches
  <1>3. ASSUME NEW j \in ReplySwitches(i), OnSlot(i2s[i][j], s), Owns(regs, i2s[i][j])
        PROVE  Outstanding(s)'
    BY <1>m, <1>2, <1>3, ZenonT(30) DEF Outstanding, OnSlot, Owns
  \* A multicast stays, or is the one that is served.
  <1>4. ASSUME NEW j \in Multicasts(i), OnSlot(s2i[i][j], s), Owns(regs, s2i[i][j])
        PROVE  Outstanding(s)'
    <2>1. CASE i # i0
      <3>1. Multicasts(i)' = Multicasts(i) /\ s2i'[i] = s2i[i]
        <4>1. /\ Positions(Pop(s2i, i0), i, MultiCastPkt) = Positions(s2i, i, MultiCastPkt)
              /\ Pop(s2i, i0)[i] = s2i[i]
          BY <1>m, <2>1, PopOther
        <4> QED
          BY <1>m, <4>1 DEF Multicasts
      <3> QED
        BY <1>m, <1>4, <3>1 DEF Outstanding, OnSlot, Owns
    <2>2. CASE i = i0 /\ j # 1
      <3>1. /\ j - 1 \in Positions(Pop(s2i, i0), i0, MultiCastPkt)
            /\ Pop(s2i, i0)[i0][j - 1] = s2i[i0][j]
        <4>1. j \in Positions(s2i, i0, MultiCastPkt)
          BY <1>4, <2>2 DEF Multicasts
        <4> QED
          BY <1>m, <2>2, <4>1, PopUp
      <3>2. j - 1 \in Multicasts(i)' /\ s2i'[i][j - 1] = s2i[i][j]
        BY <1>m, <2>2, <3>1 DEF Multicasts
      <3>3. PICK k : k = j - 1
        OBVIOUS
      <3>4. k \in Multicasts(i)' /\ s2i'[i][k] = s2i[i][j]
        BY <3>2, <3>3
      <3> QED
        BY <1>m, <1>4, <3>4 DEF Outstanding, OnSlot, Owns
    <2>3. CASE i = i0 /\ j = 1
      <3>1. m = s2i[i0][1] /\ m.op = MultiCastPkt
        BY <1>m, <1>p, <1>4, <2>3, PopHead DEF Multicasts
      <3>2. n.op = ReplySwitch /\ OnSlot(n, s) /\ Owns(regs, n)
        BY <1>4, <1>q, <2>3, <3>1 DEF OnSlot, Owns
      <3>3. PICK l : l = Len(i2s[i0]) + 1
        OBVIOUS
      <3>4. /\ l \in Positions(Push(i2s, i0, n), i0, ReplySwitch)
            /\ Push(i2s, i0, n)[i0][l] = n
        <4>1. \A h : h \in Positions(Push(i2s, i0, n), i0, n.op)
                     <=> h \in Positions(i2s, i0, n.op) \/ h = Len(i2s[i0]) + 1
          BY <1>m, PushEnd
        <4>2. Push(i2s, i0, n)[i0][Len(i2s[i0]) + 1] = n
          <5>1. i2s[i0] \in Seq(RawKvMsg) /\ Push(i2s, i0, n)[i0] = Append(i2s[i0], n)
            BY <1>m DEF Push
          <5> QED
            BY <5>1
        <4> QED
          BY <3>2, <3>3, <4>1, <4>2
      <3>5. l \in ReplySwitches(i0)' /\ i2s'[i0][l] = n
        BY <1>q, <3>4 DEF ReplySwitches
      <3> QED
        BY <1>m, <3>2, <3>5 DEF Outstanding, OnSlot, Owns
    <2> QED
      BY <2>1, <2>2, <2>3
  <1> QED
    BY <1>1, <1>3, <1>4

\* The switch takes a packet of an index thread: when that was the owner's
\* ReplySwitch, its slot is empty now.
LEMMA OwnerSwitchIndex ==
    ASSUME TypeOK, NEW i0 \in IndexThreads, SwitchIndex(i0),
           NEW x \in SwitchKeys, regs'.key[x] # 0, SameOwner(x) => Outstanding(x)
    PROVE  Outstanding(x)'
  <1>m. /\ Head(i2s[i0]) \in RawKvMsg /\ i2s[i0] # <<>>
        /\ i2s \in [IndexThreads -> Seq(RawKvMsg)] /\ s2i' = s2i /\ i2s' = Pop(i2s, i0)
        /\ ReplySwitch \in RpcType /\ regs \in Registers
    BY PopType DEF SwitchIndex, TypeOK, RpcType
  <1>p. PICK m \in RawKvMsg : m = Head(i2s[i0])
    BY <1>m
  <1>s. PICK s : s = get_switch_key(m.key)
    OBVIOUS
  <1>k. m.key \in Keys /\ s \in SwitchKeys
    <2>1. m.key \in Keys
      BY DEF RawKvMsg
    <2> QED
      BY <1>s, <2>1, KeyRanges
  \* Slot x is not the one that is emptied.
  <1>1. SameOwner(x) /\ (m.op = ReplySwitch => ~ (x = s /\ regs.rpc[s] = rpc_id(m)))
    <2>1. CASE m.op # ReplySwitch
      <3>1. regs' = regs
        BY <1>p, <2>1 DEF SwitchIndex
      <3> QED
        BY <2>1, <3>1 DEF SameOwner
    <2>2. CASE m.op = ReplySwitch
      <3>1. regs' = DeleteIndex(regs, m)
        BY <1>p, <2>2 DEF SwitchIndex, ReplySwitch, UpdateIndexReply, ReadIndexReply
      <3>2. CASE regs.rpc[s] = rpc_id(m)
        <4>1. regs'.key[s] = 0 /\ (x # s => SameOwner(x))
          BY <1>k, <1>m, <1>s, <3>1, <3>2
             DEF DeleteIndex, FwDeleteIndex, OwDeleteIndex, Registers, SameOwner
        <4> QED
          BY <4>1
      <3>3. CASE regs.rpc[s] # rpc_id(m)
        <4>1. SameOwner(x)
          BY <1>k, <1>m, <1>s, <3>1, <3>3
             DEF DeleteIndex, FwDeleteIndex, OwDeleteIndex, Registers, SameOwner
        <4> QED
          BY <3>3, <4>1
      <3> QED
        BY <3>2, <3>3
    <2> QED
      BY <2>1, <2>2
  <1>2. PICK i \in IndexThreads :
            \/ \E j \in Multicasts(i) : OnSlot(s2i[i][j], x) /\ Owns(regs, s2i[i][j])
            \/ \E j \in ReplySwitches(i) : OnSlot(i2s[i][j], x) /\ Owns(regs, i2s[i][j])
    BY <1>1 DEF Outstanding
  <1>3. ASSUME NEW j \in Multicasts(i), OnSlot(s2i[i][j], x), Owns(regs, s2i[i][j])
        PROVE  Outstanding(x)'
    <2>1. Multicasts(i)' = Multicasts(i) /\ s2i'[i][j] = s2i[i][j]
      BY <1>m DEF Multicasts, Positions
    <2>2. Owns(regs', s2i[i][j])
      BY <1>1, <1>3, OwnsFrame
    <2> QED
      BY <1>3, <2>1, <2>2 DEF Outstanding, OnSlot, Owns
  <1>4. ASSUME NEW j \in ReplySwitches(i), OnSlot(i2s[i][j], x), Owns(regs, i2s[i][j])
        PROVE  Outstanding(x)'
    <2>0. Owns(regs', i2s[i][j])
      BY <1>1, <1>4, OwnsFrame
    <2>1. CASE i # i0
      <3>1. /\ Positions(Pop(i2s, i0), i, ReplySwitch) = Positions(i2s, i, ReplySwitch)
            /\ Pop(i2s, i0)[i] = i2s[i]
        BY <1>m, <2>1, PopOther
      <3>2. ReplySwitches(i)' = ReplySwitches(i) /\ i2s'[i] = i2s[i]
        BY <1>m, <3>1 DEF ReplySwitches
      <3> QED
        BY <1>4, <2>0, <3>2 DEF Outstanding, OnSlot, Owns
    <2>2. CASE i = i0 /\ j # 1
      <3>1. /\ j - 1 \in Positions(Pop(i2s, i0), i0, ReplySwitch)
            /\ Pop(i2s, i0)[i0][j - 1] = i2s[i0][j]
        <4>1. j \in Positions(i2s, i0, ReplySwitch)
          BY <1>4, <2>2 DEF ReplySwitches
        <4> QED
          BY <1>m, <2>2, <4>1, PopUp
      <3>2. PICK k : k = j - 1
        OBVIOUS
      <3>3. k \in ReplySwitches(i)' /\ i2s'[i][k] = i2s[i][j]
        BY <1>m, <2>2, <3>1, <3>2 DEF ReplySwitches
      <3> QED
        BY <1>4, <2>0, <3>3 DEF Outstanding, OnSlot, Owns
    <2>3. CASE i = i0 /\ j = 1
      <3>1. m = i2s[i0][1] /\ m.op = ReplySwitch
        BY <1>m, <1>p, <1>4, <2>3, PopHead DEF ReplySwitches
      <3> QED
        BY <1>1, <1>4, <1>s, <2>3, <3>1 DEF OnSlot, Owns
    <2> QED
      BY <2>1, <2>2, <2>3
  <1> QED
    BY <1>2, <1>3, <1>4

-----------------------------------------------------------------------------
\* At the start every slot is free.
LEMMA OwnerInit == Init => OwnerOutstanding
  BY DEF Init, Reset, OwnerOutstanding

\* Every step keeps OwnerOutstanding, under either program of the switch.
LEMMA OwnerNext ==
    ASSUME TypeOK, OwnerOutstanding, [Next]_vars
    PROVE  OwnerOutstanding'
  <1> SUFFICES ASSUME NEW s \in SwitchKeys, regs'.key[s] # 0
               PROVE  Outstanding(s)'
    BY DEF OwnerOutstanding, Outstanding, OnSlot, Owns
  <1>0. regs.key[s] # 0 => Outstanding(s)
    BY DEF OwnerOutstanding, Outstanding
  <1>1. ASSUME UNCHANGED <<s2i, i2s, regs>> PROVE Outstanding(s)'
    <2>1. \A i \in IndexThreads : /\ Multicasts(i)' = Multicasts(i)
                                  /\ ReplySwitches(i)' = ReplySwitches(i)
      BY <1>1 DEF Multicasts, ReplySwitches
    <2> QED
      BY <1>0, <1>1, <2>1, OwnerFrame DEF SameOwner
  <1>2. CASE UNCHANGED vars
    BY <1>1, <1>2 DEF vars
  <1>3. CASE \E c \in Coros, k \in Keys : kEnumW(c, k) \/ kEnumR(c, k)
    BY <1>1, <1>3 DEF kEnumW, kEnumR
  <1>4. CASE \E t \in CThreads : ClientReply(t)
    BY <1>1, <1>4 DEF ClientReply, PutValueReturns, PutIndexReturns,
                      GetIndexReturns, GetValueReturns, Resume
  <1>5. CASE \E d \in DataThreads : DataServer(d)
    BY <1>1, <1>5 DEF DataServer
  <1>6. CASE \E t \in CThreads : SwitchClient(t)
    <2>1. regs' = regs
      BY <1>6 DEF SwitchClient
    <2> QED
      BY <1>0, <1>6, <2>1, OwnerSwitchClient
  <1>7. CASE \E d \in DataThreads : SwitchData(d)
    BY <1>0, <1>7, OwnerSwitchData DEF SameOwner
  <1>8. CASE \E i \in IndexThreads : IndexServer(i)
    <2>1. regs' = regs
      BY <1>8 DEF IndexServer
    <2> QED
      BY <1>0, <1>8, <2>1, OwnerIndexServer
  <1>9. CASE \E i \in IndexThreads : SwitchIndex(i)
    BY <1>0, <1>9, OwnerSwitchIndex DEF SameOwner
  <1> QED
    BY <1>2, <1>3, <1>4, <1>5, <1>6, <1>7, <1>8, <1>9 DEF Next

(***************************************************************************)
(* With either program in the switch, the write that owns a slot has its   *)
(* multicast or its ReplySwitch still in flight, although under            *)
(* overwrite.p4 later writes take the slot over (write_data_reply) and the *)
(* rpc_id that delete_index compares repeats: no slot is left without the  *)
(* packet that empties it, whatever the width of the magic and the number  *)
(* of threads.                                                             *)
(***************************************************************************)
THEOREM OwnerSafety == Spec => []OwnerOutstanding
  <1>1. Init => TypeOK /\ OwnerOutstanding
    BY InitType, OwnerInit
  <1>2. TypeOK /\ OwnerOutstanding /\ [Next]_vars => (TypeOK /\ OwnerOutstanding)'
    BY NextType, OwnerNext
  <1> QED
    BY <1>1, <1>2, PTL DEF Spec
=============================================================================
