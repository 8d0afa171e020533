----------------------------- MODULE KvStore -----------------------------
(***************************************************************************)
(* The key-value store of apps/kv/kv.cc around the switch: client          *)
(* coroutines (kv_test over rpc::Rpc), data node threads (an append-only   *)
(* ring log and the timestamp shards), index node threads (one shared      *)
(* Masstree) and the switch program p4_fw.p4 between them.                 *)
(*                                                                         *)
(* A write appends its value at the data node; the AppendReply passes the  *)
(* switch, which either takes the visibility slot and multicasts the       *)
(* packet to the index node and the client (fast write: one round trip,    *)
(* the index is updated later), or forwards it, and the client updates the *)
(* index itself (slow write). A read asks the switch for the log id, which *)
(* answers or forwards it to the index node, and then reads the log.       *)
(*                                                                         *)
(* Every thread has one raw queue pair (kConfigMaxQPCnt = 1) and the       *)
(* switch forwards in order, so each direction of each link is a FIFO      *)
(* queue. Nothing is lost: the code has no timeout and no retransmission.  *)
(***************************************************************************)
EXTENDS Switch

CONSTANTS
    FLAGS_visibility, \* packets carry flag = visibility, or 0
    InitialMagics,    \* values an uninitialised KvCtx::magic may start with
    MaxRequests       \* bound: requests all coroutines issue together

ASSUME FlagAssumption == FLAGS_visibility \in BOOLEAN
ASSUME MagicAssumption ==
    InitialMagics \subseteq 0 .. MagicSpace * MagicSpace - 1
ASSUME BoundAssumption == MaxRequests \in Nat

VARIABLES
    ctx,    \* ctx[c]: KvCtx of coroutine c and where it waits in kv_test
    c2s,    \* c2s[t]: packets from client thread t to the switch
    s2c,    \* s2c[t]: packets from the switch to client thread t
    d2s,    \* d2s[d], s2d[d]: the links of data thread d
    s2d,
    i2s,    \* i2s[i], s2i[i]: the links of index thread i
    s2i,
    regs,   \* the registers of the switch
    kv,     \* kv[d]: the ring buffer of data thread d
    pos,    \* pos[d]: SampleLog::pos
    tss,    \* tss[s]: shard of Timestamp32 for switch key s
    index,  \* the Masstree all index threads share: long key -> log id
    nreq    \* requests issued so far

clientVars == <<ctx, c2s, nreq>>
dataVars   == <<kv, pos, tss>>
vars == <<ctx, c2s, s2c, d2s, s2d, i2s, s2i, regs, kv, pos, tss, index, nreq>>

-----------------------------------------------------------------------------
(* The state of a coroutine: pc is the call of kv_test whose reply it        *)
(* awaits; "free" is rpc::CoroCtx::free between two requests.                *)

Calls == {"free", "put_value", "put_index", "get_index", "get_value"}

KvCtx == [pc : Calls, key : Keys, val : 0 .. MaxRequests,
          magic : 0 .. MagicSpace * MagicSpace - 1,
          log : LogIds \cup {NoLog}, ts : 0 .. TsSpace - 1]

TypeOK ==
    /\ ctx \in [Coros -> KvCtx]
    /\ c2s \in [CThreads -> Seq(RawKvMsg)] /\ s2c \in [CThreads -> Seq(RawKvMsg)]
    /\ d2s \in [DataThreads -> Seq(RawKvMsg)] /\ s2d \in [DataThreads -> Seq(RawKvMsg)]
    /\ i2s \in [IndexThreads -> Seq(RawKvMsg)] /\ s2i \in [IndexThreads -> Seq(RawKvMsg)]
    /\ regs \in Registers
    /\ kv \in [DataThreads -> [0 .. logspace - 1 -> Entries]]
    /\ pos \in [DataThreads -> 0 .. logspace - 1]
    /\ tss \in [SwitchKeys -> 0 .. TsSpace - 1]
    /\ index \in [Keys -> LogIds \cup {NoLog}]
    /\ nreq \in 0 .. MaxRequests

\* main() preloads the index with log id 0 for every key; Timestamp32::init sets
\* every shard to 1. KvCtx::magic is never initialised and starts with what the
\* memory held; the other fields of KvCtx are assigned before they are read.
Init ==
    /\ ctx \in [Coros -> {[pc |-> "free", key |-> CHOOSE k \in Keys : TRUE,
                           val |-> 0, magic |-> g, log |-> NoLog, ts |-> 0]
                          : g \in InitialMagics}]
    /\ c2s = [t \in CThreads |-> <<>>] /\ s2c = [t \in CThreads |-> <<>>]
    /\ d2s = [d \in DataThreads |-> <<>>] /\ s2d = [d \in DataThreads |-> <<>>]
    /\ i2s = [i \in IndexThreads |-> <<>>] /\ s2i = [i \in IndexThreads |-> <<>>]
    /\ regs = Reset
    /\ kv = [d \in DataThreads |-> [l \in 0 .. logspace - 1 |-> Blank]]
    /\ pos = [d \in DataThreads |-> 0]
    /\ tss = [s \in SwitchKeys |-> 1]
    /\ index = [k \in Keys |-> compute_log_id(0, 0)]
    /\ nreq = 0

Push(q, n, m) == [q EXCEPT ![n] = Append(@, m)]
Pop(q, n) == [q EXCEPT ![n] = Tail(@)]

-----------------------------------------------------------------------------
(* Client: the packets it builds. *)

\* put_value. The index port is computed from the long key, here and only here.
put_value(c, x) ==
    [op |-> AppendReq, cli |-> c, magic |-> x.magic % MagicSpace,
     flag |-> FLAGS_visibility, key |-> x.key, log |-> NoLog, ts |-> 0,
     port |-> get_data_thread_id_by_key(x.key),
     ixp |-> get_index_thread_id(x.key),
     entry |-> [key |-> x.key, val |-> x.val]]

\* put_index: flag is 0, the switch treats the packet as plain traffic
put_index(c, x) ==
    [op |-> UpdateIndexReq, cli |-> c, magic |-> x.magic % MagicSpace,
     flag |-> FALSE, key |-> x.key, log |-> x.log, ts |-> x.ts,
     port |-> get_index_thread_id(get_switch_key(x.key)),
     ixp |-> get_index_thread_id(get_switch_key(x.key)), entry |-> Blank]

get_index(c, x) ==
    [op |-> ReadIndexReq, cli |-> c, magic |-> 0,
     flag |-> FLAGS_visibility, key |-> x.key, log |-> NoLog, ts |-> 0,
     port |-> get_index_thread_id(get_switch_key(x.key)),
     ixp |-> get_index_thread_id(get_switch_key(x.key)), entry |-> Blank]

get_value(c, x) ==
    [op |-> ReadLog, cli |-> c, magic |-> 0,
     flag |-> FLAGS_visibility, key |-> x.key, log |-> x.log, ts |-> 0,
     port |-> logid_2_threadid(x.log),
     ixp |-> get_index_thread_id(get_switch_key(x.key)), entry |-> Blank]

-----------------------------------------------------------------------------
(* Client: kv_test. *)

\* A free coroutine of the client loop draws a key and starts a request.
NewRequest(c, k, call) ==
    /\ ctx[c].pc = "free"
    /\ nreq < MaxRequests
    /\ nreq' = nreq + 1
    /\ ctx' = [ctx EXCEPT ![c].pc = call, ![c].key = k, ![c].val = nreq + 1,
                          ![c].magic = next_magic(@)]

kEnumW(c, k) ==
    /\ NewRequest(c, k, "put_value")
    /\ c2s' = Push(c2s, c[1], put_value(c, ctx'[c]))
    /\ UNCHANGED <<s2c, d2s, s2d, i2s, s2i, regs, kv, pos, tss, index>>

kEnumR(c, k) ==
    /\ NewRequest(c, k, "get_index")
    /\ c2s' = Push(c2s, c[1], get_index(c, ctx'[c]))
    /\ UNCHANGED <<s2c, d2s, s2d, i2s, s2i, regs, kv, pos, tss, index>>

\* The client loop takes the oldest packet of thread t and resumes the coroutine
\* it names.
Resume(t) ==
    /\ s2c' = Pop(s2c, t)
    /\ UNCHANGED <<d2s, s2d, i2s, s2i, regs, kv, pos, tss, index, nreq>>

\* put_value returned. After a multicast the write is done, else the client
\* updates the index itself.
PutValueReturns(t, m) ==
    /\ Resume(t)
    /\ ctx[m.cli].pc = "put_value"
    /\ IF FLAGS_visibility /\ m.op = MultiCastPkt
       THEN /\ ctx' = [ctx EXCEPT ![m.cli].pc = "free",
                                  ![m.cli].log = m.log, ![m.cli].ts = m.ts]
            /\ UNCHANGED c2s
       ELSE /\ ctx' = [ctx EXCEPT ![m.cli].pc = "put_index",
                                  ![m.cli].log = m.log, ![m.cli].ts = m.ts]
            /\ c2s' = Push(c2s, t, put_index(m.cli, ctx'[m.cli]))

PutIndexReturns(t, m) ==
    /\ Resume(t)
    /\ ctx[m.cli].pc = "put_index"
    /\ ctx' = [ctx EXCEPT ![m.cli].pc = "free"]
    /\ UNCHANGED c2s

\* get_index returned: without a log id the read ends, else it reads the log.
GetIndexReturns(t, m) ==
    /\ Resume(t)
    /\ ctx[m.cli].pc = "get_index"
    /\ IF m.log = NoLog
       THEN /\ ctx' = [ctx EXCEPT ![m.cli].pc = "free", ![m.cli].log = NoLog]
            /\ UNCHANGED c2s
       ELSE /\ ctx' = [ctx EXCEPT ![m.cli].pc = "get_value", ![m.cli].log = m.log]
            /\ c2s' = Push(c2s, t, get_value(m.cli, ctx'[m.cli]))

\* get_value returned. read_ok tells apart the value of a key with the same
\* fingerprint; the read is only counted as failed and not repeated.
read_ok(k, e) ==
    e.key # k => get_fingerprint(e.key) # get_fingerprint(k)

GetValueReturns(t, m) ==
    /\ Resume(t)
    /\ ctx[m.cli].pc = "get_value"
    /\ ctx' = [ctx EXCEPT ![m.cli].pc = "free"]
    /\ UNCHANGED c2s

ClientReply(t) ==
    /\ s2c[t] # <<>>
    /\ LET m == Head(s2c[t])
       IN  \/ PutValueReturns(t, m)
           \/ PutIndexReturns(t, m)
           \/ GetIndexReturns(t, m)
           \/ GetValueReturns(t, m)

-----------------------------------------------------------------------------
(* Data node: server_process_msg on a thread of the data node. *)

\* The value is appended at pos, which goes round the ring; the reply carries the
\* log id and the next timestamp of the key's shard.
DataAppend(d, m) ==
    /\ m.op = AppendReq
    /\ LET s == get_switch_key(m.key)
       IN  /\ kv' = [kv EXCEPT ![d][pos[d]] = m.entry]
           /\ pos' = [pos EXCEPT ![d] = (@ + 1) % logspace]
           /\ tss' = [tss EXCEPT ![s] = get_next_ts(@)]
           /\ d2s' = Push(d2s, d, [m EXCEPT !.op = AppendReply,
                                            !.log = compute_log_id(pos[d], d),
                                            !.ts = get_next_ts(tss[s]),
                                            !.entry = Blank])

DataReadLog(d, m) ==
    /\ m.op = ReadLog
    /\ d2s' = Push(d2s, d, [m EXCEPT !.op = ReadReply,
                                     !.entry = kv[d][logid_2_locallogid(m.log)]])
    /\ UNCHANGED dataVars

DataServer(d) ==
    /\ s2d[d] # <<>>
    /\ s2d' = Pop(s2d, d)
    /\ \/ DataAppend(d, Head(s2d[d]))
       \/ DataReadLog(d, Head(s2d[d]))
    /\ UNCHANGED <<ctx, c2s, s2c, i2s, s2i, regs, index, nreq>>

-----------------------------------------------------------------------------
(* Index node: server_process_msg on a thread of the index node. *)

\* Fault: a multicast is answered like an UpdateIndexReq.
IndexPut_no_ReplySwitch(i, m) ==
    /\ m.op \in {MultiCastPkt, UpdateIndexReq}
    /\ index' = [index EXCEPT ![m.key] = m.log]
    /\ i2s' = Push(i2s, i, [m EXCEPT !.op = UpdateIndexReply])

\* Fault: an UpdateIndexReq is answered like a multicast.
IndexPut_no_UpdateIndexReply(i, m) ==
    /\ m.op \in {MultiCastPkt, UpdateIndexReq}
    /\ index' = [index EXCEPT ![m.key] = m.log]
    /\ i2s' = Push(i2s, i, [m EXCEPT !.op = ReplySwitch])

IndexPut(i, m) ==
    /\ m.op \in {MultiCastPkt, UpdateIndexReq}
    /\ index' = [index EXCEPT ![m.key] = m.log]
    /\ i2s' = Push(i2s, i,
                   [m EXCEPT !.op = IF m.op = MultiCastPkt THEN ReplySwitch
                                    ELSE UpdateIndexReply])

IndexGet(i, m) ==
    /\ m.op = ReadIndexReq
    /\ i2s' = Push(i2s, i, [m EXCEPT !.op = ReadIndexReply, !.log = index[m.key]])
    /\ UNCHANGED index

IndexServer(i) ==
    /\ s2i[i] # <<>>
    /\ s2i' = Pop(s2i, i)
    /\ \/ IndexPut(i, Head(s2i[i]))
       \/ IndexGet(i, Head(s2i[i]))
    /\ UNCHANGED <<ctx, c2s, s2c, d2s, s2d, regs, kv, pos, tss, nreq>>

-----------------------------------------------------------------------------
(* Switch: the ingress of one packet, then udp_route, the multicast group    *)
(* route_map or the route port. The egress table fix_port addresses the      *)
(* copies of a multicast to index_port and client_port. counter_table        *)
(* matches index ports 0 .. 7, which no port (t + 1) << 8 of kv.cc is.        *)

\* A packet from a client thread.
SwitchClient(t) ==
    /\ c2s[t] # <<>>
    /\ c2s' = Pop(c2s, t)
    /\ LET m == Head(c2s[t])
       IN  \/ /\ m.op \in {AppendReq, ReadLog}
              /\ s2d' = Push(s2d, m.port, m)
              /\ UNCHANGED <<s2c, s2i>>
           \/ /\ m.op = ReadIndexReq /\ m.flag /\ Hit(regs, m)
              /\ s2c' = Push(s2c, m.cli[1], [m EXCEPT !.log = LogId(regs, m)])
              /\ UNCHANGED <<s2d, s2i>>
           \/ /\ m.op = ReadIndexReq /\ ~ (m.flag /\ Hit(regs, m))
              /\ s2i' = Push(s2i, m.port, m)
              /\ UNCHANGED <<s2c, s2d>>
           \/ /\ m.op = UpdateIndexReq \* its flag is 0
              /\ s2i' = Push(s2i, m.port, m)
              /\ UNCHANGED <<s2c, s2d>>
    /\ UNCHANGED <<ctx, d2s, i2s, regs, kv, pos, tss, index, nreq>>

\* A packet from a data thread: a granted AppendReply becomes a multicast to the
\* index thread and to the client.
SwitchData(d) ==
    /\ d2s[d] # <<>>
    /\ d2s' = Pop(d2s, d)
    /\ LET m == Head(d2s[d])
       IN  \/ /\ m.op = AppendReply /\ m.flag /\ Granted(regs, m)
              /\ regs' = NewIndex(regs, m)
              /\ s2i' = Push(s2i, m.ixp, [m EXCEPT !.op = MultiCastPkt])
              /\ s2c' = Push(s2c, m.cli[1], [m EXCEPT !.op = MultiCastPkt])
           \/ /\ m.op = AppendReply /\ ~ (m.flag /\ Granted(regs, m))
              /\ regs' = IF m.flag THEN NewIndex(regs, m) ELSE regs
              /\ s2c' = Push(s2c, m.cli[1], m)
              /\ UNCHANGED s2i
           \/ /\ m.op = ReadReply
              /\ s2c' = Push(s2c, m.cli[1], m)
              /\ UNCHANGED <<regs, s2i>>
    /\ UNCHANGED <<ctx, c2s, s2d, i2s, kv, pos, tss, index, nreq>>

\* A packet from an index thread: ReplySwitch ends in the switch.
SwitchIndex(i) ==
    /\ i2s[i] # <<>>
    /\ i2s' = Pop(i2s, i)
    /\ LET m == Head(i2s[i])
       IN  \/ /\ m.op = ReplySwitch
              /\ regs' = DeleteIndex(regs, m)
              /\ UNCHANGED s2c
           \/ /\ m.op \in {UpdateIndexReply, ReadIndexReply}
              /\ s2c' = Push(s2c, m.cli[1], m)
              /\ UNCHANGED regs
    /\ UNCHANGED <<ctx, c2s, d2s, s2d, s2i, kv, pos, tss, index, nreq>>

-----------------------------------------------------------------------------
Next ==
    \/ \E c \in Coros, k \in Keys : kEnumW(c, k) \/ kEnumR(c, k)
    \/ \E t \in CThreads : ClientReply(t) \/ SwitchClient(t)
    \/ \E d \in DataThreads : DataServer(d) \/ SwitchData(d)
    \/ \E i \in IndexThreads : IndexServer(i) \/ SwitchIndex(i)

Spec == Init /\ [][Next]_vars

\* Every polling loop runs forever on a core of its own and the switch forwards
\* what it holds.
Fairness ==
    /\ \A t \in CThreads : WF_vars(ClientReply(t)) /\ WF_vars(SwitchClient(t))
    /\ \A d \in DataThreads : WF_vars(DataServer(d)) /\ WF_vars(SwitchData(d))
    /\ \A i \in IndexThreads : WF_vars(IndexServer(i)) /\ WF_vars(SwitchIndex(i))

FairSpec == Spec /\ Fairness
=============================================================================
