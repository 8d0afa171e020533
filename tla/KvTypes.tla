----------------------------- MODULE KvTypes -----------------------------
(***************************************************************************)
(* The vocabulary the Switch-Delta key-value store shares between clients, *)
(* data nodes, index nodes and the switch: the key arithmetic of           *)
(* apps/kv/kv.cc and the packet that RawKvMsg and the P4 header kvmsg      *)
(* describe.                                                               *)
(*                                                                         *)
(* The widths of the machine (16-bit switch key, 32-bit fingerprint,       *)
(* 8-bit magic, 31-bit timestamp) are parameters, so that TLC can shrink   *)
(* them until the wrap-arounds and the collisions happen and the proofs    *)
(* hold for every width.                                                   *)
(***************************************************************************)
EXTENDS Naturals, Sequences

CONSTANTS
    Keys,             \* key_space: the long keys the clients draw from
    SwitchKeySpace,   \* 2^16 in the code: registers per switch table
    FingerprintSpace, \* 2^32 in the code: width of the fingerprint word
    MagicSpace,       \* 2^8 in the code: width of RawKvMsg::magic
    TsSpace,          \* 2^31 in the code: Timestamp32 keeps 31 bits
    dn_thread,        \* FLAGS_dn_thread: threads of the data node
    mn_thread,        \* FLAGS_mn_thread: threads of the index node
    keyspace,         \* FLAGS_keyspace: stride of a data thread's log ids
    logspace,         \* FLAGS_logspace: entries of a data thread's log
    CThreads,         \* client threads, one raw queue pair each
    CoroIds           \* coroutines of a client thread

ASSUME KeysAssumption == Keys \subseteq Nat /\ Keys # {}
ASSUME WidthAssumption ==
    /\ SwitchKeySpace \in Nat \ {0}
    /\ FingerprintSpace \in Nat /\ FingerprintSpace > 2
    /\ MagicSpace \in Nat /\ MagicSpace > 1
    /\ TsSpace \in Nat /\ TsSpace > 1
ASSUME ThreadAssumption ==
    /\ dn_thread \in Nat \ {0}
    /\ mn_thread \in Nat \ {0}
\* kv.cc defaults: logspace = 10 MB, keyspace = 100 MB; the log ids of two data
\* threads would overlap otherwise.
ASSUME LogAssumption ==
    /\ keyspace \in Nat \ {0}
    /\ logspace \in Nat \ {0}
    /\ logspace <= keyspace

-----------------------------------------------------------------------------
(* Keys, threads and log ids. *)

SwitchKeys == 0 .. SwitchKeySpace - 1
DataThreads == 0 .. dn_thread - 1
IndexThreads == 0 .. mn_thread - 1
Coros == CThreads \X CoroIds

\* the register index: the low 16 bits of the long key
get_switch_key(k) == k % SwitchKeySpace

\* the 32 bits above the switch key, folded into 1 .. 2^32 - 2, so that neither
\* the empty register 0 nor the miss marker 0xFFFFFFFF is a fingerprint
get_fingerprint(k) ==
    (((k \div SwitchKeySpace) % FingerprintSpace) % (FingerprintSpace - 2)) + 1

\* a uint64 key passed to a uint32 parameter: 2^32 = SwitchKeySpace^2
uint32(k) == k % (SwitchKeySpace * SwitchKeySpace)

get_data_thread_id_by_key(k) == uint32(k) % dn_thread
get_index_thread_id(k) == uint32(k) % mn_thread

compute_log_id(local_id, d) == d * keyspace + local_id
logid_2_threadid(log_id) == log_id \div keyspace
logid_2_locallogid(log_id) == log_id % keyspace

\* 0xFFFFFFFF, above every log id: the index had no entry
NoLog == dn_thread * keyspace
LogIds == { compute_log_id(l, d) : l \in 0 .. logspace - 1, d \in DataThreads }

\* app_ctx.magic++, skipping 0; a uint16
next_magic(m) ==
    LET n == (m + 1) % (MagicSpace * MagicSpace) IN IF n = 0 THEN 1 ELSE n

\* Fault: the mask 0x7fffffff is missing.
get_next_ts_unmasked(t) == t + 1

\* the loop around Timestamp32::get_next_ts: the next nonzero 31-bit value
get_next_ts(t) == LET n == (t + 1) % TsSpace IN IF n = 0 THEN 1 ELSE n

-----------------------------------------------------------------------------
(* Packets. The fields a property can tell apart: cli stands for src_s_id,   *)
(* src_t_id, src_c_id, client_port and route_port, which always name the    *)
(* requesting coroutine; <<cli, magic>> is rpc_id; fingerprint and          *)
(* switch_key are functions of key and are computed where they are used;    *)
(* port is the UDP destination port, a server thread, and ixp index_port.   *)

AppendReq      == "AppendReq"
AppendReply    == "AppendReply"
ReadLog        == "ReadLog"
ReadReply      == "ReadReply"
ReplySwitch    == "ReplySwitch"
UpdateIndexReq == "UpdateIndexReq"
UpdateIndexReply == "UpdateIndexReply"
ReadIndexReq   == "ReadIndexReq"
ReadIndexReply == "ReadIndexReply"
MultiCastPkt   == "MultiCastPkt"

RpcType == {AppendReq, AppendReply, ReadLog, ReadReply, ReplySwitch,
            UpdateIndexReq, UpdateIndexReply, ReadIndexReq, ReadIndexReply,
            MultiCastPkt}

\* A log entry: the long key and the value, which is the number of the request
\* that wrote it. SampleLog::init zeroes the log.
Blank == [key |-> 0, val |-> 0]
Entries == [key : Keys \cup {0}, val : Nat]

RpcIds == Coros \X (0 .. MagicSpace - 1)

RawKvMsg == [op : RpcType, cli : Coros, magic : 0 .. MagicSpace - 1,
             flag : BOOLEAN, key : Keys, log : LogIds \cup {NoLog},
             ts : 0 .. TsSpace - 1, port : Nat, ixp : IndexThreads,
             entry : Entries]

rpc_id(m) == <<m.cli, m.magic>>
=============================================================================
