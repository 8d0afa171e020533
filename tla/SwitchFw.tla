----------------------------- MODULE SwitchFw -----------------------------
(***************************************************************************)
(* The ingress pipeline of p4_fw.p4 ("first write"): one visibility slot   *)
(* per switch key. A slot is granted only when it is empty and is kept by  *)
(* its owner until the ReplySwitch with the owner's rpc_id arrives.        *)
(*                                                                         *)
(* A packet passes the pipeline in one step: the stateful ALUs of one slot *)
(* are executed in the order of the packets. The registers, here and in    *)
(* the other switch programs, are a record r:                              *)
(*   r.key[s]  key_check, low word: the fingerprint that owns slot s, or 0 *)
(*   r.rpc[s]  key_check, high word: the rpc_id of the owning write        *)
(*   r.log[s]  log0, log1: where the owner's value is                      *)
(*   r.ts[s]   timestamp1; p4_fw never writes it, because py_fw.py leaves  *)
(*             the time check to its default timecpy, which lets every     *)
(*             packet through                                              *)
(***************************************************************************)
EXTENDS KvTypes

\* 0, which is no rpc_id: kv_g_id of a client thread is not 0
NoRpc == <<>>

Registers == [key : [SwitchKeys -> 0 .. FingerprintSpace - 2],
              rpc : [SwitchKeys -> RpcIds \cup {NoRpc}],
              log : [SwitchKeys -> LogIds \cup {NoLog}],
              ts  : [SwitchKeys -> 0 .. TsSpace - 1]]

\* log0 and log1 are read only after they were written
Reset == [key |-> [s \in SwitchKeys |-> 0],
          rpc |-> [s \in SwitchKeys |-> NoRpc],
          log |-> [s \in SwitchKeys |-> NoLog],
          ts  |-> [s \in SwitchKeys |-> 0]]

\* Fault: a slot held by a key of the same fingerprint counts as empty.
FwGranted_same_key(r, m) ==
    r.key[get_switch_key(m.key)] \in {0, get_fingerprint(m.key)}

\* write_data_reply: the ALU answers with the fingerprint only if the slot was
\* empty, and the packet goes on to key2logid only then.
FwGranted(r, m) == r.key[get_switch_key(m.key)] = 0

\* new_index, and for a granted packet write_log_id0 and write_log_id1
FwNewIndex(r, m) ==
    LET s == get_switch_key(m.key)
    IN  IF FwGranted(r, m)
        THEN [r EXCEPT !.key[s] = get_fingerprint(m.key),
                       !.rpc[s] = rpc_id(m), !.log[s] = m.log]
        ELSE r

\* Fault: only the rpc_id word is cleared.
FwDeleteIndex_keeps_key(r, m) ==
    LET s == get_switch_key(m.key)
    IN  IF r.rpc[s] = rpc_id(m) THEN [r EXCEPT !.rpc[s] = NoRpc] ELSE r

\* delete_index: only the owner's ReplySwitch empties the slot
FwDeleteIndex(r, m) ==
    LET s == get_switch_key(m.key)
    IN  IF r.rpc[s] = rpc_id(m)
        THEN [r EXCEPT !.key[s] = 0, !.rpc[s] = NoRpc]
        ELSE r

\* Fault: every occupied slot is a hit, the fingerprint is not compared.
FwHit_any_key(r, m) == r.key[get_switch_key(m.key)] # 0

\* check_index: a read hits when the slot holds its fingerprint
FwHit(r, m) == r.key[get_switch_key(m.key)] = get_fingerprint(m.key)

\* read_log_id0, read_log_id1
FwLogId(r, m) == r.log[get_switch_key(m.key)]
=============================================================================
