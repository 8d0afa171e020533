-------------------------- MODULE SwitchOverwrite --------------------------
(***************************************************************************)
(* The ingress pipeline of overwrite.p4 (src/overwrite_v2.p4 and           *)
(* src/log_read.p4). A write may also take over a slot that an earlier     *)
(* write of the same fingerprint still holds, so that several multicasts   *)
(* of one slot are in flight, and only the last writer's ReplySwitch       *)
(* empties it. The time check, which overwrite.py switches on, refuses a   *)
(* write whose timestamp is older than the last one the slot admitted.     *)
(***************************************************************************)
EXTENDS SwitchFw

\* timecmp_box answers with the timestamp the register holds afterwards, and the
\* packet goes on when that is its own; the timestamp is kept in network order,
\* so < compares counters
OwTimely(r, m) ==
    LET t == r.ts[get_switch_key(m.key)] IN t = 0 \/ t <= m.ts

\* write_data_reply answers with the key the slot holds afterwards
OwGranted(r, m) ==
    /\ OwTimely(r, m)
    /\ r.key[get_switch_key(m.key)] \in {0, get_fingerprint(m.key)}

\* Fault: a takeover leaves the log id of the previous owner.
OwNewIndex_keeps_log(r, m) ==
    LET s == get_switch_key(m.key)
        timed == IF OwTimely(r, m) THEN [r EXCEPT !.ts[s] = m.ts] ELSE r
    IN  IF OwGranted(r, m)
        THEN [timed EXCEPT !.key[s] = get_fingerprint(m.key),
                           !.rpc[s] = rpc_id(m),
                           !.log[s] = IF r.key[s] = 0 THEN m.log ELSE @]
        ELSE timed

\* Fault: a takeover leaves the rpc_id of the previous owner.
OwNewIndex_keeps_rpc(r, m) ==
    LET s == get_switch_key(m.key)
        timed == IF OwTimely(r, m) THEN [r EXCEPT !.ts[s] = m.ts] ELSE r
    IN  IF OwGranted(r, m)
        THEN [timed EXCEPT !.key[s] = get_fingerprint(m.key),
                           !.rpc[s] = IF r.key[s] = 0 THEN rpc_id(m) ELSE @,
                           !.log[s] = m.log]
        ELSE timed

\* The timestamp is raised for every timely write, also for one that finds the
\* slot held by another key.
OwNewIndex(r, m) ==
    LET s == get_switch_key(m.key)
        timed == IF OwTimely(r, m) THEN [r EXCEPT !.ts[s] = m.ts] ELSE r
    IN  IF OwGranted(r, m)
        THEN [timed EXCEPT !.key[s] = get_fingerprint(m.key),
                           !.rpc[s] = rpc_id(m), !.log[s] = m.log]
        ELSE timed

\* timeclr_box, then delete_index
OwDeleteIndex(r, m) ==
    LET s == get_switch_key(m.key)
        timed == IF r.ts[s] = m.ts THEN [r EXCEPT !.ts[s] = 0] ELSE r
    IN  IF r.rpc[s] = rpc_id(m)
        THEN [timed EXCEPT !.key[s] = 0, !.rpc[s] = NoRpc]
        ELSE timed
=============================================================================
