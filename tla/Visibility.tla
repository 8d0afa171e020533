---------------------------- MODULE Visibility ----------------------------
(***************************************************************************)
(* What Switch-Delta promises of a write whose index update is deferred,   *)
(* without queues, threads and opcodes: the switch announces the write in  *)
(* the slot of its switch key, the index takes the announced log id up     *)
(* exactly once, and only then is the announcement withdrawn. Meanwhile    *)
(* other writes may update the index directly.                             *)
(*                                                                         *)
(* With TakeOver (overwrite.p4) a later write of the same fingerprint may  *)
(* replace the announcement; the replaced write becomes one that updates   *)
(* the index directly.                                                     *)
(***************************************************************************)
EXTENDS KvTypes

CONSTANT TakeOver

VARIABLES
    slot,  \* slot[s]: the write that switch key s announces, or Empty
    index  \* long key -> log id

Empty == [key |-> 0, log |-> NoLog, taken |-> FALSE]
Announced(k, l) == [key |-> k, log |-> l, taken |-> FALSE]

Init ==
    /\ slot = [s \in SwitchKeys |-> Empty]
    /\ index = [k \in Keys |-> compute_log_id(0, 0)]

\* A slot is free for key k, or may be taken over by it.
Open(k) ==
    LET w == slot[get_switch_key(k)]
    IN  \/ w = Empty
        \/ TakeOver /\ get_fingerprint(w.key) = get_fingerprint(k)

Announce(k, l) ==
    /\ Open(k)
    /\ slot' = [slot EXCEPT ![get_switch_key(k)] = Announced(k, l)]
    /\ UNCHANGED index

\* The index node takes the announced write up, once.
TakeUp(s) ==
    /\ slot[s] # Empty /\ ~ slot[s].taken
    /\ slot' = [slot EXCEPT ![s].taken = TRUE]
    /\ index' = [index EXCEPT ![slot[s].key] = slot[s].log]

\* A write that no slot announces updates the index; one that is announced never
\* comes this way.
Update(k, l) ==
    /\ LET w == slot[get_switch_key(k)]
       IN  ~ (w.key = k /\ w.log = l)
    /\ index' = [index EXCEPT ![k] = l]
    /\ UNCHANGED slot

Withdraw(s) ==
    /\ slot[s] # Empty /\ slot[s].taken
    /\ slot' = [slot EXCEPT ![s] = Empty]
    /\ UNCHANGED index

Next ==
    \/ \E k \in Keys, l \in LogIds : Announce(k, l) \/ Update(k, l)
    \/ \E s \in SwitchKeys : TakeUp(s) \/ Withdraw(s)

Spec == Init /\ [][Next]_<<slot, index>>
=============================================================================
