--------------------------- MODULE KvRefinement ---------------------------
(***************************************************************************)
(* The store implements Visibility: the announcement of a switch key is    *)
(* what its register and the packet that will free it say together. The    *)
(* registers hold the fingerprint, the rpc_id and the log id; the long key *)
(* is known only from the multicast or the ReplySwitch of the owner, and   *)
(* the opcode of that packet tells whether the index has taken the write.  *)
(***************************************************************************)
EXTENDS KvProperties

\* The multicasts and ReplySwitches in flight, and those of the write that holds
\* slot s.
InFlight ==
    UNION { { s2i[i][j] : j \in Multicasts(i) } \cup
            { i2s[i][j] : j \in ReplySwitches(i) } : i \in IndexThreads }
Owners(s) == { m \in InFlight : OnSlot(m, s) /\ Owns(regs, m) }

\* An occupied register without its packet announces no write at all.
Orphan == [key |-> 0, log |-> NoLog, taken |-> TRUE]

AnnouncedWrite(s) ==
    IF regs.key[s] = 0 THEN [key |-> 0, log |-> NoLog, taken |-> FALSE]
    ELSE IF Owners(s) = {} THEN Orphan
    ELSE LET m == CHOOSE m \in Owners(s) : TRUE
         IN  [key |-> m.key, log |-> regs.log[s], taken |-> m.op = ReplySwitch]

Announcements == [s \in SwitchKeys |-> AnnouncedWrite(s)]

V == INSTANCE Visibility
     WITH slot <- Announcements, TakeOver <- Program = "overwrite"

(***************************************************************************)
(* ImplementsVisibility: every step of clients, data threads, index        *)
(* threads and switch is a step of Visibility or leaves it alone. A write  *)
(* announced by the switch is taken up by the index exactly once and with  *)
(* the announced log id and key, before the slot is handed back, whatever  *)
(* slow updates and other slots do in between.                             *)
(***************************************************************************)
ImplementsVisibility == V!Spec
=============================================================================
