------------------------------ MODULE FsLock ------------------------------
(***************************************************************************)
(* The reader-writer spin lock of the file system (apps/fs/src/lock.cc):   *)
(* one 64-bit word per hash item, changed with atomic instructions by all  *)
(* threads of the metadata server. The high half is the key of the writer, *)
(* or 0; the low half counts the readers inside and the readers that spin  *)
(* until the writer has left.                                              *)
(***************************************************************************)
EXTENDS Naturals

CONSTANTS
    Addresses, \* hash items (2^20 in the code)
    NodeID,    \* the node hash of the path, from 1 on
    IdSpace    \* 2^16 in the code: width of WriteID

ASSUME LockAssumption == NodeID \in Nat \ {0} /\ IdSpace \in Nat \ {0}

VARIABLES
    word,    \* word[a]: the lock word of address a
    WriteID  \* LockService::WriteID, shared by all threads

LockInit ==
    /\ word = [a \in Addresses |-> [hi |-> 0, lo |-> 0]]
    /\ WriteID \in 0 .. IdSpace - 1 \* the constructor leaves it as it was

\* Fault: the key of a writer is its ID alone.
Key_without_node(id) == id

\* ((NodeID << 16) + ID) << 32, as the high half of the word
Key(id) == NodeID * IdSpace + id

\* Fault: the counter is wider than the 16 bits of the key.
NextWriteID_wide == WriteID' = WriteID + 1

\* WriteLock: take an ID once,
NextWriteID == WriteID' = (WriteID + 1) % IdSpace

\* then compare-and-swap the whole word until it was 0
WriteLock(a, id) ==
    /\ word[a] = [hi |-> 0, lo |-> 0]
    /\ word' = [word EXCEPT ![a].hi = Key(id)]

\* WriteUnlock stores 0 in the high half only
WriteUnlock(a) == word' = [word EXCEPT ![a].hi = 0]

\* ReadLock: count the reader in; it is inside at once if there is no writer,
ReadLock(a) == word' = [word EXCEPT ![a].lo = @ + 1]
NoWriter(a) == word[a].hi = 0

\* ReadUnlock: fetch_sub on the whole word
ReadUnlock(a) == word' = [word EXCEPT ![a].lo = @ - 1]
=============================================================================
