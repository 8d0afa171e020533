---------------------------- MODULE FsNamespace ----------------------------
(***************************************************************************)
(* The metadata server of the file system (apps/fs): the threads of the    *)
(* index node, which share one hash table of paths and one lock word per   *)
(* hash item. A request to open a file creates the file and every          *)
(* directory above it that is missing; a request to update a file writes   *)
(* the metadata of an existing one.                                        *)
(*                                                                         *)
(* A client routes all requests for a file to the same thread, so two      *)
(* threads never create the same file; the directories above the files are *)
(* created by whichever thread needs them first.                           *)
(*                                                                         *)
(* Every step is one atomic instruction on a lock word, one operation on   *)
(* the hash table or on a meta table under its mutex, or the copy of       *)
(* updateRemoteMeta.                                                       *)
(***************************************************************************)
EXTENDS FsLock, Sequences, FiniteSets

CONSTANTS
    Threads,   \* threads of the metadata server
    Root,      \* "/"
    Dirs,      \* the other directories
    Files,
    Parent,    \* getParentDirectory of every path; of Root, Root itself
    Addr,      \* getAddressHash: 20 bits of the hash of a path
    ServedBy,  \* the thread that get_index_thread_id gives for a file
    countFile, countDirectory   \* records of the two meta tables

Paths == {Root} \cup Dirs \cup Files

ASSUME PathAssumption ==
    /\ Parent \in [Paths -> {Root} \cup Dirs] /\ Parent[Root] = Root
    /\ Root \notin Dirs /\ Files \cap (Dirs \cup {Root}) = {}
    /\ Addr \in [Paths -> Addresses]
    /\ ServedBy \in [Files -> Threads]
    /\ IsFiniteSet(Threads) /\ Files # {}
ASSUME CountAssumption == countFile \in Nat \ {0} /\ countDirectory \in Nat \ {0}

VARIABLES
    table,  \* table[p]: the hash table's item of path p
    names,  \* names[m]: the names in record m of tableDirectoryMeta
    nmeta,  \* nmeta[TRUE], nmeta[FALSE]: records that tableDirectoryMeta and
            \* tableFileMeta have given out
    th      \* th[t]: the call thread t is in, and where in it

vars == <<word, WriteID, table, names, nmeta, th>>

-----------------------------------------------------------------------------
(* The calls of FileSystem, and how a thread goes through them. *)

ReadCalls == {"access", "probe", "getattr"}   \* probe: access in stack_mkdir
MakeCalls == {"mknodcd", "mkdircd"}
Calls == ReadCalls \cup MakeCalls \cup {"extentMetaWrite", "none"}

\* where a thread is inside a call
Places == {"idle", "WriteID", "WriteLock", "ReadLock", "spin", "get", "ReadUnlock",
           "exists", "update", "put", "WriteUnlock"}

\* The record of a path, counted from 1: 0 is no record.
Absent == [meta |-> 0, dir |-> FALSE]
Item == [meta : 0 .. countFile, dir : {FALSE}] \cup [meta : 1 .. countDirectory, dir : {TRUE}]
Count(dir) == IF dir THEN countDirectory ELSE countFile

Thread == [call : Calls, at : Places, path : Paths,
           file : Files,           \* the file of the request
           dirs : Seq({Root} \cup Dirs),  \* directories stack_mkdir has still to make
           again : BOOLEAN,        \* mknodcd is called for the second time
           id : 0 .. IdSpace - 1,  \* ID of WriteLock
           ok : BOOLEAN,           \* result
           failed : BOOLEAN,       \* a create or put of the request has failed (history)
           copy : SUBSET Paths]    \* parentMeta: a copy of the parent's names

FsTypeOK ==
    /\ word \in [Addresses -> [hi : 0 .. (NodeID + 1) * IdSpace - 1, lo : Nat]]
    /\ WriteID \in 0 .. IdSpace - 1
    /\ table \in [Paths -> Item] /\ nmeta \in [BOOLEAN -> Nat]
    /\ names \in [1 .. countDirectory -> SUBSET Paths]
    /\ th \in [Threads -> Thread]

Init ==
    /\ LockInit
    /\ table = [p \in Paths |-> IF p = Root THEN [meta |-> 1, dir |-> TRUE] ELSE Absent]
    /\ names = [m \in 1 .. countDirectory |-> {}]
    /\ nmeta = [dir \in BOOLEAN |-> IF dir THEN 1 ELSE 0]
    /\ th = [t \in Threads |->
               [call |-> "none", at |-> "idle", path |-> Root, id |-> 0,
                file |-> CHOOSE f \in Files : TRUE, dirs |-> <<>>,
                again |-> FALSE, ok |-> FALSE, failed |-> FALSE, copy |-> {}]]

Exists(p) == table[p].meta # 0

\* Thread record x enters a call.
Enter(x, call, p) ==
    [x EXCEPT !.call = call, !.path = p, !.ok = FALSE, !.copy = {},
              !.at = IF call \in ReadCalls THEN "ReadLock" ELSE "WriteID"]

\* Fault: stack_mkdir creates the parent without looking at what is above it.
StackMkdir_one_level(x, d) ==
    Enter([x EXCEPT !.dirs = <<d>> \o @], "mkdircd", d)

\* stack_mkdir: directory d is to be made; if what holds d is missing, that first
StackMkdir(x, d) == Enter([x EXCEPT !.dirs = <<d>> \o @], "probe", Parent[d])

\* Fault: a directory that could not be made is made again.
NextDir_retries(x) ==
    IF ~ x.ok THEN Enter(x, "mkdircd", x.path)
    ELSE IF Len(x.dirs) > 1
    THEN Enter([x EXCEPT !.dirs = Tail(@)], "mkdircd", x.dirs[2])
    ELSE Enter([x EXCEPT !.dirs = <<>>, !.again = TRUE], "mknodcd", x.file)

\* stack_mkdir goes on with the directory below, whatever mkdircd returned: another
\* thread may have made this one.
NextDir(x) ==
    IF Len(x.dirs) > 1
    THEN Enter([x EXCEPT !.dirs = Tail(@)], "mkdircd", x.dirs[2])
    ELSE Enter([x EXCEPT !.dirs = <<>>, !.again = TRUE], "mknodcd", x.file)

\* What server_batch_CPC and stack_mkdir do when a call has returned ok.
Return(x) ==
    CASE x.call = "access" ->
           IF x.ok THEN Enter(x, "getattr", x.file) ELSE Enter(x, "mknodcd", x.file)
      [] x.call = "mknodcd" -> \* for lack of a parent, or of space: also below the root
           IF x.ok \/ x.again THEN Enter(x, "getattr", x.file)
           ELSE StackMkdir(x, Parent[x.file])
      [] x.call = "probe" ->
           IF x.ok THEN Enter(x, "mkdircd", Head(x.dirs))
           ELSE StackMkdir(x, x.path)
      [] x.call = "mkdircd" -> NextDir(x)
      [] OTHER -> \* getattr, extentMetaWrite: the reply is sent
           [x EXCEPT !.call = "none", !.at = "idle", !.path = Root, !.again = FALSE,
                     !.ok = FALSE, !.failed = FALSE, !.copy = {}]

Goto(t, place) == th' = [th EXCEPT ![t].at = place]
At(t, place) == th[t].at = place

-----------------------------------------------------------------------------
(* Requests. *)

\* kEnumReadIndexReq: open a file
Open(t, f) ==
    /\ At(t, "idle") /\ ServedBy[f] = t
    /\ th' = [th EXCEPT ![t] = Enter([@ EXCEPT !.file = f], "access", f)]
    /\ UNCHANGED <<word, WriteID, table, names, nmeta>>

\* kEnumUpdateIndexReq, and a multicast when its batch is applied
UpdateMeta(t, f) ==
    /\ At(t, "idle") /\ ServedBy[f] = t
    /\ th' = [th EXCEPT ![t] = Enter([@ EXCEPT !.file = f], "extentMetaWrite", f)]
    /\ UNCHANGED <<word, WriteID, table, names, nmeta>>

-----------------------------------------------------------------------------
(* lockWriteHashItem on the path of the call, unlockWriteHashItem. *)

TakeWriteID(t) ==
    /\ At(t, "WriteID")
    /\ NextWriteID
    /\ th' = [th EXCEPT ![t].id = WriteID, ![t].at = "WriteLock"]
    /\ UNCHANGED <<word, table, names, nmeta>>

\* mknodcd and mkdircd go on to readDirectoryMeta of the parent.
LockWrite(t) ==
    /\ At(t, "WriteLock")
    /\ WriteLock(Addr[th[t].path], th[t].id)
    /\ Goto(t, IF th[t].call \in MakeCalls THEN "ReadLock" ELSE "exists")
    /\ UNCHANGED <<WriteID, table, names, nmeta>>

UnlockWrite(t) ==
    /\ At(t, "WriteUnlock")
    /\ WriteUnlock(Addr[th[t].path])
    /\ th' = [th EXCEPT ![t] = Return(@)]
    /\ UNCHANGED <<WriteID, table, names, nmeta>>

-----------------------------------------------------------------------------
(* access and getattr read the path of the call, readDirectoryMeta reads its *)
(* parent.                                                                   *)

ReadPath(t) ==
    IF th[t].call \in MakeCalls THEN Parent[th[t].path] ELSE th[t].path

LockRead(t) ==
    /\ At(t, "ReadLock")
    /\ ReadLock(Addr[ReadPath(t)])
    /\ Goto(t, IF NoWriter(Addr[ReadPath(t)]) THEN "get" ELSE "spin")
    /\ UNCHANGED <<WriteID, table, names, nmeta>>

Spin(t) ==
    /\ At(t, "spin")
    /\ NoWriter(Addr[ReadPath(t)])
    /\ Goto(t, "get")
    /\ UNCHANGED <<word, WriteID, table, names, nmeta>>

\* readDirectoryMeta fails on a missing path and on a file, and copies the names.
Get(t) ==
    /\ At(t, "get")
    /\ LET p == ReadPath(t)
           found == Exists(p) /\ (th[t].call \in MakeCalls => table[p].dir)
       IN  th' = [th EXCEPT ![t].ok = found, ![t].at = "ReadUnlock",
                            ![t].copy = IF found /\ th[t].call \in MakeCalls
                                        THEN names[table[p].meta] ELSE {}]
    /\ UNCHANGED <<word, WriteID, table, names, nmeta>>

\* Fault: mknodcd and mkdircd go on when readDirectoryMeta has failed.
UnlockRead_goes_on(t) ==
    /\ At(t, "ReadUnlock")
    /\ ReadUnlock(Addr[ReadPath(t)])
    /\ th' = [th EXCEPT ![t] = IF th[t].call \in ReadCalls THEN Return(@)
                               ELSE [@ EXCEPT !.at = "exists"]]
    /\ UNCHANGED <<WriteID, table, names, nmeta>>

UnlockRead(t) ==
    /\ At(t, "ReadUnlock")
    /\ ReadUnlock(Addr[ReadPath(t)])
    /\ th' = [th EXCEPT ![t] = IF th[t].call \in ReadCalls THEN Return(@)
                               ELSE [@ EXCEPT !.at = IF th[t].ok THEN "exists"
                                                     ELSE "WriteUnlock"]]
    /\ UNCHANGED <<WriteID, table, names, nmeta>>

-----------------------------------------------------------------------------
(* Under the write lock. *)

\* Fault: the path is put whether or not it is there.
CheckExists_skipped(t) ==
    /\ At(t, "exists")
    /\ th' = [th EXCEPT ![t].ok = TRUE,
                        ![t].at = CASE th[t].call = "mkdircd" -> "update"
                                    [] th[t].call = "mknodcd" -> "put"
                                    [] OTHER -> "WriteUnlock"]
    /\ UNCHANGED <<word, WriteID, table, names, nmeta>>

\* A path that exists is not made again. extentMetaWrite only updates the record
\* of a file that exists; which blocks it then names is left out.
CheckExists(t) ==
    /\ At(t, "exists")
    /\ LET x == th[t]
           new == ~ Exists(x.path)
       IN  th' = [th EXCEPT ![t].ok = new,
                            ![t].at = CASE new /\ x.call = "mkdircd" -> "update"
                                        [] new /\ x.call = "mknodcd" -> "put"
                                        [] OTHER -> "WriteUnlock"]
    /\ UNCHANGED <<word, WriteID, table, names, nmeta>>

\* updateRemoteMeta: mkdircd writes the copy with the new name back over the
\* parent's record, on which it holds no lock; mknodcd leaves this out. A reader
\* of the record during the copy may see a part of it.
UpdateParent(t) ==
    /\ At(t, "update")
    /\ names' = [names EXCEPT ![table[Parent[th[t].path]].meta] = th[t].copy \cup {th[t].path}]
    /\ Goto(t, "put")
    /\ UNCHANGED <<word, WriteID, table, nmeta>>

\* The records Table::create may give, 0 for none. Its free list is a circle of items
\* that are freed as they are used. Past its end the memory of a freed item says what
\* comes: a record that may be in use, or one that the bitmap does not have.
Creates(dir) ==
    IF nmeta[dir] < Count(dir) THEN {nmeta[dir] + 1} ELSE 0 .. Count(dir)

\* No chained item of the hash table is free; the item at position 0 is never used.
Full == Cardinality({p \in Paths : Exists(p)}) >= countFile + countDirectory - 1

\* Table::create and HashTable::put, which replaces the record of a path that is
\* there already. When one of them fails, the call fails and nothing is rolled back:
\* neither the record nor what UpdateParent has written.
PutItem(t) ==
    LET x == th[t]
        dir == x.call = "mkdircd"
    IN  /\ At(t, "put")
        /\ nmeta' = [nmeta EXCEPT ![dir] = IF @ > Count(dir) THEN @ ELSE @ + 1]
        /\ \E m \in Creates(dir) :
             LET done == m # 0 /\ (Exists(x.path) \/ ~ Full)
             IN  /\ names' = IF dir /\ m # 0 THEN [names EXCEPT ![m] = {}] ELSE names
                 /\ table' = IF done THEN [table EXCEPT ![x.path] = [meta |-> m, dir |-> dir]]
                             ELSE table
                 /\ th' = [th EXCEPT ![t].ok = done, ![t].failed = @ \/ ~ done,
                                     ![t].at = "WriteUnlock"]
        /\ UNCHANGED <<word, WriteID>>

-----------------------------------------------------------------------------
Step(t) ==
    \/ TakeWriteID(t) \/ LockWrite(t) \/ UnlockWrite(t)
    \/ LockRead(t) \/ Spin(t) \/ Get(t) \/ UnlockRead(t)
    \/ CheckExists(t) \/ UpdateParent(t) \/ PutItem(t)

Next == \E t \in Threads : Step(t) \/ \E f \in Files : Open(t, f) \/ UpdateMeta(t, f)

Spec == Init /\ [][Next]_vars

\* Every thread has a core of its own. A compare-and-swap that is retried for ever
\* on a word that stays 0 succeeds; nothing is assumed of a word that keeps
\* changing.
FairSpec == Spec /\ \A t \in Threads : WF_vars(Step(t))

-----------------------------------------------------------------------------
(***************************************************************************)
(* ImplementsRWLock: from the first instruction of lockReadHashItem and    *)
(* lockWriteHashItem to the last of the unlocks, the threads of the server *)
(* behave like users of a reader-writer lock, although a writer only looks *)
(* for the value 0 of the whole word, a reader counts itself in before it  *)
(* knows whether it may enter, the unlock of a writer is a plain store to  *)
(* half the word and the IDs repeat.                                       *)
(***************************************************************************)
HoldsWrite(t) ==
    /\ th[t].call \in MakeCalls \cup {"extentMetaWrite"}
    /\ th[t].at \notin {"WriteID", "WriteLock"}
HoldsRead(t) == th[t].at \in {"get", "ReadUnlock"}

L == INSTANCE RWLock WITH
       writers <- [a \in Addresses |->
                     { t \in Threads : HoldsWrite(t) /\ Addr[th[t].path] = a }],
       readers <- [a \in Addresses |->
                     { t \in Threads : HoldsRead(t) /\ Addr[ReadPath(t)] = a }]

ImplementsRWLock == L!Spec

(***************************************************************************)
(* CreatedOnce: the item of a path is never replaced, so no directory that *)
(* several threads find missing at the same time is created twice and      *)
(* loses what was put under it.                                            *)
(***************************************************************************)
CreatedOnce ==
    [][\A p \in Paths : Exists(p) => table'[p] = table[p]]_vars

(***************************************************************************)
(* ParentExists: whatever the threads have created so far, and whatever    *)
(* they could not create for lack of space, every path in the table lies   *)
(* in a directory of the table.                                            *)
(***************************************************************************)
ParentExists ==
    \A p \in Paths : Exists(p) => Exists(Parent[p]) /\ table[Parent[p]].dir

(***************************************************************************)
(* OpenFinds: by the time an open request reads the attributes for its     *)
(* reply, the file exists, whichever thread created the directories above  *)
(* it and however often mknodcd and mkdircd found that another thread had  *)
(* been there first. It may be missing only when a create or a put of this *)
(* very request found no space; what other requests could not create is no *)
(* excuse.                                                                 *)
(***************************************************************************)
OpenFinds ==
    \A t \in Threads : th[t].call = "getattr" => Exists(th[t].file) \/ th[t].failed

\* A create or a put has found no space: more records were given out than there are
\* paths, or more than the table has.
NoSpace ==
    \/ nmeta[TRUE] + nmeta[FALSE] > Cardinality({p \in Paths : Exists(p)})
    \/ \E dir \in BOOLEAN : nmeta[dir] > Count(dir)

(***************************************************************************)
(* OpensReturn: no thread waits for a lock for ever and stack_mkdir ends:  *)
(* every request is answered, until a create or a put finds no space. Then *)
(* stack_mkdir may be called for a file below the root, and the mkdircd of *)
(* the root waits for the write lock it holds itself; and past the end of  *)
(* a free list the server may also go down, or leave the mutex of a table  *)
(* locked, which Creates leaves out.                                       *)
(***************************************************************************)
OpensReturn ==
    \A t \in Threads : th[t].at # "idle" ~> th[t].at = "idle" \/ NoSpace

(***************************************************************************)
(* Listed: once no request is being served, a directory is in the list of  *)
(* names of its parent, where mkdircd adds it before it creates the        *)
(* directory.                                                              *)
(***************************************************************************)
Listed ==
    (\A t \in Threads : At(t, "idle")) =>
        \A p \in Dirs : Exists(p) => p \in names[table[Parent[p]].meta]
=============================================================================
