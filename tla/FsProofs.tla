----------------------------- MODULE FsProofs -----------------------------
(***************************************************************************)
(* The metadata server, for every number of threads, every directory tree  *)
(* and every assignment of paths to lock words: the lock word is a reader- *)
(* writer lock, no path is created twice, every path lies in a directory   *)
(* that exists, and every open finds its file unless it has itself found   *)
(* no space for it.                                                        *)
(*                                                                         *)
(* LockInv ties the two halves of a lock word to the threads inside and at *)
(* the door. CallOK says what each call knows at each place: which paths   *)
(* are certain to be there and which to be missing. The two need each      *)
(* other: a path stays missing between CheckExists and PutItem because the *)
(* write lock is exclusive, and stack_mkdir relies on the parents that its *)
(* probes have seen.                                                       *)
(***************************************************************************)
EXTENDS FsNamespace, FiniteSetTheorems, SequenceTheorems, TLAPS

\* The path a call reads: ReadPath of the thread's record.
ReadOf(x) == IF x.call \in MakeCalls THEN Parent[x.path] ELSE x.path

\* A thread with record x is counted in the word of address a, whether inside or at
\* the door; is inside the read lock; holds the write lock.
Counts(x, a) == x.at \in {"spin", "get", "ReadUnlock"} /\ Addr[ReadOf(x)] = a
Reads(x, a) == x.at \in {"get", "ReadUnlock"} /\ Addr[ReadOf(x)] = a
Writes(x, a) ==
    /\ x.call \in MakeCalls \cup {"extentMetaWrite"}
    /\ x.at \notin {"WriteID", "WriteLock"}
    /\ Addr[x.path] = a

CountedAt(a) == { t \in Threads : Counts(th[t], a) }
ReadersAt(a) == { t \in Threads : Reads(th[t], a) }
WritersAt(a) == { t \in Threads : Writes(th[t], a) }

\* A thread that has just entered a call, or is idle, holds nothing.
Outside(x) == \A a \in Addresses : ~ Counts(x, a) /\ ~ Reads(x, a) /\ ~ Writes(x, a)

\* The low half of a word counts the readers inside and at the door, the high half
\* is 0 exactly when there is no writer, and there is never more than one.
LockInv ==
    \A a \in Addresses :
        /\ word[a].lo = Cardinality(CountedAt(a))
        /\ word[a].hi = 0 <=> WritersAt(a) = {}
        /\ \A t, u \in WritersAt(a) : t = u

-----------------------------------------------------------------------------
(* What a call knows. tab is the hash table. *)

Held(tab, p) == tab[p].meta # 0

\* The directories stack_mkdir has still to make lead from the top down to the file.
Chain(x) ==
    /\ \A i \in 1 .. Len(x.dirs) - 1 : Parent[x.dirs[i + 1]] = x.dirs[i]
    /\ x.dirs # <<>> => Parent[x.file] = x.dirs[Len(x.dirs)]

ReadPlaces == {"ReadLock", "spin", "get", "ReadUnlock"}
MakePlaces == Places \ {"idle"}

IdleOK(x) == x.at = "idle" /\ x.dirs = <<>> /\ ~ x.again

WriteOK(x) ==
    /\ x.at \in {"WriteID", "WriteLock", "exists", "WriteUnlock"}
    /\ x.path = x.file /\ x.dirs = <<>> /\ ~ x.again

\* The file is missing when access says so: only this thread creates it.
AccessOK(x, tab) ==
    /\ x.at \in ReadPlaces /\ x.path = x.file /\ x.dirs = <<>> /\ ~ x.again
    /\ x.at = "ReadUnlock" => (x.ok <=> Held(tab, x.file))

\* From here on a path may also be missing because the request has found no space.
GetattrOK(x, tab) ==
    /\ x.at \in ReadPlaces /\ x.path = x.file /\ x.dirs = <<>>
    /\ Held(tab, x.file) \/ x.failed

\* A probe looks for the directory that holds the next one to make.
ProbeOK(x, tab) ==
    /\ x.at \in ReadPlaces /\ x.dirs # <<>> /\ x.path = Parent[x.dirs[1]] /\ ~ x.again
    /\ ~ Held(tab, x.file)
    /\ x.at = "ReadUnlock" /\ x.ok => Held(tab, x.path)

\* mkdircd is only called when the parent is there, or could not be made; so it leaves
\* the directory there, whether it made it or not, unless there is no space.
MkdircdOK(x, tab) ==
    /\ x.at \in MakePlaces /\ x.dirs # <<>> /\ x.path = x.dirs[1] /\ ~ x.again
    /\ ~ Held(tab, x.file)
    /\ Held(tab, Parent[x.path]) \/ x.failed
    /\ x.at = "ReadUnlock" => IF x.ok THEN Held(tab, Parent[x.path]) ELSE x.failed
    /\ x.at \in {"exists", "update", "put"} => Held(tab, Parent[x.path])
    /\ x.at \in {"update", "put"} => ~ Held(tab, x.path)
    /\ x.at = "WriteUnlock" => Held(tab, x.path) \/ x.failed

\* The first mknodcd may find no parent, the second one has it, space permitting.
MknodcdOK(x, tab) ==
    /\ x.at \in MakePlaces \ {"update"} /\ x.path = x.file /\ x.dirs = <<>>
    /\ x.again => Held(tab, Parent[x.file]) \/ x.failed
    /\ x.at \in {"exists", "put"} => Held(tab, Parent[x.file])
    /\ x.at # "WriteUnlock" => ~ Held(tab, x.file)
    /\ x.at = "ReadUnlock" => IF x.ok THEN Held(tab, Parent[x.file])
                              ELSE ~ x.again \/ x.failed
    /\ x.at = "WriteUnlock" => IF x.ok THEN Held(tab, x.file)
                               ELSE ~ Held(tab, x.file) /\ (~ x.again \/ x.failed)

\* Thread t with record x, by the call it is in.
CallOK(t, x, tab) ==
    /\ Chain(x)
    /\ x.call # "none" => ServedBy[x.file] = t
    /\ x.call = "none" => IdleOK(x)
    /\ x.call = "extentMetaWrite" => WriteOK(x)
    /\ x.call = "access" => AccessOK(x, tab)
    /\ x.call = "getattr" => GetattrOK(x, tab)
    /\ x.call = "probe" => ProbeOK(x, tab)
    /\ x.call = "mkdircd" => MkdircdOK(x, tab)
    /\ x.call = "mknodcd" => MknodcdOK(x, tab)

CallsInv == \A t \in Threads : CallOK(t, th[t], table)

\* Directories are directories, and the root is there.
TableInv ==
    /\ Held(table, Root)
    /\ \A p \in {Root} \cup Dirs : Held(table, p) => table[p].dir
    /\ ParentExists

FsInv == FsTypeOK /\ LockInv /\ CallsInv /\ TableInv

-----------------------------------------------------------------------------
(* The records of threads. *)

\* The fields of a record.
LEMMA Fields ==
    ASSUME NEW x \in Thread
    PROVE  /\ x.call \in Calls /\ x.at \in Places /\ x.path \in Paths /\ x.file \in Files
           /\ x.dirs \in Seq({Root} \cup Dirs) /\ x.again \in BOOLEAN /\ x.id \in 0 .. IdSpace - 1
           /\ x.ok \in BOOLEAN /\ x.failed \in BOOLEAN /\ x.copy \in SUBSET Paths
  BY DEF Thread

\* Entering a call.
LEMMA Entered ==
    ASSUME NEW x \in Thread, NEW c \in Calls, NEW p \in Paths
    PROVE  /\ Enter(x, c, p) \in Thread
           /\ Enter(x, c, p).call = c /\ Enter(x, c, p).path = p
           /\ Enter(x, c, p).at = IF c \in ReadCalls THEN "ReadLock" ELSE "WriteID"
           /\ Enter(x, c, p).file = x.file /\ Enter(x, c, p).dirs = x.dirs
           /\ Enter(x, c, p).again = x.again /\ Enter(x, c, p).failed = x.failed
  BY DEF Thread, Enter, Places

\* A path lies in a directory.
LEMMA ParentPath ==
    ASSUME NEW p \in Paths
    PROVE  Parent[p] \in {Root} \cup Dirs /\ Parent[p] \in Paths /\ Addr[p] \in Addresses
  BY PathAssumption DEF Paths

\* A file is not a directory.
LEMMA FilePath ==
    ASSUME NEW f \in Files
    PROVE  f \in Paths /\ f \notin Dirs /\ f # Root
  BY PathAssumption DEF Paths

\* The first of the directories to make.
LEMMA FirstDir ==
    ASSUME NEW x \in Thread, x.dirs # <<>>
    PROVE  x.dirs[1] \in {Root} \cup Dirs /\ x.dirs[1] \in Paths /\ Head(x.dirs) = x.dirs[1]
  BY Fields DEF Paths

-----------------------------------------------------------------------------
(* What a call knows after each of its steps. *)

\* stack_mkdir puts a directory in front of those it has to make.
LEMMA StackMkdirOK ==
    ASSUME NEW t \in Threads, NEW x \in Thread, NEW tab, NEW d \in {Root} \cup Dirs,
           Chain(x), ServedBy[x.file] = t, ~ Held(tab, x.file), ~ x.again,
           IF x.dirs = <<>> THEN d = Parent[x.file] ELSE d = Parent[x.dirs[1]]
    PROVE  /\ StackMkdir(x, d) \in Thread /\ CallOK(t, StackMkdir(x, d), tab)
           /\ Outside(StackMkdir(x, d))
  <1>y. PICK y : y = [x EXCEPT !.dirs = <<d>> \o @]
    OBVIOUS
  <1>z. PICK z : z = Enter(y, "probe", Parent[d])
    OBVIOUS
  <1>1. x.dirs \in Seq({Root} \cup Dirs) /\ y.dirs \in Seq({Root} \cup Dirs) /\ y.dirs = <<d>> \o x.dirs
    BY <1>y, Fields DEF Thread
  <1>2. y \in Thread /\ y.file = x.file /\ y.again = x.again
    BY <1>y, <1>1 DEF Thread
  <1>3. /\ Len(y.dirs) = Len(x.dirs) + 1 /\ y.dirs[1] = d /\ y.dirs # <<>>
        /\ \A i \in 1 .. Len(x.dirs) : y.dirs[i + 1] = x.dirs[i]
    BY <1>1
  <1>4. Chain(y)
    <2>1. ASSUME NEW i \in 1 .. Len(y.dirs) - 1
          PROVE  Parent[y.dirs[i + 1]] = y.dirs[i]
      <3>1. CASE i = 1
        BY <1>1, <1>3, <3>1
      <3>2. CASE i # 1
        <4>1. i - 1 \in 1 .. Len(x.dirs) - 1 /\ (i - 1) + 1 = i /\ i \in 1 .. Len(x.dirs)
              /\ i - 1 \in 1 .. Len(x.dirs)
          BY <1>1, <1>3, <3>2
        <4>2. y.dirs[i + 1] = x.dirs[i] /\ y.dirs[i] = x.dirs[i - 1]
          BY <1>3, <4>1
        <4>3. Parent[x.dirs[(i - 1) + 1]] = x.dirs[i - 1]
          BY <4>1 DEF Chain
        <4> QED
          BY <4>1, <4>2, <4>3
      <3> QED
        BY <3>1, <3>2
    <2>2. Parent[y.file] = y.dirs[Len(y.dirs)]
      <3>1. CASE x.dirs = <<>>
        BY <1>1, <1>2, <1>3, <3>1
      <3>2. CASE x.dirs # <<>>
        <4>1. Len(x.dirs) \in 1 .. Len(x.dirs) /\ Len(y.dirs) = Len(x.dirs) + 1
          BY <1>1, <1>3, <3>2
        <4> QED
          BY <1>2, <1>3, <3>2, <4>1 DEF Chain
      <3> QED
        BY <3>1, <3>2
    <2> QED
      BY <2>1, <2>2 DEF Chain
  <1>5. "probe" \in Calls /\ "probe" \in ReadCalls /\ Parent[d] \in Paths
    BY ParentPath DEF Calls, ReadCalls, Paths
  <1>6. /\ z \in Thread /\ z.call = "probe" /\ z.path = Parent[d] /\ z.at = "ReadLock"
        /\ z.file = x.file /\ z.dirs = y.dirs /\ z.again = x.again
    BY <1>z, <1>2, <1>5, Entered
  <1>7. Chain(z)
    BY <1>2, <1>4, <1>6 DEF Chain
  <1>8. ProbeOK(z, tab)
    BY <1>3, <1>6 DEF ProbeOK, ReadPlaces
  <1>9. z = StackMkdir(x, d)
    BY <1>y, <1>z DEF StackMkdir
  <1>10. Outside(z)
    BY <1>6 DEF Outside, Counts, Reads, Writes, MakeCalls
  <1> QED
    BY <1>6, <1>7, <1>8, <1>9, <1>10 DEF CallOK

\* stack_mkdir goes on, with a directory whose parent is there.
LEMMA NextDirOK ==
    ASSUME NEW t \in Threads, NEW x \in Thread, NEW tab,
           Chain(x), ServedBy[x.file] = t, x.call = "mkdircd", MkdircdOK(x, tab),
           x.at = "WriteUnlock"
    PROVE  NextDir(x) \in Thread /\ CallOK(t, NextDir(x), tab) /\ Outside(NextDir(x))
  <1>1. /\ x.dirs \in Seq({Root} \cup Dirs) /\ x.dirs # <<>> /\ x.path = x.dirs[1] /\ ~ x.again
        /\ ~ Held(tab, x.file) /\ (Held(tab, x.path) \/ x.failed) /\ x.file \in Files
    BY Fields DEF MkdircdOK
  <1>2. CASE Len(x.dirs) > 1
    <2>y. PICK y : y = [x EXCEPT !.dirs = Tail(@)]
      OBVIOUS
    <2>z. PICK z : z = Enter(y, "mkdircd", x.dirs[2])
      OBVIOUS
    <2>1. Tail(x.dirs) \in Seq({Root} \cup Dirs) /\ y.dirs = Tail(x.dirs)
      BY <1>1, <2>y DEF Thread
    <2>2. y \in Thread /\ y.file = x.file /\ y.again = x.again /\ y.failed = x.failed
      BY <2>y, <2>1 DEF Thread
    <2>3. /\ Len(y.dirs) = Len(x.dirs) - 1 /\ Len(x.dirs) \in Nat /\ y.dirs # <<>>
          /\ \A i \in 1 .. Len(y.dirs) : y.dirs[i] = x.dirs[i + 1]
          /\ x.dirs[2] \in {Root} \cup Dirs
      <3>1. PICK s \in Seq({Root} \cup Dirs) : s = x.dirs
        BY <1>1
      <3>2. Len(s) > 1 /\ y.dirs = Tail(s)
        BY <1>2, <2>1, <3>1
      <3>3. /\ Len(Tail(s)) = Len(s) - 1 /\ Len(s) \in Nat /\ Tail(s) # <<>>
            /\ \A i \in 1 .. Len(Tail(s)) : Tail(s)[i] = s[i + 1]
            /\ s[2] \in {Root} \cup Dirs
        <4>1. s # <<>> /\ Len(s) \in Nat
          BY <3>2, EmptySeq, LenProperties
        <4>2. /\ Tail(s) \in Seq({Root} \cup Dirs) /\ Len(Tail(s)) = Len(s) - 1
              /\ \A i \in 1 .. Len(Tail(s)) : Tail(s)[i] = s[i + 1]
          BY <4>1, HeadTailProperties
        <4>3. Tail(s) # <<>>
          BY <3>2, <4>1, <4>2, EmptySeq
        <4>4. 2 \in 1 .. Len(s)
          BY <3>2, <4>1
        <4> QED
          BY <4>1, <4>2, <4>3, <4>4, ElementOfSeq
      <3> QED
        BY <3>1, <3>2, <3>3
    <2>4. Chain(y)
      <3>1. ASSUME NEW i \in 1 .. Len(y.dirs) - 1
            PROVE  Parent[y.dirs[i + 1]] = y.dirs[i]
        <4>1. /\ i + 1 \in 1 .. Len(x.dirs) - 1 /\ i \in 1 .. Len(y.dirs)
              /\ i + 1 \in 1 .. Len(y.dirs)
          BY <2>3
        <4>2. Parent[x.dirs[(i + 1) + 1]] = x.dirs[i + 1]
          BY <4>1 DEF Chain
        <4> QED
          BY <2>3, <4>1, <4>2
      <3>2. Parent[y.file] = y.dirs[Len(y.dirs)]
        <4>1. Len(y.dirs) \in 1 .. Len(y.dirs) /\ Len(y.dirs) + 1 = Len(x.dirs)
          BY <1>2, <2>3
        <4> QED
          BY <1>1, <2>2, <2>3, <4>1 DEF Chain
      <3> QED
        BY <3>1, <3>2 DEF Chain
    <2>5. Parent[x.dirs[2]] = x.dirs[1]
      <3>1. 1 \in 1 .. Len(x.dirs) - 1 /\ 1 + 1 = 2
        BY <1>2, <2>3
      <3> QED
        BY <3>1 DEF Chain
    <2>6. "mkdircd" \in Calls /\ "mkdircd" \notin ReadCalls /\ x.dirs[2] \in Paths
      BY <2>3 DEF Calls, ReadCalls, MakeCalls, Paths
    <2>7. /\ z \in Thread /\ z.call = "mkdircd" /\ z.path = x.dirs[2] /\ z.at = "WriteID"
          /\ z.file = x.file /\ z.dirs = y.dirs /\ z.again = x.again /\ z.failed = x.failed
      BY <2>z, <2>2, <2>6, Entered
    <2>8. Chain(z)
      BY <2>2, <2>4, <2>7 DEF Chain
    <2>9. MkdircdOK(z, tab)
      <3>1. z.path = z.dirs[1]
        <4>1. 1 \in 1 .. Len(y.dirs) /\ 1 + 1 = 2
          BY <1>2, <2>3
        <4> QED
          BY <2>3, <2>7, <4>1
      <3> QED
        BY <1>1, <2>3, <2>5, <2>7, <3>1 DEF MkdircdOK, MakePlaces, Places
    <2>10. z = NextDir(x)
      BY <1>2, <2>y, <2>z DEF NextDir
    <2> QED
      BY <2>7, <2>8, <2>9, <2>10 DEF CallOK, Outside, Counts, Reads, Writes
  <1>3. CASE ~ (Len(x.dirs) > 1)
    <2>y. PICK y : y = [x EXCEPT !.dirs = <<>>, !.again = TRUE]
      OBVIOUS
    <2>z. PICK z : z = Enter(y, "mknodcd", x.file)
      OBVIOUS
    <2>1. /\ y \in Thread /\ y.file = x.file /\ y.again = TRUE /\ y.dirs = <<>>
          /\ y.failed = x.failed
      <3>1. <<>> \in Seq({Root} \cup Dirs)
        OBVIOUS
      <3> QED
        BY <2>y, <3>1 DEF Thread
    <2>2. Parent[x.file] = x.path
      <3>1. Len(x.dirs) = 1
        <4>1. PICK s \in Seq({Root} \cup Dirs) : s = x.dirs
          BY <1>1
        <4>2. s # <<>> /\ ~ (Len(s) > 1)
          BY <1>1, <1>3, <4>1
        <4>3. Len(s) \in Nat \ {0}
          BY <4>2, EmptySeq, Zenon
        <4>4. Len(s) = 1
          <5>1. ~ (Len(s) > 1)
            BY <4>2
          <5>2. PICK n \in Nat \ {0} : n = Len(s)
            BY <4>3
          <5>3. ~ (n > 1)
            BY <5>1, <5>2
          <5>4. n = 1
            BY <5>3
          <5> QED
            BY <5>2, <5>4
        <4> QED
          BY <4>1, <4>4
      <3> QED
        BY <1>1, <3>1 DEF Chain
    <2>3. "mknodcd" \in Calls /\ "mknodcd" \notin ReadCalls /\ x.file \in Paths
      BY <1>1 DEF Calls, ReadCalls, MakeCalls, Paths
    <2>4. /\ z \in Thread /\ z.call = "mknodcd" /\ z.path = x.file /\ z.at = "WriteID"
          /\ z.file = x.file /\ z.dirs = <<>> /\ z.again = TRUE /\ z.failed = x.failed
      BY <2>z, <2>1, <2>3, Entered
    <2>5. Chain(z)
      BY <2>4 DEF Chain
    <2>6. MknodcdOK(z, tab)
      BY <1>1, <2>2, <2>4 DEF MknodcdOK, MakePlaces, Places
    <2>7. z = NextDir(x)
      BY <1>3, <2>y, <2>z DEF NextDir
    <2> QED
      BY <2>4, <2>5, <2>6, <2>7 DEF CallOK, Outside, Counts, Reads, Writes
  <1> QED
    BY <1>2, <1>3

\* The names of the calls.
LEMMA CallNames ==
    /\ {"access", "probe", "getattr"} = ReadCalls /\ {"mknodcd", "mkdircd"} = MakeCalls
    /\ Calls = {"access", "probe", "getattr", "mknodcd", "mkdircd", "extentMetaWrite", "none"}
  BY DEF Calls, ReadCalls, MakeCalls

\* A call that reads first, and keeps the list of directories.
LEMMA EnterRead ==
    ASSUME NEW x \in Thread, NEW c \in ReadCalls, NEW p \in Paths, Chain(x),
           NEW z, z = Enter(x, c, p)
    PROVE  /\ z \in Thread /\ Chain(z) /\ z.call = c /\ z.path = p /\ z.at = "ReadLock"
           /\ z.file = x.file /\ z.dirs = x.dirs /\ z.again = x.again /\ Outside(z)
           /\ z.failed = x.failed
  <1>1. c \in Calls
    BY DEF Calls
  <1>2. /\ z \in Thread /\ z.call = c /\ z.path = p /\ z.at = "ReadLock"
        /\ z.file = x.file /\ z.dirs = x.dirs /\ z.again = x.again /\ z.failed = x.failed
    BY <1>1, Entered
  <1>3. Outside(z)
    BY <1>2 DEF Outside, Counts, Reads, Writes, ReadCalls, MakeCalls
  <1> QED
    BY <1>2, <1>3 DEF Chain

\* A call that takes the write lock.
LEMMA EnterWrite ==
    ASSUME NEW x \in Thread, NEW c \in MakeCalls \cup {"extentMetaWrite"}, NEW p \in Paths,
           Chain(x), NEW z, z = Enter(x, c, p)
    PROVE  /\ z \in Thread /\ Chain(z) /\ z.call = c /\ z.path = p /\ z.at = "WriteID"
           /\ z.file = x.file /\ z.dirs = x.dirs /\ z.again = x.again /\ Outside(z)
           /\ z.failed = x.failed
  <1>1. c \in Calls /\ c \notin ReadCalls
    BY DEF Calls, ReadCalls, MakeCalls
  <1>2. /\ z \in Thread /\ z.call = c /\ z.path = p /\ z.at = "WriteID"
        /\ z.file = x.file /\ z.dirs = x.dirs /\ z.again = x.again /\ z.failed = x.failed
    BY <1>1, Entered
  <1>3. Outside(z)
    BY <1>2 DEF Outside, Counts, Reads, Writes, ReadCalls, MakeCalls
  <1> QED
    BY <1>2, <1>3 DEF Chain

\* What follows a call knows what it needs.
LEMMA ReturnOK ==
    ASSUME NEW t \in Threads, NEW x \in Thread, NEW tab, CallOK(t, x, tab),
           x.call # "none",
           x.at = IF x.call \in ReadCalls THEN "ReadUnlock" ELSE "WriteUnlock"
    PROVE  Return(x) \in Thread /\ CallOK(t, Return(x), tab) /\ Outside(Return(x))
  <1>f. /\ x.call \in Calls /\ x.path \in Paths /\ x.file \in Files /\ x.file \in Paths
        /\ x.ok \in BOOLEAN /\ x.again \in BOOLEAN
    BY Fields, FilePath
  <1>c. Chain(x) /\ ServedBy[x.file] = t
    BY DEF CallOK
  <1>1. CASE x.call = "access"
    <2>1. AccessOK(x, tab) /\ x.at = "ReadUnlock"
      BY <1>1, CallNames DEF CallOK
    <2>2. CASE x.ok
      <3>1. PICK z : z = Enter(x, "getattr", x.file)
        OBVIOUS
      <3>2. /\ z \in Thread /\ Chain(z) /\ z.call = "getattr" /\ z.path = x.file
            /\ z.at = "ReadLock" /\ z.file = x.file /\ z.dirs = x.dirs /\ Outside(z)
            /\ z.failed = x.failed
        <4>1. "getattr" \in ReadCalls
          BY CallNames
        <4> QED
          BY <1>f, <1>c, <3>1, <4>1, EnterRead
      <3>3. GetattrOK(z, tab)
        BY <2>1, <2>2, <3>2 DEF AccessOK, GetattrOK, ReadPlaces
      <3>4. Return(x) = z
        BY <1>1, <2>2, <3>1 DEF Return
      <3> QED
        BY <1>c, <3>2, <3>3, <3>4 DEF CallOK
    <2>3. CASE ~ x.ok
      <3>1. PICK z : z = Enter(x, "mknodcd", x.file)
        OBVIOUS
      <3>2. /\ z \in Thread /\ Chain(z) /\ z.call = "mknodcd" /\ z.path = x.file
            /\ z.at = "WriteID" /\ z.file = x.file /\ z.dirs = x.dirs /\ z.again = x.again
            /\ z.failed = x.failed /\ Outside(z)
        <4>1. "mknodcd" \in MakeCalls \cup {"extentMetaWrite"}
          BY CallNames
        <4> QED
          BY <1>f, <1>c, <3>1, <4>1, EnterWrite
      <3>3. MknodcdOK(z, tab)
        BY <2>1, <2>3, <3>2 DEF AccessOK, MknodcdOK, MakePlaces, Places
      <3>4. Return(x) = z
        BY <1>1, <2>3, <3>1 DEF Return
      <3> QED
        BY <1>c, <3>2, <3>3, <3>4 DEF CallOK
    <2> QED
      BY <2>2, <2>3
  <1>2. CASE x.call = "mknodcd"
    <2>1. MknodcdOK(x, tab) /\ x.at = "WriteUnlock"
      BY <1>2, CallNames DEF CallOK
    <2>2. CASE x.ok \/ x.again
      <3>1. PICK z : z = Enter(x, "getattr", x.file)
        OBVIOUS
      <3>2. /\ z \in Thread /\ Chain(z) /\ z.call = "getattr" /\ z.path = x.file
            /\ z.at = "ReadLock" /\ z.file = x.file /\ z.dirs = x.dirs /\ Outside(z)
            /\ z.failed = x.failed
        <4>1. "getattr" \in ReadCalls
          BY CallNames
        <4> QED
          BY <1>f, <1>c, <3>1, <4>1, EnterRead
      <3>3. GetattrOK(z, tab)
        BY <2>1, <2>2, <3>2 DEF MknodcdOK, GetattrOK, ReadPlaces
      <3>4. Return(x) = z
        BY <1>2, <2>2, <3>1 DEF Return
      <3> QED
        BY <1>c, <3>2, <3>3, <3>4 DEF CallOK
    <2>3. CASE ~ (x.ok \/ x.again)
      <3>1. Parent[x.file] \in {Root} \cup Dirs /\ ~ Held(tab, x.file) /\ x.dirs = <<>>
        BY <1>f, <2>1, <2>3, ParentPath DEF MknodcdOK
      <3>2. Return(x) = StackMkdir(x, Parent[x.file])
        BY <1>2, <2>3 DEF Return
      <3> QED
        BY <1>c, <2>3, <3>1, <3>2, StackMkdirOK
    <2> QED
      BY <2>2, <2>3
  <1>3. CASE x.call = "probe"
    <2>1. ProbeOK(x, tab) /\ x.at = "ReadUnlock"
      BY <1>3, CallNames DEF CallOK
    <2>2. x.dirs # <<>> /\ x.dirs[1] \in Paths /\ Head(x.dirs) = x.dirs[1]
      BY <2>1, FirstDir DEF ProbeOK
    <2>3. CASE x.ok
      <3>1. PICK z : z = Enter(x, "mkdircd", x.dirs[1])
        OBVIOUS
      <3>2. /\ z \in Thread /\ Chain(z) /\ z.call = "mkdircd" /\ z.path = x.dirs[1]
            /\ z.at = "WriteID" /\ z.file = x.file /\ z.dirs = x.dirs /\ z.again = x.again
            /\ z.failed = x.failed /\ Outside(z)
        <4>1. "mkdircd" \in MakeCalls \cup {"extentMetaWrite"}
          BY CallNames
        <4> QED
          BY <1>f, <1>c, <2>2, <3>1, <4>1, EnterWrite
      <3>3. MkdircdOK(z, tab)
        BY <2>1, <2>2, <2>3, <3>2 DEF ProbeOK, MkdircdOK, MakePlaces, Places
      <3>4. Return(x) = z
        BY <1>3, <2>2, <2>3, <3>1 DEF Return
      <3> QED
        BY <1>c, <3>2, <3>3, <3>4 DEF CallOK
    <2>4. CASE ~ x.ok
      <3>1. /\ x.path \in {Root} \cup Dirs /\ ~ Held(tab, x.file) /\ ~ x.again
            /\ x.path = Parent[x.dirs[1]]
        BY <2>1, <2>2, <2>4, ParentPath DEF ProbeOK
      <3>2. Return(x) = StackMkdir(x, x.path)
        BY <1>3, <2>4 DEF Return
      <3> QED
        BY <1>c, <2>2, <3>1, <3>2, StackMkdirOK
    <2> QED
      BY <2>3, <2>4
  <1>4. CASE x.call = "mkdircd"
    <2>1. MkdircdOK(x, tab) /\ x.at = "WriteUnlock"
      BY <1>4, CallNames DEF CallOK
    <2>2. Return(x) = NextDir(x)
      BY <1>4 DEF Return
    <2> QED
      BY <1>c, <1>4, <2>1, <2>2, NextDirOK
  <1>5. CASE x.call \in {"getattr", "extentMetaWrite"}
    <2>1. x.dirs = <<>>
      BY <1>5 DEF CallOK, GetattrOK, WriteOK
    <2>2. PICK z : z = [x EXCEPT !.call = "none", !.at = "idle", !.path = Root,
                                 !.again = FALSE, !.ok = FALSE, !.failed = FALSE, !.copy = {}]
      OBVIOUS
    <2>3. /\ "none" \in Calls /\ "idle" \in Places /\ Root \in Paths
      BY CallNames DEF Places, Paths
    <2>4. /\ z \in Thread /\ z.call = "none" /\ z.at = "idle" /\ ~ z.again /\ z.dirs = <<>>
      BY <2>1, <2>2, <2>3 DEF Thread
    <2>5. Chain(z) /\ IdleOK(z)
      BY <2>4 DEF Chain, IdleOK
    <2>6. Return(x) = z
      BY <1>5, <2>2 DEF Return
    <2>7. Outside(z)
      BY <2>4 DEF Outside, Counts, Reads, Writes, MakeCalls
    <2> QED
      BY <2>4, <2>5, <2>6, <2>7 DEF CallOK
  <1> QED
    BY <1>f, <1>1, <1>2, <1>3, <1>4, <1>5, CallNames

-----------------------------------------------------------------------------
(* The lock words. *)

\* A step of thread t gives it the record y.
LEMMA Moved ==
    ASSUME th \in [Threads -> Thread], NEW t \in Threads, NEW y \in Thread,
           th' = [th EXCEPT ![t] = y]
    PROVE  /\ th' \in [Threads -> Thread] /\ th'[t] = y
           /\ \A u \in Threads : u # t => th'[u] = th[u]
           /\ \A a \in Addresses :
                /\ CountedAt(a)' = IF Counts(y, a) THEN CountedAt(a) \cup {t}
                                   ELSE CountedAt(a) \ {t}
                /\ ReadersAt(a)' = IF Reads(y, a) THEN ReadersAt(a) \cup {t}
                                   ELSE ReadersAt(a) \ {t}
                /\ WritersAt(a)' = IF Writes(y, a) THEN WritersAt(a) \cup {t}
                                   ELSE WritersAt(a) \ {t}
  <1>1. th' \in [Threads -> Thread] /\ th'[t] = y
    OBVIOUS
  <1>2. \A u \in Threads : u # t => th'[u] = th[u]
    OBVIOUS
  <1>3. ASSUME NEW a \in Addresses
        PROVE  CountedAt(a)' = IF Counts(y, a) THEN CountedAt(a) \cup {t}
                               ELSE CountedAt(a) \ {t}
    <2>1. CountedAt(a)' = { u \in Threads : Counts(th'[u], a) }
      BY DEF CountedAt, Counts, ReadOf
    <2> QED
      BY <1>1, <1>2, <2>1 DEF CountedAt
  <1>4. ASSUME NEW a \in Addresses
        PROVE  ReadersAt(a)' = IF Reads(y, a) THEN ReadersAt(a) \cup {t}
                               ELSE ReadersAt(a) \ {t}
    <2>1. ReadersAt(a)' = { u \in Threads : Reads(th'[u], a) }
      BY DEF ReadersAt, Reads, ReadOf
    <2> QED
      BY <1>1, <1>2, <2>1 DEF ReadersAt
  <1>5. ASSUME NEW a \in Addresses
        PROVE  WritersAt(a)' = IF Writes(y, a) THEN WritersAt(a) \cup {t}
                               ELSE WritersAt(a) \ {t}
    <2>1. WritersAt(a)' = { u \in Threads : Writes(th'[u], a) }
      BY DEF WritersAt, Writes
    <2> QED
      BY <1>1, <1>2, <2>1 DEF WritersAt
  <1> QED
    BY <1>1, <1>2, <1>3, <1>4, <1>5

\* The readers counted in a word are finitely many.
LEMMA CountedFinite ==
    ASSUME NEW a
    PROVE  IsFiniteSet(CountedAt(a)) /\ Cardinality(CountedAt(a)) \in Nat
  <1>1. CountedAt(a) \in SUBSET Threads /\ IsFiniteSet(Threads)
    BY PathAssumption DEF CountedAt
  <1>2. IsFiniteSet(CountedAt(a))
    BY <1>1, FS_Subset
  <1> QED
    BY <1>2, FS_CardinalityType

\* A thread that is counted in is counted.
LEMMA CountedPositive ==
    ASSUME LockInv, NEW t \in Threads, NEW a \in Addresses, Counts(th[t], a)
    PROVE  word[a].lo \in Nat \ {0}
  <1>1. t \in CountedAt(a)
    BY DEF CountedAt
  <1>2. Cardinality(CountedAt(a)) # 0
    BY <1>1, CountedFinite, FS_EmptySet
  <1> QED
    BY <1>2, CountedFinite DEF LockInv

\* The lock words follow a thread whose record goes from x to y.
Accounts(x, y) ==
    \A a \in Addresses :
        /\ (Counts(y, a) <=> Counts(x, a)) => word'[a].lo = word[a].lo
        /\ Counts(y, a) /\ ~ Counts(x, a) => word'[a].lo = word[a].lo + 1
        /\ ~ Counts(y, a) /\ Counts(x, a) => word'[a].lo = word[a].lo - 1
        /\ (Writes(y, a) <=> Writes(x, a)) => word'[a].hi = word[a].hi
        /\ Writes(y, a) /\ ~ Writes(x, a) => word[a].hi = 0 /\ word'[a].hi # 0
        /\ ~ Writes(y, a) /\ Writes(x, a) => word'[a].hi = 0

\* A step that keeps the account keeps LockInv.
LEMMA LockStep ==
    ASSUME LockInv, th \in [Threads -> Thread], NEW t \in Threads, NEW y \in Thread,
           th' = [th EXCEPT ![t] = y], Accounts(th[t], y)
    PROVE  LockInv'
  <1> SUFFICES ASSUME NEW a \in Addresses
               PROVE  /\ word'[a].lo = Cardinality(CountedAt(a)')
                      /\ word'[a].hi = 0 <=> WritersAt(a)' = {}
                      /\ \A u, v \in WritersAt(a)' : u = v
    BY DEF LockInv
  <1>1. /\ t \in CountedAt(a) <=> Counts(th[t], a)
        /\ t \in WritersAt(a) <=> Writes(th[t], a)
    BY DEF CountedAt, WritersAt
  <1>2. /\ CountedAt(a)' = IF Counts(y, a) THEN CountedAt(a) \cup {t}
                           ELSE CountedAt(a) \ {t}
        /\ WritersAt(a)' = IF Writes(y, a) THEN WritersAt(a) \cup {t}
                           ELSE WritersAt(a) \ {t}
    BY Moved
  <1>3. /\ word[a].lo = Cardinality(CountedAt(a))
        /\ word[a].hi = 0 <=> WritersAt(a) = {}
        /\ \A u, v \in WritersAt(a) : u = v
    BY DEF LockInv
  <1>4. word'[a].lo = Cardinality(CountedAt(a)')
    <2>1. CASE Counts(y, a) <=> Counts(th[t], a)
      <3>1. CountedAt(a)' = CountedAt(a)
        BY <1>1, <1>2, <2>1
      <3> QED
        BY <1>3, <2>1, <3>1 DEF Accounts
    <2>2. CASE Counts(y, a) /\ ~ Counts(th[t], a)
      <3>1. CountedAt(a)' = CountedAt(a) \cup {t} /\ t \notin CountedAt(a)
        BY <1>1, <1>2, <2>2
      <3>2. Cardinality(CountedAt(a)') = Cardinality(CountedAt(a)) + 1
        BY <3>1, CountedFinite, FS_AddElement
      <3> QED
        BY <1>3, <2>2, <3>2 DEF Accounts
    <2>3. CASE ~ Counts(y, a) /\ Counts(th[t], a)
      <3>1. CountedAt(a)' = CountedAt(a) \ {t} /\ t \in CountedAt(a)
        BY <1>1, <1>2, <2>3
      <3>2. Cardinality(CountedAt(a)') = Cardinality(CountedAt(a)) - 1
        BY <3>1, CountedFinite, FS_RemoveElement
      <3> QED
        BY <1>3, <2>3, <3>2 DEF Accounts
    <2> QED
      BY <2>1, <2>2, <2>3
  <1>5. /\ word'[a].hi = 0 <=> WritersAt(a)' = {}
        /\ \A u, v \in WritersAt(a)' : u = v
    <2>1. CASE Writes(y, a) <=> Writes(th[t], a)
      <3>1. WritersAt(a)' = WritersAt(a)
        BY <1>1, <1>2, <2>1
      <3> QED
        BY <1>3, <2>1, <3>1 DEF Accounts
    <2>2. CASE Writes(y, a) /\ ~ Writes(th[t], a)
      <3>1. word[a].hi = 0 /\ word'[a].hi # 0
        BY <2>2 DEF Accounts
      <3>2. WritersAt(a)' = {t}
        BY <1>2, <1>3, <2>2, <3>1
      <3> QED
        BY <3>1, <3>2
    <2>3. CASE ~ Writes(y, a) /\ Writes(th[t], a)
      <3>1. word'[a].hi = 0
        BY <2>3 DEF Accounts
      <3>2. WritersAt(a)' = {}
        BY <1>1, <1>2, <1>3, <2>3
      <3> QED
        BY <3>1, <3>2
    <2> QED
      BY <2>1, <2>2, <2>3
  <1> QED
    BY <1>4, <1>5

-----------------------------------------------------------------------------
(* One lemma per step of a thread: what its call knows afterwards, and that the *)
(* lock words follow it.                                                        *)

WordType == word \in [Addresses -> [hi : 0 .. (NodeID + 1) * IdSpace - 1, lo : Nat]]

\* What a thread whose record goes from x to y does to the locks: nothing, or it
\* enters or leaves one, and only one that is free for it.
Quiet(x, y) ==
    \A a \in Addresses : (Reads(y, a) <=> Reads(x, a)) /\ (Writes(y, a) <=> Writes(x, a))
EntersWrite(x, y, b) ==
    /\ word[b].hi = 0 /\ word[b].lo = 0
    /\ \A a \in Addresses : /\ Reads(y, a) <=> Reads(x, a)
                            /\ ~ Writes(x, a)
                            /\ Writes(y, a) <=> a = b
LeavesWrite(x, y, b) ==
    \A a \in Addresses : /\ Reads(y, a) <=> Reads(x, a)
                         /\ Writes(x, a) <=> a = b
                         /\ ~ Writes(y, a)
EntersRead(x, y, b) ==
    /\ word[b].hi = 0
    /\ \A a \in Addresses : /\ Writes(y, a) <=> Writes(x, a)
                            /\ ~ Reads(x, a)
                            /\ Reads(y, a) <=> a = b
LeavesRead(x, y, b) ==
    \A a \in Addresses : /\ Writes(y, a) <=> Writes(x, a)
                         /\ Reads(x, a) <=> a = b
                         /\ ~ Reads(y, a)
LockMove(x, y) ==
    \/ Quiet(x, y)
    \/ \E b \in Addresses : \/ EntersWrite(x, y, b) \/ LeavesWrite(x, y, b)
                            \/ EntersRead(x, y, b) \/ LeavesRead(x, y, b)

\* A step of t leaves it with a record that is in order.
Kept(t) ==
    \E y \in Thread : /\ th' = [th EXCEPT ![t] = y]
                      /\ CallOK(t, y, table')
                      /\ Accounts(th[t], y) /\ LockMove(th[t], y)

\* A step inside a call.
Within(x, y) ==
    /\ y \in Thread /\ y.call = x.call /\ y.path = x.path /\ y.file = x.file
    /\ y.dirs = x.dirs /\ y.again = x.again
    /\ x.failed => y.failed

\* The facts about a thread that all the lemmas use.
LEMMA ThreadFacts ==
    ASSUME FsInv, NEW t \in Threads
    PROVE  /\ th[t] \in Thread /\ CallOK(t, th[t], table) /\ Chain(th[t])
           /\ th[t].call \in Calls /\ th[t].path \in Paths /\ th[t].file \in Files
           /\ th[t].ok \in BOOLEAN /\ th[t].again \in BOOLEAN /\ th[t].failed \in BOOLEAN
           /\ ReadOf(th[t]) \in Paths /\ ReadOf(th[t]) = ReadPath(t)
  <1>1. th[t] \in Thread
    BY DEF FsInv, FsTypeOK
  <1>2. CallOK(t, th[t], table)
    BY DEF FsInv, CallsInv
  <1>3. /\ th[t].call \in Calls /\ th[t].path \in Paths /\ th[t].file \in Files
        /\ th[t].ok \in BOOLEAN /\ th[t].again \in BOOLEAN /\ th[t].failed \in BOOLEAN
    BY <1>1, Fields
  <1> QED
    BY <1>1, <1>2, <1>3, ParentPath DEF CallOK, ReadOf, ReadPath

\* The places of each call.
LEMMA CallPlaces ==
    ASSUME NEW t \in Threads, NEW x \in Thread, NEW tab, CallOK(t, x, tab)
    PROVE  \/ x.call = "none" /\ x.at = "idle"
           \/ x.call \in ReadCalls /\ x.at \in ReadPlaces
           \/ x.call \in MakeCalls /\ x.at \in MakePlaces
           \/ x.call = "extentMetaWrite"
              /\ x.at \in {"WriteID", "WriteLock", "exists", "WriteUnlock"}
  <1>1. x.call \in {"access", "probe", "getattr", "mknodcd", "mkdircd", "extentMetaWrite", "none"}
    BY Fields, CallNames
  <1>2. x.call \in {"access", "probe", "getattr"} => x.at \in ReadPlaces
    BY DEF CallOK, AccessOK, ProbeOK, GetattrOK
  <1>3. x.call \in {"mknodcd", "mkdircd"} => x.at \in MakePlaces
    BY DEF CallOK, MkdircdOK, MknodcdOK
  <1>4. /\ x.call = "none" => x.at = "idle"
        /\ x.call = "extentMetaWrite"
             => x.at \in {"WriteID", "WriteLock", "exists", "WriteUnlock"}
    BY DEF CallOK, IdleOK, WriteOK
  <1> QED
    BY <1>1, <1>2, <1>3, <1>4 DEF ReadCalls, MakeCalls

\* The words when none of them changes.
LEMMA WordsSame ==
    ASSUME NEW x, NEW y, UNCHANGED word,
           \A a \in Addresses : /\ Counts(y, a) <=> Counts(x, a)
                                /\ Writes(y, a) <=> Writes(x, a)
    PROVE  Accounts(x, y)
  BY DEF Accounts

\* Moving on inside a call, with the same path.
LEMMA SameChain ==
    ASSUME NEW x, NEW y, Within(x, y), Chain(x)
    PROVE  Chain(y)
  BY DEF Within, Chain

\* WriteLock takes an ID, once.
LEMMA StepTakeWriteID ==
    ASSUME FsInv, NEW t \in Threads, TakeWriteID(t)
    PROVE  Kept(t)
  <1>1. PICK x \in Thread : x = th[t] /\ CallOK(t, x, table) /\ Chain(x)
    BY ThreadFacts
  <1>2. PICK y : y = [x EXCEPT !.id = WriteID, !.at = "WriteLock"]
    OBVIOUS
  <1>3. x.at = "WriteID" /\ th' = [th EXCEPT ![t] = y] /\ UNCHANGED <<word, table>>
    BY <1>1, <1>2 DEF TakeWriteID, At
  <1>4. Within(x, y) /\ y.at = "WriteLock"
    <2>1. "WriteLock" \in Places /\ WriteID \in 0 .. IdSpace - 1
      BY DEF FsInv, FsTypeOK, Places
    <2> QED
      BY <1>2, <2>1 DEF Thread, Within
  <1>5. CallOK(t, y, table)
    <2>1. Chain(y)
      BY <1>1, <1>4, SameChain
    <2> QED
      BY <1>1, <1>3, <1>4, <2>1 DEF CallOK, Within, IdleOK, WriteOK, AccessOK, GetattrOK,
         ProbeOK, MkdircdOK, MknodcdOK, ReadPlaces, MakePlaces, Places
  <1>6. Accounts(x, y)
    BY <1>3, <1>4, WordsSame DEF Within, Counts, Writes, ReadOf
  <1>m. LockMove(x, y)
    BY <1>3, <1>4 DEF LockMove, Quiet, Within, Reads, Writes, ReadOf
  <1> QED
    BY <1>m, <1>1, <1>3, <1>4, <1>5, <1>6 DEF Kept, Within

\* The key of a writer is not 0.
LEMMA KeyType ==
    ASSUME NEW id \in 0 .. IdSpace - 1
    PROVE  Key(id) \in 0 .. (NodeID + 1) * IdSpace - 1 /\ Key(id) # 0
  <1>1. NodeID \in Nat \ {0} /\ IdSpace \in Nat \ {0}
    BY LockAssumption
  <1>2. NodeID * IdSpace \in Nat \ {0} /\ (NodeID + 1) * IdSpace = NodeID * IdSpace + IdSpace
    BY <1>1
  <1>3. PICK n \in Nat \ {0} : n = NodeID * IdSpace
    BY <1>2
  <1>4. n + id \in 0 .. n + IdSpace - 1 /\ n + id # 0
    BY <1>1
  <1>5. Key(id) = n + id /\ (NodeID + 1) * IdSpace = n + IdSpace
    BY <1>2, <1>3 DEF Key
  <1>6. PICK m : m = (NodeID + 1) * IdSpace
    OBVIOUS
  <1>7. PICK k : k = Key(id)
    OBVIOUS
  <1>8. k = n + id /\ m = n + IdSpace
    BY <1>5, <1>6, <1>7, Zenon
  <1>9. k \in 0 .. m - 1 /\ k # 0
    BY <1>1, <1>8
  <1> QED
    BY <1>6, <1>7, <1>9

\* The compare-and-swap of WriteLock finds the whole word 0.
LEMMA StepLockWrite ==
    ASSUME FsInv, NEW t \in Threads, LockWrite(t)
    PROVE  Kept(t) /\ WordType'
  <1>1. PICK x \in Thread : x = th[t] /\ CallOK(t, x, table) /\ Chain(x)
    BY ThreadFacts
  <1>p. PICK place : place = IF x.call \in MakeCalls THEN "ReadLock" ELSE "exists"
    OBVIOUS
  <1>2. PICK y : y = [x EXCEPT !.at = place]
    OBVIOUS
  <1>3. x.at = "WriteLock" /\ th' = [th EXCEPT ![t] = y] /\ table' = table
    BY <1>1, <1>p, <1>2 DEF LockWrite, At, Goto
  <1>4. Within(x, y) /\ y.at = place
    <2>1. place \in Places
      BY <1>p DEF Places
    <2> QED
      BY <1>2, <2>1 DEF Thread, Within
  <1>5. CallOK(t, y, table)
    <2>1. Chain(y)
      BY <1>1, <1>4, SameChain
    <2> QED
      BY <1>1, <1>3, <1>4, <1>p, <2>1 DEF CallOK, Within, IdleOK, WriteOK, AccessOK,
         GetattrOK, ProbeOK, MkdircdOK, MknodcdOK, ReadPlaces, MakePlaces, Places, MakeCalls
  <1>6. PICK b \in Addresses : b = Addr[x.path]
    BY <1>1, ThreadFacts, ParentPath
  <1>7. /\ x.id \in 0 .. IdSpace - 1
        /\ word \in [Addresses -> [hi : 0 .. (NodeID + 1) * IdSpace - 1, lo : Nat]]
    BY Fields DEF FsInv, FsTypeOK
  <1>8. word[b].hi = 0 /\ word' = [word EXCEPT ![b].hi = Key(x.id)]
    <2>1. WriteLock(b, x.id)
      BY <1>1, <1>6 DEF LockWrite
    <2> QED
      BY <2>1 DEF WriteLock
  <1>9. Key(x.id) \in 0 .. (NodeID + 1) * IdSpace - 1 /\ Key(x.id) # 0
    BY <1>7, KeyType
  <1>10. WordType'
    BY <1>7, <1>8, <1>9 DEF WordType
  <1>11. x.call \in MakeCalls \cup {"extentMetaWrite"}
    <2>1. \/ x.call = "none" /\ x.at = "idle"
          \/ x.call \in ReadCalls /\ x.at \in ReadPlaces
          \/ x.call \in MakeCalls /\ x.at \in MakePlaces
          \/ x.call = "extentMetaWrite"
             /\ x.at \in {"WriteID", "WriteLock", "exists", "WriteUnlock"}
      BY <1>1, CallPlaces, Zenon
    <2> QED
      BY <1>3, <2>1 DEF ReadPlaces
  <1>12. ASSUME NEW a \in Addresses
         PROVE  /\ ~ Counts(x, a) /\ ~ Counts(y, a) /\ ~ Writes(x, a)
                /\ Writes(y, a) <=> a = b
    BY <1>3, <1>4, <1>p, <1>6, <1>11 DEF Within, Counts, Writes
  <1>13. Accounts(x, y)
    <2>1. /\ word'[b].lo = word[b].lo /\ word'[b].hi = Key(x.id)
          /\ \A a \in Addresses : a # b => word'[a] = word[a]
      BY <1>7, <1>8
    <2> QED
      BY <1>8, <1>9, <1>12, <2>1 DEF Accounts
  <1>m. LockMove(x, y)
    <2>1. word[b].lo = 0
      BY <1>1, <1>6 DEF LockWrite, WriteLock
    <2>2. EntersWrite(x, y, b)
      BY <1>3, <1>4, <1>p, <1>8, <1>12, <2>1 DEF EntersWrite, Reads
    <2> QED
      BY <2>2 DEF LockMove
  <1> QED
    BY <1>m, <1>1, <1>3, <1>4, <1>5, <1>10, <1>13 DEF Kept, Within

\* WriteUnlock stores 0 in the high half of the word, and the call returns.
LEMMA StepUnlockWrite ==
    ASSUME FsInv, NEW t \in Threads, UnlockWrite(t)
    PROVE  Kept(t) /\ WordType'
  <1>1. PICK x \in Thread : x = th[t] /\ CallOK(t, x, table) /\ Chain(x)
    BY ThreadFacts
  <1>2. PICK y : y = Return(x)
    OBVIOUS
  <1>3. x.at = "WriteUnlock" /\ th' = [th EXCEPT ![t] = y] /\ table' = table
    BY <1>1, <1>2 DEF UnlockWrite, At
  <1>4. x.call \in MakeCalls \cup {"extentMetaWrite"}
    <2>1. \/ x.call = "none" /\ x.at = "idle"
          \/ x.call \in ReadCalls /\ x.at \in ReadPlaces
          \/ x.call \in MakeCalls /\ x.at \in MakePlaces
          \/ x.call = "extentMetaWrite"
             /\ x.at \in {"WriteID", "WriteLock", "exists", "WriteUnlock"}
      BY <1>1, CallPlaces, Zenon
    <2> QED
      BY <1>3, <2>1 DEF ReadPlaces
  <1>5. y \in Thread /\ CallOK(t, y, table) /\ Outside(y)
    <2>1. x.call # "none" /\ x.call \notin ReadCalls
      BY <1>4, CallNames
    <2> QED
      BY <1>1, <1>2, <1>3, <2>1, ReturnOK
  <1>6. PICK b \in Addresses : b = Addr[x.path]
    BY <1>1, ThreadFacts, ParentPath
  <1>7. word \in [Addresses -> [hi : 0 .. (NodeID + 1) * IdSpace - 1, lo : Nat]]
    BY DEF FsInv, FsTypeOK
  <1>8. word' = [word EXCEPT ![b].hi = 0]
    BY <1>1, <1>6 DEF UnlockWrite, WriteUnlock
  <1>9. 0 \in 0 .. (NodeID + 1) * IdSpace - 1
    <2>1. 0 \in 0 .. IdSpace - 1
      BY LockAssumption
    <2>2. PICK k : k = Key(0)
      OBVIOUS
    <2>3. PICK m : m = (NodeID + 1) * IdSpace - 1
      OBVIOUS
    <2>4. k \in 0 .. m
      BY <2>1, <2>2, <2>3, KeyType
    <2>5. m \in Int
      BY <2>3, LockAssumption
    <2> QED
      BY <2>3, <2>4, <2>5
  <1>10. WordType'
    BY <1>7, <1>8, <1>9 DEF WordType
  <1>11. ASSUME NEW a \in Addresses
         PROVE  /\ ~ Counts(x, a) /\ ~ Counts(y, a) /\ ~ Writes(y, a)
                /\ Writes(x, a) <=> a = b
    BY <1>3, <1>4, <1>5, <1>6 DEF Outside, Counts, Writes
  <1>12. Accounts(x, y)
    <2>1. /\ word'[b].lo = word[b].lo /\ word'[b].hi = 0
          /\ \A a \in Addresses : a # b => word'[a] = word[a]
      BY <1>7, <1>8
    <2> QED
      BY <1>11, <2>1 DEF Accounts
  <1>m. LockMove(x, y)
    <2>1. LeavesWrite(x, y, b)
      BY <1>3, <1>5, <1>11 DEF LeavesWrite, Outside, Reads
    <2> QED
      BY <2>1 DEF LockMove
  <1> QED
    BY <1>m, <1>1, <1>3, <1>5, <1>10, <1>12 DEF Kept

\* The words when a reader is counted in or out.
LEMMA ReaderWords ==
    ASSUME FsInv, NEW b \in Addresses, NEW d \in {1, -1},
           word' = [word EXCEPT ![b].lo = @ + d], word[b].lo + d \in Nat
    PROVE  /\ WordType' /\ word'[b].lo = word[b].lo + d /\ word'[b].hi = word[b].hi
           /\ \A a \in Addresses : a # b => word'[a] = word[a]
  <1>1. word \in [Addresses -> [hi : 0 .. (NodeID + 1) * IdSpace - 1, lo : Nat]]
    BY DEF FsInv, FsTypeOK
  <1>2. PICK n \in Nat : n = word[b].lo + d
    OBVIOUS
  <1>3. word' = [word EXCEPT ![b].lo = n]
    BY <1>2
  <1> QED
    BY <1>1, <1>2, <1>3 DEF WordType

\* ReadLock counts the reader in; it enters at once if there is no writer.
LEMMA StepLockRead ==
    ASSUME FsInv, NEW t \in Threads, LockRead(t)
    PROVE  Kept(t) /\ WordType'
  <1>1. PICK x \in Thread : x = th[t] /\ CallOK(t, x, table) /\ Chain(x)
    BY ThreadFacts
  <1>b. PICK b \in Addresses : b = Addr[ReadOf(x)] /\ b = Addr[ReadPath(t)]
    BY <1>1, ThreadFacts, ParentPath
  <1>p. PICK place : place = IF NoWriter(b) THEN "get" ELSE "spin"
    OBVIOUS
  <1>2. PICK y : y = [x EXCEPT !.at = place]
    OBVIOUS
  <1>3. x.at = "ReadLock" /\ th' = [th EXCEPT ![t] = y] /\ table' = table
    BY <1>1, <1>b, <1>p, <1>2 DEF LockRead, At, Goto
  <1>4. Within(x, y) /\ y.at = place /\ place \in {"get", "spin"}
    <2>1. place \in Places /\ place \in {"get", "spin"}
      BY <1>p DEF Places
    <2> QED
      BY <1>2, <2>1 DEF Thread, Within
  <1>5. CallOK(t, y, table)
    <2>1. Chain(y)
      BY <1>1, <1>4, SameChain
    <2> QED
      BY <1>1, <1>3, <1>4, <2>1 DEF CallOK, Within, IdleOK, WriteOK, AccessOK,
         GetattrOK, ProbeOK, MkdircdOK, MknodcdOK, ReadPlaces, MakePlaces, Places
  <1>6. word' = [word EXCEPT ![b].lo = @ + 1]
    <2>1. ReadLock(b)
      BY <1>b DEF LockRead
    <2> QED
      BY <2>1 DEF ReadLock
  <1>7. /\ WordType' /\ word'[b].lo = word[b].lo + 1 /\ word'[b].hi = word[b].hi
        /\ \A a \in Addresses : a # b => word'[a] = word[a]
    <2>1. word[b].lo + 1 \in Nat
      BY DEF FsInv, FsTypeOK
    <2> QED
      BY <1>6, <2>1, ReaderWords
  <1>8. ReadOf(y) = ReadOf(x)
    BY <1>4 DEF Within, ReadOf
  <1>9. ASSUME NEW a \in Addresses
        PROVE  /\ ~ Counts(x, a)
               /\ Counts(y, a) <=> a = b
               /\ Writes(y, a) <=> Writes(x, a)
    BY <1>b, <1>3, <1>4, <1>8 DEF Counts, Writes, Within
  <1>10. Accounts(x, y)
    BY <1>7, <1>9 DEF Accounts
  <1>m. LockMove(x, y)
    <2>1. CASE word[b].hi = 0
      <3>1. y.at = "get"
        BY <1>p, <1>4, <2>1 DEF NoWriter
      <3>2. EntersRead(x, y, b)
        BY <1>b, <1>3, <1>8, <1>9, <2>1, <3>1 DEF EntersRead, Reads
      <3> QED
        BY <3>2 DEF LockMove
    <2>2. CASE word[b].hi # 0
      <3>1. y.at = "spin"
        BY <1>p, <1>4, <2>2 DEF NoWriter
      <3> QED
        BY <1>3, <1>9, <3>1 DEF LockMove, Quiet, Reads
    <2> QED
      BY <2>1, <2>2
  <1> QED
    BY <1>m, <1>1, <1>3, <1>4, <1>5, <1>7, <1>10 DEF Kept, Within

\* A reader that found a writer enters when the writer has left.
LEMMA StepSpin ==
    ASSUME FsInv, NEW t \in Threads, Spin(t)
    PROVE  Kept(t)
  <1>1. PICK x \in Thread : x = th[t] /\ CallOK(t, x, table) /\ Chain(x)
    BY ThreadFacts
  <1>2. PICK y : y = [x EXCEPT !.at = "get"]
    OBVIOUS
  <1>3. x.at = "spin" /\ th' = [th EXCEPT ![t] = y] /\ UNCHANGED <<word, table>>
    BY <1>1, <1>2 DEF Spin, At, Goto
  <1>4. Within(x, y) /\ y.at = "get"
    <2>1. "get" \in Places
      BY DEF Places
    <2> QED
      BY <1>2, <2>1 DEF Thread, Within
  <1>5. CallOK(t, y, table)
    <2>1. Chain(y)
      BY <1>1, <1>4, SameChain
    <2> QED
      BY <1>1, <1>3, <1>4, <2>1 DEF CallOK, Within, IdleOK, WriteOK, AccessOK,
         GetattrOK, ProbeOK, MkdircdOK, MknodcdOK, ReadPlaces, MakePlaces, Places
  <1>6. Accounts(x, y)
    BY <1>3, <1>4, WordsSame DEF Within, Counts, Writes, ReadOf
  <1>m. LockMove(x, y)
    <2>1. PICK b \in Addresses : b = Addr[ReadOf(x)] /\ b = Addr[ReadPath(t)]
      BY <1>1, ThreadFacts, ParentPath
    <2>2. word[b].hi = 0
      BY <2>1 DEF Spin, NoWriter
    <2>3. EntersRead(x, y, b)
      BY <1>3, <1>4, <2>1, <2>2 DEF EntersRead, Within, Reads, Writes, ReadOf
    <2> QED
      BY <2>3 DEF LockMove
  <1> QED
    BY <1>m, <1>1, <1>3, <1>4, <1>5, <1>6 DEF Kept, Within

\* A directory of the table is found.
LEMMA StepGet ==
    ASSUME FsInv, NEW t \in Threads, Get(t)
    PROVE  Kept(t)
  <1>1. PICK x \in Thread : x = th[t] /\ CallOK(t, x, table) /\ Chain(x)
    BY ThreadFacts
  <1>p. PICK p \in Paths : p = ReadOf(x) /\ p = ReadPath(t)
    BY <1>1, ThreadFacts
  <1>f. PICK found \in BOOLEAN : found = (Exists(p) /\ (x.call \in MakeCalls => table[p].dir))
    OBVIOUS
  <1>c. PICK copy \in SUBSET Paths :
               copy = IF found /\ x.call \in MakeCalls THEN names[table[p].meta] ELSE {}
    <2>1. found /\ x.call \in MakeCalls => table[p].meta \in 1 .. countDirectory
      BY <1>f DEF FsInv, FsTypeOK, Item
    <2>2. names \in [1 .. countDirectory -> SUBSET Paths]
      BY DEF FsInv, FsTypeOK
    <2> QED
      BY <2>1, <2>2
  <1>2. PICK y : y = [x EXCEPT !.ok = found, !.at = "ReadUnlock", !.copy = copy]
    OBVIOUS
  <1>3. x.at = "get" /\ th' = [th EXCEPT ![t] = y] /\ UNCHANGED <<word, table>>
    BY <1>1, <1>p, <1>f, <1>c, <1>2 DEF Get, At
  <1>4. Within(x, y) /\ y.at = "ReadUnlock" /\ y.ok = found
    <2>1. "ReadUnlock" \in Places
      BY DEF Places
    <2> QED
      BY <1>2, <2>1 DEF Thread, Within
  <1>5. /\ found => Held(table, p)
        /\ ~ found /\ p \in {Root} \cup Dirs => ~ Held(table, p)
        /\ ~ found /\ x.call \notin MakeCalls => ~ Held(table, p)
        /\ Held(table, Root)
    BY <1>f DEF FsInv, TableInv, Held, Exists
  <1>6. CallOK(t, y, table)
    <2>1. Chain(y)
      BY <1>1, <1>4, SameChain
    <2>2. x.call = "none" => FALSE
      BY <1>1, <1>3 DEF CallOK, IdleOK
    <2>3. x.call = "extentMetaWrite" => FALSE
      BY <1>1, <1>3 DEF CallOK, WriteOK
    <2>4. x.call = "access" => AccessOK(y, table)
      BY <1>1, <1>p, <1>4, <1>5 DEF CallOK, AccessOK, Within, ReadOf, MakeCalls, ReadPlaces
    <2>5. x.call = "getattr" => GetattrOK(y, table)
      BY <1>1, <1>4 DEF CallOK, GetattrOK, Within, ReadPlaces
    <2>6. x.call = "probe" => ProbeOK(y, table)
      <3>1. x.call = "probe" => p = x.path /\ p \in {Root} \cup Dirs
        BY <1>1, <1>p, FirstDir, ParentPath DEF CallOK, ProbeOK, ReadOf, MakeCalls
      <3> QED
        BY <1>1, <1>4, <1>5, <3>1 DEF CallOK, ProbeOK, Within, ReadPlaces
    <2>7. x.call \in MakeCalls => p = Parent[x.path] /\ p \in {Root} \cup Dirs
      BY <1>1, <1>p, ThreadFacts, ParentPath DEF ReadOf
    <2>8. x.call = "mkdircd" => MkdircdOK(y, table)
      BY <1>1, <1>4, <1>5, <2>7 DEF CallOK, MkdircdOK, Within, MakePlaces, Places, MakeCalls
    <2>9. x.call = "mknodcd" => MknodcdOK(y, table)
      BY <1>1, <1>3, <1>4, <1>5, <2>7
         DEF CallOK, MknodcdOK, Within, MakePlaces, Places, MakeCalls
    <2> QED
      BY <1>1, <1>4, <2>1, <2>2, <2>3, <2>4, <2>5, <2>6, <2>8, <2>9 DEF CallOK, Within
  <1>7. Accounts(x, y)
    BY <1>3, <1>4, WordsSame DEF Within, Counts, Writes, ReadOf
  <1>m. LockMove(x, y)
    BY <1>3, <1>4 DEF LockMove, Quiet, Within, Reads, Writes, ReadOf
  <1> QED
    BY <1>m, <1>1, <1>3, <1>4, <1>6, <1>7 DEF Kept, Within

\* ReadUnlock counts the reader out.
LEMMA StepUnlockRead ==
    ASSUME FsInv, NEW t \in Threads, UnlockRead(t)
    PROVE  Kept(t) /\ WordType'
  <1>1. PICK x \in Thread : x = th[t] /\ CallOK(t, x, table) /\ Chain(x)
    BY ThreadFacts
  <1>b. PICK b \in Addresses : b = Addr[ReadOf(x)] /\ b = Addr[ReadPath(t)]
    BY <1>1, ThreadFacts, ParentPath
  <1>2. PICK y : y = IF x.call \in ReadCalls THEN Return(x)
                     ELSE [x EXCEPT !.at = IF x.ok THEN "exists" ELSE "WriteUnlock"]
    OBVIOUS
  <1>3. x.at = "ReadUnlock" /\ th' = [th EXCEPT ![t] = y] /\ table' = table
    BY <1>1, <1>2 DEF UnlockRead, At
  <1>4. x.call \in ReadCalls \cup MakeCalls
    <2>1. \/ x.call = "none" /\ x.at = "idle"
          \/ x.call \in ReadCalls /\ x.at \in ReadPlaces
          \/ x.call \in MakeCalls /\ x.at \in MakePlaces
          \/ x.call = "extentMetaWrite"
             /\ x.at \in {"WriteID", "WriteLock", "exists", "WriteUnlock"}
      BY <1>1, CallPlaces, Zenon
    <2> QED
      BY <1>3, <2>1
  <1>5. /\ y \in Thread /\ CallOK(t, y, table)
        /\ \A a \in Addresses : ~ Counts(y, a) /\ (Writes(y, a) <=> Writes(x, a))
        /\ \A a \in Addresses : ~ Reads(y, a)
    <2>1. CASE x.call \in ReadCalls
      <3>1. x.call # "none" /\ x.call \notin MakeCalls \cup {"extentMetaWrite"}
        BY <2>1 DEF ReadCalls, MakeCalls
      <3>2. y \in Thread /\ CallOK(t, y, table) /\ Outside(y)
        BY <1>1, <1>2, <1>3, <2>1, <3>1, ReturnOK
      <3> QED
        BY <3>1, <3>2 DEF Outside, Writes
    <2>2. CASE x.call \in MakeCalls
      <3>p. PICK place : place = IF x.ok THEN "exists" ELSE "WriteUnlock"
        OBVIOUS
      <3>1. y = [x EXCEPT !.at = place]
        BY <1>2, <2>2, <3>p DEF ReadCalls, MakeCalls
      <3>2. Within(x, y) /\ y.at = place /\ y.ok = x.ok
        <4>1. place \in Places
          BY <3>p DEF Places
        <4> QED
          BY <3>1, <4>1 DEF Thread, Within
      <3>3. Chain(y)
        BY <1>1, <3>2, SameChain
      <3>4. CallOK(t, y, table)
        BY <1>1, <1>3, <2>2, <3>p, <3>2, <3>3
           DEF CallOK, Within, MkdircdOK, MknodcdOK, MakePlaces, Places, MakeCalls
      <3> QED
        BY <1>3, <3>p, <3>2, <3>4 DEF Within, Counts, Reads, Writes
    <2> QED
      BY <1>4, <2>1, <2>2
  <1>6. \A a \in Addresses : Counts(x, a) <=> a = b
    BY <1>b, <1>3 DEF Counts
  <1>7. word' = [word EXCEPT ![b].lo = @ - 1]
    <2>1. ReadUnlock(b)
      BY <1>b DEF UnlockRead
    <2> QED
      BY <2>1 DEF ReadUnlock
  <1>8. /\ WordType' /\ word'[b].lo = word[b].lo - 1 /\ word'[b].hi = word[b].hi
        /\ \A a \in Addresses : a # b => word'[a] = word[a]
    <2>1. word[b].lo \in Nat \ {0}
      BY <1>1, <1>6, CountedPositive DEF FsInv
    <2>2. word[b].lo + (-1) \in Nat /\ word[b].lo + (-1) = word[b].lo - 1 /\ -1 \in {1, -1}
      BY <2>1
    <2>3. word' = [word EXCEPT ![b].lo = @ + (-1)]
      BY <1>7, <2>2
    <2> QED
      BY <2>2, <2>3, ReaderWords
  <1>9. Accounts(x, y)
    BY <1>5, <1>6, <1>8 DEF Accounts
  <1>m. LockMove(x, y)
    <2>1. LeavesRead(x, y, b)
      BY <1>b, <1>3, <1>5 DEF LeavesRead, Reads
    <2> QED
      BY <2>1 DEF LockMove
  <1> QED
    BY <1>m, <1>1, <1>3, <1>5, <1>8, <1>9 DEF Kept

\* mknodcd and mkdircd look the new path up under the write lock.
LEMMA StepCheckExists ==
    ASSUME FsInv, NEW t \in Threads, CheckExists(t)
    PROVE  Kept(t)
  <1>1. PICK x \in Thread : x = th[t] /\ CallOK(t, x, table) /\ Chain(x)
    BY ThreadFacts
  <1>f. PICK new \in BOOLEAN : new = ~ Exists(x.path)
    OBVIOUS
  <1>p. PICK place : place = CASE new /\ x.call = "mkdircd" -> "update"
                               [] new /\ x.call = "mknodcd" -> "put"
                               [] OTHER -> "WriteUnlock"
    OBVIOUS
  <1>q. /\ place \in {"update", "put", "WriteUnlock"}
        /\ place = "update" <=> new /\ x.call = "mkdircd"
        /\ place = "put" <=> new /\ x.call = "mknodcd"
    BY <1>p
  <1>2. PICK y : y = [x EXCEPT !.ok = new, !.at = place]
    OBVIOUS
  <1>3. x.at = "exists" /\ th' = [th EXCEPT ![t] = y] /\ UNCHANGED <<word, table>>
    BY <1>1, <1>f, <1>p, <1>2 DEF CheckExists, At
  <1>4. Within(x, y) /\ y.at = place /\ y.ok = new
    <2>1. place \in Places
      BY <1>q DEF Places
    <2> QED
      BY <1>2, <2>1 DEF Thread, Within
  <1>5. new <=> ~ Held(table, x.path)
    BY <1>f DEF Held, Exists
  <1>6. CallOK(t, y, table)
    <2>1. Chain(y)
      BY <1>1, <1>4, SameChain
    <2> QED
      BY <1>1, <1>3, <1>4, <1>5, <1>q, <2>1 DEF CallOK, Within, IdleOK, WriteOK, AccessOK,
         GetattrOK, ProbeOK, MkdircdOK, MknodcdOK, ReadPlaces, MakePlaces, Places
  <1>7. Accounts(x, y)
    BY <1>3, <1>4, <1>q, WordsSame DEF Within, Counts, Writes, ReadOf
  <1>m. LockMove(x, y)
    BY <1>3, <1>4, <1>q DEF LockMove, Quiet, Within, Reads, Writes, ReadOf
  <1> QED
    BY <1>m, <1>1, <1>3, <1>4, <1>6, <1>7 DEF Kept, Within

\* mkdircd writes its copy of the parent's names back, with the new one.
LEMMA StepUpdateParent ==
    ASSUME FsInv, NEW t \in Threads, UpdateParent(t)
    PROVE  Kept(t) /\ names' \in [1 .. countDirectory -> SUBSET Paths]
  <1>1. PICK x \in Thread : x = th[t] /\ CallOK(t, x, table) /\ Chain(x)
    BY ThreadFacts
  <1>2. PICK y : y = [x EXCEPT !.at = "put"]
    OBVIOUS
  <1>3. x.at = "update" /\ th' = [th EXCEPT ![t] = y] /\ UNCHANGED <<word, table>>
    BY <1>1, <1>2 DEF UpdateParent, At, Goto
  <1>4. Within(x, y) /\ y.at = "put"
    <2>1. "put" \in Places
      BY DEF Places
    <2> QED
      BY <1>2, <2>1 DEF Thread, Within
  <1>5. CallOK(t, y, table)
    <2>1. Chain(y)
      BY <1>1, <1>4, SameChain
    <2> QED
      BY <1>1, <1>3, <1>4, <2>1 DEF CallOK, Within, IdleOK, WriteOK, AccessOK,
         GetattrOK, ProbeOK, MkdircdOK, MknodcdOK, ReadPlaces, MakePlaces, Places
  <1>6. Accounts(x, y)
    BY <1>3, <1>4, WordsSame DEF Within, Counts, Writes, ReadOf
  <1>7. names' \in [1 .. countDirectory -> SUBSET Paths]
    <2>1. names' = [names EXCEPT ![table[Parent[x.path]].meta] = x.copy \cup {x.path}]
      BY <1>1 DEF UpdateParent
    <2>2. /\ x.copy \cup {x.path} \in SUBSET Paths
          /\ names \in [1 .. countDirectory -> SUBSET Paths]
      BY Fields DEF FsInv, FsTypeOK
    <2> QED
      BY <2>1, <2>2
  <1>m. LockMove(x, y)
    BY <1>3, <1>4 DEF LockMove, Quiet, Within, Reads, Writes, ReadOf
  <1> QED
    BY <1>m, <1>1, <1>3, <1>4, <1>5, <1>6, <1>7 DEF Kept, Within

\* A thread takes a request and routes it to its call.
LEMMA StepRequest ==
    ASSUME FsInv, NEW t \in Threads, NEW f \in Files, Open(t, f) \/ UpdateMeta(t, f)
    PROVE  Kept(t)
  <1>1. PICK x \in Thread : x = th[t] /\ CallOK(t, x, table) /\ Chain(x)
    BY ThreadFacts
  <1>2. x.at = "idle" /\ ServedBy[f] = t /\ UNCHANGED <<word, table>>
    BY <1>1 DEF Open, UpdateMeta, At
  <1>3. x.call = "none" /\ x.dirs = <<>> /\ ~ x.again
    <2>1. \/ x.call = "none" /\ x.at = "idle"
          \/ x.call \in ReadCalls /\ x.at \in ReadPlaces
          \/ x.call \in MakeCalls /\ x.at \in MakePlaces
          \/ x.call = "extentMetaWrite"
             /\ x.at \in {"WriteID", "WriteLock", "exists", "WriteUnlock"}
      BY <1>1, CallPlaces, Zenon
    <2>2. x.call = "none"
      BY <1>2, <2>1 DEF ReadPlaces, MakePlaces
    <2> QED
      BY <1>1, <2>2 DEF CallOK, IdleOK
  <1>4. PICK w : w = [x EXCEPT !.file = f]
    OBVIOUS
  <1>5. /\ w \in Thread /\ w.file = f /\ w.dirs = <<>> /\ ~ w.again /\ Chain(w)
    <2>1. w \in Thread /\ w.file = f /\ w.dirs = x.dirs /\ w.again = x.again
      BY <1>4 DEF Thread
    <2> QED
      BY <1>3, <2>1 DEF Chain
  <1>6. ASSUME NEW c \in {"access", "extentMetaWrite"}, NEW y, y = Enter(w, c, f),
               th' = [th EXCEPT ![t] = y]
        PROVE  Kept(t)
    <2>1. f \in Paths
      BY FilePath
    <2>2. /\ y \in Thread /\ Chain(y) /\ y.call = c /\ y.path = f /\ y.file = f
          /\ y.dirs = <<>> /\ ~ y.again /\ Outside(y)
          /\ y.at = IF c = "access" THEN "ReadLock" ELSE "WriteID"
      <3>1. CASE c = "access"
        <4>1. c \in ReadCalls
          BY <3>1, CallNames
        <4> QED
          BY <1>5, <1>6, <2>1, <3>1, <4>1, EnterRead
      <3>2. CASE c = "extentMetaWrite"
        <4>1. c \in MakeCalls \cup {"extentMetaWrite"}
          BY <3>2
        <4> QED
          BY <1>5, <1>6, <2>1, <3>2, <4>1, EnterWrite
      <3> QED
        BY <3>1, <3>2
    <2>3. CallOK(t, y, table)
      BY <1>2, <2>2 DEF CallOK, AccessOK, WriteOK, ReadPlaces
    <2>4. Outside(x)
      BY <1>2, <1>3 DEF Outside, Counts, Reads, Writes, MakeCalls
    <2>5. Accounts(x, y)
      BY <1>2, <2>2, <2>4, WordsSame DEF Outside
    <2>6. LockMove(x, y)
      BY <2>2, <2>4 DEF LockMove, Quiet, Outside
    <2> QED
      BY <1>1, <1>2, <1>6, <2>2, <2>3, <2>5, <2>6 DEF Kept
  <1>7. CASE Open(t, f)
    <2>1. th' = [th EXCEPT ![t] = Enter(w, "access", f)]
      BY <1>1, <1>4, <1>7 DEF Open
    <2> QED
      BY <1>6, <2>1
  <1>8. CASE UpdateMeta(t, f)
    <2>1. th' = [th EXCEPT ![t] = Enter(w, "extentMetaWrite", f)]
      BY <1>1, <1>4, <1>8 DEF UpdateMeta
    <2> QED
      BY <1>6, <2>1
  <1> QED
    BY <1>7, <1>8

\* PutItem creates the path of the call, which was missing, in a directory, or fails.
LEMMA PutFacts ==
    ASSUME FsInv, NEW t \in Threads, PutItem(t)
    PROVE  /\ th[t].at = "put" /\ th[t].call \in MakeCalls
           /\ ~ Held(table, th[t].path) /\ Held(table, Parent[th[t].path])
           /\ th[t].call = "mkdircd" => th[t].path \in {Root} \cup Dirs
           /\ th[t].call = "mknodcd" => th[t].path = th[t].file
           /\ table' \in [Paths -> Item] /\ nmeta' \in [BOOLEAN -> Nat]
           /\ names' \in [1 .. countDirectory -> SUBSET Paths]
           /\ \A q \in Paths : q # th[t].path => table'[q] = table[q]
           /\ \A q \in Paths : q # th[t].path => (Held(table', q) <=> Held(table, q))
           /\ \E done \in BOOLEAN :
                /\ th' = [th EXCEPT ![t].ok = done, ![t].failed = @ \/ ~ done,
                                    ![t].at = "WriteUnlock"]
                /\ done <=> Held(table', th[t].path)
                /\ done => table'[th[t].path].dir = (th[t].call = "mkdircd")
  <1>1. PICK x \in Thread : x = th[t] /\ CallOK(t, x, table) /\ Chain(x)
    BY ThreadFacts
  <1>2. x.at = "put"
    BY <1>1 DEF PutItem, At
  <1>3. x.call \in MakeCalls
    <2>1. \/ x.call = "none" /\ x.at = "idle"
          \/ x.call \in ReadCalls /\ x.at \in ReadPlaces
          \/ x.call \in MakeCalls /\ x.at \in MakePlaces
          \/ x.call = "extentMetaWrite"
             /\ x.at \in {"WriteID", "WriteLock", "exists", "WriteUnlock"}
      BY <1>1, CallPlaces, Zenon
    <2> QED
      BY <1>2, <2>1 DEF ReadPlaces
  <1>4. /\ ~ Held(table, x.path) /\ Held(table, Parent[x.path])
        /\ x.call = "mkdircd" => x.path \in {Root} \cup Dirs
        /\ x.call = "mknodcd" => x.path = x.file
    <2>1. CASE x.call = "mkdircd"
      <3>1. MkdircdOK(x, table)
        BY <1>1, <2>1 DEF CallOK
      <3> QED
        BY <1>2, <2>1, <3>1, FirstDir DEF MkdircdOK
    <2>2. CASE x.call = "mknodcd"
      BY <1>1, <1>2, <2>2 DEF CallOK, MknodcdOK
    <2> QED
      BY <1>3, <2>1, <2>2 DEF MakeCalls
  <1>5. PICK p \in Paths : p = x.path
    BY <1>1, ThreadFacts
  <1>6. PICK isdir \in BOOLEAN : isdir = (x.call = "mkdircd")
    OBVIOUS
  <1>7. PICK m \in Creates(isdir), done \in BOOLEAN :
            /\ done = (m # 0 /\ (Exists(p) \/ ~ Full))
            /\ names' = IF isdir /\ m # 0 THEN [names EXCEPT ![m] = {}] ELSE names
            /\ table' = IF done THEN [table EXCEPT ![p] = [meta |-> m, dir |-> isdir]]
                        ELSE table
            /\ th' = [th EXCEPT ![t].ok = done, ![t].failed = @ \/ ~ done,
                                ![t].at = "WriteUnlock"]
    BY <1>1, <1>5, <1>6, Zenon DEF PutItem
  <1>8. /\ nmeta \in [BOOLEAN -> Nat] /\ table \in [Paths -> Item]
        /\ names \in [1 .. countDirectory -> SUBSET Paths]
    BY DEF FsInv, FsTypeOK
  <1>9. m \in 0 .. Count(isdir)
    <2>1. nmeta[isdir] \in Nat /\ Count(isdir) \in Nat
      BY <1>8, CountAssumption DEF Count
    <2> QED
      BY <2>1 DEF Creates
  <1>10. nmeta' \in [BOOLEAN -> Nat]
    <2>1. nmeta' = [nmeta EXCEPT ![isdir] = IF @ > Count(isdir) THEN @ ELSE @ + 1]
      BY <1>1, <1>6 DEF PutItem
    <2> QED
      BY <1>8, <2>1
  <1>11. names' \in [1 .. countDirectory -> SUBSET Paths]
    BY <1>7, <1>8
  <1>12. done => m # 0 /\ [meta |-> m, dir |-> isdir] \in Item
    <2>1. done => m # 0
      BY <1>7
    <2>2. CASE isdir
      <3>1. isdir = TRUE
        BY <2>2
      <3>2. m # 0 => m \in 1 .. countDirectory
        BY <1>9, <3>1, CountAssumption DEF Count
      <3> QED
        BY <2>1, <3>1, <3>2 DEF Item
    <2>3. CASE ~ isdir
      <3>1. isdir = FALSE
        BY <2>3
      <3>2. m \in 0 .. countFile
        BY <1>9, <3>1 DEF Count
      <3> QED
        BY <2>1, <3>1, <3>2 DEF Item
    <2> QED
      BY <2>2, <2>3
  <1>13. /\ table' \in [Paths -> Item]
         /\ \A q \in Paths : q # p => table'[q] = table[q]
         /\ done => table'[p].meta = m /\ table'[p].dir = isdir
         /\ ~ done => table'[p] = table[p]
    BY <1>7, <1>8, <1>12
  <1>14. done <=> Held(table', p)
    BY <1>4, <1>5, <1>12, <1>13 DEF Held
  <1>15. \A q \in Paths : q # p => (Held(table', q) <=> Held(table, q))
    BY <1>13 DEF Held
  <1>16. /\ th' = [th EXCEPT ![t].ok = done, ![t].failed = @ \/ ~ done,
                             ![t].at = "WriteUnlock"]
         /\ done <=> Held(table', th[t].path)
         /\ done => table'[th[t].path].dir = (th[t].call = "mkdircd")
    BY <1>1, <1>5, <1>6, <1>7, <1>13, <1>14
  <1> QED
    BY <1>1, <1>2, <1>3, <1>4, <1>5, <1>10, <1>11, <1>13, <1>15, <1>16

\* The call knows whether its item has been put.
LEMMA StepPutItem ==
    ASSUME FsInv, NEW t \in Threads, PutItem(t)
    PROVE  Kept(t)
  <1>1. PICK x \in Thread : x = th[t] /\ CallOK(t, x, table) /\ Chain(x)
    BY ThreadFacts
  <1>d. PICK done \in BOOLEAN :
            /\ th' = [th EXCEPT ![t].ok = done, ![t].failed = @ \/ ~ done,
                                ![t].at = "WriteUnlock"]
            /\ done <=> Held(table', x.path)
    BY <1>1, PutFacts
  <1>2. PICK y : y = [x EXCEPT !.ok = done, !.failed = @ \/ ~ done, !.at = "WriteUnlock"]
    OBVIOUS
  <1>3. x.at = "put" /\ th' = [th EXCEPT ![t] = y] /\ word' = word
    <2>1. x.at = "put" /\ word' = word
      BY <1>1, Zenon DEF PutItem, At
    <2>2. PICK b : b = (th[t].failed \/ ~ done)
      OBVIOUS
    <2>3. th' = [th EXCEPT ![t].ok = done, ![t].failed = b, ![t].at = "WriteUnlock"]
      BY <1>d, <2>2, Zenon
    <2>4. y = [th[t] EXCEPT !.ok = done, !.failed = b, !.at = "WriteUnlock"]
      BY <1>1, <1>2, <2>2, Zenon
    <2> QED
      BY <2>1, <2>3, <2>4
  <1>4. /\ Within(x, y) /\ y.at = "WriteUnlock" /\ y.ok = done
        /\ y.failed = (x.failed \/ ~ done)
    <2>1. "WriteUnlock" \in Places /\ x.failed \in BOOLEAN /\ (x.failed \/ ~ done) \in BOOLEAN
      BY Fields DEF Places
    <2> QED
      BY <1>2, <2>1 DEF Thread, Within
  <1>5. /\ x.file \in Files /\ x.file \in Paths /\ x.path \in Paths
        /\ Parent[x.path] \in Paths
    BY Fields, FilePath, ParentPath
  <1>6. /\ x.call \in MakeCalls /\ Held(table, Parent[x.path]) /\ ~ Held(table, x.path)
        /\ x.call = "mkdircd" => x.path \in {Root} \cup Dirs
        /\ x.call = "mknodcd" => x.path = x.file
        /\ \A q \in Paths : q # x.path => (Held(table', q) <=> Held(table, q))
    BY <1>1, PutFacts
  <1>7. CallOK(t, y, table')
    <2>1. Chain(y)
      BY <1>1, <1>4, SameChain
    <2>2. x.call = "mkdircd" => MkdircdOK(y, table')
      BY <1>1, <1>d, <1>4, <1>5, <1>6, FilePath
         DEF CallOK, Within, MkdircdOK, MakePlaces, Places
    <2>3. x.call = "mknodcd" => MknodcdOK(y, table')
      BY <1>1, <1>d, <1>3, <1>4, <1>5, <1>6
         DEF CallOK, Within, MknodcdOK, MakePlaces, Places
    <2> QED
      BY <1>1, <1>4, <1>6, <2>1, <2>2, <2>3 DEF CallOK, Within, MakeCalls
  <1>8. Accounts(x, y)
    BY <1>3, <1>4, WordsSame DEF Within, Counts, Writes, ReadOf
  <1>m. LockMove(x, y)
    BY <1>3, <1>4 DEF LockMove, Quiet, Within, Reads, Writes, ReadOf
  <1> QED
    BY <1>m, <1>1, <1>3, <1>4, <1>7, <1>8 DEF Kept, Within

\* What the other threads know stays true when t creates a path, or fails to: t alone creates
\* its file, and holds the write lock of its directory.
LEMMA PutOthers ==
    ASSUME FsInv, NEW t \in Threads, PutItem(t), NEW u \in Threads, u # t
    PROVE  CallOK(u, th[u], table')
  <1>1. PICK x \in Thread : x = th[t] /\ CallOK(t, x, table) /\ Chain(x)
    BY ThreadFacts
  <1>2. PICK z \in Thread : z = th[u] /\ CallOK(u, z, table) /\ Chain(z)
    BY ThreadFacts
  <1>3. /\ z.file \in Files /\ z.file \in Paths /\ z.path \in Paths /\ x.file \in Files
        /\ Parent[z.path] \in Paths /\ Parent[z.file] \in Paths /\ x.path \in Paths
    BY Fields, FilePath, ParentPath
  <1>4. /\ x.call \in MakeCalls /\ x.at = "put"
        /\ x.call = "mkdircd" => x.path \in {Root} \cup Dirs
        /\ x.call = "mknodcd" => x.path = x.file
        /\ \A q \in Paths : q # x.path => (Held(table', q) <=> Held(table, q))
        /\ ~ Held(table, x.path)
    BY <1>1, PutFacts
  <1>5. z.call # "none" => z.file # x.path
    <2>1. CASE x.call = "mkdircd"
      BY <1>3, <1>4, <2>1, FilePath
    <2>2. CASE x.call = "mknodcd"
      BY <1>1, <1>2, <1>4, <2>2 DEF CallOK
    <2> QED
      BY <1>4, <2>1, <2>2 DEF MakeCalls
  <1>6. z.call = "mkdircd" /\ z.at \in {"update", "put"} => z.path # x.path
    <2> SUFFICES ASSUME z.call = "mkdircd", z.at \in {"update", "put"}, z.path = x.path
                 PROVE  FALSE
      OBVIOUS
    <2>1. PICK a \in Addresses : a = Addr[x.path]
      BY <1>3, ParentPath
    <2>2. Writes(x, a) /\ Writes(z, a)
      BY <1>4, <2>1 DEF Writes, MakeCalls
    <2>3. t \in WritersAt(a) /\ u \in WritersAt(a)
      BY <1>1, <1>2, <2>2 DEF WritersAt
    <2> QED
      BY <2>3 DEF FsInv, LockInv
  <1>7. CallOK(u, z, table')
    <2>1. z.call = "access" => AccessOK(z, table')
      BY <1>2, <1>3, <1>4, <1>5 DEF CallOK, AccessOK
    <2>2. z.call = "getattr" => GetattrOK(z, table')
      BY <1>2, <1>3, <1>4 DEF CallOK, GetattrOK
    <2>3. z.call = "probe" => ProbeOK(z, table')
      BY <1>2, <1>3, <1>4, <1>5 DEF CallOK, ProbeOK
    <2>4. z.call = "mkdircd" => MkdircdOK(z, table')
      BY <1>2, <1>3, <1>4, <1>5, <1>6 DEF CallOK, MkdircdOK
    <2>5. z.call = "mknodcd" => MknodcdOK(z, table')
      BY <1>2, <1>3, <1>4, <1>5 DEF CallOK, MknodcdOK
    <2> QED
      BY <1>2, <2>1, <2>2, <2>3, <2>4, <2>5 DEF CallOK
  <1> QED
    BY <1>2, <1>7

-----------------------------------------------------------------------------
(* The invariant. *)

\* The initial states.
LEMMA FsInit == Init => FsInv
  <1> SUFFICES ASSUME Init PROVE FsInv
    OBVIOUS
  <1>1. PICK x : x = [call |-> "none", at |-> "idle", path |-> Root, id |-> 0,
                      file |-> CHOOSE f \in Files : TRUE, dirs |-> <<>>,
                      again |-> FALSE, ok |-> FALSE, failed |-> FALSE, copy |-> {}]
    OBVIOUS
  <1>2. x \in Thread /\ x.call = "none" /\ x.at = "idle" /\ x.dirs = <<>> /\ ~ x.again
    <2>1. (CHOOSE f \in Files : TRUE) \in Files
      BY PathAssumption
    <2>2. /\ "none" \in Calls /\ "idle" \in Places /\ Root \in Paths
          /\ 0 \in 0 .. IdSpace - 1 /\ <<>> \in Seq({Root} \cup Dirs)
      BY LockAssumption DEF Calls, Places, Paths
    <2> QED
      BY <1>1, <2>1, <2>2 DEF Thread
  <1>3. th = [t \in Threads |-> x]
    BY <1>1 DEF Init
  <1>4. FsTypeOK
    <2>1. word = [a \in Addresses |-> [hi |-> 0, lo |-> 0]] /\ WriteID \in 0 .. IdSpace - 1
      BY DEF Init, LockInit
    <2>2. 0 \in 0 .. (NodeID + 1) * IdSpace - 1
      <3>1. 0 \in 0 .. IdSpace - 1
        BY LockAssumption
      <3>2. PICK k : k = Key(0)
        OBVIOUS
      <3>3. PICK m : m = (NodeID + 1) * IdSpace - 1
        OBVIOUS
      <3>4. k \in 0 .. m
        BY <3>1, <3>2, <3>3, KeyType
      <3>5. m \in Int
        BY <3>3, LockAssumption
      <3> QED
        BY <3>3, <3>4, <3>5
    <2>3. word \in [Addresses -> [hi : 0 .. (NodeID + 1) * IdSpace - 1, lo : Nat]]
      BY <2>1, <2>2
    <2>4. table \in [Paths -> Item] /\ nmeta \in [BOOLEAN -> Nat]
      BY CountAssumption DEF Init, Item, Absent
    <2>5. names \in [1 .. countDirectory -> SUBSET Paths]
      BY DEF Init
    <2>6. th \in [Threads -> Thread]
      BY <1>2, <1>3
    <2> QED
      BY <2>1, <2>3, <2>4, <2>5, <2>6 DEF FsTypeOK
  <1>5. LockInv
    <2> SUFFICES ASSUME NEW a \in Addresses
                 PROVE  /\ word[a].lo = Cardinality(CountedAt(a))
                        /\ word[a].hi = 0 <=> WritersAt(a) = {}
                        /\ \A t, u \in WritersAt(a) : t = u
      BY DEF LockInv
    <2>1. CountedAt(a) = {} /\ WritersAt(a) = {}
      BY <1>2, <1>3 DEF CountedAt, WritersAt, Counts, Writes, MakeCalls
    <2>2. word[a].hi = 0 /\ word[a].lo = 0
      BY DEF Init, LockInit
    <2> QED
      BY <2>1, <2>2, FS_EmptySet
  <1>6. CallsInv
    BY <1>2, <1>3 DEF CallsInv, CallOK, Chain, IdleOK
  <1>7. TableInv
    <2>1. \A p \in Paths : table[p] = IF p = Root THEN [meta |-> 1, dir |-> TRUE] ELSE Absent
      BY DEF Init
    <2>2. Root \in Paths /\ {Root} \cup Dirs \subseteq Paths /\ Parent[Root] = Root
      BY PathAssumption DEF Paths
    <2>3. \A p \in Paths : Held(table, p) <=> p = Root
      BY <2>1 DEF Held, Absent
    <2>4. table[Root].dir
      BY <2>1, <2>2
    <2> QED
      BY <2>2, <2>3, <2>4 DEF TableInv, ParentExists, Exists, Held
  <1> QED
    BY <1>4, <1>5, <1>6, <1>7 DEF FsInv

\* What every step of thread t does.
LEMMA FsStep ==
    ASSUME FsInv, NEW t \in Threads,
           Step(t) \/ \E f \in Files : Open(t, f) \/ UpdateMeta(t, f)
    PROVE  /\ Kept(t) /\ WordType' /\ WriteID' \in 0 .. IdSpace - 1
           /\ names' \in [1 .. countDirectory -> SUBSET Paths]
           /\ PutItem(t) \/ UNCHANGED <<table, nmeta>>
  <1>t. /\ WordType /\ WriteID \in 0 .. IdSpace - 1
        /\ names \in [1 .. countDirectory -> SUBSET Paths]
    BY DEF FsInv, FsTypeOK, WordType
  <1>w. word' = word => WordType'
    BY <1>t DEF WordType
  <1>1. CASE TakeWriteID(t)
    <2>1. WriteID' \in 0 .. IdSpace - 1
      BY <1>t, <1>1, LockAssumption DEF TakeWriteID, NextWriteID
    <2> QED
      BY <1>t, <1>w, <1>1, <2>1, StepTakeWriteID DEF TakeWriteID
  <1>2. CASE LockWrite(t)
    BY <1>t, <1>2, StepLockWrite DEF LockWrite
  <1>3. CASE UnlockWrite(t)
    BY <1>t, <1>3, StepUnlockWrite DEF UnlockWrite
  <1>4. CASE LockRead(t)
    BY <1>t, <1>4, StepLockRead DEF LockRead
  <1>5. CASE Spin(t)
    BY <1>t, <1>w, <1>5, StepSpin DEF Spin
  <1>6. CASE Get(t)
    BY <1>t, <1>w, <1>6, StepGet DEF Get
  <1>7. CASE UnlockRead(t)
    BY <1>t, <1>7, StepUnlockRead DEF UnlockRead
  <1>8. CASE CheckExists(t)
    BY <1>t, <1>w, <1>8, StepCheckExists DEF CheckExists
  <1>9. CASE UpdateParent(t)
    BY <1>t, <1>w, <1>9, StepUpdateParent DEF UpdateParent
  <1>10. CASE PutItem(t)
    BY <1>t, <1>w, <1>10, StepPutItem, PutFacts DEF PutItem
  <1>11. CASE \E f \in Files : Open(t, f) \/ UpdateMeta(t, f)
    BY <1>t, <1>w, <1>11, StepRequest DEF Open, UpdateMeta
  <1> QED
    BY <1>1, <1>2, <1>3, <1>4, <1>5, <1>6, <1>7, <1>8, <1>9, <1>10, <1>11 DEF Step

\* A path that is created lies in a directory, and none is created over another.
LEMMA PutTable ==
    ASSUME FsInv, NEW t \in Threads, PutItem(t)
    PROVE  TableInv' /\ \A p \in Paths : Exists(p) => table'[p] = table[p]
  <1>1. PICK p \in Paths : p = th[t].path
    BY ThreadFacts
  <1>2. /\ ~ Held(table, p) /\ Held(table, Parent[p]) /\ th[t].call \in MakeCalls
        /\ th[t].call = "mknodcd" => p \in Files
        /\ \A q \in Paths : q # p => table'[q] = table[q]
        /\ \A q \in Paths : q # p => (Held(table', q) <=> Held(table, q))
        /\ Held(table', p) => table'[p].dir = (th[t].call = "mkdircd")
    BY <1>1, PutFacts, ThreadFacts
  <1>3. /\ Held(table, Root)
        /\ \A q \in {Root} \cup Dirs : Held(table, q) => table[q].dir
        /\ \A q \in Paths : Held(table, q) => Held(table, Parent[q]) /\ table[Parent[q]].dir
    BY DEF FsInv, TableInv, ParentExists, Exists, Held
  <1>4. \A q \in Paths : Held(table, q) => table'[q] = table[q]
    BY <1>2
  <1>5. p \in {Root} \cup Dirs /\ Held(table', p) => table'[p].dir
    BY <1>2, FilePath DEF MakeCalls
  <1>6. Root \in Paths /\ {Root} \cup Dirs \subseteq Paths
    BY DEF Paths
  <1>7. \A q \in {Root} \cup Dirs : Held(table', q) => table'[q].dir
    BY <1>2, <1>3, <1>4, <1>5, <1>6
  <1>8. ASSUME NEW q \in Paths, Held(table', q)
        PROVE  Held(table', Parent[q]) /\ table'[Parent[q]].dir
    <2>1. Parent[q] \in {Root} \cup Dirs /\ Parent[q] \in Paths
      BY ParentPath
    <2>2. Held(table, Parent[q])
      BY <1>2, <1>3, <1>8
    <2> QED
      BY <1>2, <1>7, <2>1, <2>2
  <1>9. Held(table', Root)
    BY <1>2, <1>3, <1>6
  <1> QED
    BY <1>4, <1>7, <1>8, <1>9 DEF TableInv, ParentExists, Exists, Held

\* The invariant is inductive.
LEMMA FsNext == FsInv /\ [Next]_vars => FsInv'
  <1> SUFFICES ASSUME FsInv, [Next]_vars PROVE FsInv'
    OBVIOUS
  <1>1. CASE UNCHANGED vars
    <2>1. UNCHANGED <<word, WriteID, table, names, nmeta, th>>
      BY <1>1 DEF vars
    <2>2. FsTypeOK'
      BY <2>1 DEF FsInv, FsTypeOK
    <2>3. LockInv'
      BY <2>1 DEF FsInv, LockInv, CountedAt, WritersAt
    <2>4. CallsInv'
      BY <2>1 DEF FsInv, CallsInv
    <2>5. TableInv'
      BY <2>1 DEF FsInv, TableInv, ParentExists, Exists
    <2> QED
      BY <2>2, <2>3, <2>4, <2>5 DEF FsInv
  <1>2. ASSUME NEW t \in Threads, Step(t) \/ \E f \in Files : Open(t, f) \/ UpdateMeta(t, f)
        PROVE  FsInv'
    <2>1. /\ Kept(t) /\ WordType' /\ WriteID' \in 0 .. IdSpace - 1
          /\ names' \in [1 .. countDirectory -> SUBSET Paths]
          /\ PutItem(t) \/ UNCHANGED <<table, nmeta>>
      BY <1>2, FsStep
    <2>2. PICK y \in Thread : /\ th' = [th EXCEPT ![t] = y]
                              /\ CallOK(t, y, table') /\ Accounts(th[t], y)
      BY <2>1 DEF Kept
    <2>3. /\ th \in [Threads -> Thread] /\ LockInv /\ table \in [Paths -> Item]
          /\ nmeta \in [BOOLEAN -> Nat]
      BY DEF FsInv, FsTypeOK
    <2>4. /\ th' \in [Threads -> Thread] /\ th'[t] = y
          /\ \A u \in Threads : u # t => th'[u] = th[u]
      BY <2>2, <2>3, Moved
    <2>5. FsTypeOK'
      <3>1. table' \in [Paths -> Item] /\ nmeta' \in [BOOLEAN -> Nat]
        BY <2>1, <2>3, PutFacts
      <3> QED
        BY <2>1, <2>4, <3>1 DEF FsTypeOK, WordType
    <2>6. LockInv'
      BY <2>2, <2>3, LockStep
    <2>7. CallsInv'
      <3> SUFFICES ASSUME NEW u \in Threads PROVE CallOK(u, th'[u], table')
        BY DEF CallsInv
      <3>1. CASE u = t
        BY <2>2, <2>4, <3>1
      <3>2. CASE u # t /\ PutItem(t)
        BY <2>4, <3>2, PutOthers
      <3>3. CASE u # t /\ UNCHANGED <<table, nmeta>>
        BY <2>4, <3>3, ThreadFacts
      <3> QED
        BY <2>1, <3>1, <3>2, <3>3
    <2>8. TableInv'
      <3>1. CASE PutItem(t)
        BY <3>1, PutTable
      <3>2. CASE UNCHANGED <<table, nmeta>>
        BY <3>2 DEF FsInv, TableInv, ParentExists, Exists
      <3> QED
        BY <2>1, <3>1, <3>2
    <2> QED
      BY <2>5, <2>6, <2>7, <2>8 DEF FsInv
  <1> QED
    BY <1>1, <1>2 DEF Next

\* Every reachable state satisfies the invariant.
LEMMA FsInvariant == Spec => []FsInv
  BY FsInit, FsNext, PTL DEF Spec

(***************************************************************************)
(* FsTypeCorrect: the types of the server's state; in particular no record *)
(* outside the meta tables is ever put or copied, and the count of readers *)
(* never goes below zero, which would change the key above it.             *)
(***************************************************************************)
THEOREM FsTypeCorrect == Spec => []FsTypeOK
  <1>1. FsInv => FsTypeOK
    BY DEF FsInv
  <1> QED
    BY <1>1, FsInvariant, PTL

(***************************************************************************)
(* FsParents: every path in the hash table lies in a directory of the      *)
(* table, for any number of threads, any tree and any size of the tables,  *)
(* although the threads look for a directory and create what is below it   *)
(* at different times, and go on when a directory could not be made.       *)
(***************************************************************************)
THEOREM FsParents == Spec => []ParentExists
  <1>1. FsInv => ParentExists
    BY DEF FsInv, TableInv
  <1> QED
    BY <1>1, FsInvariant, PTL

(***************************************************************************)
(* FsOpens: when an open request reads the attributes of its file for the  *)
(* reply, the file is there, or a create or put of this request has failed *)
(* for lack of space.                                                      *)
(***************************************************************************)
THEOREM FsOpens == Spec => []OpenFinds
  <1>1. FsInv => OpenFinds
    BY DEF FsInv, CallsInv, CallOK, GetattrOK, OpenFinds, Exists, Held
  <1> QED
    BY <1>1, FsInvariant, PTL

(***************************************************************************)
(* FsCreatesOnce: no record of the hash table is ever replaced: two        *)
(* threads that find the same directory missing do not both put it.        *)
(***************************************************************************)
THEOREM FsCreatesOnce == Spec => CreatedOnce
  <1>1. FsInv /\ [Next]_vars => [\A p \in Paths : Exists(p) => table'[p] = table[p]]_vars
    <2> SUFFICES ASSUME FsInv, Next
                 PROVE  \A p \in Paths : Exists(p) => table'[p] = table[p]
      OBVIOUS
    <2>1. PICK t \in Threads : Step(t) \/ \E f \in Files : Open(t, f) \/ UpdateMeta(t, f)
      BY DEF Next
    <2>2. PutItem(t) \/ UNCHANGED <<table, nmeta>>
      BY <2>1, FsStep
    <2> QED
      BY <2>2, PutTable
  <1> QED
    BY <1>1, FsInvariant, PTL DEF Spec, CreatedOnce

-----------------------------------------------------------------------------
(* The lock words implement reader-writer locks. *)

\* The variables of RWLock, as FsNamespace maps them.
writersBar ==
    [a \in Addresses |-> { t \in Threads : HoldsWrite(t) /\ Addr[th[t].path] = a }]
readersBar ==
    [a \in Addresses |-> { t \in Threads : HoldsRead(t) /\ Addr[ReadPath(t)] = a }]

\* They are the threads inside the locks.
LEMMA Bars ==
    /\ writersBar = [a \in Addresses |-> WritersAt(a)]
    /\ readersBar = [a \in Addresses |-> ReadersAt(a)]
  <1>1. \A a \in Addresses :
            WritersAt(a) = { t \in Threads : HoldsWrite(t) /\ Addr[th[t].path] = a }
    BY DEF WritersAt, Writes, HoldsWrite
  <1>2. \A a \in Addresses :
            ReadersAt(a) = { t \in Threads : HoldsRead(t) /\ Addr[ReadPath(t)] = a }
    BY DEF ReadersAt, Reads, HoldsRead, ReadOf, ReadPath
  <1> QED
    BY <1>1, <1>2 DEF writersBar, readersBar

\* The same for the next state.
LEMMA BarsNext ==
    /\ writersBar' = [a \in Addresses |-> WritersAt(a)']
    /\ readersBar' = [a \in Addresses |-> ReadersAt(a)']
  <1>1. \A a \in Addresses :
            WritersAt(a)' = { t \in Threads : HoldsWrite(t)' /\ Addr[th'[t].path] = a }
    BY DEF WritersAt, Writes, HoldsWrite
  <1>2. \A a \in Addresses :
            ReadersAt(a)' = { t \in Threads : HoldsRead(t)' /\ Addr[ReadPath(t)'] = a }
    BY DEF ReadersAt, Reads, HoldsRead, ReadOf, ReadPath
  <1> QED
    BY <1>1, <1>2 DEF writersBar, readersBar

\* A step of a thread is a step of the lock it enters or leaves.
LEMMA LockRefines ==
    ASSUME FsInv, NEW t \in Threads, Kept(t)
    PROVE  L!Next \/ UNCHANGED <<writersBar, readersBar>>
  <1>1. PICK y \in Thread : th' = [th EXCEPT ![t] = y] /\ LockMove(th[t], y)
    BY DEF Kept
  <1>2. \A a \in Addresses :
            /\ ReadersAt(a)' = IF Reads(y, a) THEN ReadersAt(a) \cup {t} ELSE ReadersAt(a) \ {t}
            /\ WritersAt(a)' = IF Writes(y, a) THEN WritersAt(a) \cup {t} ELSE WritersAt(a) \ {t}
    <2>1. th \in [Threads -> Thread]
      BY DEF FsInv, FsTypeOK
    <2> QED
      BY <1>1, <2>1, Moved
  <1>3. \A a \in Addresses : /\ t \in ReadersAt(a) <=> Reads(th[t], a)
                             /\ t \in WritersAt(a) <=> Writes(th[t], a)
    BY DEF ReadersAt, WritersAt
  <1>s. ASSUME NEW a \in Addresses
        PROVE  /\ (Reads(y, a) <=> Reads(th[t], a)) => ReadersAt(a)' = ReadersAt(a)
               /\ (Writes(y, a) <=> Writes(th[t], a)) => WritersAt(a)' = WritersAt(a)
    BY <1>2, <1>3
  <1>4. ASSUME Quiet(th[t], y)
        PROVE  UNCHANGED <<writersBar, readersBar>>
    <2>1. \A a \in Addresses : ReadersAt(a)' = ReadersAt(a) /\ WritersAt(a)' = WritersAt(a)
      BY <1>s, <1>4 DEF Quiet
    <2> QED
      BY <2>1, Bars, BarsNext
  <1>5. ASSUME NEW b \in Addresses, EntersWrite(th[t], y, b)
        PROVE  L!BeginWrite(t, b)
    <2>1. WritersAt(b) = {} /\ ReadersAt(b) = {}
      <3>1. WritersAt(b) = {} /\ Cardinality(CountedAt(b)) = 0
        BY <1>5 DEF FsInv, LockInv, EntersWrite
      <3>2. CountedAt(b) = {}
        BY <3>1, CountedFinite, FS_EmptySet
      <3>3. ReadersAt(b) \subseteq CountedAt(b)
        BY DEF ReadersAt, CountedAt, Reads, Counts
      <3> QED
        BY <3>1, <3>2, <3>3
    <2>2. /\ \A a \in Addresses : ReadersAt(a)' = ReadersAt(a)
          /\ \A a \in Addresses : a # b => WritersAt(a)' = WritersAt(a)
          /\ WritersAt(b)' = {t}
      BY <1>s, <1>2, <1>5, <2>1 DEF EntersWrite
    <2>3. /\ writersBar[b] = {} /\ readersBar[b] = {} /\ readersBar' = readersBar
          /\ writersBar' = [writersBar EXCEPT ![b] = {t}]
      BY <2>1, <2>2, Bars, BarsNext
    <2> QED
      BY <2>3 DEF L!BeginWrite, writersBar, readersBar
  <1>6. ASSUME NEW b \in Addresses, LeavesWrite(th[t], y, b)
        PROVE  L!EndWrite(t, b)
    <2>1. t \in WritersAt(b) /\ WritersAt(b) = {t}
      BY <1>3, <1>6 DEF FsInv, LockInv, LeavesWrite
    <2>2. /\ \A a \in Addresses : ReadersAt(a)' = ReadersAt(a)
          /\ \A a \in Addresses : a # b => WritersAt(a)' = WritersAt(a)
          /\ WritersAt(b)' = {}
      BY <1>s, <1>2, <1>6, <2>1 DEF LeavesWrite
    <2>3. /\ t \in writersBar[b] /\ readersBar' = readersBar
          /\ writersBar' = [writersBar EXCEPT ![b] = {}]
      BY <2>1, <2>2, Bars, BarsNext
    <2> QED
      BY <2>3 DEF L!EndWrite, writersBar, readersBar
  <1>7. ASSUME NEW b \in Addresses, EntersRead(th[t], y, b)
        PROVE  L!BeginRead(t, b)
    <2>1. WritersAt(b) = {}
      BY <1>7 DEF FsInv, LockInv, EntersRead
    <2>2. /\ \A a \in Addresses : WritersAt(a)' = WritersAt(a)
          /\ \A a \in Addresses : a # b => ReadersAt(a)' = ReadersAt(a)
          /\ ReadersAt(b)' = ReadersAt(b) \cup {t}
      BY <1>s, <1>2, <1>7 DEF EntersRead
    <2>3. /\ writersBar[b] = {} /\ writersBar' = writersBar
          /\ readersBar' = [readersBar EXCEPT ![b] = @ \cup {t}]
      BY <2>1, <2>2, Bars, BarsNext
    <2> QED
      BY <2>3 DEF L!BeginRead, writersBar, readersBar
  <1>8. ASSUME NEW b \in Addresses, LeavesRead(th[t], y, b)
        PROVE  L!EndRead(t, b)
    <2>1. t \in ReadersAt(b)
      BY <1>3, <1>8 DEF LeavesRead
    <2>2. /\ \A a \in Addresses : WritersAt(a)' = WritersAt(a)
          /\ \A a \in Addresses : a # b => ReadersAt(a)' = ReadersAt(a)
          /\ ReadersAt(b)' = ReadersAt(b) \ {t}
      BY <1>s, <1>2, <1>8 DEF LeavesRead
    <2>3. /\ t \in readersBar[b] /\ writersBar' = writersBar
          /\ readersBar' = [readersBar EXCEPT ![b] = @ \ {t}]
      BY <2>1, <2>2, Bars, BarsNext
    <2> QED
      BY <2>3 DEF L!EndRead, writersBar, readersBar
  <1> QED
    BY <1>1, <1>4, <1>5, <1>6, <1>7, <1>8 DEF LockMove, L!Next

(***************************************************************************)
(* FsLocks: for any number of threads, addresses and paths that share a    *)
(* lock word, and however often the IDs of writers repeat, LockService is  *)
(* a reader-writer lock at every address.                                  *)
(***************************************************************************)
THEOREM FsLocks == Spec => ImplementsRWLock
  <1>1. Init => L!Init
    <2> SUFFICES ASSUME Init PROVE L!Init
      OBVIOUS
    <2>1. \A t \in Threads : th[t].call = "none" /\ th[t].at = "idle"
      BY DEF Init
    <2>2. /\ writersBar = [a \in Addresses |-> {}] /\ readersBar = [a \in Addresses |-> {}]
      BY <2>1 DEF writersBar, readersBar, HoldsWrite, HoldsRead, MakeCalls
    <2> QED
      BY <2>2 DEF L!Init, writersBar, readersBar
  <1>2. FsInv /\ [Next]_vars => [L!Next]_<<writersBar, readersBar>>
    <2> SUFFICES ASSUME FsInv, [Next]_vars
                 PROVE  L!Next \/ UNCHANGED <<writersBar, readersBar>>
      OBVIOUS
    <2>1. CASE UNCHANGED vars
      BY <2>1 DEF vars, writersBar, readersBar, HoldsWrite, HoldsRead, ReadPath
    <2>2. ASSUME NEW t \in Threads, Step(t) \/ \E f \in Files : Open(t, f) \/ UpdateMeta(t, f)
          PROVE  L!Next \/ UNCHANGED <<writersBar, readersBar>>
      BY <2>2, FsStep, LockRefines
    <2> QED
      BY <2>1, <2>2 DEF Next
  <1> QED
    BY <1>1, <1>2, FsInvariant, PTL DEF Spec, ImplementsRWLock, L!Spec, writersBar, readersBar
=============================================================================
