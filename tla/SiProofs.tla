------------------------------ MODULE SiProofs ------------------------------
(***************************************************************************)
(* Theorems about SecondaryIndex: a read returns only keys that had the    *)
(* value while it ran and, when its scan was not cut off, all that could   *)
(* be found from its beginning; a settled record is missing from the index *)
(* only for the reasons Indexed names.                                     *)
(***************************************************************************)
EXTENDS SecondaryIndex, FiniteSetTheorems, TLAPS

-----------------------------------------------------------------------------
(* The invariant of calls, polls and reads. *)

WriteOps == {"AppendReq", "AppendReply", "UpdateIndexReq", "UpdateIndexReply"}
ReadOps == {"ReadIndexReq", "ReadIndexReply", "ReadLog", "ReadReply"}

\* The opcodes of a write whose record is put and not yet indexed.
PendingOps == {"AppendReply", "UpdateIndexReq"}

\* A record of the primary has a value, and one that is not there has none.
Stored == \A p \in PKeys : pindex[p].value = 0 => pindex[p] = Absent

\* The packet of a coroutine belongs to the call the coroutine is in.
CallSent ==
    \A c \in Coros :
        /\ ctx[c].call = "idle" => net[c].op = "none"
        /\ net[c].op \in WriteOps => ctx[c].call = "SW"
        /\ net[c].op \in ReadOps => ctx[c].call = "SRS"
        /\ net[c].op \in {"AppendReq", "UpdateIndexReq"} =>
             net[c].pkey = ctx[c].pkey /\ net[c].skey = ctx[c].skey
        /\ net[c].op \in {"ReadIndexReq", "ReadLog"} => net[c].skey = ctx[c].skey

\* A data thread holds only packets that go to it; the one it is serving is not
\* among those it has still to serve.
Served ==
    \A d \in DThreads :
        /\ dn[d].polled \subseteq DataPackets(d)
        /\ dn[d].at \in {"put", "filter"} =>
             /\ dn[d].frame.c \in DataPackets(d) \ dn[d].polled
             /\ net[dn[d].frame.c].op = IF dn[d].at = "put" THEN "AppendReq" ELSE "ReadLog"

\* A key gets to the index, and from there to a read, only after its record is in
\* the primary.
PrimaryFirst ==
    /\ \A k \in DOMAIN sindex : pindex[sindex[k]] # Absent
    /\ \A c \in Coros : net[c].op \in PendingOps => pindex[ctx[c].pkey] # Absent
    /\ \A c \in Coros : net[c].op \in {"ReadIndexReply", "ReadLog"} =>
           \A p \in net[c].pkeys : pindex[p] # Absent
    /\ \A d \in DThreads : dn[d].at = "filter" =>
           \A p \in dn[d].frame.todo : pindex[p] # Absent

\* What a read has kept so far had the value since the read began.
Kept ==
    /\ \A c \in Coros : ctx[c].call = "SRS" => Having(ctx[c].skey) \subseteq seen[c].ever
    /\ \A d \in DThreads : dn[d].at = "filter" =>
           dn[d].frame.found \subseteq seen[dn[d].frame.c].ever
    /\ \A d \in DThreads : dn[d].at \in {"poll", "serve"} => dn[d].frame.found = {}

ReadInv == SiTypeOK /\ Stored /\ CallSent /\ Served /\ PrimaryFirst /\ Kept /\ ReadsCurrent

-----------------------------------------------------------------------------
(* The invariant of versions. *)

\* v is the version of a delete on its way, or the highest an index thread was sent.
Deleted(v) ==
    \/ \E d \in DThreads : \E n \in DOMAIN dn[d].del_queue : dn[d].del_queue[n].version = v
    \/ \E d \in DThreads : \E m \in DOMAIN rc[d] : \E n \in DOMAIN rc[d][m] :
           rc[d][m][n].version = v
    \/ \E i \in IThreads : \E n \in DOMAIN mn[i].deletes : mn[i].deletes[n].version = v
    \/ \E i \in IThreads : mn[i].max_del = v

\* The records that have been put, overwritten or not.
Puts == olds \cup {Record(p) : p \in {q \in PKeys : pindex[q] # Absent}}

\* A version that a delete names is that of an overwritten record; 0 is where
\* local_max_del_timestamp starts.
DeletesOld == \A v \in Nat : Deleted(v) => v = 0 \/ \E r \in olds : r.version = v

\* What a write has still to index is the record it put, and an entry of the index
\* stands for a record that was put.
PendingPut ==
    \A c \in Coros : net[c].op \in PendingOps =>
        [skey |-> ctx[c].skey, version |-> net[c].version, pkey |-> ctx[c].pkey] \in Puts
Entered ==
    \A k \in DOMAIN sindex : \E r \in Puts :
        r.pkey = sindex[k] /\ InsertKey(r.skey, r.version) = k

\* There is an entry under the key of p's record; the record is on its way to the
\* index; its index thread was sent a delete with a version that is not below.
HasEntry(p) == InsertKey(pindex[p].value, pindex[p].version) \in DOMAIN sindex
Pending(p) ==
    \E c \in Coros :
        /\ net[c].op \in PendingOps
        /\ ctx[c].pkey = p /\ ctx[c].skey = pindex[p].value
        /\ net[c].version = pindex[p].version
Skipped(p) == mn[get_index_thread_id(p)].max_del >= pindex[p].version

Accounted ==
    \A p \in PKeys : pindex[p] # Absent => HasEntry(p) \/ Pending(p) \/ Skipped(p)

VersionInv == DeletesOld /\ PendingPut /\ Entered /\ Accounted

-----------------------------------------------------------------------------
(* Types. *)

\* The set of states of a data thread.
DataThread == [at : DataPlaces, polled : SUBSET Coros, frame : Frames,
               del_queue : Seq(Deletes)]

\* The fields of a packet by its opcode (RawKvMsg).
LEMMA PacketFields ==
    ASSUME NEW m \in Packets
    PROVE  /\ m.op \in {"none"} \cup WriteOps \cup ReadOps
           /\ m.op \in {"AppendReq", "UpdateIndexReq"} => m.pkey \in PKeys /\ m.skey \in SKeys
           /\ m.op \in PendingOps => m.version \in Nat
           /\ m.op \in {"ReadIndexReq", "ReadLog"} => m.skey \in SKeys
           /\ m.op \in {"ReadIndexReply", "ReadLog", "ReadReply"} => m.pkeys \subseteq PKeys
  BY DEF Packets, None, WriteOps, ReadOps, PendingOps

\* The packets the handlers build are packets.
LEMMA PacketTypes ==
    ASSUME NEW p \in PKeys, NEW s \in SKeys, NEW v \in Nat, NEW S \in SUBSET PKeys
    PROVE  /\ None \in Packets
           /\ [op |-> "AppendReq", pkey |-> p, skey |-> s] \in Packets
           /\ [op |-> "AppendReply", version |-> v] \in Packets
           /\ [op |-> "UpdateIndexReq", skey |-> s, version |-> v, pkey |-> p] \in Packets
           /\ [op |-> "UpdateIndexReply"] \in Packets
           /\ [op |-> "ReadIndexReq", skey |-> s] \in Packets
           /\ [op |-> "ReadIndexReply", pkeys |-> S] \in Packets
           /\ [op |-> "ReadReply", pkeys |-> S] \in Packets
           /\ [op |-> "ReadLog", skey |-> s, pkeys |-> S] \in Packets
  BY DEF Packets

\* A frame that is not in use, and a coroutine between two calls.
LEMMA BlankTypes ==
    /\ NoFrame \in Frames
    /\ NoCall \in [call : {"idle", "SW", "SRS"}, pkey : PKeys, skey : SKeys]
    /\ Unseen \in [ever : SUBSET PKeys, always : SUBSET PKeys]
    /\ Absent \in Records
  <1>1. (CHOOSE c \in Coros : TRUE) \in Coros
    BY SiAssumption
  <1>2. (CHOOSE p \in PKeys : TRUE) \in PKeys /\ (CHOOSE s \in SKeys : TRUE) \in SKeys
    BY SiAssumption
  <1> QED
    BY <1>1, <1>2 DEF NoFrame, NoCall, Unseen, Absent, Frames, Records

\* The larger of two numbers is one of them.
LEMMA MaxOfTwo ==
    ASSUME NEW a \in Nat, NEW b \in Nat
    PROVE  /\ Max({a, b}) \in {a, b}
           /\ Max({a, b}) >= a /\ Max({a, b}) >= b
  <1>1. \E x \in {a, b} : \A y \in {a, b} : x >= y
    <2>1. CASE a >= b
      BY <2>1
    <2>2. CASE ~(a >= b)
      BY <2>2
    <2> QED
      BY <2>1, <2>2
  <1> QED
    BY <1>1 DEF Max

\* Threads are chosen by remainders.
LEMMA ThreadRange ==
    /\ \A p \in PKeys : get_index_thread_id(p) \in IThreads
    /\ \A c \in Coros : get_data_thread_id_by_load(c) \in DThreads
    /\ \A d \in DThreads : d % mn_thread \in IThreads
    /\ 0 \in DThreads
  BY SiAssumption DEF get_index_thread_id, get_data_thread_id_by_load, IThreads, DThreads

\* get_version returns a number.
LEMMA VersionsType ==
    ASSUME NEW d \in DThreads, NEW v \in Versions(d)
    PROVE  v \in Nat
  <1>1. PICK t \in Clock : v = (t * ThreadSpace + d) % VersionSpace
    BY DEF Versions
  <1>2. t \in Nat /\ d \in Nat /\ ThreadSpace \in Nat /\ VersionSpace \in Nat \ {0}
    BY SiAssumption DEF DThreads
  <1>3. PICK n \in Nat : n = t * ThreadSpace + d
    BY <1>2
  <1> QED
    BY <1>1, <1>2, <1>3

\* A key of the Masstree that an insert uses.
LEMMA InsertKeyType ==
    ASSUME NEW s \in SKeys, NEW v \in Nat
    PROVE  InsertKey(s, v) \in SKeys \X (0 .. WordSpace - 1)
  BY SiAssumption DEF InsertKey

\* A delete is named by three words, an entry by two: no entry is removed.
LEMMA RemoveNothing ==
    ASSUME NEW t, DOMAIN t \subseteq SKeys \X (0 .. WordSpace - 1), NEW e
    PROVE  /\ DOMAIN remove(t, RemoveKey(e)) = DOMAIN t
           /\ \A k \in DOMAIN t : remove(t, RemoveKey(e))[k] = t[k]
  <1>1. RemoveKey(e) \notin DOMAIN t
    BY DEF RemoveKey
  <1> QED
    BY <1>1 DEF remove

\* A scan returns entries of the index.
LEMMA ScanEntries ==
    ASSUME NEW s, NEW K \in Scans(s)
    PROVE  K \subseteq DOMAIN sindex
  BY DEF Scans, kSubset

\* What a scan does: it answers with the keys of its entries and, when it is cut off,
\* lets a read expect no others.
LEMMA ScanEffect ==
    ASSUME NEW i \in IThreads, NEW c \in Coros, ReadIndex(i, c)
    PROVE  \E K \in Scans(net[c].skey), A \in SUBSET seen[c].always :
             /\ net' = [net EXCEPT ![c] = [op |-> "ReadIndexReply",
                                            pkeys |-> {sindex[k] : k \in K}]]
             /\ seen' = [seen EXCEPT ![c].always = A]
             /\ Cardinality(K) < ScanCnt \/ A \subseteq {sindex[k] : k \in K}
  <1>1. PICK K \in Scans(net[c].skey) :
          /\ net' = [net EXCEPT ![c] = [op |-> "ReadIndexReply",
                                         pkeys |-> {sindex[k] : k \in K}]]
          /\ seen' = [seen EXCEPT ![c].always = IF Cardinality(K) < ScanCnt THEN seen[c].always
                                    ELSE seen[c].always \cap {sindex[k] : k \in K}]
    BY Zenon DEF ReadIndex
  <1>2. PICK A : A = IF Cardinality(K) < ScanCnt THEN seen[c].always
                     ELSE seen[c].always \cap {sindex[k] : k \in K}
    OBVIOUS
  <1>3. A \in SUBSET seen[c].always
    BY <1>2
  <1>4. Cardinality(K) < ScanCnt \/ A \subseteq {sindex[k] : k \in K}
    BY <1>2
  <1>5. seen' = [seen EXCEPT ![c].always = A]
    BY <1>1, <1>2
  <1> QED
    BY <1>1, <1>3, <1>4, <1>5, Zenon

\* Init is typed.
LEMMA InitType == Init => SiTypeOK
  <1> SUFFICES ASSUME Init PROVE SiTypeOK
    OBVIOUS
  <1>1. pindex \in [PKeys -> Records] /\ olds \subseteq Deletes
    BY BlankTypes DEF Init
  <1>2. dn \in [DThreads -> DataThread]
    BY BlankTypes DEF Init, DataThread, DataPlaces
  <1>3. rc \in [DThreads -> Seq(Seq(Deletes))]
    BY DEF Init
  <1>4. DOMAIN sindex = {}
    BY DEF Init
  <1>5. mn \in [IThreads -> [max_del : Nat, deletes : Seq(Deletes)]]
    BY DEF Init
  <1>6. net \in [Coros -> Packets]
    BY DEF Init, Packets
  <1>7. ctx \in [Coros -> [call : {"idle", "SW", "SRS"}, pkey : PKeys, skey : SKeys]]
    BY BlankTypes DEF Init
  <1>8. calls \in [w : 0 .. MaxWrites, r : 0 .. MaxReads]
    BY SiAssumption DEF Init
  <1>9. seen \in [Coros -> [ever : SUBSET PKeys, always : SUBSET PKeys]]
    BY BlankTypes DEF Init
  <1> QED
    BY <1>1, <1>2, <1>3, <1>4, <1>5, <1>6, <1>7, <1>8, <1>9 DEF SiTypeOK, DataThread

\* The steps of a client keep the types.
LEMMA ClientType ==
    ASSUME SiTypeOK, NEW c \in Coros, put_primary(c) \/ get_secondary(c) \/ ClientStep(c)
    PROVE  SiTypeOK'
  <1> USE DEF SiTypeOK
  <1>1. net[c] \in Packets /\ ctx[c].pkey \in PKeys /\ ctx[c].skey \in SKeys
    OBVIOUS
  <1>2. CASE put_primary(c)
    <2>1. PICK p \in PKeys, s \in SKeys :
            /\ ctx' = [ctx EXCEPT ![c] = [call |-> "SW", pkey |-> p, skey |-> s]]
            /\ net' = [net EXCEPT ![c] = [op |-> "AppendReq", pkey |-> p, skey |-> s]]
      BY <1>2 DEF put_primary
    <2>2. net' \in [Coros -> Packets]
      BY <2>1, PacketTypes
    <2>3. calls' \in [w : 0 .. MaxWrites, r : 0 .. MaxReads]
      <3>1. calls \in [w : 0 .. MaxWrites, r : 0 .. MaxReads] /\ calls.w < MaxWrites
        BY <1>2 DEF put_primary
      <3> HIDE DEF SiTypeOK
      <3>2. MaxWrites \in Nat
        BY SiAssumption
      <3>3. PICK n \in 0 .. MaxWrites : n = calls.w /\ n < MaxWrites
        BY <3>1
      <3>4. n + 1 \in 0 .. MaxWrites
        BY <3>2, <3>3
      <3> QED
        BY <1>2, <3>1, <3>3, <3>4 DEF put_primary
    <2> QED
      BY <1>2, <2>1, <2>2, <2>3 DEF put_primary
  <1>3. CASE get_secondary(c)
    <2>1. PICK p \in PKeys, s \in SKeys :
            /\ ctx' = [ctx EXCEPT ![c] = [call |-> "SRS", pkey |-> p, skey |-> s]]
            /\ net' = [net EXCEPT ![c] = [op |-> "ReadIndexReq", skey |-> s]]
            /\ seen' = [seen EXCEPT ![c] = [ever |-> Having(s),
                                            always |-> Having(s) \cap Listed(s)]]
      BY <1>3 DEF get_secondary
    <2>2. net' \in [Coros -> Packets]
      BY <2>1, PacketTypes
    <2>3. calls' \in [w : 0 .. MaxWrites, r : 0 .. MaxReads]
      <3>1. calls \in [w : 0 .. MaxWrites, r : 0 .. MaxReads] /\ calls.r < MaxReads
        BY <1>3 DEF get_secondary
      <3> HIDE DEF SiTypeOK
      <3>2. MaxReads \in Nat
        BY SiAssumption
      <3>3. PICK n \in 0 .. MaxReads : n = calls.r /\ n < MaxReads
        BY <3>1
      <3>4. n + 1 \in 0 .. MaxReads
        BY <3>2, <3>3
      <3> QED
        BY <1>3, <3>1, <3>3, <3>4 DEF get_secondary
    <2>4. Having(s) \subseteq PKeys
      BY DEF Having
    <2>5. seen' \in [Coros -> [ever : SUBSET PKeys, always : SUBSET PKeys]]
      BY <2>1, <2>4
    <2> QED
      BY <1>3, <2>1, <2>2, <2>3, <2>5 DEF get_secondary
  <1>4. CASE put_secondary(c)
    <2>1. net[c].version \in Nat
      BY <1>1, <1>4, PacketFields DEF put_secondary, PendingOps
    <2>2. [op |-> "UpdateIndexReq", skey |-> ctx[c].skey, version |-> net[c].version,
           pkey |-> ctx[c].pkey] \in Packets
      BY <1>1, <2>1, PacketTypes
    <2> QED
      BY <1>4, <2>2 DEF put_secondary
  <1>5. CASE get_primary(c)
    <2>1. net[c].pkeys \in SUBSET PKeys
      BY <1>1, <1>5, PacketFields DEF get_primary
    <2>2. [op |-> "ReadLog", skey |-> ctx[c].skey, pkeys |-> net[c].pkeys] \in Packets
      BY <1>1, <2>1, PacketTypes
    <2> QED
      BY <1>5, <2>2 DEF get_primary
  <1>6. CASE CallReturns(c)
    <2>1. None \in Packets
      BY DEF Packets
    <2> QED
      BY <1>6, <2>1, BlankTypes DEF CallReturns
  <1> QED
    BY <1>2, <1>3, <1>4, <1>5, <1>6 DEF ClientStep

\* The end of a poll leaves the queue of deletes, or empties it.
LEMMA EndPollThread ==
    ASSUME SiTypeOK, NEW d \in DThreads, EndPoll(d)
    PROVE  \E Q \in Seq(Deletes) : dn' = [dn EXCEPT ![d].at = "poll", ![d].del_queue = Q]
  <1>1. dn \in [DThreads -> DataThread] /\ dn[d] \in DataThread
    BY DEF SiTypeOK, DataThread
  <1>2. CASE Len(dn[d].del_queue) >= kMaxDelQueue
    <2>1. PICK Q \in Seq(Deletes) : Q = <<>>
      <3>1. <<>> \in Seq(Deletes)
        OBVIOUS
      <3> QED
        BY <3>1
    <2>2. dn' = [dn EXCEPT ![d].at = "poll", ![d].del_queue = Q]
      BY <1>2, <2>1 DEF EndPoll
    <2> QED
      BY <2>2
  <1>3. CASE ~(Len(dn[d].del_queue) >= kMaxDelQueue)
    <2>1. PICK Q \in Seq(Deletes) : Q = dn[d].del_queue
      BY <1>1 DEF DataThread
    <2>2. dn' = [dn EXCEPT ![d].at = "poll", ![d].del_queue = Q]
      BY <1>1, <1>3, <2>1 DEF EndPoll, DataThread
    <2> QED
      BY <2>2
  <1> QED
    BY <1>2, <1>3

\* The steps of a data thread keep the types; those that answer a packet need to
\* know which packet it is.
LEMMA DataType ==
    ASSUME SiTypeOK, Stored, Served, NEW d \in DThreads, DataStep(d)
    PROVE  SiTypeOK'
  <1>0. /\ pindex \in [PKeys -> Records] /\ olds \subseteq Deletes
        /\ net \in [Coros -> Packets]
        /\ rc \in [DThreads -> Seq(Seq(Deletes))]
        /\ seen \in [Coros -> [ever : SUBSET PKeys, always : SUBSET PKeys]]
    BY DEF SiTypeOK
  <1>1. dn \in [DThreads -> DataThread] /\ dn[d] \in DataThread
    BY DEF SiTypeOK, DataThread
  <1>2. PICK f \in Frames : f = dn[d].frame
    BY <1>1 DEF DataThread
  <1>3. f.c \in Coros /\ net[f.c] \in Packets
    BY <1>0, <1>2 DEF Frames
  <1>4. CASE Poll(d)
    <2>1. PICK S \in SUBSET DataPackets(d) :
            dn' = [dn EXCEPT ![d].at = "serve", ![d].polled = S]
      BY <1>4 DEF Poll
    <2>2. S \subseteq Coros
      BY DEF DataPackets
    <2>3. dn' \in [DThreads -> DataThread]
      BY <1>1, <2>1, <2>2 DEF DataThread, DataPlaces
    <2> QED
      BY <1>4, <2>3 DEF Poll, SiTypeOK, DataThread
  <1>5. CASE get_and_put(d)
    <2>1. /\ dn[d].at = "put" /\ net[f.c].op = "AppendReq"
          /\ net[f.c].pkey \in PKeys /\ net[f.c].skey \in SKeys
      BY <1>2, <1>3, <1>5, PacketFields DEF get_and_put, Served
    <2>2. PICK p \in PKeys, s \in SKeys : p = net[f.c].pkey /\ s = net[f.c].skey
      BY <2>1
    <2>3. PICK v \in Nat : v = f.version
      BY DEF Frames
    <2>4. PICK value \in Records : value = [value |-> s, version |-> v]
      BY DEF Records
    <2>5. pindex' = [pindex EXCEPT ![p] = value]
      BY <1>2, <1>5, <2>2, <2>3, <2>4 DEF get_and_put
    <2>6. PICK D \in Seq(Deletes) : D = OldEntry(p, value, pindex[p])
      <3>1. pindex[p] \in Records
        BY <1>0
      <3>2. CASE pindex[p] = Absent
        <4>1. OldEntry(p, value, pindex[p]) = <<>>
          BY <3>2 DEF OldEntry
        <4>2. <<>> \in Seq(Deletes)
          OBVIOUS
        <4> QED
          BY <4>1, <4>2
      <3>3. CASE pindex[p] # Absent
        <4>1. pindex[p].value \in SKeys /\ pindex[p].version \in Nat
          BY <3>1, <3>3 DEF Records, Stored
        <4>2. [skey |-> pindex[p].value, version |-> pindex[p].version, pkey |-> p] \in Deletes
          BY <4>1 DEF Deletes
        <4>3. PICK e \in Deletes :
                e = [skey |-> pindex[p].value, version |-> pindex[p].version, pkey |-> p]
          BY <4>2
        <4>4. OldEntry(p, value, pindex[p]) = <<e>>
          BY <3>3, <4>3 DEF OldEntry
        <4>5. <<e>> \in Seq(Deletes)
          OBVIOUS
        <4> QED
          BY <4>4, <4>5
      <3> QED
        BY <3>2, <3>3
    <2>7. dn' = [dn EXCEPT ![d].at = "serve", ![d].frame = NoFrame, ![d].del_queue = @ \o D]
      BY <1>2, <1>5, <2>2, <2>3, <2>4, <2>6 DEF get_and_put
    <2>8. PICK Q \in Seq(Deletes) : Q = dn[d].del_queue \o D
      <3>1. PICK O \in Seq(Deletes) : O = dn[d].del_queue
        BY <1>1 DEF DataThread
      <3>2. O \o D \in Seq(Deletes)
        OBVIOUS
      <3> QED
        BY <3>1, <3>2
    <2>9. dn' \in [DThreads -> DataThread]
      BY <1>1, <2>7, <2>8, BlankTypes DEF DataThread, DataPlaces
    <2>10. net' \in [Coros -> Packets]
      <3>1. [op |-> "AppendReply", version |-> v] \in Packets
        BY PacketTypes, <2>2
      <3>2. net' = [net EXCEPT ![f.c] = [op |-> "AppendReply", version |-> v]]
        BY <1>2, <1>5, <2>2, <2>3, <2>4 DEF get_and_put
      <3> QED
        BY <1>0, <1>3, <3>1, <3>2
    <2>11. seen' \in [Coros -> [ever : SUBSET PKeys, always : SUBSET PKeys]]
      <3>1. seen' = [r \in Coros |->
                      IF ctx[r].call # "SRS" THEN seen[r]
                      ELSE IF ctx[r].skey = value.value
                      THEN [seen[r] EXCEPT !.ever = @ \cup {p}]
                      ELSE [seen[r] EXCEPT !.always = @ \ {p}]]
        BY <1>2, <1>5, <2>2, <2>3, <2>4 DEF get_and_put
      <3> QED
        BY <1>0, <3>1
    <2>12. UNCHANGED <<rc, sindex, mn, ctx, calls>> /\ olds' \subseteq Deletes
      <3>1. olds' = IF pindex[p] = Absent THEN olds ELSE olds \cup {Record(p)}
        BY <1>2, <1>5, <2>2 DEF get_and_put
      <3>2. pindex[p] # Absent => Record(p) \in Deletes
        BY <1>0 DEF Record, Deletes, Records, Stored
      <3> QED
        BY <1>0, <1>5, <3>1, <3>2 DEF get_and_put
    <2>13. pindex' \in [PKeys -> Records]
      BY <1>0, <2>5
    <2> QED
      BY <2>9, <2>10, <2>11, <2>12, <2>13 DEF SiTypeOK, DataThread
  <1>6. CASE get_value_version(d)
    <2>1. PICK p \in dn[d].frame.todo :
            LET fr == dn[d].frame
                tmp_value == IF pindex[p] = Absent THEN fr.tmp_value ELSE pindex[p].value
            IN  dn' = [dn EXCEPT ![d].frame =
                         [fr EXCEPT !.todo = @ \ {p}, !.tmp_value = tmp_value,
                                    !.found = @ \cup {q \in {p} : tmp_value = net[fr.c].skey}]]
      BY <1>6, Zenon DEF get_value_version
    <2>2. PICK t \in SKeys \cup {0} :
            t = IF pindex[p] = Absent THEN f.tmp_value ELSE pindex[p].value
      <3>1. p \in PKeys
        BY <1>2, <2>1 DEF Frames
      <3> QED
        BY <1>0, <3>1 DEF Frames, Records
    <2>3. PICK g : g = [f EXCEPT !.todo = @ \ {p}, !.tmp_value = t,
                                 !.found = @ \cup {q \in {p} : t = net[f.c].skey}]
      OBVIOUS
    <2>4. g \in Frames
      <3>1. p \in PKeys
        BY <1>2, <2>1 DEF Frames
      <3> QED
        BY <2>2, <2>3, <3>1 DEF Frames
    <2>5. dn' = [dn EXCEPT ![d].frame = g]
      BY <1>2, <2>1, <2>2, <2>3
    <2>6. dn' \in [DThreads -> DataThread]
      BY <1>1, <2>4, <2>5 DEF DataThread
    <2> QED
      BY <1>6, <2>6 DEF get_value_version, SiTypeOK, DataThread
  <1>7. CASE ReadReply(d)
    <2>1. [op |-> "ReadReply", pkeys |-> f.found] \in Packets
      BY PacketTypes, SiAssumption DEF Frames
    <2>2. net' \in [Coros -> Packets]
      BY <1>0, <1>2, <1>3, <1>7, <2>1 DEF ReadReply
    <2>3. dn' \in [DThreads -> DataThread]
      BY <1>1, <1>7, BlankTypes DEF ReadReply, DataThread, DataPlaces
    <2> QED
      BY <1>7, <2>2, <2>3 DEF ReadReply, SiTypeOK, DataThread
  <1>8. CASE EndPoll(d)
    <2>1. dn' \in [DThreads -> DataThread]
      <3>1. PICK Q \in Seq(Deletes) :
              dn' = [dn EXCEPT ![d].at = "poll", ![d].del_queue = Q]
        BY <1>8, EndPollThread
      <3> QED
        BY <1>1, <3>1 DEF DataThread, DataPlaces
    <2>2. rc' \in [DThreads -> Seq(Seq(Deletes))]
      <3>1. PICK Q \in Seq(Deletes) : Q = dn[d].del_queue
        BY <1>1 DEF DataThread
      <3>2. Append(rc[d], Q) \in Seq(Seq(Deletes))
        <4>1. rc[d] \in Seq(Seq(Deletes))
          BY <1>0
        <4> QED
          BY <4>1
      <3>3. rc' = rc \/ rc' = [rc EXCEPT ![d] = Append(rc[d], Q)]
        BY <1>8, <3>1 DEF EndPoll
      <3> QED
        BY <1>0, <3>2, <3>3
    <2> QED
      BY <1>8, <2>1, <2>2 DEF EndPoll, SiTypeOK, DataThread
  <1>9. ASSUME NEW c \in Coros, get_version(d, c)
        PROVE  SiTypeOK'
    <2>1. dn' \in [DThreads -> DataThread]
      <3>1. PICK v \in Versions(d) :
              dn' = [dn EXCEPT ![d].at = "put", ![d].polled = @ \ {c},
                               ![d].frame.c = c, ![d].frame.version = v]
        BY <1>9 DEF get_version
      <3>2. PICK g \in Frames : g = [f EXCEPT !.c = c, !.version = v]
        BY VersionsType DEF Frames
      <3>3. dn' = [dn EXCEPT ![d].at = "put", ![d].polled = @ \ {c}, ![d].frame = g]
        BY <1>1, <1>2, <3>1, <3>2 DEF DataThread
      <3> QED
        BY <1>1, <3>3 DEF DataThread, DataPlaces
    <2> QED
      BY <1>9, <2>1 DEF get_version, SiTypeOK, DataThread
  <1>10. ASSUME NEW c \in Coros, ReadLog(d, c)
         PROVE  SiTypeOK'
    <2>1. net[c].pkeys \subseteq PKeys
      BY <1>0, <1>10, PacketFields DEF ReadLog
    <2>2. dn' \in [DThreads -> DataThread]
      <3>1. PICK g \in Frames : g = [f EXCEPT !.c = c, !.todo = net[c].pkeys]
        BY <2>1 DEF Frames
      <3>2. dn' = [dn EXCEPT ![d].at = "filter", ![d].polled = @ \ {c}, ![d].frame = g]
        BY <1>1, <1>2, <1>10, <3>1 DEF ReadLog, DataThread
      <3> QED
        BY <1>1, <3>2 DEF DataThread, DataPlaces
    <2> QED
      BY <1>10, <2>2 DEF ReadLog, SiTypeOK, DataThread
  <1> QED
    BY <1>4, <1>5, <1>6, <1>7, <1>8, <1>9, <1>10 DEF DataStep

\* So do those of an index thread, and the arrival of deletes.
LEMMA IndexType ==
    ASSUME SiTypeOK,
           \/ \E i \in IThreads : IndexStep(i)
           \/ \E d \in DThreads : DelSIndex(d)
    PROVE  SiTypeOK'
  <1> USE DEF SiTypeOK
  <1>1. ASSUME NEW i \in IThreads, process_sindex_del(i)
        PROVE  SiTypeOK'
    <2>1. PICK D \in Seq(Deletes) : D = mn[i].deletes /\ D # <<>>
      BY <1>1 DEF process_sindex_del
    <2>2. Head(D) \in Deletes /\ Tail(D) \in Seq(Deletes)
      BY <2>1
    <2>3. PICK v \in Nat : v = Head(D).version
      BY <2>2 DEF Deletes
    <2>4. Max({mn[i].max_del, v}) \in Nat
      <3>1. PICK w \in Nat : w = mn[i].max_del
        OBVIOUS
      <3>2. Max({w, v}) \in {w, v}
        BY MaxOfTwo
      <3> QED
        BY <3>1, <3>2
    <2>5. mn' = [mn EXCEPT ![i].deletes = Tail(D), ![i].max_del = Max({mn[i].max_del, v})]
      BY <1>1, <2>1, <2>3 DEF process_sindex_del
    <2>6. mn' \in [IThreads -> [max_del : Nat, deletes : Seq(Deletes)]]
      <3> HIDE DEF SiTypeOK
      <3>1. PICK T \in Seq(Deletes), y \in Nat : T = Tail(D) /\ y = Max({mn[i].max_del, v})
        BY <2>2, <2>4
      <3>2. mn \in [IThreads -> [max_del : Nat, deletes : Seq(Deletes)]]
        BY DEF SiTypeOK
      <3>3. mn' = [mn EXCEPT ![i].deletes = T, ![i].max_del = y]
        BY <2>5, <3>1
      <3> QED
        BY <3>2, <3>3
    <2>7. sindex' = remove(sindex, RemoveKey(Head(D)))
      BY <1>1, <2>1 DEF process_sindex_del
    <2>8. DOMAIN sindex' = DOMAIN sindex /\ \A k \in DOMAIN sindex : sindex'[k] = sindex[k]
      <3>1. DOMAIN sindex \subseteq SKeys \X (0 .. WordSpace - 1)
        OBVIOUS
      <3> HIDE DEF SiTypeOK
      <3> QED
        BY <2>7, <3>1, RemoveNothing
    <2> QED
      BY <1>1, <2>6, <2>8 DEF process_sindex_del
  <1>2. ASSUME NEW i \in IThreads, NEW c \in Coros, UpdateIndex(i, c)
        PROVE  SiTypeOK'
    <2>1. net[c] \in Packets /\ net[c].op = "UpdateIndexReq"
      BY <1>2 DEF UpdateIndex, IndexPacket
    <2>2. net[c].skey \in SKeys /\ net[c].version \in Nat /\ net[c].pkey \in PKeys
      BY <2>1, PacketFields DEF PendingOps
    <2>3. net' \in [Coros -> Packets]
      BY <1>2, <2>2, PacketTypes DEF UpdateIndex
    <2>4. PICK k \in SKeys \X (0 .. WordSpace - 1) : k = InsertKey(net[c].skey, net[c].version)
      BY <2>2, InsertKeyType
    <2>5. sindex' = sindex \/ sindex' = put_vector_key(sindex, k, net[c].pkey)
      BY <1>2, <2>4 DEF UpdateIndex
    <2>6. /\ DOMAIN sindex' \subseteq SKeys \X (0 .. WordSpace - 1)
          /\ \A j \in DOMAIN sindex' : sindex'[j] \in PKeys
      BY <2>2, <2>4, <2>5 DEF put_vector_key
    <2>7. seen' \in [Coros -> [ever : SUBSET PKeys, always : SUBSET PKeys]]
      <3>1. seen' = [r \in Coros |->
                      IF net[r].op = "ReadIndexReq"
                      THEN [seen[r] EXCEPT !.always = @ \cap ListedIn(sindex', ctx[r].skey)]
                      ELSE seen[r]]
        BY <1>2 DEF UpdateIndex
      <3> QED
        BY <3>1
    <2> QED
      BY <1>2, <2>3, <2>6, <2>7 DEF UpdateIndex
  <1>3. ASSUME NEW i \in IThreads, NEW c \in Coros, ReadIndex(i, c)
        PROVE  SiTypeOK'
    <2>1. PICK K \in Scans(net[c].skey) :
            net' = [net EXCEPT ![c] = [op |-> "ReadIndexReply", pkeys |-> {sindex[k] : k \in K}]]
      BY <1>3 DEF ReadIndex
    <2>2. {sindex[k] : k \in K} \in SUBSET PKeys
      BY ScanEntries
    <2>3. [op |-> "ReadIndexReply", pkeys |-> {sindex[k] : k \in K}] \in Packets
      BY <2>2, PacketTypes, SiAssumption
    <2>4. seen' \in [Coros -> [ever : SUBSET PKeys, always : SUBSET PKeys]]
      <3>1. PICK A \in SUBSET seen[c].always : seen' = [seen EXCEPT ![c].always = A]
        BY <1>3, ScanEffect
      <3> QED
        BY <3>1
    <2> QED
      BY <1>3, <2>1, <2>3, <2>4 DEF ReadIndex
  <1>4. ASSUME NEW d \in DThreads, DelSIndex(d)
        PROVE  SiTypeOK'
    <2>1. PICK R \in Seq(Seq(Deletes)) : R = rc[d] /\ R # <<>>
      BY <1>4 DEF DelSIndex
    <2>2. Head(R) \in Seq(Deletes) /\ Tail(R) \in Seq(Seq(Deletes))
      BY <2>1
    <2>3. d % mn_thread \in IThreads
      BY ThreadRange
    <2>4. mn' \in [IThreads -> [max_del : Nat, deletes : Seq(Deletes)]]
      <3>1. PICK D \in Seq(Deletes), i \in IThreads : D = Head(R) /\ i = d % mn_thread
        BY <2>2, <2>3
      <3>2. mn' = [mn EXCEPT ![i].deletes = D]
        BY <1>4, <2>1, <3>1 DEF DelSIndex
      <3> QED
        BY <3>2
    <2>5. rc' \in [DThreads -> Seq(Seq(Deletes))]
      BY <1>4, <2>1, <2>2 DEF DelSIndex
    <2> QED
      BY <1>4, <2>4, <2>5 DEF DelSIndex
  <1> QED
    BY <1>1, <1>2, <1>3, <1>4 DEF IndexStep

-----------------------------------------------------------------------------
(* Calls, polls and reads. *)

\* A packet no data thread is to serve may change without the data threads.
LEMMA OthersServed ==
    ASSUME SiTypeOK, Served, NEW c \in Coros, NEW m,
           net[c].op \notin {"AppendReq", "ReadLog"},
           net' = [net EXCEPT ![c] = m], UNCHANGED dn
    PROVE  Served'
  <1>1. net \in [Coros -> Packets]
    BY DEF SiTypeOK
  <1>2. \A e \in Coros \ {c} : net'[e] = net[e]
    BY <1>1
  <1>3. SUFFICES ASSUME NEW d \in DThreads
        PROVE  /\ dn[d].polled \subseteq DataPackets(d)'
               /\ dn[d].at \in {"put", "filter"} =>
                    /\ dn[d].frame.c \in DataPackets(d)' \ dn[d].polled
                    /\ net'[dn[d].frame.c].op = IF dn[d].at = "put" THEN "AppendReq"
                                                ELSE "ReadLog"
    BY DEF Served
  <1>4. c \notin DataPackets(d)
    BY DEF DataPackets
  <1>5. DataPackets(d) \subseteq DataPackets(d)'
    BY <1>2, <1>4 DEF DataPackets
  <1>6. /\ dn[d].polled \subseteq DataPackets(d)
        /\ dn[d].at \in {"put", "filter"} =>
             /\ dn[d].frame.c \in DataPackets(d) \ dn[d].polled
             /\ net[dn[d].frame.c].op = IF dn[d].at = "put" THEN "AppendReq" ELSE "ReadLog"
    BY DEF Served
  <1>7. DataPackets(d) \subseteq Coros \ {c}
    BY <1>4 DEF DataPackets
  <1> QED
    BY <1>2, <1>5, <1>6, <1>7

\* A coroutine's packet is for one data thread.
LEMMA OneServer ==
    ASSUME NEW d \in DThreads, NEW e \in DThreads, NEW c \in DataPackets(d), c \in DataPackets(e)
    PROVE  d = e
  BY DEF DataPackets

\* A thread that answers the packet it serves and returns to its poll.
LEMMA AnswerServed ==
    ASSUME SiTypeOK, Served, NEW d \in DThreads,
           dn[d].at \in {"put", "filter"},
           \A c \in Coros \ {dn[d].frame.c} : net'[c] = net[c],
           dn' \in [DThreads -> DataThread],
           \A e \in DThreads \ {d} : dn'[e] = dn[e],
           dn'[d].at = "serve", dn'[d].polled = dn[d].polled
    PROVE  Served'
  <1>1. PICK c \in Coros : c = dn[d].frame.c /\ c \in DataPackets(d) \ dn[d].polled
    BY DEF Served, DataPackets
  <1>2. \A e \in Coros \ {c} : net'[e] = net[e]
    BY <1>1
  <1>3. \A e \in DThreads : DataPackets(e) \ {c} \subseteq DataPackets(e)'
    BY <1>2 DEF DataPackets
  <1>4. \A e \in DThreads : DataPackets(e) \subseteq Coros
    BY DEF DataPackets
  <1>5. \A e \in DThreads \ {d} : c \notin DataPackets(e)
    BY <1>1, OneServer
  <1>6. ASSUME NEW e \in DThreads
        PROVE  /\ dn'[e].polled \subseteq DataPackets(e)'
               /\ dn'[e].at \in {"put", "filter"} =>
                    /\ dn'[e].frame.c \in DataPackets(e)' \ dn'[e].polled
                    /\ net'[dn'[e].frame.c].op = IF dn'[e].at = "put" THEN "AppendReq"
                                                 ELSE "ReadLog"
    <2>1. CASE e = d
      BY <1>1, <1>3, <2>1 DEF Served
    <2>2. CASE e # d
      <3>1. dn'[e] = dn[e] /\ c \notin DataPackets(e)
        BY <1>5, <2>2
      <3>2. /\ dn[e].polled \subseteq DataPackets(e)
            /\ dn[e].at \in {"put", "filter"} =>
                 /\ dn[e].frame.c \in DataPackets(e) \ dn[e].polled
                 /\ net[dn[e].frame.c].op = IF dn[e].at = "put" THEN "AppendReq" ELSE "ReadLog"
        BY DEF Served
      <3> QED
        BY <1>2, <1>3, <1>4, <3>1, <3>2
    <2> QED
      BY <2>1, <2>2
  <1> QED
    BY <1>6 DEF Served

\* The steps of a client.
LEMMA ClientReads ==
    ASSUME ReadInv, SiTypeOK', NEW c \in Coros,
           put_primary(c) \/ get_secondary(c) \/ ClientStep(c)
    PROVE  ReadInv'
  <1>1. /\ net \in [Coros -> Packets] /\ net[c] \in Packets
        /\ ctx \in [Coros -> [call : {"idle", "SW", "SRS"}, pkey : PKeys, skey : SKeys]]
        /\ seen \in [Coros -> [ever : SUBSET PKeys, always : SUBSET PKeys]]
        /\ SiTypeOK /\ Stored /\ CallSent /\ Served /\ PrimaryFirst /\ Kept /\ ReadsCurrent
    BY DEF ReadInv, SiTypeOK
  <1>2. UNCHANGED <<pindex, dn, sindex>>
    BY DEF put_primary, get_secondary, ClientStep, put_secondary, get_primary, CallReturns
  <1>3. net[c].op \notin {"AppendReq", "ReadLog"}
    BY <1>1 DEF put_primary, get_secondary, ClientStep, put_secondary, get_primary, CallReturns,
                CallSent
  <1>4. PICK m : net' = [net EXCEPT ![c] = m]
    BY DEF put_primary, get_secondary, ClientStep, put_secondary, get_primary, CallReturns
  <1>5. /\ \A e \in Coros \ {c} : net'[e] = net[e] /\ ctx'[e] = ctx[e] /\ seen'[e] = seen[e]
        /\ net'[c] = m
    BY <1>1, <1>4 DEF put_primary, get_secondary, ClientStep, put_secondary, get_primary,
                      CallReturns
  <1>6. Stored'
    BY <1>1, <1>2 DEF Stored
  <1>7. Served'
    BY <1>1, <1>2, <1>3, <1>4, OthersServed
  <1>8. /\ ctx'[c].call = "idle" => m.op = "none"
        /\ m.op \in WriteOps => ctx'[c].call = "SW"
        /\ m.op \in ReadOps => ctx'[c].call = "SRS"
        /\ m.op \in {"AppendReq", "UpdateIndexReq"} =>
             m.pkey = ctx'[c].pkey /\ m.skey = ctx'[c].skey
        /\ m.op \in {"ReadIndexReq", "ReadLog"} => m.skey = ctx'[c].skey
        /\ m.op \in PendingOps => pindex[ctx'[c].pkey] # Absent
        /\ m.op \in {"ReadIndexReply", "ReadLog"} => \A p \in m.pkeys : pindex[p] # Absent
        /\ ctx'[c].call = "SRS" => Having(ctx'[c].skey) \subseteq seen'[c].ever
        /\ m.op # "ReadReply"
    <2>1. CASE put_primary(c)
      BY <1>1, <1>5, <2>1 DEF put_primary, WriteOps, ReadOps, PendingOps
    <2>2. CASE get_secondary(c)
      BY <1>1, <1>5, <2>2 DEF get_secondary, WriteOps, ReadOps, PendingOps
    <2>3. CASE put_secondary(c)
      BY <1>1, <1>5, <2>3 DEF put_secondary, WriteOps, ReadOps, PendingOps, CallSent,
                              PrimaryFirst, Kept
    <2>4. CASE get_primary(c)
      BY <1>1, <1>5, <2>4 DEF get_primary, WriteOps, ReadOps, PendingOps, CallSent,
                              PrimaryFirst, Kept
    <2>5. CASE CallReturns(c)
      BY <1>1, <1>5, <2>5 DEF CallReturns, WriteOps, ReadOps, PendingOps, None, NoCall
    <2> QED
      BY <2>1, <2>2, <2>3, <2>4, <2>5 DEF ClientStep
  <1>9. CallSent'
    BY <1>1, <1>5, <1>8 DEF CallSent
  <1>10. PrimaryFirst'
    <2>1. \A k \in DOMAIN sindex' : pindex'[sindex'[k]] # Absent
      BY <1>1, <1>2 DEF PrimaryFirst
    <2>2. \A e \in Coros : net'[e].op \in PendingOps => pindex'[ctx'[e].pkey] # Absent
      BY <1>1, <1>2, <1>5, <1>8 DEF PrimaryFirst
    <2>3. \A e \in Coros : net'[e].op \in {"ReadIndexReply", "ReadLog"} =>
            \A p \in net'[e].pkeys : pindex'[p] # Absent
      BY <1>1, <1>2, <1>5, <1>8 DEF PrimaryFirst
    <2>4. \A d \in DThreads : dn'[d].at = "filter" =>
            \A p \in dn'[d].frame.todo : pindex'[p] # Absent
      BY <1>1, <1>2 DEF PrimaryFirst
    <2> QED
      BY <2>1, <2>2, <2>3, <2>4 DEF PrimaryFirst
  <1>11. \A e \in Coros : Having(ctx[e].skey)' = Having(ctx'[e].skey)
    BY <1>2 DEF Having
  <1>12. \A d \in DThreads : dn[d].at = "filter" => dn[d].frame.c \in Coros \ {c}
    BY <1>1, <1>3 DEF Served, DataPackets
  <1>13. Kept'
    <2>1. \A e \in Coros : ctx'[e].call = "SRS" => Having(ctx[e].skey)' \subseteq seen'[e].ever
      BY <1>1, <1>5, <1>8, <1>11 DEF Kept
    <2>2. \A d \in DThreads : dn'[d].at = "filter" =>
             dn'[d].frame.found \subseteq seen'[dn'[d].frame.c].ever
      BY <1>1, <1>2, <1>5, <1>12 DEF Kept
    <2>3. \A d \in DThreads : dn'[d].at \in {"poll", "serve"} => dn'[d].frame.found = {}
      BY <1>1, <1>2 DEF Kept
    <2> QED
      BY <2>1, <2>2, <2>3 DEF Kept
  <1>14. ReadsCurrent'
    BY <1>1, <1>5, <1>8 DEF ReadsCurrent
  <1> QED
    BY <1>6, <1>7, <1>9, <1>10, <1>13, <1>14 DEF ReadInv

\* The steps of a data thread that change nothing but the thread, and its queue.
LEMMA ThreadReads ==
    ASSUME ReadInv, SiTypeOK', NEW d \in DThreads,
           UNCHANGED <<pindex, sindex, net, ctx, seen>>,
           \A e \in DThreads \ {d} : dn'[e] = dn[e],
           dn'[d].polled \subseteq DataPackets(d),
           dn'[d].at \in {"put", "filter"} =>
             /\ dn'[d].frame.c \in DataPackets(d) \ dn'[d].polled
             /\ net[dn'[d].frame.c].op = IF dn'[d].at = "put" THEN "AppendReq" ELSE "ReadLog",
           dn'[d].at = "filter" =>
             /\ \A p \in dn'[d].frame.todo : pindex[p] # Absent
             /\ dn'[d].frame.found \subseteq seen[dn'[d].frame.c].ever,
           dn'[d].at \in {"poll", "serve"} => dn'[d].frame.found = {}
    PROVE  ReadInv'
  <1>1. SiTypeOK /\ Stored /\ CallSent /\ Served /\ PrimaryFirst /\ Kept /\ ReadsCurrent
    BY DEF ReadInv
  <1>2. Stored'
    BY <1>1 DEF Stored
  <1>3. CallSent'
    BY <1>1 DEF CallSent
  <1>4. \A e \in DThreads : DataPackets(e)' = DataPackets(e)
    BY DEF DataPackets
  <1>5. Served'
    <2> SUFFICES ASSUME NEW e \in DThreads
        PROVE  /\ dn'[e].polled \subseteq DataPackets(e)
               /\ dn'[e].at \in {"put", "filter"} =>
                    /\ dn'[e].frame.c \in DataPackets(e) \ dn'[e].polled
                    /\ net[dn'[e].frame.c].op = IF dn'[e].at = "put" THEN "AppendReq"
                                                ELSE "ReadLog"
      BY <1>4 DEF Served
    <2>1. CASE e = d
      BY <2>1
    <2>2. CASE e # d
      BY <1>1, <2>2 DEF Served
    <2> QED
      BY <2>1, <2>2
  <1>6. PrimaryFirst'
    BY <1>1 DEF PrimaryFirst
  <1>7. Kept'
    <2>1. \A c \in Coros : Having(ctx[c].skey)' = Having(ctx[c].skey)
      BY DEF Having
    <2> QED
      BY <1>1, <2>1 DEF Kept
  <1>8. ReadsCurrent'
    BY <1>1 DEF ReadsCurrent
  <1> QED
    BY <1>2, <1>3, <1>5, <1>6, <1>7, <1>8 DEF ReadInv

\* AppendReq: the record is put, which makes its key one that has the value.
LEMMA PutReads ==
    ASSUME ReadInv, SiTypeOK', NEW d \in DThreads, get_and_put(d)
    PROVE  ReadInv'
  <1>1. /\ SiTypeOK /\ Stored /\ CallSent /\ Served /\ PrimaryFirst /\ Kept /\ ReadsCurrent
        /\ dn \in [DThreads -> DataThread] /\ net \in [Coros -> Packets]
        /\ pindex \in [PKeys -> Records]
        /\ ctx \in [Coros -> [call : {"idle", "SW", "SRS"}, pkey : PKeys, skey : SKeys]]
        /\ seen \in [Coros -> [ever : SUBSET PKeys, always : SUBSET PKeys]]
        /\ dn' \in [DThreads -> DataThread]
    BY DEF ReadInv, SiTypeOK, DataThread
  <1>2. PICK c \in Coros : c = dn[d].frame.c
    BY <1>1 DEF DataThread, Frames
  <1>3. dn[d].at = "put" /\ net[c].op = "AppendReq"
    BY <1>1, <1>2 DEF get_and_put, Served
  <1>4. PICK p \in PKeys, s \in SKeys :
          p = net[c].pkey /\ s = net[c].skey /\ p = ctx[c].pkey /\ s = ctx[c].skey
    BY <1>1, <1>3, PacketFields DEF CallSent
  <1>5. PICK v : v = dn[d].frame.version
    OBVIOUS
  <1>6. /\ pindex' = [pindex EXCEPT ![p] = [value |-> s, version |-> v]]
        /\ net' = [net EXCEPT ![c] = [op |-> "AppendReply", version |-> v]]
        /\ UNCHANGED <<sindex, ctx>>
    BY <1>2, <1>4, <1>5 DEF get_and_put
  <1>7. s # 0
    BY SiAssumption
  <1>8. /\ \A q \in PKeys \ {p} : pindex'[q] = pindex[q]
        /\ pindex'[p].value = s /\ pindex'[p] # Absent
    BY <1>1, <1>6, <1>7 DEF Absent
  <1>9. /\ \A e \in Coros \ {c} : net'[e] = net[e]
        /\ net'[c].op = "AppendReply"
    BY <1>1, <1>6
  <1>10. /\ \A e \in DThreads \ {d} : dn'[e] = dn[e]
         /\ dn'[d].at = "serve" /\ dn'[d].polled = dn[d].polled /\ dn'[d].frame = NoFrame
    BY <1>1 DEF get_and_put, DataThread
  <1>11. /\ \A r \in Coros : seen[r].ever \subseteq seen'[r].ever
         /\ \A r \in Coros : ctx[r].call = "SRS" /\ ctx[r].skey = s => p \in seen'[r].ever
    <2>1. seen' = [r \in Coros |->
                      IF ctx[r].call # "SRS" THEN seen[r]
                      ELSE IF ctx[r].skey = s
                      THEN [seen[r] EXCEPT !.ever = @ \cup {p}]
                      ELSE [seen[r] EXCEPT !.always = @ \ {p}]]
      BY <1>2, <1>4 DEF get_and_put
    <2> QED
      BY <1>1, <2>1
  <1>12. Stored'
    BY <1>1, <1>7, <1>8 DEF Stored
  <1>13. CallSent'
    BY <1>1, <1>3, <1>6, <1>9 DEF CallSent, WriteOps, ReadOps
  <1>14. Served'
    <2>1. \A e \in Coros \ {dn[d].frame.c} : net'[e] = net[e]
      BY <1>2, <1>9
    <2>2. dn[d].at \in {"put", "filter"}
      BY <1>3
    <2> QED
      BY <1>1, <1>10, <2>1, <2>2, AnswerServed
  <1>15. \A q \in PKeys : pindex[q] # Absent => pindex'[q] # Absent
    BY <1>8
  <1>16. PrimaryFirst'
    <2>1. \A k \in DOMAIN sindex' : pindex'[sindex'[k]] # Absent
      BY <1>1, <1>6, <1>15 DEF PrimaryFirst, SiTypeOK
    <2>2. \A e \in Coros : net'[e].op \in PendingOps => pindex'[ctx'[e].pkey] # Absent
      BY <1>1, <1>4, <1>6, <1>8, <1>9, <1>15 DEF PrimaryFirst
    <2>3. \A e \in Coros : net'[e].op \in {"ReadIndexReply", "ReadLog"} =>
            \A q \in net'[e].pkeys : pindex'[q] # Absent
      BY <1>1, <1>9, <1>15, PacketFields DEF PrimaryFirst
    <2>4. \A e \in DThreads : dn'[e].at = "filter" =>
            \A q \in dn'[e].frame.todo : pindex'[q] # Absent
      BY <1>1, <1>10, <1>15 DEF PrimaryFirst, DataThread, Frames
    <2> QED
      BY <2>1, <2>2, <2>3, <2>4 DEF PrimaryFirst
  <1>17. Kept'
    <2>1. ASSUME NEW r \in Coros, ctx[r].call = "SRS"
          PROVE  Having(ctx[r].skey)' \subseteq seen'[r].ever
      <3>1. Having(ctx[r].skey) \subseteq seen[r].ever
        BY <1>1, <2>1 DEF Kept
      <3>2. ASSUME NEW q \in Having(ctx[r].skey)'
            PROVE  q \in seen'[r].ever
        <4>1. q \in PKeys /\ pindex'[q].value = ctx[r].skey
          BY <1>6 DEF Having
        <4>2. CASE q = p
          BY <1>8, <1>11, <2>1, <4>1, <4>2
        <4>3. CASE q # p
          BY <1>8, <1>11, <3>1, <4>1, <4>3 DEF Having
        <4> QED
          BY <4>2, <4>3
      <3> QED
        BY <3>2
    <2>2. ASSUME NEW e \in DThreads, dn'[e].at = "filter"
          PROVE  dn'[e].frame.found \subseteq seen'[dn'[e].frame.c].ever
      <3>1. dn'[e] = dn[e]
        BY <1>10, <2>2
      <3>2. dn[e].frame.c \in Coros
        BY <1>1 DEF DataThread, Frames
      <3>3. dn[e].frame.found \subseteq seen[dn[e].frame.c].ever
        BY <1>1, <2>2, <3>1 DEF Kept
      <3> QED
        BY <1>11, <3>1, <3>2, <3>3
    <2>3. \A e \in DThreads : dn'[e].at \in {"poll", "serve"} => dn'[e].frame.found = {}
      BY <1>1, <1>10 DEF Kept, NoFrame
    <2> QED
      BY <1>6, <2>1, <2>2, <2>3 DEF Kept
  <1>18. ReadsCurrent'
    BY <1>1, <1>9, <1>11 DEF ReadsCurrent
  <1> QED
    BY <1>12, <1>13, <1>14, <1>16, <1>17, <1>18 DEF ReadInv

\* ReadLog answers with the keys it kept.
LEMMA ReplyReads ==
    ASSUME ReadInv, SiTypeOK', NEW d \in DThreads, ReadReply(d)
    PROVE  ReadInv'
  <1>1. /\ SiTypeOK /\ Stored /\ CallSent /\ Served /\ PrimaryFirst /\ Kept /\ ReadsCurrent
        /\ dn \in [DThreads -> DataThread] /\ net \in [Coros -> Packets]
        /\ dn' \in [DThreads -> DataThread]
    BY DEF ReadInv, SiTypeOK, DataThread
  <1>2. PICK c \in Coros : c = dn[d].frame.c
    BY <1>1 DEF DataThread, Frames
  <1>3. dn[d].at = "filter" /\ net[c].op = "ReadLog"
    BY <1>1, <1>2 DEF ReadReply, Served
  <1>4. /\ net' = [net EXCEPT ![c] = [op |-> "ReadReply", pkeys |-> dn[d].frame.found]]
        /\ UNCHANGED <<pindex, sindex, ctx, seen>>
    BY <1>2 DEF ReadReply
  <1>5. /\ \A e \in Coros \ {c} : net'[e] = net[e]
        /\ net'[c].op = "ReadReply" /\ net'[c].pkeys = dn[d].frame.found
    BY <1>1, <1>4
  <1>6. /\ \A e \in DThreads \ {d} : dn'[e] = dn[e]
        /\ dn'[d].at = "serve" /\ dn'[d].polled = dn[d].polled /\ dn'[d].frame = NoFrame
    BY <1>1 DEF ReadReply, DataThread
  <1>7. Stored'
    BY <1>1, <1>4 DEF Stored
  <1>8. CallSent'
    BY <1>1, <1>3, <1>4, <1>5 DEF CallSent, WriteOps, ReadOps
  <1>9. Served'
    <2>1. \A e \in Coros \ {dn[d].frame.c} : net'[e] = net[e]
      BY <1>2, <1>5
    <2>2. dn[d].at \in {"put", "filter"}
      BY <1>3
    <2> QED
      BY <1>1, <1>6, <2>1, <2>2, AnswerServed
  <1>10. PrimaryFirst'
    BY <1>1, <1>4, <1>5, <1>6 DEF PrimaryFirst, PendingOps
  <1>11. Kept'
    <2>1. \A r \in Coros : Having(ctx[r].skey)' = Having(ctx[r].skey)
      BY <1>4 DEF Having
    <2> QED
      BY <1>1, <1>4, <1>6, <2>1 DEF Kept, NoFrame
  <1>12. ReadsCurrent'
    BY <1>1, <1>2, <1>3, <1>4, <1>5 DEF ReadsCurrent, Kept
  <1> QED
    BY <1>7, <1>8, <1>9, <1>10, <1>11, <1>12 DEF ReadInv

\* The steps of a data thread.
LEMMA DataReads ==
    ASSUME ReadInv, SiTypeOK', NEW d \in DThreads, DataStep(d)
    PROVE  ReadInv'
  <1>1. /\ SiTypeOK /\ Stored /\ CallSent /\ Served /\ PrimaryFirst /\ Kept
        /\ dn \in [DThreads -> DataThread] /\ dn[d] \in DataThread
        /\ net \in [Coros -> Packets]
    BY DEF ReadInv, SiTypeOK, DataThread
  <1>2. PICK f \in Frames : f = dn[d].frame
    BY <1>1 DEF DataThread
  <1>3. CASE Poll(d)
    <2>1. PICK S \in SUBSET DataPackets(d) :
            dn' = [dn EXCEPT ![d].at = "serve", ![d].polled = S]
      BY <1>3 DEF Poll
    <2>2. UNCHANGED <<pindex, sindex, net, ctx, seen>>
      BY <1>3 DEF Poll
    <2>3. dn[d].frame.found = {}
      BY <1>1, <1>3 DEF Poll, Kept
    <2>4. /\ \A e \in DThreads \ {d} : dn'[e] = dn[e]
          /\ dn'[d].at = "serve" /\ dn'[d].polled = S /\ dn'[d].frame = dn[d].frame
      BY <1>1, <2>1 DEF DataThread
    <2> QED
      BY <2>2, <2>3, <2>4, ThreadReads
  <1>4. CASE get_and_put(d)
    BY <1>4, PutReads
  <1>5. CASE get_value_version(d)
    <2>1. PICK p \in dn[d].frame.todo :
            LET fr == dn[d].frame
                tmp_value == IF pindex[p] = Absent THEN fr.tmp_value ELSE pindex[p].value
            IN  dn' = [dn EXCEPT ![d].frame =
                         [fr EXCEPT !.todo = @ \ {p}, !.tmp_value = tmp_value,
                                    !.found = @ \cup {q \in {p} : tmp_value = net[fr.c].skey}]]
      BY <1>5, Zenon DEF get_value_version
    <2>2. PICK c \in Coros : c = f.c
      BY DEF Frames
    <2>3. dn[d].at = "filter" /\ net[c].op = "ReadLog" /\ c \in DataPackets(d) \ dn[d].polled
      BY <1>1, <1>2, <1>5, <2>2 DEF get_value_version, Served
    <2>4. ctx[c].call = "SRS" /\ net[c].skey = ctx[c].skey
      BY <1>1, <2>3 DEF CallSent, ReadOps
    <2>5. p \in f.todo /\ p \in PKeys /\ pindex[p] # Absent
      BY <1>1, <1>2, <2>1, <2>3 DEF PrimaryFirst, Frames
    <2>6. dn' = [dn EXCEPT ![d].frame =
                   [f EXCEPT !.todo = @ \ {p}, !.tmp_value = pindex[p].value,
                             !.found = @ \cup {q \in {p} : pindex[p].value = net[c].skey}]]
      BY <1>2, <2>1, <2>2, <2>5
    <2>7. /\ \A e \in DThreads \ {d} : dn'[e] = dn[e]
          /\ dn'[d].at = "filter" /\ dn'[d].polled = dn[d].polled
          /\ dn'[d].frame.c = c /\ dn'[d].frame.todo \subseteq f.todo
          /\ dn'[d].frame.found = f.found \cup {q \in {p} : pindex[p].value = net[c].skey}
      BY <1>1, <2>2, <2>3, <2>6 DEF DataThread, Frames
    <2>8. {q \in {p} : pindex[p].value = net[c].skey} \subseteq seen[c].ever
      BY <1>1, <2>4, <2>5 DEF Kept, Having
    <2>9. f.found \subseteq seen[c].ever
      BY <1>1, <1>2, <2>2, <2>3 DEF Kept
    <2>10. UNCHANGED <<pindex, sindex, net, ctx, seen>>
      BY <1>5 DEF get_value_version
    <2>11. \A q \in dn'[d].frame.todo : pindex[q] # Absent
      BY <1>1, <1>2, <2>3, <2>7 DEF PrimaryFirst
    <2>12. dn[d].polled \subseteq DataPackets(d)
      BY <1>1 DEF Served
    <2> QED
      BY <2>3, <2>7, <2>8, <2>9, <2>10, <2>11, <2>12, ThreadReads
  <1>6. CASE ReadReply(d)
    BY <1>6, ReplyReads
  <1>7. CASE EndPoll(d)
    <2>1. UNCHANGED <<pindex, sindex, net, ctx, seen>>
      BY <1>7 DEF EndPoll
    <2>2. /\ \A e \in DThreads \ {d} : dn'[e] = dn[e]
          /\ dn'[d].at = "poll" /\ dn'[d].polled = {} /\ dn'[d].frame = dn[d].frame
      <3>1. PICK Q \in Seq(Deletes) :
              dn' = [dn EXCEPT ![d].at = "poll", ![d].del_queue = Q]
        BY <1>1, <1>7, EndPollThread
      <3>2. dn[d].polled = {}
        BY <1>7 DEF EndPoll
      <3> QED
        BY <1>1, <3>1, <3>2 DEF DataThread
    <2>3. dn[d].frame.found = {}
      BY <1>1, <1>7 DEF EndPoll, Kept
    <2> QED
      BY <2>1, <2>2, <2>3, ThreadReads
  <1>8. ASSUME NEW c \in Coros, get_version(d, c)
        PROVE  ReadInv'
    <2>1. UNCHANGED <<pindex, sindex, net, ctx, seen>>
      BY <1>8 DEF get_version
    <2>2. /\ \A e \in DThreads \ {d} : dn'[e] = dn[e]
          /\ dn'[d].at = "put" /\ dn'[d].polled = dn[d].polled \ {c}
          /\ dn'[d].frame.c = c
      <3>1. PICK v : dn' = [dn EXCEPT ![d].at = "put", ![d].polled = @ \ {c},
                                      ![d].frame.c = c, ![d].frame.version = v]
        BY <1>8 DEF get_version
      <3> QED
        BY <1>1, <1>2, <3>1 DEF DataThread, Frames
    <2>3. c \in DataPackets(d) /\ dn[d].polled \subseteq DataPackets(d) /\ net[c].op = "AppendReq"
      BY <1>1, <1>8 DEF get_version, Served
    <2> QED
      BY <2>1, <2>2, <2>3, ThreadReads
  <1>9. ASSUME NEW c \in Coros, ReadLog(d, c)
        PROVE  ReadInv'
    <2>1. UNCHANGED <<pindex, sindex, net, ctx, seen>>
      BY <1>9 DEF ReadLog
    <2>2. /\ \A e \in DThreads \ {d} : dn'[e] = dn[e]
          /\ dn'[d].at = "filter" /\ dn'[d].polled = dn[d].polled \ {c}
          /\ dn'[d].frame.c = c /\ dn'[d].frame.todo = net[c].pkeys
          /\ dn'[d].frame.found = f.found
      BY <1>1, <1>2, <1>9 DEF ReadLog, DataThread, Frames
    <2>3. c \in DataPackets(d) /\ dn[d].polled \subseteq DataPackets(d) /\ net[c].op = "ReadLog"
      BY <1>1, <1>9 DEF ReadLog, Served
    <2>4. f.found = {}
      BY <1>1, <1>2, <1>9 DEF ReadLog, Kept
    <2>5. \A p \in net[c].pkeys : pindex[p] # Absent
      BY <1>1, <2>3 DEF PrimaryFirst
    <2> QED
      BY <2>1, <2>2, <2>3, <2>4, <2>5, ThreadReads
  <1> QED
    BY <1>3, <1>4, <1>5, <1>6, <1>7, <1>8, <1>9 DEF DataStep

\* UpdateIndexReq may take keys from what a read must return, no more.
LEMMA UpdateSeen ==
    ASSUME SiTypeOK, NEW i \in IThreads, NEW c \in Coros, UpdateIndex(i, c), NEW r \in Coros
    PROVE  /\ seen'[r].ever = seen[r].ever /\ seen'[r].always \subseteq seen[r].always
           /\ net[r].op = "ReadIndexReq" =>
                seen'[r].always \subseteq ListedIn(sindex', ctx[r].skey)
  <1>1. seen \in [Coros -> [ever : SUBSET PKeys, always : SUBSET PKeys]]
    BY DEF SiTypeOK
  <1>2. PICK L : L = ListedIn(sindex', ctx[r].skey)
    OBVIOUS
  <1>3. seen'[r] = IF net[r].op = "ReadIndexReq"
                   THEN [seen[r] EXCEPT !.always = @ \cap L] ELSE seen[r]
    BY <1>2 DEF UpdateIndex
  <1> QED
    BY <1>1, <1>2, <1>3

\* The steps of an index thread, and the arrival of deletes.
LEMMA IndexReads ==
    ASSUME ReadInv, SiTypeOK',
           \/ \E i \in IThreads : IndexStep(i)
           \/ \E d \in DThreads : DelSIndex(d)
    PROVE  ReadInv'
  <1>1. /\ SiTypeOK /\ Stored /\ CallSent /\ Served /\ PrimaryFirst /\ Kept /\ ReadsCurrent
        /\ net \in [Coros -> Packets]
        /\ DOMAIN sindex \subseteq SKeys \X (0 .. WordSpace - 1)
    BY DEF ReadInv, SiTypeOK
  <1>2. ASSUME UNCHANGED <<pindex, dn, net, ctx, seen>>,
               DOMAIN sindex' = DOMAIN sindex, \A k \in DOMAIN sindex : sindex'[k] = sindex[k]
        PROVE  ReadInv'
    <2>1. Stored' /\ CallSent'
      BY <1>1, <1>2 DEF Stored, CallSent
    <2>2. \A d \in DThreads : DataPackets(d)' = DataPackets(d)
      BY <1>2 DEF DataPackets
    <2>3. Served'
      BY <1>1, <1>2, <2>2 DEF Served
    <2>4. PrimaryFirst'
      BY <1>1, <1>2 DEF PrimaryFirst
    <2>5. \A r \in Coros : Having(ctx[r].skey)' = Having(ctx[r].skey)
      BY <1>2 DEF Having
    <2>6. Kept' /\ ReadsCurrent'
      BY <1>1, <1>2, <2>5 DEF Kept, ReadsCurrent
    <2> QED
      BY <2>1, <2>3, <2>4, <2>6 DEF ReadInv
  <1>3. ASSUME NEW d \in DThreads, DelSIndex(d)
        PROVE  ReadInv'
    BY <1>2, <1>3 DEF DelSIndex
  <1>4. ASSUME NEW i \in IThreads, process_sindex_del(i)
        PROVE  ReadInv'
    <2>1. DOMAIN sindex' = DOMAIN sindex /\ \A k \in DOMAIN sindex : sindex'[k] = sindex[k]
      BY <1>1, <1>4, RemoveNothing DEF process_sindex_del
    <2> QED
      BY <1>2, <1>4, <2>1 DEF process_sindex_del
  <1>5. ASSUME NEW c \in Coros, NEW m, UNCHANGED <<pindex, dn, ctx>>,
               \A r \in Coros : seen'[r].ever = seen[r].ever,
               net' = [net EXCEPT ![c] = m],
               \/ net[c].op = "UpdateIndexReq" /\ m.op = "UpdateIndexReply"
               \/ /\ net[c].op = "ReadIndexReq" /\ m.op = "ReadIndexReply"
                  /\ \A p \in m.pkeys : pindex[p] # Absent,
               \A k \in DOMAIN sindex' : pindex[sindex'[k]] # Absent
        PROVE  ReadInv'
    <2>1. \A e \in Coros \ {c} : net'[e] = net[e]
      BY <1>1, <1>5
    <2>2. net'[c] = m
      BY <1>1, <1>5
    <2>3. Stored'
      BY <1>1, <1>5 DEF Stored
    <2>4. CallSent'
      BY <1>1, <1>5, <2>1, <2>2 DEF CallSent, WriteOps, ReadOps
    <2>5. Served'
      BY <1>1, <1>5, OthersServed
    <2>6. PrimaryFirst'
      BY <1>1, <1>5, <2>1, <2>2 DEF PrimaryFirst, PendingOps
    <2>7. \A r \in Coros : Having(ctx[r].skey)' = Having(ctx[r].skey)
      BY <1>5 DEF Having
    <2>8. Kept'
      <3>1. \A d \in DThreads : dn[d].at = "filter" => dn[d].frame.c \in Coros
        BY <1>1 DEF SiTypeOK, Frames
      <3> QED
        BY <1>1, <1>5, <2>7, <3>1 DEF Kept
    <2>9. ReadsCurrent'
      BY <1>1, <1>5, <2>1, <2>2 DEF ReadsCurrent
    <2> QED
      BY <2>3, <2>4, <2>5, <2>6, <2>8, <2>9 DEF ReadInv
  <1>6. ASSUME NEW i \in IThreads, NEW c \in Coros, UpdateIndex(i, c)
        PROVE  ReadInv'
    <2>1. net[c].op = "UpdateIndexReq"
      BY <1>6 DEF UpdateIndex, IndexPacket
    <2>2. pindex[net[c].pkey] # Absent
      BY <1>1, <2>1 DEF CallSent, PrimaryFirst, PendingOps
    <2>3. \A k \in DOMAIN sindex' : pindex[sindex'[k]] # Absent
      BY <1>1, <1>6, <2>2 DEF UpdateIndex, put_vector_key, PrimaryFirst
    <2>4. PICK m : m = [op |-> "UpdateIndexReply"]
      OBVIOUS
    <2>5. /\ net' = [net EXCEPT ![c] = m] /\ UNCHANGED <<pindex, dn, ctx>>
          /\ \A r \in Coros : seen'[r].ever = seen[r].ever
      BY <1>6, <2>4, UpdateSeen DEF UpdateIndex
    <2>6. m.op = "UpdateIndexReply"
      BY <2>4
    <2> QED
      BY <1>5, <2>1, <2>3, <2>5, <2>6
  <1>7. ASSUME NEW i \in IThreads, NEW c \in Coros, ReadIndex(i, c)
        PROVE  ReadInv'
    <2>1. net[c].op = "ReadIndexReq"
      BY <1>7 DEF ReadIndex, IndexPacket
    <2>2. PICK K \in Scans(net[c].skey) :
            net' = [net EXCEPT ![c] = [op |-> "ReadIndexReply", pkeys |-> {sindex[k] : k \in K}]]
      BY <1>7 DEF ReadIndex
    <2>3. PICK m : m = [op |-> "ReadIndexReply", pkeys |-> {sindex[k] : k \in K}]
      OBVIOUS
    <2>4. /\ net' = [net EXCEPT ![c] = m] /\ UNCHANGED <<pindex, dn, sindex, ctx>>
          /\ \A r \in Coros : seen'[r].ever = seen[r].ever
      <3>1. PICK A : seen' = [seen EXCEPT ![c].always = A]
        BY <1>7, ScanEffect
      <3>2. seen \in [Coros -> [ever : SUBSET PKeys, always : SUBSET PKeys]]
        BY <1>1 DEF SiTypeOK
      <3>3. \A r \in Coros : seen'[r].ever = seen[r].ever
        BY <3>1, <3>2
      <3>4. UNCHANGED <<pindex, dn, sindex, ctx>>
        BY <1>7 DEF ReadIndex
      <3> QED
        BY <2>2, <2>3, <3>3, <3>4
    <2>5. m.op = "ReadIndexReply" /\ \A p \in m.pkeys : pindex[p] # Absent
      BY <1>1, <2>3, ScanEntries DEF PrimaryFirst
    <2>6. \A k \in DOMAIN sindex' : pindex[sindex'[k]] # Absent
      BY <1>1, <2>4 DEF PrimaryFirst
    <2> QED
      BY <1>5, <2>1, <2>4, <2>5, <2>6
  <1> QED
    BY <1>3, <1>4, <1>6, <1>7 DEF IndexStep

\* The initial state.
LEMMA InitReads == Init => ReadInv
  <1> SUFFICES ASSUME Init PROVE ReadInv
    OBVIOUS
  <1>1. /\ \A p \in PKeys : pindex[p] = Absent
        /\ \A c \in Coros : net[c] = None /\ ctx[c] = NoCall
        /\ \A d \in DThreads : dn[d].at = "poll" /\ dn[d].polled = {} /\ dn[d].frame = NoFrame
        /\ DOMAIN sindex = {}
    BY DEF Init
  <1>2. /\ \A c \in Coros : net[c].op = "none" /\ ctx[c].call = "idle"
        /\ \A d \in DThreads : dn[d].frame.found = {}
    <2>1. None.op = "none"
      BY DEF None
    <2>2. NoCall.call = "idle"
      BY DEF NoCall
    <2>3. NoFrame.found = {}
      BY DEF NoFrame
    <2> QED
      BY <1>1, <2>1, <2>2, <2>3
  <1>3. Stored /\ CallSent
    BY <1>1, <1>2 DEF Stored, CallSent, WriteOps, ReadOps
  <1>4. Served /\ PrimaryFirst
    BY <1>1, <1>2 DEF Served, PrimaryFirst, PendingOps
  <1>5. Kept /\ ReadsCurrent
    BY <1>1, <1>2 DEF Kept, ReadsCurrent
  <1> QED
    BY <1>3, <1>4, <1>5, InitType DEF ReadInv

\* Every step.
LEMMA NextReads == ReadInv /\ [Next]_siVars => ReadInv'
  <1> SUFFICES ASSUME ReadInv, [Next]_siVars PROVE ReadInv'
    OBVIOUS
  <1>1. SiTypeOK /\ Stored /\ Served
    BY DEF ReadInv
  <1>2. ASSUME NEW c \in Coros, put_primary(c) \/ get_secondary(c) \/ ClientStep(c)
        PROVE  ReadInv'
    BY <1>1, <1>2, ClientType, ClientReads
  <1>3. ASSUME NEW d \in DThreads, DataStep(d)
        PROVE  ReadInv'
    BY <1>1, <1>3, DataType, DataReads
  <1>4. CASE \/ \E i \in IThreads : IndexStep(i)
             \/ \E d \in DThreads : DelSIndex(d)
    BY <1>1, <1>4, IndexType, IndexReads
  <1>5. CASE UNCHANGED siVars
    <2>1. \A d \in DThreads : DataPackets(d)' = DataPackets(d)
      BY <1>5 DEF siVars, DataPackets
    <2>2. \A c \in Coros : Having(ctx[c].skey)' = Having(ctx[c].skey)
      BY <1>5 DEF siVars, Having
    <2>3. SiTypeOK'
      BY <1>1, <1>5 DEF siVars, SiTypeOK
    <2>4. Stored' /\ CallSent' /\ PrimaryFirst' /\ ReadsCurrent'
      BY <1>5 DEF siVars, ReadInv, Stored, CallSent, PrimaryFirst, ReadsCurrent
    <2>5. Served' /\ Kept'
      BY <1>5, <2>1, <2>2 DEF siVars, ReadInv, Served, Kept
    <2> QED
      BY <2>3, <2>4, <2>5 DEF ReadInv
  <1> QED
    BY <1>2, <1>3, <1>4, <1>5 DEF Next, Finished

\* The invariant holds.
LEMMA ReadsInvariant == Spec => []ReadInv
  BY InitReads, NextReads, PTL DEF Spec

\* Every reachable state is typed: in particular a key of the Masstree is a secondary
\* key and a version word, and no delete names a record that was never put
\* (get_and_put_value_version queues one only when there was an old record).
THEOREM SiTypeCorrect == Spec => []SiTypeOK
  <1>1. ReadInv => SiTypeOK
    BY DEF ReadInv
  <1> QED
    BY <1>1, ReadsInvariant, PTL

\* A read returns only keys that had the value at some time during the read, for
\* every number of threads, coroutines and keys: ReadLog compares the value of every
\* key it is sent, and it is sent only keys that the primary has.
THEOREM SiReadsCurrent == Spec => []ReadsCurrent
  <1>1. ReadInv => ReadsCurrent
    BY DEF ReadInv
  <1> QED
    BY <1>1, ReadsInvariant, PTL

-----------------------------------------------------------------------------
(* Records and their entries. *)

\* A step that leaves the records and the entries, starts or ends no update of the
\* index and makes no delete.
Quiet ==
    /\ UNCHANGED <<pindex, olds>>
    /\ DOMAIN sindex' = DOMAIN sindex /\ \A k \in DOMAIN sindex : sindex'[k] = sindex[k]
    /\ \A c \in Coros : net[c].op \in PendingOps \/ net'[c].op \in PendingOps =>
         /\ net[c].op \in PendingOps /\ net'[c].op \in PendingOps
         /\ net'[c].version = net[c].version
         /\ ctx'[c].pkey = ctx[c].pkey /\ ctx'[c].skey = ctx[c].skey
    /\ \A v \in Nat : Deleted(v)' => Deleted(v)
    /\ \A i \in IThreads : mn'[i].max_del >= mn[i].max_del

\* A quiet step keeps the invariant.
LEMMA QuietVersions ==
    ASSUME SiTypeOK, SiTypeOK', VersionInv, Quiet
    PROVE  VersionInv'
  <1>1. UNCHANGED <<pindex, olds>>
    BY DEF Quiet
  <1>2. Puts' = Puts
    BY <1>1 DEF Puts, Record
  <1>3. DeletesOld'
    BY <1>1 DEF VersionInv, DeletesOld, Quiet
  <1>4. PendingPut'
    BY <1>2 DEF VersionInv, PendingPut, Quiet
  <1>5. Entered'
    BY <1>2 DEF VersionInv, Entered, Quiet
  <1>6. ASSUME NEW p \in PKeys, pindex[p] # Absent
        PROVE  (HasEntry(p) \/ Pending(p) \/ Skipped(p))'
    <2>1. HasEntry(p) \/ Pending(p) \/ Skipped(p)
      BY <1>6 DEF VersionInv, Accounted
    <2>2. CASE HasEntry(p)
      BY <1>1, <2>2 DEF HasEntry, InsertKey, Quiet
    <2>3. CASE Pending(p)
      BY <1>1, <2>3 DEF Pending, Quiet
    <2>4. CASE Skipped(p)
      <3>1. PICK i \in IThreads : i = get_index_thread_id(p)
        BY ThreadRange
      <3>2. /\ mn[i].max_del \in Nat /\ mn'[i].max_del \in Nat /\ pindex[p].version \in Nat
            /\ mn'[i].max_del >= mn[i].max_del
        BY DEF SiTypeOK, Records, Quiet
      <3>3. mn[i].max_del >= pindex[p].version
        BY <2>4, <3>1 DEF Skipped
      <3>4. mn'[i].max_del >= pindex'[p].version
        BY <1>1, <3>2, <3>3
      <3> QED
        BY <3>1, <3>4 DEF Skipped, get_index_thread_id
    <2> QED
      BY <2>1, <2>2, <2>3, <2>4
  <1>7. Accounted'
    BY <1>1, <1>6 DEF Accounted
  <1> QED
    BY <1>3, <1>4, <1>5, <1>7 DEF VersionInv

\* The elements of a tail.
LEMMA TailEntries ==
    ASSUME NEW S, NEW q \in Seq(S), q # <<>>
    PROVE  /\ Tail(q) \in Seq(S)
           /\ \A n \in DOMAIN Tail(q) : n + 1 \in DOMAIN q /\ Tail(q)[n] = q[n + 1]
  <1>1. Tail(q) \in Seq(S) /\ Len(Tail(q)) = Len(q) - 1 /\ Len(q) \in Nat
    OBVIOUS
  <1>2. DOMAIN Tail(q) = 1 .. Len(Tail(q)) /\ DOMAIN q = 1 .. Len(q)
    BY <1>1
  <1>3. ASSUME NEW n \in DOMAIN Tail(q)
        PROVE  n + 1 \in DOMAIN q /\ Tail(q)[n] = q[n + 1]
    BY <1>1, <1>2, <1>3
  <1> QED
    BY <1>1, <1>3

\* Deletes move from a data thread's queue to an index thread; none is made up.
LEMMA EndPollDeletes ==
    ASSUME SiTypeOK, NEW d \in DThreads, EndPoll(d), NEW v \in Nat, Deleted(v)'
    PROVE  Deleted(v)
  <1>1. /\ dn \in [DThreads -> DataThread] /\ dn[d] \in DataThread
        /\ rc \in [DThreads -> Seq(Seq(Deletes))]
    BY DEF SiTypeOK, DataThread
  <1>2. PICK Q \in Seq(Deletes) : Q = dn[d].del_queue
    BY <1>1 DEF DataThread
  <1>3. mn' = mn /\ \A e \in DThreads \ {d} : dn'[e] = dn[e]
    BY <1>1 DEF EndPoll
  <1>4. CASE Len(dn[d].del_queue) >= kMaxDelQueue
    <2>1. rc' = [rc EXCEPT ![d] = Append(rc[d], Q)]
      BY <1>2, <1>4 DEF EndPoll
    <2>2. dn'[d].del_queue = <<>>
      BY <1>1, <1>4 DEF EndPoll, DataThread
    <2>3. \A e \in DThreads : \A n \in DOMAIN dn'[e].del_queue :
             n \in DOMAIN dn[e].del_queue /\ dn'[e].del_queue[n] = dn[e].del_queue[n]
      BY <1>3, <2>2
    <2>4. ASSUME NEW e \in DThreads, NEW m \in DOMAIN rc'[e], NEW n \in DOMAIN rc'[e][m],
                 rc'[e][m][n].version = v
          PROVE  Deleted(v)
      <3>1. CASE e # d
        <4>1. rc'[e] = rc[e]
          BY <1>1, <2>1, <3>1
        <4> QED
          BY <2>4, <4>1 DEF Deleted
      <3>2. CASE e = d
        <4>1. PICK R \in Seq(Seq(Deletes)) : R = rc[d]
          BY <1>1
        <4>2. rc'[e] = Append(R, Q)
          BY <1>1, <2>1, <3>2, <4>1
        <4>3. CASE m = Len(R) + 1
          <5>1. rc'[e][m] = Q
            BY <4>2, <4>3
          <5>2. n \in DOMAIN dn[d].del_queue /\ dn[d].del_queue[n].version = v
            BY <1>2, <2>4, <5>1
          <5> QED
            BY <5>2 DEF Deleted
        <4>4. CASE m # Len(R) + 1
          <5>1. m \in DOMAIN R /\ rc'[e][m] = R[m]
            BY <4>2, <4>4
          <5>2. m \in DOMAIN rc[d] /\ n \in DOMAIN rc[d][m] /\ rc[d][m][n].version = v
            BY <2>4, <4>1, <5>1
          <5> QED
            BY <5>2 DEF Deleted
        <4> QED
          BY <4>3, <4>4
      <3> QED
        BY <3>1, <3>2
    <2> QED
      BY <1>3, <2>3, <2>4 DEF Deleted
  <1>5. CASE ~(Len(dn[d].del_queue) >= kMaxDelQueue)
    <2>1. rc' = rc /\ dn'[d].del_queue = dn[d].del_queue
      BY <1>1, <1>5 DEF EndPoll, DataThread
    <2> QED
      BY <1>3, <2>1 DEF Deleted
  <1> QED
    BY <1>4, <1>5

\* DelSIndex takes the first message.
LEMMA ArriveDeletes ==
    ASSUME SiTypeOK, NEW d \in DThreads, DelSIndex(d), NEW v \in Nat, Deleted(v)'
    PROVE  Deleted(v)
  <1>1. PICK R \in Seq(Seq(Deletes)) : R = rc[d] /\ R # <<>>
    BY DEF SiTypeOK, DelSIndex
  <1>2. PICK D \in Seq(Deletes) : D = Head(R) /\ D = R[1] /\ 1 \in DOMAIN R
    BY <1>1
  <1>3. PICK T \in Seq(Seq(Deletes)) :
          T = Tail(R) /\ \A m \in DOMAIN T : m + 1 \in DOMAIN R /\ T[m] = R[m + 1]
    BY <1>1, TailEntries
  <1>4. PICK i \in IThreads : i = d % mn_thread
    BY ThreadRange
  <1>5. /\ dn' = dn
        /\ rc' = [rc EXCEPT ![d] = T] /\ rc \in [DThreads -> Seq(Seq(Deletes))]
        /\ mn' = [mn EXCEPT ![i].deletes = D]
        /\ mn \in [IThreads -> [max_del : Nat, deletes : Seq(Deletes)]]
    BY <1>1, <1>2, <1>3, <1>4 DEF DelSIndex, SiTypeOK
  <1>6. /\ \A j \in IThreads : mn'[j].max_del = mn[j].max_del
        /\ \A j \in IThreads : j # i => mn'[j].deletes = mn[j].deletes
        /\ mn'[i].deletes = D
    BY <1>5
  <1>7. \A e \in DThreads \ {d} : rc'[e] = rc[e]
    BY <1>5
  <1>8. rc'[d] = T
    BY <1>5
  <1>9. ASSUME NEW n \in DOMAIN D, D[n].version = v
        PROVE  Deleted(v)
    BY <1>1, <1>2, <1>9 DEF Deleted
  <1>10. ASSUME NEW m \in DOMAIN T, NEW n \in DOMAIN T[m], T[m][n].version = v
         PROVE  Deleted(v)
    <2>1. PICK l \in DOMAIN rc[d] : rc[d][l] = T[m]
      BY <1>1, <1>3
    <2> QED
      BY <1>10, <2>1 DEF Deleted
  <1>11. ASSUME NEW e \in DThreads, NEW m \in DOMAIN rc'[e], NEW n \in DOMAIN rc'[e][m],
                rc'[e][m][n].version = v
         PROVE  Deleted(v)
    <2>1. CASE e = d
      BY <1>8, <1>10, <1>11, <2>1
    <2>2. CASE e # d
      BY <1>7, <1>11, <2>2 DEF Deleted
    <2> QED
      BY <2>1, <2>2
  <1>12. ASSUME NEW j \in IThreads, NEW n \in DOMAIN mn'[j].deletes,
                mn'[j].deletes[n].version = v
         PROVE  Deleted(v)
    <2>1. CASE j = i
      BY <1>6, <1>9, <1>12, <2>1
    <2>2. CASE j # i
      BY <1>6, <1>12, <2>2 DEF Deleted
    <2> QED
      BY <2>1, <2>2
  <1>13. \/ \E e \in DThreads : \E n \in DOMAIN dn[e].del_queue : dn[e].del_queue[n].version = v
         \/ \E e \in DThreads : \E m \in DOMAIN rc'[e] : \E n \in DOMAIN rc'[e][m] :
                rc'[e][m][n].version = v
         \/ \E j \in IThreads : \E n \in DOMAIN mn'[j].deletes : mn'[j].deletes[n].version = v
         \/ \E j \in IThreads : mn[j].max_del = v
    BY <1>5, <1>6 DEF Deleted
  <1> QED
    BY <1>11, <1>12, <1>13 DEF Deleted

\* process_sindex_del keeps the highest version.
LEMMA ApplyDeletes ==
    ASSUME SiTypeOK, NEW i \in IThreads, process_sindex_del(i)
    PROVE  /\ \A v \in Nat : Deleted(v)' => Deleted(v)
           /\ \A j \in IThreads : mn'[j].max_del >= mn[j].max_del
  <1>1. PICK D \in Seq(Deletes) : D = mn[i].deletes /\ D # <<>>
    BY DEF SiTypeOK, process_sindex_del
  <1>2. PICK T \in Seq(Deletes) :
          T = Tail(D) /\ \A n \in DOMAIN T : n + 1 \in DOMAIN D /\ T[n] = D[n + 1]
    BY <1>1, TailEntries
  <1>3. Head(D) = D[1] /\ 1 \in DOMAIN D /\ D[1] \in Deletes
    BY <1>1
  <1>4. PICK w \in Nat, x \in Nat : w = D[1].version /\ x = mn[i].max_del
    BY <1>3 DEF SiTypeOK, Deletes
  <1>5. PICK y \in Nat : y = Max({x, w}) /\ y \in {x, w} /\ y >= x
    <2>1. Max({x, w}) \in {x, w} /\ Max({x, w}) >= x
      BY MaxOfTwo
    <2> QED
      BY <2>1
  <1>6. /\ mn' = [mn EXCEPT ![i].deletes = T, ![i].max_del = y] /\ UNCHANGED <<dn, rc>>
        /\ mn \in [IThreads -> [max_del : Nat, deletes : Seq(Deletes)]]
    BY <1>1, <1>2, <1>3, <1>4, <1>5 DEF process_sindex_del, SiTypeOK
  <1>7. /\ \A j \in IThreads : j # i => mn'[j] = mn[j]
        /\ mn'[i].deletes = T /\ mn'[i].max_del = y
    BY <1>6
  <1>8. \A j \in IThreads : mn'[j].max_del >= mn[j].max_del
    BY <1>4, <1>5, <1>6, <1>7
  <1>9. ASSUME NEW v \in Nat, Deleted(v)'
        PROVE  Deleted(v)
    <2>1. ASSUME NEW j \in IThreads, NEW n \in DOMAIN mn'[j].deletes,
                 mn'[j].deletes[n].version = v
          PROVE  Deleted(v)
      <3>1. CASE j = i
        <4>1. PICK l \in DOMAIN mn[i].deletes : mn[i].deletes[l].version = v
          BY <1>1, <1>2, <1>7, <2>1, <3>1
        <4> QED
          BY <4>1 DEF Deleted
      <3>2. CASE j # i
        BY <1>7, <2>1, <3>2 DEF Deleted
      <3> QED
        BY <3>1, <3>2
    <2>2. ASSUME NEW j \in IThreads, mn'[j].max_del = v
          PROVE  Deleted(v)
      <3>1. CASE j = i
        <4>1. v = x \/ v = w
          BY <1>5, <1>7, <2>2, <3>1
        <4> QED
          BY <1>1, <1>3, <1>4, <4>1 DEF Deleted
      <3>2. CASE j # i
        BY <1>7, <2>2, <3>2 DEF Deleted
      <3> QED
        BY <3>1, <3>2
    <2>3. \/ \E d \in DThreads : \E n \in DOMAIN dn[d].del_queue : dn[d].del_queue[n].version = v
          \/ \E d \in DThreads : \E m \in DOMAIN rc[d] : \E n \in DOMAIN rc[d][m] :
                 rc[d][m][n].version = v
          \/ \E j \in IThreads : \E n \in DOMAIN mn'[j].deletes : mn'[j].deletes[n].version = v
          \/ \E j \in IThreads : mn'[j].max_del = v
      BY <1>6, <1>9 DEF Deleted
    <2> QED
      BY <2>1, <2>2, <2>3 DEF Deleted
  <1> QED
    BY <1>8, <1>9

\* get_and_put_value_version deletes the version of the record it replaces.
LEMMA PutDeletes ==
    ASSUME SiTypeOK, Stored, NEW d \in DThreads, get_and_put(d), NEW p \in PKeys,
           p = net[dn[d].frame.c].pkey, NEW v \in Nat, Deleted(v)'
    PROVE  Deleted(v) \/ (pindex[p] # Absent /\ v = pindex[p].version)
  <1>1. dn \in [DThreads -> DataThread] /\ dn[d] \in DataThread
    BY DEF SiTypeOK, DataThread
  <1>2. PICK Q \in Seq(Deletes) : Q = dn[d].del_queue
    BY <1>1 DEF DataThread
  <1>3. UNCHANGED <<rc, mn>> /\ \A e \in DThreads \ {d} : dn'[e] = dn[e]
    BY <1>1 DEF get_and_put
  <1>4. CASE pindex[p] = Absent
    <2>1. \A value : OldEntry(p, value, pindex[p]) = <<>>
      BY <1>4 DEF OldEntry
    <2>2. dn'[d].del_queue = Q \o <<>>
      BY <1>1, <1>2, <2>1 DEF get_and_put, DataThread
    <2>3. Q \o <<>> = Q
      OBVIOUS
    <2> QED
      BY <1>2, <1>3, <2>2, <2>3 DEF Deleted
  <1>5. CASE pindex[p] # Absent
    <2>1. pindex[p].value \in SKeys /\ pindex[p].version \in Nat
      BY <1>5 DEF SiTypeOK, Records, Stored
    <2>2. PICK x \in Deletes :
            x = [skey |-> pindex[p].value, version |-> pindex[p].version, pkey |-> p]
      BY <2>1 DEF Deletes
    <2>3. \A value : OldEntry(p, value, pindex[p]) = <<x>>
      BY <1>5, <2>2 DEF OldEntry
    <2>4. dn'[d].del_queue = Q \o <<x>>
      BY <1>1, <1>2, <2>3 DEF get_and_put, DataThread
    <2>5. \A n \in DOMAIN (Q \o <<x>>) :
             (n \in DOMAIN Q /\ (Q \o <<x>>)[n] = Q[n]) \/ (Q \o <<x>>)[n] = x
      OBVIOUS
    <2>6. ASSUME NEW e \in DThreads, NEW n \in DOMAIN dn'[e].del_queue,
                 dn'[e].del_queue[n].version = v
          PROVE  Deleted(v) \/ v = pindex[p].version
      <3>1. CASE e = d
        <4>1. (n \in DOMAIN Q /\ Q[n].version = v) \/ x.version = v
          BY <2>4, <2>5, <2>6, <3>1
        <4> QED
          BY <1>2, <2>2, <4>1 DEF Deleted
      <3>2. CASE e # d
        BY <1>3, <2>6, <3>2 DEF Deleted
      <3> QED
        BY <3>1, <3>2
    <2> QED
      BY <1>3, <1>5, <2>6 DEF Deleted
  <1> QED
    BY <1>4, <1>5

\* What get_and_put does, with its packet's fields named.
LEMMA PutEffect ==
    ASSUME ReadInv, NEW d \in DThreads, get_and_put(d)
    PROVE  \E c \in Coros, p \in PKeys, s \in SKeys, v \in Nat :
             /\ dn[d].at = "put" /\ v = dn[d].frame.version
             /\ c = dn[d].frame.c /\ net[c].op = "AppendReq"
             /\ p = net[c].pkey /\ p = ctx[c].pkey /\ s = ctx[c].skey
             /\ \A q \in PKeys \ {p} : pindex'[q] = pindex[q]
             /\ pindex'[p].value = s /\ pindex'[p].version = v /\ pindex'[p] # Absent
             /\ \A e \in Coros \ {c} : net'[e] = net[e]
             /\ net'[c].op = "AppendReply" /\ net'[c].version = v
             /\ \A e \in DThreads \ {d} : dn'[e] = dn[e]
             /\ dn'[d].at = "serve"
             /\ UNCHANGED <<rc, sindex, mn, ctx>>
             /\ olds' = IF pindex[p] = Absent THEN olds ELSE olds \cup {Record(p)}
  <1>1. /\ dn \in [DThreads -> DataThread] /\ net \in [Coros -> Packets]
        /\ pindex \in [PKeys -> Records] /\ CallSent /\ Served
    BY DEF ReadInv, SiTypeOK, DataThread
  <1>2. PICK c \in Coros, v \in Nat : c = dn[d].frame.c /\ v = dn[d].frame.version
    BY <1>1 DEF DataThread, Frames
  <1>3. dn[d].at = "put" /\ net[c].op = "AppendReq"
    BY <1>1, <1>2 DEF get_and_put, Served
  <1>4. PICK p \in PKeys, s \in SKeys :
          p = net[c].pkey /\ s = net[c].skey /\ p = ctx[c].pkey /\ s = ctx[c].skey
    BY <1>1, <1>3, PacketFields DEF CallSent
  <1>5. /\ pindex' = [pindex EXCEPT ![p] = [value |-> s, version |-> v]]
        /\ net' = [net EXCEPT ![c] = [op |-> "AppendReply", version |-> v]]
        /\ UNCHANGED <<rc, sindex, mn, ctx>>
    BY <1>2, <1>4 DEF get_and_put
  <1>10. olds' = IF pindex[p] = Absent THEN olds ELSE olds \cup {Record(p)}
    BY <1>2, <1>4 DEF get_and_put
  <1>6. s # 0
    BY SiAssumption
  <1>7. /\ \A q \in PKeys \ {p} : pindex'[q] = pindex[q]
        /\ pindex'[p].value = s /\ pindex'[p].version = v /\ pindex'[p] # Absent
    BY <1>1, <1>5, <1>6 DEF Absent
  <1>8. /\ \A e \in Coros \ {c} : net'[e] = net[e]
        /\ net'[c].op = "AppendReply" /\ net'[c].version = v
    BY <1>1, <1>5
  <1>9. (\A e \in DThreads \ {d} : dn'[e] = dn[e]) /\ dn'[d].at = "serve"
    BY <1>1 DEF get_and_put, DataThread
  <1> QED
    BY <1>2, <1>3, <1>4, <1>5, <1>7, <1>8, <1>9, <1>10

\* AppendReq: the record is put and on its way to the index; the old one, if there is
\* one, is deleted.
LEMMA PutVersions ==
    ASSUME ReadInv, VersionInv, NEW d \in DThreads, get_and_put(d)
    PROVE  VersionInv'
  <1>1. PICK c \in Coros, p \in PKeys, s \in SKeys, v \in Nat :
             /\ dn[d].at = "put" /\ v = dn[d].frame.version
             /\ c = dn[d].frame.c /\ net[c].op = "AppendReq"
             /\ p = net[c].pkey /\ p = ctx[c].pkey /\ s = ctx[c].skey
             /\ \A q \in PKeys \ {p} : pindex'[q] = pindex[q]
             /\ pindex'[p].value = s /\ pindex'[p].version = v /\ pindex'[p] # Absent
             /\ \A e \in Coros \ {c} : net'[e] = net[e]
             /\ net'[c].op = "AppendReply" /\ net'[c].version = v
             /\ \A e \in DThreads \ {d} : dn'[e] = dn[e]
             /\ dn'[d].at = "serve"
             /\ UNCHANGED <<rc, sindex, mn, ctx>>
             /\ olds' = IF pindex[p] = Absent THEN olds ELSE olds \cup {Record(p)}
    BY PutEffect
  <1>2. SiTypeOK /\ Stored /\ DeletesOld /\ PendingPut /\ Entered /\ Accounted
    BY DEF ReadInv, VersionInv
  <1>3. olds \subseteq olds' /\ (pindex[p] # Absent => Record(p) \in olds')
    BY <1>1
  <1>4. Puts \subseteq Puts'
    <2> SUFFICES ASSUME NEW q \in PKeys, pindex[q] # Absent PROVE Record(q) \in Puts'
      BY <1>3 DEF Puts
    <2>1. CASE q = p
      BY <1>3, <2>1 DEF Puts
    <2>2. CASE q # p
      <3>1. pindex'[q] = pindex[q] /\ Record(q)' = Record(q)
        BY <1>1, <2>2 DEF Record
      <3> QED
        BY <3>1 DEF Puts
    <2> QED
      BY <2>1, <2>2
  <1>5. [skey |-> s, version |-> v, pkey |-> p] \in Puts'
    <2>1. Record(p)' = [skey |-> s, version |-> v, pkey |-> p]
      BY <1>1 DEF Record
    <2> QED
      BY <1>1, <2>1 DEF Puts
  <1>6. DeletesOld'
    <2> SUFFICES ASSUME NEW w \in Nat, Deleted(w)'
                 PROVE  w = 0 \/ \E r \in olds' : r.version = w
      BY DEF DeletesOld
    <2>1. CASE Deleted(w)
      BY <1>2, <1>3, <2>1 DEF DeletesOld
    <2>2. CASE pindex[p] # Absent /\ w = pindex[p].version
      <3>1. Record(p).version = w
        BY <2>2 DEF Record
      <3> QED
        BY <1>3, <2>2, <3>1
    <2> QED
      BY <1>1, <1>2, <2>1, <2>2, PutDeletes
  <1>7. PendingPut'
    <2> SUFFICES ASSUME NEW e \in Coros, net'[e].op \in PendingOps
                 PROVE  [skey |-> ctx[e].skey, version |-> net'[e].version,
                         pkey |-> ctx[e].pkey] \in Puts'
      BY <1>1 DEF PendingPut
    <2>1. CASE e = c
      BY <1>1, <1>5, <2>1
    <2>2. CASE e # c
      BY <1>1, <1>2, <1>4, <2>2 DEF PendingPut
    <2> QED
      BY <2>1, <2>2
  <1>8. Entered'
    BY <1>1, <1>2, <1>4 DEF Entered
  <1>9. ASSUME NEW q \in PKeys, pindex'[q] # Absent
        PROVE  (HasEntry(q) \/ Pending(q) \/ Skipped(q))'
    <2>1. CASE q = p
      BY <1>1, <2>1 DEF Pending, PendingOps
    <2>2. CASE q # p
      <3>1. pindex'[q] = pindex[q]
        BY <1>1, <2>2
      <3>2. HasEntry(q) \/ Pending(q) \/ Skipped(q)
        BY <1>2, <1>9, <3>1 DEF Accounted
      <3>3. CASE HasEntry(q)
        BY <1>1, <3>1, <3>3 DEF HasEntry, InsertKey
      <3>4. CASE Pending(q)
        BY <1>1, <3>1, <3>4 DEF Pending, PendingOps
      <3>5. CASE Skipped(q)
        BY <1>1, <3>1, <3>5 DEF Skipped, get_index_thread_id
      <3> QED
        BY <3>2, <3>3, <3>4, <3>5
    <2> QED
      BY <2>1, <2>2
  <1>10. Accounted'
    BY <1>9 DEF Accounted
  <1> QED
    BY <1>6, <1>7, <1>8, <1>10 DEF VersionInv

\* UpdateIndexReq makes an entry of its record, unless its thread was sent a delete
\* that is not below.
LEMMA UpdateVersions ==
    ASSUME ReadInv, VersionInv, NEW i \in IThreads, NEW c \in Coros, UpdateIndex(i, c)
    PROVE  VersionInv'
  <1>1. /\ net \in [Coros -> Packets] /\ pindex \in [PKeys -> Records]
        /\ mn \in [IThreads -> [max_del : Nat, deletes : Seq(Deletes)]]
        /\ CallSent /\ DeletesOld /\ PendingPut /\ Entered /\ Accounted
    BY DEF ReadInv, SiTypeOK, VersionInv
  <1>2. net[c].op = "UpdateIndexReq" /\ i = get_index_thread_id(ctx[c].pkey)
    BY DEF UpdateIndex, IndexPacket
  <1>3. PICK s \in SKeys, v \in Nat, p \in PKeys :
          /\ s = net[c].skey /\ v = net[c].version /\ p = net[c].pkey
          /\ s = ctx[c].skey /\ p = ctx[c].pkey
    BY <1>1, <1>2, PacketFields DEF CallSent, PendingOps
  <1>4. /\ UNCHANGED <<pindex, olds, dn, rc, mn, ctx>>
        /\ \A e \in Coros \ {c} : net'[e] = net[e]
        /\ net'[c].op = "UpdateIndexReply"
    BY <1>1 DEF UpdateIndex
  <1>5. sindex' = IF v > mn[i].max_del THEN put_vector_key(sindex, InsertKey(s, v), p) ELSE sindex
    BY <1>3 DEF UpdateIndex
  <1>6. PICK k : k = InsertKey(s, v)
    OBVIOUS
  <1>7. /\ DOMAIN sindex \subseteq DOMAIN sindex'
        /\ v > mn[i].max_del => k \in DOMAIN sindex'
        /\ \A j \in DOMAIN sindex' :
             (j \in DOMAIN sindex /\ sindex'[j] = sindex[j]) \/ (j = k /\ sindex'[j] = p)
    BY <1>5, <1>6 DEF put_vector_key
  <1>8. Puts' = Puts
    BY <1>4 DEF Puts, Record
  <1>9. DeletesOld'
    <2>1. \A w \in Nat : Deleted(w)' => Deleted(w)
      BY <1>4 DEF Deleted
    <2> QED
      BY <1>1, <1>4, <2>1 DEF DeletesOld
  <1>10. PendingPut'
    BY <1>1, <1>4, <1>8 DEF PendingPut, PendingOps
  <1>11. Entered'
    <2>1. PICK r \in Puts : r = [skey |-> s, version |-> v, pkey |-> p]
      BY <1>1, <1>2, <1>3 DEF PendingPut, PendingOps
    <2>2. r.pkey = p /\ InsertKey(r.skey, r.version) = k
      BY <1>6, <2>1
    <2> SUFFICES ASSUME NEW j \in DOMAIN sindex'
                 PROVE  \E x \in Puts : x.pkey = sindex'[j] /\ InsertKey(x.skey, x.version) = j
      BY <1>8 DEF Entered, InsertKey
    <2>3. CASE j \in DOMAIN sindex /\ sindex'[j] = sindex[j]
      BY <1>1, <2>3 DEF Entered
    <2>4. CASE j = k /\ sindex'[j] = p
      BY <2>2, <2>4
    <2> QED
      BY <1>7, <2>3, <2>4
  <1>12. ASSUME NEW q \in PKeys, pindex[q] # Absent
         PROVE  (HasEntry(q) \/ Pending(q) \/ Skipped(q))'
    <2>1. PICK t \in SKeys, w \in Nat : t = pindex[q].value /\ w = pindex[q].version
      BY <1>1, <1>12 DEF Records, ReadInv, Stored
    <2>2. HasEntry(q) \/ Pending(q) \/ Skipped(q)
      BY <1>1, <1>12 DEF Accounted
    <2>3. CASE HasEntry(q)
      BY <1>4, <1>7, <2>3 DEF HasEntry, InsertKey
    <2>4. CASE Skipped(q)
      BY <1>4, <2>4 DEF Skipped, get_index_thread_id
    <2>5. CASE Pending(q) /\ ~(p = q /\ s = t /\ v = w)
      BY <1>2, <1>3, <1>4, <2>1, <2>5 DEF Pending
    <2>6. CASE p = q /\ s = t /\ v = w
      <3>1. CASE v > mn[i].max_del
        <4>1. InsertKey(t, w) \in DOMAIN sindex'
          BY <1>6, <1>7, <2>6, <3>1
        <4> QED
          BY <1>4, <2>1, <4>1 DEF HasEntry, InsertKey
      <3>2. CASE ~(v > mn[i].max_del)
        <4>1. mn[i].max_del \in Nat
          BY <1>1
        <4>2. mn[i].max_del >= w
          BY <2>6, <3>2, <4>1
        <4> QED
          BY <1>2, <1>3, <1>4, <2>1, <2>6, <4>2 DEF Skipped, get_index_thread_id
      <3> QED
        BY <3>1, <3>2
    <2> QED
      BY <2>2, <2>3, <2>4, <2>5, <2>6
  <1>13. Accounted'
    BY <1>4, <1>12 DEF Accounted
  <1> QED
    BY <1>9, <1>10, <1>11, <1>13 DEF VersionInv

\* The steps of a client are quiet.
LEMMA ClientQuiet ==
    ASSUME ReadInv, NEW c \in Coros, put_primary(c) \/ get_secondary(c) \/ ClientStep(c)
    PROVE  Quiet
  <1>1. /\ SiTypeOK /\ CallSent
        /\ net \in [Coros -> Packets]
        /\ ctx \in [Coros -> [call : {"idle", "SW", "SRS"}, pkey : PKeys, skey : SKeys]]
        /\ mn \in [IThreads -> [max_del : Nat, deletes : Seq(Deletes)]]
    BY DEF ReadInv, SiTypeOK
  <1>2. UNCHANGED <<pindex, olds, dn, rc, sindex, mn>>
    BY DEF put_primary, get_secondary, ClientStep, put_secondary, get_primary, CallReturns
  <1>3. \A v \in Nat : Deleted(v)' => Deleted(v)
    BY <1>2 DEF Deleted
  <1>4. \A e \in Coros \ {c} : net'[e] = net[e] /\ ctx'[e] = ctx[e]
    BY <1>1 DEF put_primary, get_secondary, ClientStep, put_secondary, get_primary, CallReturns
  <1>5. /\ net'[c].op \in PendingOps =>
             /\ net[c].op \in PendingOps /\ net'[c].version = net[c].version /\ ctx' = ctx
        /\ net[c].op \in PendingOps =>
             net'[c].op \in PendingOps /\ net'[c].version = net[c].version
    <2>1. CASE put_primary(c)
      BY <1>1, <2>1 DEF put_primary, CallSent, PendingOps
    <2>2. CASE get_secondary(c)
      BY <1>1, <2>2 DEF get_secondary, CallSent, PendingOps
    <2>3. CASE put_secondary(c)
      BY <1>1, <2>3 DEF put_secondary, PendingOps
    <2>4. CASE get_primary(c)
      BY <1>1, <2>4 DEF get_primary, PendingOps
    <2>5. CASE CallReturns(c)
      <3>1. None.op = "none"
        BY DEF None
      <3> QED
        BY <1>1, <2>5, <3>1 DEF CallReturns, PendingOps
    <2> QED
      BY <2>1, <2>2, <2>3, <2>4, <2>5 DEF ClientStep
  <1>6. \A i \in IThreads : mn'[i].max_del >= mn[i].max_del
    BY <1>1, <1>2
  <1> QED
    BY <1>2, <1>3, <1>4, <1>5, <1>6 DEF Quiet

\* So are those of a data thread but get_and_put.
LEMMA DataQuiet ==
    ASSUME ReadInv, NEW d \in DThreads,
           \/ Poll(d) \/ get_value_version(d) \/ ReadReply(d) \/ EndPoll(d)
           \/ \E c \in Coros : get_version(d, c) \/ ReadLog(d, c)
    PROVE  Quiet
  <1>1. /\ SiTypeOK /\ Served
        /\ net \in [Coros -> Packets]
        /\ dn \in [DThreads -> DataThread] /\ dn[d] \in DataThread
        /\ mn \in [IThreads -> [max_del : Nat, deletes : Seq(Deletes)]]
    BY DEF ReadInv, SiTypeOK, DataThread
  <1>2. UNCHANGED <<pindex, olds, sindex, mn, ctx>>
    BY DEF Poll, get_value_version, ReadReply, EndPoll, get_version, ReadLog
  <1>3. \A e \in DThreads \ {d} : dn'[e] = dn[e]
    BY <1>1 DEF Poll, get_value_version, ReadReply, EndPoll, get_version, ReadLog
  <1>4. \A c \in Coros : net'[c] = net[c] \/ (net[c].op \notin PendingOps
                                               /\ net'[c].op \notin PendingOps)
    <2>1. CASE ReadReply(d)
      BY <1>1, <2>1 DEF ReadReply, Served, PendingOps
    <2>2. CASE ~ReadReply(d)
      BY <2>2 DEF Poll, get_value_version, EndPoll, get_version, ReadLog
    <2> QED
      BY <2>1, <2>2
  <1>5. \A v \in Nat : Deleted(v)' => Deleted(v)
    <2>1. CASE EndPoll(d)
      BY <1>1, <2>1, EndPollDeletes
    <2>2. CASE ~EndPoll(d)
      <3>1. rc' = rc
        BY <2>2 DEF Poll, get_value_version, ReadReply, get_version, ReadLog
      <3>2. dn'[d].del_queue = dn[d].del_queue
        <4>1. CASE Poll(d)
          <5>1. PICK S : dn' = [dn EXCEPT ![d].at = "serve", ![d].polled = S]
            BY <4>1 DEF Poll
          <5> QED
            BY <1>1, <5>1 DEF DataThread
        <4>2. CASE get_value_version(d)
          <5>1. PICK f : dn' = [dn EXCEPT ![d].frame = f]
            BY <4>2 DEF get_value_version
          <5> QED
            BY <1>1, <5>1 DEF DataThread
        <4>3. CASE ReadReply(d)
          BY <1>1, <4>3 DEF ReadReply, DataThread
        <4>4. ASSUME NEW c \in Coros, ReadLog(d, c)
              PROVE  dn'[d].del_queue = dn[d].del_queue
          <5>1. PICK f \in Frames : f = dn[d].frame
            BY <1>1 DEF DataThread
          <5> QED
            BY <1>1, <4>4, <5>1 DEF ReadLog, DataThread, Frames
        <4>5. ASSUME NEW c \in Coros, get_version(d, c)
              PROVE  dn'[d].del_queue = dn[d].del_queue
          <5>1. PICK f \in Frames : f = dn[d].frame
            BY <1>1 DEF DataThread
          <5>2. PICK v : dn' = [dn EXCEPT ![d].at = "put", ![d].polled = @ \ {c},
                                          ![d].frame.c = c, ![d].frame.version = v]
            BY <4>5 DEF get_version
          <5> QED
            BY <1>1, <5>1, <5>2 DEF DataThread, Frames
        <4> QED
          BY <2>2, <4>1, <4>2, <4>3, <4>4, <4>5
      <3>3. \A e \in DThreads : dn'[e].del_queue = dn[e].del_queue
        BY <1>3, <3>2
      <3> QED
        BY <1>2, <3>1, <3>3 DEF Deleted
    <2> QED
      BY <2>1, <2>2
  <1>6. \A i \in IThreads : mn'[i].max_del >= mn[i].max_del
    BY <1>1, <1>2
  <1> QED
    BY <1>2, <1>4, <1>5, <1>6 DEF Quiet

\* The steps of an index thread other than UpdateIndexReq, and the arrival of deletes.
LEMMA IndexQuiet ==
    ASSUME ReadInv,
           \/ \E i \in IThreads : process_sindex_del(i) \/ \E c \in Coros : ReadIndex(i, c)
           \/ \E d \in DThreads : DelSIndex(d)
    PROVE  Quiet
  <1>1. /\ SiTypeOK /\ net \in [Coros -> Packets]
        /\ DOMAIN sindex \subseteq SKeys \X (0 .. WordSpace - 1)
        /\ mn \in [IThreads -> [max_del : Nat, deletes : Seq(Deletes)]]
    BY DEF ReadInv, SiTypeOK
  <1>2. ASSUME NEW i \in IThreads, process_sindex_del(i)
        PROVE  Quiet
    <2>1. DOMAIN sindex' = DOMAIN sindex /\ \A k \in DOMAIN sindex : sindex'[k] = sindex[k]
      BY <1>1, <1>2, RemoveNothing DEF process_sindex_del
    <2>2. /\ \A v \in Nat : Deleted(v)' => Deleted(v)
          /\ \A j \in IThreads : mn'[j].max_del >= mn[j].max_del
      BY <1>1, <1>2, ApplyDeletes
    <2>3. UNCHANGED <<pindex, olds, dn, net, ctx>>
      BY <1>2 DEF process_sindex_del
    <2> QED
      BY <2>1, <2>2, <2>3 DEF Quiet
  <1>3. ASSUME NEW i \in IThreads, NEW c \in Coros, ReadIndex(i, c)
        PROVE  Quiet
    <2>1. UNCHANGED <<pindex, olds, dn, rc, sindex, mn, ctx>>
      BY <1>3 DEF ReadIndex
    <2>2. \A v \in Nat : Deleted(v)' => Deleted(v)
      BY <2>1 DEF Deleted
    <2>3. PICK S : net' = [net EXCEPT ![c] = [op |-> "ReadIndexReply", pkeys |-> S]]
      BY <1>3, ScanEffect
    <2>4. /\ \A e \in Coros \ {c} : net'[e] = net[e]
          /\ net[c].op \notin PendingOps /\ net'[c].op \notin PendingOps
      BY <1>1, <1>3, <2>3 DEF ReadIndex, IndexPacket, PendingOps
    <2>5. \A j \in IThreads : mn'[j].max_del >= mn[j].max_del
      BY <1>1, <2>1
    <2> QED
      BY <2>1, <2>2, <2>4, <2>5 DEF Quiet
  <1>4. ASSUME NEW d \in DThreads, DelSIndex(d)
        PROVE  Quiet
    <2>1. UNCHANGED <<pindex, olds, dn, sindex, net, ctx>>
      BY <1>4 DEF DelSIndex
    <2>2. \A v \in Nat : Deleted(v)' => Deleted(v)
      BY <1>1, <1>4, ArriveDeletes
    <2>3. \A j \in IThreads : mn'[j].max_del >= mn[j].max_del
      <3>1. PICK i \in IThreads : i = d % mn_thread
        BY ThreadRange
      <3>2. \A j \in IThreads : mn'[j].max_del = mn[j].max_del
        BY <1>1, <1>4, <3>1 DEF DelSIndex
      <3> QED
        BY <1>1, <3>2
    <2> QED
      BY <2>1, <2>2, <2>3 DEF Quiet
  <1> QED
    BY <1>2, <1>3, <1>4

\* The initial state.
LEMMA InitVersions == Init => VersionInv
  <1> SUFFICES ASSUME Init PROVE VersionInv
    OBVIOUS
  <1>1. /\ \A p \in PKeys : pindex[p] = Absent
        /\ \A c \in Coros : net[c] = None
        /\ \A d \in DThreads : dn[d].del_queue = <<>> /\ rc[d] = <<>>
        /\ \A i \in IThreads : mn[i].max_del = 0 /\ mn[i].deletes = <<>>
        /\ DOMAIN sindex = {}
    BY DEF Init
  <1>2. \A c \in Coros : net[c].op \notin PendingOps
    <2>1. None.op = "none"
      BY DEF None
    <2> QED
      BY <1>1, <2>1 DEF PendingOps
  <1>3. \A v \in Nat : Deleted(v) => v = 0
    BY <1>1 DEF Deleted
  <1> QED
    BY <1>1, <1>2, <1>3 DEF VersionInv, DeletesOld, PendingPut, Entered, Accounted

\* Every step.
LEMMA NextVersions ==
    ASSUME ReadInv, ReadInv', VersionInv, [Next]_siVars
    PROVE  VersionInv'
  <1>1. SiTypeOK /\ SiTypeOK'
    BY DEF ReadInv
  <1>2. ASSUME Quiet PROVE VersionInv'
    BY <1>1, <1>2, QuietVersions
  <1>3. ASSUME NEW c \in Coros, put_primary(c) \/ get_secondary(c) \/ ClientStep(c)
        PROVE  VersionInv'
    BY <1>2, <1>3, ClientQuiet
  <1>4. ASSUME NEW d \in DThreads, DataStep(d)
        PROVE  VersionInv'
    <2>1. CASE get_and_put(d)
      BY <2>1, PutVersions
    <2>2. CASE \/ Poll(d) \/ get_value_version(d) \/ ReadReply(d) \/ EndPoll(d)
               \/ \E c \in Coros : get_version(d, c) \/ ReadLog(d, c)
      BY <1>2, <2>2, DataQuiet
    <2> QED
      BY <1>4, <2>1, <2>2 DEF DataStep
  <1>5. ASSUME NEW i \in IThreads, NEW c \in Coros, UpdateIndex(i, c)
        PROVE  VersionInv'
    BY <1>5, UpdateVersions
  <1>6. CASE \/ \E i \in IThreads : process_sindex_del(i) \/ \E c \in Coros : ReadIndex(i, c)
             \/ \E d \in DThreads : DelSIndex(d)
    BY <1>2, <1>6, IndexQuiet
  <1>7. CASE UNCHANGED siVars
    <2>1. \A v \in Nat : Deleted(v)' => Deleted(v)
      BY <1>7 DEF siVars, Deleted
    <2>2. mn \in [IThreads -> [max_del : Nat, deletes : Seq(Deletes)]]
      BY DEF ReadInv, SiTypeOK
    <2>3. Quiet
      BY <1>7, <2>1, <2>2 DEF siVars, Quiet
    <2> QED
      BY <1>2, <2>3
  <1> QED
    BY <1>3, <1>4, <1>5, <1>6, <1>7 DEF Next, IndexStep, Finished

\* A record whose write is over can be found in the index, unless its index thread was
\* sent the delete of an overwritten record that is not below it in version (UpdateIndexReq
\* compares with local_max_del_timestamp), another key that was put with the same value
\* and the same low word of the version has its entry (sizeof(kKeySize) * 3 bytes of
\* key), or that word is 0. These are all the ways a record gets lost, for every clock,
\* every number of threads, coroutines and keys, and whatever order deletes and updates
\* arrive in.
THEOREM SiIndexed == Spec => []Indexed
  <1>1. Init => VersionInv
    BY InitVersions
  <1>2. ReadInv /\ ReadInv' /\ VersionInv /\ [Next]_siVars => VersionInv'
    BY NextVersions
  <1>3. ReadInv /\ VersionInv => Indexed
    <2> SUFFICES ASSUME ReadInv, VersionInv, NEW p \in PKeys, Settled(p)
                 PROVE  \/ p \in Listed(pindex[p].value)
                        \/ Overtaken(p) \/ Displaced(p)
                        \/ pindex[p].version % WordSpace = 0
      BY DEF Indexed
    <2>1. PICK s \in SKeys, v \in Nat : s = pindex[p].value /\ v = pindex[p].version
      BY DEF Settled, ReadInv, SiTypeOK, Stored, Records
    <2>2. HasEntry(p) \/ Skipped(p)
      BY DEF Settled, VersionInv, Accounted, Pending, PendingOps
    <2>3. CASE HasEntry(p)
      <3>1. PICK k \in DOMAIN sindex : k = InsertKey(s, v)
        BY <2>1, <2>3 DEF HasEntry
      <3>2. k[1] = s /\ k[2] = v % WordSpace
        BY <3>1 DEF InsertKey
      <3>3. CASE sindex[k] = p
        BY <2>1, <3>2, <3>3 DEF Listed, ListedIn
      <3>4. CASE sindex[k] # p
        <4>1. PICK r \in Puts : r.pkey = sindex[k] /\ InsertKey(r.skey, r.version) = k
          BY DEF VersionInv, Entered
        <4>2. r \in olds \cup {Record(q) : q \in PKeys}
          BY DEF Puts
        <4> QED
          BY <2>1, <3>1, <3>4, <4>1, <4>2 DEF Displaced
      <3> QED
        BY <3>3, <3>4
    <2>4. CASE Skipped(p)
      <3>1. PICK m \in Nat : m = mn[get_index_thread_id(p)].max_del
        BY ThreadRange DEF ReadInv, SiTypeOK
      <3>2. m >= v
        BY <2>1, <2>4, <3>1 DEF Skipped
      <3>3. Deleted(m)
        BY <3>1, ThreadRange DEF Deleted
      <3>4. CASE m = 0
        <4>1. v = 0
          BY <3>2, <3>4
        <4>2. WordSpace \in Nat \ {0}
          BY SiAssumption
        <4>3. 0 % WordSpace = 0
          BY <4>2
        <4> QED
          BY <2>1, <4>1, <4>3
      <3>5. CASE \E r \in olds : r.version = m
        <4>1. PICK r \in olds : r.version = m
          BY <3>5
        <4>2. mn[get_index_thread_id(p)].max_del >= r.version /\ r.version >= pindex[p].version
          BY <2>1, <3>1, <3>2, <4>1
        <4> QED
          BY <4>2 DEF Overtaken
      <3> QED
        BY <3>3, <3>4, <3>5 DEF VersionInv, DeletesOld
    <2> QED
      BY <2>2, <2>3, <2>4
  <1> QED
    BY <1>1, <1>2, <1>3, ReadsInvariant, PTL DEF Spec

-----------------------------------------------------------------------------
(* Complete reads. *)

\* What a read must return can be found until the scan, and after it is among the keys
\* the read carries; the data thread that filters them drops none of it.
Carried ==
    /\ \A c \in Coros : ctx[c].call = "SRS" => seen[c].always \subseteq Having(ctx[c].skey)
    /\ \A c \in Coros : net[c].op = "ReadIndexReq" =>
           seen[c].always \subseteq Listed(ctx[c].skey)
    /\ \A c \in Coros : net[c].op \in {"ReadIndexReply", "ReadLog", "ReadReply"} =>
           seen[c].always \subseteq net[c].pkeys
    /\ \A d \in DThreads : dn[d].at = "filter" =>
           seen[dn[d].frame.c].always \subseteq dn[d].frame.todo \cup dn[d].frame.found

FiniteIndex == IsFiniteSet(DOMAIN sindex)

\* The smaller of two numbers is one of them.
LEMMA MinOfTwo ==
    ASSUME NEW a \in Nat, NEW b \in Nat
    PROVE  Min({a, b}) \in {a, b}
  <1>1. \E x \in {a, b} : \A y \in {a, b} : x =< y
    <2>1. CASE a =< b
      BY <2>1
    <2>2. CASE ~(a =< b)
      BY <2>2
    <2> QED
      BY <2>1, <2>2
  <1> QED
    BY <1>1 DEF Min

\* A scan that is not cut off returns every entry of its secondary key that it can
\* find: it is cut off at ScanCnt entries, and otherwise has all there are from there on.
LEMMA ScanWhole ==
    ASSUME SiTypeOK, FiniteIndex, NEW s \in SKeys, NEW K \in Scans(s),
           Cardinality(K) < ScanCnt
    PROVE  Listed(s) \subseteq {sindex[k] : k \in K}
  <1> DEFINE from == {k \in DOMAIN sindex : k[1] > s \/ (k[1] = s /\ k[2] # 0)}
  <1>1. ScanCnt \in Nat
    BY SiAssumption
  <1>2. IsFiniteSet(from)
    BY FS_Subset DEF FiniteIndex
  <1>3. Cardinality(from) \in Nat
    BY <1>2, FS_CardinalityType
  <1>4. K \subseteq from /\ Cardinality(K) = Min({ScanCnt, Cardinality(from)})
    BY DEF Scans, kSubset
  <1>5. Cardinality(K) \in {ScanCnt, Cardinality(from)}
    BY <1>1, <1>3, <1>4, MinOfTwo
  <1>6. Cardinality(K) = Cardinality(from)
    BY <1>1, <1>5
  <1>7. K = from
    BY <1>2, <1>4, <1>6, FS_Subset
  <1> QED
    BY <1>7 DEF Listed, ListedIn

\* The steps of a client.
LEMMA CarriedClient ==
    ASSUME ReadInv, Carried, NEW c \in Coros,
           put_primary(c) \/ get_secondary(c) \/ ClientStep(c)
    PROVE  Carried'
  <1>1. /\ net \in [Coros -> Packets] /\ CallSent /\ Served
        /\ ctx \in [Coros -> [call : {"idle", "SW", "SRS"}, pkey : PKeys, skey : SKeys]]
        /\ seen \in [Coros -> [ever : SUBSET PKeys, always : SUBSET PKeys]]
        /\ dn \in [DThreads -> DataThread]
    BY DEF ReadInv, SiTypeOK, DataThread
  <1>2. UNCHANGED <<pindex, dn, sindex>>
    BY DEF put_primary, get_secondary, ClientStep, put_secondary, get_primary, CallReturns
  <1>3. \A e \in Coros \ {c} : net'[e] = net[e] /\ ctx'[e] = ctx[e] /\ seen'[e] = seen[e]
    BY <1>1 DEF put_primary, get_secondary, ClientStep, put_secondary, get_primary, CallReturns
  <1>4. \A s : Having(s)' = Having(s) /\ Listed(s)' = Listed(s)
    BY <1>2 DEF Having, Listed, ListedIn
  <1>5. \A d \in DThreads : dn[d].frame.c \in Coros
    BY <1>1 DEF DataThread, Frames
  <1>6. /\ ctx'[c].call = "SRS" => seen'[c].always \subseteq Having(ctx'[c].skey)
        /\ net'[c].op = "ReadIndexReq" => seen'[c].always \subseteq Listed(ctx'[c].skey)
        /\ net'[c].op \in {"ReadIndexReply", "ReadLog", "ReadReply"} =>
             seen'[c].always \subseteq net'[c].pkeys
        /\ \A d \in DThreads : dn[d].at = "filter" /\ dn[d].frame.c = c =>
             seen'[c].always \subseteq dn[d].frame.todo \cup dn[d].frame.found
    <2>1. CASE put_primary(c)
      <3>1. PICK p \in PKeys, s \in SKeys :
              /\ ctx' = [ctx EXCEPT ![c] = [call |-> "SW", pkey |-> p, skey |-> s]]
              /\ net' = [net EXCEPT ![c] = [op |-> "AppendReq", pkey |-> p, skey |-> s]]
        BY <2>1 DEF put_primary
      <3>2. ctx'[c].call = "SW" /\ net'[c].op = "AppendReq" /\ seen' = seen
        BY <1>1, <2>1, <3>1 DEF put_primary
      <3> QED
        BY <3>2 DEF Carried
    <2>2. CASE get_secondary(c)
      <3>1. PICK p \in PKeys, s \in SKeys :
              /\ ctx' = [ctx EXCEPT ![c] = [call |-> "SRS", pkey |-> p, skey |-> s]]
              /\ net' = [net EXCEPT ![c] = [op |-> "ReadIndexReq", skey |-> s]]
              /\ seen' = [seen EXCEPT ![c] = [ever |-> Having(s),
                                              always |-> Having(s) \cap Listed(s)]]
        BY <2>2 DEF get_secondary
      <3>2. /\ ctx'[c].skey = s /\ net'[c].op = "ReadIndexReq"
            /\ seen'[c].always = Having(s) \cap Listed(s)
        BY <1>1, <3>1
      <3>3. net[c].op = "none"
        BY <1>1, <2>2 DEF get_secondary, CallSent
      <3>4. \A d \in DThreads : ~(dn[d].at = "filter" /\ dn[d].frame.c = c)
        BY <1>1, <3>3 DEF Served
      <3> QED
        BY <3>2, <3>4
    <2>3. CASE put_secondary(c)
      BY <1>1, <2>3 DEF put_secondary, Carried
    <2>4. CASE get_primary(c)
      <3>1. /\ net[c].op = "ReadIndexReply" /\ net'[c].op = "ReadLog"
            /\ net'[c].pkeys = net[c].pkeys /\ ctx' = ctx /\ seen' = seen
        BY <1>1, <2>4 DEF get_primary
      <3> QED
        BY <3>1 DEF Carried
    <2>5. CASE CallReturns(c)
      <3>1. seen'[c].always = {}
        BY <1>1, <2>5 DEF CallReturns, Unseen
      <3> QED
        BY <3>1
    <2> QED
      BY <2>1, <2>2, <2>3, <2>4, <2>5 DEF ClientStep
  <1> QED
    BY <1>2, <1>3, <1>4, <1>5, <1>6 DEF Carried

\* AppendReq: the key of a record that gets another value is no longer one that a read
\* of the old value must return.
LEMMA CarriedPut ==
    ASSUME ReadInv, Carried, NEW d \in DThreads, get_and_put(d)
    PROVE  Carried'
  <1>1. /\ net \in [Coros -> Packets] /\ CallSent /\ Served
        /\ seen \in [Coros -> [ever : SUBSET PKeys, always : SUBSET PKeys]]
        /\ dn \in [DThreads -> DataThread] /\ pindex \in [PKeys -> Records]
    BY DEF ReadInv, SiTypeOK, DataThread
  <1>2. PICK c \in Coros, p \in PKeys, s \in SKeys :
          /\ c = dn[d].frame.c /\ net[c].op = "AppendReq"
          /\ p = net[c].pkey /\ s = ctx[c].skey
          /\ \A q \in PKeys \ {p} : pindex'[q] = pindex[q]
          /\ pindex'[p].value = s
          /\ \A e \in Coros \ {c} : net'[e] = net[e]
          /\ net'[c].op = "AppendReply"
          /\ \A e \in DThreads \ {d} : dn'[e] = dn[e]
          /\ dn'[d].at = "serve"
          /\ UNCHANGED <<sindex, ctx>>
    BY PutEffect
  <1>3. net[c].skey = s
    BY <1>1, <1>2 DEF CallSent
  <1>4. \A r \in Coros :
          /\ seen'[r].always \subseteq seen[r].always
          /\ ctx[r].call = "SRS" /\ ctx[r].skey # s => p \notin seen'[r].always
    <2>1. seen' = [r \in Coros |->
                     IF ctx[r].call # "SRS" THEN seen[r]
                     ELSE IF ctx[r].skey = s
                     THEN [seen[r] EXCEPT !.ever = @ \cup {p}]
                     ELSE [seen[r] EXCEPT !.always = @ \ {p}]]
      <3>1. PICK v : v = dn[d].frame.version
        OBVIOUS
      <3>2. PICK value : value = [value |-> s, version |-> v]
        OBVIOUS
      <3>3. seen' = [r \in Coros |->
                       IF ctx[r].call # "SRS" THEN seen[r]
                       ELSE IF ctx[r].skey = value.value
                       THEN [seen[r] EXCEPT !.ever = @ \cup {p}]
                       ELSE [seen[r] EXCEPT !.always = @ \ {p}]]
        BY <1>2, <1>3, <3>1, <3>2, ZenonT(30) DEF get_and_put
      <3>4. value.value = s
        BY <3>2
      <3> QED
        BY <3>3, <3>4
    <2>2. ASSUME NEW r \in Coros
          PROVE  /\ seen'[r].always \subseteq seen[r].always
                 /\ ctx[r].call = "SRS" /\ ctx[r].skey # s => p \notin seen'[r].always
      BY <1>1, <2>1, <2>2
    <2> QED
      BY <2>2
  <1>5. \A t : Listed(t)' = Listed(t)
    BY <1>2 DEF Listed, ListedIn
  <1>6. ASSUME NEW r \in Coros, ctx[r].call = "SRS"
        PROVE  seen'[r].always \subseteq Having(ctx[r].skey)'
    <2>1. seen[r].always \subseteq Having(ctx[r].skey)
      BY <1>6 DEF Carried
    <2>2. ASSUME NEW q \in seen'[r].always
          PROVE  q \in PKeys /\ pindex'[q].value = ctx[r].skey
      <3>1. q \in PKeys /\ pindex[q].value = ctx[r].skey
        BY <1>4, <2>1, <2>2 DEF Having
      <3> QED
        BY <1>2, <1>4, <1>6, <2>2, <3>1
    <2> QED
      BY <1>2, <2>2 DEF Having
  <1>7. \A e \in DThreads : dn[e].frame.c \in Coros
    BY <1>1 DEF DataThread, Frames
  <1>8. \A e \in DThreads : dn'[e].at = "filter" => e # d /\ dn'[e] = dn[e]
    BY <1>2
  <1>9. \A e \in DThreads : dn'[e].at = "filter" =>
          seen'[dn'[e].frame.c].always \subseteq dn'[e].frame.todo \cup dn'[e].frame.found
    BY <1>4, <1>7, <1>8 DEF Carried
  <1>10. \A e \in Coros :
           /\ net'[e].op = "ReadIndexReq" => seen'[e].always \subseteq Listed(ctx[e].skey)
           /\ net'[e].op \in {"ReadIndexReply", "ReadLog", "ReadReply"} =>
                seen'[e].always \subseteq net'[e].pkeys
    BY <1>2, <1>4 DEF Carried
  <1> QED
    BY <1>2, <1>5, <1>6, <1>9, <1>10 DEF Carried

\* A step of a data thread that leaves the packets: it need only care for what it filters.
LEMMA CarriedThread ==
    ASSUME ReadInv, Carried, NEW d \in DThreads,
           UNCHANGED <<pindex, net, ctx, seen, sindex>>,
           \A e \in DThreads \ {d} : dn'[e] = dn[e],
           dn'[d].at = "filter" => seen[dn'[d].frame.c].always
                                     \subseteq dn'[d].frame.todo \cup dn'[d].frame.found
    PROVE  Carried'
  <1>1. \A s : Having(s)' = Having(s) /\ Listed(s)' = Listed(s)
    BY DEF Having, Listed, ListedIn
  <1> QED
    BY <1>1 DEF Carried

\* The other steps of a data thread: the loop of ReadLog keeps a key that has the value.
LEMMA CarriedData ==
    ASSUME ReadInv, Carried, NEW d \in DThreads, DataStep(d), ~get_and_put(d)
    PROVE  Carried'
  <1>1. /\ net \in [Coros -> Packets] /\ CallSent /\ Served
        /\ seen \in [Coros -> [ever : SUBSET PKeys, always : SUBSET PKeys]]
        /\ ctx \in [Coros -> [call : {"idle", "SW", "SRS"}, pkey : PKeys, skey : SKeys]]
        /\ dn \in [DThreads -> DataThread] /\ dn[d] \in DataThread
        /\ pindex \in [PKeys -> Records] /\ SiTypeOK
    BY DEF ReadInv, SiTypeOK, DataThread
  <1>2. PICK f \in Frames : f = dn[d].frame
    BY <1>1 DEF DataThread
  <1>3. f.c \in Coros
    BY DEF Frames
  <1>4. CASE Poll(d)
    <2>1. PICK S : dn' = [dn EXCEPT ![d].at = "serve", ![d].polled = S]
      BY <1>4 DEF Poll
    <2>2. dn'[d].at = "serve" /\ \A e \in DThreads \ {d} : dn'[e] = dn[e]
      BY <1>1, <2>1 DEF DataThread
    <2> QED
      BY <1>4, <2>2, CarriedThread DEF Poll
  <1>5. CASE get_value_version(d)
    <2>0. PICK p \in dn[d].frame.todo :
            LET fr == dn[d].frame
                tmp_value == IF pindex[p] = Absent THEN fr.tmp_value ELSE pindex[p].value
            IN  dn' = [dn EXCEPT ![d].frame =
                         [fr EXCEPT !.todo = @ \ {p}, !.tmp_value = tmp_value,
                                    !.found = @ \cup {q \in {p} : tmp_value = net[fr.c].skey}]]
      BY <1>5, Zenon DEF get_value_version
    <2>1. PICK t, g :
            /\ t = IF pindex[p] = Absent THEN f.tmp_value ELSE pindex[p].value
            /\ g = [f EXCEPT !.todo = @ \ {p}, !.tmp_value = t,
                             !.found = @ \cup {q \in {p} : t = net[f.c].skey}]
            /\ dn' = [dn EXCEPT ![d].frame = g]
      BY <1>2, <2>0, ZenonT(30)
    <2>2. /\ g.c = f.c /\ g.todo = f.todo \ {p}
          /\ g.found = f.found \cup {q \in {p} : t = net[f.c].skey}
      BY <2>1 DEF Frames
    <2>3. dn'[d].frame = g /\ dn'[d].at = dn[d].at /\ \A e \in DThreads \ {d} : dn'[e] = dn[e]
      BY <1>1, <2>1 DEF DataThread
    <2>4. dn[d].at = "filter"
      BY <1>5 DEF get_value_version
    <2>5. net[f.c].op = "ReadLog" /\ net[f.c].skey = ctx[f.c].skey /\ ctx[f.c].call = "SRS"
      BY <1>1, <1>2, <1>3, <2>4 DEF Served, CallSent, ReadOps
    <2>6. p \in seen[f.c].always => t = net[f.c].skey
      <3>1. p \in seen[f.c].always => p \in PKeys /\ pindex[p].value = ctx[f.c].skey
        BY <1>3, <2>5 DEF Carried, Having
      <3>2. ctx[f.c].skey # 0
        BY <1>1, <1>3, SiAssumption
      <3>3. Absent.value = 0
        BY DEF Absent
      <3> QED
        BY <2>1, <2>5, <3>1, <3>2, <3>3
    <2>7. seen[f.c].always \subseteq f.todo \cup f.found
      BY <1>2, <2>4 DEF Carried
    <2>8. seen[g.c].always \subseteq g.todo \cup g.found
      BY <2>2, <2>6, <2>7
    <2>9. UNCHANGED <<pindex, net, ctx, seen, sindex>>
      BY <1>5 DEF get_value_version
    <2> QED
      BY <2>3, <2>8, <2>9, CarriedThread
  <1>6. CASE ReadReply(d)
    <2>1. dn[d].at = "filter" /\ f.todo = {}
      BY <1>2, <1>6 DEF ReadReply
    <2>2. seen[f.c].always \subseteq f.found
      BY <1>2, <2>1 DEF Carried
    <2>3. /\ net'[f.c].op = "ReadReply" /\ net'[f.c].pkeys = f.found
          /\ \A e \in Coros \ {f.c} : net'[e] = net[e]
      BY <1>1, <1>2, <1>3, <1>6 DEF ReadReply
    <2>4. dn'[d].at = "serve" /\ \A e \in DThreads \ {d} : dn'[e] = dn[e]
      BY <1>1, <1>6 DEF ReadReply, DataThread
    <2>5. UNCHANGED <<pindex, ctx, seen, sindex>>
      BY <1>6 DEF ReadReply
    <2>6. \A s : Having(s)' = Having(s) /\ Listed(s)' = Listed(s)
      BY <2>5 DEF Having, Listed, ListedIn
    <2> QED
      BY <1>3, <2>2, <2>3, <2>4, <2>5, <2>6 DEF Carried
  <1>7. CASE EndPoll(d)
    <2>1. PICK Q \in Seq(Deletes) : dn' = [dn EXCEPT ![d].at = "poll", ![d].del_queue = Q]
      BY <1>1, <1>7, EndPollThread
    <2>2. dn'[d].at = "poll" /\ \A e \in DThreads \ {d} : dn'[e] = dn[e]
      BY <1>1, <2>1 DEF DataThread
    <2> QED
      BY <1>7, <2>2, CarriedThread DEF EndPoll
  <1>8. ASSUME NEW c \in Coros, get_version(d, c)
        PROVE  Carried'
    <2>0. PICK v : dn' = [dn EXCEPT ![d].at = "put", ![d].polled = @ \ {c},
                                    ![d].frame.c = c, ![d].frame.version = v]
      BY <1>8 DEF get_version
    <2>1. dn'[d].at = "put" /\ \A e \in DThreads \ {d} : dn'[e] = dn[e]
      BY <1>1, <2>0 DEF DataThread
    <2> QED
      BY <1>8, <2>1, CarriedThread DEF get_version
  <1>9. ASSUME NEW c \in Coros, ReadLog(d, c)
        PROVE  Carried'
    <2>1. net[c].op = "ReadLog" /\ seen[c].always \subseteq net[c].pkeys
      BY <1>9 DEF ReadLog, Carried
    <2>2. PICK g : g = [f EXCEPT !.c = c, !.todo = net[c].pkeys]
      OBVIOUS
    <2>3. g.c = c /\ g.todo = net[c].pkeys
      BY <2>2 DEF Frames
    <2>4. dn' = [dn EXCEPT ![d].at = "filter", ![d].polled = @ \ {c}, ![d].frame = g]
      BY <1>1, <1>2, <1>9, <2>2 DEF ReadLog, DataThread
    <2>5. dn'[d].frame = g /\ \A e \in DThreads \ {d} : dn'[e] = dn[e]
      BY <1>1, <2>4 DEF DataThread
    <2>6. UNCHANGED <<pindex, net, ctx, seen, sindex>>
      BY <1>9 DEF ReadLog
    <2>7. seen[dn'[d].frame.c].always \subseteq dn'[d].frame.todo \cup dn'[d].frame.found
      BY <2>1, <2>3, <2>5
    <2> QED
      BY <2>5, <2>6, <2>7, CarriedThread
  <1> QED
    BY <1>4, <1>5, <1>6, <1>7, <1>8, <1>9 DEF DataStep

\* A step that leaves the index, the packets and what the reads must return.
LEMMA CarriedQuiet ==
    ASSUME Carried, UNCHANGED <<pindex, dn, net, ctx, seen>>,
           DOMAIN sindex' = DOMAIN sindex, \A k \in DOMAIN sindex : sindex'[k] = sindex[k]
    PROVE  Carried'
  <1>1. \A s : Having(s)' = Having(s)
    BY DEF Having
  <1>2. \A s : Listed(s)' = Listed(s)
    BY DEF Listed, ListedIn
  <1> QED
    BY <1>1, <1>2 DEF Carried

\* UpdateIndexReq: what its entry displaces can no longer be found by a scan to come.
LEMMA CarriedUpdate ==
    ASSUME ReadInv, FiniteIndex, Carried, NEW i \in IThreads, NEW c \in Coros, UpdateIndex(i, c)
    PROVE  FiniteIndex' /\ Carried'
  <1>1. net \in [Coros -> Packets] /\ SiTypeOK
    BY DEF ReadInv, SiTypeOK
  <1>2. /\ UNCHANGED <<pindex, dn, ctx>>
        /\ \A e \in Coros \ {c} : net'[e] = net[e]
        /\ net'[c].op = "UpdateIndexReply"
    BY <1>1 DEF UpdateIndex
  <1>3. PICK k : DOMAIN sindex' \in {DOMAIN sindex, DOMAIN sindex \cup {k}}
    BY DEF UpdateIndex, put_vector_key
  <1>4. FiniteIndex'
    BY <1>3, FS_AddElement DEF FiniteIndex
  <1>5. \A r \in Coros :
          /\ seen'[r].always \subseteq seen[r].always
          /\ net[r].op = "ReadIndexReq" =>
               seen'[r].always \subseteq ListedIn(sindex', ctx[r].skey)
    BY <1>1, UpdateSeen
  <1>6. \A s : Having(s)' = Having(s) /\ Listed(s)' = ListedIn(sindex', s)
    BY <1>2 DEF Having, Listed, ListedIn
  <1>7. \A d \in DThreads : dn[d].frame.c \in Coros
    BY <1>1 DEF SiTypeOK, Frames
  <1>8. \A e \in Coros :
          /\ ctx[e].call = "SRS" => seen'[e].always \subseteq Having(ctx[e].skey)'
          /\ net'[e].op = "ReadIndexReq" => seen'[e].always \subseteq Listed(ctx[e].skey)'
          /\ net'[e].op \in {"ReadIndexReply", "ReadLog", "ReadReply"} =>
               seen'[e].always \subseteq net'[e].pkeys
    BY <1>2, <1>5, <1>6 DEF Carried
  <1>9. \A d \in DThreads : dn[d].at = "filter" =>
          seen'[dn[d].frame.c].always \subseteq dn[d].frame.todo \cup dn[d].frame.found
    BY <1>5, <1>7 DEF Carried
  <1> QED
    BY <1>2, <1>4, <1>8, <1>9 DEF Carried

\* ReadIndexReq: a scan gives the read all it must return.
LEMMA CarriedScan ==
    ASSUME ReadInv, FiniteIndex, Carried, NEW i \in IThreads, NEW c \in Coros, ReadIndex(i, c)
    PROVE  Carried'
  <1>1. /\ net \in [Coros -> Packets] /\ CallSent /\ Served /\ SiTypeOK
        /\ ctx \in [Coros -> [call : {"idle", "SW", "SRS"}, pkey : PKeys, skey : SKeys]]
        /\ seen \in [Coros -> [ever : SUBSET PKeys, always : SUBSET PKeys]]
    BY DEF ReadInv, SiTypeOK
  <1>2. PICK s \in SKeys : s = ctx[c].skey /\ s = net[c].skey /\ net[c].op = "ReadIndexReq"
    BY <1>1 DEF ReadIndex, IndexPacket, CallSent
  <1>3. PICK K \in Scans(s), A \in SUBSET seen[c].always :
          /\ net' = [net EXCEPT ![c] = [op |-> "ReadIndexReply",
                                         pkeys |-> {sindex[k] : k \in K}]]
          /\ seen' = [seen EXCEPT ![c].always = A]
          /\ Cardinality(K) < ScanCnt \/ A \subseteq {sindex[k] : k \in K}
    BY <1>2, ScanEffect
  <1>4. A \subseteq {sindex[k] : k \in K}
    <2>1. CASE Cardinality(K) < ScanCnt
      <3>1. Listed(s) \subseteq {sindex[k] : k \in K}
        BY <1>1, <2>1, ScanWhole
      <3>2. seen[c].always \subseteq Listed(s)
        BY <1>2 DEF Carried
      <3> QED
        BY <3>1, <3>2
    <2> QED
      BY <1>3, <2>1
  <1>5. PICK P : P = {sindex[k] : k \in K}
    OBVIOUS
  <1>6. /\ net'[c].op = "ReadIndexReply" /\ net'[c].pkeys = P
        /\ \A e \in Coros \ {c} : net'[e] = net[e]
    BY <1>1, <1>3, <1>5
  <1>7. /\ seen'[c].always = A /\ A \subseteq seen[c].always
        /\ \A e \in Coros \ {c} : seen'[e] = seen[e]
    BY <1>1, <1>3
  <1>8. UNCHANGED <<pindex, dn, sindex, ctx>>
    BY DEF ReadIndex
  <1>9. \A t : Having(t)' = Having(t) /\ Listed(t)' = Listed(t)
    BY <1>8 DEF Having, Listed, ListedIn
  <1>10. \A d \in DThreads : dn[d].at = "filter" => dn[d].frame.c \in Coros \ {c}
    BY <1>1, <1>2 DEF Served, DataPackets
  <1> QED
    BY <1>4, <1>5, <1>6, <1>7, <1>8, <1>9, <1>10 DEF Carried

\* Every step.
LEMMA NextCarried ==
    ASSUME ReadInv, FiniteIndex, Carried, [Next]_siVars
    PROVE  FiniteIndex' /\ Carried'
  <1>1. ASSUME NEW c \in Coros, put_primary(c) \/ get_secondary(c) \/ ClientStep(c)
        PROVE  FiniteIndex' /\ Carried'
    <2>1. UNCHANGED sindex
      BY <1>1 DEF put_primary, get_secondary, ClientStep, put_secondary, get_primary, CallReturns
    <2> QED
      BY <1>1, <2>1, CarriedClient DEF FiniteIndex
  <1>2. ASSUME NEW d \in DThreads, DataStep(d)
        PROVE  FiniteIndex' /\ Carried'
    <2>1. UNCHANGED sindex
      BY <1>2 DEF DataStep, Poll, get_and_put, get_value_version, ReadReply, EndPoll,
                  get_version, ReadLog
    <2>2. Carried'
      BY <1>2, CarriedPut, CarriedData
    <2> QED
      BY <2>1, <2>2 DEF FiniteIndex
  <1>3. ASSUME NEW i \in IThreads, NEW c \in Coros, UpdateIndex(i, c)
        PROVE  FiniteIndex' /\ Carried'
    BY <1>3, CarriedUpdate
  <1>4. ASSUME NEW i \in IThreads, NEW c \in Coros, ReadIndex(i, c)
        PROVE  FiniteIndex' /\ Carried'
    <2>1. UNCHANGED sindex
      BY <1>4 DEF ReadIndex
    <2> QED
      BY <1>4, <2>1, CarriedScan DEF FiniteIndex
  <1>5. ASSUME NEW i \in IThreads, process_sindex_del(i)
        PROVE  FiniteIndex' /\ Carried'
    <2>1. DOMAIN sindex' = DOMAIN sindex /\ \A k \in DOMAIN sindex : sindex'[k] = sindex[k]
      <3>1. DOMAIN sindex \subseteq SKeys \X (0 .. WordSpace - 1)
        BY DEF ReadInv, SiTypeOK
      <3> QED
        BY <1>5, <3>1, RemoveNothing DEF process_sindex_del
    <2>2. UNCHANGED <<pindex, dn, net, ctx, seen>>
      BY <1>5 DEF process_sindex_del
    <2> QED
      BY <2>1, <2>2, CarriedQuiet DEF FiniteIndex
  <1>6. ASSUME NEW d \in DThreads, DelSIndex(d)
        PROVE  FiniteIndex' /\ Carried'
    <2>1. UNCHANGED <<pindex, dn, sindex, net, ctx, seen>>
      BY <1>6 DEF DelSIndex
    <2> QED
      BY <2>1, CarriedQuiet DEF FiniteIndex
  <1>7. CASE UNCHANGED siVars
    <2>1. UNCHANGED <<pindex, dn, sindex, net, ctx, seen>>
      BY <1>7 DEF siVars
    <2> QED
      BY <2>1, CarriedQuiet DEF FiniteIndex
  <1> QED
    BY <1>1, <1>2, <1>3, <1>4, <1>5, <1>6, <1>7 DEF Next, IndexStep, Finished

\* A read whose scan came back with fewer than ScanCnt entries returns every key that
\* had the value and could be found from its beginning, and kept the value to its end;
\* a read whose scan was cut off returns every such key among those it was given
\* (ReadIndexReq asks for 10 entries). The writes, deletes and other reads beside it take
\* nothing else from it, for every number of threads, coroutines, keys and entries.
THEOREM SiReadsComplete == Spec => []ReadsComplete
  <1>1. Init => FiniteIndex /\ Carried
    <2> SUFFICES ASSUME Init PROVE FiniteIndex /\ Carried
      OBVIOUS
    <2>1. /\ \A c \in Coros : net[c] = None /\ seen[c] = Unseen
          /\ \A d \in DThreads : dn[d].at = "poll"
          /\ DOMAIN sindex = {}
      BY DEF Init
    <2>2. None.op = "none" /\ Unseen.always = {}
      BY DEF None, Unseen
    <2>3. FiniteIndex
      BY <2>1, FS_EmptySet DEF FiniteIndex
    <2> QED
      BY <2>1, <2>2, <2>3 DEF Carried
  <1>2. ReadInv /\ FiniteIndex /\ Carried /\ [Next]_siVars => FiniteIndex' /\ Carried'
    BY NextCarried
  <1>3. Carried => ReadsComplete
    BY DEF Carried, ReadsComplete
  <1> QED
    BY <1>1, <1>2, <1>3, ReadsInvariant, PTL DEF Spec
=============================================================================
