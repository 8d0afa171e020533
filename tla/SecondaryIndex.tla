--------------------------- MODULE SecondaryIndex ---------------------------
(***************************************************************************)
(* The store with a secondary index (apps/kv/secondary_index.cc): data     *)
(* threads share a primary map from a primary key to a value, the          *)
(* secondary key, with a version; index threads share a Masstree from      *)
(* (secondary key, version) to a primary key. A write goes to the primary  *)
(* first and then to the index. The entry an overwritten record leaves     *)
(* behind is deleted in the background: a data thread gathers the deletes  *)
(* and sends them, many at a time, to one index thread. A read scans the   *)
(* index and has the primary keep the keys that still have the value.      *)
(*                                                                         *)
(* This is the program without visibility and without read_first. A step   *)
(* is one operation on a shared map or one receive; a coroutine has one    *)
(* packet in flight. An index thread handles packets one by one: packets   *)
(* of different coroutines arrive in any order, so polling several at once *)
(* adds nothing. A data thread sends its deletes at the end of a poll, so  *)
(* there the poll is kept.                                                 *)
(***************************************************************************)
EXTENDS Integers, Sequences, FiniteSets, FiniteSetsExt

CONSTANTS
    PKeys, SKeys,     \* long_key, long_value: positive numbers, in byte order
    Coros,            \* coroutines of all clients: numbers
    dn_thread, mn_thread,
    kMaxDelQueue,     \* 32
    kMaxWcCnt,        \* 16: completions of one poll
    ScanCnt,          \* 10: entries of one scan
    Clock,            \* what CLOCK_REALTIME may show, in nanoseconds
    ThreadSpace,      \* 2^4: a version has the number of its thread in the low bits
    VersionSpace,     \* 2^64: values of a version
    WordSpace,        \* 2^32: values of the word of a version an index key has room for
    MaxWrites, MaxReads   \* calls of si_test (bounds of the model)

ASSUME SiAssumption ==
    /\ PKeys \subseteq Nat \ {0} /\ SKeys \subseteq Nat \ {0} /\ Coros \subseteq Nat
    /\ {} \notin {PKeys, SKeys, Coros} /\ Clock \subseteq Nat
    /\ {dn_thread, mn_thread, kMaxDelQueue, kMaxWcCnt, ScanCnt} \subseteq Nat \ {0}
    /\ {ThreadSpace, VersionSpace, WordSpace} \subseteq Nat \ {0}
    /\ kMaxWcCnt <= kMaxDelQueue + 1
    /\ MaxWrites \in Nat /\ MaxReads \in Nat

DThreads == 0 .. dn_thread - 1
IThreads == 0 .. mn_thread - 1

VARIABLES
    pindex,  \* pindex[p]: the record of primary key p
    dn,      \* dn[d]: data thread d
    rc,      \* rc[d]: delete messages on the RC queue pair of data thread d
    sindex,  \* the Masstree: a function from keys to primary keys
    mn,      \* mn[i]: index thread i
    net,     \* net[c]: the packet of coroutine c in flight
    ctx,     \* ctx[c]: coroutine c
    calls,   \* writes and reads begun so far
    seen,    \* seen[c]: primary keys that had the value c reads, since it began (history)
             \* ever: at some time; always: all the time, and the scan was to find them
    olds     \* the records that have been overwritten in the primary (history)

siVars == <<pindex, olds, dn, rc, sindex, mn, net, ctx, calls, seen>>

-----------------------------------------------------------------------------
(* Types. *)

\* A record the primary does not have yet: its value is no secondary key.
Absent == [value |-> 0, version |-> 0]
Records == [value : SKeys \cup {0}, version : Nat]

\* An entry of the delete queue: the value, version and key of an old record.
Deletes == [skey : SKeys, version : Nat, pkey : PKeys]

None == [op |-> "none"]
Packets == {None}
    \cup [op : {"AppendReq"}, pkey : PKeys, skey : SKeys]
    \cup [op : {"AppendReply"}, version : Nat]
    \cup [op : {"UpdateIndexReq"}, skey : SKeys, version : Nat, pkey : PKeys]
    \cup [op : {"UpdateIndexReply"}]
    \cup [op : {"ReadIndexReq"}, skey : SKeys]
    \cup [op : {"ReadIndexReply", "ReadReply"}, pkeys : SUBSET PKeys]
    \cup [op : {"ReadLog"}, skey : SKeys, pkeys : SUBSET PKeys]

\* What a data thread does: between polls, between two messages of a poll, or
\* inside the handler of AppendReq or ReadLog.
DataPlaces == {"poll", "serve", "put", "filter"}

\* The local variables of a handler; c: the coroutine it serves, todo: the keys
\* the loop of ReadLog has not reached yet.
Frames == [c : Coros, version : Nat, todo : SUBSET PKeys, tmp_value : SKeys \cup {0},
           found : SUBSET PKeys]
NoFrame == [c |-> CHOOSE c \in Coros : TRUE, version |-> 0, todo |-> {},
            tmp_value |-> 0, found |-> {}]
NoCall == [call |-> "idle", pkey |-> CHOOSE p \in PKeys : TRUE,
           skey |-> CHOOSE s \in SKeys : TRUE]
Unseen == [ever |-> {}, always |-> {}]

SiTypeOK ==
    /\ pindex \in [PKeys -> Records] /\ olds \subseteq Deletes
    /\ dn \in [DThreads ->
                 [at : DataPlaces, polled : SUBSET Coros, frame : Frames,
                  del_queue : Seq(Deletes)]]
    /\ rc \in [DThreads -> Seq(Seq(Deletes))]
    /\ DOMAIN sindex \subseteq SKeys \X (0 .. WordSpace - 1)
    /\ \A k \in DOMAIN sindex : sindex[k] \in PKeys
    /\ mn \in [IThreads -> [max_del : Nat, deletes : Seq(Deletes)]]
    /\ net \in [Coros -> Packets]
    /\ ctx \in [Coros -> [call : {"idle", "SW", "SRS"}, pkey : PKeys, skey : SKeys]]
    /\ calls \in [w : 0 .. MaxWrites, r : 0 .. MaxReads]
    /\ seen \in [Coros -> [ever : SUBSET PKeys, always : SUBSET PKeys]]

Init ==
    /\ pindex = [p \in PKeys |-> Absent] /\ olds = {}
    /\ dn = [d \in DThreads |->
               [at |-> "poll", polled |-> {}, frame |-> NoFrame, del_queue |-> <<>>]]
    /\ rc = [d \in DThreads |-> <<>>]
    /\ sindex = <<>>
    /\ mn = [i \in IThreads |-> [max_del |-> 0, deletes |-> <<>>]]
    /\ net = [c \in Coros |-> None]
    /\ ctx = [c \in Coros |-> NoCall]
    /\ calls = [w |-> 0, r |-> 0]
    /\ seen = [c \in Coros |-> Unseen]

-----------------------------------------------------------------------------
(* Where packets go. get_primary takes the thread from KvCtx::log_id, which *)
(* this program never sets: thread 0.                                       *)

get_data_thread_id_by_load(c) == c % dn_thread
get_index_thread_id(p) == p % mn_thread

DataPackets(d) ==
    {c \in Coros : \/ net[c].op = "AppendReq" /\ get_data_thread_id_by_load(c) = d
                   \/ net[c].op = "ReadLog" /\ d = 0}

\* app_ctx.key is the fingerprint of the primary key drawn for the call, for
\* reads too.
IndexPacket(i, c, op) ==
    /\ net[c].op = op
    /\ get_index_thread_id(ctx[c].pkey) = i
    /\ mn[i].deletes = <<>>

-----------------------------------------------------------------------------
(* The client. *)

\* The primary keys with value s, and those a scan of table t can find under s
\* (history).
Having(s) == {p \in PKeys : pindex[p].value = s}
ListedIn(t, s) == {t[k] : k \in {j \in DOMAIN t : j[1] = s /\ j[2] # 0}}
Listed(s) == ListedIn(sindex, s)

\* cworker_new_request draws the keys, si_test the kind of call; put_primary.
put_primary(c) ==
    /\ ctx[c].call = "idle" /\ calls.w < MaxWrites
    /\ calls' = [calls EXCEPT !.w = @ + 1]
    /\ \E p \in PKeys, s \in SKeys :
         /\ ctx' = [ctx EXCEPT ![c] = [call |-> "SW", pkey |-> p, skey |-> s]]
         /\ net' = [net EXCEPT ![c] = [op |-> "AppendReq", pkey |-> p, skey |-> s]]
    /\ UNCHANGED <<pindex, olds, dn, rc, sindex, mn, seen>>

put_secondary(c) ==
    /\ net[c].op = "AppendReply"
    /\ net' = [net EXCEPT ![c] = [op |-> "UpdateIndexReq", skey |-> ctx[c].skey,
                                  version |-> net[c].version, pkey |-> ctx[c].pkey]]
    /\ UNCHANGED <<pindex, olds, dn, rc, sindex, mn, ctx, calls, seen>>

get_secondary(c) ==
    /\ ctx[c].call = "idle" /\ calls.r < MaxReads
    /\ calls' = [calls EXCEPT !.r = @ + 1]
    /\ \E p \in PKeys, s \in SKeys :
         /\ ctx' = [ctx EXCEPT ![c] = [call |-> "SRS", pkey |-> p, skey |-> s]]
         /\ net' = [net EXCEPT ![c] = [op |-> "ReadIndexReq", skey |-> s]]
         /\ seen' = [seen EXCEPT ![c] = [ever |-> Having(s), always |-> Having(s) \cap Listed(s)]]
    /\ UNCHANGED <<pindex, olds, dn, rc, sindex, mn>>

get_primary(c) ==
    /\ net[c].op = "ReadIndexReply"
    /\ net' = [net EXCEPT ![c] = [op |-> "ReadLog", skey |-> ctx[c].skey,
                                  pkeys |-> net[c].pkeys]]
    /\ UNCHANGED <<pindex, olds, dn, rc, sindex, mn, ctx, calls, seen>>

\* The end of si_test.
CallReturns(c) ==
    /\ net[c].op \in {"UpdateIndexReply", "ReadReply"}
    /\ net' = [net EXCEPT ![c] = None]
    /\ ctx' = [ctx EXCEPT ![c] = NoCall]
    /\ seen' = [seen EXCEPT ![c] = Unseen]
    /\ UNCHANGED <<pindex, olds, dn, rc, sindex, mn, calls>>

-----------------------------------------------------------------------------
(* A data thread. *)

Poll(d) ==
    /\ dn[d].at = "poll"
    /\ \E S \in SUBSET DataPackets(d) \ {{}} :
         /\ Cardinality(S) <= kMaxWcCnt
         /\ dn' = [dn EXCEPT ![d].at = "serve", ![d].polled = S]
    /\ UNCHANGED <<pindex, olds, rc, sindex, mn, net, ctx, calls, seen>>

\* What get_version may return to data thread d. The clock is read anew by every
\* thread and may be set back; its 64 bits do not hold the shifted nanoseconds.
Versions(d) == {(t * ThreadSpace + d) % VersionSpace : t \in Clock}

\* AppendReq, up to get_version.
get_version(d, c) ==
    /\ dn[d].at = "serve" /\ c \in dn[d].polled /\ net[c].op = "AppendReq"
    /\ \E v \in Versions(d) :
         dn' = [dn EXCEPT ![d].at = "put", ![d].polled = @ \ {c},
                          ![d].frame.c = c, ![d].frame.version = v]
    /\ UNCHANGED <<pindex, olds, rc, sindex, mn, net, ctx, calls, seen>>

\* Fault: a delete is queued for a new key too.
OldEntry_unconditional(p, value, old_value) ==
    <<[skey |-> old_value.value, version |-> old_value.version, pkey |-> p]>>

\* Fault: the version of the new record instead of the old one.
OldEntry_new_version(p, value, old_value) ==
    IF old_value = Absent THEN <<>>
    ELSE <<[skey |-> old_value.value, version |-> value.version, pkey |-> p]>>

\* The delete that get_and_put_value_version of value over old_value leaves.
OldEntry(p, value, old_value) ==
    IF old_value = Absent THEN <<>>
    ELSE <<[skey |-> old_value.value, version |-> old_value.version, pkey |-> p]>>

\* The record of p, named the way a delete names it (history).
Record(p) == [skey |-> pindex[p].value, version |-> pindex[p].version, pkey |-> p]

\* AppendReq, from get_and_put_value_version to the reply.
get_and_put(d) ==
    LET c == dn[d].frame.c
        p == net[c].pkey
        value == [value |-> net[c].skey, version |-> dn[d].frame.version]
    IN  /\ dn[d].at = "put"
        /\ pindex' = [pindex EXCEPT ![p] = value]
        /\ olds' = IF pindex[p] = Absent THEN olds ELSE olds \cup {Record(p)}
        /\ dn' = [dn EXCEPT ![d].at = "serve", ![d].frame = NoFrame,
                            ![d].del_queue = @ \o OldEntry(p, value, pindex[p])]
        /\ net' = [net EXCEPT ![c] = [op |-> "AppendReply", version |-> value.version]]
        /\ seen' = [r \in Coros |->
                      IF ctx[r].call # "SRS" THEN seen[r]
                      ELSE IF ctx[r].skey = value.value
                      THEN [seen[r] EXCEPT !.ever = @ \cup {p}]
                      ELSE [seen[r] EXCEPT !.always = @ \ {p}]]
        /\ UNCHANGED <<rc, sindex, mn, ctx, calls>>

\* ReadLog, up to the loop.
ReadLog(d, c) ==
    /\ dn[d].at = "serve" /\ c \in dn[d].polled /\ net[c].op = "ReadLog"
    /\ dn' = [dn EXCEPT ![d].at = "filter", ![d].polled = @ \ {c},
                        ![d].frame.c = c, ![d].frame.todo = net[c].pkeys]
    /\ UNCHANGED <<pindex, olds, rc, sindex, mn, net, ctx, calls, seen>>

\* Fault: the value is not compared.
get_value_version_unfiltered(d) ==
    /\ dn[d].at = "filter"
    /\ \E p \in dn[d].frame.todo :
         dn' = [dn EXCEPT ![d].frame.todo = @ \ {p}, ![d].frame.found = @ \cup {p}]
    /\ UNCHANGED <<pindex, olds, rc, sindex, mn, net, ctx, calls, seen>>

\* ReadLog, one round of the loop. For a key that the primary does not have,
\* get_value_version leaves tmp_value as the key before it did.
get_value_version(d) ==
    /\ dn[d].at = "filter"
    /\ \E p \in dn[d].frame.todo :
         LET f == dn[d].frame
             tmp_value == IF pindex[p] = Absent THEN f.tmp_value ELSE pindex[p].value
         IN  dn' = [dn EXCEPT ![d].frame =
                      [f EXCEPT !.todo = @ \ {p}, !.tmp_value = tmp_value,
                                !.found = @ \cup {q \in {p} : tmp_value = net[f.c].skey}]]
    /\ UNCHANGED <<pindex, olds, rc, sindex, mn, net, ctx, calls, seen>>

ReadReply(d) ==
    /\ dn[d].at = "filter" /\ dn[d].frame.todo = {}
    /\ net' = [net EXCEPT ![dn[d].frame.c] = [op |-> "ReadReply", pkeys |-> dn[d].frame.found]]
    /\ dn' = [dn EXCEPT ![d].at = "serve", ![d].frame = NoFrame]
    /\ UNCHANGED <<pindex, olds, rc, sindex, mn, ctx, calls, seen>>

\* The end of a poll: send_sindex_del once the queue is long enough.
EndPoll(d) ==
    /\ dn[d].at = "serve" /\ dn[d].polled = {}
    /\ IF Len(dn[d].del_queue) >= kMaxDelQueue
       THEN /\ rc' = [rc EXCEPT ![d] = Append(@, dn[d].del_queue)]
            /\ dn' = [dn EXCEPT ![d].at = "poll", ![d].del_queue = <<>>]
       ELSE /\ dn' = [dn EXCEPT ![d].at = "poll"]
            /\ UNCHANGED rc
    /\ UNCHANGED <<pindex, olds, sindex, mn, net, ctx, calls, seen>>

-----------------------------------------------------------------------------
(* An index thread. *)

\* The bytes that an insert and a remove take for the key. An insert takes
\* sizeof(kKeySize) * 3 = 12 of them: the secondary key and the low word of the
\* version. A remove takes 24: secondary key, version and primary key.
InsertKey(s, v) == <<s, v % WordSpace>>

\* Fault: a remove takes the 12 bytes of an insert. The entry of a record that is
\* written again with the same value goes before the new entry is there.
RemoveKey_12(e) == InsertKey(e.skey, e.version)

RemoveKey(e) == <<e.skey, e.version, e.pkey>>

put_vector_key(t, k, p) == [j \in DOMAIN t \cup {k} |-> IF j = k THEN p ELSE t[j]]
remove(t, k) == [j \in DOMAIN t \ {k} |-> t[j]]

\* UpdateIndexReq.
UpdateIndex(i, c) ==
    LET m == net[c]
    IN  /\ IndexPacket(i, c, "UpdateIndexReq")
        /\ sindex' = IF m.version > mn[i].max_del
                     THEN put_vector_key(sindex, InsertKey(m.skey, m.version), m.pkey)
                     ELSE sindex
        /\ net' = [net EXCEPT ![c] = [op |-> "UpdateIndexReply"]]
        /\ seen' = [r \in Coros |->
                      IF net[r].op = "ReadIndexReq"
                      THEN [seen[r] EXCEPT !.always = @ \cap ListedIn(sindex', ctx[r].skey)]
                      ELSE seen[r]]
        /\ UNCHANGED <<pindex, olds, dn, rc, mn, ctx, calls>>

\* The first ScanCnt entries from s on. The scan starts at the 24 bytes of s and
\* two words 0, which come after the 12 bytes of s and a version word 0. Within a
\* secondary key the entries are in the byte order of the version, which has
\* nothing to do with its value.
Scans(s) ==
    LET from == {k \in DOMAIN sindex : k[1] > s \/ (k[1] = s /\ k[2] # 0)}
        n == Min({ScanCnt, Cardinality(from)})
    IN  {K \in kSubset(n, from) : \A k \in K, j \in from \ K : k[1] <= j[1]}

\* ReadIndexReq. A scan that returns ScanCnt entries may have left out others.
ReadIndex(i, c) ==
    /\ IndexPacket(i, c, "ReadIndexReq")
    /\ \E K \in Scans(net[c].skey) :
         LET pkeys == {sindex[k] : k \in K}
         IN  /\ net' = [net EXCEPT ![c] = [op |-> "ReadIndexReply", pkeys |-> pkeys]]
             /\ seen' = [seen EXCEPT ![c].always =
                           IF Cardinality(K) < ScanCnt THEN @ ELSE @ \cap pkeys]
    /\ UNCHANGED <<pindex, olds, dn, rc, sindex, mn, ctx, calls>>

\* A message of data thread d arrives over RC.
DelSIndex(d) ==
    LET i == d % mn_thread
    IN  /\ rc[d] # <<>> /\ mn[i].deletes = <<>>
        /\ mn' = [mn EXCEPT ![i].deletes = Head(rc[d])]
        /\ rc' = [rc EXCEPT ![d] = Tail(@)]
        /\ UNCHANGED <<pindex, olds, dn, sindex, net, ctx, calls, seen>>

\* One round of the loop of process_sindex_del.
process_sindex_del(i) ==
    LET e == Head(mn[i].deletes)
    IN  /\ mn[i].deletes # <<>>
        /\ mn' = [mn EXCEPT ![i].deletes = Tail(@), ![i].max_del = Max({@, e.version})]
        /\ sindex' = remove(sindex, RemoveKey(e))
        /\ UNCHANGED <<pindex, olds, dn, rc, net, ctx, calls, seen>>

-----------------------------------------------------------------------------
ClientStep(c) == put_secondary(c) \/ get_primary(c) \/ CallReturns(c)

DataStep(d) ==
    \/ Poll(d) \/ get_and_put(d) \/ get_value_version(d) \/ ReadReply(d) \/ EndPoll(d)
    \/ \E c \in Coros : get_version(d, c) \/ ReadLog(d, c)

IndexStep(i) ==
    \/ process_sindex_del(i)
    \/ \E c \in Coros : UpdateIndex(i, c) \/ ReadIndex(i, c)

\* Every coroutine has made its calls and every delete has been applied. TLC
\* reports any other state without a next one as a deadlock; as the calls are
\* bounded and no step repeats, its absence means that every call returns.
Finished ==
    /\ \A c \in Coros : ctx[c].call = "idle"
    /\ calls = [w |-> MaxWrites, r |-> MaxReads]
    /\ \A d \in DThreads : rc[d] = <<>> /\ dn[d].at = "poll"
    /\ \A i \in IThreads : mn[i].deletes = <<>>
    /\ UNCHANGED siVars

Next ==
    \/ \E c \in Coros : put_primary(c) \/ get_secondary(c) \/ ClientStep(c)
    \/ \E d \in DThreads : DataStep(d) \/ DelSIndex(d)
    \/ \E i \in IThreads : IndexStep(i)
    \/ Finished

Spec == Init /\ [][Next]_siVars

-----------------------------------------------------------------------------
(* Properties. *)

\* A read returns only keys that had the value at some time during the read,
\* although the index still lists overwritten records and ReadLog keeps the value
\* of the key before for one the primary does not have.
ReadsCurrent ==
    \A c \in Coros : net[c].op = "ReadReply" => net[c].pkeys \subseteq seen[c].ever

\* A read whose scan came back with fewer than ScanCnt entries returns every key
\* that had the value and could be found in the index from its beginning, and kept
\* the value to its end, whatever deletes and writes run beside it; a read whose
\* scan was cut off at ScanCnt entries returns every such key among those it was
\* given (ReadIndexReq, ReadLog). A key whose only entry is taken over by another
\* key before the scan can no longer be found: see Displaced.
ReadsComplete ==
    \A c \in Coros : net[c].op = "ReadReply" => seen[c].always \subseteq net[c].pkeys

\* The record of key p whose write is over: no coroutine has still to index it.
Settled(p) ==
    /\ pindex[p] # Absent
    /\ ~ \E c \in Coros :
           /\ net[c].op \in {"AppendReply", "UpdateIndexReq"}
           /\ ctx[c].pkey = p /\ ctx[c].skey = pindex[p].value
           /\ net[c].version = pindex[p].version

\* The index thread of p was sent the delete of an overwritten record whose version
\* is not below that of p's record. It may be a record of another key, or one of p
\* itself: two data threads may put the records of p in the other order than they
\* took their versions, and the clock may have been set back.
Overtaken(p) ==
    \E r \in olds : /\ mn[get_index_thread_id(p)].max_del >= r.version
                   /\ r.version >= pindex[p].version

\* The entry of p's record is that of another key: it was put with the same value and
\* a version with the same low word.
Displaced(p) ==
    LET k == InsertKey(pindex[p].value, pindex[p].version)
    IN  /\ k \in DOMAIN sindex /\ sindex[k] # p
        /\ \E r \in olds \cup {Record(q) : q \in PKeys} :
             r.pkey = sindex[k] /\ InsertKey(r.skey, r.version) = k

\* A record whose write is over can be found in the index, unless it was overtaken
\* by a delete (UpdateIndexReq skips what is not above the thread's
\* local_max_del_timestamp) or displaced by another key, or the low word of its
\* version is 0, where no scan starts. Nothing else hides a record.
Indexed ==
    \A p \in PKeys : Settled(p) =>
        \/ p \in Listed(pindex[p].value)
        \/ Overtaken(p) \/ Displaced(p)
        \/ pindex[p].version % WordSpace = 0

=============================================================================
