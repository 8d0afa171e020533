# Verification of Switch∆

Switch∆ lets a distributed store return from a write before its index is
updated: the programmable switch between clients, data node and index node keeps
the location of the new value in a *visibility slot* and answers reads from it
until the index has caught up. This directory holds TLA+ modules of the
key-value store (`apps/kv/kv.cc` over `rpc/rpc.h`) with two switch programs
(`p4src/SwitchDelta/p4_fw.p4`, `overwrite.p4`), of the send rings under it, of the
store with a secondary index (`apps/kv/secondary_index.cc`) and of the metadata
server of the file system (`apps/fs`), TLC configurations and TLAPS proofs. Paths below are relative to `src/`.

## 1. Inventory

| Component | State | Operations | Correct when |
|---|---|---|---|
| Client (`apps/kv/kv.cc` 509-973, `rpc/rpc.h` 173-288) | one `KvCtx` per coroutine (key, magic, log id, timestamp), one raw queue pair per thread | `kv_test`: `put_value`, `put_index`, `get_index`, `get_value`; the loop that resumes the coroutine a packet names | each reply answers the call the coroutine waits in; every call returns; the history of a key is linearizable |
| Data node (`kv.cc` 303-336, 386-412; `timestamp.h`) | ring log per thread, 31-bit timestamp shard per switch key | append, read | log ids and timestamps stay in their widths |
| Index node (`kv.cc` 415-455) | a Masstree shared by all threads | put, get | |
| Batched index node (`kv.cc` 980-992, 1036-1211) | the above and a batch per thread | gather, sort, apply, post replies | the newest update of each key survives; skipped writes are answered |
| `p4_fw` (`src/visible_fw.p4`) | per switch key: owner fingerprint and rpc_id, log id | grant, free, look up | one freeing packet per occupied slot |
| `overwrite` (`src/overwrite_v2.p4`, `src/log_read.p4`) | the above and a timestamp | grant or take over, free, look up | the owner's freeing packet is in flight |
| RDMA queues (`rdma/struct/qp_info.h`) | send and receive rings, completion counters | append, post, poll | no slot reused while in flight; no spinning for a completion that cannot come |
| Secondary index (`apps/kv/secondary_index.cc`) | primary map key -> (value, version), Masstree (value, version) -> key, a delete queue per data thread, a high-water mark of deletes per index thread | `put_primary`, `put_secondary`, `get_secondary`, `get_primary`, background deletes | a read returns only keys that had the value, and every key its scan was to find; a settled record is listed unless a delete overtook it or its index key is shared |
| File system, metadata server (`apps/fs/src/filesystem.cc`, `lock.cc`, `include/fsrpc.h`) | hash table of paths, meta records with the names in a directory, one lock word per address hash | open (with `mknodcd`, `stack_mkdir`, `mkdircd`), `extentMetaWrite` | lock words exclude writers; every path lies in a directory, is created once and is listed by it; every open is answered, with an existing file unless space ran out |
| `p4_pw`, `cable_store`, `kv_cable_cache.cc`, `no_order.cc`, file system client | | | not modelled, section 7 |

How they interact. A client sends every packet through the switch.

* Write: `AppendReq` to the data thread of the key; the `AppendReply` comes back
  through the switch. If the switch grants the slot it records the write and
  multicasts the packet to the index thread and the client (*fast write*; the
  client is done). Otherwise the client sends `UpdateIndexReq` itself (*slow
  write*). The index thread answers a multicast with `ReplySwitch`, which empties
  the slot and ends in the switch.
* Read: `ReadIndexReq`; on a hit the switch sends it back with the log id, else
  the index thread answers; then `ReadLog` to the data thread.

The file system's server threads share the namespace and its locks; a client sends
all requests for a file to one thread, so threads meet in the directories. In the
store with a secondary index data threads share the primary and index threads the
Masstree; deletes travel from data threads to index threads on their own queue pairs.

What is hard: a write completes before the index holds it; updates of one key
reach the index by two routes; keys share slots (16-bit switch key) and
fingerprints (32 bits); owners are told apart by an 8-bit magic that repeats;
timestamps wrap; batching reorders; nothing is retransmitted and nothing times
out. `PROJECT.json` lists these hazards at their lines.

## 2. Modules

| Module | Models |
|---|---|
| `KvTypes` | key arithmetic (`get_switch_key`, `get_fingerprint`, thread and log id functions), counters, the packet `RawKvMsg`. Widths are constants: the code's 2^16, 2^32, 2^8, 2^31 shrink until collisions and wraps happen |
| `SwitchFw`, `SwitchOverwrite`, `Switch` | what the stateful ALUs do to the registers of one slot for one packet; `Program` selects the program |
| `KvStore` | clients, data threads, index threads, switch and the FIFO links between them; `Spec`, `FairSpec` |
| `IndexBatch` | `batchEntry::operator<`, `std::sort` (every order the comparison allows), the loop that applies a batch, and the reference `BatchEffect` |
| `KvBatch` | `KvStore` with `server_batch_CPC` in place of `run_server_CPC` on the index threads (`--batch=true`) |
| `KvProperties` | state and liveness properties of `KvStore` |
| `KvHistory` | history variables and `Linearizable`, `Fresh` |
| `Visibility` | abstract specification of a deferred index update: announce, take up once, withdraw |
| `KvRefinement` | the refinement mapping from `KvStore` to `Visibility` |
| `SecondaryIndex` | the store with a secondary index, without visibility and `read_first` |
| `FsLock`, `FsNamespace` | the lock words of `lock.cc`; the threads of the metadata server that use them |
| `RWLock` | abstract reader-writer lock |
| `SendRing` | the send ring of a queue pair (`QPInfo`), its signalling and completion queue, under `server_batch_CPC` (`run_server_CPC` is `batch_size = 1`) |
| `KvStoreProofs`, `KvReplyProofs`, `KvLogProofs` | theorems about `KvStore`, each extending the one before; the last also about `KvRefinement` |
| `KvLinearProofs` | theorems about `KvHistory` |
| `KvBatchProofs` | theorems about `IndexBatch` and `KvBatch` |
| `SendRingProofs`, `FsProofs`, `SiProofs` | theorems about `SendRing`, `FsNamespace` and `FsLock`, `SecondaryIndex` |
| `MCKv`, `MCKvLive`, `MCKvBatch`, `MCKvBatchLive`, `MCSendRing`, `MCSi`, `MCFs` | instances for TLC |

Correspondence of `KvStore`. `ctx[c]` is `KvCtx` and the point of `kv_test` where
coroutine `c` waits (`pc = "free"` is `CoroCtx::free`). `c2s, s2c, d2s, s2d, i2s,
s2i` are the two directions of each thread's raw queue pair
(`kConfigMaxQPCnt = 1`): one FIFO each, because a raw queue pair and the switch
keep the order of a flow. `regs` are the registers; `kv`, `pos`, `tss`, `index`
have their names in the code. The actions:

* `kEnumW`, `kEnumR`: a free coroutine starts `kv_test` and sends the first packet;
* `ClientReply(t)`: the loop takes a packet of thread `t` and resumes the coroutine;
  the four disjuncts are the returns of the four calls, up to the next packet sent;
* `DataServer(d)`, `IndexServer(i)`: one packet through `server_process_msg`;
* `SwitchClient/SwitchData/SwitchIndex`: one packet through ingress and egress.

`IndexPoll(i)` of `KvBatch` is one turn of the loop of `server_batch_CPC`. It takes
any number of packets up to `kMaxWcCnt`, since the moment of the poll is free. It
is one atomic step: the puts of a batch could interleave only with those of other
index threads, which serve other keys unless the finding of section 4 applies; the
batch runs use one index thread.

`SendRing` is a module of its own: `KvBatch` takes it for granted that replies are
posted when their batch is applied and that the thread returns, which is what
`RepliesPrivate` and `ServerReturns` say. Its variables have their names in
`qp_info.h`. `Poll`, `Receive`, `EndPoll` are the loop of `server_batch_CPC`;
`EarlyPost` and `PollSend` are the loop in `get_send_msg_sg`; `Transmit` is the card
(external: in order, one completion per signalled request). The loop of
`generate_and_issue_batch` is in closed form. As no caller of `kv.cc` asks for a
signal, every signalled request stands for exactly `kMaxSignal` requests and a
completion is a count. `check_signal` does nothing while `CompletionsFit` holds.

The batch size is a variable of `SendRing` that never changes, so that one run covers
every batch size.

`Visibility` and `KvRefinement`. The abstract slot of a switch key holds the write it
announces (long key, log id, whether the index has taken it); the abstract index is
the index. The registers hold neither the long key nor whether the index was
updated: both are read off the one multicast or `ReplySwitch` of the owner in
flight, which exists because of `SlotOwned`. `AppendReply` at the switch implements
`Announce` or a stutter, a multicast at the index thread `TakeUp` (for overwrite also
`Update`, when the slot was taken over), a slow update `Update`, a `ReplySwitch` at
the switch `Withdraw` or a stutter, everything else a stutter.

`FsLock` and `FsNamespace`. `word[a]` is a lock word, split in its halves; one action
per atomic instruction (`LockWrite`, `LockRead`, `Spin`, `UnlockWrite`, `UnlockRead`),
per operation on the hash table (`Get`, `CheckExists`, `PutItem`) and for the copy of
`updateRemoteMeta` (`UpdateParent`). `th[t]` is the call thread `t` is in, where in it,
and the recursion of `stack_mkdir` as the list of directories still to make; `Return`
says which call follows. Paths are model values with a `Parent`; `Addr` is
`getAddressHash`, so that paths may share a lock word. The records of files are
reduced to their existence, those of directories to their names.
`PutItem` is `Table::create` and `HashTable::put`. Either may fail, and nothing is rolled back. The free
list of a meta table is a circle of items that are freed as they are used: the first
`countFile` (`countDirectory`) creates give fresh records, from then on `Creates` gives any record of
the table, in use or not, or fails. `put` fails when no item of the hash table is free (`Full`).
`failed` records, for the properties only, that a create or put of this request has failed.
Left out: past the end of a free list the server may also crash on freed memory, or
return from `create` with the mutex of the table locked (`table.h:130`).
`RWLock` is refined by the sets of threads between the last instruction of a lock and
the first of its unlock.

`SecondaryIndex`. `pindex`, `sindex`, `del_queue` have their names in the code, `max_del` is
`local_max_del_timestamp`. A data thread polls several packets and sends its deletes
at the end of the poll; the handlers of `AppendReq` and `ReadLog` are split where other
data threads can interleave (`get_version`, `get_and_put`; one step per key filtered).
A version is the clock in nanoseconds shifted left by 4, plus the thread id, in 64 bits
(`Versions`); every read of the clock may give any value of `Clock`, since it is not monotonic and threads
read it on their own. Keys of the Masstree are tuples of what their bytes hold: an insert uses 12 bytes
(`sizeof(kKeySize) * 3`), so the key has the low word of the version, which comes round
every 0.27 s; a remove uses 24.
A scan starts at the 24 bytes of the secondary key and zeros, so it skips the entry with
version word 0, ends after `ScanCnt` entries and may run into the next secondary key; within a key the
byte order of the version is arbitrary. `new_insert` of libcuckoo is external: it
swaps the record and tells whether there was one.

Abstractions of the store. A value is the number of the request that wrote it; `client_port`,
`route_port` and the source ids are one field `cli`; fingerprint and switch key
are computed from the key; `0xFFFFFFFF` is `NoLog`. `main` preloads every key, so
`get_long` never fails and the `NoLog` branch of `GetIndexReturns` is not reached.
The index counters of the switch (`counter_table`) and the flow control built on
them do nothing with `kv.cc`'s ports ((t+1) << 8, while `py_fw.py:274` installs 0
to 7) and are left out.

## 3. Properties

* `TypeOK`: one type invariant; also that counters and registers keep their widths.
* `Linearizable`: operations on a key fall into clusters (a write and the reads
  that returned it); cluster a precedes b when an operation of a returned before
  one of b was called; no two clusters precede each other. As every write has its
  own value this is linearizability of a register.
* `Fresh`: the part of it about completed writes: a read called after write 2
  returned does not return write 1 that returned before write 2 was called.
* `SlotOwned` (p4_fw): every multicast or `ReplySwitch` in flight belongs to the
  owner of its slot, no slot has two, an occupied slot has one.
* `OwnerOutstanding` (overwrite): the owner of an occupied slot has its packet in
  flight, whatever packets of earlier owners are too.
* `ReplyExpected`: the asserts of the four calls: opcode and key of the packet that
  resumes a coroutine fit the call it waits in.
* `BatchAgrees`: for every batch a poll can form in a reachable state and every
  order `std::sort` may produce, the loop has the effect of the reference.
* `BatchOwned`: `OwnerOutstanding` with the packets that wait in a batch.
* `RequestsReturn`, `SlotsFreed`: liveness.
* `RingTypeOK`; `InFlightUntouched`: no buffer is written that the card has still to
  read, at any batch size; `CompletionsFit`: the completion queue is never full;
  `RepliesPrivate`: an entry of a batch that fits keeps its reply buffer, unposted,
  until the batch is applied; `ServerReturns`: the thread comes back to poll;
  `FittingReturns`: it does so at the batch sizes that fit.
* `ImplementsVisibility`: the store is an implementation of `Visibility`: an announced
  write reaches the index exactly once, with its own key and log id, before its slot
  is handed back.
* `FsTypeOK`; `ImplementsRWLock`: the lock words give a reader-writer lock;
  `CreatedOnce`: no record of a path is ever replaced; `ParentExists`: every path
  lies in a directory, also when creates and puts fail half-way; `OpenFinds`: an open that reads
  attributes finds its file, unless a create or put of this very request found no space;
  `OpensReturn`: every request is answered, until space runs out (`NoSpace`);
  `Listed`: a directory is among the names of its parent.
* `SiTypeOK`; `ReadsCurrent`: a read returns only keys that had the value during the read;
  `ReadsComplete`: a read whose scan was not cut off returns every key that had the value and could be
  found from its beginning and kept the value; one whose scan was cut off at `ScanCnt`
  entries returns every such key among those the scan gave it; `Indexed`: a record whose write
  is over can be found, unless its index thread was sent the delete of a record, of any key,
  its own included, with a version not below (`Overtaken`), another key with the same value and the same
  low word has its entry (`Displaced`), or its low word is 0.

## 4. Runs

| Run | Instance | Checks |
|---|---|---|
| `fw_core` | p4_fw, 1 key, 3 client threads, 4 requests, magic mod 2, timestamp mod 4 | `TypeOK Linearizable SlotOwned ReplyExpected` |
| `fw_live` | p4_fw, 1 key, 2 threads, fair | `RequestsReturn SlotsFreed ImplementsVisibility` |
| `ow_core` | overwrite, three keys on one slot, two of them with one fingerprint, 2 threads, timestamp mod 4 | `Linearizable OwnerOutstanding` |
| `batch_core` | batch of 3, polls of up to 3, 2 keys on one slot, 2 threads | `Fresh BatchAgrees BatchOwned` |
| `batch_live` | batch of 2, 2 threads, fair | `RequestsReturn` |
| `fw_index_threads` | two index threads, switch-key space 3 | `Fresh` is **violated** |
| `ring_batch` | groups of 3, ring of 12, polls of up to 2, every batch size from 1 to 12, fair | `RingTypeOK RepliesPrivate InFlightUntouched CompletionsFit FittingReturns` |
| `ring_full_hang` | the same, batch of 12, fair | `ServerReturns` is **violated** |
| `fs_open` | 2 threads, files /s/a/f of one, /s/g and /c/h of the other, a and c share a lock word, one lock id, 3 records in each meta table, fair | `FsTypeOK ParentExists OpenFinds ImplementsRWLock CreatedOnce OpensReturn`, deadlock |
| `fs_listed` | the same with a lock word for every path, ids mod 2 and tables large enough, not fair | `Listed` is **violated** |
| `si_index` | 2 coroutines, 2 data and 2 index threads, 2 keys, 2 values, 3 writes, clock 1 to 3, versions mod 8, words mod 4, deletes sent one at a time | `SiTypeOK Indexed`, deadlock |
| `si_reads` | the same with 1 index thread, clock 1 to 2, 3 writes, 1 read, scans of 2 entries, deletes sent two at a time | `ReadsCurrent ReadsComplete`, deadlock |

`fw_index_threads`: `put_value` (`kv.cc:744`) derives the index thread of the
multicast from the long key, everyone else from the switch key. When `mn_thread`
does not divide 65536, as 12 of `scripts/test_scala1.py:18`, a multicast and a
later slow update of its key go to different threads; the multicast can be applied
last, and a read after both writes returns the first.

Batches and reads. What is claimed of batches is `Fresh`. A read that was polled together with
later updates is answered with the newest of them, its reply may overtake theirs, and the
slot of an older write is still held: of two reads that overlap the newer write the first
may see it and the second not. TLC finds `Linearizable` violated this way with a batch of 2; the newer
write has not returned at that point, and no line of the repository promises more than
`Fresh`. The hazard list has it.

`ring_full_hang`: `scripts/test_kv_threads.py:20` sets
`--batch_size=128`, the size of the ring. A poll that takes the batch past 128 finds
the ring full. With 1 to 31 unsignalled requests in flight it spins for ever: the
run. With nothing in flight `get_send_msg_sg` posts the unapplied replies (line 705,
marked FIXME), their buffers are filled again and the batch applies the newer
requests in place of the older ones: `RepliesPrivate` fails for a batch of 12. Both
are excluded when `batch_size + kMaxWcCnt - 2 + kMaxSignal <= kStaticSendBuf`, up to a
batch of 82 in the code (the default is 16): `Fits`, which is exact, a batch one larger
deadlocks. The state space of the ring is finite
without any bound.

`fs_listed`: `mkdircd` reads the parent's record under a read lock, releases it, and
writes the copy with one more name back while it holds only the lock of the new
directory. Threads that create /s and /c at the same time lose one name. The
directories themselves are found by path, so opens still work (`fs_open`).

`ImplementsVisibility` also holds for overwrite when magics do not repeat while packets
are in flight (`MagicSpace = 8`, keys 3 and 7). With `MagicSpace = 2`, one thread and three writes of
a key TLC finds that the late `ReplySwitch` of the first write withdraws the slot of the
third. Reads are not harmed: one that misses the slot queues behind the multicast
(`ow_core` checks `Linearizable` with `MagicSpace = 2`).

`fs_open` places the collision between directories of different branches. A
directory that shares its address with its own parent would make `mkdircd` wait for
the read lock on a word it holds itself, and threads that hold words crosswise would
wait for each other; the code does nothing against this, TLC finds the deadlock, and
the hazard list has it. A retried compare-and-swap on a word that keeps changing may
starve: nothing stronger than weak fairness is assumed, and in the instance each
thread's own lock word becomes free and stays so.

There is room for three directories, /, /s and /s/a, and for five paths: opens of f and g succeed and return,
in any interleaving, while /c may be made before or after them. Then `create` fails or gives out a record
in use, `put` fails, `stack_mkdir` goes on below a directory it could not make, and `getattr` runs on a
file that is missing; it does so only in a request that met the lack of space itself. All writers have
the same lock id, the extreme of a `WriteID` that repeats, and the smallest.

`OpensReturn` is claimed only until a create or put finds no space (`NoSpace`). `stack_mkdir` is called whatever
made `mknodcd` fail (`fsrpc.h:432`); for a file directly below the root it then calls
`mkdircd("/")`, and this takes the write lock of the root and waits for the read lock of the
root's parent, which is the root. All other threads soon wait for the root as well. The instance has no
such file; with one, /h, TLC reaches the deadlock, and the hazard list has it.

`si_index`: three writes are what it takes for a delete to overtake an insert. Each exception of
`Indexed` is needed: TLC finds a violation without any one of `Overtaken`, `Displaced` and the word 0, and
also when `Overtaken` is restricted to records of other keys (two data threads put the records
of one key in the other order than they took their versions). In all of these the record
is never listed. Words of 4 values under versions up to 7 make different versions meet in one word and give
the word 0; a clock that may show any of its three values at any time makes versions repeat and run
backwards, which is also what a wrap of the 64 bits would do.

`si_reads`: up to three entries meet scans of two, so there are scans that are cut off,
complete ones, and ones that run into the next secondary key. As the code scans 10 entries
(`secondary_index.cc:642`), has 25 keys per secondary key (line 12) and never removes an entry, a read
that is cut off is its ordinary case, and then keys with the value are missing from it. Deletes never find
their entry, because insert and remove disagree on the length of the key; what reads
return is current because `ReadLog` filters. All
behaviours of the two instances end, so the absence of deadlock is the return of every call.
`DelSIndex` messages and write queues cannot overflow: a poll adds at most 16 to at
most 31 queued deletes, and 64 are allocated.

Bounds. `MaxRequests` bounds the requests of a run and is the only bound on the
behaviour; four are enough for two overlapping writes followed or overlapped by two
reads, which is what an inversion needs, and with three threads a third party can
observe it. `MagicSpace = 2` makes the second request after the first of a
coroutine repeat its rpc_id; `TsSpace = 4` has the timestamps 1 to 3, so the third
write of a shard wraps. `logspace` exceeds the requests: the ring does not go round
(hazard list). `CHECK_DEADLOCK FALSE` in the runs of the store: the instance stops when the requests are used
up. Client threads are symmetric; the liveness runs use no symmetry.

Keys are placed so that their data thread is not 0 and the key of the single-key
runs has another fingerprint than the blank record, so a read of the initial value
is kept by `read_ok`. `main` preloads the index with log id 0, which is also the
first record of data thread 0; with visibility off and one data thread TLC finds
that a read sees a first append through the preloaded entry before its write is
visible. The hazard list keeps this.

A switch that never hits would still be linearizable in these runs: the multicast
precedes the client's reply on the same switch and the link to the index is FIFO, so
a later read that misses finds the update applied. What correctness hinges on is
that a slot is freed in time and never answers for another key: the mutants of
`Linearizable` are of that kind.

Timestamps in batches: with timestamps of both sides of the wrap in one batch the
older update survives (`Fresh` fails in `batch_core` with `TsSpace = 4`), so the batch runs
use `TsSpace = 8`. In the code that takes 2^31 writes on one switch key.

Fairness. `FairSpec` of `KvStore` has weak fairness on each thread's polling loop and on the
switch per link: each loop (`rpc.h` 118-166, 243-286, `kv.cc` 1061-1210) runs on its
own core and polls for ever; a switch forwards at line rate. New requests are not
assumed fair. Each fair action is enabled whenever its queue is not empty.
`FairSpec` of `SendRing` is fair to the thread's steps and to the card, not to `Poll`.
`FairSpec` of `FsNamespace` is weakly fair to each server thread and not to new requests.
`SlotsFreed` is not claimed for batches: a multicast waits until the batch is full
or a read or an update arrives.

## 5. Proofs

Checked by TLAPS, for every value of the constants that satisfies the named
assumptions of the modules. Each inductive invariant was first checked by TLC on
small instances, then proved with one lemma per process or action.

The store (`KvStore`), both programs unless said otherwise:

* `KvStoreProofs!TypeCorrect`: `Spec => []TypeOK`. `TypeOK` is
  inductive. Lemmas on the arithmetic (`KeyRanges`, `LogRanges`, `CounterRanges`),
  on queues (`PushType`, `PopType`), on the registers and on the packets built,
  then one lemma per process.
* `KvStoreProofs!SlotSafety`: with p4_fw, `Spec => []SlotOwned`. The inductive
  invariant is `TypeOK /\ SlotOwned`: a grant needs an empty slot, so by
  `SlotMatches` no packet of the slot is in flight; a `ReplySwitch` finds its own
  rpc_id, so by `SlotUnique` it empties the slot together with its last packet.
  The `Push...` and `Pop...` lemmas say where the packets of one
  opcode stand after a queue changes. The statement does not depend on how wide the
  magic is: p4_fw never has two owners of one slot at a time.
* `KvStoreProofs!OwnerSafety`: `Spec => []OwnerOutstanding`. Inductive with `TypeOK`. A
  takeover puts the packet of the new owner in flight in the same step; a packet that
  leaves flight is either not the owner's or empties the slot. Repeated magics do no
  harm here: a stale `ReplySwitch` that matches empties the slot, it never leaves one
  occupied without a packet.
* `KvReplyProofs!AnswerSafety`: `Spec => []SoleAnswer`. A waiting coroutine has exactly one
  packet in flight, over all six families of links, that will resume it; the packet
  is at a stage of the coroutine's call, carries its key and is routed to an existing
  thread; a free coroutine has none. It is stated over the six families together
  (`Net`), so that a step is "take one head, add at most one answering packet"
  (`Moves`) and uniqueness is argued once. `RequestsReturn` needs fairness and stays with TLC;
  this is what it rests on.
* `KvReplyProofs!ReplySafety`: `Spec => []ReplyExpected`, from `SoleAnswer`. The asserts alone
  are not inductive: they speak of packets at the client only.
* `KvReplyProofs!StampSafety`: `Spec /\ []ClocksFit => []StampInv`. Packets of a slot that carry
  the same timestamp belong to the same append, and a read carries 0. It needs
  `SoleAnswer`: a client copies the timestamp of the reply into its slow update.
* `KvLogProofs!LogSafety`: `Spec /\ []RingsOpen => []LogInv`. `LogInv` adds to `SoleAnswer` that
  requests under way have values of their own (`Values`) and that a log id in a packet
  names the entry with the key and the value of its write, that a multicast and its
  client's slow update exclude each other, and that a write not yet appended has no
  packet about a slot (`Carried`).
* `KvLogProofs!VisibilityImplemented`: with p4_fw, `Spec /\ []RingsOpen => ImplementsVisibility`,
  the refinement. `Mapped` says that the abstract slot is the owner's packet; by
  `SlotOwned` there is exactly one, by `LogInv` its log id is the one in the register.
  Then one lemma per process: the abstract step it is, or that it changes neither an
  announcement nor the index.
* `KvLinearProofs!LinearSafety`, `FreshSafety`: `SpecH /\ []RingsOpen /\ []Preloaded => []Linearizable`
  and `[]Fresh`, for both programs. The order of the operations on a key is the order in
  which the updates enter the queue of its index thread: the *rank* of a write is its
  place in this order (0 before it is there), the rank of a read that of the value it
  returns. `LinearInv` says that there is a ranking for which: updates of a key are queued in
  the order of their ranks, all above that of the index (`QueueOK`); while a slot still
  announces an older write, the reply of a slow update is behind the `ReplySwitch` that
  frees the slot (`LagOK`); a read in the queue finds what its client has seen and nothing
  a later read could miss (`ReadsOK`); so does every packet on its way back to a reader
  (`PacketsOK`); and what precedes has the lower rank (`HistoryOK`). Everything seen stays
  findable: `Low`, "a read that passes the switch now finds this rank or a later one",
  never becomes false again. A cycle of clusters would be a cycle of ranks. Timestamps
  play no part.

The hypotheses of these theorems are conditions on runs of the code that the code
does not enforce; each is a hazard at its line when it fails, and each holds in every
state of the instances TLC checks:

* `RingsOpen`: no data thread has come to the end of its ring (10 M entries, `kv.cc:331`);
  afterwards entries are overwritten that the index still points to.
* `Preloaded`: entry 0 of data thread 0, to which `main` lets every key point, is not
  written (`kv.cc:1320`), as when no key in use is on data thread 0. Otherwise the first
  append there is visible before its write is.
* `SameThread`: the index thread of the long key is that of the switch key; true for
  every `mn_thread` that divides 65536. `fw_index_threads` shows what happens otherwise.
* `ClocksFit`: no 31-bit counter is at its last value (`kv.cc:1108`).

The batched store (`KvBatch`), both programs, batches and polls of any size:

* `WalkEffect`, about the algorithm alone: for a batch of any length, if reads are older than
  updates of their key and equal timestamps of a key agree on the log id, every order
  `std::sort` may leave gives the effect of `BatchEffect`. The invariant of the loop is `Halfway`; the
  induction over its turns uses the least counterexample (`LeastNat`, `UpTo`), since the
  induction theorems of the library cannot be instantiated by the provers.
* The other theorems rest on one observation. Regard what is in the batch of an index
  thread as still in its queue (`Queued`). Then a poll that only gathers is a stutter, and
  every other step of `SpecB` is a step of `KvStore`, to which the proofs of
  `KvReplyProofs` apply through the instance `K`, or it is `Applied`: the first packets of a queue
  are answered all at once (`StepIs`). So for each invariant only `Applied` is left to prove.
* `BatchOwnerSafety`: `SpecB => []BatchOwned`, from `OwnerOutstanding` of the instance.
* `BatchReplySafety`: `SpecB => []ReplyExpected`, from `SoleAnswer` of the instance: a packet answered in a
  batch has exactly one image behind the replies that were already in the link.
* `BatchAgreement`: if 0 is not a key, `SpecB /\ []K!ClocksFit => []BatchAgrees`. `StampInv` of the instance makes
  every batch satisfy the premises of `WalkEffect`. Key 0 would be taken for the one already
  met, because `last_key` starts as 0 (`kv.cc:1136`); the clients draw random 64-bit keys.

The send ring (`SendRing`), every group and batch size:

* The invariant `RingInv` adds to the types `Counters` (what the counters of `QPInfo` say of
  the ring: unfinished requests are whole signalled groups plus `send_cnt_bf_signal`, the
  card's share is what they leave), `Places` (the pending and the posted buffers lie
  one behind the other, every `kMaxSignal`-th is signalled) and `BatchPlaces` (the entries of a
  batch that fits are the pending buffers in order).
* `RingTypeCorrect`, `RingInFlight`, `RingReplies`: `[]RingTypeOK`, `[]InFlightUntouched`, `[]RepliesPrivate`.
* `RingCompletions`: `[]CompletionsFit` when `cq_len > 4`; the ring has four groups, and the code
  asks for 65536 entries (`FLAGS_cq_len`, `rdma/operation/operation.cc:12`).
* `RingProgress`: with a batch that fits, a thread that waits for room waits for a
  completion that is there or that a posted request will bring.

The metadata server (`FsNamespace`), every tree of paths, any finite set of threads,
any sharing of lock words:

* The invariant `FsInv` adds `LockInv` (the low half of a word counts the readers inside or
  at the door, the high half is 0 exactly when no writer is inside, and there is at most one),
  `CallsInv` (what a call knows of the table at each place it stands: `stack_mkdir`'s list
  leads down to the file, the directory above the one being made exists, a path found missing
  under its write lock still is) and `TableInv`.
  Where space may run out, a call knows that the path is there or that this request has failed.
* `FsTypeCorrect`, `FsParents`, `FsOpens`: `[]FsTypeOK`, `[]ParentExists`, `[]OpenFinds`, with tables of any size, hence
  with creates and puts that fail and records that are given out twice.
* `FsCreatesOnce`: `Spec => CreatedOnce`, an action property. It needs exclusion on the word
  of the path, hence `LockInv`.
* `FsLocks`: `Spec => ImplementsRWLock`, the refinement: every step of the server is a step of
  `RWLock` or leaves the sets of readers and writers alone. It does not use that ids of
  writers differ; that the node id keeps a writer's half of the word from being 0 is enough.

The secondary index (`SecondaryIndex`):

* The invariant `ReadInv` adds to the types that a packet belongs to its coroutine's call
  (`CallSent`), that a data thread holds only packets for it (`Served`), that a key reaches the
  index and from there a read only after it is in the primary (`PrimaryFirst`), and that what a
  read kept had the value (`Kept`). `SiTypeCorrect` and `SiReadsCurrent` follow. `PrimaryFirst` is what
  makes the stale `tmp_value` of `ReadLog` harmless.
* `SiIndexed`: `Spec => []Indexed`, with any clock and any width of versions and words. The invariant `VersionInv`
  says that a version named by a delete on its way is that of an overwritten record
  (`DeletesOld`), that what a client has still to index and what the index lists are records that
  were put (`PendingPut`, `Entered`), and that every current record has an entry under its key, is on its way or
  was skipped (`Accounted`). Nothing is removed: no key of 24 bytes is one of 12.
* `SiReadsComplete`: `Spec => []ReadsComplete`. `Carried` follows a key that a read must return: it can be found in the index,
  then it is in the list on the way to the data thread, then still to be compared or kept.
  A scan that comes back with fewer than `ScanCnt` entries is all there is from its start on
  (`ScanWhole`).

Assumptions. `PathAssumption` asks for finitely many threads (the reader count is a
cardinality) and at least one file, `CountAssumption` for at least one record in each meta table, `SiAssumption` for at least one key, value and
coroutine (the blank records name one). The code has all of these.

Only model-checked:

* `RequestsReturn`, `SlotsFreed`, `FittingReturns`, `OpensReturn`: liveness is out of the prover's reach. `AnswerSafety`,
  `OwnerSafety` and `RingProgress` are the safety parts of the first three.
* `Fresh` of the batched store (`batch_core`). `Linearizable` fails there (section 4), so the ranking of
  `KvLinearProofs` does not carry over: within a batch timestamps decide, between batches
  the order of arrival.
* `ImplementsVisibility` for overwrite, which holds only while magics do not repeat (section 4).

## 6. Open ends

1. `Fresh` of the batched store: of two writes in sequence the later one has the larger timestamp
   (`StampSafety`) and comes later in the queue; what is missing is the history.
2. The refinement of `Visibility` by overwrite under the condition that an rpc_id is not used
   again while a packet carries it.
3. The multicasts of the file system, once there is a switch program with its opcodes.

## 7. Not modelled

* `p4_pw.p4`: the match that sends packets to the slots is commented out (lines 22-24) and
  `py_pw.py` installs nothing for it. Every packet is routed as if visibility were off.
* `cable_store.p4`, `src/visibility_big_key.p4`, `src/cache.p4`, `kv_cable_cache.cc`: there is no
  control-plane script for the program and no program that includes the cache, so
  what a packet meets cannot be read off the repository. The rest of
  `kv_cable_cache.cc` is the protocol of `kv.cc`.
* Visibility in `secondary_index.cc`: the switch multicasts the `AppendReply`, which carries
  only the version, while the index reads value, version and key from it. `read_first`:
  its queue starts at an uninitialised count.
* The file system's clients, data path and multicasts: their opcodes (`apps/fs/include/pkt.h`)
  differ from those of the P4 programs, and a read or write that hits the switch waits
  for a second reply that none of the programs sends.
* `no_order.cc`: its servers store nothing.
* The COMT variant of the batch loop, RC, UD and DCT transports, the receive ring,
  one-sided requests; the index counters and flow control (section 2).
* `cbmt/`, `comt/`, which are most of the repository's lines: vendored Masstree and ERMIA,
  used as atomic maps. Examples, benchmarks, `scripts/`, connection set-up.
