----------------------------- MODULE SendRing -----------------------------
(***************************************************************************)
(* The send side of a raw queue pair (QPInfo) under a server thread. The   *)
(* thread fills buffers of a ring, one reply per request, and posts them   *)
(* together; the network card sends them in order. Only every kMaxSignal-  *)
(* th request is signalled, and only a completion of a signalled request   *)
(* gives buffers back, which the thread fetches when the ring is full.     *)
(*                                                                         *)
(* The thread is server_batch_CPC, which keeps the replies of a batch      *)
(* unposted until the batch is applied. run_server_CPC, which posts after  *)
(* every poll, is the case batch_size = 1. The one-sided counters stay 0:  *)
(* nothing in kv.cc posts one-sided requests.                              *)
(***************************************************************************)
EXTENDS Naturals, Sequences

CONSTANTS
    kMaxSignal,   \* 32
    kMaxWcCnt,    \* 16, completions one poll of the receive queue returns at most
    BatchSizes,   \* values of FLAGS_batch_size
    cq_len        \* length of the completion queue of sends

ASSUME RingAssumption ==
    /\ kMaxSignal \in Nat \ {0} /\ kMaxWcCnt \in Nat \ {0}
    /\ BatchSizes \subseteq Nat \ {0} /\ cq_len \in Nat \ {0}

kStaticSendBuf == kMaxSignal * 4

Bufs == 0 .. kStaticSendBuf - 1

VARIABLES
    batch_size,          \* FLAGS_batch_size, fixed at the start
    send_buf_pos,        \* the buffer of the next reply
    send_begin_id,       \* the first buffer that is not posted
    send_pending_cnt,    \* replies appended and not posted
    send_counter,        \* replies posted and not given back
    send_cnt_bf_signal,  \* replies posted since the last signalled one
    signal_counter,      \* signalled requests not polled
    nic,                 \* requests the card has still to send
    cq,                  \* completions the thread has not polled
    batch,               \* reply_addr of the entries of the batch
    todo,                \* requests of the current poll not yet received
    onpath,              \* a client waits for one of the current poll
    polling              \* the thread is between two polls

ringVars == <<send_buf_pos, send_begin_id, send_pending_cnt, send_counter,
              send_cnt_bf_signal, signal_counter>>
vars == <<ringVars, batch_size, nic, cq, batch, todo, onpath, polling>>

Init ==
    /\ batch_size \in BatchSizes
    /\ send_buf_pos = 0 /\ send_begin_id = 0 /\ send_pending_cnt = 0
    /\ send_counter = 0 /\ send_cnt_bf_signal = 0 /\ signal_counter = 0
    /\ nic = <<>> /\ cq = 0
    /\ batch = <<>> /\ todo = 0 /\ onpath = FALSE /\ polling = TRUE

-----------------------------------------------------------------------------
\* Fault: the position does not wrap.
ADD_ROUND_unwrapped(x, n) == x + 1

ADD_ROUND(x, n) == (x + 1) % n

\* Fault: one buffer more than there are.
Room_off_by_one == send_counter + send_pending_cnt <= kStaticSendBuf

\* The loop of get_send_msg_sg ends.
Room == send_counter + send_pending_cnt < kStaticSendBuf

\* Fault: the counter runs past kMaxSignal without a signal.
Signaled_never(i) == FALSE

\* generate_and_issue_batch signals the i-th request of a post when the count
\* since the last signal comes to kMaxSignal, and starts the count again. No
\* caller signals a request itself (append_signal_smsg clears the flag), so that
\* each signalled request stands for kMaxSignal requests.
Signaled(i) == (send_cnt_bf_signal + i) % kMaxSignal = 0

\* The requests generate_and_issue_batch hands to the card.
Issued ==
    [i \in 1 .. send_pending_cnt |->
        [buf |-> (send_begin_id + i - 1) % kStaticSendBuf, signaled |-> Signaled(i)]]

\* post_appended_smsg, with the counters the loop of generate_and_issue_batch leaves.
Post ==
    /\ nic' = nic \o Issued
    /\ signal_counter' =
         signal_counter + (send_cnt_bf_signal + send_pending_cnt) \div kMaxSignal
    /\ send_cnt_bf_signal' = (send_cnt_bf_signal + send_pending_cnt) % kMaxSignal
    /\ send_counter' = send_counter + send_pending_cnt
    /\ send_begin_id' = send_buf_pos
    /\ send_pending_cnt' = 0
    /\ UNCHANGED send_buf_pos

\* poll_cq_try on the receive queue: n requests. A poll that brings nothing
\* changes nothing.
Poll ==
    /\ polling
    /\ todo' \in 1 .. kMaxWcCnt
    /\ onpath' \in BOOLEAN
    /\ polling' = FALSE
    /\ UNCHANGED <<batch_size, ringVars, nic, cq, batch>>

\* A request of the poll finds a buffer: the reply is written into it, entered
\* in the batch and appended.
Receive ==
    /\ ~ polling /\ todo > 0 /\ Room
    /\ batch' = Append(batch, send_buf_pos)
    /\ send_buf_pos' = ADD_ROUND(send_buf_pos, kStaticSendBuf)
    /\ send_pending_cnt' = send_pending_cnt + 1
    /\ todo' = todo - 1
    /\ UNCHANGED <<batch_size, send_begin_id, send_counter, send_cnt_bf_signal,
                   signal_counter, nic, cq, onpath, polling>>

\* The ring is full of replies that are not posted: get_send_msg_sg posts them,
\* whether the batch is applied or not.
EarlyPost ==
    /\ ~ polling /\ todo > 0 /\ ~ Room /\ send_counter = 0
    /\ Post
    /\ UNCHANGED <<batch_size, cq, batch, todo, onpath, polling>>

\* Fault: the completion queue's own counter is forgotten.
PollSend_keeps_signal_counter ==
    /\ ~ polling /\ todo > 0 /\ ~ Room /\ send_counter > 0
    /\ cq > 0
    /\ cq' = cq - 1
    /\ send_counter' = send_counter - kMaxSignal
    /\ UNCHANGED <<batch_size, send_buf_pos, send_begin_id, send_pending_cnt, signal_counter,
                   send_cnt_bf_signal, nic, batch, todo, onpath, polling>>

\* The ring is full with requests in flight: poll_cq_a_wc spins until a completion
\* is there and modify_send_qp_info_by_wc gives its buffers back. poll_cq_a_wc
\* never returns nullptr, so the exit of get_send_msg_sg is not reached.
PollSend ==
    /\ ~ polling /\ todo > 0 /\ ~ Room /\ send_counter > 0
    /\ cq > 0
    /\ cq' = cq - 1
    /\ signal_counter' = signal_counter - 1
    /\ send_counter' = send_counter - kMaxSignal
    /\ UNCHANGED <<batch_size, send_buf_pos, send_begin_id, send_pending_cnt,
                   send_cnt_bf_signal, nic, batch, todo, onpath, polling>>

\* Fault: only a waiting client ends the batch.
Waits_for_client == ~ onpath

\* The batch stays open after a poll.
Waits == Len(batch) < batch_size /\ ~ onpath

\* All requests of the poll are received: the batch stays open, or is applied
\* and posted.
EndPoll ==
    /\ ~ polling /\ todo = 0
    /\ polling' = TRUE
    /\ \/ Waits /\ UNCHANGED <<ringVars, nic, batch>>
       \/ ~ Waits /\ batch' = <<>> /\ Post
    /\ UNCHANGED <<batch_size, cq, todo, onpath>>

\* The card sends the oldest request, and completes it if it is signalled.
Transmit ==
    /\ nic # <<>>
    /\ nic' = Tail(nic)
    /\ cq' = IF Head(nic).signaled THEN cq + 1 ELSE cq
    /\ UNCHANGED <<batch_size, ringVars, batch, todo, onpath, polling>>

Next == Poll \/ Receive \/ EarlyPost \/ PollSend \/ EndPoll \/ Transmit

Spec == Init /\ [][Next]_vars

\* The thread runs on a core of its own, the card sends what is posted. Requests
\* may stop coming: Poll is not fair.
FairSpec ==
    /\ Spec
    /\ WF_vars(Receive) /\ WF_vars(EarlyPost) /\ WF_vars(PollSend) /\ WF_vars(EndPoll)
    /\ WF_vars(Transmit)

-----------------------------------------------------------------------------
(***************************************************************************)
(* RingTypeOK: the counters of QPInfo stay in their ranges.                *)
(***************************************************************************)
RingTypeOK ==
    /\ batch_size \in BatchSizes
    /\ send_buf_pos \in Bufs /\ send_begin_id \in Bufs
    /\ send_pending_cnt \in 0 .. kStaticSendBuf
    /\ send_counter \in 0 .. kStaticSendBuf
    /\ send_cnt_bf_signal \in 0 .. kMaxSignal - 1
    /\ signal_counter \in Nat /\ cq \in Nat
    /\ nic \in Seq([buf : Bufs, signaled : BOOLEAN])
    /\ batch \in Seq(Bufs)
    /\ todo \in 0 .. kMaxWcCnt
    /\ onpath \in BOOLEAN /\ polling \in BOOLEAN

\* The buffers of the replies that are appended and not posted.
PendingBufs ==
    { (send_begin_id + i) % kStaticSendBuf : i \in 0 .. send_pending_cnt - 1 }

(***************************************************************************)
(* InFlightUntouched: whatever the batch size, the thread never writes a   *)
(* buffer the card has still to read: neither the one get_send_msg_sg      *)
(* hands out nor one it is still filling in belongs to a posted request    *)
(* that is not sent.                                                       *)
(***************************************************************************)
InFlightUntouched ==
    \A i \in DOMAIN nic : /\ nic[i].buf \notin PendingBufs
                          /\ Room => nic[i].buf # send_buf_pos

(***************************************************************************)
(* CompletionsFit: signalled requests never use up the completion queue.   *)
(* This is when check_signal, which get_send_msg_sg and                    *)
(* generate_and_issue_batch call, does nothing.                            *)
(***************************************************************************)
CompletionsFit == signal_counter < cq_len /\ cq <= signal_counter

\* A batch that leaves room in the ring for the requests of one more poll and a
\* group of unsignalled ones: FLAGS_batch_size <= 82 in the code.
Fits == batch_size <= kStaticSendBuf - kMaxWcCnt - kMaxSignal + 2

(***************************************************************************)
(* RepliesPrivate: until a batch that fits is applied each entry has a     *)
(* reply buffer of its own, which is not posted. Otherwise an entry's key  *)
(* and log id are overwritten by a later request and its index update is   *)
(* lost, or an unanswered read is sent.                                    *)
(***************************************************************************)
RepliesPrivate == Fits =>
    /\ \A i, j \in DOMAIN batch : i # j => batch[i] # batch[j]
    /\ \A i \in DOMAIN batch : batch[i] \in PendingBufs

(***************************************************************************)
(* ServerReturns: a thread that received requests comes back to poll for   *)
(* more; it does not spin in get_send_msg_sg for a completion that none of *)
(* the requests in flight will bring.                                      *)
(***************************************************************************)
ServerReturns == ~ polling ~> polling

(***************************************************************************)
(* FittingReturns: ServerReturns for the batch sizes that fit.             *)
(***************************************************************************)
FittingReturns == Fits /\ ~ polling ~> polling
=============================================================================
