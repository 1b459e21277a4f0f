----------------------------- MODULE MusicQueue -----------------------------
(***************************************************************************)
(* The music queue of apps/audioplayers/a2dpplay.cpp between the Bluetooth *)
(* thread, which stores the phone's packets (store_sbc_buffer), and        *)
(* af_thread, which decodes them in the stream's handler                   *)
(* (a2dp_audio_more_data).  The queue's mutex covers each single access,   *)
(* not the steps between them: the decoder looks at a packet, decodes it   *)
(* where it lies and removes it, the Bluetooth thread finds the queue full *)
(* and then waits for the decoder's signal.                                *)
(*                                                                         *)
(* A cell of the ring holds a packet; a packet is what the handler needs   *)
(* for half a buffer.  What the bytes outside the queue hold is not told    *)
(* apart ("free"): a decoder that read them would not get its packet.      *)
(***************************************************************************)
EXTENDS AudioFlinger, FiniteSets

CONSTANTS
  SBC_QUEUE_SIZE,   \* the cells of sbc_queue
  CACHE_OK,         \* A2DPPLAY_CACHE_OK_THRESHOLD
  TIMEROUT_CNT,     \* A2DP_SYNC_WITH_GET_MUTUX_TIMEROUT_CNT
  Packets           \* what the phone sends, as far as it is told apart

ASSUME QueueAssumption ==
  /\ SBC_QUEUE_SIZE \in Nat \ {0} /\ CACHE_OK \in 1..SBC_QUEUE_SIZE
  /\ TIMEROUT_CNT \in Nat /\ "free" \notin Packets

Cell   == 0..SBC_QUEUE_SIZE - 1
Memory == Packets \cup {"free"}

VARIABLES
  sbc_queue,   \* base, read, len (write is read + len)
  cache,       \* a2dp_cache_status
  need_sync,   \* a2dp_get_need_sync
  put_tid,     \* a2dp_put_thread_tid is set
  put_signal,  \* the Bluetooth thread's signal 0x80
  put,         \* the Bluetooth thread: where it is, its packet, its attempts
  frame        \* what af_thread decoded and did not remove yet

syncVars  == <<need_sync, put_tid, put_signal>>
queueVars == <<sbc_queue, cache, syncVars, put, frame>>

DecodePc == {"handler", "peek", "decode", "dequeue", "sync"}

QueueTypeOK ==
  /\ sbc_queue \in [base : [Cell -> Memory], read : Cell, len : 0..SBC_QUEUE_SIZE]
  /\ cache \in {"CACHEING", "OK", "QTY"}
  /\ need_sync \in BOOLEAN /\ put_tid \in BOOLEAN /\ put_signal \in BOOLEAN
  /\ put \in [pc : {"idle", "switch", "caching", "cacheok", "store", "clear", "waiting"},
              pkt : Memory, cnt : 0..TIMEROUT_CNT + 1]
  /\ frame \in Memory

----------------------------------------------------------------------------
(* cqueue.c *)

\* (mutant) one byte too many
AvailableOffByOne(q) == SBC_QUEUE_SIZE + 1 - q.len

AvailableOfCQueue(q) == SBC_QUEUE_SIZE - q.len

\* (mutant) what has been read is not counted
EnCQueueFromStart(q, e) ==
  [q EXCEPT !.base[q.len % SBC_QUEUE_SIZE] = e, !.len = @ + 1]

EnCQueue(q, e) ==
  [q EXCEPT !.base[(q.read + q.len) % SBC_QUEUE_SIZE] = e, !.len = @ + 1]

DeCQueue(q) ==
  [q EXCEPT !.base[q.read] = "free", !.read = (@ + 1) % SBC_QUEUE_SIZE, !.len = @ - 1]

InitCQueue == [base |-> [c \in Cell |-> "free"], read |-> 0, len |-> 0]

----------------------------------------------------------------------------
Returned == [pc |-> "idle", pkt |-> "free", cnt |-> 0]

QueueInit ==
  /\ sbc_queue = InitCQueue
  /\ cache = "QTY"
  /\ need_sync = FALSE /\ put_tid = FALSE /\ put_signal = FALSE
  /\ put = Returned
  /\ frame = "free"

----------------------------------------------------------------------------
(* store_sbc_buffer, in the Bluetooth thread.  It is entered when the music  *)
(* player runs; that is not looked at again.                                 *)

At(pc)  == put' = [put EXCEPT !.pc = pc]
Returns == put' = Returned

Arrives ==
  /\ put.pc = "idle"
  /\ \E p \in Packets : put' = [pc |-> "switch", pkt |-> p, cnt |-> 0]
  /\ UNCHANGED <<sbc_queue, cache, syncVars, frame>>

Switch ==
  /\ put.pc = "switch"
  /\ CASE cache = "CACHEING" -> At("caching")
       [] cache = "OK"       -> At("store")
       [] cache = "QTY"      -> Returns
  /\ UNCHANGED <<sbc_queue, cache, syncVars, frame>>

\* The packet goes into the queue if there is room.
HasRoom == AvailableOfCQueue(sbc_queue) >= 1
Enqueue == sbc_queue' = IF HasRoom THEN EnCQueue(sbc_queue, put.pkt) ELSE sbc_queue

\* (mutant) a queue that overflows is not counted as full, nor is the limit reached
NeverEnough == sbc_queue.len > SBC_QUEUE_SIZE

\* Enough is cached with this packet, or the queue overflows.
Enough == ~HasRoom \/ sbc_queue.len + 1 >= CACHE_OK

Caching ==
  /\ put.pc = "caching"
  /\ Enqueue
  /\ IF Enough THEN At("cacheok") ELSE Returns
  /\ UNCHANGED <<cache, syncVars, frame>>

\* A2DP_SYNC_WITH_GET_MUTUX_ALLOC, and ..._WAIT up to a2dp_get_need_sync.
AsksDecoder == put_tid' = TRUE /\ need_sync' = TRUE

\* The wait after that is the last thing done: no attempt is left.
CacheOk ==
  /\ put.pc = "cacheok"
  /\ cache' = "OK" /\ AsksDecoder
  /\ put' = [put EXCEPT !.pc = "clear", !.cnt = TIMEROUT_CNT + 1]
  /\ UNCHANGED <<sbc_queue, put_signal, frame>>

Store ==
  /\ put.pc = "store"
  /\ Enqueue
  /\ IF HasRoom THEN Returns /\ UNCHANGED <<put_tid, need_sync>>
                ELSE put' = [put EXCEPT !.pc = "clear", !.cnt = @ + 1] /\ AsksDecoder
  /\ UNCHANGED <<cache, put_signal, frame>>

\* After the wait, the next attempt; the packet is lost after the last one.
Again == IF put.cnt <= TIMEROUT_CNT THEN At("store") ELSE Returns

\* osSignalClear: a signal that came since a2dp_get_need_sync was set is lost.
Clear ==
  /\ put.pc = "clear"
  /\ IF put_tid THEN At("waiting") /\ put_signal' = FALSE
                ELSE Again /\ UNCHANGED put_signal
  /\ UNCHANGED <<sbc_queue, cache, put_tid, need_sync, frame>>

\* (mutant) the wait has no timeout
WaitsForSignal ==
  /\ put.pc = "waiting" /\ put_signal
  /\ put_signal' = FALSE
  /\ Again
  /\ UNCHANGED <<sbc_queue, cache, put_tid, need_sync, frame>>

\* osSignalWait returns with the signal, or after 20 ms without it.
WaitReturns ==
  /\ put.pc = "waiting"
  /\ put_signal' = FALSE
  /\ Again
  /\ UNCHANGED <<sbc_queue, cache, put_tid, need_sync, frame>>

PutStep == Switch \/ Caching \/ CacheOk \/ Store \/ Clear \/ WaitReturns

----------------------------------------------------------------------------
(* a2dp_audio_more_data and decode_sbc_frame, in af_thread, which holds the  *)
(* stream's mutex.                                                           *)

Goes(pc) ==
  /\ af' = [af EXCEPT !.pc = pc]
  /\ UNCHANGED <<streamVars, signal, fadeVars>>

MoreData ==
  /\ af.pc = "handler"
  /\ Goes(IF cache = "CACHEING" THEN "sync" ELSE "peek")
  /\ UNCHANGED queueVars

\* The queue does not hold a frame: the rest of the half is silence.
Peek ==
  /\ af.pc = "peek"
  /\ IF sbc_queue.len = 0 THEN Goes("sync") /\ cache' = "CACHEING"
                          ELSE Goes("decode") /\ UNCHANGED cache
  /\ UNCHANGED <<sbc_queue, syncVars, put, frame>>

\* The frame is read where it lies, without the queue's mutex.
Decode ==
  /\ af.pc = "decode"
  /\ frame' = sbc_queue.base[sbc_queue.read]
  /\ Goes("dequeue")
  /\ UNCHANGED <<sbc_queue, cache, syncVars, put>>

Removes == sbc_queue' = DeCQueue(sbc_queue) /\ frame' = "free" /\ UNCHANGED <<syncVars, put>>

\* The half is full.
Dequeue ==
  /\ af.pc = "dequeue"
  /\ Removes /\ Goes("sync") /\ UNCHANGED cache

\* The frame cannot be decoded: it is removed too and the next one is tried, or
\* the half stays short.
DropFrame ==
  /\ af.pc = "dequeue"
  /\ Removes
  /\ \/ Goes("peek") /\ UNCHANGED cache
     \/ Goes("sync") /\ cache' = "CACHEING"

\* A2DP_SYNC_WITH_GET_MUTUX_SET.
WakesPut ==
  /\ need_sync' = FALSE
  /\ put_signal' = (put_signal \/ (need_sync /\ put_tid))

Sync ==
  /\ af.pc = "sync"
  /\ WakesPut /\ Goes("post")
  /\ UNCHANGED <<sbc_queue, cache, put_tid, put, frame>>

Handler == MoreData \/ Peek \/ Decode \/ Dequeue \/ DropFrame \/ Sync

----------------------------------------------------------------------------
(* The application's calls. *)

a2dp_audio_init ==
  /\ put_tid' = FALSE
  /\ sbc_queue' = InitCQueue
  /\ cache' = "CACHEING"
  /\ UNCHANGED <<need_sync, put_signal, put, frame>>

a2dp_audio_deinit ==
  /\ WakesPut /\ put_tid' = FALSE
  /\ cache' = "QTY"
  /\ UNCHANGED <<sbc_queue, put, frame>>
=============================================================================
