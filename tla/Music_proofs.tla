---------------------------- MODULE Music_proofs ----------------------------
(***************************************************************************)
(* Music, for every size of the ring, threshold, number of attempts and    *)
(* set of packets.  Four facts are carried from step to step:              *)
(*   PlayerInv - where bt_sbc_player is tells the state of the stream and  *)
(*               of the amplifier,                                         *)
(*   ThreadInv - af_thread is past its wait for the mutex only while the   *)
(*               stream is open, for af_stream_close takes that mutex,     *)
(*   FrameInv  - what af_thread decodes is the head of the ring, although  *)
(*               the Bluetooth thread goes on storing,                     *)
(*   PutInv    - the Bluetooth thread has a packet and an attempt left.    *)
(***************************************************************************)
EXTENDS Music, SequenceTheorems, TLAPS

\* The calls of bt_sbc_player in their order.
StreamOfApp ==
  /\ app \in {"idle", "init", "open", "deinit"} => status = "closed"
  /\ app \in {"start", "close"} => status = "open"
  /\ app \in {"fadein", "running", "fadeout"} => status = "started"
  /\ app # "idle" => pool = "music"

\* The handler is there while the stream is open, the DMA while it is started.  The
\* code's half is the DMA's, and the first when the stream is started.
HalvesInStep ==
  /\ handler <=> status # "closed"
  /\ dma <=> status = "started"
  /\ dma => pp_index = playing
  /\ status = "closed" \/ app = "start" => pp_index = 0

\* The fade of the amplifier belongs to the start and to the stop.
FadeOfApp ==
  /\ app \notin {"fadein", "running", "fadeout"} => pa = "NULL" /\ ~speaker
  /\ app = "fadein" => \/ pa = "ON_TRIGGER" /\ ~speaker
                       \/ pa \in {"ON_SOFT_START", "NULL"} /\ speaker
  /\ app = "running" => pa \in {"ON_SOFT_START", "NULL"} /\ speaker
  /\ app = "fadeout" => \/ pa \in {"OFF_TRIGGER", "OFF_SOFT_END", "OFF_SOFT_END_DONE",
                                   "OFF_DC_START"} /\ speaker
                        \/ pa = "NULL" /\ ~speaker

PlayerInv == StreamOfApp /\ HalvesInStep /\ FadeOfApp

ThreadInv == Locked => handler

FrameInv ==
  /\ af.pc \in {"decode", "dequeue"} => sbc_queue.len > 0
  /\ frame = IF af.pc = "dequeue" THEN sbc_queue.base[sbc_queue.read] ELSE "free"

\* The Bluetooth thread holds a packet while it stores it, and stores it only while
\* an attempt is left.
PutInv ==
  /\ put.pc # "idle" => put.pkt \in Packets
  /\ put.pc \in {"switch", "store"} => put.cnt <= TIMEROUT_CNT

IInv == TypeOK /\ PlayerInv /\ ThreadInv /\ FrameInv /\ PutInv

----------------------------------------------------------------------------
(* The ring. *)

\* The cell an offset further than another, at most once around the ring.
LEMMA CellAfter ==
  ASSUME NEW c \in Cell, NEW k \in 0..SBC_QUEUE_SIZE
  PROVE  /\ (c + k) % SBC_QUEUE_SIZE \in Cell
         /\ (c + k) % SBC_QUEUE_SIZE =
              IF c + k < SBC_QUEUE_SIZE THEN c + k ELSE c + k - SBC_QUEUE_SIZE
BY QueueAssumption, SMT DEF Cell

Ring == [base : [Cell -> Memory], read : Cell, len : 0..SBC_QUEUE_SIZE]

LEMMA InitRing == InitCQueue \in Ring
BY QueueAssumption DEF InitCQueue, Ring, Cell, Memory

\* What EnCQueue makes of a ring with room.
LEMMA EnCQueueRing ==
  ASSUME NEW q \in Ring, NEW e \in Memory, AvailableOfCQueue(q) >= 1
  PROVE  /\ EnCQueue(q, e) \in Ring
         /\ EnCQueue(q, e).read = q.read
         /\ EnCQueue(q, e).len = q.len + 1
         /\ \A c \in Cell : EnCQueue(q, e).base[c] =
              IF c = (q.read + q.len) % SBC_QUEUE_SIZE THEN e ELSE q.base[c]
<1>1. q.read \in Cell /\ q.len \in 0..SBC_QUEUE_SIZE - 1 /\ q.base \in [Cell -> Memory]
  BY QueueAssumption DEF Ring, AvailableOfCQueue
<1>2. (q.read + q.len) % SBC_QUEUE_SIZE \in Cell
  BY <1>1, CellAfter, QueueAssumption
<1> DEFINE b == [q.base EXCEPT ![(q.read + q.len) % SBC_QUEUE_SIZE] = e]
<1>3. /\ b \in [Cell -> Memory]
      /\ \A c \in Cell : b[c] = IF c = (q.read + q.len) % SBC_QUEUE_SIZE THEN e ELSE q.base[c]
  BY <1>1, <1>2
<1>4. EnCQueue(q, e) = [q EXCEPT !.base = b, !.len = q.len + 1]
  BY Zenon DEF EnCQueue
<1> HIDE DEF b
<1>5. EnCQueue(q, e) = [base |-> b, read |-> q.read, len |-> q.len + 1]
  BY <1>4 DEF Ring
<1> QED
  BY <1>1, <1>3, <1>5, QueueAssumption DEF Ring

\* What DeCQueue makes of a ring that is not empty.
LEMMA DeCQueueRing ==
  ASSUME NEW q \in Ring, q.len > 0
  PROVE  /\ DeCQueue(q) \in Ring
         /\ DeCQueue(q).read = (q.read + 1) % SBC_QUEUE_SIZE
         /\ DeCQueue(q).len = q.len - 1
         /\ \A c \in Cell : DeCQueue(q).base[c] =
              IF c = q.read THEN "free" ELSE q.base[c]
<1>1. q.read \in Cell /\ q.len \in 1..SBC_QUEUE_SIZE /\ q.base \in [Cell -> Memory]
  BY QueueAssumption DEF Ring
<1>2. (q.read + 1) % SBC_QUEUE_SIZE \in Cell
  BY <1>1, CellAfter, QueueAssumption
<1>3. "free" \in Memory
  BY DEF Memory
<1> DEFINE b == [q.base EXCEPT ![q.read] = "free"]
<1>4. b \in [Cell -> Memory] /\ \A c \in Cell : b[c] = IF c = q.read THEN "free" ELSE q.base[c]
  BY <1>1, <1>3
<1>5. DeCQueue(q) = [q EXCEPT !.base = b, !.read = (q.read + 1) % SBC_QUEUE_SIZE, !.len = q.len - 1]
  BY Zenon DEF DeCQueue
<1> HIDE DEF b
<1>6. DeCQueue(q) = [base |-> b, read |-> (q.read + 1) % SBC_QUEUE_SIZE, len |-> q.len - 1]
  BY <1>5 DEF Ring
<1> QED
  BY <1>1, <1>2, <1>4, <1>6, QueueAssumption DEF Ring

\* What a ring holds, in the order of the decoder.
Held(q) == [i \in 1..q.len |-> q.base[(q.read + i - 1) % SBC_QUEUE_SIZE]]

LEMMA HeldCells ==
  ASSUME NEW q \in Ring
  PROVE  /\ Held(q) \in Seq(Memory) /\ Len(Held(q)) = q.len
         /\ \A i \in 1..q.len : /\ (q.read + i - 1) % SBC_QUEUE_SIZE \in Cell
                                /\ Held(q)[i] = q.base[(q.read + i - 1) % SBC_QUEUE_SIZE]
<1>1. q.read \in Cell /\ q.len \in 0..SBC_QUEUE_SIZE /\ q.base \in [Cell -> Memory]
  BY DEF Ring
<1>2. \A i \in 1..q.len : (q.read + i - 1) % SBC_QUEUE_SIZE \in Cell
  <2> TAKE i \in 1..q.len
  <2>1. i - 1 \in 0..SBC_QUEUE_SIZE /\ q.read + i - 1 = q.read + (i - 1)
    BY <1>1, QueueAssumption DEF Cell
  <2> QED
    BY <1>1, <2>1, CellAfter
<1>3. Held(q) \in [1..q.len -> Memory]
  BY <1>1, <1>2 DEF Held
<1>4. Held(q) \in Seq(Memory) /\ Len(Held(q)) = q.len
  <2>1. q.len \in Nat
    BY <1>1, QueueAssumption
  <2> QED
    BY <1>3, <2>1
<1>5. \A i \in 1..q.len : Held(q)[i] = q.base[(q.read + i - 1) % SBC_QUEUE_SIZE]
  BY DEF Held
<1> QED
  BY <1>2, <1>4, <1>5

\* Storing appends: the cell written is none of those that are held.
LEMMA StoringAppends ==
  ASSUME NEW q \in Ring, NEW e \in Memory, AvailableOfCQueue(q) >= 1
  PROVE  Held(EnCQueue(q, e)) = Append(Held(q), e)
<1> DEFINE r == EnCQueue(q, e)
<1>1. r \in Ring /\ r.read = q.read /\ r.len = q.len + 1
  BY EnCQueueRing
<1>2. \A c \in Cell : r.base[c] = IF c = (q.read + q.len) % SBC_QUEUE_SIZE THEN e ELSE q.base[c]
  BY EnCQueueRing
<1> HIDE DEF r
<1>3. q.read \in Cell /\ q.len \in 0..SBC_QUEUE_SIZE - 1
  BY QueueAssumption DEF Ring, AvailableOfCQueue
<1>4. /\ Append(Held(q), e) \in Seq(Memory)
      /\ Len(Append(Held(q), e)) = r.len
      /\ \A i \in 1..r.len : Append(Held(q), e)[i] = IF i <= q.len THEN Held(q)[i] ELSE e
  BY <1>1, <1>3, HeldCells, AppendProperties, QueueAssumption
<1>5. ASSUME NEW i \in 1..r.len
      PROVE  Held(r)[i] = Append(Held(q), e)[i]
  <2> DEFINE c == (q.read + i - 1) % SBC_QUEUE_SIZE
  <2>1. c \in Cell /\ Held(r)[i] = r.base[c]
    BY <1>1, HeldCells
  <2>2. CASE i <= q.len
    <3>1. i - 1 \in 0..SBC_QUEUE_SIZE /\ i - 1 # q.len /\ q.read + i - 1 = q.read + (i - 1)
      BY <1>1, <1>3, <2>2, QueueAssumption DEF Cell
    <3>2. c # (q.read + q.len) % SBC_QUEUE_SIZE
      <4>1. (q.read + (i - 1)) % SBC_QUEUE_SIZE = IF q.read + (i - 1) < SBC_QUEUE_SIZE
              THEN q.read + (i - 1) ELSE q.read + (i - 1) - SBC_QUEUE_SIZE
        BY <1>3, <3>1, CellAfter
      <4>2. (q.read + q.len) % SBC_QUEUE_SIZE = IF q.read + q.len < SBC_QUEUE_SIZE
              THEN q.read + q.len ELSE q.read + q.len - SBC_QUEUE_SIZE
        BY <1>3, CellAfter, QueueAssumption
      <4> QED
        BY <1>1, <1>3, <2>2, <3>1, <4>1, <4>2, QueueAssumption DEF Cell
    <3>3. Held(q)[i] = q.base[c]
      BY <1>1, <1>3, <2>2, HeldCells, QueueAssumption
    <3> QED
      BY <1>2, <1>4, <2>1, <2>2, <3>2, <3>3
  <2>3. CASE ~(i <= q.len)
    <3>1. q.read + i - 1 = q.read + q.len
      BY <1>1, <1>3, <2>3, QueueAssumption DEF Cell
    <3> QED
      BY <1>2, <1>4, <2>1, <2>3, <3>1
  <2> QED
    BY <2>2, <2>3
<1> QED
  BY <1>1, <1>4, <1>5, HeldCells, SeqEqual DEF r

\* Removing takes the head: the others keep their cells and their order.
LEMMA RemovingTakesHead ==
  ASSUME NEW q \in Ring, q.len > 0
  PROVE  /\ Held(q) # <<>> /\ Head(Held(q)) = q.base[q.read]
         /\ Held(DeCQueue(q)) = Tail(Held(q))
<1> DEFINE r == DeCQueue(q)
<1>1. r \in Ring /\ r.read = (q.read + 1) % SBC_QUEUE_SIZE /\ r.len = q.len - 1
  BY DeCQueueRing
<1>2. \A c \in Cell : r.base[c] = IF c = q.read THEN "free" ELSE q.base[c]
  BY DeCQueueRing
<1> HIDE DEF r
<1>3. q.read \in Cell /\ q.len \in 1..SBC_QUEUE_SIZE
  BY QueueAssumption DEF Ring
<1>4. Held(q) \in Seq(Memory) /\ Held(q) # <<>>
  BY <1>3, HeldCells, QueueAssumption
<1>5. Head(Held(q)) = q.base[q.read]
  <2>1. Head(Held(q)) = Held(q)[1]
    BY <1>4
  <2>2. 0 \in 0..SBC_QUEUE_SIZE /\ q.read + 1 - 1 = q.read + 0 /\ q.read + 0 = q.read
    BY <1>3, QueueAssumption DEF Cell
  <2>3. (q.read + 1 - 1) % SBC_QUEUE_SIZE = q.read
    BY <1>3, <2>2, CellAfter, QueueAssumption DEF Cell
  <2> QED
    BY <1>3, <2>1, <2>3, HeldCells
<1>6. /\ Tail(Held(q)) \in Seq(Memory)
      /\ Len(Tail(Held(q))) = r.len
      /\ \A i \in 1..r.len : Tail(Held(q))[i] = Held(q)[i + 1]
  BY <1>1, <1>4, HeldCells, HeadTailProperties
<1>7. ASSUME NEW i \in 1..r.len
      PROVE  Held(r)[i] = Tail(Held(q))[i]
  <2>1. /\ i \in 0..SBC_QUEUE_SIZE /\ i - 1 \in 0..SBC_QUEUE_SIZE /\ i # 0 /\ i # SBC_QUEUE_SIZE
        /\ i + 1 \in 1..q.len
        /\ q.read + (i + 1) - 1 = q.read + i
    BY <1>1, <1>3, QueueAssumption DEF Cell
  <2> DEFINE c == (q.read + i) % SBC_QUEUE_SIZE
  <2>2. c \in Cell /\ c # q.read
    <3>1. c \in Cell
      BY <1>3, <2>1, CellAfter
    <3>2. c = IF q.read + i < SBC_QUEUE_SIZE THEN q.read + i ELSE q.read + i - SBC_QUEUE_SIZE
      BY <1>3, <2>1, CellAfter
    <3> QED
      BY <1>3, <2>1, <3>1, <3>2, QueueAssumption DEF Cell
  <2>3. (r.read + i - 1) % SBC_QUEUE_SIZE = c
    <3>1. r.read \in Cell /\ r.read = IF q.read + 1 < SBC_QUEUE_SIZE
                                      THEN q.read + 1 ELSE q.read + 1 - SBC_QUEUE_SIZE
      BY <1>1, <1>3, CellAfter, QueueAssumption
    <3>2. r.read + i - 1 = r.read + (i - 1)
      BY <3>1, <2>1, QueueAssumption DEF Cell
    <3>3. (r.read + (i - 1)) % SBC_QUEUE_SIZE = IF r.read + (i - 1) < SBC_QUEUE_SIZE
            THEN r.read + (i - 1) ELSE r.read + (i - 1) - SBC_QUEUE_SIZE
      BY <3>1, <2>1, CellAfter
    <3>4. c = IF q.read + i < SBC_QUEUE_SIZE THEN q.read + i ELSE q.read + i - SBC_QUEUE_SIZE
      BY <1>3, <2>1, CellAfter
    <3> QED
      BY <1>3, <2>1, <3>1, <3>2, <3>3, <3>4, QueueAssumption DEF Cell
  <2>4. Held(r)[i] = r.base[c]
    BY <1>1, <2>3, HeldCells
  <2>5. Held(q)[i + 1] = q.base[c]
    BY <2>1, HeldCells
  <2> QED
    BY <1>2, <1>6, <2>2, <2>4, <2>5
<1> QED
  BY <1>1, <1>4, <1>5, <1>6, <1>7, HeldCells, SeqEqual DEF r

----------------------------------------------------------------------------
(* Types. *)

AfPc == {"wait", "woken", "post"} \cup DecodePc

LEMMA StreamTypeStep == ASSUME TypeOK, [Next]_vars PROVE AfTypeOK(AfPc)'
<1> USE DEF TypeOK, AfTypeOK, AfPc, DecodePc
<1>1. CASE UNCHANGED afVars
  BY <1>1 DEF afVars, streamVars, fadeVars
<1>2. CASE af_stream_open
  BY <1>2 DEF af_stream_open, fadeVars
<1>3. CASE af_stream_start
  BY <1>3 DEF af_stream_start, PaState
<1>4. CASE FadeOut
  BY <1>4 DEF FadeOut, streamVars, PaState
<1>5. CASE af_stream_stop
  BY <1>5 DEF af_stream_stop, fadeVars
<1>6. CASE af_stream_close
  <2>1. pp_index' \in 0..1
    BY <1>6 DEF af_stream_close
  <2> QED
    BY <1>6, <2>1, Zenon DEF af_stream_close, fadeVars
<1>7. CASE af_dma_irq_handler
  BY <1>7 DEF af_dma_irq_handler, fadeVars, PP_PINGPANG
<1>8. CASE ThreadWakes
  BY <1>8 DEF ThreadWakes, streamVars, fadeVars
<1>9. CASE ThreadLocks
  BY <1>9 DEF ThreadLocks, streamVars, fadeVars, PP_PINGPANG, Waiting
<1>10. ASSUME NEW pc \in AfPc, Goes(pc) PROVE AfTypeOK(AfPc)'
  BY <1>10 DEF Goes, streamVars, fadeVars
<1>11. CASE PostWaits
  BY <1>11 DEF PostWaits, Unlocks, Waiting, streamVars, fadeVars
<1>12. CASE PostMoves
  <2>1. pa' \in PaState
    BY <1>12 DEF PostMoves, NextPa, PaState
  <2>2. speaker' \in BOOLEAN
    BY <1>12 DEF PostMoves
  <2>3. af' \in [pc : AfPc, half : 0..1]
    BY <1>12 DEF PostMoves, Unlocks, Waiting
  <2> QED
    BY <1>12, <2>1, <2>2, <2>3, Zenon DEF PostMoves, Unlocks, streamVars
<1>13. CASE Handler
  <2>1. \E pc \in AfPc : Goes(pc)
    BY <1>13 DEF Handler, MoreData, Peek, Decode, Dequeue, DropFrame, Sync
  <2> QED
    BY <2>1, <1>10
<1> QED
  BY <1>1, <1>2, <1>3, <1>4, <1>5, <1>6, <1>7, <1>8, <1>9, <1>11, <1>12, <1>13, Zenon
  DEF Next, vars, PlayOther, Begins, Stops, bt_sbc_player, InitQueue, Opens, Starts, Runs,
      Stopped, Closes, DeinitQueue, Data, BtThread, Irq, Wakes, Locks, Fills, Waits, Moves

----------------------------------------------------------------------------
(* What a step does to the ring and to the frame that is decoded. *)

Stores  == /\ HasRoom /\ put.pc # "idle"
           /\ sbc_queue' = EnCQueue(sbc_queue, put.pkt) /\ UNCHANGED <<frame, af>>
Takes   == Dequeue \/ DropFrame
Empties == app = "init" /\ sbc_queue' = InitCQueue /\ UNCHANGED <<frame, af>>
Keeps   == /\ UNCHANGED <<sbc_queue, frame>>
           /\ \/ UNCHANGED af
              \/ ThreadWakes \/ ThreadLocks \/ MoreData \/ Peek \/ Sync \/ PostWaits \/ PostMoves

LEMMA PutSteps == PutStep /\ UNCHANGED afVars => Stores \/ Keeps
BY Zenon DEF PutStep, Switch, Caching, CacheOk, Store, Clear, WaitReturns, Enqueue, Stores, Keeps,
             afVars

LEMMA HandlerSteps == Handler => Decode \/ Takes \/ Keeps
BY Zenon DEF Takes, Keeps, Handler, MoreData, Peek, Sync, queueVars

LEMMA AppSteps == bt_sbc_player => Empties \/ Keeps
BY Zenon DEF bt_sbc_player, InitQueue, Opens, Starts, Runs, Stopped, Closes, DeinitQueue, AppGoes,
             a2dp_audio_init, a2dp_audio_deinit, af_stream_open, af_stream_start, af_stream_stop,
             af_stream_close, queueVars, afVars, Empties, Keeps

LEMMA RingSteps == [Next]_vars => Stores \/ Decode \/ Takes \/ Empties \/ Keeps
<1>1. Keeps \/ ~(UNCHANGED vars \/ PlayOther \/ Begins \/ Stops)
  BY Zenon DEF Keeps, vars, afVars, queueVars, PlayOther, Begins, Stops, FadeOut
<1>2. Keeps \/ ~(Data \/ Irq \/ Wakes \/ Locks \/ Waits \/ Moves)
  BY Zenon DEF Keeps, afVars, queueVars, Data, Arrives, Irq, af_dma_irq_handler, Wakes, Locks,
               Waits, Moves
<1>3. BtThread => Stores \/ Keeps
  BY PutSteps, Zenon DEF BtThread
<1>4. Fills => Decode \/ Takes \/ Keeps
  BY HandlerSteps, Zenon DEF Fills
<1> QED
  BY <1>1, <1>2, <1>3, <1>4, AppSteps, Zenon DEF Next

LEMMA RingType == TypeOK => sbc_queue \in Ring /\ put.pkt \in Memory
BY DEF TypeOK, QueueTypeOK, Ring

\* A packet that is to be removed is there.
LEMMA TakesFromRing ==
  ASSUME IInv, Takes
  PROVE  sbc_queue \in Ring /\ sbc_queue.len > 0 /\ sbc_queue' = DeCQueue(sbc_queue)
<1>1. sbc_queue \in Ring
  BY RingType DEF IInv
<1>2. af.pc = "dequeue" /\ sbc_queue' = DeCQueue(sbc_queue)
  BY DEF Takes, Dequeue, DropFrame, Removes
<1> QED
  BY <1>1, <1>2 DEF IInv, FrameInv

LEMMA RingTypeStep == ASSUME IInv, [Next]_vars PROVE sbc_queue' \in Ring
<1>1. sbc_queue \in Ring /\ put.pkt \in Memory
  BY RingType DEF IInv
<1>2. CASE Stores
  BY <1>1, <1>2, EnCQueueRing DEF Stores, HasRoom
<1>3. CASE Takes
  BY <1>3, TakesFromRing, DeCQueueRing
<1>4. CASE Empties
  BY <1>4, InitRing DEF Empties
<1>5. CASE Decode \/ Keeps
  BY <1>1, <1>5 DEF Decode, Keeps
<1> QED
  BY <1>2, <1>3, <1>4, <1>5, RingSteps

LEMMA FrameTypeStep == ASSUME IInv, [Next]_vars PROVE frame' \in Memory
<1>1. frame \in Memory /\ sbc_queue \in Ring
  BY RingType DEF IInv, TypeOK, QueueTypeOK
<1>2. CASE Decode
  BY <1>1, <1>2 DEF Decode, Ring
<1>3. CASE Takes
  BY <1>3 DEF Takes, Dequeue, DropFrame, Removes, Memory
<1>4. CASE Stores \/ Empties \/ Keeps
  BY <1>1, <1>4 DEF Stores, Empties, Keeps
<1> QED
  BY <1>2, <1>3, <1>4, RingSteps

----------------------------------------------------------------------------
(* The Bluetooth thread. *)

PutPc == {"idle", "switch", "caching", "cacheok", "store", "clear", "waiting"}
Put   == [pc : PutPc, pkt : Memory, cnt : 0..TIMEROUT_CNT + 1]

LEMMA PutTypeStep ==
  ASSUME TypeOK, PutInv, [Next]_vars PROVE put' \in Put /\ PutInv'
<1>1. put \in Put
  BY DEF TypeOK, QueueTypeOK, Put, PutPc
<1>2. ASSUME NEW pc \in PutPc \ {"idle", "switch"}, At(pc), put.pc # "idle",
             pc = "store" => put.cnt <= TIMEROUT_CNT
      PROVE  put' \in Put /\ PutInv'
  BY <1>1, <1>2 DEF At, Put, PutPc, PutInv
<1>3. Returns => put' \in Put /\ PutInv'
  BY QueueAssumption DEF Returns, Returned, Put, PutPc, Memory, PutInv
<1>4. Again /\ put.pc # "idle" => put' \in Put /\ PutInv'
  BY <1>2, <1>3, Zenon DEF Again, PutPc
<1>5. ASSUME NEW n \in 0..TIMEROUT_CNT + 1, put.pc # "idle",
              put' = [put EXCEPT !.pc = "clear", !.cnt = n]
       PROVE  put' \in Put /\ PutInv'
  <2>1. put' = [pc |-> "clear", pkt |-> put.pkt, cnt |-> n]
    BY <1>1, <1>5 DEF Put
  <2> QED
    BY <1>1, <1>5, <2>1 DEF Put, PutPc, PutInv
<1>6. CASE UNCHANGED put
  BY <1>1, <1>6 DEF PutInv
<1>7. CASE Arrives
  BY <1>1, <1>7, QueueAssumption DEF Arrives, Put, PutPc, Memory, PutInv
<1>8. CASE Switch
  <2>1. put.pc # "idle" /\ put.cnt <= TIMEROUT_CNT
    BY <1>8 DEF Switch, PutInv
  <2>2. At("caching") \/ At("store") => put' \in Put /\ PutInv'
    BY <1>2, <2>1 DEF PutPc
  <2>3. At("caching") \/ At("store") \/ Returns
    BY <1>8 DEF Switch, TypeOK, QueueTypeOK
  <2> QED
    BY <1>3, <2>2, <2>3
<1>9. CASE Caching
  BY <1>2, <1>3, <1>9 DEF Caching, PutPc
<1>10. CASE CacheOk
  <2>1. put.pc = "cacheok" /\ put' = [put EXCEPT !.pc = "clear", !.cnt = TIMEROUT_CNT + 1]
    BY <1>10 DEF CacheOk
  <2>2. TIMEROUT_CNT + 1 \in 0..TIMEROUT_CNT + 1
    BY QueueAssumption
  <2> QED
    BY <2>1, <2>2, <1>5
<1>11. CASE Store
  <2>1. put.pc = "store" /\ (Returns \/ put' = [put EXCEPT !.pc = "clear", !.cnt = @ + 1])
    BY <1>11, Zenon DEF Store
  <2>2. put.cnt + 1 \in 0..TIMEROUT_CNT + 1
    BY <1>1, <2>1, QueueAssumption DEF Put, PutInv
  <2> QED
    BY <1>3, <1>5, <2>1, <2>2, Zenon
<1>12. CASE Clear
  BY <1>2, <1>4, <1>12 DEF Clear, PutPc
<1>13. CASE WaitReturns
  BY <1>4, <1>13 DEF WaitReturns
<1>14. UNCHANGED put \/ Arrives \/ PutStep
  BY Zenon DEF Next, vars, queueVars, PlayOther, Begins, Stops, bt_sbc_player, InitQueue,
    a2dp_audio_init, Opens, Starts, Runs, Stopped, Closes, DeinitQueue, a2dp_audio_deinit, Data,
    BtThread, Irq, Wakes, Locks, Fills, Handler, MoreData, Peek, Decode, Dequeue, DropFrame,
    Removes, Sync, Waits, Moves
<1> QED
  BY <1>6, <1>7, <1>8, <1>9, <1>10, <1>11, <1>12, <1>13, <1>14, Zenon DEF PutStep

\* The flags between the threads, the state of the cache, and who owns the memory.
LEMMA FlagTypeStep ==
  ASSUME TypeOK, [Next]_vars
  PROVE  /\ cache' \in {"CACHEING", "OK", "QTY"}
         /\ need_sync' \in BOOLEAN /\ put_tid' \in BOOLEAN /\ put_signal' \in BOOLEAN
<1> USE DEF TypeOK, QueueTypeOK
<1>1. CASE UNCHANGED <<cache, syncVars>>
  BY <1>1, Zenon DEF syncVars
<1>2. CASE PutStep
  BY <1>2, Zenon DEF PutStep, Switch, Caching, CacheOk, Store, Clear, WaitReturns, AsksDecoder,
                     syncVars
<1>3. CASE Handler
  BY <1>3, Zenon DEF Handler, MoreData, Peek, Decode, Dequeue, DropFrame, Removes, Sync, WakesPut,
                     queueVars, syncVars
<1>4. CASE a2dp_audio_init
  BY <1>4, Zenon DEF a2dp_audio_init
<1>5. CASE a2dp_audio_deinit
  BY <1>5, Zenon DEF a2dp_audio_deinit, WakesPut
<1> QED
  BY <1>1, <1>2, <1>3, <1>4, <1>5, Zenon
  DEF Next, vars, queueVars, PlayOther, Begins, Stops, bt_sbc_player, InitQueue, Opens, Starts,
      Runs, Stopped, Closes, DeinitQueue, Data, Arrives, BtThread, Irq, Wakes, Locks, Fills, Waits,
      Moves

LEMMA AppTypeStep ==
  ASSUME TypeOK, [Next]_vars PROVE app' \in AppPc /\ pool' \in {"music", "other"}
BY Zenon
DEF TypeOK, AppPc, AppGoes, Others, Next, vars, PlayOther, Begins, Stops, bt_sbc_player, InitQueue,
    Opens, Starts, Runs, Stopped, Closes, DeinitQueue, Data, BtThread, Irq, Wakes, Locks, Fills,
    Waits, Moves

LEMMA TypeStep == IInv /\ [Next]_vars => TypeOK'
BY StreamTypeStep, RingTypeStep, FrameTypeStep, PutTypeStep, FlagTypeStep, AppTypeStep
DEF IInv, TypeOK, QueueTypeOK, Ring, Put, PutPc, AfPc

----------------------------------------------------------------------------
(* The player. *)

LEMMA StreamStep == ASSUME StreamOfApp, [Next]_vars PROVE StreamOfApp'
BY Zenon
DEF StreamOfApp, AppGoes, Others, Next, vars, PlayOther, Begins, Stops, bt_sbc_player, InitQueue,
    Opens, Starts, Runs, Stopped, Closes, DeinitQueue, Data, BtThread, Irq, Wakes, Locks, Fills,
    Waits, Moves, af_stream_open, af_stream_start, af_stream_stop, af_stream_close, FadeOut,
    af_dma_irq_handler, ThreadWakes, ThreadLocks, Handler, MoreData, Peek, Decode, Dequeue,
    DropFrame, Sync, Goes, PostWaits, PostMoves, Unlocks, afVars, streamVars

\* What app_thread does not do leaves the player and the stream's state alone.
LEMMA OtherSteps ==
  ASSUME \/ UNCHANGED vars \/ PlayOther \/ Begins \/ InitQueue \/ Runs \/ DeinitQueue \/ Data
         \/ BtThread \/ Wakes \/ Locks \/ Fills \/ Waits \/ Moves
  PROVE  UNCHANGED streamVars
BY Zenon
DEF vars, PlayOther, Begins, InitQueue, Runs, DeinitQueue, Data, BtThread, Wakes, Locks, Fills,
    Waits, Moves, ThreadWakes, ThreadLocks, Handler, MoreData, Peek, Decode, Dequeue, DropFrame,
    Sync, Goes, PostWaits, PostMoves, Unlocks, afVars

LEMMA HalvesStep ==
  ASSUME TypeOK, StreamOfApp, HalvesInStep, [Next]_vars PROVE HalvesInStep'
<1>1. CASE UNCHANGED streamVars /\ ~Starts /\ ~Opens
  <2>1. app' = "start" => app = "start" \/ status = "closed"
    BY <1>1, Zenon DEF StreamOfApp, Next, vars, PlayOther, Begins, Stops, bt_sbc_player, InitQueue,
      Starts, Runs, Stopped, Closes, DeinitQueue, Data, BtThread, Irq, Wakes, Locks,
      Fills, Waits, Moves, AppGoes, Others
  <2> QED
    BY <1>1, <2>1, Zenon DEF streamVars, HalvesInStep
<1>2. CASE Opens
  BY <1>2, Zenon DEF Opens, AppGoes, af_stream_open, StreamOfApp, HalvesInStep
<1>3. CASE Starts
  BY <1>3, Zenon DEF Starts, AppGoes, af_stream_start, HalvesInStep
<1>4. CASE Stops
  BY <1>4, Zenon DEF Stops, AppGoes, FadeOut, streamVars, HalvesInStep
<1>5. CASE Stopped
  BY <1>5, Zenon DEF Stopped, AppGoes, af_stream_stop, HalvesInStep
<1>6. CASE Closes
  BY <1>6, Zenon DEF Closes, AppGoes, af_stream_close, HalvesInStep
<1>7. CASE Irq
  BY <1>7, Zenon DEF Irq, af_dma_irq_handler, Others, HalvesInStep, StreamOfApp
<1> QED
  BY <1>1, <1>2, <1>3, <1>4, <1>5, <1>6, <1>7, OtherSteps, Zenon DEF Next, bt_sbc_player

LEMMA FadeStep == ASSUME TypeOK, FadeOfApp, [Next]_vars PROVE FadeOfApp'
<1>1. CASE UNCHANGED <<app, pa, speaker>>
  BY <1>1, Zenon DEF FadeOfApp
<1>2. CASE UNCHANGED <<pa, speaker>> /\ {app, app'} \cap {"fadein", "running", "fadeout"} = {}
  BY <1>2, Zenon DEF FadeOfApp
<1>3. CASE Starts
  BY <1>3, Zenon DEF Starts, AppGoes, af_stream_start, FadeOfApp
<1>4. CASE Runs
  BY <1>4, Zenon DEF Runs, AppGoes, FadedIn, afVars, fadeVars, FadeOfApp
<1>5. CASE Stops
  BY <1>5, Zenon DEF Stops, AppGoes, FadeOut, FadeOfApp
<1>6. CASE Stopped
  BY <1>6, Zenon DEF Stopped, AppGoes, af_stream_stop, fadeVars, FadeOfApp
<1>7. CASE Moves
  BY <1>7 DEF Moves, PostMoves, Others, NextPa, FadeOfApp
<1>8. \/ UNCHANGED <<app, pa, speaker>>
      \/ UNCHANGED <<pa, speaker>> /\ {app, app'} \cap {"fadein", "running", "fadeout"} = {}
      \/ Starts \/ Runs \/ Stops \/ Stopped \/ Moves
  BY Zenon
  DEF Next, vars, PlayOther, Begins, bt_sbc_player, InitQueue, Opens, Closes, DeinitQueue, Data,
      BtThread, Irq, Wakes, Locks, Fills, Waits, AppGoes, Others, af_stream_open, af_stream_close,
      af_dma_irq_handler, ThreadWakes, ThreadLocks, Handler, MoreData, Peek, Decode, Dequeue,
      DropFrame, Sync, Goes, PostWaits, Unlocks, afVars, fadeVars
<1> QED
  BY <1>1, <1>2, <1>3, <1>4, <1>5, <1>6, <1>7, <1>8, Zenon

LEMMA WaitingWaits == Waiting.pc = "wait"
BY DEF Waiting

LEMMA ThreadStep == ASSUME TypeOK, ThreadInv, [Next]_vars PROVE ThreadInv'
<1> USE DEF ThreadInv, Locked
<1>1. CASE UNCHANGED <<af, handler>>
  BY <1>1, Zenon
<1>2. CASE af_stream_open
  BY <1>2, Zenon DEF af_stream_open
<1>3. CASE af_stream_close
  BY <1>3, Zenon DEF af_stream_close
<1>4. CASE ThreadWakes
  BY <1>4 DEF ThreadWakes, TypeOK, AfTypeOK
<1>5. CASE ThreadLocks
  <2>1. handler' = handler /\ (handler \/ af' = Waiting)
    BY <1>5, Zenon DEF ThreadLocks, streamVars
  <2> QED
    BY <2>1, WaitingWaits, Zenon
<1>6. CASE Handler
  <2>1. Locked /\ UNCHANGED handler
    BY <1>6 DEF Handler, MoreData, Peek, Decode, Dequeue, DropFrame, Sync, Goes, streamVars
  <2> QED
    BY <2>1, Zenon
<1>7. CASE PostWaits \/ PostMoves
  BY <1>7, WaitingWaits, Zenon DEF PostWaits, PostMoves, Unlocks
<1>8. \/ UNCHANGED <<af, handler>> \/ af_stream_open \/ af_stream_close \/ ThreadWakes
      \/ ThreadLocks \/ Handler \/ PostWaits \/ PostMoves
  BY Zenon
  DEF Next, vars, PlayOther, Begins, Stops, FadeOut, bt_sbc_player, InitQueue, Opens, Starts, Runs,
      Stopped, Closes, DeinitQueue, Data, BtThread, Irq, Wakes, Locks, Fills, Waits, Moves, afVars,
      streamVars, af_stream_start, af_stream_stop, af_dma_irq_handler
<1> QED
  BY <1>1, <1>2, <1>3, <1>4, <1>5, <1>6, <1>7, <1>8, Zenon

\* The handler runs only in the middle of the player's life, and so do its own steps.
LEMMA HandlerOwns == IInv => DecoderOwnsQueue
BY Zenon DEF IInv, PlayerInv, StreamOfApp, HalvesInStep, ThreadInv, Locked, DecoderOwnsQueue, DecodePc

LEMMA FrameStep == ASSUME IInv, [Next]_vars PROVE FrameInv'
<1>1. sbc_queue \in Ring /\ put.pkt \in Memory
  BY RingType DEF IInv
<1>2. CASE Stores
  <2> DEFINE r == EnCQueue(sbc_queue, put.pkt)
  <2>1. /\ r.read = sbc_queue.read /\ r.len = sbc_queue.len + 1
        /\ \A c \in Cell : r.base[c] = IF c = (sbc_queue.read + sbc_queue.len) % SBC_QUEUE_SIZE
                                      THEN put.pkt ELSE sbc_queue.base[c]
    BY <1>1, <1>2, EnCQueueRing DEF Stores, HasRoom
  <2>2. sbc_queue' = r /\ frame' = frame /\ af' = af
    BY <1>2 DEF Stores
  <2> HIDE DEF r
  <2>3. sbc_queue.read \in Cell /\ sbc_queue.len \in 0..SBC_QUEUE_SIZE - 1
    BY <1>1, <1>2, QueueAssumption DEF Ring, Stores, HasRoom, AvailableOfCQueue
  <2>4. sbc_queue.len > 0 => r.base[r.read] = sbc_queue.base[sbc_queue.read]
    <3>1. (sbc_queue.read + sbc_queue.len) % SBC_QUEUE_SIZE =
            IF sbc_queue.read + sbc_queue.len < SBC_QUEUE_SIZE THEN sbc_queue.read + sbc_queue.len
            ELSE sbc_queue.read + sbc_queue.len - SBC_QUEUE_SIZE
      BY <2>3, CellAfter, QueueAssumption
    <3>2. sbc_queue.len > 0 => sbc_queue.read # (sbc_queue.read + sbc_queue.len) % SBC_QUEUE_SIZE
      BY <2>3, <3>1, QueueAssumption DEF Cell
    <3> QED
      BY <2>1, <2>3, <3>2
  <2> QED
    BY <2>1, <2>2, <2>3, <2>4 DEF IInv, FrameInv
<1>3. CASE Decode
  BY <1>3 DEF Decode, Goes, IInv, FrameInv, TypeOK, AfTypeOK
<1>4. CASE Takes
  <2>1. frame' = "free" /\ af'.pc \in {"sync", "peek"}
    BY <1>4 DEF Takes, Dequeue, DropFrame, Removes, Goes, IInv, TypeOK, AfTypeOK
  <2> QED
    BY <2>1 DEF FrameInv
<1>5. CASE Empties
  <2>1. af.pc \notin {"decode", "dequeue"}
    BY <1>5, HandlerOwns DEF Empties, DecoderOwnsQueue, DecodePc
  <2> QED
    BY <1>5, <2>1 DEF Empties, IInv, FrameInv
<1>6. CASE Keeps
  <2>1. CASE UNCHANGED af
    BY <1>6, <2>1 DEF Keeps, IInv, FrameInv
  <2>2. CASE Peek
    BY <1>6, <2>2, <1>1 DEF Keeps, Peek, Goes, IInv, FrameInv, TypeOK, AfTypeOK, Ring
  <2>3. CASE ThreadWakes \/ ThreadLocks \/ MoreData \/ Sync \/ PostWaits \/ PostMoves
    <3>1. af.pc # "dequeue" /\ af'.pc \notin {"decode", "dequeue"}
      <4> USE DEF IInv, TypeOK, AfTypeOK
      <4>1. CASE ThreadWakes \/ ThreadLocks
        BY <4>1 DEF ThreadWakes, ThreadLocks, Waiting
      <4>2. CASE MoreData \/ Sync
        BY <4>2 DEF MoreData, Sync, Goes
      <4>3. CASE PostWaits \/ PostMoves
        BY <4>3, WaitingWaits DEF PostWaits, PostMoves, Unlocks
      <4> QED
        BY <2>3, <4>1, <4>2, <4>3
    <3> QED
      BY <1>6, <3>1 DEF Keeps, IInv, FrameInv
  <2> QED
    BY <1>6, <2>1, <2>2, <2>3 DEF Keeps
<1> QED
  BY <1>2, <1>3, <1>4, <1>5, <1>6, RingSteps

----------------------------------------------------------------------------
(* The theorems. *)

LEMMA InvInit == Init => IInv
<1> SUFFICES ASSUME Init PROVE IInv
  OBVIOUS
<1> USE DEF Init, AfInit, QueueInit
<1>1. sbc_queue \in Ring /\ sbc_queue.base[sbc_queue.read] = "free"
  BY InitRing DEF InitCQueue, Ring, Cell
<1>2. AfTypeOK(AfPc)
  <2>1. pp_index \in 0..1 /\ playing \in 0..1 /\ af \in [pc : AfPc, half : 0..1]
    BY DEF AfPc, Waiting
  <2> QED
    BY <2>1, Zenon DEF AfTypeOK, PaState
<1>3. put \in Put /\ PutInv
  BY QueueAssumption DEF Put, PutPc, PutInv, Returned, Memory
<1>4. TypeOK
  BY <1>1, <1>2, <1>3 DEF TypeOK, QueueTypeOK, Ring, Put, PutPc, AfPc, AppPc, Memory
<1>5. PlayerInv
  BY Zenon DEF PlayerInv, StreamOfApp, HalvesInStep, FadeOfApp
<1>6. ThreadInv
  BY WaitingWaits, Zenon DEF ThreadInv, Locked
<1>7. FrameInv
  BY WaitingWaits DEF FrameInv
<1> QED
  BY <1>3, <1>4, <1>5, <1>6, <1>7 DEF IInv

LEMMA InvStep == IInv /\ [Next]_vars => IInv'
BY TypeStep, StreamStep, HalvesStep, FadeStep, ThreadStep, FrameStep, PutTypeStep
DEF IInv, PlayerInv

LEMMA Inductive == Spec => []IInv
BY InvInit, InvStep, PTL DEF Spec

\* Every state has its types; in particular a packet is never tried more often than
\* store_sbc_buffer allows and the ring is never filled beyond its size.
THEOREM TypeCorrect == Spec => []TypeOK
<1>1. IInv => TypeOK
  BY DEF IInv
<1> QED
  BY <1>1, Inductive, PTL

\* a2dp_audio_more_data and decode_sbc_frame run only between a2dp_audio_init and
\* af_stream_close, on memory that still is the music's.
THEOREM DecoderAlwaysOwnsQueue == Spec => []DecoderOwnsQueue
BY Inductive, HandlerOwns, PTL

\* The amplifier is on only while the DMA runs: the fade of af_stream_start and of
\* af_stream_stop is over before anything else is done.
THEOREM SpeakerAlwaysFed == Spec => []SpeakerFed
<1>1. IInv => SpeakerFed
  BY Zenon DEF IInv, PlayerInv, StreamOfApp, HalvesInStep, FadeOfApp, SpeakerFed
<1> QED
  BY <1>1, Inductive, PTL

\* The half that af_thread chooses, with the mutex taken, is the one that the DMA
\* does not play at that moment, through every start and stop.
THEOREM FillsOther == Spec => FillsOtherHalf
<1>1. IInv /\ [Next]_vars => [af.pc = "woken" /\ af'.pc = "handler" /\ dma => af'.half # playing]_vars
  <2> SUFFICES ASSUME IInv, Next, af.pc = "woken", af'.pc = "handler", dma
               PROVE  af'.half # playing
    BY Zenon
  <2>1. ThreadLocks
    <3>1. \/ ThreadLocks \/ UNCHANGED af \/ ThreadWakes \/ Handler \/ PostWaits \/ PostMoves
      BY Zenon
      DEF Next, PlayOther, Begins, Stops, FadeOut, bt_sbc_player, InitQueue, Opens, Starts, Runs,
          Stopped, Closes, DeinitQueue, Data, BtThread, Irq, Wakes, Locks, Fills, Waits, Moves,
          afVars, af_stream_open, af_stream_start, af_stream_stop, af_stream_close,
          af_dma_irq_handler
    <3> QED
      BY <3>1 DEF ThreadWakes, Handler, MoreData, Peek, Decode, Dequeue, DropFrame, Sync, PostWaits,
                  PostMoves
  <2>2. af'.half = PP_PINGPANG(pp_index)
    BY <2>1, WaitingWaits DEF ThreadLocks
  <2>3. pp_index = playing /\ playing \in 0..1
    BY DEF IInv, PlayerInv, HalvesInStep, TypeOK, AfTypeOK
  <2> QED
    BY <2>2, <2>3 DEF PP_PINGPANG
<1> QED
  BY <1>1, Inductive, PTL DEF Spec, FillsOtherHalf

LEMMA ContentsHeld == Contents = Held(sbc_queue) /\ Contents' = Held(sbc_queue')
BY DEF Contents, Held

LEMMA FifoInit == Init => Fifo!Init
<1> SUFFICES ASSUME Init PROVE Contents = <<>> /\ frame = "free"
  BY DEF Fifo!Init
<1>1. sbc_queue = InitCQueue /\ frame = "free"
  BY DEF Init, QueueInit
<1>2. Len(Held(InitCQueue)) = 0 /\ Held(InitCQueue) \in Seq(Memory)
  BY InitRing, HeldCells DEF InitCQueue
<1> QED
  BY <1>1, <1>2, ContentsHeld

LEMMA FifoStep == IInv /\ [Next]_vars => [Fifo!Next]_Fifo!vars
<1> SUFFICES ASSUME IInv, [Next]_vars PROVE [Fifo!Next]_Fifo!vars
  OBVIOUS
<1>1. sbc_queue \in Ring /\ put.pkt \in Memory
  BY RingType DEF IInv
<1>2. Held(sbc_queue) \in Seq(Memory) /\ Len(Held(sbc_queue)) = sbc_queue.len
  BY <1>1, HeldCells
<1>3. CASE Stores
  <2>1. put.pkt \in Packets
    BY <1>3 DEF Stores, IInv, PutInv
  <2>2. Contents' = Append(Contents, put.pkt)
    BY <1>1, <1>3, StoringAppends, ContentsHeld DEF Stores, HasRoom
  <2>3. Len(Contents) < SBC_QUEUE_SIZE
    BY <1>1, <1>2, <1>3, ContentsHeld, QueueAssumption DEF Stores, HasRoom, AvailableOfCQueue, Ring
  <2>4. Fifo!Put(put.pkt)
    BY <1>3, <2>2, <2>3 DEF Stores, Fifo!Put
  <2> QED
    BY <2>1, <2>4 DEF Fifo!Next
<1>4. CASE Decode
  <2>1. sbc_queue.len > 0 /\ frame = "free"
    BY <1>4 DEF Decode, IInv, FrameInv
  <2>2. Contents # <<>> /\ frame' = Head(Contents) /\ Contents' = Contents
    BY <1>1, <1>4, <2>1, RemovingTakesHead, ContentsHeld DEF Decode
  <2>3. Fifo!Look
    BY <2>1, <2>2 DEF Fifo!Look
  <2> QED
    BY <2>3 DEF Fifo!Next
<1>5. CASE Takes
  <2>1. sbc_queue.len > 0 /\ sbc_queue' = DeCQueue(sbc_queue)
    BY <1>5, TakesFromRing
  <2>2. frame = sbc_queue.base[sbc_queue.read] /\ frame' = "free"
    BY <1>5 DEF Takes, Dequeue, DropFrame, Removes, IInv, FrameInv
  <2>3. Contents # <<>> /\ frame = Head(Contents) /\ Contents' = Tail(Contents)
    BY <1>1, <2>1, <2>2, RemovingTakesHead, ContentsHeld
  <2>4. Fifo!Take
    BY <2>2, <2>3 DEF Fifo!Take
  <2> QED
    BY <2>4 DEF Fifo!Next
<1>6. CASE Empties
  <2>1. af.pc # "dequeue"
    BY <1>6, HandlerOwns DEF Empties, DecoderOwnsQueue, DecodePc
  <2>2. frame = "free" /\ frame' = frame
    BY <1>6, <2>1 DEF Empties, IInv, FrameInv
  <2>3. Len(Held(InitCQueue)) = 0 /\ Held(InitCQueue) \in Seq(Memory)
    BY InitRing, HeldCells DEF InitCQueue
  <2>4. Contents' = <<>>
    BY <1>6, <2>3, ContentsHeld DEF Empties
  <2>5. Fifo!Reset
    BY <2>2, <2>4 DEF Fifo!Reset
  <2> QED
    BY <2>5 DEF Fifo!Next
<1>7. CASE Keeps
  BY <1>7, ContentsHeld DEF Keeps, Fifo!vars
<1> QED
  BY <1>3, <1>4, <1>5, <1>6, <1>7, RingSteps

\* The ring of a2dpplay.cpp with its three threads is a queue: every step of Music is a
\* step of MusicFifo or leaves its variables alone.
THEOREM RingIsFifo == Spec => FifoSpec
BY FifoInit, FifoStep, Inductive, PTL DEF Spec, FifoSpec, Fifo!Spec
=============================================================================
