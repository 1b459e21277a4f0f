------------------------------- MODULE Music --------------------------------
(***************************************************************************)
(* Music from the phone to the amplifier: bt_sbc_player of                 *)
(* services/bt_app/app_bt_stream.cpp, in app_thread, starts and stops the  *)
(* stream of AudioFlinger around the queue of MusicQueue.  Three threads   *)
(* and an interrupt; the memory of the queue and of the halves belongs to  *)
(* the player that was started last (app_audio_mempool).                   *)
(***************************************************************************)
EXTENDS MusicQueue

VARIABLES
  app,   \* app_thread: where bt_sbc_player is
  pool   \* whose the memory pool is

vars == <<afVars, queueVars, app, pool>>

AppPc == {"idle", "init", "open", "start", "fadein", "running", "fadeout", "close", "deinit"}

TypeOK ==
  /\ AfTypeOK({"wait", "woken", "post"} \cup DecodePc) /\ QueueTypeOK
  /\ app \in AppPc /\ pool \in {"music", "other"}

Init ==
  /\ AfInit /\ QueueInit
  /\ app = "idle" /\ pool = "other"

----------------------------------------------------------------------------
AppGoes(from, to) == app = from /\ app' = to

\* Another player is started and stopped.
PlayOther ==
  /\ app = "idle" /\ pool = "music" /\ pool' = "other"
  /\ UNCHANGED <<afVars, queueVars, app>>

\* PLAYER_OPER_START: app_audio_mempool_init.
Begins ==
  /\ AppGoes("idle", "init") /\ pool' = "music"
  /\ UNCHANGED <<afVars, queueVars>>

InitQueue ==
  /\ AppGoes("init", "open") /\ a2dp_audio_init
  /\ UNCHANGED <<afVars, pool>>

Opens ==
  /\ AppGoes("open", "start") /\ af_stream_open
  /\ UNCHANGED <<queueVars, pool>>

Starts ==
  /\ AppGoes("start", "fadein") /\ af_stream_start
  /\ UNCHANGED <<queueVars, pool>>

Runs ==
  /\ AppGoes("fadein", "running") /\ FadedIn
  /\ UNCHANGED <<afVars, queueVars, pool>>

\* PLAYER_OPER_STOP.
Stops ==
  /\ AppGoes("running", "fadeout") /\ FadeOut
  /\ UNCHANGED <<queueVars, pool>>

Stopped ==
  /\ AppGoes("fadeout", "close") /\ af_stream_stop
  /\ UNCHANGED <<queueVars, pool>>

Closes ==
  /\ AppGoes("close", "deinit") /\ af_stream_close
  /\ UNCHANGED <<queueVars, pool>>

DeinitQueue ==
  /\ AppGoes("deinit", "idle") /\ a2dp_audio_deinit
  /\ UNCHANGED <<afVars, pool>>

bt_sbc_player ==
  InitQueue \/ Opens \/ Starts \/ Runs \/ Stopped \/ Closes \/ DeinitQueue

----------------------------------------------------------------------------
Others == UNCHANGED <<app, pool>>

\* app_bt_stream_isrun(APP_BT_STREAM_A2DP_SBC): set when bt_sbc_player has started the
\* music, reset when it has stopped it.
gStreamplayer == app \in {"running", "fadeout", "close", "deinit"}

\* A2DP_EVENT_STREAM_DATA_IND.
Data == gStreamplayer /\ Arrives /\ UNCHANGED afVars /\ Others

BtThread == PutStep /\ UNCHANGED afVars /\ Others

Irq    == af_dma_irq_handler /\ UNCHANGED queueVars /\ Others
Wakes  == ThreadWakes /\ UNCHANGED queueVars /\ Others
Locks  == ThreadLocks /\ UNCHANGED queueVars /\ Others
Fills  == Handler /\ Others
Waits  == PostWaits /\ UNCHANGED queueVars /\ Others
Moves  == PostMoves /\ UNCHANGED queueVars /\ Others

Next ==
  \/ PlayOther \/ Begins \/ Stops \/ bt_sbc_player
  \/ Data \/ BtThread
  \/ Irq \/ Wakes \/ Locks \/ Fills \/ Waits \/ Moves

Spec == Init /\ [][Next]_vars

\* The threads run when they can, the DMA goes on, the phone sends while it is
\* asked to, and the amplifier's times pass.  Nobody has to start or to stop the
\* music.  The mutex of a waiting af_stream_stop is free between two halves, so
\* that it is given to app_thread in the end.  Not every frame is damaged.
FairSpec ==
  /\ Spec
  /\ WF_vars(Irq) /\ SF_vars(Dequeue /\ Others)
  /\ WF_vars(Wakes \/ Locks \/ Fills \/ Waits) /\ SF_vars(Moves)
  /\ SF_vars(bt_sbc_player)
  /\ WF_vars(BtThread) /\ WF_vars(Data)

----------------------------------------------------------------------------
\* When af_thread chooses the half to fill, with the mutex taken, it is not the one
\* that is played: the code's half and the DMA's stay in step, whatever the last
\* stop interrupted and whatever signals it left behind.  A handler that takes
\* longer than a half is played is overtaken by the DMA; nothing here excludes it.
FillsOtherHalf == [][af.pc = "woken" /\ af'.pc = "handler" /\ dma => af'.half # playing]_vars

\* The decoder runs only between a2dp_audio_init and the stream's end, on memory
\* that is still the music's: a2dp_audio_deinit and the next player's pool do not
\* wait for it, only af_stream_close does.
DecoderOwnsQueue == af.pc \in DecodePc => pool = "music" /\ app \notin {"idle", "init", "deinit"}

\* The amplifier is on only while the DMA feeds it: it is switched on after the
\* start and off before the stop, or it cracks.
SpeakerFed == speaker => dma /\ status = "started"

\* The Bluetooth thread comes back from storing a packet, also when the decoder
\* took its request before the signal was cleared, or the player was stopped.
PutReturns == put.pc # "idle" ~> put.pc = "idle"

\* While the music runs, a packet is decoded again and again: the cache is not
\* filled for ever.
MusicGoesOn == app = "running" ~> af.pc = "dequeue" \/ app # "running"

\* Starting and stopping come to an end: the fade depends on the handler, which
\* depends on the mutex and on the DMA.
PlayerReturns == app \notin {"idle", "running"} ~> app \in {"idle", "running"}

\* The ring with its three threads is a queue.
Contents == [i \in 1..sbc_queue.len |-> sbc_queue.base[(sbc_queue.read + i - 1) % SBC_QUEUE_SIZE]]
Fifo == INSTANCE MusicFifo
          WITH None <- "free", Room <- SBC_QUEUE_SIZE, queue <- Contents
FifoSpec == Fifo!Spec
=============================================================================
