---------------------------- MODULE AudioFlinger ----------------------------
(***************************************************************************)
(* One playback stream of services/audioflinger/audioflinger.c, on the     *)
(* internal codec: a DMA that plays the two halves of a buffer in turn, the*)
(* interrupt at the end of each, the thread that lets the stream's handler *)
(* fill the other half, and the fade of the amplifier at start and stop    *)
(* (AUDIO_SW_OUTPUT_GAIN and AUDIO_OUTPUT_DIFF_DC_CALIB are set).          *)
(*                                                                         *)
(* The thread holds audioflinger_mutex from the choice of the half to the  *)
(* end of the fade's step (Locked).  What the application does under the   *)
(* mutex is one step each, taken when the thread does not hold it.         *)
(* The handler is left to the module that extends this one.                *)
(***************************************************************************)
EXTENDS Naturals

VARIABLES
  status,    \* role->ctl.status: closed, open, started
  handler,   \* role->handler is set
  pp_index,  \* role->ctl.pp_index: the half the code believes is played
  playing,   \* the half the DMA plays, if it runs
  dma,       \* it runs
  signal,    \* the stream's signal of af_thread
  af,        \* af_thread: where it is, the half it fills
  pa,        \* dac_pa_state
  speaker    \* the amplifier is on

streamVars == <<status, handler, pp_index, playing, dma>>
fadeVars   == <<pa, speaker>>
afVars     == <<streamVars, signal, af, fadeVars>>

PaState == {"NULL", "ON_TRIGGER", "ON_SOFT_START", "OFF_TRIGGER", "OFF_SOFT_END",
            "OFF_SOFT_END_DONE", "OFF_DC_START"}

AfTypeOK(pcs) ==
  /\ status \in {"closed", "open", "started"} /\ handler \in BOOLEAN
  /\ pp_index \in 0..1 /\ playing \in 0..1 /\ dma \in BOOLEAN
  /\ signal \in BOOLEAN
  /\ af \in [pc : pcs, half : 0..1]
  /\ pa \in PaState /\ speaker \in BOOLEAN

Waiting == [pc |-> "wait", half |-> 0]

AfInit ==
  /\ status = "closed" /\ handler = FALSE
  /\ pp_index = 0 /\ playing = 0 /\ dma = FALSE
  /\ signal = FALSE
  /\ af = Waiting
  /\ pa = "NULL" /\ speaker = FALSE

PP_PINGPANG(v) == 1 - v

\* (mutant) the mutex is forgotten
Unlocked == FALSE

Locked == af.pc \notin {"wait", "woken"}

----------------------------------------------------------------------------
(* The application's calls. *)

af_stream_open ==
  /\ status = "closed" /\ ~Locked
  /\ status' = "open" /\ handler' = TRUE
  /\ UNCHANGED <<pp_index, playing, dma, signal, af, fadeVars>>

\* The DMA begins with the first half; af_stream_start then waits for the
\* amplifier (FadedIn).
af_stream_start ==
  /\ status = "open" /\ ~Locked
  /\ status' = "started" /\ dma' = TRUE /\ playing' = 0
  /\ pa' = "ON_TRIGGER"
  /\ UNCHANGED <<handler, pp_index, signal, af, speaker>>

FadedIn  == pa # "ON_TRIGGER"

\* (mutant) the DMA is stopped first
FadeOutAfterDma ==
  /\ status = "started" /\ ~Locked
  /\ pa' = "OFF_TRIGGER" /\ dma' = FALSE
  /\ UNCHANGED <<status, handler, pp_index, playing, signal, af, speaker>>

\* af_stream_stop gives the mutex back while the music fades out, and polls
\* dac_pa_state every 300 ms or when it is signalled.
FadeOut ==
  /\ status = "started" /\ ~Locked
  /\ pa' = "OFF_TRIGGER"
  /\ UNCHANGED <<streamVars, signal, af, speaker>>

\* (mutant) the fade is not waited for
StopAtOnce ==
  /\ status = "started" /\ ~Locked
  /\ status' = "open" /\ dma' = FALSE
  /\ UNCHANGED <<handler, pp_index, playing, signal, af, fadeVars>>

af_stream_stop ==
  /\ status = "started" /\ pa = "NULL" /\ ~Locked
  /\ status' = "open" /\ dma' = FALSE
  /\ UNCHANGED <<handler, pp_index, playing, signal, af, fadeVars>>

\* (mutant) the half is not reset
CloseKeepsHalf ==
  /\ status = "open" /\ ~Locked
  /\ status' = "closed" /\ handler' = FALSE
  /\ UNCHANGED <<pp_index, playing, dma, signal, af, fadeVars>>

af_stream_close ==
  /\ status = "open" /\ ~Locked
  /\ status' = "closed" /\ handler' = FALSE /\ pp_index' = 0
  /\ UNCHANGED <<playing, dma, signal, af, fadeVars>>

----------------------------------------------------------------------------
(* The interrupt and the thread. *)

af_dma_irq_handler ==
  /\ dma
  /\ playing' = PP_PINGPANG(playing) /\ pp_index' = PP_PINGPANG(pp_index)
  /\ signal' = TRUE
  /\ UNCHANGED <<status, handler, dma, af, fadeVars>>

ThreadWakes ==
  /\ af.pc = "wait" /\ signal
  /\ signal' = FALSE
  /\ af' = [af EXCEPT !.pc = "woken"]
  /\ UNCHANGED <<streamVars, fadeVars>>

\* The mutex is taken and the half is chosen; a signal of a stream that was
\* closed meanwhile finds no handler.
ThreadLocks ==
  /\ af.pc = "woken"
  /\ IF handler
       THEN af' = [pc |-> "handler", half |-> PP_PINGPANG(pp_index)]
       ELSE af' = Waiting
  /\ UNCHANGED <<streamVars, signal, fadeVars>>

\* af_codec_playback_post_handler: the next state of the amplifier, and where
\* the time or the samples must do for it.
NextPa == [ON_TRIGGER |-> "ON_SOFT_START", ON_SOFT_START |-> "NULL",
           OFF_TRIGGER |-> "OFF_SOFT_END", OFF_SOFT_END |-> "OFF_SOFT_END_DONE",
           OFF_SOFT_END_DONE |-> "OFF_DC_START", OFF_DC_START |-> "NULL"]
Timed  == {"ON_TRIGGER", "ON_SOFT_START", "OFF_SOFT_END", "OFF_DC_START"}

Unlocks == af' = Waiting /\ UNCHANGED <<streamVars, signal>>

PostWaits == af.pc = "post" /\ pa \in Timed \cup {"NULL"} /\ Unlocks /\ UNCHANGED fadeVars

PostMoves ==
  /\ af.pc = "post" /\ pa # "NULL"
  /\ pa' = NextPa[pa]
  /\ speaker' = CASE pa = "ON_TRIGGER" -> TRUE [] pa = "OFF_DC_START" -> FALSE [] OTHER -> speaker
  /\ Unlocks

=============================================================================
