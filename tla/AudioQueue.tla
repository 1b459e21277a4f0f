----------------------------- MODULE AudioQueue -----------------------------
(***************************************************************************)
(* The audio queue (apps/audioplayers/app_audio.cpp) and the stream it      *)
(* drives (app_bt_stream_open and _close, services/bt_app/                  *)
(* app_bt_stream.cpp).                                                      *)
(*                                                                          *)
(* The list holds at most one stream of the phone (or line-in), in front,   *)
(* and the prompts waiting for their turn.  Opening a stream closes the one *)
(* that is open: there is a single output.  The queue's messages arrive in  *)
(* the mailbox the media manager's requests arrive in.                      *)
(***************************************************************************)
EXTENDS MediaManager, FiniteSets, SequencesExt

CONSTANTS
  RingPrompt,          \* AUD_ID_BT_CALL_INCOMING_CALL
  Warnings,            \* AUD_ID_BT_WARNING, AUD_ID_LANGUAGE_SWITCH
  MaxWarnings,         \* at most so many of each warning wait (4)
  MAX_AUDIO_BUF_LIST   \* and so many entries (5)

ASSUME QueueAssumption ==
  /\ RingPrompt \in Prompt /\ Warnings \subseteq Prompt
  /\ MaxWarnings \in Nat /\ MAX_AUDIO_BUF_LIST \in Nat \ {0}

VARIABLE
  player   \* gStreamplayer, the players' isRun flags, app_play_sbc_stop_proc_cnt

PlayerType == [stream : Stream \cup {"NONE"},
               run    : SUBSET Stream,
               ending : BOOLEAN]

PlayerIdle == [stream |-> "NONE", run |-> {}, ending |-> FALSE]

Entry(id, aud) == [id |-> id, aud |-> aud]
EntryType == [id : Stream, aud : Prompt \cup {NoPrompt}]

----------------------------------------------------------------------------
(* app_bt_stream.cpp *)

\* app_bt_stream_close: only the stream that is open can be closed.
CloseStream(p, id) ==
  IF p.stream = id THEN [p EXCEPT !.stream = "NONE", !.run = @ \ {id}] ELSE p

\* (mutant) the previous stream is not closed
OpenOverStream(p, id) ==
  [stream |-> id, run |-> p.run \cup {id}, ending |-> p.ending /\ id # "PLAYBACK"]

\* (mutant) app_play_sbc_stop_proc_cnt is not reset as a prompt starts
OpenStreamEnding(p, id) ==
  [p EXCEPT !.stream = id, !.run = CloseStream(p, p.stream).run \cup {id}]

\* app_bt_stream_open: the stream that is open is closed first.
OpenStream(p, id) ==
  [stream |-> id,
   run    |-> CloseStream(p, p.stream).run \cup {id},
   ending |-> p.ending /\ id # "PLAYBACK"]

\* app_bt_stream_closeall: line-in is not among the streams it stops.
CloseAllStreams(p) ==
  [p EXCEPT !.stream = "NONE", !.run = @ \ {"HFP", "SBC", "PLAYBACK"}]

----------------------------------------------------------------------------
(* The list. *)

IsPrompt(e) == e.id = "PLAYBACK"
Prompts(list) == {i \in DOMAIN list : IsPrompt(list[i])}
CountOf(list, aud) == Cardinality({i \in DOMAIN list : list[i] = Entry("PLAYBACK", aud)})

\* app_audio_list_stream_exist: a stream of the phone.
StreamExists(list) == \E i \in DOMAIN list : list[i].id \in {"HFP", "SBC"}

\* app_audio_list_filter_exist: one ring, a few warnings.
Redundant(list, aud) ==
  \/ aud = RingPrompt /\ CountOf(list, aud) > 0
  \/ aud \in Warnings /\ CountOf(list, aud) >= MaxWarnings

\* (mutant) a stream is queued behind the prompts
AppendStreamLast(list, e) == Append(list, e)

\* app_audio_list_append: a stream replaces the whole list.
ListAppend(list, e) == IF IsPrompt(e) THEN Append(list, e) ELSE <<e>>

\* The place of the first prompt: the one that is heard.
FirstPrompt(list) == Min(Prompts(list))

\* (mutant) the last prompt is left in the list
ListRemoveNotLast(list, id) ==
  CASE id = "PLAYBACK" /\ Cardinality(Prompts(list)) > 1 -> RemoveAt(list, FirstPrompt(list))
    [] id # "PLAYBACK" /\ StreamExists(list)     -> Tail(list)
    [] OTHER -> list

\* app_audio_list_rmv_callback: what is left when stream id is closed ...
ListRemove(list, id) ==
  CASE id = "PLAYBACK" /\ Prompts(list) # {} -> RemoveAt(list, FirstPrompt(list))
    [] id # "PLAYBACK" /\ StreamExists(list)   -> Tail(list)
    [] OTHER -> list

\* ... and what is opened next: the entry after the prompt, else the stream
\* the prompt had interrupted.
ListNext(list, id) ==
  IF id # "PLAYBACK" \/ Prompts(list) = {} THEN <<>>
  ELSE IF FirstPrompt(list) < Len(list)
         THEN <<list[FirstPrompt(list) + 1]>>
         ELSE IF StreamExists(list) THEN <<Head(list)>> ELSE <<>>

----------------------------------------------------------------------------
(* app_audio_handle_process *)

\* bt_media_volume_ptr_update_by_mediatype, called as a player starts.
DeviceKnown(id) ==
  /\ id = "HFP" /\ media.current = "VOICE" => media.sco
  /\ id = "SBC" /\ media.current = "SBC"   => media.sbc

Opened(p, id) ==
  LET idle == CloseStream(p, p.stream) IN
  IF id \in idle.run \/ DeviceKnown(id)
    THEN player' = OpenStream(p, id) /\ UNCHANGED failed
    ELSE player' = idle /\ failed' = "INVALID_BT_DEVICE_NUM"

HandleOpen(id, aud) ==
  LET e == Entry(id, aud) IN
  /\ mailbox' = Tail(mailbox)
  /\ \/ /\ IsPrompt(e) /\ Redundant(audioList, aud)
        /\ UNCHANGED <<audioList, player, failed>>
     \/ /\ IsPrompt(e) /\ ~Redundant(audioList, aud) /\ Prompts(audioList) # {}
        /\ IF Len(audioList) >= MAX_AUDIO_BUF_LIST
             THEN failed' = "app_audio_list_append error" /\ UNCHANGED audioList
             ELSE audioList' = ListAppend(audioList, e) /\ UNCHANGED failed
        /\ UNCHANGED player
     \/ /\ IsPrompt(e) => Prompts(audioList) = {}
        /\ audioList' = ListAppend(audioList, e)
        /\ Opened(player, id)

\* (mutant) the media manager is not told that the last prompt is over
LastPromptUntold(id) == <<>>

\* (mutant) the queue's name for the sound (APP_PLAY_BACK_AUDIO) in place of the
\* manager's (BT_STREAM_MEDIA)
LastPromptOverStream(id) ==
  IF id = "PLAYBACK" /\ Cardinality(Prompts(audioList)) = 1
    THEN <<Manage("STOP", id, NoPrompt)>> ELSE <<>>

\* The media manager is told when the last prompt is over.
LastPromptOver(id) ==
  IF id = "PLAYBACK" /\ Cardinality(Prompts(audioList)) = 1
    THEN <<Manage("STOP", "MEDIA", NoPrompt)>> ELSE <<>>

HandleClose(id) ==
  LET next   == ListNext(audioList, id)
      closed == CloseStream(player, id)
  IN
  /\ mailbox' = Tail(mailbox) \o LastPromptOver(id)
  /\ audioList' = ListRemove(audioList, id)
  /\ \/ next = <<>> /\ player' = closed /\ UNCHANGED failed
     \/ next # <<>> /\ Opened(closed, next[1].id)

HandleCloseAll ==
  /\ mailbox' = Tail(mailbox)
  /\ player' = CloseAllStreams(player)
  /\ audioList' = <<>>
  /\ UNCHANGED failed

\* bt_sbc_player_setup: the sample rate, which is not modelled.
HandleSetup ==
  /\ mailbox' = Tail(mailbox)
  /\ UNCHANGED <<player, audioList, failed>>

AudioHandle ==
  /\ mailbox # <<>>
  /\ LET msg == Head(mailbox) IN
     /\ msg.mod = "AUDIO"
     /\ \/ msg.op = "OPEN"  /\ HandleOpen(msg.about, msg.aud)
        \/ msg.op = "CLOSE" /\ HandleClose(msg.about)
        \/ msg.op = "SETUP" /\ HandleSetup
        \/ msg.op = "CLOSEALL" /\ HandleCloseAll
  /\ UNCHANGED <<media, phone>>
=============================================================================
