----------------------------- MODULE AudioPath -----------------------------
(***************************************************************************)
(* The path of a sound: the callbacks of the Bluetooth thread               *)
(* (services/bt_app/app_hfp.cpp, app_a2dp.cpp) and the threads that report  *)
(* by voice ask the media manager, the manager asks the audio queue, the    *)
(* queue opens and closes streams, and a prompt that has ended says so.     *)
(*                                                                          *)
(* app_thread outranks the Bluetooth thread but sleeps inside handlers (the *)
(* fade-out of a closing stream, the flash), so a callback may be           *)
(* interrupted, and may go on, between any two of its steps.                *)
(***************************************************************************)
EXTENDS AudioQueue

CONSTANTS
  OtherPrompt,    \* a prompt of no special kind: the hang-up's, the power-off's
  Environments,   \* what may happen around the headset: sets of events
  Backlog         \* bound: nobody posts while so many messages wait

\* MUSIC: the phone plays music; LINEIN: the headset sends what it hears
\* (BT_DEVICE_SRC) instead.  CALL: the phone is called; DIAL: it calls.
\* SCO_ALONE: it connects audio without a call (voice dialling).  HF_DROP: the
\* hands-free profile disconnects.  REPORT: keys and battery report by voice.
Event == {"MUSIC", "LINEIN", "CALL", "DIAL", "SCO_ALONE", "HF_DROP", "REPORT", "POWER_OFF"}

ASSUME PathAssumption ==
  /\ OtherPrompt \in Prompt
  /\ Environments \subseteq SUBSET Event
  /\ Backlog \in Nat \ {0}

VARIABLES
  link,      \* what the phone has connected: its audio (SCO), its music (A2DP)
  callback,  \* the steps the current callback of the Bluetooth thread has left
  off,       \* app_poweroff_flag, and what app_deinit has still to post
  happens    \* the events that happen in this behaviour

vars == <<mailbox, media, phone, audioList, failed, player, link, callback, off, happens>>

LinkType == [sco : BOOLEAN, music : BOOLEAN]

Post(msg)   == [step |-> "POST", msg |-> msg]
Report(aud) == [step |-> "REPORT", msg |-> Manage("START", "MEDIA", aud)]
SetCall(b)  == [step |-> "CALL", call |-> b]
SetSetup(s) == [step |-> "SETUP", setup |-> s]

Quiet == Len(mailbox) < Backlog

Init ==
  /\ mailbox = <<>> /\ media = MediaOpened /\ audioList = <<>> /\ failed = "no"
  /\ phone = [call |-> FALSE, setup |-> "NONE"]
  /\ player = PlayerIdle
  /\ link = [sco |-> FALSE, music |-> FALSE]
  /\ callback = <<>>
  /\ off = "ON"
  /\ happens \in Environments

----------------------------------------------------------------------------
(* What the phone does, and the callback it causes. *)

Callback(steps) ==
  /\ callback = <<>>
  /\ callback' = steps
  /\ UNCHANGED <<mailbox, media, phone, audioList, failed, player, off, happens>>

\* HF_EVENT_CALL_IND, HF_CALL_ACTIVE
CallActive ==
  /\ {"CALL", "DIAL"} \cap happens # {} /\ ~phone.call
  /\ Callback(<<Post(Manage("SWITCHTO_SCO", "VOICE", NoPrompt)),
                SetCall(TRUE),
                Post(Manage("UPDATE_MEDIA", "VOICE", NoPrompt))>>)
  /\ UNCHANGED link

\* HF_EVENT_CALL_IND, HF_CALL_NONE; hf_endcall_dis may silence the prompt
CallNone ==
  /\ phone.call
  /\ \E told \in BOOLEAN :
       Callback(<<Post(Manage("STOP_MEDIA", "VOICE", NoPrompt))>>
                \o (IF told THEN <<Report(OtherPrompt)>> ELSE <<>>)
                \o <<SetCall(FALSE), Post(Manage("UPDATE_MEDIA", "VOICE", NoPrompt))>>)
  /\ UNCHANGED link

\* HF_EVENT_CALLSETUP_IND; a call refused drops the ring
CallSetup(s) ==
  /\ s # phone.setup
  /\ s = "IN"  => "CALL" \in happens
  /\ s = "OUT" => "DIAL" \in happens
  /\ Callback((IF s = "NONE" /\ ~phone.call
                 THEN <<Post(Manage("STOP_MEDIA", "VOICE", NoPrompt)), Report(OtherPrompt)>>
                 ELSE <<>>)
              \o <<SetSetup(s)>>)
  /\ UNCHANGED link

\* HF_EVENT_RING_IND
Ring ==
  /\ phone.setup = "IN" /\ ~link.sco
  /\ Callback(<<Report(RingPrompt)>>)
  /\ UNCHANGED link

\* HF_EVENT_AUDIO_CONNECTED
AudioConnected ==
  /\ ~link.sco
  /\ InCall \/ "SCO_ALONE" \in happens
  /\ Callback(<<Post(Manage("START", "VOICE", NoPrompt))>>)
  /\ link' = [link EXCEPT !.sco = TRUE]

\* HF_EVENT_AUDIO_DISCONNECTED
AudioDisconnected ==
  /\ link.sco
  /\ Callback(<<Post(Manage("STOP", "VOICE", NoPrompt))>>)
  /\ link' = [link EXCEPT !.sco = FALSE]

\* HF_EVENT_SERVICE_DISCONNECTED
HfDisconnected ==
  /\ "HF_DROP" \in happens
  /\ Callback(<<Post(Manage("STOP", "VOICE", NoPrompt)), SetCall(FALSE), SetSetup("NONE")>>)
  /\ link' = [link EXCEPT !.sco = FALSE]

\* A2DP_EVENT_STREAM_STARTED; src_or_snk says which way the sound goes
MusicStarted ==
  /\ ~link.music
  /\ \/ /\ "MUSIC" \in happens
        /\ Callback(<<Post(Manage("START", "SBC", NoPrompt))>>)
     \/ /\ "LINEIN" \in happens
        /\ Callback(<<Post(Audio("OPEN", "LINEIN", NoPrompt))>>)
  /\ link' = [link EXCEPT !.music = TRUE]

\* A2DP_EVENT_STREAM_SUSPENDED, A2DP_EVENT_STREAM_CLOSED
MusicStopped ==
  /\ link.music
  /\ \/ /\ "MUSIC" \in happens
        /\ Callback(<<Post(Manage("STOP", "SBC", NoPrompt))>>)
     \/ /\ "LINEIN" \in happens
        /\ Callback(<<Post(Audio("CLOSE", "LINEIN", NoPrompt))>>)
  /\ link' = [link EXCEPT !.music = FALSE]

\* The Bluetooth thread runs the next step of its callback; a report is
\* dropped once the power goes off.
BtStep ==
  /\ callback # <<>>
  /\ callback' = Tail(callback)
  /\ LET next == Head(callback) IN
     \/ /\ next.step \in {"POST", "REPORT"} /\ Quiet
        /\ mailbox' = IF next.step = "REPORT" /\ off # "ON" THEN mailbox
                      ELSE Append(mailbox, next.msg)
        /\ UNCHANGED phone
     \/ /\ next.step = "CALL"
        /\ phone' = [phone EXCEPT !.call = next.call]
        /\ UNCHANGED mailbox
     \/ /\ next.step = "SETUP"
        /\ phone' = [phone EXCEPT !.setup = next.setup]
        /\ UNCHANGED mailbox
  /\ UNCHANGED <<media, audioList, failed, player, link, off, happens>>

----------------------------------------------------------------------------
(* The other threads. *)

\* app_voice_report by a key, the battery, a connection: any but the ring.
VoiceReport(aud) ==
  /\ "REPORT" \in happens
  /\ aud # RingPrompt /\ off = "ON" /\ Quiet
  /\ mailbox' = Append(mailbox, Manage("START", "MEDIA", aud))
  /\ UNCHANGED <<media, phone, audioList, failed, player, link, callback, off, happens>>

\* app_play_sbc_more_data: the prompt has no more data; it says so once.
PromptEnds ==
  /\ "PLAYBACK" \in player.run /\ ~player.ending
  /\ player' = [player EXCEPT !.ending = TRUE]
  /\ mailbox' = mailbox \o ClosePlay
  /\ UNCHANGED <<media, phone, audioList, failed, link, callback, off, happens>>

\* app_deinit closes line-in, then everything, then says good-bye.
PowerOff ==
  /\ "POWER_OFF" \in happens /\ Quiet
  /\ \/ /\ off = "ON" /\ off' = "CLOSING"
        /\ mailbox' = Append(mailbox, Audio("CLOSE", "LINEIN", NoPrompt))
     \/ /\ off = "CLOSING" /\ off' = "CLOSED"
        /\ mailbox' = Append(mailbox, Audio("CLOSEALL", "SBC", NoPrompt))
     \/ /\ off = "CLOSED" /\ off' = "OFF"
        /\ mailbox' = Append(mailbox, Manage("START", "MEDIA", OtherPrompt))
  /\ UNCHANGED <<media, phone, audioList, failed, player, link, callback, happens>>

AppThread == (ManagerHandle /\ UNCHANGED player) \/ AudioHandle

AppThreadStep == AppThread /\ UNCHANGED <<link, callback, off, happens>>

Next ==
  /\ failed = "no"
  /\ \/ CallActive \/ CallNone
     \/ \E s \in Setup : CallSetup(s)
     \/ Ring
     \/ AudioConnected \/ AudioDisconnected \/ HfDisconnected
     \/ MusicStarted \/ MusicStopped
     \/ BtStep
     \/ \E aud \in Prompt : VoiceReport(aud)
     \/ PromptEnds
     \/ PowerOff
     \/ AppThreadStep

Spec == Init /\ [][Next]_vars

\* Every thread gets to run: app_thread outranks the others and sleeps only for
\* so long, and the audio thread plays a prompt to its end.
Fairness ==
  /\ WF_vars(failed = "no" /\ AppThreadStep)
  /\ WF_vars(failed = "no" /\ BtStep)
  /\ WF_vars(failed = "no" /\ PromptEnds)

FairSpec == Spec /\ Fairness

----------------------------------------------------------------------------
(* Safety. *)

\* The variables have their types.
TypeOK ==
  /\ mailbox \in Seq(Message)
  /\ media \in MediaType
  /\ phone \in PhoneType
  /\ audioList \in Seq(EntryType)
  /\ player \in PlayerType
  /\ link \in LinkType

\* The manager knows the device of every sound it counts as active, and of no
\* other: bt_media_stop and the functions that resume a sound index their tables
\* by media_curr_sbc and media_curr_sco with no check.
DevicesKnown ==
  /\ Active("SBC") <=> media.sbc
  /\ Active("VOICE") <=> media.sco

\* One player runs at a time, the one gStreamplayer names; all of them use
\* AUD_STREAM_ID_0 and the same buffers.  Once the power goes off line-in may be
\* overlooked: app_bt_stream_closeall stops the other players only.
OneStream ==
  LET overlooked == IF off = "ON" THEN {} ELSE {"LINEIN"} IN
  player.run \ overlooked = {player.stream} \ ({"NONE"} \cup overlooked)

\* Only prompts stand behind the front of the list; the ASSERTs "111ERROR" and
\* "222ERROR" of app_audio_list_rmv_callback rely on it.
StreamInFront == \A i \in DOMAIN audioList : i > 1 => IsPrompt(audioList[i])

\* A prompt that has run out of data has told the queue to close it, whatever was
\* closed and reopened since: app_play_sbc_more_data tells it only once and then
\* plays silence, so a flag left over from an earlier prompt would never end.
EndWillClose ==
  failed = "no" /\ "PLAYBACK" \in player.run /\ player.ending
    => Head(ClosePlay) \in Range(mailbox)

\* The headset is a sink, nothing is on its way, no prompt is heard, the power is
\* on.  (As a source it does not resume line-in after a prompt.)
Settled ==
  /\ "LINEIN" \notin happens
  /\ failed = "no" /\ off = "ON"
  /\ mailbox = <<>> /\ callback = <<>>
  /\ "PLAYBACK" \notin player.run

\* When all is settled the list holds the stream that is heard and nothing else:
\* no prompt is left waiting for the end of one that is not there.
QueueIsHeard ==
  Settled => audioList = IF player.stream = "NONE" THEN <<>>
                         ELSE <<Entry(player.stream, NoPrompt)>>

\* ... what the manager believes to be heard is what is heard, although it decided
\* from requests and the queue acted on messages it sent later ...
CurrentIsHeard ==
  LET sound == [NONE |-> "NONE", SBC |-> "SBC", HFP |-> "VOICE"] IN
  Settled => media.current = sound[player.stream]

\* ... the music is heard if the phone plays some and there is no call ...
MusicHeard ==
  Settled /\ link.music /\ ~link.sco /\ ~InCall => player.stream = "SBC"

\* ... and the phone's audio is heard if it is connected.
VoiceHeard == Settled /\ link.sco => player.stream = "HFP"

----------------------------------------------------------------------------
(* Liveness. *)

\* Once nobody reports by voice any more and the phone's audio stays disconnected,
\* the music is heard again, or the phone has stopped it: the end of the last
\* prompt leads through four messages back to the stream.
MusicReturns ==
  (<>[][~ \E aud \in Prompt : VoiceReport(aud)]_vars
     /\ <>[](~link.sco /\ off = "ON" /\ "MUSIC" \in happens))
    => (link.music ~> (player.stream = "SBC" \/ ~link.music \/ failed # "no"))

----------------------------------------------------------------------------
(* What the code's ASSERTs and comments say and does not hold. *)

\* app_bt_media_manager.cpp:312, ASSERT(0,"media in sbc  current wrong")
NoCurrentWrong == failed # "media in sbc  current wrong"

\* app_bt_media_manager.cpp:898, ASSERT(id<BT_DEVICE_NUM, "INVALID_BT_DEVICE_NUM")
NoInvalidDevice == failed # "INVALID_BT_DEVICE_NUM"
=============================================================================
