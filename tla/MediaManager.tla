---------------------------- MODULE MediaManager ----------------------------
(***************************************************************************)
(* The media manager (services/bt_app/app_bt_media_manager.cpp): it decides *)
(* which of three sounds is heard: music from the phone ("SBC"), a call     *)
(* ("VOICE") or a voice prompt ("MEDIA").                                   *)
(*                                                                          *)
(* Every request is a message in the mailbox of app_thread and is handled   *)
(* there; the manager answers with messages to the audio queue, put at the  *)
(* end of the same mailbox.  Between a decision and its execution lie all   *)
(* the messages that were already waiting.                                  *)
(*                                                                          *)
(* Built for one phone (__BT_ONE_BRING_TWO__ undefined, BT_DEVICE_NUM = 1): *)
(* a device number is known (device 0) or is BT_DEVICE_NUM.                 *)
(***************************************************************************)
EXTENDS Naturals, Sequences

CONSTANTS
  Prompt,    \* AUD_ID_ENUM: the recorded prompts
  NoPrompt   \* the aud_id of a message that is not about a prompt

ASSUME PromptAssumption == NoPrompt \notin Prompt

VARIABLES
  mailbox,   \* app_mailbox, handled in order by app_thread
  media,     \* bt_meida
  phone,     \* hfchan_call and hfchan_callSetup, written by the Bluetooth thread
  audioList, \* app_audio_conifg.audio_list; the manager clears it
  failed     \* the ASSERT that has stopped the program, or "no"

Sound == {"SBC", "VOICE", "MEDIA"}

MediaType == [active  : SUBSET Sound,           \* media_active[0]
              current : Sound \cup {"NONE"},    \* curr_active_media
              sbc     : BOOLEAN,                \* media_curr_sbc # BT_DEVICE_NUM
              sco     : BOOLEAN]                \* media_curr_sco # BT_DEVICE_NUM

Setup == {"NONE", "IN", "OUT"}
PhoneType == [call : BOOLEAN, setup : Setup]

\* app_audio_manager_open
MediaOpened == [active |-> {}, current |-> "NONE", sbc |-> FALSE, sco |-> FALSE]

\* btapp_hfp_get_call_state, btapp_hfp_incoming_calls
InCall   == phone.call \/ phone.setup # "NONE"
Incoming == phone.setup = "IN"

----------------------------------------------------------------------------
(* Messages. *)

Stream == {"HFP", "SBC", "PLAYBACK", "LINEIN"}

\* app_audio_manager_sendrequest, app_audio_sendrequest
Manage(op, sound, aud) == [mod |-> "MANAGER", op |-> op, about |-> sound, aud |-> aud]
Audio(op, stream, aud) == [mod |-> "AUDIO", op |-> op, about |-> stream, aud |-> aud]

Message ==
  [mod   : {"MANAGER"},
   op    : {"START", "STOP", "SWITCHTO_SCO", "STOP_MEDIA", "UPDATE_MEDIA"},
   about : Sound,
   aud   : Prompt \cup {NoPrompt}]
  \cup
  [mod   : {"AUDIO"},
   op    : {"OPEN", "CLOSE", "SETUP", "CLOSEALL"},
   about : Stream,
   aud   : Prompt \cup {NoPrompt}]

OpenSbc   == <<Audio("SETUP", "SBC", NoPrompt), Audio("OPEN", "SBC", NoPrompt)>>
CloseSbc  == <<Audio("CLOSE", "SBC", NoPrompt)>>
OpenHfp   == <<Audio("OPEN", "HFP", NoPrompt)>>
CloseHfp  == <<Audio("CLOSE", "HFP", NoPrompt)>>
ClosePlay == <<Audio("CLOSE", "PLAYBACK", NoPrompt)>>

\* The outcome of handling the message at the head of the mailbox.
Decide(m, requests) ==
  /\ media' = m
  /\ mailbox' = Tail(mailbox) \o requests
  /\ UNCHANGED failed

Fail(assertion) ==
  /\ failed' = assertion
  /\ UNCHANGED <<media, mailbox>>

Active(sound) == sound \in media.active

----------------------------------------------------------------------------
(* bt_media_start *)

Started(sound) == [media EXCEPT !.active = @ \cup {sound}]
Stopped(sound) == [media EXCEPT !.active = @ \ {sound}]
Playing(m, sound) == [m EXCEPT !.current = sound]

\* (mutant) a call does not keep the music waiting
StartSbcOverCall ==
  LET m == [Started("SBC") EXCEPT !.sbc = TRUE] IN
  /\ IF Active("MEDIA")
       THEN Decide(m, <<>>)
       ELSE Decide(Playing(m, "SBC"), OpenSbc)
  /\ UNCHANGED audioList

\* Music waits for a prompt or a call to end; its device is stored.
StartSbc ==
  LET m == [Started("SBC") EXCEPT !.sbc = TRUE] IN
  /\ IF Active("MEDIA") \/ Active("VOICE")
       THEN Decide(m, <<>>)
       ELSE Decide(Playing(m, "SBC"), OpenSbc)
  /\ UNCHANGED audioList

\* A prompt during a call is mixed into it (app_ring_merge_start) and done.
MixIntoCall == InCall /\ ~Incoming /\ Decide(Stopped("MEDIA"), <<>>)

StartMedia(aud) ==
  LET m    == Started("MEDIA")
      play == <<Audio("OPEN", "PLAYBACK", aud)>>
  IN
  /\ UNCHANGED audioList
  /\ \/ /\ Active("VOICE")
        /\ \/ media.current = "VOICE" /\ MixIntoCall
           \/ /\ media.current = "VOICE"
              /\ ~ (InCall /\ ~Incoming)
              /\ Decide(Playing(m, "MEDIA"), CloseHfp \o play)
           \/ media.current = "MEDIA" /\ Decide(m, play)
           \/ media.current \notin {"VOICE", "MEDIA"} /\ Decide(Stopped("MEDIA"), <<>>)
     \/ /\ ~Active("VOICE") /\ (InCall \/ ~Active("SBC"))
        /\ Decide(Playing(m, "MEDIA"), play)
     \/ /\ ~Active("VOICE") /\ ~InCall /\ Active("SBC")
        /\ \/ media.current = "SBC" /\ Decide(Playing(m, "MEDIA"), CloseSbc \o play)
           \/ media.current \in {"MEDIA", "NONE"} /\ Decide(m, play)
           \/ media.current = "VOICE" /\ Fail("media in sbc  current wrong")

\* A call replaces everything, except that a prompt goes on while it rings.
StartVoice ==
  LET m == [Started("VOICE") EXCEPT !.sco = TRUE]
      prompting == media.current = "MEDIA"
  IN
  \/ /\ Active("MEDIA") /\ ~Incoming
     /\ audioList' = IF prompting THEN <<>> ELSE audioList
     /\ Decide(Playing(m, "VOICE"), (IF prompting THEN ClosePlay ELSE <<>>) \o OpenHfp)
  \/ /\ Active("MEDIA") /\ Incoming
     /\ Decide(m, <<>>)
     /\ UNCHANGED audioList
  \/ /\ ~Active("MEDIA") /\ Active("SBC")
     /\ Decide(Playing(m, "VOICE"),
               (IF media.current = "SBC" THEN CloseSbc ELSE <<>>) \o OpenHfp)
     /\ UNCHANGED audioList
  \/ /\ ~Active("MEDIA") /\ ~Active("SBC")
     /\ IF media.current = "VOICE" THEN Decide(m, <<>>)
                                   ELSE Decide(Playing(m, "VOICE"), OpenHfp)
     /\ UNCHANGED audioList

----------------------------------------------------------------------------
(* bt_media_stop *)

\* (mutant) the device is not forgotten
StopSbcKeepsDevice ==
  LET m == Stopped("SBC") IN
  /\ IF media.current = "SBC" /\ media.sbc
       THEN Decide(Playing(m, "NONE"), CloseSbc)
       ELSE Decide(m, <<>>)
  /\ UNCHANGED audioList

StopSbc ==
  LET m == [Stopped("SBC") EXCEPT !.sbc = FALSE] IN
  /\ IF media.current = "SBC" /\ media.sbc
       THEN Decide(Playing(m, "NONE"), CloseSbc)
       ELSE Decide(m, <<>>)
  /\ UNCHANGED audioList

\* The prompt is over: back to the call, else to the music.
StopMedia ==
  LET m == Stopped("MEDIA") IN
  /\ UNCHANGED audioList
  /\ \/ /\ Active("VOICE")
        /\ IF media.current = "MEDIA" /\ media.sco
             THEN Decide(Playing(m, "VOICE"), OpenHfp)
             ELSE Decide(m, <<>>)
     \/ ~Active("VOICE") /\ InCall /\ Decide(m, <<>>)
     \/ /\ ~Active("VOICE") /\ ~InCall /\ Active("SBC")
        /\ Decide(Playing(m, "SBC"), OpenSbc)
     \/ /\ ~Active("VOICE") /\ ~InCall /\ ~Active("SBC")
        /\ Decide(Playing(m, "NONE"), <<>>)

\* (mutant) the music is not resumed after the call
StopVoiceOnly ==
  LET m == [Stopped("VOICE") EXCEPT !.sco = FALSE] IN
  /\ UNCHANGED audioList
  /\ \/ /\ Active("MEDIA")
        /\ Decide(m, IF media.current = "VOICE" THEN CloseHfp ELSE <<>>)
     \/ /\ ~Active("MEDIA")
        /\ Decide(Playing(m, "NONE"), CloseHfp)

\* The call's sound is over: a prompt goes on, else back to the music.
StopVoice ==
  LET m == [Stopped("VOICE") EXCEPT !.sco = FALSE] IN
  /\ UNCHANGED audioList
  /\ \/ /\ Active("MEDIA")
        /\ Decide(m, CASE media.current = "VOICE" -> CloseHfp
                       [] media.current = "SBC" /\ ~Active("SBC") -> CloseSbc
                       [] OTHER -> <<>>)
     \/ /\ ~Active("MEDIA") /\ ~InCall /\ Active("SBC")
        /\ Decide(Playing(m, "SBC"), CloseHfp \o OpenSbc)
     \/ /\ ~Active("MEDIA") /\ (InCall \/ ~Active("SBC"))
        /\ Decide(Playing(m, "NONE"), CloseHfp)

----------------------------------------------------------------------------
(* The other requests. *)

\* app_media_stop_media: every queued prompt is dropped, the one heard stopped.
DropPrompts ==
  LET m == IF media.current = "MEDIA" THEN Playing(Stopped("MEDIA"), "NONE")
                                      ELSE Stopped("MEDIA")
      close == IF media.current = "MEDIA" THEN ClosePlay ELSE <<>>
  IN
  \/ /\ ~Active("MEDIA")
     /\ Decide(media, <<>>)
     /\ UNCHANGED audioList
  \/ /\ Active("MEDIA")
     /\ audioList' = <<>>
     /\ \/ /\ Active("VOICE")
           /\ Decide([Playing(m, "VOICE") EXCEPT !.sco = TRUE], close \o OpenHfp)
        \/ /\ ~Active("VOICE") /\ Active("SBC")
           /\ Decide(Playing(m, "SBC"), close \o OpenSbc)
        \/ /\ ~Active("VOICE") /\ ~Active("SBC")
           /\ Decide(m, close)

\* bt_media_switch_to_voice
SwitchToVoice ==
  \/ media.current # "VOICE" /\ DropPrompts
  \/ media.current = "VOICE" /\ Decide(media, <<>>) /\ UNCHANGED audioList

\* app_media_update_media: the music comes back after a call.
UpdateMedia ==
  /\ IF media.active = {"SBC"} /\ ~InCall /\ media.current # "SBC"
       THEN Decide(Playing(media, "SBC"), OpenSbc)
       ELSE Decide(media, <<>>)
  /\ UNCHANGED audioList

----------------------------------------------------------------------------
\* app_audio_manager_handle_process
ManagerHandle ==
  /\ mailbox # <<>>
  /\ LET msg == Head(mailbox) IN
     /\ msg.mod = "MANAGER"
     /\ \/ msg.op = "START" /\ msg.about = "SBC"   /\ StartSbc
        \/ msg.op = "START" /\ msg.about = "MEDIA" /\ StartMedia(msg.aud)
        \/ msg.op = "START" /\ msg.about = "VOICE" /\ StartVoice
        \/ msg.op = "STOP"  /\ msg.about = "SBC"   /\ StopSbc
        \/ msg.op = "STOP"  /\ msg.about = "MEDIA" /\ StopMedia
        \/ msg.op = "STOP"  /\ msg.about = "VOICE" /\ StopVoice
        \/ msg.op = "SWITCHTO_SCO" /\ SwitchToVoice
        \/ msg.op = "STOP_MEDIA"   /\ DropPrompts
        \/ msg.op = "UPDATE_MEDIA" /\ UpdateMedia
  /\ UNCHANGED phone
=============================================================================
