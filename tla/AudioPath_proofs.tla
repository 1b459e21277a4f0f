-------------------------- MODULE AudioPath_proofs --------------------------
(***************************************************************************)
(* The path of a sound, for any prompts, limits, environments and backlog. *)
(*                                                                         *)
(* That the media manager knows the device of every active sound needs     *)
(* nothing of the mailbox, the list or the phone.  The other invariants    *)
(* hold together (IInv): that one player runs needs the mailbox (CLOSEALL  *)
(* waits there only once the power goes off), that an ended prompt is      *)
(* closed needs that one player runs, and that the queue finds the prompt  *)
(* to remove needs that the stream is in front of the list.                *)
(*                                                                         *)
(* What is heard when all is settled follows from a third invariant        *)
(* (QuietInv), in behaviours without calls and prompts.                    *)
(***************************************************************************)
EXTENDS AudioPath, ListLemmas

(* The two facts together are inductive: the type makes sbc and sco Booleans. *)
MediaInv == media \in MediaType /\ DevicesKnown

\* The new state of the manager, and that it knows its devices.
Known(m) == /\ m \in MediaType
            /\ "SBC" \in m.active <=> m.sbc
            /\ "VOICE" \in m.active <=> m.sco

\* A sound that becomes active or inactive with its device, or has none.
LEMMA MarkKnown ==
  ASSUME MediaInv
  PROVE  /\ Known(media)
         /\ Known([Started("SBC") EXCEPT !.sbc = TRUE])
         /\ Known([Stopped("SBC") EXCEPT !.sbc = FALSE])
         /\ Known([Started("VOICE") EXCEPT !.sco = TRUE])
         /\ Known([Stopped("VOICE") EXCEPT !.sco = FALSE])
         /\ Known(Started("MEDIA"))
         /\ Known(Stopped("MEDIA"))
<1> USE DEF MediaInv, DevicesKnown, Active, Known, MediaType, Sound
<1>1. Known(media)
  OBVIOUS
<1>2. /\ Known([Started("SBC") EXCEPT !.sbc = TRUE])
      /\ Known([Stopped("SBC") EXCEPT !.sbc = FALSE])
  BY DEF Started, Stopped
<1>3. /\ Known([Started("VOICE") EXCEPT !.sco = TRUE])
      /\ Known([Stopped("VOICE") EXCEPT !.sco = FALSE])
  BY DEF Started, Stopped
<1>4. Known(Started("MEDIA")) /\ Known(Stopped("MEDIA"))
  BY DEF Started, Stopped
<1> QED
  BY <1>1, <1>2, <1>3, <1>4

\* Changing what is heard changes no device.
LEMMA PlayingKnown ==
  ASSUME NEW m, Known(m), NEW sound \in Sound \cup {"NONE"}
  PROVE  Known(Playing(m, sound))
BY DEF Known, Playing, MediaType

\* A prompt dropped over a call returns to the call, whose device is known.
LEMMA ResumeCallKnown ==
  ASSUME NEW m, Known(m), "VOICE" \in m.active
  PROVE  Known([Playing(m, "VOICE") EXCEPT !.sco = TRUE])
BY DEF Known, Playing, MediaType, Sound

LEMMA SoundsHeard ==
  /\ "SBC" \in Sound \cup {"NONE"}
  /\ "MEDIA" \in Sound \cup {"NONE"}
  /\ "VOICE" \in Sound \cup {"NONE"}
  /\ "NONE" \in Sound \cup {"NONE"}
BY DEF Sound

LEMMA StartSbcKnown == ASSUME MediaInv, StartSbc PROVE Known(media')
<1> DEFINE m == [Started("SBC") EXCEPT !.sbc = TRUE]
<1>1. Known(m) /\ Known(Playing(m, "SBC"))
  BY MarkKnown, PlayingKnown, SoundsHeard, Zenon
<1>2. media' = m \/ media' = Playing(m, "SBC")
  BY Zenon DEF StartSbc, Decide
<1> QED
  BY <1>1, <1>2, Zenon

LEMMA StartMediaKnown ==
  ASSUME MediaInv, NEW aud, StartMedia(aud) PROVE Known(media')
<1> DEFINE m == Started("MEDIA")
<1>1. /\ Known(media) /\ Known(m) /\ Known(Playing(m, "MEDIA"))
      /\ Known(Stopped("MEDIA"))
  BY MarkKnown, PlayingKnown, SoundsHeard, Zenon
<1>2. \/ media' = media \/ media' = m \/ media' = Playing(m, "MEDIA")
      \/ media' = Stopped("MEDIA")
  BY Zenon DEF StartMedia, MixIntoCall, Decide, Fail
<1> QED
  BY <1>1, <1>2, Zenon

LEMMA StartVoiceKnown == ASSUME MediaInv, StartVoice PROVE Known(media')
<1> DEFINE m == [Started("VOICE") EXCEPT !.sco = TRUE]
<1>1. Known(m) /\ Known(Playing(m, "VOICE"))
  BY MarkKnown, PlayingKnown, SoundsHeard, Zenon
<1>2. media' = m \/ media' = Playing(m, "VOICE")
  BY Zenon DEF StartVoice, Decide
<1> QED
  BY <1>1, <1>2, Zenon

LEMMA StopSbcKnown == ASSUME MediaInv, StopSbc PROVE Known(media')
<1> DEFINE m == [Stopped("SBC") EXCEPT !.sbc = FALSE]
<1>1. Known(m) /\ Known(Playing(m, "NONE"))
  BY MarkKnown, PlayingKnown, SoundsHeard, Zenon
<1>2. media' = m \/ media' = Playing(m, "NONE")
  BY Zenon DEF StopSbc, Decide
<1> QED
  BY <1>1, <1>2, Zenon

LEMMA StopMediaKnown == ASSUME MediaInv, StopMedia PROVE Known(media')
<1> DEFINE m == Stopped("MEDIA")
<1>1. \A sound \in Sound \cup {"NONE"} : Known(m) /\ Known(Playing(m, sound))
  BY MarkKnown, PlayingKnown, Zenon
<1>2. \/ media' = m \/ media' = Playing(m, "VOICE")
      \/ media' = Playing(m, "SBC") \/ media' = Playing(m, "NONE")
  BY Zenon DEF StopMedia, Decide
<1> QED
  BY <1>1, <1>2, SoundsHeard, Zenon

LEMMA StopVoiceKnown == ASSUME MediaInv, StopVoice PROVE Known(media')
<1> DEFINE m == [Stopped("VOICE") EXCEPT !.sco = FALSE]
<1>1. \A sound \in Sound \cup {"NONE"} : Known(m) /\ Known(Playing(m, sound))
  BY MarkKnown, PlayingKnown, Zenon
<1>2. media' = m \/ media' = Playing(m, "SBC") \/ media' = Playing(m, "NONE")
  BY Zenon DEF StopVoice, Decide
<1> QED
  BY <1>1, <1>2, SoundsHeard, Zenon

LEMMA DropPromptsKnown ==
  ASSUME MediaInv, DropPrompts
  PROVE  Known(media')
<1> DEFINE m == IF media.current = "MEDIA" THEN Playing(Stopped("MEDIA"), "NONE")
                                           ELSE Stopped("MEDIA")
<1>1. Known(media) /\ Known(Stopped("MEDIA")) /\ Known(Playing(Stopped("MEDIA"), "NONE"))
  BY MarkKnown, PlayingKnown, SoundsHeard, Zenon
<1>2. Known(media) /\ Known(m)
  BY <1>1
<1>3. Active("VOICE") => "VOICE" \in m.active
  BY DEF Active, Playing, Stopped, MediaInv, MediaType
<1>4. Known(Playing(m, "SBC"))
  BY <1>2, PlayingKnown, SoundsHeard
<1>5. Active("VOICE") => Known([Playing(m, "VOICE") EXCEPT !.sco = TRUE])
  BY <1>2, <1>3, ResumeCallKnown
<1>6. \/ media' = media \/ media' = m \/ media' = Playing(m, "SBC")
      \/ Active("VOICE") /\ media' = [Playing(m, "VOICE") EXCEPT !.sco = TRUE]
  BY Zenon DEF DropPrompts, Decide
<1> QED
  BY <1>2, <1>4, <1>5, <1>6, Zenon

LEMMA ManagerKnown ==
  ASSUME MediaInv, ManagerHandle
  PROVE  Known(media')
<1>1. Known(media)
  BY MarkKnown
<1>2. Known(Playing(media, "SBC"))
  BY <1>1, PlayingKnown, SoundsHeard
<1>3. ASSUME UpdateMedia PROVE Known(media')
  <2>1. media' = media \/ media' = Playing(media, "SBC")
    BY <1>3, Zenon DEF UpdateMedia, Decide
  <2> QED
    BY <1>1, <1>2, <2>1
<1>4. ASSUME SwitchToVoice PROVE Known(media')
  <2>1. media' = media \/ DropPrompts
    BY <1>4, Zenon DEF SwitchToVoice, Decide
  <2> QED
    BY <1>1, <2>1, DropPromptsKnown
<1>5. \/ StartSbc \/ StartMedia(Head(mailbox).aud) \/ StartVoice
      \/ StopSbc \/ StopMedia \/ StopVoice
      \/ SwitchToVoice \/ DropPrompts \/ UpdateMedia
  BY Zenon DEF ManagerHandle
<1> QED
  BY <1>3, <1>4, <1>5, StartSbcKnown, StartMediaKnown, StartVoiceKnown,
     StopSbcKnown, StopMediaKnown, StopVoiceKnown, DropPromptsKnown, Zenon

(* Only the media manager's handler writes bt_meida. *)
LEMMA OthersKeepMedia ==
  ASSUME Next, ~ManagerHandle
  PROVE  media' = media
<1> USE DEF Callback
<1>1. CASE CallActive \/ CallNone \/ (\E s \in Setup : CallSetup(s)) \/ Ring
  BY <1>1 DEF CallActive, CallNone, CallSetup, Ring
<1>2. CASE AudioConnected \/ AudioDisconnected \/ HfDisconnected
  BY <1>2 DEF AudioConnected, AudioDisconnected, HfDisconnected
<1>3. CASE MusicStarted \/ MusicStopped
  BY <1>3 DEF MusicStarted, MusicStopped
<1>4. CASE BtStep \/ PromptEnds \/ PowerOff
  BY <1>4 DEF BtStep, PromptEnds, PowerOff
<1>5. CASE \E aud \in Prompt : VoiceReport(aud)
  BY <1>5 DEF VoiceReport
<1>6. CASE AppThreadStep
  BY <1>6 DEF AppThreadStep, AppThread, AudioHandle
<1> QED
  BY <1>1, <1>2, <1>3, <1>4, <1>5, <1>6 DEF Next

(* The manager knows the device of every active sound and of no other, for
   any prompts, limits, environment and backlog: the tables bt_media_stop and
   app_media_stop_media index by media_curr_sbc and media_curr_sco are indexed
   by a device whenever the sound is active. *)
THEOREM DevicesAlwaysKnown == Spec => []DevicesKnown
<1>1. Init => MediaInv
  BY DEF Init, MediaOpened, MediaInv, MediaType, DevicesKnown, Active, Sound
<1>2. MediaInv /\ [Next]_vars => MediaInv'
  <2> SUFFICES ASSUME MediaInv, [Next]_vars PROVE MediaInv'
    OBVIOUS
  <2>1. CASE ManagerHandle
    <3>1. Known(media')
      BY <2>1, ManagerKnown
    <3> QED
      BY <3>1 DEF Known, MediaInv, DevicesKnown, Active
  <2>2. CASE media' = media
    BY <2>2 DEF MediaInv, DevicesKnown, Active
  <2> QED
    BY <2>1, <2>2, OthersKeepMedia DEF vars
<1>3. MediaInv => DevicesKnown
  BY DEF MediaInv
<1> QED
  BY <1>1, <1>2, <1>3, PTL DEF Spec

----------------------------------------------------------------------------
(* The messages. *)

NameOrNone == Prompt \cup {NoPrompt}

\* What is posted while the power is on, and what then waits in the mailbox.
Posted  == {m \in Message : m.op # "CLOSEALL"}
Waiting == IF off = "ON" THEN Posted ELSE Message

\* The steps of a callback.
Step == [step : {"POST", "REPORT"}, msg : Posted]
        \cup [step : {"CALL"}, call : BOOLEAN]
        \cup [step : {"SETUP"}, setup : Setup]

MailInv ==
  /\ mailbox \in Seq(Waiting) /\ callback \in Seq(Step)
  /\ off \in {"ON", "CLOSING", "CLOSED", "OFF"}

IInv == /\ TypeOK /\ DevicesKnown /\ MailInv
        /\ StreamInFront /\ OneStream /\ EndWillClose

LEMMA ManagePosted ==
  ASSUME NEW op \in {"START", "STOP", "SWITCHTO_SCO", "STOP_MEDIA", "UPDATE_MEDIA"},
         NEW sound \in Sound, NEW aud \in NameOrNone
  PROVE  Manage(op, sound, aud) \in Posted
BY DEF Manage, Posted, Message, NameOrNone

LEMMA AudioPosted ==
  ASSUME NEW op \in {"OPEN", "CLOSE", "SETUP"}, NEW id \in Stream, NEW aud \in NameOrNone
  PROVE  Audio(op, id, aud) \in Posted
BY DEF Audio, Posted, Message, NameOrNone

LEMMA NoneIsName == NoPrompt \in NameOrNone
BY DEF NameOrNone

\* Short answers, and two of them.
LEMMA OnePosted == ASSUME NEW m \in Posted PROVE <<m>> \in Seq(Posted)
OBVIOUS

LEMMA BothPosted ==
  ASSUME NEW s \in Seq(Posted), NEW t \in Seq(Posted) PROVE s \o t \in Seq(Posted)
BY ConcatProperties

LEMMA RequestsPosted ==
  /\ <<>> \in Seq(Posted)
  /\ OpenSbc \in Seq(Posted) /\ CloseSbc \in Seq(Posted)
  /\ OpenHfp \in Seq(Posted) /\ CloseHfp \in Seq(Posted) /\ ClosePlay \in Seq(Posted)
  /\ \A aud \in NameOrNone : <<Audio("OPEN", "PLAYBACK", aud)>> \in Seq(Posted)
<1>1. "SBC" \in Stream /\ "HFP" \in Stream /\ "PLAYBACK" \in Stream
  BY DEF Stream
<1>2. /\ Audio("SETUP", "SBC", NoPrompt) \in Posted /\ Audio("OPEN", "SBC", NoPrompt) \in Posted
      /\ Audio("CLOSE", "SBC", NoPrompt) \in Posted
      /\ Audio("OPEN", "HFP", NoPrompt) \in Posted /\ Audio("CLOSE", "HFP", NoPrompt) \in Posted
      /\ Audio("CLOSE", "PLAYBACK", NoPrompt) \in Posted
      /\ \A aud \in NameOrNone : Audio("OPEN", "PLAYBACK", aud) \in Posted
  BY <1>1, AudioPosted, NoneIsName
<1>3. OpenSbc \in Seq(Posted)
  BY <1>2 DEF OpenSbc
<1> QED
  BY <1>2, <1>3, OnePosted, EmptySeq DEF CloseSbc, OpenHfp, CloseHfp, ClosePlay

\* The manager answers the message at the head of the mailbox, or stops.
Answered == \E r \in Seq(Posted) : mailbox' = Tail(mailbox) \o r

LEMMA DecideAnswers == ASSUME NEW m, NEW r \in Seq(Posted), Decide(m, r) PROVE Answered
BY Zenon DEF Decide, Answered

LEMMA StartsAnswer ==
  ASSUME NEW aud \in NameOrNone, StartSbc \/ StartMedia(aud) \/ StartVoice
  PROVE  Answered \/ (failed' # "no" /\ UNCHANGED mailbox)
<1> DEFINE play == <<Audio("OPEN", "PLAYBACK", aud)>>
<1>1. play \in Seq(Posted) /\ CloseHfp \o play \in Seq(Posted) /\ CloseSbc \o play \in Seq(Posted)
  BY RequestsPosted, BothPosted
<1> HIDE DEF play
<1>2. CASE StartSbc
  BY <1>2, RequestsPosted, DecideAnswers, Zenon DEF StartSbc
<1>3. CASE StartMedia(aud)
  BY <1>1, <1>3, RequestsPosted, DecideAnswers, Zenon DEF StartMedia, MixIntoCall, Fail, play
<1>4. CASE StartVoice
  <2> DEFINE a == (IF media.current = "MEDIA" THEN ClosePlay ELSE <<>>) \o OpenHfp
             b == (IF media.current = "SBC" THEN CloseSbc ELSE <<>>) \o OpenHfp
  <2>1. a \in Seq(Posted) /\ b \in Seq(Posted)
    BY RequestsPosted, BothPosted
  <2> HIDE DEF a, b
  <2> QED
    BY <1>4, <2>1, RequestsPosted, DecideAnswers, Zenon DEF StartVoice, a, b
<1> QED
  BY <1>2, <1>3, <1>4

LEMMA OthersAnswer ==
  ASSUME StopSbc \/ StopMedia \/ StopVoice \/ SwitchToVoice \/ DropPrompts \/ UpdateMedia
  PROVE  Answered
<1>1. CASE StopSbc \/ StopMedia \/ UpdateMedia
  BY <1>1, RequestsPosted, DecideAnswers, Zenon DEF StopSbc, StopMedia, UpdateMedia
<1>2. CASE StopVoice
  <2> DEFINE a == CASE media.current = "VOICE" -> CloseHfp
                    [] media.current = "SBC" /\ ~Active("SBC") -> CloseSbc
                    [] OTHER -> <<>>
  <2>1. a \in Seq(Posted) /\ CloseHfp \o OpenSbc \in Seq(Posted)
    BY RequestsPosted, BothPosted
  <2> HIDE DEF a
  <2> QED
    BY <1>2, <2>1, RequestsPosted, DecideAnswers, Zenon DEF StopVoice, a
<1>3. ASSUME DropPrompts PROVE Answered
  <2> DEFINE a == IF media.current = "MEDIA" THEN ClosePlay ELSE <<>>
  <2>1. a \in Seq(Posted) /\ a \o OpenHfp \in Seq(Posted) /\ a \o OpenSbc \in Seq(Posted)
    BY RequestsPosted, BothPosted
  <2> HIDE DEF a
  <2> QED
    BY <1>3, <2>1, RequestsPosted, DecideAnswers, Zenon DEF DropPrompts, a
<1>4. CASE SwitchToVoice
  BY <1>3, <1>4, RequestsPosted, DecideAnswers, Zenon DEF SwitchToVoice
<1> QED
  BY <1>1, <1>2, <1>3, <1>4

LEMMA ManagerMail ==
  ASSUME TypeOK, ManagerHandle
  PROVE  Answered \/ (failed' # "no" /\ UNCHANGED mailbox)
<1> DEFINE msg == Head(mailbox)
<1>1. msg \in Message
  BY HeadTailProperties DEF TypeOK, ManagerHandle
<1>2. msg.aud \in NameOrNone
  BY <1>1 DEF Message, NameOrNone
<1>3. \/ StartSbc \/ StartMedia(msg.aud) \/ StartVoice
      \/ StopSbc \/ StopMedia \/ StopVoice \/ SwitchToVoice \/ DropPrompts \/ UpdateMedia
  BY Zenon DEF ManagerHandle
<1> HIDE DEF msg
<1> QED
  BY <1>2, <1>3, StartsAnswer, OthersAnswer, Zenon

\* The manager leaves the list or empties it, and the sounds that play alone.
LEMMA ManagerList == ASSUME ManagerHandle PROVE audioList' \in {audioList, <<>>}
<1>1. ASSUME DropPrompts PROVE audioList' = audioList \/ audioList' = <<>>
  BY <1>1, Zenon DEF DropPrompts
<1>2. ASSUME StartVoice PROVE audioList' = audioList \/ audioList' = <<>>
  BY <1>2, Zenon DEF StartVoice
<1>3. ASSUME SwitchToVoice PROVE audioList' = audioList \/ audioList' = <<>>
  BY <1>1, <1>3, Zenon DEF SwitchToVoice
<1>4. ASSUME NEW aud, \/ StartSbc \/ StartMedia(aud) \/ StopSbc \/ StopMedia \/ StopVoice
                      \/ UpdateMedia
      PROVE  audioList' = audioList
  BY <1>4, Zenon DEF StartSbc, StartMedia, StopSbc, StopMedia, StopVoice, UpdateMedia
<1>5. \/ StartSbc \/ StartMedia(Head(mailbox).aud) \/ StartVoice
      \/ StopSbc \/ StopMedia \/ StopVoice \/ SwitchToVoice \/ DropPrompts \/ UpdateMedia
  BY Zenon DEF ManagerHandle
<1>6. audioList' = audioList \/ audioList' = <<>>
  BY <1>1, <1>2, <1>3, <1>4, <1>5, Zenon
<1> QED
  BY <1>6

----------------------------------------------------------------------------
(* The callbacks. *)

LEMMA StepsAreSteps ==
  /\ \A m \in Posted : Post(m) \in Step
  /\ \A aud \in Prompt : Report(aud) \in Step
  /\ \A b \in BOOLEAN : SetCall(b) \in Step
  /\ \A s \in Setup : SetSetup(s) \in Step
<1>1. \A aud \in Prompt : Manage("START", "MEDIA", aud) \in Posted
  BY ManagePosted DEF NameOrNone, Sound
<1> QED
  BY <1>1 DEF Post, Report, SetCall, SetSetup, Step

\* What the callbacks post.
LEMMA PostsAreSteps ==
  /\ \A op \in {"START", "STOP", "SWITCHTO_SCO", "STOP_MEDIA", "UPDATE_MEDIA"},
        sound \in Sound : Post(Manage(op, sound, NoPrompt)) \in Step
  /\ \A op \in {"OPEN", "CLOSE"} : Post(Audio(op, "LINEIN", NoPrompt)) \in Step
<1>1. \A op \in {"START", "STOP", "SWITCHTO_SCO", "STOP_MEDIA", "UPDATE_MEDIA"},
         sound \in Sound : Manage(op, sound, NoPrompt) \in Posted
  BY ManagePosted, NoneIsName
<1>2. \A op \in {"OPEN", "CLOSE"} : Audio(op, "LINEIN", NoPrompt) \in Posted
  BY AudioPosted, NoneIsName DEF Stream
<1> QED
  BY <1>1, <1>2, StepsAreSteps

LEMMA ShortCallbacks ==
  ASSUME NEW a \in Step, NEW b \in Step, NEW c \in Step
  PROVE  <<>> \in Seq(Step) /\ <<a>> \in Seq(Step) /\ <<a, b>> \in Seq(Step)
         /\ <<a, b, c>> \in Seq(Step)
OBVIOUS

LEMMA JoinedCallbacks ==
  ASSUME NEW s \in Seq(Step), NEW t \in Seq(Step) PROVE s \o t \in Seq(Step)
BY ConcatProperties

\* The phone changes its links and starts a callback.
PhoneActs ==
  \/ CallActive \/ CallNone
  \/ \E s \in Setup : CallSetup(s)
  \/ Ring
  \/ AudioConnected \/ AudioDisconnected \/ HfDisconnected
  \/ MusicStarted \/ MusicStopped

LEMMA PhoneCallsBack ==
  ASSUME IInv, PhoneActs
  PROVE  /\ callback' \in Seq(Step) /\ link' \in LinkType
         /\ UNCHANGED <<mailbox, media, phone, audioList, failed, player, off>>
<1> DEFINE Rest == UNCHANGED <<mailbox, media, phone, audioList, failed, player, off>>
           Done(b) == Post(Manage(b, "VOICE", NoPrompt))
<1>1. link \in LinkType
  BY DEF IInv, TypeOK
<1>2. /\ Done("SWITCHTO_SCO") \in Step /\ Done("UPDATE_MEDIA") \in Step
      /\ Done("STOP_MEDIA") \in Step /\ Done("START") \in Step /\ Done("STOP") \in Step
      /\ Post(Manage("START", "SBC", NoPrompt)) \in Step
      /\ Post(Manage("STOP", "SBC", NoPrompt)) \in Step
      /\ Post(Audio("OPEN", "LINEIN", NoPrompt)) \in Step
      /\ Post(Audio("CLOSE", "LINEIN", NoPrompt)) \in Step
  BY PostsAreSteps DEF Sound
<1>3. /\ Report(OtherPrompt) \in Step /\ Report(RingPrompt) \in Step
      /\ SetCall(TRUE) \in Step /\ SetCall(FALSE) \in Step /\ SetSetup("NONE") \in Step
  BY StepsAreSteps, PathAssumption, QueueAssumption DEF Setup
<1> HIDE DEF Done
<1>4. CASE CallActive
  <2>1. <<Done("SWITCHTO_SCO"), SetCall(TRUE), Done("UPDATE_MEDIA")>> \in Seq(Step)
    BY <1>2, <1>3, ShortCallbacks
  <2> QED
    BY <1>1, <1>4, <2>1 DEF CallActive, Callback, Done
<1>5. CASE CallNone
  <2>1. PICK told \in BOOLEAN :
          Callback(<<Done("STOP_MEDIA")>> \o (IF told THEN <<Report(OtherPrompt)>> ELSE <<>>)
                   \o <<SetCall(FALSE), Done("UPDATE_MEDIA")>>)
    BY <1>5, Zenon DEF CallNone, Done
  <2> DEFINE tell == IF told THEN <<Report(OtherPrompt)>> ELSE <<>>
  <2>2. /\ <<Done("STOP_MEDIA")>> \in Seq(Step) /\ tell \in Seq(Step)
        /\ <<SetCall(FALSE), Done("UPDATE_MEDIA")>> \in Seq(Step)
    BY <1>2, <1>3, ShortCallbacks
  <2> HIDE DEF tell
  <2>3. <<Done("STOP_MEDIA")>> \o tell \o <<SetCall(FALSE), Done("UPDATE_MEDIA")>> \in Seq(Step)
    BY <2>2, JoinedCallbacks
  <2>4. callback' \in Seq(Step) /\ Rest
    BY <2>1, <2>3, Zenon DEF Callback, tell
  <2> QED
    BY <1>1, <1>5, <2>4 DEF CallNone
<1>6. ASSUME NEW s \in Setup, CallSetup(s) PROVE callback' \in Seq(Step) /\ link' = link /\ Rest
  <2> DEFINE drop == IF s = "NONE" /\ ~phone.call
                       THEN <<Done("STOP_MEDIA"), Report(OtherPrompt)>> ELSE <<>>
  <2>1. drop \in Seq(Step) /\ <<SetSetup(s)>> \in Seq(Step)
    BY <1>2, <1>3, StepsAreSteps, ShortCallbacks
  <2>2. Callback(drop \o <<SetSetup(s)>>) /\ link' = link
    BY <1>6, Zenon DEF CallSetup, Done
  <2> HIDE DEF drop
  <2> QED
    BY <2>1, <2>2, JoinedCallbacks, Zenon DEF Callback
<1>7. CASE Ring
  BY <1>1, <1>3, <1>7, ShortCallbacks DEF Ring, Callback
<1>8. CASE AudioConnected \/ AudioDisconnected
  <2>1. <<Done("START")>> \in Seq(Step) /\ <<Done("STOP")>> \in Seq(Step)
    BY <1>2, ShortCallbacks
  <2>2. callback' \in Seq(Step) /\ Rest
    BY <1>8, <2>1, Zenon DEF AudioConnected, AudioDisconnected, Callback, Done
  <2>3. link' \in LinkType
    BY <1>1, <1>8 DEF AudioConnected, AudioDisconnected, LinkType
  <2> QED
    BY <2>2, <2>3
<1>9. CASE HfDisconnected
  <2>1. <<Done("STOP"), SetCall(FALSE), SetSetup("NONE")>> \in Seq(Step)
    BY <1>2, <1>3, ShortCallbacks
  <2>2. callback' \in Seq(Step) /\ Rest
    BY <1>9, <2>1, Zenon DEF HfDisconnected, Callback, Done
  <2>3. link' \in LinkType
    BY <1>1, <1>9 DEF HfDisconnected, LinkType
  <2> QED
    BY <2>2, <2>3
<1>10. CASE MusicStarted \/ MusicStopped
  <2>1. /\ <<Post(Manage("START", "SBC", NoPrompt))>> \in Seq(Step)
        /\ <<Post(Manage("STOP", "SBC", NoPrompt))>> \in Seq(Step)
        /\ <<Post(Audio("OPEN", "LINEIN", NoPrompt))>> \in Seq(Step)
        /\ <<Post(Audio("CLOSE", "LINEIN", NoPrompt))>> \in Seq(Step)
    BY <1>2, ShortCallbacks
  <2>2. callback' \in Seq(Step) /\ Rest
    BY <1>10, <2>1, Zenon DEF MusicStarted, MusicStopped, Callback
  <2>3. link' \in LinkType
    BY <1>1, <1>10 DEF MusicStarted, MusicStopped, LinkType
  <2> QED
    BY <2>2, <2>3
<1> QED
  BY <1>1, <1>4, <1>5, <1>6, <1>7, <1>8, <1>9, <1>10 DEF PhoneActs

----------------------------------------------------------------------------
(* The list. *)

InFront(list) ==
  list \in Seq(EntryType) /\ \A i \in 1..Len(list) : i > 1 => IsPrompt(list[i])

LEMMA FrontIsStreamInFront ==
  ASSUME NEW list
  PROVE  InFront(list) <=> /\ list \in Seq(EntryType)
                         /\ \A i \in DOMAIN list : i > 1 => IsPrompt(list[i])
BY LenProperties DEF InFront

LEMMA AppendFront ==
  ASSUME NEW list, InFront(list), NEW e \in EntryType
  PROVE  InFront(ListAppend(list, e))
<1>1. CASE IsPrompt(e)
  <2>1. /\ Append(list, e) \in Seq(EntryType) /\ Len(Append(list, e)) = Len(list) + 1
        /\ \A i \in 1..Len(list) : Append(list, e)[i] = list[i]
        /\ Append(list, e)[Len(list) + 1] = e
    BY AppendProperties DEF InFront
  <2>2. \A i \in 1..Len(list) + 1 : i \in 1..Len(list) \/ i = Len(list) + 1
    BY LenProperties DEF InFront
  <2> QED
    BY <1>1, <2>1, <2>2 DEF ListAppend, InFront
<1>2. CASE ~IsPrompt(e)
  BY <1>2 DEF ListAppend, InFront
<1> QED
  BY <1>1, <1>2

\* The first prompt is the first or the second entry.
LEMMA FirstPromptExists ==
  ASSUME NEW list, InFront(list), Prompts(list) # {}
  PROVE  FirstPrompt(list) \in 1..Len(list)
<1>1. Len(list) \in Nat /\ DOMAIN list = 1..Len(list)
  BY LenProperties DEF InFront
<1>2. PICK i \in 1..Len(list) : IsPrompt(list[i])
  BY <1>1 DEF Prompts
<1>3. \E x \in Prompts(list) : \A y \in Prompts(list) : x <= y
  <2>1. CASE IsPrompt(list[1])
    <3>1. 1 \in Prompts(list) /\ \A y \in Prompts(list) : 1 <= y
      BY <1>1, <1>2, <2>1 DEF Prompts
    <3> QED
      BY <3>1
  <2>2. CASE ~IsPrompt(list[1])
    <3>1. i > 1 /\ 2 \in 1..Len(list)
      BY <1>1, <1>2, <2>2
    <3>2. 2 \in Prompts(list)
      BY <1>1, <3>1 DEF Prompts, InFront
    <3>3. \A y \in Prompts(list) : y # 1 /\ y \in 1..Len(list)
      BY <1>1, <2>2 DEF Prompts
    <3> QED
      BY <1>1, <3>2, <3>3
  <2> QED
    BY <2>1, <2>2
<1>4. FirstPrompt(list) \in Prompts(list)
  BY <1>3, Zenon DEF FirstPrompt, Min
<1> QED
  BY <1>1, <1>4 DEF Prompts

LEMMA TailFront ==
  ASSUME NEW list, InFront(list), list # <<>>
  PROVE  InFront(Tail(list))
<1>1. /\ Tail(list) \in Seq(EntryType) /\ Len(Tail(list)) = Len(list) - 1
      /\ \A i \in 1..Len(Tail(list)) : Tail(list)[i] = list[i + 1]
  BY HeadTailProperties DEF InFront
<1>2. Len(list) \in Nat
  BY LenProperties DEF InFront
<1>3. \A i \in 1..Len(Tail(list)) : i + 1 \in 1..Len(list) /\ i + 1 > 1
  BY <1>1, <1>2
<1> QED
  BY <1>1, <1>3 DEF InFront

LEMMA RemoveFront ==
  ASSUME NEW list, InFront(list), NEW id
  PROVE  InFront(ListRemove(list, id))
<1>1. Len(list) \in Nat /\ DOMAIN list = 1..Len(list)
  BY LenProperties DEF InFront
<1>2. CASE id = "PLAYBACK" /\ Prompts(list) # {}
  <2> DEFINE k == FirstPrompt(list)
             rest == RemoveAt(list, k)
  <2>1. k \in 1..Len(list)
    BY <1>2, FirstPromptExists
  <2> HIDE DEF k
  <2>2. /\ rest \in Seq(EntryType) /\ Len(rest) = Len(list) - 1
        /\ \A j \in 1..Len(list) - 1 : rest[j] = IF j < k THEN list[j] ELSE list[j + 1]
    BY <2>1, RemoveAtProperties DEF InFront
  <2> HIDE DEF rest
  <2>3. ASSUME NEW j \in 1..Len(rest), j > 1 PROVE IsPrompt(rest[j])
    <3>1. j \in 1..Len(list) /\ j + 1 \in 1..Len(list) /\ j + 1 > 1
      BY <1>1, <2>2
    <3>2. rest[j] = list[j] \/ rest[j] = list[j + 1]
      BY <2>2
    <3> QED
      BY <2>3, <3>1, <3>2 DEF InFront
  <2>4. ListRemove(list, id) = rest
    BY <1>2 DEF ListRemove, k, rest
  <2> QED
    BY <2>2, <2>3, <2>4 DEF InFront
<1>3. CASE id # "PLAYBACK" /\ StreamExists(list)
  <2>1. list # <<>>
    BY <1>3 DEF StreamExists
  <2> QED
    BY <1>3, <2>1, TailFront DEF ListRemove
<1>4. CASE ~(id = "PLAYBACK" /\ Prompts(list) # {}) /\ ~(id # "PLAYBACK" /\ StreamExists(list))
  BY <1>4, Zenon DEF ListRemove
<1> QED
  BY <1>2, <1>3, <1>4

LEMMA NextIsEntry ==
  ASSUME NEW list, InFront(list), NEW id, ListNext(list, id) # <<>>
  PROVE  ListNext(list, id)[1] \in EntryType
<1>1. Len(list) \in Nat /\ \A i \in 1..Len(list) : list[i] \in EntryType
  BY LenProperties, ElementOfSeq DEF InFront
<1> DEFINE k == FirstPrompt(list)
<1>2. k \in 1..Len(list)
  BY FirstPromptExists DEF ListNext
<1>3. CASE k < Len(list)
  <2>1. k + 1 \in 1..Len(list)
    BY <1>1, <1>2, <1>3
  <2>2. ListNext(list, id) = <<list[k + 1]>>
    BY <1>3, Zenon DEF ListNext
  <2> QED
    BY <1>1, <2>1, <2>2
<1>4. CASE ~(k < Len(list))
  <2>1. ListNext(list, id) = <<Head(list)>>
    BY <1>4, Zenon DEF ListNext
  <2>2. Head(list) \in EntryType
    BY <1>1, <1>2, HeadTailProperties DEF InFront
  <2> QED
    BY <2>1, <2>2
<1> QED
  BY <1>3, <1>4

----------------------------------------------------------------------------
(* The players. *)

\* OneStream of player p, the streams in o overlooked.
One(p, o) ==
  p \in PlayerType /\ p.run \ o = {p.stream} \ ({"NONE"} \cup o)

\* A prompt that runs on without data.
Over(p) == "PLAYBACK" \in p.run /\ p.ending

LEMMA CloseOne ==
  ASSUME NEW p, NEW o \in {{}, {"LINEIN"}}, One(p, o), NEW id
  PROVE  LET q == CloseStream(p, id) IN
         /\ One(q, o)
         /\ Over(q) => Over(p) /\ id # "PLAYBACK"
         /\ id = p.stream => q.run \subseteq o
<1> DEFINE q == CloseStream(p, id)
<1>1. CASE p.stream = id
  <2>1. q = [p EXCEPT !.stream = "NONE", !.run = @ \ {id}]
    BY <1>1 DEF CloseStream
  <2>2. q \in PlayerType /\ q.stream = "NONE" /\ q.run = p.run \ {id} /\ q.ending = p.ending
    BY <2>1 DEF One, PlayerType
  <2> HIDE DEF q
  <2>3. q.run \ o = {} /\ q.run \subseteq o
    BY <1>1, <2>2 DEF One
  <2>4. One(q, o)
    BY <2>2, <2>3 DEF One
  <2>5. Over(q) => Over(p) /\ id # "PLAYBACK"
    BY <2>2 DEF Over
  <2> QED
    BY <2>3, <2>4, <2>5 DEF q
<1>2. CASE p.stream # id
  <2>1. q = p
    BY <1>2 DEF CloseStream
  <2>2. Over(p) => p.stream = "PLAYBACK"
    BY DEF Over, One
  <2> QED
    BY <1>2, <2>1, <2>2
<1> QED
  BY <1>1, <1>2

LEMMA OpenOne ==
  ASSUME NEW p, NEW o \in {{}, {"LINEIN"}}, One(p, o), NEW id \in Stream
  PROVE  One(OpenStream(p, id), o) /\ ~Over(OpenStream(p, id))
<1> DEFINE idle == CloseStream(p, p.stream)
           over == p.ending /\ id # "PLAYBACK"
<1>1. One(idle, o) /\ idle.run \subseteq o
  BY CloseOne
<1> HIDE DEF idle
<1>2. OpenStream(p, id) = [stream |-> id, run |-> idle.run \cup {id}, ending |-> over]
  BY Zenon DEF OpenStream, idle
<1>3. p.ending \in BOOLEAN /\ idle.run \in SUBSET Stream
  BY <1>1 DEF One, PlayerType
<1>4. over \in BOOLEAN /\ (id = "PLAYBACK" => over = FALSE)
  BY Zenon
<1> HIDE DEF over
<1>5. OpenStream(p, id) \in PlayerType
  BY <1>2, <1>3, <1>4 DEF PlayerType
<1>6. /\ OpenStream(p, id).stream = id
      /\ OpenStream(p, id).run = idle.run \cup {id}
      /\ OpenStream(p, id).ending = over
  BY <1>2
<1>7. (idle.run \cup {id}) \ o = {id} \ ({"NONE"} \cup o)
  BY <1>1 DEF Stream
<1>8. One(OpenStream(p, id), o)
  BY <1>5, <1>6, <1>7 DEF One
<1>9. "PLAYBACK" \in idle.run \cup {id} => id = "PLAYBACK"
  BY <1>1
<1>10. ~Over(OpenStream(p, id))
  BY <1>4, <1>6, <1>9 DEF Over
<1> QED
  BY <1>8, <1>10

LEMMA CloseAllOne ==
  ASSUME NEW p, One(p, {"LINEIN"})
  PROVE  One(CloseAllStreams(p), {"LINEIN"}) /\ ~Over(CloseAllStreams(p))
BY DEF One, CloseAllStreams, PlayerType, Stream, Over

LEMMA OpenedOne ==
  ASSUME NEW p, NEW o \in {{}, {"LINEIN"}}, One(p, o), NEW id \in Stream, Opened(p, id)
  PROVE  One(player', o) /\ (failed' = "no" => ~Over(player'))
<1>1. CASE player' = OpenStream(p, id)
  BY <1>1, OpenOne
<1>2. CASE player' = CloseStream(p, p.stream) /\ failed' = "INVALID_BT_DEVICE_NUM"
  BY <1>2, CloseOne
<1> QED
  BY <1>1, <1>2, Zenon DEF Opened

----------------------------------------------------------------------------
(* The steps. *)

Overlooked == IF off = "ON" THEN {} ELSE {"LINEIN"}

\* IInv as the lemmas above use it.
Parts ==
  /\ media \in MediaType /\ DevicesKnown
  /\ phone \in PhoneType /\ link \in LinkType
  /\ MailInv /\ InFront(audioList) /\ One(player, Overlooked) /\ EndWillClose

LEMMA InParts == IInv <=> Parts
<1>1. mailbox \in Seq(Waiting) => mailbox \in Seq(Message)
  BY SeqMonotonic DEF Waiting, Posted
<1>2. InFront(audioList) <=> audioList \in Seq(EntryType) /\ StreamInFront
  BY FrontIsStreamInFront DEF StreamInFront
<1>3. One(player, Overlooked) <=> player \in PlayerType /\ OneStream
  BY DEF One, OneStream, Overlooked
<1> QED
  BY <1>1, <1>2, <1>3, Zenon DEF IInv, Parts, TypeOK, MailInv

LEMMA PostedWaits == Posted \subseteq Waiting /\ (off' = off => Waiting' = Waiting)
BY DEF Posted, Waiting

Closes == Head(ClosePlay) \in Range(mailbox)

\* What a step leaves of the mailbox.
Grows == \E r \in Seq(Posted) : mailbox' = mailbox \o r
Taken == mailbox # <<>> /\ Answered

LEMMA GrowsKeeps ==
  ASSUME MailInv, UNCHANGED off, Grows
  PROVE  mailbox' \in Seq(Waiting') /\ (Closes => Closes')
<1>1. PICK r \in Seq(Posted) : mailbox' = mailbox \o r
  BY DEF Grows
<1>2. r \in Seq(Waiting)
  BY PostedWaits, SeqMonotonic
<1>3. mailbox' \in Seq(Waiting) /\ Range(mailbox) \subseteq Range(mailbox')
  BY <1>1, <1>2, GrownList DEF MailInv
<1>4. ClosePlay' = ClosePlay
  BY Zenon DEF ClosePlay, Audio
<1> QED
  BY <1>3, <1>4, PostedWaits DEF Closes

LEMMA TakenKeeps ==
  ASSUME MailInv, UNCHANGED off, Taken
  PROVE  /\ mailbox' \in Seq(Waiting')
         /\ Closes /\ Head(mailbox) # Head(ClosePlay) => Closes'
<1>1. PICK r \in Seq(Posted) : mailbox' = Tail(mailbox) \o r
  BY DEF Taken, Answered
<1>2. r \in Seq(Waiting)
  BY PostedWaits, SeqMonotonic
<1>3. /\ mailbox' \in Seq(Waiting)
      /\ \A m \in Range(mailbox) : m # Head(mailbox) => m \in Range(mailbox')
  BY <1>1, <1>2, TakenList DEF MailInv, Taken
<1>4. ClosePlay' = ClosePlay
  BY Zenon DEF ClosePlay, Audio
<1> QED
  BY <1>3, <1>4, PostedWaits DEF Closes

LEMMA AppendGrows == ASSUME MailInv, NEW m \in Posted PROVE Append(mailbox, m) = mailbox \o <<m>>
BY AppendIsConcat, PostedWaits DEF MailInv

LEMMA SameGrows == ASSUME MailInv, UNCHANGED mailbox PROVE Grows
<1>1. mailbox' = mailbox \o <<>>
  BY ConcatEmptySeq DEF MailInv
<1> QED
  BY <1>1, EmptySeq DEF Grows

\* A step that plays nothing and takes no message.
LEMMA PostingKeeps ==
  ASSUME Parts, failed = "no", Grows,
         callback' \in Seq(Step), phone' \in PhoneType, link' \in LinkType,
         UNCHANGED <<media, audioList, failed, player, off>>
  PROVE  Parts'
<1>1. mailbox' \in Seq(Waiting') /\ (Closes => Closes')
  BY GrowsKeeps DEF Parts
<1>2. MailInv'
  BY <1>1 DEF Parts, MailInv
<1>3. media' \in MediaType /\ DevicesKnown' /\ InFront(audioList') /\ One(player', Overlooked')
  BY DEF Parts, DevicesKnown, Active, Overlooked
<1>4. EndWillClose'
  BY <1>1, Zenon DEF Parts, EndWillClose, Closes
<1> QED
  BY <1>2, <1>3, <1>4 DEF Parts

LEMMA PhoneKeeps == ASSUME Parts, failed = "no", PhoneActs PROVE Parts'
<1>1. /\ callback' \in Seq(Step) /\ link' \in LinkType
      /\ UNCHANGED <<mailbox, media, phone, audioList, failed, player, off>>
  BY PhoneCallsBack, InParts
<1>2. Grows
  BY <1>1, SameGrows DEF Parts
<1> QED
  BY <1>1, <1>2, PostingKeeps DEF Parts

LEMMA BtStepKeeps == ASSUME Parts, failed = "no", BtStep PROVE Parts'
<1> DEFINE next == Head(callback)
<1>1. next \in Step /\ callback' \in Seq(Step)
  BY HeadTailProperties DEF BtStep, Parts, MailInv
<1> HIDE DEF next
<1>2. /\ next.step \in {"POST", "REPORT"} => next.msg \in Posted
      /\ next.step = "CALL" => next.call \in BOOLEAN
      /\ next.step = "SETUP" => next.setup \in Setup
  BY <1>1 DEF Step
<1>3. Grows /\ phone' \in PhoneType
  <2>1. CASE /\ next.step \in {"POST", "REPORT"}
             /\ mailbox' = mailbox \/ mailbox' = Append(mailbox, next.msg)
             /\ UNCHANGED phone
    <3>1. <<next.msg>> \in Seq(Posted) /\ Append(mailbox, next.msg) = mailbox \o <<next.msg>>
      BY <1>2, <2>1, AppendGrows, OnePosted DEF Parts
    <3> QED
      BY <2>1, <3>1, SameGrows, Zenon DEF Parts, Grows
  <2>2. CASE /\ next.step = "CALL" /\ UNCHANGED mailbox
             /\ phone' = [phone EXCEPT !.call = next.call]
    BY <1>2, <2>2, SameGrows DEF Parts, PhoneType
  <2>3. CASE /\ next.step = "SETUP" /\ UNCHANGED mailbox
             /\ phone' = [phone EXCEPT !.setup = next.setup]
    BY <1>2, <2>3, SameGrows DEF Parts, PhoneType
  <2> QED
    BY <2>1, <2>2, <2>3, Zenon DEF BtStep, next
<1>4. UNCHANGED <<media, audioList, failed, player, link, off>>
  BY Zenon DEF BtStep
<1> QED
  BY <1>1, <1>3, <1>4, PostingKeeps DEF Parts

LEMMA ReportKeeps ==
  ASSUME Parts, failed = "no", NEW aud \in Prompt, VoiceReport(aud) PROVE Parts'
<1>1. Manage("START", "MEDIA", aud) \in Posted
  BY ManagePosted DEF NameOrNone, Sound
<1>2. Grows
  BY <1>1, AppendGrows, OnePosted DEF VoiceReport, Grows, Parts
<1> QED
  BY <1>2, PostingKeeps DEF VoiceReport, Parts, MailInv

\* A prompt out of data says so.
LEMMA PromptEndsKeeps == ASSUME Parts, failed = "no", PromptEnds PROVE Parts'
<1>1. mailbox' = mailbox \o ClosePlay /\ ClosePlay \in Seq(Posted)
  BY RequestsPosted DEF PromptEnds
<1>2. Grows /\ UNCHANGED off
  BY <1>1, Zenon DEF Grows, PromptEnds
<1>3. mailbox' \in Seq(Waiting')
  BY <1>2, GrowsKeeps DEF Parts
<1>4. Closes'
  <2>1. /\ Range(mailbox') = Range(mailbox) \cup Range(ClosePlay)
    BY <1>1, RangeConcatenation, SeqMonotonic, PostedWaits DEF Parts, MailInv
  <2>2. Head(ClosePlay) \in Range(ClosePlay)
    <3>1. Head(ClosePlay) = ClosePlay[1] /\ 1 \in DOMAIN ClosePlay
      BY DEF ClosePlay
    <3> QED
      BY <3>1 DEF Range
  <2>3. ClosePlay' = ClosePlay
    BY Zenon DEF ClosePlay, Audio
  <2> QED
    BY <2>1, <2>2, <2>3 DEF Closes
<1>5. One(player', Overlooked')
  <2>1. /\ player' \in PlayerType
        /\ player'.run = player.run /\ player'.stream = player.stream
    BY DEF PromptEnds, Parts, One, PlayerType
  <2> QED
    BY <2>1, <1>2 DEF One, Parts, Overlooked
<1>6. MailInv' /\ media' \in MediaType /\ DevicesKnown' /\ InFront(audioList')
      /\ phone' \in PhoneType /\ link' \in LinkType
  BY <1>3 DEF PromptEnds, Parts, MailInv, DevicesKnown, Active
<1>7. EndWillClose'
  BY <1>4, Zenon DEF EndWillClose, Closes
<1> QED
  BY <1>5, <1>6, <1>7 DEF Parts

\* CLOSEALL is posted only once the power goes off.
LEMMA PowerOffKeeps == ASSUME Parts, failed = "no", PowerOff PROVE Parts'
<1>1. /\ Audio("CLOSE", "LINEIN", NoPrompt) \in Message
      /\ Audio("CLOSEALL", "SBC", NoPrompt) \in Message
      /\ Manage("START", "MEDIA", OtherPrompt) \in Message
  BY PathAssumption DEF Audio, Manage, Message, Stream, Sound
<1>2. off' \in {"CLOSING", "CLOSED", "OFF"} /\ \E m \in Message : mailbox' = Append(mailbox, m)
  BY <1>1, Zenon DEF PowerOff
<1>3. PICK m \in Message : mailbox' = Append(mailbox, m)
  BY <1>2
<1>4. Waiting' = Message /\ Waiting \subseteq Waiting'
  BY <1>2 DEF Waiting, Message, Posted, Sound, Stream
<1>5. mailbox \in Seq(Message)
  BY <1>4, SeqMonotonic DEF Parts, MailInv
<1>6. mailbox' = mailbox \o <<m>> /\ <<m>> \in Seq(Message)
  BY <1>3, <1>5, AppendIsConcat
<1>7. mailbox' \in Seq(Waiting') /\ Range(mailbox) \subseteq Range(mailbox')
  BY <1>4, <1>5, <1>6, GrownList
<1>8. One(player', Overlooked')
  BY <1>2 DEF PowerOff, Parts, One, Overlooked
<1>9. /\ MailInv' /\ media' \in MediaType /\ DevicesKnown' /\ InFront(audioList')
      /\ phone' \in PhoneType /\ link' \in LinkType
  BY <1>2, <1>7 DEF PowerOff, Parts, MailInv, DevicesKnown, Active
<1>10. EndWillClose'
  <2>1. UNCHANGED <<failed, player>>
    BY Zenon DEF PowerOff
  <2>2. ClosePlay' = ClosePlay
    BY Zenon DEF ClosePlay, Audio
  <2>3. Closes => Closes'
    BY <1>7, <2>2 DEF Closes
  <2> QED
    BY <2>1, <2>3, Zenon DEF EndWillClose, Closes, Parts
<1> QED
  BY <1>8, <1>9, <1>10 DEF Parts

LEMMA ManagerKeeps ==
  ASSUME Parts, failed = "no", ManagerHandle, UNCHANGED <<player, link, callback, off>>
  PROVE  Parts'
<1>1. MediaInv /\ TypeOK
  BY InParts DEF Parts, MediaInv, IInv
<1>2. Known(media')
  BY <1>1, ManagerKnown
<1>3. media' \in MediaType /\ DevicesKnown'
  BY <1>2 DEF Known, DevicesKnown, Active
<1>4. Taken \/ (failed' # "no" /\ UNCHANGED mailbox)
  BY <1>1, ManagerMail DEF ManagerHandle, Taken
<1>5. mailbox' \in Seq(Waiting')
  <2>1. CASE UNCHANGED mailbox
    BY <2>1, PostedWaits DEF Parts, MailInv
  <2> QED
    BY <1>4, <2>1, TakenKeeps DEF Parts
<1>6. InFront(audioList')
  <2>1. InFront(<<>>)
    BY DEF InFront
  <2> QED
    BY <2>1, ManagerList DEF Parts
<1>7. One(player', Overlooked')
  BY DEF Parts, Overlooked
<1>8. EndWillClose'
  <2>1. CASE failed' # "no"
    BY <2>1 DEF EndWillClose
  <2>2. CASE failed' = "no"
    <3>1. Head(mailbox) # Head(ClosePlay)
      BY DEF ManagerHandle, ClosePlay, Audio
    <3>2. Closes => Closes'
      BY <1>4, <2>2, <3>1, TakenKeeps DEF Parts
    <3> QED
      BY <3>2, Zenon DEF EndWillClose, Closes, Parts
  <2> QED
    BY <2>1, <2>2
<1>9. phone' \in PhoneType /\ link' \in LinkType /\ MailInv'
  BY <1>5 DEF ManagerHandle, Parts, MailInv
<1> QED
  BY <1>3, <1>6, <1>7, <1>8, <1>9 DEF Parts

\* The queue takes its message; what it does to the list and the player.
LEMMA AudioParts ==
  ASSUME Parts, AudioHandle, UNCHANGED off
  PROVE  /\ Taken /\ InFront(audioList') /\ One(player', Overlooked)
         /\ failed' = "no" /\ Over(player') => Over(player) /\ Head(mailbox) # Head(ClosePlay)
<1> DEFINE msg == Head(mailbox)
<1>1. msg \in Waiting /\ mailbox # <<>>
  BY HeadTailProperties DEF Parts, MailInv, AudioHandle
<1>2. /\ msg \in Message
      /\ msg.op = "CLOSEALL" => off # "ON"
  BY <1>1 DEF Waiting, Posted
<1>3. msg.mod = "AUDIO" => msg.about \in Stream /\ msg.aud \in Prompt \cup {NoPrompt}
  BY <1>2 DEF Message
<1>4. Tail(mailbox) = Tail(mailbox) \o <<>> /\ <<>> \in Seq(Posted)
  BY <1>1, HeadTailProperties, ConcatEmptySeq, EmptySeq DEF Parts, MailInv
<1>5. /\ InFront(audioList) /\ One(player, Overlooked) /\ Overlooked \in {{}, {"LINEIN"}}
      /\ InFront(<<>>)
  BY DEF Parts, Overlooked, InFront
<1>6. Head(ClosePlay) = Audio("CLOSE", "PLAYBACK", NoPrompt)
  BY DEF ClosePlay
<1> HIDE DEF msg
<1>7. ASSUME NEW id \in Stream, NEW aud \in Prompt \cup {NoPrompt}, HandleOpen(id, aud),
             msg.op = "OPEN"
      PROVE  /\ Taken /\ InFront(audioList') /\ One(player', Overlooked)
             /\ failed' = "no" /\ Over(player') => Over(player) /\ msg # Head(ClosePlay)
  <2>1. Entry(id, aud) \in EntryType
    BY DEF Entry, EntryType
  <2>2. Taken
    BY <1>1, <1>4, <1>7, Zenon DEF HandleOpen, Taken, Answered
  <2>3. audioList' = audioList \/ audioList' = ListAppend(audioList, Entry(id, aud))
    BY <1>7, Zenon DEF HandleOpen
  <2>4. player' = player \/ Opened(player, id)
    BY <1>7, Zenon DEF HandleOpen
  <2>5. InFront(audioList')
    BY <1>5, <2>1, <2>3, AppendFront
  <2>6. One(player', Overlooked) /\ (failed' = "no" /\ Over(player') => Over(player))
    BY <1>5, <2>4, OpenedOne
  <2>7. msg # Head(ClosePlay)
    BY <1>6, <1>7 DEF Audio
  <2> QED
    BY <2>2, <2>5, <2>6, <2>7
<1>8. ASSUME NEW id \in Stream, HandleClose(id), msg.op = "CLOSE", msg.about = id
      PROVE  /\ Taken /\ InFront(audioList') /\ One(player', Overlooked)
             /\ failed' = "no" /\ Over(player') => Over(player) /\ msg # Head(ClosePlay)
  <2> DEFINE next   == ListNext(audioList, id)
             closed == CloseStream(player, id)
  <2>1. LastPromptOver(id) \in Seq(Posted)
    BY ManagePosted, NoneIsName, OnePosted, <1>4 DEF LastPromptOver, Sound
  <2>2. Taken
    BY <1>1, <1>8, <2>1, Zenon DEF HandleClose, Taken, Answered
  <2>3. InFront(audioList')
    BY <1>5, <1>8, RemoveFront, Zenon DEF HandleClose
  <2>4. One(closed, Overlooked) /\ (Over(closed) => Over(player) /\ id # "PLAYBACK")
    BY <1>5, CloseOne
  <2>5. (next = <<>> /\ player' = closed) \/ (next # <<>> /\ Opened(closed, next[1].id))
    BY <1>8, Zenon DEF HandleClose
  <2>6. next # <<>> => next[1].id \in Stream
    BY <1>5, NextIsEntry DEF EntryType
  <2> HIDE DEF next, closed
  <2>7. next # <<>> => One(player', Overlooked) /\ (failed' = "no" => ~Over(player'))
    BY <1>5, <2>4, <2>5, <2>6, OpenedOne
  <2>8. msg = Head(ClosePlay) => id = "PLAYBACK"
    BY <1>6, <1>8 DEF Audio
  <2> QED
    BY <2>2, <2>3, <2>4, <2>5, <2>7, <2>8
<1>9. ASSUME HandleSetup, msg.op = "SETUP"
      PROVE  /\ Taken /\ InFront(audioList') /\ One(player', Overlooked)
             /\ failed' = "no" /\ Over(player') => Over(player) /\ msg # Head(ClosePlay)
  <2>1. Taken
    BY <1>1, <1>4, <1>9, Zenon DEF HandleSetup, Taken, Answered
  <2>2. audioList' = audioList /\ player' = player
    BY <1>9 DEF HandleSetup
  <2>3. msg # Head(ClosePlay)
    BY <1>6, <1>9 DEF Audio
  <2> QED
    BY <1>5, <2>1, <2>2, <2>3
<1>10. ASSUME HandleCloseAll, msg.op = "CLOSEALL"
       PROVE  /\ Taken /\ InFront(audioList') /\ One(player', Overlooked)
              /\ failed' = "no" /\ Over(player') => Over(player) /\ msg # Head(ClosePlay)
  <2>1. Taken
    BY <1>1, <1>4, <1>10, Zenon DEF HandleCloseAll, Taken, Answered
  <2>2. audioList' = <<>> /\ player' = CloseAllStreams(player)
    BY <1>10 DEF HandleCloseAll
  <2>3. Overlooked = {"LINEIN"}
    BY <1>2, <1>10 DEF Overlooked
  <2> QED
    BY <1>5, <2>1, <2>2, <2>3, CloseAllOne
<1>11. /\ msg.mod = "AUDIO"
       /\ \/ msg.op = "OPEN"  /\ HandleOpen(msg.about, msg.aud)
          \/ msg.op = "CLOSE" /\ HandleClose(msg.about)
          \/ msg.op = "SETUP" /\ HandleSetup
          \/ msg.op = "CLOSEALL" /\ HandleCloseAll
  BY Zenon DEF AudioHandle, msg
<1>12. /\ Taken /\ InFront(audioList') /\ One(player', Overlooked)
       /\ failed' = "no" /\ Over(player') => Over(player) /\ msg # Head(ClosePlay)
  <2>1. CASE msg.op = "OPEN"  /\ HandleOpen(msg.about, msg.aud)
    BY <1>3, <1>7, <1>11, <2>1
  <2>2. CASE msg.op = "CLOSE" /\ HandleClose(msg.about)
    BY <1>3, <1>8, <1>11, <2>2
  <2> QED
    BY <1>9, <1>10, <1>11, <2>1, <2>2
<1> QED
  BY <1>12 DEF msg

LEMMA AudioKeeps ==
  ASSUME Parts, failed = "no", AudioHandle, UNCHANGED <<link, callback, off>>
  PROVE  Parts'
<1>1. /\ Taken /\ InFront(audioList') /\ One(player', Overlooked)
      /\ failed' = "no" /\ Over(player') => Over(player) /\ Head(mailbox) # Head(ClosePlay)
  BY AudioParts
<1>2. /\ mailbox' \in Seq(Waiting')
      /\ Closes /\ Head(mailbox) # Head(ClosePlay) => Closes'
  BY <1>1, TakenKeeps DEF Parts
<1>3. EndWillClose'
  BY <1>1, <1>2, Zenon DEF EndWillClose, Closes, Over, Parts
<1>4. One(player', Overlooked')
  BY <1>1 DEF Overlooked
<1> QED
  BY <1>1, <1>2, <1>3, <1>4 DEF AudioHandle, Parts, MailInv, DevicesKnown, Active

LEMMA InitParts == Init => Parts
<1> SUFFICES ASSUME Init PROVE Parts
  OBVIOUS
<1>1. media \in MediaType /\ DevicesKnown /\ phone \in PhoneType /\ link \in LinkType
  BY DEF Init, MediaOpened, MediaType, DevicesKnown, Active, PhoneType, Setup, LinkType, Sound
<1>2. MailInv /\ InFront(audioList)
  BY DEF Init, MailInv, InFront
<1>3. One(player, Overlooked)
  BY DEF Init, PlayerIdle, One, Overlooked, PlayerType
<1>4. EndWillClose
  BY DEF Init, PlayerIdle, EndWillClose
<1> QED
  BY <1>1, <1>2, <1>3, <1>4 DEF Parts

LEMMA NextParts == Parts /\ [Next]_vars => Parts'
<1> SUFFICES ASSUME Parts, [Next]_vars PROVE Parts'
  OBVIOUS
<1>1. CASE Next
  <2>1. failed = "no"
    BY <1>1 DEF Next
  <2>2. \/ PhoneActs \/ BtStep \/ (\E aud \in Prompt : VoiceReport(aud))
        \/ PromptEnds \/ PowerOff \/ AppThreadStep
    BY <1>1, Zenon DEF Next, PhoneActs
  <2>3. CASE AppThreadStep
    BY <2>1, <2>3, ManagerKeeps, AudioKeeps DEF AppThreadStep, AppThread
  <2> QED
    BY <2>1, <2>2, <2>3, PhoneKeeps, BtStepKeeps, ReportKeeps, PromptEndsKeeps, PowerOffKeeps
<1>2. CASE UNCHANGED vars
  <2>1. /\ MailInv' /\ media' \in MediaType /\ DevicesKnown' /\ InFront(audioList')
        /\ phone' \in PhoneType /\ link' \in LinkType /\ One(player', Overlooked')
    BY <1>2, PostedWaits DEF vars, Parts, MailInv, DevicesKnown, Active, Overlooked
  <2>2. EndWillClose'
    BY <1>2, Zenon DEF vars, Parts, EndWillClose, ClosePlay, Audio
  <2> QED
    BY <2>1, <2>2 DEF Parts
<1> QED
  BY <1>1, <1>2

LEMMA AlwaysIInv == Spec => []IInv
<1>1. Init => IInv
  BY InitParts, InParts
<1>2. IInv /\ [Next]_vars => IInv'
  <2>1. IInv' <=> Parts'
    BY InParts, PTL
  <2> QED
    BY <2>1, NextParts, InParts
<1> QED
  BY <1>1, <1>2, PTL DEF Spec

(* Type correctness: every message that waits is one its handler knows, and the
   list, the player and the manager's record keep their types, also when the
   list is cut at a place that is computed (app_audio_list_rmv_callback). *)
THEOREM TypeCorrect == Spec => []TypeOK
BY AlwaysIInv, PTL DEF IInv

(* Only prompts wait behind the front of the queue's list, whatever is opened and
   closed meanwhile, as app_audio_list_rmv_callback takes for granted. *)
THEOREM StreamAlwaysInFront == Spec => []StreamInFront
BY AlwaysIInv, PTL DEF IInv

(* One player runs, the one gStreamplayer names, for any prompts and in any
   environment; after the power goes off all but line-in. *)
THEOREM AlwaysOneStream == Spec => []OneStream
BY AlwaysIInv, PTL DEF IInv

(* A prompt that has run out of data has its CLOSE still in the mailbox: no
   prompt plays silence for ever because an earlier one left its flag. *)
THEOREM EndAlwaysCloses == Spec => []EndWillClose
BY AlwaysIInv, PTL DEF IInv

----------------------------------------------------------------------------
(* What is heard when all is settled, while the phone plays music and        *)
(* connects its audio, drops it or goes, and nobody calls or reports.  The   *)
(* manager decides from its own record and the queue acts later: what the    *)
(* messages that wait lead to is a run of the mailbox, from the stream that  *)
(* plays, the list and the manager's record, to an end that the wishes of    *)
(* the phone determine.                                                      *)

Unprompted == {"MUSIC", "SCO_ALONE", "HF_DROP", "POWER_OFF"}

\* What the callbacks post, and what the manager answers.
LinkMail   == {Manage(op, sound, NoPrompt) : op \in {"START", "STOP"}, sound \in {"SBC", "VOICE"}}
StreamMail == {Audio(op, id, NoPrompt) : op \in {"OPEN", "CLOSE"}, id \in {"SBC", "HFP"}}
                \cup {Audio("SETUP", "SBC", NoPrompt)}
QuietMail  == LinkMail \cup StreamMail

\* The stream that plays, the one in the list, the last requests for the sounds.
State(stream, listed, music, voice) ==
  [stream |-> stream, listed |-> listed, music |-> music, voice |-> voice]

\* What a message does to them.
After(m, q) ==
  CASE m.mod = "MANAGER" /\ m.about = "SBC"   -> [q EXCEPT !.music = m.op]
    [] m.mod = "MANAGER" /\ m.about = "VOICE" -> [q EXCEPT !.voice = m.op]
    [] m.mod = "AUDIO" /\ m.op = "OPEN"  -> [q EXCEPT !.stream = m.about, !.listed = m.about]
    [] m.mod = "AUDIO" /\ m.op = "CLOSE" ->
         [q EXCEPT !.stream = IF q.stream = m.about THEN "NONE" ELSE q.stream,
                   !.listed = "NONE"]
    [] OTHER -> q

\* The messages of s lead from q to e; h holds the states between them.
RunOf(s, q, e) ==
  \E h : /\ h[0] = q /\ h[Len(s)] = e
         /\ \A i \in 1..Len(s) : h[i] = After(s[i], h[i - 1])

Asked(b)  == IF b THEN "START" ELSE "STOP"
Listed(l) == IF l = <<>> THEN "NONE" ELSE l[1].id
Alone(id) == IF id = "NONE" THEN <<>> ELSE <<Entry(id, NoPrompt)>>

\* What a record of the manager calls for: the phone's audio before the music.
Wanted(m) == IF "VOICE" \in m.active THEN "VOICE" ELSE IF "SBC" \in m.active THEN "SBC" ELSE "NONE"
StreamFor(m) == IF "VOICE" \in m.active THEN "HFP" ELSE IF "SBC" \in m.active THEN "SBC" ELSE "NONE"

Now(p, l, m) == State(p.stream, Listed(l), Asked("SBC" \in m.active), Asked("VOICE" \in m.active))
Heard(m, music, voice) == State(StreamFor(m), StreamFor(m), music, voice)

\* The callbacks, before and after their message is posted.
Steps == {<<>>, <<SetSetup("NONE")>>, <<SetCall(FALSE), SetSetup("NONE")>>}
Posts(m) == {<<Post(m)>>, <<Post(m), SetCall(FALSE), SetSetup("NONE")>>}

\* Once the message of the callback is posted too, the run ends with what the
\* phone has connected.
WillBeHeard ==
  \E music, voice :
    /\ RunOf(mailbox, Now(player, audioList, media), Heard(media, music, voice))
    /\ \/ /\ callback \in Steps
          /\ music = Asked(link.music) /\ voice = Asked(link.sco)
       \/ \E m \in LinkMail :
            /\ callback \in Posts(m)
            /\ After(m, Heard(media, music, voice))
                 = Heard(media, Asked(link.music), Asked(link.sco))

QuietParts ==
  /\ mailbox \in Seq(QuietMail)
  /\ phone = [call |-> FALSE, setup |-> "NONE"]
  /\ audioList = Alone(Listed(audioList))
  /\ Listed(audioList) \in {"NONE", "SBC", "HFP"} /\ player.stream \in {"NONE", "SBC", "HFP"}
  /\ "MEDIA" \notin media.active /\ media.current = Wanted(media)
  /\ WillBeHeard

QuietInv ==
  /\ happens \subseteq Unprompted
  /\ failed = "no" /\ off = "ON" => QuietParts

(* Runs. *)

LEMMA RunOfNone == ASSUME NEW q PROVE RunOf(<<>>, q, q)
<1> DEFINE h == [i \in {0} |-> q]
<1>1. h[0] = q /\ Len(<<>>) = 0 /\ 1..0 = {}
  OBVIOUS
<1> HIDE DEF h
<1> QED
  BY <1>1 DEF RunOf

LEMMA RunIsOver == ASSUME NEW q, NEW e, RunOf(<<>>, q, e) PROVE q = e
<1>1. Len(<<>>) = 0
  OBVIOUS
<1> QED
  BY <1>1 DEF RunOf

LEMMA RunOfOne == ASSUME NEW m, NEW q PROVE RunOf(<<m>>, q, After(m, q))
<1> DEFINE e == After(m, q)
           h == [i \in {0, 1} |-> IF i = 0 THEN q ELSE e]
<1>1. Len(<<m>>) = 1 /\ <<m>>[1] = m /\ 1..1 = {1} /\ 1 - 1 = 0
  OBVIOUS
<1>2. h[0] = q /\ h[1] = e
  OBVIOUS
<1> HIDE DEF h
<1> QED
  BY <1>1, <1>2 DEF RunOf, e

LEMMA RunOfTail ==
  ASSUME NEW S, NEW s \in Seq(S), s # <<>>, NEW q, NEW e, RunOf(s, q, e)
  PROVE  RunOf(Tail(s), After(Head(s), q), e)
<1>1. PICK h : /\ h[0] = q /\ h[Len(s)] = e
               /\ \A i \in 1..Len(s) : h[i] = After(s[i], h[i - 1])
  BY DEF RunOf
<1>2. /\ Len(s) \in Nat /\ Len(s) > 0 /\ Len(Tail(s)) = Len(s) - 1 /\ Head(s) = s[1]
      /\ \A i \in 1..Len(Tail(s)) : Tail(s)[i] = s[i + 1]
  BY HeadTailProperties, LenProperties, EmptySeq
<1> DEFINE n == Len(s)
           t == Tail(s)
           g == [i \in 0..(n - 1) |-> h[i + 1]]
<1>3. g[0] = After(Head(s), q) /\ g[n - 1] = e
  <2>1. g[0] = h[1] /\ g[n - 1] = h[n]
    BY <1>2
  <2>2. 1 \in 1..n /\ 1 - 1 = 0
    BY <1>2
  <2> QED
    BY <1>1, <1>2, <2>1, <2>2
<1>4. ASSUME NEW i \in 1..(n - 1) PROVE g[i] = After(t[i], g[i - 1])
  <2>1. g[i] = h[i + 1] /\ g[i - 1] = h[i] /\ i + 1 \in 1..n /\ (i + 1) - 1 = i
    BY <1>2
  <2>2. h[i + 1] = After(s[i + 1], h[(i + 1) - 1])
    BY <1>1, <2>1
  <2> QED
    BY <1>2, <2>1, <2>2
<1> HIDE DEF g
<1> QED
  BY <1>2, <1>3, <1>4 DEF RunOf

LEMMA RunsJoin ==
  ASSUME NEW S, NEW s \in Seq(S), NEW t \in Seq(S), NEW p, NEW q, NEW e,
         RunOf(s, p, q), RunOf(t, q, e)
  PROVE  RunOf(s \o t, p, e)
<1>1. PICK h : /\ h[0] = p /\ h[Len(s)] = q
               /\ \A i \in 1..Len(s) : h[i] = After(s[i], h[i - 1])
  BY DEF RunOf
<1>2. PICK k : /\ k[0] = q /\ k[Len(t)] = e
               /\ \A i \in 1..Len(t) : k[i] = After(t[i], k[i - 1])
  BY DEF RunOf
<1> DEFINE a == Len(s)
           b == Len(t)
           r == s \o t
           g == [i \in 0..(a + b) |-> IF i <= a THEN h[i] ELSE k[i - a]]
<1>3. /\ a \in Nat /\ b \in Nat /\ Len(r) = a + b
      /\ \A i \in 1..(a + b) : r[i] = IF i <= a THEN s[i] ELSE t[i - a]
  BY ConcatProperties, LenProperties
<1> HIDE DEF a, b, r
<1>4. \A i \in 0..(a + b) : g[i] = IF i <= a THEN h[i] ELSE k[i - a]
  OBVIOUS
<1> HIDE DEF g
<1>5. g[0] = p
  BY <1>1, <1>3, <1>4
<1>6. g[a + b] = e
  <2>1. CASE b = 0
    BY <1>1, <1>2, <1>3, <1>4, <2>1 DEF a, b
  <2>2. CASE b > 0
    <3>1. a + b \in 0..(a + b) /\ ~(a + b <= a) /\ (a + b) - a = b
      BY <1>3, <2>2
    <3> QED
      BY <1>2, <1>4, <3>1 DEF b
  <2> QED
    BY <1>3, <2>1, <2>2
<1>7. ASSUME NEW i \in 1..(a + b) PROVE g[i] = After(r[i], g[i - 1])
  <2>1. i - 1 \in 0..(a + b) /\ i \in 0..(a + b)
    BY <1>3
  <2>2. CASE i <= a
    <3>1. i \in 1..a /\ i - 1 <= a
      BY <1>3, <2>2
    <3>2. g[i] = h[i] /\ g[i - 1] = h[i - 1] /\ r[i] = s[i]
      BY <1>3, <1>4, <2>1, <2>2, <3>1
    <3> QED
      BY <1>1, <3>1, <3>2 DEF a
  <2>3. CASE i = a + 1
    <3>1. i - 1 = a /\ i - a = 1 /\ 1 \in 1..b /\ 1 - 1 = 0 /\ ~(i <= a) /\ a <= a
      BY <1>3, <2>3
    <3>2. g[i] = k[1] /\ g[i - 1] = h[a] /\ r[i] = t[1]
      BY <1>3, <1>4, <2>1, <3>1
    <3>3. k[1] = After(t[1], k[0])
      BY <1>2, <3>1 DEF b
    <3> QED
      BY <1>1, <1>2, <3>2, <3>3 DEF a
  <2>4. CASE i > a + 1
    <3>1. i - a \in 1..b /\ ~(i - 1 <= a) /\ ~(i <= a) /\ (i - 1) - a = (i - a) - 1
      BY <1>3, <2>4
    <3>2. g[i] = k[i - a] /\ g[i - 1] = k[(i - a) - 1] /\ r[i] = t[i - a]
      BY <1>3, <1>4, <2>1, <3>1
    <3>3. k[i - a] = After(t[i - a], k[(i - a) - 1])
      BY <1>2, <3>1 DEF b
    <3> QED
      BY <3>2, <3>3
  <2> QED
    BY <1>3, <2>2, <2>3, <2>4
<1> QED
  BY <1>3, <1>5, <1>6, <1>7 DEF RunOf, r

(* Messages. *)

LEMMA QuietMessages ==
  /\ \A op \in {"START", "STOP"}, sound \in {"SBC", "VOICE"} :
       Manage(op, sound, NoPrompt) \in LinkMail
  /\ \A op \in {"OPEN", "CLOSE"}, id \in {"SBC", "HFP"} : Audio(op, id, NoPrompt) \in StreamMail
  /\ Audio("SETUP", "SBC", NoPrompt) \in StreamMail
  /\ LinkMail \subseteq QuietMail /\ StreamMail \subseteq QuietMail
BY DEF LinkMail, StreamMail, QuietMail

LEMMA AfterEach ==
  /\ \A st, li, music, voice, op :
       After(Manage(op, "SBC", NoPrompt), State(st, li, music, voice)) = State(st, li, op, voice)
  /\ \A st, li, music, voice, op :
       After(Manage(op, "VOICE", NoPrompt), State(st, li, music, voice)) = State(st, li, music, op)
  /\ \A st, li, music, voice, id :
       After(Audio("OPEN", id, NoPrompt), State(st, li, music, voice)) = State(id, id, music, voice)
  /\ \A st, li, music, voice, id :
       After(Audio("CLOSE", id, NoPrompt), State(st, li, music, voice))
         = State(IF st = id THEN "NONE" ELSE st, "NONE", music, voice)
  /\ \A st, li, music, voice, id :
       After(Audio("SETUP", id, NoPrompt), State(st, li, music, voice))
         = State(st, li, music, voice)
<1> USE DEF After, State, Manage, Audio
<1>1. ASSUME NEW st, NEW li, NEW music, NEW voice, NEW op
      PROVE  After(Manage(op, "SBC", NoPrompt), State(st, li, music, voice))
               = State(st, li, op, voice)
  OBVIOUS
<1>2. ASSUME NEW st, NEW li, NEW music, NEW voice, NEW op
      PROVE  After(Manage(op, "VOICE", NoPrompt), State(st, li, music, voice))
               = State(st, li, music, op)
  OBVIOUS
<1>3. ASSUME NEW st, NEW li, NEW music, NEW voice, NEW id
      PROVE  After(Audio("OPEN", id, NoPrompt), State(st, li, music, voice))
               = State(id, id, music, voice)
  OBVIOUS
<1>4. ASSUME NEW st, NEW li, NEW music, NEW voice, NEW id
      PROVE  After(Audio("CLOSE", id, NoPrompt), State(st, li, music, voice))
               = State(IF st = id THEN "NONE" ELSE st, "NONE", music, voice)
  OBVIOUS
<1>5. ASSUME NEW st, NEW li, NEW music, NEW voice, NEW id
      PROVE  After(Audio("SETUP", id, NoPrompt), State(st, li, music, voice))
               = State(st, li, music, voice)
  OBVIOUS
<1> HIDE DEF After, State, Manage, Audio
<1> QED
  BY <1>1, <1>2, <1>3, <1>4, <1>5

LEMMA SameState ==
  ASSUME NEW a1, NEW a2, NEW a3, NEW a4, NEW b1, NEW b2, NEW b3, NEW b4,
         State(a1, a2, a3, a4) = State(b1, b2, b3, b4)
  PROVE  a1 = b1 /\ a2 = b2 /\ a3 = b3 /\ a4 = b4
BY DEF State

\* The requests r are quiet and lead from stream a to stream b.
Leads(r, a, b) ==
  /\ r \in Seq(QuietMail)
  /\ \A music, voice : RunOf(r, State(a, a, music, voice), State(b, b, music, voice))

LEMMA NothingLeads == ASSUME NEW a PROVE Leads(<<>>, a, a)
BY RunOfNone, EmptySeq DEF Leads

LEMMA LeadsJoin ==
  ASSUME NEW r, NEW s, NEW a, NEW b, NEW c, Leads(r, a, b), Leads(s, b, c)
  PROVE  Leads(r \o s, a, c)
<1>1. r \o s \in Seq(QuietMail)
  BY ConcatProperties DEF Leads
<1>2. ASSUME NEW music, NEW voice
      PROVE  RunOf(r \o s, State(a, a, music, voice), State(c, c, music, voice))
  BY RunsJoin DEF Leads
<1> QED
  BY <1>1, <1>2 DEF Leads

LEMMA OneLeads ==
  ASSUME NEW m \in QuietMail, NEW a, NEW b,
         \A music, voice : After(m, State(a, a, music, voice)) = State(b, b, music, voice)
  PROVE  Leads(<<m>>, a, b)
<1>1. ASSUME NEW music, NEW voice
      PROVE  RunOf(<<m>>, State(a, a, music, voice), State(b, b, music, voice))
  <2>1. RunOf(<<m>>, State(a, a, music, voice), After(m, State(a, a, music, voice)))
    BY RunOfOne
  <2> QED
    BY <2>1
<1>2. <<m>> \in Seq(QuietMail)
  OBVIOUS
<1> QED
  BY <1>1, <1>2 DEF Leads

LEMMA RequestsLead ==
  /\ Leads(CloseSbc, "SBC", "NONE") /\ Leads(CloseSbc, "NONE", "NONE")
  /\ Leads(CloseHfp, "HFP", "NONE") /\ Leads(CloseHfp, "NONE", "NONE")
  /\ \A a : Leads(OpenHfp, a, "HFP") /\ Leads(OpenSbc, a, "SBC")
<1>1. /\ Audio("OPEN", "SBC", NoPrompt) \in QuietMail
      /\ Audio("OPEN", "HFP", NoPrompt) \in QuietMail
      /\ Audio("CLOSE", "SBC", NoPrompt) \in QuietMail
      /\ Audio("CLOSE", "HFP", NoPrompt) \in QuietMail
      /\ Audio("SETUP", "SBC", NoPrompt) \in QuietMail
  BY QuietMessages
<1>2. ASSUME NEW id \in {"SBC", "HFP"}
      PROVE  /\ Leads(<<Audio("CLOSE", id, NoPrompt)>>, id, "NONE")
             /\ Leads(<<Audio("CLOSE", id, NoPrompt)>>, "NONE", "NONE")
             /\ \A a : Leads(<<Audio("OPEN", id, NoPrompt)>>, a, id)
  <2>1. ASSUME NEW a \in {id, "NONE"}, NEW music, NEW voice
        PROVE  After(Audio("CLOSE", id, NoPrompt), State(a, a, music, voice))
                 = State("NONE", "NONE", music, voice)
    BY AfterEach
  <2>2. ASSUME NEW a, NEW music, NEW voice
        PROVE  After(Audio("OPEN", id, NoPrompt), State(a, a, music, voice))
                 = State(id, id, music, voice)
    BY AfterEach
  <2>3. Audio("CLOSE", id, NoPrompt) \in QuietMail /\ Audio("OPEN", id, NoPrompt) \in QuietMail
    BY <1>1
  <2> QED
    BY <2>1, <2>2, <2>3, OneLeads
<1>3. ASSUME NEW a PROVE Leads(OpenSbc, a, "SBC")
  <2>1. Leads(<<Audio("SETUP", "SBC", NoPrompt)>>, a, a)
    <3>1. \A music, voice :
            After(Audio("SETUP", "SBC", NoPrompt), State(a, a, music, voice))
              = State(a, a, music, voice)
      BY AfterEach
    <3> QED
      BY <1>1, <3>1, OneLeads, Zenon
  <2>2. OpenSbc = <<Audio("SETUP", "SBC", NoPrompt)>> \o <<Audio("OPEN", "SBC", NoPrompt)>>
    BY DEF OpenSbc
  <2> QED
    BY <1>2, <2>1, <2>2, LeadsJoin, Zenon
<1> QED
  BY <1>2, <1>3 DEF CloseSbc, CloseHfp, OpenHfp

\* The music reopened after a call's stream that may never have been opened.
LEMMA Reopens == ASSUME NEW a PROVE Leads(CloseHfp \o OpenSbc, a, "SBC")
<1> DEFINE close == Audio("CLOSE", "HFP", NoPrompt)
           setup == Audio("SETUP", "SBC", NoPrompt)
           open  == Audio("OPEN", "SBC", NoPrompt)
           b     == IF a = "HFP" THEN "NONE" ELSE a
<1>1. close \in QuietMail /\ setup \in QuietMail /\ open \in QuietMail
  BY QuietMessages
<1>2. ASSUME NEW music, NEW voice
      PROVE  /\ After(close, State(a, a, music, voice)) = State(b, "NONE", music, voice)
             /\ After(setup, State(b, "NONE", music, voice)) = State(b, "NONE", music, voice)
             /\ After(open, State(b, "NONE", music, voice)) = State("SBC", "SBC", music, voice)
  BY AfterEach
<1>3. CloseHfp = <<close>> /\ OpenSbc = <<setup>> \o <<open>>
  BY DEF CloseHfp, OpenSbc
<1> HIDE DEF close, setup, open, b
<1>4. <<close>> \in Seq(QuietMail) /\ <<setup>> \in Seq(QuietMail) /\ <<open>> \in Seq(QuietMail)
  BY <1>1
<1>5. <<setup>> \o <<open>> \in Seq(QuietMail)
  BY <1>4, ConcatProperties
<1>6. <<close>> \o (<<setup>> \o <<open>>) \in Seq(QuietMail)
  BY <1>4, <1>5, ConcatProperties
<1>7. ASSUME NEW music, NEW voice
      PROVE  RunOf(<<close>> \o (<<setup>> \o <<open>>),
                   State(a, a, music, voice), State("SBC", "SBC", music, voice))
  <2> DEFINE p == State(a, a, music, voice)
             q == State(b, "NONE", music, voice)
             e == State("SBC", "SBC", music, voice)
  <2>1. /\ RunOf(<<close>>, p, After(close, p))
        /\ RunOf(<<setup>>, q, After(setup, q))
        /\ RunOf(<<open>>, q, After(open, q))
    BY RunOfOne, Zenon
  <2>2. RunOf(<<close>>, p, q) /\ RunOf(<<setup>>, q, q) /\ RunOf(<<open>>, q, e)
    BY <1>2, <2>1, Zenon
  <2> HIDE DEF p, q, e
  <2>3. RunOf(<<setup>> \o <<open>>, q, e)
    BY <1>4, <2>2, RunsJoin
  <2>4. RunOf(<<close>> \o (<<setup>> \o <<open>>), p, e)
    BY <1>4, <1>5, <2>2, <2>3, RunsJoin
  <2> QED
    BY <2>4 DEF p, e
<1> QED
  BY <1>3, <1>6, <1>7 DEF Leads

(* The manager. *)

\* The manager's decision: what was wanted before leads to what is wanted now.
Settles(m) ==
  \E r : /\ mailbox' = Tail(mailbox) \o r
         /\ Leads(r, StreamFor(media), StreamFor(m))
         /\ media' = m /\ m.current = Wanted(m)
         /\ UNCHANGED <<audioList, failed>>

Idle == /\ media \in MediaType /\ DevicesKnown
        /\ "MEDIA" \notin media.active /\ media.current = Wanted(media)
        /\ phone = [call |-> FALSE, setup |-> "NONE"]

\* A sound asked for and one no longer asked for.
LEMMA MusicAsked ==
  ASSUME Idle, StartSbc
  PROVE  \E m : Settles(m) /\ m.active = media.active \cup {"SBC"}
<1> DEFINE m == [Started("SBC") EXCEPT !.sbc = TRUE]
           p == Playing(m, "SBC")
<1>1. /\ m.active = media.active \cup {"SBC"} /\ m.current = media.current
      /\ p.active = media.active \cup {"SBC"} /\ p.current = "SBC"
  BY DEF Started, Playing, Idle, MediaType
<1>2. IF "VOICE" \in media.active THEN Decide(m, <<>>) ELSE Decide(p, OpenSbc)
  BY DEF StartSbc, Active, Idle
<1>3. UNCHANGED audioList
  BY Zenon DEF StartSbc
<1> HIDE DEF m, p
<1>4. CASE "VOICE" \in media.active
  <2>1. m.current = Wanted(m) /\ StreamFor(m) = "HFP" /\ StreamFor(media) = "HFP"
    BY <1>1, <1>4 DEF Wanted, StreamFor, Idle
  <2>2. Settles(m)
    BY <1>2, <1>3, <1>4, <2>1, NothingLeads, Zenon DEF Settles, Decide
  <2> QED
    BY <1>1, <2>2
<1>5. CASE "VOICE" \notin media.active
  <2>1. p.current = Wanted(p) /\ StreamFor(p) = "SBC"
    BY <1>1, <1>5 DEF Wanted, StreamFor, Idle
  <2>2. Settles(p)
    BY <1>2, <1>3, <1>5, <2>1, RequestsLead, Zenon DEF Settles, Decide
  <2> QED
    BY <1>1, <2>2
<1> QED
  BY <1>4, <1>5

LEMMA VoiceAsked ==
  ASSUME Idle, StartVoice
  PROVE  \E m : Settles(m) /\ m.active = media.active \cup {"VOICE"}
<1> DEFINE m == [Started("VOICE") EXCEPT !.sco = TRUE]
           p == Playing(m, "VOICE")
           close == IF media.current = "SBC" THEN CloseSbc ELSE <<>>
<1>1. /\ m.active = media.active \cup {"VOICE"} /\ m.current = media.current
      /\ p.active = media.active \cup {"VOICE"} /\ p.current = "VOICE"
  BY DEF Started, Playing, Idle, MediaType
<1>2. /\ UNCHANGED audioList
      /\ \/ "SBC" \in media.active /\ Decide(p, close \o OpenHfp)
         \/ "SBC" \notin media.active /\ media.current = "VOICE" /\ Decide(m, <<>>)
         \/ "SBC" \notin media.active /\ Decide(p, OpenHfp)
  BY Zenon DEF StartVoice, Active, Idle
<1> HIDE DEF m, p
<1>3. /\ StreamFor(m) = "HFP" /\ StreamFor(p) = "HFP" /\ p.current = Wanted(p)
      /\ media.current = "VOICE" => m.current = Wanted(m) /\ StreamFor(media) = "HFP"
  BY <1>1 DEF Wanted, StreamFor, Idle
<1>4. Leads(close \o OpenHfp, StreamFor(media), "HFP")
  <2>1. CASE media.current = "SBC"
    <3>1. StreamFor(media) = "SBC"
      BY <2>1 DEF Idle, Wanted, StreamFor
    <3> QED
      BY <2>1, <3>1, RequestsLead, LeadsJoin, Zenon
  <2>2. CASE media.current # "SBC"
    BY <2>2, RequestsLead, NothingLeads, LeadsJoin, Zenon
  <2> QED
    BY <2>1, <2>2
<1> HIDE DEF close
<1>5. Settles(p) \/ Settles(m)
  BY <1>2, <1>3, <1>4, RequestsLead, NothingLeads, Zenon DEF Settles, Decide
<1> QED
  BY <1>1, <1>5

LEMMA MusicRefused ==
  ASSUME Idle, StopSbc
  PROVE  \E m : Settles(m) /\ m.active = media.active \ {"SBC"}
<1> DEFINE m == [Stopped("SBC") EXCEPT !.sbc = FALSE]
           p == Playing(m, "NONE")
<1>1. /\ m.active = media.active \ {"SBC"} /\ m.current = media.current
      /\ p.active = media.active \ {"SBC"} /\ p.current = "NONE"
  BY DEF Stopped, Playing, Idle, MediaType
<1>2. /\ UNCHANGED audioList
      /\ IF media.current = "SBC" THEN Decide(p, CloseSbc) ELSE Decide(m, <<>>)
  BY DEF StopSbc, Idle, DevicesKnown, Active, Wanted
<1> HIDE DEF m, p
<1>3. CASE media.current = "SBC"
  <2>1. p.current = Wanted(p) /\ StreamFor(p) = "NONE" /\ StreamFor(media) = "SBC"
    BY <1>1, <1>3 DEF Wanted, StreamFor, Idle
  <2>2. Settles(p)
    BY <1>2, <1>3, <2>1, RequestsLead, Zenon DEF Settles, Decide
  <2> QED
    BY <1>1, <2>2
<1>4. CASE media.current # "SBC"
  <2>1. m.current = Wanted(m) /\ StreamFor(m) = StreamFor(media)
    BY <1>1, <1>4 DEF Wanted, StreamFor, Idle
  <2>2. Settles(m)
    BY <1>2, <1>4, <2>1, NothingLeads, Zenon DEF Settles, Decide
  <2> QED
    BY <1>1, <2>2
<1> QED
  BY <1>3, <1>4

LEMMA VoiceRefused ==
  ASSUME Idle, StopVoice
  PROVE  \E m : Settles(m) /\ m.active = media.active \ {"VOICE"}
<1> DEFINE m == [Stopped("VOICE") EXCEPT !.sco = FALSE]
           p(sound) == Playing(m, sound)
<1>1. \A sound : p(sound).active = media.active \ {"VOICE"} /\ p(sound).current = sound
  BY DEF Stopped, Playing, Idle, MediaType
<1>2. ~InCall
  BY DEF Idle, InCall
<1>3. /\ UNCHANGED audioList
      /\ \/ "SBC" \in media.active /\ Decide(p("SBC"), CloseHfp \o OpenSbc)
         \/ "SBC" \notin media.active /\ Decide(p("NONE"), CloseHfp)
  BY <1>2, Zenon DEF StopVoice, Active, Idle
<1> HIDE DEF m, p
<1>4. CASE "SBC" \in media.active /\ Decide(p("SBC"), CloseHfp \o OpenSbc)
  <2>1. p("SBC").current = Wanted(p("SBC")) /\ StreamFor(p("SBC")) = "SBC"
    BY <1>1, <1>4 DEF Wanted, StreamFor, Idle
  <2>2. Leads(CloseHfp \o OpenSbc, StreamFor(media), "SBC")
    BY Reopens
  <2>3. Settles(p("SBC"))
    BY <1>3, <1>4, <2>1, <2>2, Zenon DEF Settles, Decide
  <2> QED
    BY <1>1, <2>3
<1>5. CASE "SBC" \notin media.active /\ Decide(p("NONE"), CloseHfp)
  <2>1. /\ p("NONE").current = Wanted(p("NONE")) /\ StreamFor(p("NONE")) = "NONE"
        /\ StreamFor(media) = "HFP" \/ StreamFor(media) = "NONE"
    BY <1>1, <1>5 DEF Wanted, StreamFor, Idle
  <2>2. Settles(p("NONE"))
    BY <1>3, <1>5, <2>1, RequestsLead, Zenon DEF Settles, Decide
  <2> QED
    BY <1>1, <2>2
<1> QED
  BY <1>3, <1>4, <1>5

\* Every message of the phone that is handled does to the record what it says, and
\* the answer leads to the stream that is wanted then.
LEMMA ManagerSettles ==
  ASSUME Idle, mailbox \in Seq(QuietMail), ManagerHandle
  PROVE  \E m : /\ Settles(m)
               /\ "MEDIA" \notin m.active
               /\ Now(player, audioList, m) = After(Head(mailbox), Now(player, audioList, media))
<1> DEFINE msg == Head(mailbox)
           st  == player.stream
           li  == Listed(audioList)
<1>1. msg \in QuietMail
  BY HeadTailProperties DEF ManagerHandle
<1>2. PICK op \in {"START", "STOP"}, sound \in {"SBC", "VOICE"} :
        msg = Manage(op, sound, NoPrompt)
  BY <1>1 DEF QuietMail, LinkMail, StreamMail, Audio, Manage, ManagerHandle
<1>3. /\ msg.op = op /\ msg.about = sound
  BY <1>2 DEF Manage
<1>4. \/ op = "START" /\ sound = "SBC" /\ StartSbc
      \/ op = "START" /\ sound = "VOICE" /\ StartVoice
      \/ op = "STOP" /\ sound = "SBC" /\ StopSbc
      \/ op = "STOP" /\ sound = "VOICE" /\ StopVoice
  BY <1>3, Zenon DEF ManagerHandle, msg
<1> HIDE DEF msg
<1>5. PICK m : /\ Settles(m)
               /\ m.active = IF op = "START" THEN media.active \cup {sound}
                                            ELSE media.active \ {sound}
  BY <1>4, MusicAsked, VoiceAsked, MusicRefused, VoiceRefused
<1>6. "MEDIA" \notin m.active
  BY <1>5 DEF Idle
<1>7. /\ Asked("SBC" \in m.active) = IF sound = "SBC" THEN op ELSE Asked("SBC" \in media.active)
      /\ Asked("VOICE" \in m.active)
           = IF sound = "VOICE" THEN op ELSE Asked("VOICE" \in media.active)
  BY <1>5 DEF Asked
<1>8. Now(player, audioList, m) = After(msg, Now(player, audioList, media))
  <2>1. CASE sound = "SBC"
    BY <1>2, <1>7, <2>1, AfterEach DEF Now
  <2>2. CASE sound = "VOICE"
    BY <1>2, <1>7, <2>2, AfterEach DEF Now
  <2> QED
    BY <2>1, <2>2
<1> QED
  BY <1>5, <1>6, <1>8 DEF msg

(* The queue. *)

LEMMA QueueFollows ==
  ASSUME audioList = Alone(Listed(audioList)), Listed(audioList) \in {"NONE", "SBC", "HFP"},
         player.stream \in {"NONE", "SBC", "HFP"}, mailbox \in Seq(QuietMail),
         AudioHandle, failed' = "no"
  PROVE  /\ mailbox' = Tail(mailbox)
         /\ audioList' = Alone(Listed(audioList'))
         /\ Listed(audioList') \in {"NONE", "SBC", "HFP"}
         /\ player'.stream \in {"NONE", "SBC", "HFP"}
         /\ Now(player', audioList', media) = After(Head(mailbox), Now(player, audioList, media))
<1> DEFINE msg == Head(mailbox)
           st  == player.stream
           li  == Listed(audioList)
           music == Asked("SBC" \in media.active)
           voice == Asked("VOICE" \in media.active)
<1>1. msg \in QuietMail /\ Tail(mailbox) \in Seq(QuietMail)
  BY HeadTailProperties DEF AudioHandle
<1>2. \A id \in {"SBC", "HFP"} : Alone(id) = <<Entry(id, NoPrompt)>> /\ Listed(Alone(id)) = id
  BY DEF Alone, Listed, Entry
<1>3. Alone("NONE") = <<>> /\ Listed(<<>>) = "NONE"
  BY DEF Alone, Listed
<1>4. /\ msg.mod = "AUDIO"
      /\ \/ msg.op = "OPEN"  /\ HandleOpen(msg.about, msg.aud)
         \/ msg.op = "CLOSE" /\ HandleClose(msg.about)
         \/ msg.op = "SETUP" /\ HandleSetup
         \/ msg.op = "CLOSEALL" /\ HandleCloseAll
  BY Zenon DEF AudioHandle, msg
<1> HIDE DEF msg
<1>5. \/ \E op \in {"OPEN", "CLOSE"}, id \in {"SBC", "HFP"} : msg = Audio(op, id, NoPrompt)
      \/ msg = Audio("SETUP", "SBC", NoPrompt)
  BY <1>1, <1>4 DEF QuietMail, LinkMail, StreamMail, Manage
<1>6. ASSUME NEW id \in {"SBC", "HFP"}, msg = Audio("OPEN", id, NoPrompt)
      PROVE  /\ mailbox' = Tail(mailbox) /\ audioList' = Alone(id) /\ player'.stream = id
  <2>1. HandleOpen(id, NoPrompt)
    BY <1>4, <1>6 DEF Audio
  <2>2. ~IsPrompt(Entry(id, NoPrompt))
    BY DEF IsPrompt, Entry
  <2>3. /\ mailbox' = Tail(mailbox) /\ audioList' = ListAppend(audioList, Entry(id, NoPrompt))
        /\ Opened(player, id)
    BY <2>1, <2>2, Zenon DEF HandleOpen
  <2>4. audioList' = Alone(id)
    BY <1>2, <2>2, <2>3, Zenon DEF ListAppend
  <2>5. player' = OpenStream(player, id)
    BY <2>3 DEF Opened
  <2> QED
    BY <2>3, <2>4, <2>5 DEF OpenStream
<1>7. ASSUME NEW id \in {"SBC", "HFP"}, msg = Audio("CLOSE", id, NoPrompt)
      PROVE  /\ mailbox' = Tail(mailbox) /\ audioList' = <<>>
             /\ player'.stream = IF st = id THEN "NONE" ELSE st
  <2>1. HandleClose(id)
    BY <1>4, <1>7 DEF Audio
  <2>2. ListNext(audioList, id) = <<>> /\ LastPromptOver(id) = <<>>
    BY DEF ListNext, LastPromptOver
  <2>3. /\ mailbox' = Tail(mailbox) \o <<>> /\ audioList' = ListRemove(audioList, id)
        /\ player' = CloseStream(player, id)
    BY <2>1, <2>2, Zenon DEF HandleClose
  <2>4. mailbox' = Tail(mailbox)
    BY <1>1, <2>3, ConcatEmptySeq
  <2>5. audioList' = <<>>
    <3>1. CASE li = "NONE"
      <4>1. audioList = <<>>
        BY <1>3, <3>1
      <4>2. ~StreamExists(audioList)
        BY <4>1 DEF StreamExists
      <4> QED
        BY <2>3, <4>1, <4>2 DEF ListRemove
    <3>2. CASE li \in {"SBC", "HFP"}
      <4>1. audioList = <<Entry(li, NoPrompt)>>
        BY <1>2, <3>2
      <4>2. audioList[1].id = li /\ 1 \in DOMAIN audioList /\ Tail(audioList) = <<>>
        <5> HIDE DEF li
        <5> QED
          BY <4>1 DEF Entry
      <4>3. StreamExists(audioList)
        BY <3>2, <4>2 DEF StreamExists
      <4> QED
        BY <2>3, <4>2, <4>3 DEF ListRemove
    <3> QED
      BY <3>1, <3>2
  <2>6. player'.stream = IF st = id THEN "NONE" ELSE st
    BY <2>3 DEF CloseStream
  <2> QED
    BY <2>4, <2>5, <2>6
<1>8. ASSUME msg = Audio("SETUP", "SBC", NoPrompt)
      PROVE  mailbox' = Tail(mailbox) /\ audioList' = audioList /\ player' = player
  <2>1. HandleSetup
    BY <1>4, <1>8 DEF Audio
  <2> QED
    BY <2>1 DEF HandleSetup
<1>9. CASE \E id \in {"SBC", "HFP"} : msg = Audio("OPEN", id, NoPrompt)
  <2>1. PICK id \in {"SBC", "HFP"} : msg = Audio("OPEN", id, NoPrompt)
    BY <1>9
  <2>2. mailbox' = Tail(mailbox) /\ audioList' = Alone(id) /\ player'.stream = id
    BY <1>6, <2>1
  <2>3. Now(player', audioList', media) = State(id, id, music, voice)
    BY <1>2, <2>2 DEF Now
  <2>4. After(msg, Now(player, audioList, media)) = State(id, id, music, voice)
    BY <2>1, AfterEach DEF Now
  <2> QED
    BY <1>2, <2>2, <2>3, <2>4 DEF msg
<1>10. CASE \E id \in {"SBC", "HFP"} : msg = Audio("CLOSE", id, NoPrompt)
  <2>1. PICK id \in {"SBC", "HFP"} : msg = Audio("CLOSE", id, NoPrompt)
    BY <1>10
  <2> DEFINE left == IF st = id THEN "NONE" ELSE st
  <2>2. mailbox' = Tail(mailbox) /\ audioList' = <<>> /\ player'.stream = left
    BY <1>7, <2>1
  <2>3. Now(player', audioList', media) = State(left, "NONE", music, voice)
    BY <1>3, <2>2 DEF Now
  <2>4. After(msg, Now(player, audioList, media)) = State(left, "NONE", music, voice)
    BY <2>1, AfterEach DEF Now
  <2> QED
    BY <1>3, <2>2, <2>3, <2>4 DEF msg
<1>11. CASE msg = Audio("SETUP", "SBC", NoPrompt)
  <2>1. mailbox' = Tail(mailbox) /\ audioList' = audioList /\ player' = player
    BY <1>8, <1>11
  <2>2. After(msg, Now(player, audioList, media)) = Now(player, audioList, media)
    BY <1>11, AfterEach DEF Now
  <2> QED
    BY <2>1, <2>2 DEF msg
<1> QED
  BY <1>5, <1>9, <1>10, <1>11

(* The steps. *)

LEMMA SameHeard ==
  ASSUME NEW m, NEW music, NEW voice, NEW op
  PROVE  /\ After(Manage(op, "SBC", NoPrompt), Heard(m, music, voice)) = Heard(m, op, voice)
         /\ After(Manage(op, "VOICE", NoPrompt), Heard(m, music, voice)) = Heard(m, music, op)
BY AfterEach DEF Heard

\* A callback begins: its message will be what the phone has changed.
LEMMA PhoneQuiet ==
  ASSUME happens \subseteq Unprompted, QuietParts, PhoneActs, link \in LinkType
  PROVE  QuietParts'
<1>1. phone.call = FALSE /\ phone.setup = "NONE" /\ ~InCall
  BY DEF QuietParts, InCall
<1>2. /\ "CALL" \notin happens /\ "DIAL" \notin happens /\ "LINEIN" \notin happens
  BY DEF Unprompted
<1>3. ~CallActive /\ ~CallNone /\ ~Ring /\ \A s \in Setup : ~CallSetup(s)
  BY <1>1, <1>2 DEF CallActive, CallNone, Ring, CallSetup, Setup
<1>4. callback = <<>> /\ UNCHANGED <<mailbox, media, phone, audioList, player>>
  BY <1>3, Zenon DEF PhoneActs, AudioConnected, AudioDisconnected, HfDisconnected,
                     MusicStarted, MusicStopped, Callback
<1>5. RunOf(mailbox, Now(player, audioList, media),
            Heard(media, Asked(link.music), Asked(link.sco)))
  <2>1. \A m \in LinkMail : callback \notin Posts(m)
    BY <1>4 DEF Posts
  <2> QED
    BY <2>1 DEF QuietParts, WillBeHeard
<1>6. \E op \in {"START", "STOP"} :
        \/ /\ callback' \in Posts(Manage(op, "SBC", NoPrompt))
           /\ op = Asked(link'.music) /\ link'.sco = link.sco
        \/ /\ callback' \in Posts(Manage(op, "VOICE", NoPrompt))
           /\ op = Asked(link'.sco) /\ link'.music = link.music
  <2>1. CASE AudioConnected
    BY <2>1 DEF AudioConnected, Callback, Posts, Asked, LinkType
  <2>2. CASE AudioDisconnected
    BY <2>2 DEF AudioDisconnected, Callback, Posts, Asked, LinkType
  <2>3. CASE HfDisconnected
    BY <2>3 DEF HfDisconnected, Callback, Posts, Asked, LinkType
  <2>4. CASE MusicStarted
    BY <1>2, <2>4 DEF MusicStarted, Callback, Posts, Asked, LinkType
  <2>5. CASE MusicStopped
    BY <1>2, <2>5 DEF MusicStopped, Callback, Posts, Asked, LinkType
  <2> QED
    BY <1>3, <2>1, <2>2, <2>3, <2>4, <2>5 DEF PhoneActs
<1>7. \E m \in LinkMail :
        /\ callback' \in Posts(m)
        /\ After(m, Heard(media, Asked(link.music), Asked(link.sco)))
             = Heard(media, Asked(link'.music), Asked(link'.sco))
  <2>1. PICK op \in {"START", "STOP"} :
          \/ /\ callback' \in Posts(Manage(op, "SBC", NoPrompt))
             /\ op = Asked(link'.music) /\ link'.sco = link.sco
          \/ /\ callback' \in Posts(Manage(op, "VOICE", NoPrompt))
             /\ op = Asked(link'.sco) /\ link'.music = link.music
    BY <1>6
  <2>2. /\ Manage(op, "SBC", NoPrompt) \in LinkMail
        /\ Manage(op, "VOICE", NoPrompt) \in LinkMail
    BY QuietMessages
  <2>3. CASE callback' \in Posts(Manage(op, "SBC", NoPrompt))
             /\ op = Asked(link'.music) /\ link'.sco = link.sco
    <3>1. After(Manage(op, "SBC", NoPrompt), Heard(media, Asked(link.music), Asked(link.sco)))
            = Heard(media, op, Asked(link.sco))
      BY SameHeard
    <3> QED
      BY <2>2, <2>3, <3>1, Zenon
  <2>4. CASE callback' \in Posts(Manage(op, "VOICE", NoPrompt))
             /\ op = Asked(link'.sco) /\ link'.music = link.music
    <3>1. After(Manage(op, "VOICE", NoPrompt), Heard(media, Asked(link.music), Asked(link.sco)))
            = Heard(media, Asked(link.music), op)
      BY SameHeard
    <3> QED
      BY <2>2, <2>4, <3>1, Zenon
  <2> QED
    BY <2>1, <2>3, <2>4
<1>8. WillBeHeard'
  BY <1>4, <1>5, <1>7, Zenon DEF WillBeHeard
<1> QED
  BY <1>4, <1>8 DEF QuietParts

LEMMA ShortLists ==
  \A a, b, c :
    /\ Head(<<a>>) = a /\ Tail(<<a>>) = <<>>
    /\ Head(<<a, b>>) = a /\ Tail(<<a, b>>) = <<b>>
    /\ Head(<<a, b, c>>) = a /\ Tail(<<a, b, c>>) = <<b, c>>
OBVIOUS

LEMMA StepsGoOn ==
  /\ \A s \in Steps : s # <<>> => /\ Tail(s) \in Steps
                                 /\ Head(s) \in {SetCall(FALSE), SetSetup("NONE")}
  /\ \A m : \A s \in Posts(m) : Tail(s) \in Steps /\ Head(s) = Post(m)
<1>1. ASSUME NEW s \in Steps, s # <<>>
      PROVE  Tail(s) \in Steps /\ Head(s) \in {SetCall(FALSE), SetSetup("NONE")}
  <2>1. s = <<SetSetup("NONE")>> \/ s = <<SetCall(FALSE), SetSetup("NONE")>>
    BY <1>1, Zenon DEF Steps
  <2> QED
    BY <2>1, ShortLists, Zenon DEF Steps
<1>2. ASSUME NEW m, NEW s \in Posts(m) PROVE Tail(s) \in Steps /\ Head(s) = Post(m)
  <2>1. s = <<Post(m)>> \/ s = <<Post(m), SetCall(FALSE), SetSetup("NONE")>>
    BY <1>2, Zenon DEF Posts
  <2>2. <<>> \in Steps /\ <<SetCall(FALSE), SetSetup("NONE")>> \in Steps
    BY Zenon DEF Steps
  <2>3. CASE s = <<Post(m)>>
    BY <2>2, <2>3, ShortLists
  <2>4. CASE s = <<Post(m), SetCall(FALSE), SetSetup("NONE")>>
    BY <2>2, <2>4, ShortLists
  <2> QED
    BY <2>1, <2>3, <2>4
<1> QED
  BY <1>1, <1>2

\* The message of the callback is posted, or one of its last steps is run.
LEMMA BtStepQuiet == ASSUME QuietParts, BtStep, off = "ON" PROVE QuietParts'
<1>1. /\ callback # <<>> /\ callback' = Tail(callback)
      /\ UNCHANGED <<media, audioList, player, link>>
  BY Zenon DEF BtStep
<1>2. PICK music, voice :
        /\ RunOf(mailbox, Now(player, audioList, media), Heard(media, music, voice))
        /\ \/ /\ callback \in Steps
              /\ music = Asked(link.music) /\ voice = Asked(link.sco)
           \/ \E m \in LinkMail :
                /\ callback \in Posts(m)
                /\ After(m, Heard(media, music, voice))
                     = Heard(media, Asked(link.music), Asked(link.sco))
  BY DEF QuietParts, WillBeHeard
<1>3. CASE callback \in Steps /\ music = Asked(link.music) /\ voice = Asked(link.sco)
  <2>1. callback' \in Steps
    BY <1>1, <1>3, StepsGoOn
  <2>2. Head(callback) \in {SetCall(FALSE), SetSetup("NONE")}
    BY <1>1, <1>3, StepsGoOn
  <2>3. mailbox' = mailbox /\ phone' = phone
    BY <2>2 DEF BtStep, SetCall, SetSetup, QuietParts
  <2>4. WillBeHeard'
    BY <1>1, <1>2, <1>3, <2>1, <2>3, Zenon DEF WillBeHeard
  <2> QED
    BY <1>1, <2>3, <2>4 DEF QuietParts
<1>4. ASSUME NEW m \in LinkMail, callback \in Posts(m),
             After(m, Heard(media, music, voice))
               = Heard(media, Asked(link.music), Asked(link.sco))
      PROVE  QuietParts'
  <2>1. callback' \in Steps /\ Head(callback) = Post(m)
    BY <1>1, <1>4, StepsGoOn
  <2>2. mailbox' = Append(mailbox, m) /\ phone' = phone
    BY <2>1 DEF BtStep, Post
  <2>3. m \in QuietMail /\ mailbox \in Seq(QuietMail) /\ <<m>> \in Seq(QuietMail)
    BY QuietMessages DEF QuietParts
  <2>4. mailbox' = mailbox \o <<m>> /\ mailbox' \in Seq(QuietMail)
    BY <2>2, <2>3, AppendIsConcat, ConcatProperties
  <2>5. RunOf(<<m>>, Heard(media, music, voice), Heard(media, Asked(link.music), Asked(link.sco)))
    BY <1>4, RunOfOne, Zenon
  <2>6. RunOf(mailbox', Now(player, audioList, media),
              Heard(media, Asked(link.music), Asked(link.sco)))
    BY <1>2, <2>3, <2>4, <2>5, RunsJoin
  <2>7. WillBeHeard'
    BY <1>1, <2>1, <2>6, Zenon DEF WillBeHeard
  <2> QED
    BY <1>1, <2>2, <2>4, <2>7 DEF QuietParts
<1> QED
  BY <1>2, <1>3, <1>4

\* The manager takes a message and answers.
LEMMA ManagerQuiet ==
  ASSUME QuietParts, media \in MediaType, DevicesKnown, ManagerHandle,
         UNCHANGED <<player, link, callback>>
  PROVE  QuietParts'
<1>1. Idle /\ mailbox \in Seq(QuietMail) /\ mailbox # <<>> /\ UNCHANGED phone
  BY Zenon DEF Idle, QuietParts, ManagerHandle
<1>2. PICK m : /\ Settles(m)
               /\ "MEDIA" \notin m.active
               /\ Now(player, audioList, m) = After(Head(mailbox), Now(player, audioList, media))
  BY <1>1, ManagerSettles
<1>3. PICK r : /\ mailbox' = Tail(mailbox) \o r
               /\ Leads(r, StreamFor(media), StreamFor(m))
               /\ media' = m /\ m.current = Wanted(m)
               /\ UNCHANGED <<audioList, failed>>
  BY <1>2, Zenon DEF Settles
<1>4. Tail(mailbox) \in Seq(QuietMail) /\ r \in Seq(QuietMail)
  BY <1>1, <1>3, HeadTailProperties DEF Leads
<1>5. mailbox' \in Seq(QuietMail)
  BY <1>3, <1>4, ConcatProperties
<1>6. ASSUME NEW music, NEW voice,
             RunOf(mailbox, Now(player, audioList, media), Heard(media, music, voice))
      PROVE  RunOf(mailbox', Now(player', audioList', media'), Heard(media', music, voice))
  <2>1. RunOf(Tail(mailbox), Now(player, audioList, m), Heard(media, music, voice))
    BY <1>1, <1>2, <1>6, RunOfTail
  <2>2. RunOf(r, Heard(media, music, voice), Heard(m, music, voice))
    BY <1>3 DEF Leads, Heard
  <2>3. RunOf(Tail(mailbox) \o r, Now(player, audioList, m), Heard(m, music, voice))
    BY <1>4, <2>1, <2>2, RunsJoin
  <2> QED
    BY <1>3, <2>3
<1>7. WillBeHeard'
  <2>1. PICK music, voice :
          /\ RunOf(mailbox, Now(player, audioList, media), Heard(media, music, voice))
          /\ \/ /\ callback \in Steps
                /\ music = Asked(link.music) /\ voice = Asked(link.sco)
             \/ \E n \in LinkMail :
                  /\ callback \in Posts(n)
                  /\ After(n, Heard(media, music, voice))
                       = Heard(media, Asked(link.music), Asked(link.sco))
    BY DEF QuietParts, WillBeHeard
  <2>2. \A n \in LinkMail :
          After(n, Heard(media, music, voice)) = Heard(media, Asked(link.music), Asked(link.sco))
          => After(n, Heard(m, music, voice)) = Heard(m, Asked(link.music), Asked(link.sco))
    <3> SUFFICES ASSUME NEW n \in LinkMail,
                        After(n, Heard(media, music, voice))
                          = Heard(media, Asked(link.music), Asked(link.sco))
                 PROVE  After(n, Heard(m, music, voice))
                          = Heard(m, Asked(link.music), Asked(link.sco))
      OBVIOUS
    <3>1. PICK op \in {"START", "STOP"}, sound \in {"SBC", "VOICE"} :
            n = Manage(op, sound, NoPrompt)
      BY DEF LinkMail
    <3>2. CASE sound = "SBC"
      <4>1. Heard(media, op, voice) = Heard(media, Asked(link.music), Asked(link.sco))
        BY <3>1, <3>2, SameHeard
      <4>2. op = Asked(link.music) /\ voice = Asked(link.sco)
        BY <4>1, SameState DEF Heard
      <4> QED
        BY <3>1, <3>2, <4>2, SameHeard
    <3>3. CASE sound = "VOICE"
      <4>1. Heard(media, music, op) = Heard(media, Asked(link.music), Asked(link.sco))
        BY <3>1, <3>3, SameHeard
      <4>2. music = Asked(link.music) /\ op = Asked(link.sco)
        BY <4>1, SameState DEF Heard
      <4> QED
        BY <3>1, <3>3, <4>2, SameHeard
    <3> QED
      BY <3>2, <3>3
  <2>3. RunOf(mailbox', Now(player', audioList', media'), Heard(media', music, voice))
    BY <1>6, <2>1
  <2> QED
    BY <1>3, <2>1, <2>2, <2>3, Zenon DEF WillBeHeard
<1> QED
  BY <1>1, <1>2, <1>3, <1>5, <1>7 DEF QuietParts

\* The queue takes a message: the run goes on from what it has done.
LEMMA QueueQuiet ==
  ASSUME QuietParts, AudioHandle, failed' = "no", UNCHANGED <<link, callback>>
  PROVE  QuietParts'
<1>1. /\ mailbox' = Tail(mailbox)
      /\ audioList' = Alone(Listed(audioList'))
      /\ Listed(audioList') \in {"NONE", "SBC", "HFP"}
      /\ player'.stream \in {"NONE", "SBC", "HFP"}
      /\ Now(player', audioList', media) = After(Head(mailbox), Now(player, audioList, media))
  BY QueueFollows DEF QuietParts
<1>2. mailbox # <<>> /\ mailbox \in Seq(QuietMail) /\ UNCHANGED <<media, phone>>
  BY DEF AudioHandle, QuietParts
<1>3. mailbox' \in Seq(QuietMail)
  BY <1>1, <1>2, HeadTailProperties
<1>4. ASSUME NEW e, RunOf(mailbox, Now(player, audioList, media), e)
      PROVE  RunOf(mailbox', Now(player', audioList', media'), e)
  BY <1>1, <1>2, <1>4, RunOfTail
<1>5. WillBeHeard'
  BY <1>2, <1>4, Zenon DEF QuietParts, WillBeHeard
<1> QED
  BY <1>1, <1>2, <1>3, <1>5 DEF QuietParts

LEMMA InitQuiet == Init /\ happens \subseteq Unprompted => QuietInv
<1> SUFFICES ASSUME Init, happens \subseteq Unprompted PROVE QuietParts
  BY DEF QuietInv
<1>1. /\ Listed(audioList) = "NONE" /\ Alone("NONE") = <<>>
      /\ player.stream = "NONE" /\ Wanted(media) = "NONE" /\ StreamFor(media) = "NONE"
      /\ "SBC" \notin media.active /\ "VOICE" \notin media.active
      /\ ~link.music /\ ~link.sco
  BY DEF Init, Listed, Alone, PlayerIdle, MediaOpened, Wanted, StreamFor
<1>2. Now(player, audioList, media) = Heard(media, Asked(link.music), Asked(link.sco))
  BY <1>1 DEF Now, Heard, Asked
<1>3. WillBeHeard
  <2>1. callback \in Steps /\ mailbox = <<>>
    BY DEF Init, Steps
  <2> QED
    BY <1>2, <2>1, RunOfNone, Zenon DEF WillBeHeard
<1> QED
  BY <1>1, <1>3 DEF Init, QuietParts, MediaOpened

LEMMA NextQuiet == Parts /\ QuietInv /\ [Next]_vars => QuietInv'
<1> SUFFICES ASSUME Parts, QuietInv, [Next]_vars PROVE QuietInv'
  OBVIOUS
<1>1. happens \subseteq Unprompted
  BY DEF QuietInv
<1>2. CASE UNCHANGED vars
  BY <1>2, Zenon DEF vars, QuietInv, QuietParts, WillBeHeard
<1>3. CASE Next
  <2>1. /\ failed = "no"
        /\ \/ PhoneActs \/ BtStep \/ (\E aud \in Prompt : VoiceReport(aud))
           \/ PromptEnds \/ PowerOff \/ AppThreadStep
    BY <1>3, Zenon DEF Next, PhoneActs
  <2>2. UNCHANGED happens
    BY <2>1, Zenon DEF PhoneActs, CallActive, CallNone, CallSetup, Ring, AudioConnected,
       AudioDisconnected, HfDisconnected, MusicStarted, MusicStopped, Callback, BtStep,
       VoiceReport, PromptEnds, PowerOff, AppThreadStep
  <2>3. ASSUME failed' = "no", off' = "ON" PROVE QuietParts'
    <3>1. off = "ON" /\ ~PowerOff
      BY <2>1, <2>3 DEF PhoneActs, CallActive, CallNone, CallSetup, Ring, AudioConnected,
         AudioDisconnected, HfDisconnected, MusicStarted, MusicStopped, Callback, BtStep,
         VoiceReport, PromptEnds, PowerOff, AppThreadStep
    <3>2. QuietParts
      BY <2>1, <3>1 DEF QuietInv
    <3>3. ~ \E aud \in Prompt : VoiceReport(aud)
      BY <1>1 DEF VoiceReport, Unprompted
    <3>4. ~PromptEnds
      <4>1. player.run = {player.stream} \ {"NONE"}
        BY <3>1 DEF Parts, One, Overlooked
      <4> QED
        BY <3>2, <4>1 DEF PromptEnds, QuietParts
    <3>5. CASE PhoneActs
      BY <1>1, <3>2, <3>5, PhoneQuiet DEF Parts
    <3>6. CASE BtStep
      BY <3>1, <3>2, <3>6, BtStepQuiet
    <3>7. CASE AppThreadStep
      BY <2>3, <3>2, <3>7, ManagerQuiet, QueueQuiet DEF AppThreadStep, AppThread, Parts
    <3> QED
      BY <2>1, <3>1, <3>3, <3>4, <3>5, <3>6, <3>7
  <2> QED
    BY <1>1, <2>2, <2>3 DEF QuietInv
<1> QED
  BY <1>2, <1>3

LEMMA AlwaysQuiet == Spec /\ happens \subseteq Unprompted => []QuietInv
<1>1. Parts /\ QuietInv /\ [Next]_vars => QuietInv'
  BY NextQuiet
<1>2. Init /\ happens \subseteq Unprompted => QuietInv
  BY InitQuiet
<1>3. IInv => Parts
  BY InParts
<1> QED
  BY <1>1, <1>2, <1>3, AlwaysIInv, PTL DEF Spec

\* What is settled is what the run of the empty mailbox ends with.
LEMMA SettledIsHeard ==
  ASSUME QuietInv, Settled
  PROVE  /\ audioList = Alone(player.stream) /\ player.stream = StreamFor(media)
         /\ media.current = Wanted(media)
         /\ "SBC" \in media.active <=> link.music = TRUE
         /\ "VOICE" \in media.active <=> link.sco = TRUE
<1>1. QuietParts /\ mailbox = <<>> /\ callback = <<>>
  BY DEF QuietInv, Settled
<1>2. \A m \in LinkMail : callback \notin Posts(m)
  BY <1>1 DEF Posts
<1>3. RunOf(<<>>, Now(player, audioList, media),
            Heard(media, Asked(link.music), Asked(link.sco)))
  BY <1>1, <1>2 DEF QuietParts, WillBeHeard
<1>4. Now(player, audioList, media) = Heard(media, Asked(link.music), Asked(link.sco))
  BY <1>3, RunIsOver
<1>5. /\ player.stream = StreamFor(media) /\ Listed(audioList) = StreamFor(media)
      /\ Asked("SBC" \in media.active) = Asked(link.music)
      /\ Asked("VOICE" \in media.active) = Asked(link.sco)
  BY <1>4, SameState DEF Now, Heard
<1> QED
  BY <1>1, <1>5 DEF QuietParts, Asked

(* When all is settled the queue's list holds the stream that plays and nothing
   else, as long as nobody calls or reports: however the requests of the phone and
   the answers of the manager are mixed in the mailbox, with any backlog. *)
THEOREM QueueIsAlwaysHeard == Spec /\ happens \subseteq Unprompted => []QueueIsHeard
<1>1. QuietInv => QueueIsHeard
  BY SettledIsHeard DEF QueueIsHeard, Alone
<1> QED
  BY <1>1, AlwaysQuiet, PTL

(* ... curr_active_media names what plays, although the queue acts on messages
   that were sent before others it still had to handle ... *)
THEOREM CurrentIsAlwaysHeard == Spec /\ happens \subseteq Unprompted => []CurrentIsHeard
<1>1. QuietInv => CurrentIsHeard
  <2> SUFFICES ASSUME QuietInv, Settled
               PROVE  media.current
                        = [NONE |-> "NONE", SBC |-> "SBC", HFP |-> "VOICE"][player.stream]
    BY DEF CurrentIsHeard
  <2> QED
    BY SettledIsHeard DEF Wanted, StreamFor
<1> QED
  BY <1>1, AlwaysQuiet, PTL

(* ... the music plays if the phone plays some and its audio is not connected:
   no stop of a call's sound overtakes the start of the music ... *)
THEOREM MusicIsAlwaysHeard == Spec /\ happens \subseteq Unprompted => []MusicHeard
<1>1. QuietInv => MusicHeard
  BY SettledIsHeard DEF MusicHeard, StreamFor
<1> QED
  BY <1>1, AlwaysQuiet, PTL

(* ... and the phone's audio plays if it is connected, whatever was started and
   stopped before. *)
THEOREM VoiceIsAlwaysHeard == Spec /\ happens \subseteq Unprompted => []VoiceHeard
<1>1. QuietInv => VoiceHeard
  BY SettledIsHeard DEF VoiceHeard, StreamFor
<1> QED
  BY <1>1, AlwaysQuiet, PTL
=============================================================================
