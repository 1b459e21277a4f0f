---------------------------- MODULE MCAudioPath ----------------------------
(* AudioPath for TLC.  The prompts are model values; an environment names the *)
(* events that happen together.                                               *)
EXTENDS AudioPath

\* Everything the phone and the headset's threads do while it plays music.
Together == {"MUSIC", "CALL", "DIAL", "SCO_ALONE", "HF_DROP", "REPORT", "POWER_OFF"}
MCTogether == {Together}

\* Apart: music with prompts, music with the phone's audio, line-in with prompts.
MCApart == {{"MUSIC", "REPORT"},
            {"MUSIC", "SCO_ALONE", "HF_DROP", "POWER_OFF"},
            {"LINEIN", "REPORT", "POWER_OFF"}}

\* What the violations need.
MCPromptsAndAudio == {{"MUSIC", "SCO_ALONE", "REPORT"}}
=============================================================================
