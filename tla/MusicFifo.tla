----------------------------- MODULE MusicFifo ------------------------------
(***************************************************************************)
(* What the music queue promises: a packet is decoded when all that were   *)
(* stored before it are gone, as it was stored, and then leaves the queue  *)
(* once; the queue never holds more than it has room for and is only       *)
(* emptied as a whole when nothing is being decoded.                       *)
(***************************************************************************)
EXTENDS Naturals, Sequences

CONSTANTS Packets, None, Room

VARIABLES queue, frame

vars == <<queue, frame>>

Init == queue = <<>> /\ frame = None

Put(p) == Len(queue) < Room /\ queue' = Append(queue, p) /\ UNCHANGED frame
Look   == queue # <<>> /\ frame = None /\ frame' = Head(queue) /\ UNCHANGED queue
Take   == queue # <<>> /\ frame = Head(queue) /\ queue' = Tail(queue) /\ frame' = None
Reset  == frame = None /\ queue' = <<>> /\ UNCHANGED frame

Next == (\E p \in Packets : Put(p)) \/ Look \/ Take \/ Reset

Spec == Init /\ [][Next]_vars
=============================================================================
