---------------------------- MODULE RecordStore ----------------------------
(***************************************************************************)
(* What services/nvrecord promises its users: a table of paired devices,   *)
(* oldest first, and the environment, that can be saved.  What was saved   *)
(* comes back whole at the next power-on, in the order in which the        *)
(* devices were remembered, unless the power fails inside a save or the    *)
(* store was wiped; then everything is forgotten, never a part of it.      *)
(*                                                                         *)
(* The promise ends in two places.  The save at power-off does not wait    *)
(* for a change that is under way, and may save a damaged table; and in a  *)
(* session in which the store was wiped the table may be damaged at any    *)
(* time.  A damaged table stays so until it is wiped.                      *)
(***************************************************************************)
EXTENDS Naturals, Sequences, SequencesExt

CONSTANTS Device, Mode, NoEnv, DDB_RECORD_NUM, Nothing, Damaged

VARIABLES
  table, saved, saving, up,
  changing,  \* a device is about to be remembered or forgotten
  wiped      \* in this session

vars == <<table, saved, saving, up, changing, wiped>>

NoTable == [records |-> <<>>, env |-> NoEnv]

Known == {table.records[i].dev : i \in DOMAIN table.records}

Init == table = NoTable /\ saved = Nothing /\ ~saving /\ ~up /\ ~changing /\ ~wiped

\* An empty table is saved at once.
PowerOn ==
  /\ ~up /\ up'
  /\ table' = IF saved = Nothing THEN NoTable ELSE saved
  /\ saving' = (saved = Nothing)
  /\ UNCHANGED <<saved, changing, wiped>>

Working == up /\ ~saving /\ UNCHANGED <<saved, saving, up, wiped>>
Whole == table # Damaged

BeginChange == Working /\ ~changing /\ changing' /\ UNCHANGED table

Changes == Working /\ changing /\ ~changing'

\* The device becomes the youngest one, of at most DDB_RECORD_NUM.
Remember(d, active) ==
  /\ Changes /\ Whole
  /\ d \notin Known /\ Len(table.records) < DDB_RECORD_NUM
  /\ table' = [table EXCEPT !.records = Append(@, [dev |-> d, act |-> active])]

\* A device is forgotten; the order of the others does not change.
Forget ==
  /\ Changes /\ Whole
  /\ \E i \in DOMAIN table.records : table' = [table EXCEPT !.records = RemoveAt(@, i)]

ChangeDamaged == Changes /\ ~Whole /\ UNCHANGED table

Activate(d) ==
  /\ Working /\ Whole /\ UNCHANGED changing
  /\ table' = [table EXCEPT !.records =
                 [i \in DOMAIN @ |-> IF @[i].dev = d THEN [@[i] EXCEPT !.act = TRUE] ELSE @[i]]]

SetEnv(m) == Working /\ Whole /\ UNCHANGED changing /\ table' = [table EXCEPT !.env = m]

Damage == Working /\ wiped /\ UNCHANGED changing /\ table' = Damaged

\* Also with the last write after a wipe.
BeginSave ==
  /\ up /\ ~saving /\ saving' /\ saved' = Nothing
  /\ table' = table \/ (wiped /\ table' = Damaged)
  /\ UNCHANGED <<up, changing, wiped>>

\* A save waits for a change that is under way.
EndSave ==
  /\ saving /\ ~saving' /\ ~changing
  /\ saved' = table /\ UNCHANGED <<table, up, changing, wiped>>

\* The factory's rebuild starts again from an empty table.
Wipe ==
  /\ up /\ ~saving /\ saving' /\ ~changing
  /\ saved' = Nothing /\ table' = NoTable /\ wiped' /\ UNCHANGED <<up, changing>>

Off == up /\ ~up' /\ ~saving' /\ ~changing' /\ ~wiped' /\ table' = NoTable

\* Ordered or not: what is saved, or that nothing is, stays as it is.
PowerOff == Off /\ UNCHANGED saved

\* The save at power-off is the last thing that happens.  It alone does not wait.
LastSave == saving /\ Off /\ (saved' = table \/ (changing /\ saved' = Damaged))

Next ==
  \/ PowerOn \/ PowerOff \/ BeginSave \/ EndSave \/ LastSave \/ Wipe
  \/ BeginChange \/ ChangeDamaged
  \/ \E d \in Device : \/ \E a \in BOOLEAN : Remember(d, a)
                       \/ Activate(d)
  \/ Forget \/ Damage
  \/ \E m \in Mode : SetEnv(m)

Spec == Init /\ [][Next]_vars
=============================================================================
