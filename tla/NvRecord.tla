------------------------------ MODULE NvRecord ------------------------------
(***************************************************************************)
(* The paired-device records, services/nvrecord: a table in a RAM pool     *)
(* that is restored from one flash sector at power-on and written back     *)
(* when is_update says so.  The pool is saved byte for byte, with the heap *)
(* that manages it, under a CRC.                                           *)
(*                                                                         *)
(* Nothing locks the table against the flush.  The Bluetooth thread takes  *)
(* a record out of the list, or puts one into it, in many writes, and      *)
(* raises is_update after them; a timer's handler writes the environment;  *)
(* the idle thread flushes before deep sleep, so only when no other thread *)
(* is in the middle of something; and the main thread, raised to the       *)
(* highest priority by a shutdown, flushes as the last thing it does,      *)
(* whoever it preempts: what it saves may be a list of which some pointers *)
(* are changed and others are not yet.  The flush itself runs with         *)
(* interrupts off, and the power can fail anywhere in it.                  *)
(*                                                                         *)
(* The factory's rebuild makes the table anew and leaves the address of    *)
(* the environment as it was: what is written through it later may hit     *)
(* what has been allocated there since.                                    *)
(***************************************************************************)
EXTENDS Naturals, Sequences, SequencesExt

CONSTANTS
  Device,          \* Bluetooth addresses
  DDB_RECORD_NUM,  \* records kept
  Mode,            \* contents of the environment, struct nvrecord_env_t
  DefaultMode,     \* what nv_record_env_new puts there
  NoEnv,           \* no env_key in the table
  Erased,          \* the sector's contents fail the CRC check
  Damaged          \* a pool whose list or heap is not whole: anything, under a valid CRC

ASSUME RecordAssumption == DDB_RECORD_NUM \in Nat \ {0, 1}
ASSUME EnvAssumption == DefaultMode \in Mode /\ NoEnv \notin Mode

Record == [dev : Device, act : BOOLEAN]     \* act: hfp_act or a2dp_act
Table  == [records : Seq(Record), env : Mode \cup {NoEnv}]
Pool   == Table \cup {Damaged}

ASSUME DamagedAssumption == Damaged \notin Table /\ Erased \notin Pool

VARIABLES
  ram,        \* the table in usrdata_ddblist_pool
  is_update,  \* nv_record_config.is_update
  flash,      \* the user data sector
  envp,       \* nvrecord_env_p: "null", in the table ("live"), or from before the
              \* rebuild, to free memory ("stale") or something else ("overlaid")
  bt,         \* what the Bluetooth thread is doing, and with which record
  app,        \* whether a timer's handler wrote the environment and not the flag yet
  flushing,   \* who is between erase and write, with interrupts off
  phase       \* of the main thread

vars == <<ram, is_update, flash, envp, bt, app, flushing, phase>>

EmptyTable == [records |-> <<>>, env |-> NoEnv]
BtIdle   == [at |-> "idle"]
Dropping == [at |-> "dropping"]
BtWork   == [at : {"unlinking", "unlinked", "adding", "linking", "linked", "touching"},
             task : {"add", "evict", "delete", "drop", "touch"}, rec : Record]

TypeOK ==
  /\ ram \in Pool /\ is_update \in BOOLEAN /\ flash \in Pool \cup {Erased}
  /\ envp \in {"null", "live", "stale", "overlaid"}
  /\ bt \in {BtIdle, Dropping} \cup BtWork
  /\ app \in {"idle", "setting"}
  /\ flushing \in {"no", "open", "idle", "main"}
  /\ phase \in {"off", "opened", "engineer", "rebuilt", "running", "deinit"}

Init ==
  /\ ram = EmptyTable /\ is_update = FALSE
  /\ flash = Erased
  /\ envp = "null" /\ bt = BtIdle /\ app = "idle"
  /\ flushing = "no" /\ phase = "off"

Known == {ram.records[i].dev : i \in DOMAIN ram.records}
Place(d) == CHOOSE i \in DOMAIN ram.records : ram.records[i].dev = d
RecordOf(d) == ram.records[Place(d)]
Full == ram # Damaged /\ Len(ram.records) = DDB_RECORD_NUM

\* What is done to a damaged list leaves it damaged.
SetRecords(s) == ram' = IF ram = Damaged THEN Damaged ELSE [ram EXCEPT !.records = s]

Works(at, task, rec) == bt' = [at |-> at, task |-> task, rec |-> rec]

----------------------------------------------------------------------------
(* Power-on and the rebuild, in the main thread. *)

\* (mutant) the sector is taken as it is, CRC or not
RestoreUnchecked == ram' = flash /\ is_update' = FALSE /\ UNCHANGED flushing

\* nv_record_open: the sector's table, or an empty one that is saved at once.
Restore ==
  IF flash # Erased
    THEN ram' = flash /\ is_update' = FALSE /\ UNCHANGED flushing
    ELSE ram' = EmptyTable /\ is_update' = TRUE /\ flushing' = "open"

nv_record_open ==
  /\ phase = "off"
  /\ Restore
  /\ phase' = "opened"
  /\ UNCHANGED <<flash, envp, bt, app>>

\* nv_record_env_init, nv_record_env_new: the environment's place in the pool
\* is looked up, or made.  The boot mode then decides how the system goes on.
nv_record_env_init ==
  /\ phase = "opened" /\ flushing = "no"
  /\ envp' = "live"
  /\ IF ram = Damaged \/ ram.env # NoEnv
       THEN UNCHANGED <<ram, is_update>>
       ELSE ram' = [ram EXCEPT !.env = DefaultMode] /\ is_update' = TRUE
  /\ phase' \in {"running", "engineer"}
  /\ UNCHANGED <<flash, bt, app, flushing>>

\* (mutant) nvrec_init stays set, and nv_record_open does nothing
SectorClearKeepsTable ==
  /\ phase = "engineer" /\ bt = BtIdle
  /\ flash' = Erased
  /\ envp' = "stale" /\ phase' = "rebuilt"
  /\ UNCHANGED <<ram, is_update, flushing, bt, app>>

\* app_nvrecord_rebuild: nv_record_sector_clear makes nv_record_open start from
\* nothing; the environment's address is from before.  The Bluetooth thread is
\* up and has the higher priority.
SectorClear ==
  /\ phase = "engineer" /\ bt = BtIdle
  /\ flash' = Erased
  /\ ram' = EmptyTable /\ is_update' = TRUE /\ flushing' = "open"
  /\ envp' = "stale" /\ phase' = "rebuilt"
  /\ UNCHANGED <<bt, app>>

\* A write through nvrecord_env_p: nv_record_env_get refuses NULL only.
WritesEnv(m) ==
  /\ envp # "null"
  /\ ram' = IF ram = Damaged \/ envp = "overlaid" THEN Damaged
            ELSE IF envp = "live" THEN [ram EXCEPT !.env = m] ELSE ram

\* ... it writes TEST_PASS through that address and flushes.
RebuildDone ==
  /\ phase = "rebuilt" /\ flushing = "no" /\ bt = BtIdle
  /\ \E m \in Mode : WritesEnv(m)
  /\ is_update' = TRUE /\ flushing' = "main" /\ flash' = Erased
  /\ phase' = "running"
  /\ UNCHANGED <<envp, bt, app>>

----------------------------------------------------------------------------
(* nv_record_flash_flush.  Its check of is_update and int_lock are not      *)
(* separated by anything: no thread that is higher changes the table.       *)

Unlocked == flushing = "no" /\ phase \in {"running", "deinit"}
AllIdle  == bt = BtIdle /\ app = "idle"

\* (mutant) the low-power hook is never set
FlushEraseNoHook(who) ==
  /\ Unlocked /\ is_update
  /\ who = "main" /\ phase = "deinit"
  /\ flushing' = who /\ flash' = Erased
  /\ UNCHANGED <<ram, is_update, envp, bt, app, phase>>

FlushErase(who) ==
  /\ Unlocked /\ is_update
  /\ \/ who = "idle" /\ AllIdle
     \/ who = "main" /\ phase = "deinit"
  /\ flushing' = who /\ flash' = Erased
  /\ UNCHANGED <<ram, is_update, envp, bt, app, phase>>

\* What the pool holds while a change of the list is under way: some of its writes
\* are done, or none.
Images == IF bt.at \in {"unlinking", "linking"} THEN {ram, Damaged} ELSE {ram}

\* app_deinit's flush ends in PowerOff.
FlushWrite ==
  /\ flushing # "no" /\ ~(flushing = "main" /\ phase = "deinit")
  /\ flash' \in Images /\ is_update' = FALSE /\ flushing' = "no"
  /\ UNCHANGED <<ram, envp, bt, app, phase>>

----------------------------------------------------------------------------
(* The Bluetooth thread. *)

BtRuns == flushing = "no" /\ phase \in {"engineer", "rebuilt", "running", "deinit"}
BtStarts == BtRuns /\ bt = BtIdle /\ ram # Damaged

\* nv_record_ddbrec_add: a known device's record goes first, its profiles are
\* kept for the new record.
AddBegins(d) ==
  /\ BtStarts
  /\ IF d \in Known THEN Works("unlinking", "add", RecordOf(d))
                    ELSE Works("adding", "add", [dev |-> d, act |-> FALSE])
  /\ UNCHANGED <<ram, is_update, flash, envp, app, flushing, phase>>

\* ... in a full table the oldest record is deleted,
AddEvicts ==
  /\ BtRuns /\ bt.at = "adding"
  /\ Full
  /\ Works("unlinking", "evict", bt.rec)
  /\ UNCHANGED <<ram, is_update, flash, envp, app, flushing, phase>>

\* ... memory is taken for the new record, and nvrec_config_set_int begins to put
\* it into the list.  After a rebuild the memory may be the old environment's.
AddLinks ==
  /\ BtRuns /\ bt.at = "adding"
  /\ ~Full
  /\ Works("linking", "add", bt.rec)
  /\ envp' \in IF envp = "stale" THEN {"stale", "overlaid"} ELSE {envp}
  /\ UNCHANGED <<ram, is_update, flash, app, flushing, phase>>

\* (mutant) only the deletion of an old record marks the table
AddEndsUnmarked ==
  /\ BtRuns /\ bt.at = "linking"
  /\ SetRecords(Append(ram.records, bt.rec))
  /\ bt' = BtIdle
  /\ UNCHANGED <<is_update, flash, envp, app, flushing, phase>>

\* list_append_ext is done: the record is the last one.
AddEnds ==
  /\ BtRuns /\ bt.at = "linking"
  /\ SetRecords(Append(ram.records, bt.rec))
  /\ Works("linked", "add", bt.rec)
  /\ UNCHANGED <<is_update, flash, envp, app, flushing, phase>>

AddMarks ==
  /\ BtRuns /\ bt.at = "linked"
  /\ is_update' = TRUE /\ bt' = BtIdle
  /\ UNCHANGED <<ram, flash, envp, app, flushing, phase>>

\* The stack drops a link key.
nv_record_ddbrec_delete(d) ==
  /\ BtStarts /\ d \in Known
  /\ Works("unlinking", "delete", RecordOf(d))
  /\ UNCHANGED <<ram, is_update, flash, envp, app, flushing, phase>>

\* nv_record_enum_latest_two_paired_dev: which of these have no profile.
Useless(records) == {i \in DOMAIN records : i + 2 > Len(records) /\ ~records[i].act}

\* app_bt_profile_connect_manager_opening_reconnect deletes them, the latest
\* first, until there is none.  The main thread does so, with the stack locked;
\* not in the factory's mode.
DropUseless ==
  /\ BtRuns /\ phase = "running" /\ envp = "live"
  /\ bt \in {BtIdle, Dropping} /\ ram # Damaged
  /\ Useless(ram.records) # {}
  /\ Works("unlinking", "drop", ram.records[Max(Useless(ram.records))])
  /\ UNCHANGED <<ram, is_update, flash, envp, app, flushing, phase>>

\* Which entry is taken out of the list.
Victim == IF bt.task = "evict" THEN 1 ELSE Place(bt.rec.dev)

\* config_entries_ddbdev_delete_head, ..._delete_tail, ..._delete are done: record,
\* entry and node are free memory, the list goes around them, length is less.
Unlinked ==
  /\ BtRuns /\ bt.at = "unlinking"
  /\ SetRecords(RemoveAt(ram.records, Victim))
  /\ IF bt.task = "evict" THEN Works("adding", "add", bt.rec)
                          ELSE Works("unlinked", bt.task, bt.rec)
  /\ UNCHANGED <<is_update, flash, envp, app, flushing, phase>>

\* config_specific_entry_value_delete ends, and its caller goes on.
DeleteMarks ==
  /\ BtRuns /\ bt.at = "unlinked"
  /\ is_update' = TRUE
  /\ IF bt.task = "add" THEN Works("adding", "add", bt.rec)
     ELSE bt' = IF bt.task = "drop" /\ ram # Damaged /\ Useless(ram.records) # {}
                  THEN Dropping ELSE BtIdle
  /\ UNCHANGED <<ram, flash, envp, app, flushing, phase>>

\* A profile connects: the callback sets the flag in the record, then calls
\* nv_record_touch_cause_flush.
ProfileConnects(d) ==
  /\ BtStarts /\ d \in Known
  /\ SetRecords([i \in DOMAIN ram.records |->
       IF ram.records[i].dev = d THEN [ram.records[i] EXCEPT !.act = TRUE] ELSE ram.records[i]])
  /\ Works("touching", "touch", RecordOf(d))
  /\ UNCHANGED <<is_update, flash, envp, app, flushing, phase>>

nv_record_touch_cause_flush ==
  /\ BtRuns /\ bt.at = "touching"
  /\ is_update' = TRUE /\ bt' = BtIdle
  /\ UNCHANGED <<ram, flash, envp, app, flushing, phase>>

\* Any of these calls with a damaged list.  It may stop at an ASSERT of list_ext.c
\* or a fault, and the system starts again (PowerFails); or it goes on.
UsesDamaged ==
  /\ BtRuns /\ bt = BtIdle /\ ram = Damaged
  /\ is_update' = TRUE
  /\ UNCHANGED <<ram, flash, envp, bt, app, flushing, phase>>

----------------------------------------------------------------------------
(* The environment, shutdown and power failure. *)

\* The line-out detection writes the role; the system then restarts in it.
EnvWrite(m) ==
  /\ Unlocked /\ app = "idle"
  /\ WritesEnv(m) /\ app' = "setting"
  /\ UNCHANGED <<is_update, flash, envp, bt, flushing, phase>>

nv_record_env_set ==
  /\ Unlocked /\ app = "setting"
  /\ is_update' = TRUE /\ app' = "idle"
  /\ UNCHANGED <<ram, flash, envp, bt, flushing, phase>>

\* system_shutdown, system_reset: the main thread enters app_deinit.  It does not
\* before app_init, which drops the useless records, has returned.
Shutdown ==
  /\ phase = "running" /\ flushing = "no"
  /\ bt # Dropping /\ (bt \in BtWork => bt.task # "drop")
  /\ phase' = "deinit"
  /\ UNCHANGED <<ram, is_update, flash, envp, bt, app, flushing>>

GoesOff ==
  /\ ram' = EmptyTable /\ is_update' = FALSE /\ envp' = "null"
  /\ bt' = BtIdle /\ app' = "idle" /\ flushing' = "no" /\ phase' = "off"

\* app_deinit's flush had something to write, or not; no thread runs after it.
PowerOff ==
  /\ phase = "deinit"
  /\ \/ flushing = "main" /\ flash' \in Images
     \/ flushing = "no" /\ ~is_update /\ UNCHANGED flash
  /\ GoesOff

PowerFails == phase # "off" /\ GoesOff /\ UNCHANGED flash

----------------------------------------------------------------------------
Next ==
  \/ nv_record_open \/ nv_record_env_init \/ SectorClear \/ RebuildDone
  \/ \E who \in {"idle", "main"} : FlushErase(who)
  \/ FlushWrite
  \/ \E d \in Device : \/ AddBegins(d)
                       \/ ProfileConnects(d)
                       \/ nv_record_ddbrec_delete(d)
  \/ AddEvicts \/ AddLinks \/ AddEnds \/ AddMarks \/ nv_record_touch_cause_flush
  \/ DropUseless \/ Unlinked \/ DeleteMarks \/ UsesDamaged
  \/ \E m \in Mode : EnvWrite(m)
  \/ nv_record_env_set \/ Shutdown \/ PowerOff \/ PowerFails

Spec == Init /\ [][Next]_vars

\* The flush is straight code.  The idle thread reaches the low-power hook when
\* nothing runs and no driver holds the clock.
FairSpec == Spec /\ WF_vars(FlushErase("idle")) /\ WF_vars(FlushWrite)

----------------------------------------------------------------------------
\* Whatever has changed since the last flush is marked for the next one, in the
\* order in which each writer changes the table and raises is_update: with
\* every writer done, a lowered flag means that the sector holds the table.
SavedUnlessDirty ==
  phase # "off" /\ flushing = "no" /\ AllIdle /\ ~is_update => flash = ram

\* The records implement RecordStore: what is read back at power-on is one whole
\* earlier table with its order, or nothing, wherever the idle thread's and the
\* rebuild's flushes fall between the writers, and wherever the power fails.  What
\* may come back damaged is what the last flush of a shutdown saved in the middle of
\* a deletion or an addition, and a table that was written to through the old
\* environment's address after the factory's rebuild; and that until it is rebuilt.
Store == INSTANCE RecordStore WITH
  Nothing <- Erased,
  table <- ram,
  saved <- flash,
  saving <- (flushing # "no"),
  up <- (phase # "off"),
  changing <- (bt.at \in {"unlinking", "linking"}),
  wiped <- (envp \in {"stale", "overlaid"})
StoreSpec == Store!Spec

\* Left alone, a running system ends up with its table in the flash.
SavedInTheEnd == <>[](phase = "running" /\ AllIdle) => []<>(flash = ram)
=============================================================================
