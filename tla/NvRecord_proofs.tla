--------------------------- MODULE NvRecord_proofs ---------------------------
(***************************************************************************)
(* The paired-device records, for any set of devices, any capacity from    *)
(* two records on and any contents of the environment.                     *)
(*                                                                         *)
(* SavedUnlessDirty is inductive as it stands.  The refinement of          *)
(* RecordStore needs to know more of the list: no device is in it twice,   *)
(* it is never longer than DDB_RECORD_NUM, also in the sector, a device    *)
(* that is being added is not in it and one that is being deleted is       *)
(* (IInv); and it needs to know whom the flushes cannot interrupt.         *)
(***************************************************************************)
EXTENDS NvRecord, ListLemmas

GoodList(s) ==
  /\ s \in Seq(Record) /\ Len(s) <= DDB_RECORD_NUM
  /\ \A i, j \in 1..Len(s) : s[i].dev = s[j].dev => i = j

Good(t) == t \in Table /\ GoodList(t.records)
GoodPool(t) == t = Damaged \/ Good(t)

HasDev(t, d) == \E i \in 1..Len(t.records) : t.records[i].dev = d

\* A device is on its way into the list.
Joins == \/ bt.at \in {"adding", "linking"}
         \/ bt.at = "unlinking" /\ bt.task = "evict"
         \/ bt.at = "unlinked" /\ bt.task = "add"

\* What the Bluetooth thread is doing fits the list.
BtInv == ram # Damaged =>
  /\ Joins => ~HasDev(ram, bt.rec.dev)
  /\ bt.at = "unlinking" => IF bt.task = "evict" THEN Full ELSE HasDev(ram, bt.rec.dev)
  /\ bt.at = "linking" => ~Full

\* The other threads start after the environment is there; only the last flush of a
\* shutdown interrupts the Bluetooth thread; the rebuild leaves the address behind.
QuietInv ==
  /\ phase \in {"off", "opened"} => bt = BtIdle /\ envp = "null"
  /\ phase \in {"off", "engineer"} => flushing = "no"
  /\ phase = "rebuilt" => envp \in {"stale", "overlaid"}
  /\ flushing # "no" => bt = BtIdle \/ (flushing = "main" /\ phase = "deinit")

IInv == /\ TypeOK /\ GoodPool(ram) /\ (flash # Erased => GoodPool(flash))
        /\ BtInv /\ QuietInv

----------------------------------------------------------------------------
(* Lists of records. *)

LEMMA UnlinkedGood ==
  ASSUME NEW s, GoodList(s), NEW i \in 1..Len(s)
  PROVE  /\ GoodList(RemoveAt(s, i))
         /\ \A j \in 1..Len(RemoveAt(s, i)) : /\ RemoveAt(s, i)[j].dev # s[i].dev
                                              /\ \E k \in 1..Len(s) : RemoveAt(s, i)[j] = s[k]
<1> DEFINE t == RemoveAt(s, i)
<1>1. /\ t \in Seq(Record) /\ Len(t) = Len(s) - 1
      /\ \A j \in 1..Len(s) - 1 : t[j] = IF j < i THEN s[j] ELSE s[j + 1]
  BY RemoveAtProperties DEF GoodList
<1> HIDE DEF t
<1>2. Len(s) \in Nat
  BY LenProperties DEF GoodList
<1>3. Len(t) <= DDB_RECORD_NUM
  BY <1>1, <1>2, RecordAssumption DEF GoodList
<1>4. \A j \in 1..Len(t) : \E k \in 1..Len(s) \ {i} : t[j] = s[k] /\ k = IF j < i THEN j ELSE j + 1
  BY <1>1, <1>2
<1>5. \A j, k \in 1..Len(t) : t[j].dev = t[k].dev => j = k
  BY <1>1, <1>2, <1>4 DEF GoodList
<1>6. \A j \in 1..Len(t) : t[j].dev # s[i].dev /\ \E k \in 1..Len(s) : t[j] = s[k]
  BY <1>4 DEF GoodList
<1> QED
  BY <1>1, <1>3, <1>5, <1>6 DEF GoodList, t

LEMMA AppendedGood ==
  ASSUME NEW s, GoodList(s), Len(s) # DDB_RECORD_NUM, NEW r \in Record,
         \A i \in 1..Len(s) : s[i].dev # r.dev
  PROVE  GoodList(Append(s, r))
<1> DEFINE t == Append(s, r)
<1>1. /\ t \in Seq(Record) /\ Len(t) = Len(s) + 1
      /\ \A i \in 1..Len(s) : t[i] = s[i]
      /\ t[Len(s) + 1] = r
  BY AppendProperties DEF GoodList
<1> HIDE DEF t
<1>2. Len(s) \in Nat
  BY LenProperties DEF GoodList
<1>3. Len(t) <= DDB_RECORD_NUM
  BY <1>1, <1>2, RecordAssumption DEF GoodList
<1>4. \A j \in 1..Len(t) : j \in 1..Len(s) \/ j = Len(s) + 1
  BY <1>1, <1>2
<1>5. \A j, k \in 1..Len(t) : t[j].dev = t[k].dev => j = k
  BY <1>1, <1>4 DEF GoodList
<1> QED
  BY <1>1, <1>3, <1>5 DEF GoodList, t

----------------------------------------------------------------------------
(* The table in the pool. *)

LEMMA NotTable == EmptyTable # Damaged /\ \A t \in Table : t # Damaged
<1>1. EmptyTable \in Table
  BY EmptySeq DEF EmptyTable, Table
<1> QED
  BY <1>1, DamagedAssumption

\* Every step that changes the list of a good table.
LEMMA SetRecordsTable ==
  ASSUME ram \in Table, NEW s, s \in Seq(Record), SetRecords(s)
  PROVE  /\ ram' = [ram EXCEPT !.records = s] /\ ram' \in Table
         /\ ram'.records = s /\ ram'.env = ram.env
<1>1. ram' = [ram EXCEPT !.records = s]
  BY NotTable DEF SetRecords
<1> QED
  BY <1>1 DEF Table

LEMMA EnvTable ==
  ASSUME ram \in Table, NEW m \in Mode, ram' = [ram EXCEPT !.env = m]
  PROVE  ram' \in Table /\ ram'.records = ram.records
BY DEF Table

LEMMA GoodEmpty == Good(EmptyTable) /\ GoodPool(EmptyTable) /\ EmptyTable \in Pool
<1>1. EmptyTable.records = <<>> /\ EmptyTable \in Table
  BY EmptySeq DEF EmptyTable, Table
<1>2. Len(<<>>) = 0 /\ <<>> \in Seq(Record)
  BY EmptySeq
<1> QED
  BY <1>1, <1>2, RecordAssumption DEF Good, GoodPool, GoodList, Pool

LEMMA GoodOnes == \A t : GoodPool(t) => t \in Pool /\ (t # Damaged => Good(t) /\ t \in Table)
BY DEF GoodPool, Good, Pool

LEMMA KnownPlace ==
  ASSUME Good(ram), NEW d \in Known
  PROVE  Place(d) \in 1..Len(ram.records) /\ ram.records[Place(d)].dev = d
<1>1. DOMAIN ram.records = 1..Len(ram.records)
  BY LenProperties DEF Good, GoodList
<1>2. \E i \in DOMAIN ram.records : ram.records[i].dev = d
  BY DEF Known
<1>3. Place(d) \in DOMAIN ram.records /\ ram.records[Place(d)].dev = d
  BY <1>2, Zenon DEF Place
<1> QED
  BY <1>1, <1>3

\* The loop of app_bt_profile_connect_manager_opening_reconnect finds a latest one.
LEMMA LatestUseless ==
  ASSUME Good(ram), Useless(ram.records) # {}
  PROVE  Max(Useless(ram.records)) \in 1..Len(ram.records)
<1>1. DOMAIN ram.records = 1..Len(ram.records) /\ Len(ram.records) \in Nat
  BY LenProperties DEF Good, GoodList
<1> DEFINE U == Useless(ram.records)
<1>2. U \subseteq 1..Len(ram.records) /\ U # {} /\ \A x \in U : x + 2 > Len(ram.records)
  BY <1>1 DEF Useless
<1> HIDE DEF U
<1>3. \E x \in U : \A y \in U : x >= y
  <2>1. PICK x \in U : TRUE
    BY <1>2
  <2>2. CASE \E y \in U : y > x
    <3>1. PICK y \in U : y > x
      BY <2>2
    <3>2. \A z \in U : y >= z
      BY <1>1, <1>2, <3>1
    <3> QED
      BY <3>1, <3>2
  <2>3. CASE ~\E y \in U : y > x
    <3>1. \A z \in U : x >= z
      BY <1>1, <1>2, <2>3
    <3> QED
      BY <3>1
  <2> QED
    BY <2>2, <2>3
<1>4. Max(U) \in U
  BY <1>3, Zenon DEF Max
<1> QED
  BY <1>2, <1>4 DEF U

----------------------------------------------------------------------------
(* What a step does to the table. *)

Loads   == ram' = EmptyTable \/ (flash # Erased /\ ram' = flash)
EnvSets == ram # Damaged /\ \E m \in Mode : ram' = [ram EXCEPT !.env = m]

LEMMA EnvWrites ==
  ASSUME NEW m \in Mode, WritesEnv(m)
  PROVE  \/ ram' = Damaged /\ (UNCHANGED ram \/ envp = "overlaid")
         \/ envp = "live" /\ EnvSets
         \/ UNCHANGED ram
BY Zenon DEF WritesEnv, EnvSets

LEMMA TableSteps ==
  ASSUME [Next]_vars
  PROVE  \/ Loads \/ EnvSets \/ AddEnds \/ Unlinked \/ ram' = Damaged
         \/ (\E d \in Device : ProfileConnects(d))
         \/ UNCHANGED ram
<1>1. nv_record_open \/ SectorClear \/ PowerOff \/ PowerFails => Loads
  BY Zenon DEF nv_record_open, Restore, SectorClear, PowerOff, PowerFails, GoesOff, Loads
<1>2. nv_record_env_init => EnvSets \/ UNCHANGED ram
  BY EnvAssumption, Zenon DEF nv_record_env_init, EnvSets
<1>3. RebuildDone \/ (\E m \in Mode : EnvWrite(m)) => EnvSets \/ ram' = Damaged \/ UNCHANGED ram
  BY EnvWrites, Zenon DEF EnvWrite, RebuildDone
<1>4. ASSUME NEW d, AddBegins(d) \/ nv_record_ddbrec_delete(d) PROVE UNCHANGED ram
  BY <1>4, Zenon DEF AddBegins, nv_record_ddbrec_delete
<1>5. ASSUME \/ UNCHANGED vars \/ FlushErase("idle") \/ FlushErase("main")
             \/ FlushWrite \/ nv_record_touch_cause_flush \/ nv_record_env_set \/ Shutdown
             \/ AddEvicts \/ AddLinks \/ AddMarks \/ DropUseless \/ DeleteMarks \/ UsesDamaged
      PROVE  UNCHANGED ram
  BY <1>5, Zenon DEF vars, FlushErase, FlushWrite, nv_record_touch_cause_flush,
               nv_record_env_set, Shutdown, AddEvicts, AddLinks, AddMarks, DropUseless,
               DeleteMarks, UsesDamaged
<1> QED
  BY <1>1, <1>2, <1>3, <1>4, <1>5, Zenon DEF Next

\* The entry that is taken out is in the list; it is the one of the device, or the first.
LEMMA VictimListed ==
  ASSUME Good(ram), BtInv, bt.at = "unlinking"
  PROVE  /\ Victim \in 1..Len(ram.records)
         /\ bt.task # "evict" => ram.records[Victim].dev = bt.rec.dev
<1>1. ram # Damaged /\ DOMAIN ram.records = 1..Len(ram.records)
  BY NotTable, LenProperties DEF Good, GoodList
<1>2. CASE bt.task = "evict"
  BY <1>1, <1>2, RecordAssumption DEF BtInv, Full, Victim
<1>3. CASE bt.task # "evict"
  <2>1. bt.rec.dev \in Known
    BY <1>1, <1>3 DEF BtInv, HasDev, Known
  <2> QED
    BY <1>3, <2>1, KnownPlace DEF Victim
<1> QED
  BY <1>2, <1>3

\* A deletion that ends: the entry is gone, everything else was there before.
LEMMA UnlinksGood ==
  ASSUME Good(ram), BtInv, Unlinked
  PROVE  /\ Good(ram') /\ ram' = [ram EXCEPT !.records = RemoveAt(ram.records, Victim)]
         /\ \A d : HasDev(ram', d) => HasDev(ram, d)
         /\ bt.task # "evict" => ~HasDev(ram', bt.rec.dev)
<1> DEFINE i == Victim
           t == RemoveAt(ram.records, i)
<1>1. i \in 1..Len(ram.records) /\ (bt.task # "evict" => ram.records[i].dev = bt.rec.dev)
  BY VictimListed DEF Unlinked
<1>2. SetRecords(t)
  BY DEF Unlinked
<1> HIDE DEF i
<1>3. /\ GoodList(t)
      /\ \A j \in 1..Len(t) : /\ t[j].dev # ram.records[i].dev
                              /\ \E k \in 1..Len(ram.records) : t[j] = ram.records[k]
  BY <1>1, UnlinkedGood DEF Good
<1> HIDE DEF t
<1>4. ram' = [ram EXCEPT !.records = t] /\ ram' \in Table /\ ram'.records = t
  BY <1>2, <1>3, SetRecordsTable DEF Good, GoodList
<1>5. Good(ram')
  BY <1>3, <1>4 DEF Good
<1>6. \A d : HasDev(ram', d) => HasDev(ram, d)
  BY <1>3, <1>4 DEF HasDev
<1>7. bt.task # "evict" => ~HasDev(ram', bt.rec.dev)
  BY <1>1, <1>3, <1>4 DEF HasDev
<1> QED
  BY <1>4, <1>5, <1>6, <1>7 DEF i, t

LEMMA AddGood == ASSUME TypeOK, Good(ram), BtInv, AddEnds PROVE Good(ram')
<1>1. /\ bt.rec \in Record /\ bt.at = "linking" /\ ram # Damaged
      /\ SetRecords(Append(ram.records, bt.rec))
  BY NotTable DEF AddEnds, TypeOK, BtIdle, Dropping, BtWork, Good
<1>2. Len(ram.records) # DDB_RECORD_NUM /\ \A i \in 1..Len(ram.records) : ram.records[i].dev # bt.rec.dev
  BY <1>1 DEF BtInv, Joins, HasDev, Full
<1>3. GoodList(Append(ram.records, bt.rec))
  BY <1>1, <1>2, AppendedGood DEF Good
<1>4. ram' \in Table /\ ram'.records = Append(ram.records, bt.rec)
  BY <1>1, <1>3, SetRecordsTable DEF Good, GoodList
<1> QED
  BY <1>3, <1>4 DEF Good

Activated(s, d) == [i \in DOMAIN s |-> IF s[i].dev = d THEN [s[i] EXCEPT !.act = TRUE] ELSE s[i]]

LEMMA ActivatedGood ==
  ASSUME NEW s, GoodList(s), NEW d
  PROVE  /\ GoodList(Activated(s, d)) /\ Len(Activated(s, d)) = Len(s)
         /\ \A i \in 1..Len(s) : Activated(s, d)[i].dev = s[i].dev
<1>1. Len(s) \in Nat /\ DOMAIN s = 1..Len(s) /\ \A i \in 1..Len(s) : s[i] \in Record
  BY LenProperties, ElementOfSeq DEF GoodList
<1> DEFINE t == Activated(s, d)
<1>2. \A i \in 1..Len(s) : t[i] = IF s[i].dev = d THEN [s[i] EXCEPT !.act = TRUE] ELSE s[i]
  BY <1>1 DEF Activated
<1>3. t = [i \in 1..Len(s) |-> t[i]]
  BY <1>1 DEF Activated
<1> HIDE DEF t
<1>4. \A i \in 1..Len(s) : t[i] \in Record /\ t[i].dev = s[i].dev
  BY <1>1, <1>2 DEF Record
<1>5. t \in [1..Len(s) -> Record]
  BY <1>3, <1>4
<1>6. t \in Seq(Record) /\ Len(t) = Len(s)
  BY <1>1, <1>5
<1> QED
  BY <1>4, <1>6 DEF GoodList, t

LEMMA ConnectGood ==
  ASSUME Good(ram), NEW d \in Device, ProfileConnects(d)
  PROVE  Good(ram')
<1>1. SetRecords(Activated(ram.records, d))
  BY DEF ProfileConnects, Activated
<1>2. GoodList(Activated(ram.records, d))
  BY ActivatedGood DEF Good
<1>3. ram' \in Table /\ ram'.records = Activated(ram.records, d)
  BY <1>1, <1>2, SetRecordsTable DEF Good, GoodList
<1> QED
  BY <1>2, <1>3 DEF Good

LEMMA EnvGood == ASSUME GoodPool(ram), EnvSets PROVE Good(ram') /\ ram'.records = ram.records
BY EnvTable, GoodOnes DEF EnvSets, Good

LEMMA GoodStep == ASSUME IInv, [Next]_vars PROVE GoodPool(ram')
<1>1. CASE ram = Damaged
  <2>1. AddEnds \/ Unlinked => ram' = Damaged
    BY <1>1, Zenon DEF AddEnds, Unlinked, SetRecords
  <2>2. \A d \in Device : ~ProfileConnects(d)
    BY <1>1, Zenon DEF ProfileConnects, BtStarts
  <2>3. ~EnvSets
    BY <1>1, Zenon DEF EnvSets
  <2>4. Loads => GoodPool(ram')
    BY GoodEmpty, Zenon DEF Loads, IInv
  <2> QED
    BY <1>1, <2>1, <2>2, <2>3, <2>4, TableSteps, Zenon DEF GoodPool
<1>2. CASE ram # Damaged
  <2>1. TypeOK /\ Good(ram) /\ GoodPool(ram) /\ BtInv
    BY <1>2, GoodOnes DEF IInv
  <2>2. Loads => GoodPool(ram')
    BY GoodEmpty, Zenon DEF Loads, IInv
  <2> QED
    BY <2>1, <2>2, TableSteps, UnlinksGood, EnvGood, AddGood, ConnectGood, Zenon DEF GoodPool
<1> QED
  BY <1>1, <1>2

----------------------------------------------------------------------------
(* The rest of the invariant. *)

\* The sector is written with the table, whole or not, or erased.
LEMMA SectorSteps ==
  [Next]_vars => flash' = flash \/ flash' = Erased \/ flash' = ram \/ flash' = Damaged
<1>1. \A x \in Images : x = ram \/ x = Damaged
  BY Zenon DEF Images
<1> QED
  BY <1>1, Zenon
  DEF Next, vars, nv_record_open, nv_record_env_init, SectorClear, RebuildDone, FlushErase,
      FlushWrite,
      AddBegins, AddEvicts, AddLinks, AddEnds, AddMarks, ProfileConnects,
      nv_record_touch_cause_flush, nv_record_ddbrec_delete, DropUseless, Unlinked, DeleteMarks,
      UsesDamaged, EnvWrite, nv_record_env_set, Shutdown, PowerOff, PowerFails

LEMMA QuietStep == ASSUME IInv, [Next]_vars PROVE QuietInv'
BY Zenon
DEF IInv, QuietInv, GoesOff, BtRuns, BtStarts, Unlocked, AllIdle, Restore,
    Next, vars, nv_record_open, nv_record_env_init, SectorClear, RebuildDone, FlushErase,
    FlushWrite,
    AddBegins, AddEvicts, AddLinks, AddEnds, AddMarks, ProfileConnects,
    nv_record_touch_cause_flush, nv_record_ddbrec_delete, DropUseless, Unlinked, DeleteMarks,
    UsesDamaged, EnvWrite, nv_record_env_set, Shutdown, PowerOff, PowerFails

BtType == {BtIdle, Dropping} \cup BtWork

\* What the Bluetooth thread does next.
LEMMA BtSteps ==
  ASSUME IInv, [Next]_vars
  PROVE  \/ bt' \in {BtIdle, Dropping}
         \/ bt' = bt /\ (UNCHANGED ram \/ EnvSets \/ ram' = Damaged)
         \/ \E d \in Device : AddBegins(d) \/ nv_record_ddbrec_delete(d) \/ ProfileConnects(d)
         \/ AddEvicts \/ AddLinks \/ AddEnds \/ DropUseless \/ Unlinked
         \/ DeleteMarks
<1>1. nv_record_open \/ SectorClear \/ UsesDamaged => bt' = BtIdle
  BY Zenon DEF nv_record_open, SectorClear, UsesDamaged, IInv, QuietInv
<1>2. PowerOff \/ PowerFails \/ AddMarks \/ nv_record_touch_cause_flush => bt' = BtIdle
  BY Zenon DEF PowerOff, PowerFails, GoesOff, AddMarks, nv_record_touch_cause_flush
<1>3. nv_record_env_init => bt' = bt /\ (EnvSets \/ UNCHANGED ram)
  BY EnvAssumption, Zenon DEF nv_record_env_init, EnvSets
<1>4. RebuildDone \/ (\E m \in Mode : EnvWrite(m))
      => bt' = bt /\ (UNCHANGED ram \/ EnvSets \/ ram' = Damaged)
  BY EnvWrites, Zenon DEF EnvWrite, RebuildDone
<1>5. UNCHANGED vars \/ FlushWrite \/ nv_record_env_set \/ Shutdown => bt' = bt /\ UNCHANGED ram
  BY Zenon DEF vars, FlushWrite, nv_record_env_set, Shutdown
<1>6. ASSUME NEW who, FlushErase(who) PROVE bt' = bt /\ UNCHANGED ram
  BY <1>6, Zenon DEF FlushErase
<1> QED
  BY <1>1, <1>2, <1>3, <1>4, <1>5, <1>6, Zenon DEF Next

\* In between, the list need not fit.
LEMMA Rests ==
  /\ bt' \in {BtIdle, Dropping} => bt' \in BtType /\ BtInv'
  /\ bt'.at \in {"linked", "touching"} => BtInv'
  /\ ram' = Damaged => BtInv'
BY DEF BtInv, Joins, BtType, BtIdle, Dropping

LEMMA WorkType ==
  ASSUME NEW at \in {"unlinking", "unlinked", "adding", "linking", "linked", "touching"},
         NEW task \in {"add", "evict", "delete", "drop", "touch"},
         NEW rec \in Record, Works(at, task, rec)
  PROVE  bt' \in BtType /\ bt'.at = at /\ bt'.task = task /\ bt'.rec = rec
BY DEF Works, BtType, BtWork

LEMMA WorkingType ==
  ASSUME IInv, bt.at \in {"unlinking", "unlinked", "adding", "linking", "linked", "touching"}
  PROVE  /\ bt \in BtWork /\ bt.rec \in Record
         /\ bt.task \in {"add", "evict", "delete", "drop", "touch"}
BY DEF IInv, TypeOK, BtIdle, Dropping, BtWork

LEMMA GoodNow == ASSUME IInv, ram # Damaged PROVE Good(ram)
BY DEF IInv, GoodPool

LEMMA KnownRecord ==
  ASSUME IInv, ram # Damaged, NEW d \in Known
  PROVE  RecordOf(d) \in Record /\ RecordOf(d).dev = d /\ HasDev(ram, d)
<1>1. Good(ram)
  BY GoodNow
<1>2. Place(d) \in 1..Len(ram.records) /\ ram.records[Place(d)].dev = d
  BY <1>1, KnownPlace
<1> QED
  BY <1>1, <1>2, ElementOfSeq DEF RecordOf, HasDev, Good, GoodList

LEMMA StartsFit ==
  ASSUME IInv, NEW d \in Device, AddBegins(d) \/ nv_record_ddbrec_delete(d) \/ ProfileConnects(d)
  PROVE  bt' \in BtType /\ BtInv'
<1>1. ram # Damaged
  BY Zenon DEF AddBegins, nv_record_ddbrec_delete, ProfileConnects, BtStarts
<1>2. CASE d \in Known /\ UNCHANGED ram /\ (Works("unlinking", "add", RecordOf(d)) \/ Works("unlinking", "delete", RecordOf(d)))
  <2>1. bt' \in BtType /\ bt'.at = "unlinking" /\ bt'.task \in {"add", "delete"} /\ bt'.rec = RecordOf(d)
    BY <1>1, <1>2, KnownRecord, WorkType
  <2>2. HasDev(ram', bt'.rec.dev)
    BY <1>1, <1>2, <2>1, KnownRecord
  <2> QED
    BY <2>1, <2>2 DEF BtInv, Joins
<1>3. CASE d \notin Known /\ UNCHANGED ram /\ Works("adding", "add", [dev |-> d, act |-> FALSE])
  <2>1. DOMAIN ram.records = 1..Len(ram.records)
    BY <1>1, GoodNow, LenProperties DEF Good, GoodList
  <2>2. [dev |-> d, act |-> FALSE] \in Record
    BY DEF Record
  <2>3. bt' \in BtType /\ bt'.at = "adding" /\ bt'.rec.dev = d
    BY <1>3, <2>2, WorkType
  <2>4. ~HasDev(ram', bt'.rec.dev)
    BY <1>3, <2>1, <2>3 DEF HasDev, Known
  <2> QED
    BY <2>3, <2>4 DEF BtInv, Joins
<1>4. CASE d \in Known /\ Works("touching", "touch", RecordOf(d))
  BY <1>1, <1>4, KnownRecord, WorkType, Rests
<1> QED
  BY <1>2, <1>3, <1>4, Zenon DEF AddBegins, nv_record_ddbrec_delete, ProfileConnects

LEMMA DropFits == ASSUME IInv, DropUseless PROVE bt' \in BtType /\ BtInv'
<1> DEFINE i == Max(Useless(ram.records))
<1>1. Good(ram) /\ i \in 1..Len(ram.records)
  BY GoodNow, LatestUseless DEF DropUseless
<1>2. UNCHANGED ram /\ Works("unlinking", "drop", ram.records[i])
  BY DEF DropUseless
<1> HIDE DEF i
<1>3. ram.records[i] \in Record /\ HasDev(ram, ram.records[i].dev)
  BY <1>1, ElementOfSeq DEF Good, GoodList, HasDev
<1>4. bt' \in BtType /\ bt'.at = "unlinking" /\ bt'.task = "drop" /\ bt'.rec = ram.records[i]
  BY <1>2, <1>3, WorkType
<1>5. HasDev(ram', bt'.rec.dev)
  BY <1>2, <1>3, <1>4
<1> QED
  BY <1>4, <1>5 DEF BtInv, Joins

\* An addition goes on, with the device not in the list.
LEMMA AddFits ==
  ASSUME IInv, AddEvicts \/ AddLinks \/ (DeleteMarks /\ bt.task = "add")
  PROVE  bt' \in BtType /\ BtInv'
<1>1. bt.rec \in Record /\ UNCHANGED ram /\ (ram # Damaged => ~HasDev(ram, bt.rec.dev))
  BY WorkingType DEF AddEvicts, AddLinks, DeleteMarks, IInv, BtInv, Joins
<1>2. CASE AddEvicts
  <2>1. bt' \in BtType /\ bt'.at = "unlinking" /\ bt'.task = "evict" /\ bt'.rec = bt.rec /\ Full
    BY <1>1, <1>2, WorkType DEF AddEvicts
  <2> QED
    BY <1>1, <2>1 DEF BtInv, Joins, HasDev, Full
<1>3. CASE AddLinks
  <2>1. bt' \in BtType /\ bt'.at = "linking" /\ bt'.rec = bt.rec /\ ~Full
    BY <1>1, <1>3, WorkType DEF AddLinks
  <2> QED
    BY <1>1, <2>1 DEF BtInv, Joins, HasDev, Full
<1>4. CASE DeleteMarks /\ bt.task = "add"
  <2>1. bt' \in BtType /\ bt'.at = "adding" /\ bt'.rec = bt.rec
    BY <1>1, <1>4, WorkType DEF DeleteMarks
  <2> QED
    BY <1>1, <2>1 DEF BtInv, Joins, HasDev
<1> QED
  BY <1>2, <1>3, <1>4

LEMMA UnlinkedFits == ASSUME IInv, Unlinked PROVE bt' \in BtType /\ BtInv'
<1>1. bt.at = "unlinking" /\ bt.rec \in Record /\ bt.task \in {"add", "evict", "delete", "drop", "touch"}
  BY WorkingType DEF Unlinked
<1>2. /\ bt' \in BtType /\ bt'.rec = bt.rec
      /\ bt'.at = (IF bt.task = "evict" THEN "adding" ELSE "unlinked")
  BY <1>1, WorkType DEF Unlinked
<1>3. CASE ram = Damaged
  BY <1>2, <1>3, Rests, Zenon DEF Unlinked, SetRecords
<1>4. CASE ram # Damaged
  <2>1. Good(ram) /\ BtInv
    BY <1>4, GoodNow DEF IInv
  <2>2. ~HasDev(ram', bt.rec.dev)
    BY <1>1, <1>4, <2>1, UnlinksGood DEF BtInv, Joins
  <2> QED
    BY <1>1, <1>2, <2>2 DEF BtInv, Joins
<1> QED
  BY <1>3, <1>4

LEMMA BtStep == ASSUME IInv, [Next]_vars PROVE bt' \in BtType /\ BtInv'
<1>1. bt \in BtType
  BY DEF IInv, TypeOK, BtType
<1>2. CASE bt' \in {BtIdle, Dropping} \/ (bt' = bt /\ ram' = Damaged)
  BY <1>1, <1>2, Rests, Zenon
<1>3. CASE bt' = bt /\ UNCHANGED ram
  BY <1>1, <1>3 DEF IInv, BtInv, Joins, HasDev, Full
<1>4. CASE bt' = bt /\ EnvSets
  <2>1. ram # Damaged /\ ram'.records = ram.records
    BY <1>4, EnvGood, Zenon DEF EnvSets, IInv
  <2> QED
    BY <1>1, <1>4, <2>1 DEF IInv, BtInv, Joins, HasDev, Full
<1>5. CASE AddEnds
  BY <1>5, WorkingType, WorkType, Rests DEF AddEnds
<1>6. CASE DeleteMarks
  <2>1. bt.task # "add" => bt' \in {BtIdle, Dropping}
    BY <1>6, Zenon DEF DeleteMarks
  <2> QED
    BY <1>6, <2>1, Rests, AddFits, Zenon
<1> QED
  BY <1>2, <1>3, <1>4, <1>5, <1>6, StartsFit, DropFits, AddFits, UnlinkedFits, BtSteps, Zenon

LEMMA TypeStep == ASSUME IInv, [Next]_vars PROVE TypeOK'
<1>1. ram' \in Pool
  BY GoodStep, GoodOnes
<1>2. flash' \in Pool \cup {Erased}
  BY SectorSteps, GoodOnes DEF IInv, TypeOK, Pool
<1>3. is_update' \in BOOLEAN
  BY Zenon
  DEF IInv, TypeOK, GoesOff, Restore,
      Next, vars, nv_record_open, nv_record_env_init, SectorClear, RebuildDone, FlushErase,
      FlushWrite,
      AddBegins, AddEvicts, AddLinks, AddEnds, AddMarks, ProfileConnects,
      nv_record_touch_cause_flush, nv_record_ddbrec_delete, DropUseless, Unlinked, DeleteMarks,
      UsesDamaged, EnvWrite, nv_record_env_set, Shutdown, PowerOff, PowerFails
<1>4. /\ envp' \in {"null", "live", "stale", "overlaid"} /\ app' \in {"idle", "setting"}
      /\ phase' \in {"off", "opened", "engineer", "rebuilt", "running", "deinit"}
      /\ flushing' \in {"no", "open", "idle", "main"}
  BY Zenon
  DEF IInv, TypeOK, GoesOff, Restore,
      Next, vars, nv_record_open, nv_record_env_init, SectorClear, RebuildDone, FlushErase,
      FlushWrite,
      AddBegins, AddEvicts, AddLinks, AddEnds, AddMarks, ProfileConnects,
      nv_record_touch_cause_flush, nv_record_ddbrec_delete, DropUseless, Unlinked, DeleteMarks,
      UsesDamaged, EnvWrite, nv_record_env_set, Shutdown, PowerOff, PowerFails
<1> QED
  BY <1>1, <1>2, <1>3, <1>4, BtStep DEF TypeOK, BtType

LEMMA InvInit == Init => IInv
<1> SUFFICES ASSUME Init PROVE IInv
  OBVIOUS
<1>1. TypeOK
  BY GoodEmpty DEF Init, TypeOK, BtIdle, Pool
<1>2. GoodPool(ram) /\ flash = Erased
  BY GoodEmpty DEF Init
<1>3. BtInv
  BY DEF Init, BtInv, Joins, BtIdle
<1>4. QuietInv
  BY Zenon DEF Init, QuietInv
<1> QED
  BY <1>1, <1>2, <1>3, <1>4 DEF IInv

LEMMA InvStep == IInv /\ [Next]_vars => IInv'
<1> SUFFICES ASSUME IInv, [Next]_vars PROVE IInv'
  OBVIOUS
<1>1. flash' # Erased => GoodPool(flash')
  BY SectorSteps DEF IInv, GoodPool
<1> QED
  BY <1>1, TypeStep, GoodStep, BtStep, QuietStep DEF IInv

LEMMA Inductive == Spec => []IInv
BY InvInit, InvStep, PTL DEF Spec

\* Every state of the records has its type: what the pool holds, and what the
\* sector holds if its CRC is right, is a table of whole records, or a pool that
\* was damaged as a whole.
THEOREM TypeCorrect == Spec => []TypeOK
BY Inductive, PTL DEF IInv

----------------------------------------------------------------------------
(* A lowered flag means that the sector holds the table. *)

LEMMA SavedInit == Init => SavedUnlessDirty
BY Zenon DEF Init, SavedUnlessDirty

LEMMA WorkNotIdle == \A at, task, rec : Works(at, task, rec) => bt' # BtIdle
BY DEF Works, BtIdle

\* A step raises the flag, leaves a thread between its write and the flag, ends
\* at a flush or in the off state; or it changes neither the table nor the sector.
LEMMA MarkSteps ==
  ASSUME IInv, [Next]_vars
  PROVE  \/ is_update' = TRUE \/ flushing' # "no" \/ phase' = "off" \/ flash' = ram'
         \/ bt' # BtIdle \/ app' # "idle"
         \/ UNCHANGED <<ram, is_update, flash, bt, app, flushing>> /\ (UNCHANGED phase \/ phase # "off")
<1>1. nv_record_open \/ nv_record_env_init \/ SectorClear \/ RebuildDone
      => \/ is_update' = TRUE \/ flushing' # "no" \/ flash' = ram'
         \/ UNCHANGED <<ram, is_update, flash, bt, app, flushing>> /\ phase # "off"
  BY Zenon DEF nv_record_open, Restore, nv_record_env_init, SectorClear, RebuildDone
<1>2. \A who \in {"idle", "main"} : FlushErase(who) => flushing' # "no"
  BY Zenon DEF FlushErase
<1>3. FlushWrite => flash' = ram'
  <2>1. FlushWrite => bt = BtIdle
    BY Zenon DEF FlushWrite, IInv, QuietInv
  <2>2. BtIdle.at \notin {"unlinking", "linking"}
    BY DEF BtIdle
  <2>3. FlushWrite => flash' \in {ram} /\ ram' = ram
    BY <2>1, <2>2, Zenon DEF FlushWrite, Images
  <2> QED
    BY <2>3
<1>4. ASSUME NEW d, AddBegins(d) \/ nv_record_ddbrec_delete(d) \/ ProfileConnects(d)
      PROVE  bt' # BtIdle
  BY <1>4, WorkNotIdle, Zenon DEF AddBegins, nv_record_ddbrec_delete, ProfileConnects
<1>5. AddEvicts \/ AddLinks \/ AddEnds \/ DropUseless \/ Unlinked => bt' # BtIdle
  BY WorkNotIdle, Zenon DEF AddEvicts, AddLinks, AddEnds, DropUseless, Unlinked
<1>6. AddMarks \/ DeleteMarks \/ UsesDamaged \/ nv_record_touch_cause_flush \/ nv_record_env_set
      => is_update' = TRUE
  BY Zenon DEF AddMarks, DeleteMarks, UsesDamaged, nv_record_touch_cause_flush, nv_record_env_set
<1>7. \A m : EnvWrite(m) => app' # "idle"
  BY Zenon DEF EnvWrite
<1>8. PowerOff \/ PowerFails => phase' = "off"
  BY Zenon DEF PowerOff, PowerFails, GoesOff
<1>9. Shutdown \/ UNCHANGED vars
       => UNCHANGED <<ram, is_update, flash, bt, app, flushing>> /\ (UNCHANGED phase \/ phase # "off")
  BY Zenon DEF Shutdown, vars
<1> QED
  BY <1>1, <1>2, <1>3, <1>4, <1>5, <1>6, <1>7, <1>8, <1>9, Zenon DEF Next

LEMMA SavedStep == ASSUME IInv, SavedUnlessDirty, [Next]_vars PROVE SavedUnlessDirty'
BY MarkSteps, Zenon DEF SavedUnlessDirty, AllIdle

\* Nothing that has changed since the last flush is left unmarked: with every
\* writer done, a lowered is_update means that the sector holds the table.
THEOREM ChangesAreMarked == Spec => []SavedUnlessDirty
<1>1. IInv /\ SavedUnlessDirty /\ [Next]_vars => SavedUnlessDirty'
  BY SavedStep
<1> QED
  BY <1>1, SavedInit, Inductive, PTL DEF Spec

----------------------------------------------------------------------------
(* RecordStore. *)

Changing == bt.at \in {"unlinking", "linking"}
Wiped    == envp \in {"stale", "overlaid"}

LEMMA NotChanging == BtIdle.at \notin {"unlinking", "linking"} /\ Dropping.at \notin {"unlinking", "linking"}
BY DEF BtIdle, Dropping

LEMMA StoreInit == Init => Store!Init
BY NotChanging, Zenon DEF Init, Store!Init, EmptyTable, Store!NoTable

\* What the writers leave alone while no flush is under way.
InSession == /\ phase # "off" /\ flushing = "no" /\ UNCHANGED <<flash, flushing>> /\ phase' # "off"
             /\ UNCHANGED Wiped

LEMMA WorkingSteps == InSession => Store!Working
BY Zenon DEF InSession, Wiped, Store!Working

LEMMA Stutters == InSession /\ UNCHANGED ram /\ UNCHANGED Changing => UNCHANGED Store!vars
BY Zenon DEF InSession, Wiped, Changing, Store!vars

\* The steps of the Bluetooth thread, where it stands before and after them.
LEMMA BtSession ==
  /\ AddEvicts \/ AddLinks \/ AddEnds \/ AddMarks \/ Unlinked \/ DeleteMarks
     \/ nv_record_touch_cause_flush \/ UsesDamaged \/ DropUseless => InSession
  /\ \A d : AddBegins(d) \/ nv_record_ddbrec_delete(d) \/ ProfileConnects(d) => InSession
<1>1. AddLinks => UNCHANGED Wiped
  <2>1. AddLinks => (Wiped' <=> Wiped)
    BY DEF AddLinks, Wiped
  <2>2. (Wiped' <=> Wiped) => UNCHANGED Wiped
    BY SMT DEF Wiped
  <2> QED
    BY <2>1, <2>2
<1> QED
  BY <1>1, Zenon
  DEF AddEvicts, AddLinks, AddEnds, AddMarks, Unlinked, DeleteMarks, nv_record_touch_cause_flush,
      UsesDamaged, DropUseless, AddBegins, nv_record_ddbrec_delete, ProfileConnects, BtStarts,
      BtRuns, InSession, Wiped

LEMMA WorkPlace ==
  /\ \A task, rec : Works("unlinking", task, rec) \/ Works("linking", task, rec) => Changing'
  /\ \A task, rec : \/ Works("unlinked", task, rec) \/ Works("adding", task, rec)
                   \/ Works("linked", task, rec) \/ Works("touching", task, rec) => ~Changing'
BY DEF Works, Changing

LEMMA StillNot ==
  /\ ~Changing /\ ~Changing' => UNCHANGED Changing
  /\ ~Wiped /\ ~Wiped' => UNCHANGED Wiped
BY SMT DEF Changing, Wiped

LEMMA Begins ==
  ASSUME \/ \E d \in Device : nv_record_ddbrec_delete(d) \/ (AddBegins(d) /\ d \in Known)
         \/ AddEvicts \/ AddLinks \/ DropUseless
  PROVE  Store!BeginChange
<1>1. InSession /\ UNCHANGED ram
  BY BtSession, Zenon DEF nv_record_ddbrec_delete, AddBegins, AddEvicts, AddLinks, DropUseless
<1>2. ~Changing
  BY NotChanging
  DEF nv_record_ddbrec_delete, AddBegins, AddEvicts, AddLinks, DropUseless, BtStarts, Changing
<1>3. Changing'
  BY WorkPlace, Zenon DEF nv_record_ddbrec_delete, AddBegins, AddEvicts, AddLinks, DropUseless
<1> QED
  BY <1>1, <1>2, <1>3, WorkingSteps, Zenon DEF Store!BeginChange, Changing

\* The end of a deletion: a device is forgotten, if the list was whole.
LEMMA Forgets == ASSUME IInv, Unlinked PROVE Store!Forget \/ Store!ChangeDamaged
<1>1. Changing /\ ~Changing' /\ InSession
  <2>1. Changing
    BY DEF Unlinked, Changing
  <2>2. ~Changing'
    BY WorkPlace, Zenon DEF Unlinked
  <2> QED
    BY <2>1, <2>2, BtSession
<1>2. Store!Changes
  BY <1>1, WorkingSteps, Zenon DEF Store!Changes, Changing
<1>3. CASE ram = Damaged
  BY <1>2, <1>3, Zenon DEF Unlinked, SetRecords, Store!ChangeDamaged, Store!Whole
<1>4. CASE ram # Damaged
  <2>1. Good(ram) /\ BtInv /\ bt.at = "unlinking"
    BY <1>4, GoodNow DEF IInv, Unlinked
  <2>2. ram' = [ram EXCEPT !.records = RemoveAt(ram.records, Victim)]
    BY <2>1, UnlinksGood
  <2>3. Victim \in DOMAIN ram.records
    BY <2>1, VictimListed, LenProperties DEF Good, GoodList
  <2>4. Store!RemoveAt(ram.records, Victim) = RemoveAt(ram.records, Victim)
    BY DEF Store!RemoveAt, RemoveAt
  <2> QED
    BY <1>2, <1>4, <2>2, <2>3, <2>4 DEF Store!Forget, Store!Whole
<1> QED
  BY <1>3, <1>4

\* The end of an addition: a device that was not known is the youngest one.
LEMMA Remembers ==
  ASSUME IInv, AddEnds
  PROVE  Store!ChangeDamaged \/ \E d \in Device : \E a \in BOOLEAN : Store!Remember(d, a)
<1>1. Store!Changes
  <2>1. Changing
    BY DEF AddEnds, Changing
  <2>2. ~Changing'
    BY WorkPlace, Zenon DEF AddEnds
  <2> QED
    BY <2>1, <2>2, BtSession, WorkingSteps, Zenon DEF Store!Changes, Changing
<1>2. CASE ram = Damaged
  BY <1>1, <1>2, Zenon DEF AddEnds, SetRecords, Store!ChangeDamaged, Store!Whole
<1>3. CASE ram # Damaged
  <2>1. bt.at = "linking" /\ bt.rec \in Record /\ Good(ram) /\ BtInv
    BY <1>3, WorkingType, GoodNow DEF AddEnds, IInv
  <2>2. bt.rec.dev \in Device /\ bt.rec.act \in BOOLEAN
        /\ bt.rec = [dev |-> bt.rec.dev, act |-> bt.rec.act]
    BY <2>1 DEF Record
  <2>3. bt.rec.dev \notin Store!Known
    BY <1>3, <2>1, LenProperties DEF BtInv, Joins, HasDev, Good, GoodList, Store!Known
  <2>4. Len(ram.records) < DDB_RECORD_NUM
    BY <1>3, <2>1, LenProperties, RecordAssumption DEF BtInv, Good, GoodList, Full
  <2>5. ram' = [ram EXCEPT !.records = Append(ram.records, [dev |-> bt.rec.dev, act |-> bt.rec.act])]
    BY <1>3, <2>2 DEF AddEnds, SetRecords
  <2>6. Store!Remember(bt.rec.dev, bt.rec.act)
    BY <1>1, <1>3, <2>3, <2>4, <2>5 DEF Store!Remember, Store!Whole
  <2> QED
    BY <2>2, <2>6
<1> QED
  BY <1>2, <1>3

LEMMA Activates == ASSUME NEW d \in Device, ProfileConnects(d) PROVE Store!Activate(d)
<1>1. InSession /\ ram # Damaged
  BY BtSession, Zenon DEF ProfileConnects, BtStarts
<1>2. ram' = [ram EXCEPT !.records =
                [i \in DOMAIN ram.records |-> IF ram.records[i].dev = d
                   THEN [ram.records[i] EXCEPT !.act = TRUE] ELSE ram.records[i]]]
  BY <1>1 DEF ProfileConnects, SetRecords
<1>3. UNCHANGED Changing
  <2>1. ~Changing
    BY NotChanging DEF ProfileConnects, BtStarts, Changing
  <2>2. ~Changing'
    BY WorkPlace, Zenon DEF ProfileConnects
  <2> QED
    BY <2>1, <2>2, StillNot, Zenon
<1> QED
  BY <1>1, <1>2, <1>3, WorkingSteps, Zenon DEF Store!Activate, Store!Whole, Changing

\* Steps that a user of the store does not see.
LEMMA Unseen ==
  ASSUME \/ \E d \in Device : AddBegins(d) /\ d \notin Known
         \/ AddMarks \/ DeleteMarks \/ nv_record_touch_cause_flush \/ UsesDamaged
  PROVE  UNCHANGED Store!vars
<1>1. InSession /\ UNCHANGED ram
  BY BtSession, Zenon DEF AddBegins, AddMarks, DeleteMarks, nv_record_touch_cause_flush, UsesDamaged
<1>2. ~Changing
  BY NotChanging
  DEF AddBegins, AddMarks, DeleteMarks, nv_record_touch_cause_flush, UsesDamaged, BtStarts, Changing
<1>3. ~Changing'
  <2>1. ASSUME NEW d, AddBegins(d), d \notin Known PROVE ~Changing'
    BY <2>1, WorkPlace, Zenon DEF AddBegins
  <2>2. DeleteMarks => ~Changing'
    BY WorkPlace, NotChanging, Zenon DEF DeleteMarks, Changing
  <2>3. AddMarks \/ nv_record_touch_cause_flush \/ UsesDamaged => ~Changing'
    BY NotChanging, Zenon DEF AddMarks, nv_record_touch_cause_flush, UsesDamaged, Changing
  <2> QED
    BY <2>1, <2>2, <2>3
<1> QED
  BY <1>1, <1>2, <1>3, Stutters, StillNot, Zenon

LEMMA SetsEnv == ASSUME EnvSets, InSession, UNCHANGED bt PROVE \E m \in Mode : Store!SetEnv(m)
<1>1. UNCHANGED Changing
  BY DEF Changing
<1> QED
  BY <1>1, WorkingSteps DEF EnvSets, Store!SetEnv, Store!Whole, Changing

LEMMA EnvSteps ==
  ASSUME IInv, nv_record_env_init \/ \E m \in Mode : EnvWrite(m)
  PROVE  (\E m \in Mode : Store!SetEnv(m)) \/ Store!Damage \/ UNCHANGED Store!vars
<1>1. InSession /\ UNCHANGED bt
  <2>1. nv_record_env_init => ~Wiped /\ ~Wiped'
    BY Zenon DEF nv_record_env_init, IInv, QuietInv, Wiped
  <2> QED
    BY <2>1, StillNot, Zenon DEF nv_record_env_init, EnvWrite, Unlocked, InSession, Wiped
<1>2. UNCHANGED Changing
  BY <1>1 DEF Changing
<1>3. EnvSets \/ UNCHANGED ram \/ (ram' = Damaged /\ Wiped)
  BY EnvWrites, EnvAssumption, Zenon DEF nv_record_env_init, EnvWrite, EnvSets, Wiped
<1>4. ram' = Damaged /\ Wiped => Store!Damage
  BY <1>1, <1>2, WorkingSteps, Zenon DEF Store!Damage, Wiped, Changing
<1> QED
  BY <1>1, <1>2, <1>3, <1>4, SetsEnv, Stutters, Zenon

LEMMA PowersOn == ASSUME IInv, nv_record_open PROVE Store!PowerOn
BY Zenon DEF IInv, QuietInv, nv_record_open, Restore, Store!PowerOn, EmptyTable, Store!NoTable

\* The flush and the steps of the main thread.
LEMMA MainSteps ==
  ASSUME IInv
  PROVE  /\ SectorClear => Store!Wipe
         /\ RebuildDone => Store!BeginSave
         /\ \A who \in {"idle", "main"} : FlushErase(who) => Store!BeginSave
         /\ FlushWrite => Store!EndSave
         /\ PowerFails => Store!PowerOff
         /\ PowerOff => Store!PowerOff \/ Store!LastSave
<1>1. SectorClear => Store!Wipe
  BY NotChanging, Zenon DEF IInv, QuietInv, SectorClear, Store!Wipe, EmptyTable, Store!NoTable
<1>2. RebuildDone => Store!BeginSave
  <2>1. RebuildDone => Wiped /\ (UNCHANGED ram \/ ram' = Damaged)
    BY Zenon DEF RebuildDone, WritesEnv, IInv, QuietInv, Wiped
  <2> QED
    BY <2>1, Zenon DEF RebuildDone, Store!BeginSave, Wiped
<1>3. \A who \in {"idle", "main"} : FlushErase(who) => Store!BeginSave
  BY Zenon DEF FlushErase, Unlocked, Store!BeginSave
<1>4. FlushWrite => Store!EndSave
  <2>1. FlushWrite => bt = BtIdle /\ phase # "off"
    BY Zenon DEF FlushWrite, IInv, QuietInv
  <2>2. FlushWrite => flash' \in {ram}
    BY <2>1, NotChanging, Zenon DEF FlushWrite, Images
  <2>3. FlushWrite => flash' = ram
    BY <2>2
  <2> QED
    BY <2>1, <2>3, NotChanging, Zenon DEF FlushWrite, Store!EndSave
<1>5. \/ PowerFails /\ UNCHANGED flash
      \/ PowerOff
      => Store!Off
  BY NotChanging, Zenon
  DEF PowerFails, PowerOff, GoesOff, Store!Off, EmptyTable, Store!NoTable
<1>6. PowerFails => Store!PowerOff
  BY <1>5, Zenon DEF PowerFails, Store!PowerOff
<1>7. PowerOff => Store!PowerOff \/ Store!LastSave
  <2>1. \A x \in Images : x = ram \/ (Changing /\ x = Damaged)
    BY Zenon DEF Images, Changing
  <2> QED
    BY <1>5, <2>1, Zenon DEF PowerOff, Store!PowerOff, Store!LastSave, Changing
<1> QED
  BY <1>1, <1>2, <1>3, <1>4, <1>6, <1>7

LEMMA StoreStep == ASSUME IInv, [Next]_vars PROVE [Store!Next]_(Store!vars)
<1>1. nv_record_env_set \/ Shutdown \/ UNCHANGED vars => UNCHANGED Store!vars
  BY Zenon DEF nv_record_env_set, Shutdown, vars, Store!vars
<1>2. ASSUME NEW d \in Device, AddBegins(d) PROVE Store!BeginChange \/ UNCHANGED Store!vars
  BY <1>2, Begins, Unseen, Zenon
<1>3. ASSUME NEW d \in Device, nv_record_ddbrec_delete(d) PROVE Store!BeginChange
  BY <1>3, Begins, Zenon
<1>4. AddEvicts \/ AddLinks \/ DropUseless => Store!BeginChange
  BY Begins, Zenon
<1>5. AddMarks \/ DeleteMarks \/ nv_record_touch_cause_flush \/ UsesDamaged => UNCHANGED Store!vars
  BY Unseen, Zenon
<1> QED
  BY <1>1, <1>2, <1>3, <1>4, <1>5, EnvSteps, MainSteps, PowersOn, Forgets, Remembers, Activates, Zenon
  DEF Next, Store!Next

\* The table and its sector implement RecordStore.  A power-on finds one whole earlier
\* table with its order, or none at all, wherever the idle thread's and the rebuild's
\* flushes fall between the steps of the writers, and wherever the power fails.  What
\* it can find damaged is named by two actions of RecordStore and nothing else: the
\* save at power-off in the middle of a deletion or an addition (LastSave), and a
\* write through the old address after the factory's rebuild (Damage, BeginSave).
THEOREM RecordsAreAStore == Spec => StoreSpec
<1>1. Init => Store!Init
  BY StoreInit
<1>2. IInv /\ [Next]_vars => [Store!Next]_(Store!vars)
  BY StoreStep
<1> QED
  BY <1>1, <1>2, Inductive, PTL DEF Spec, StoreSpec, Store!Spec
=============================================================================
