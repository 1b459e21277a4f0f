--------------------------- MODULE SysFreq_proofs ---------------------------
(***************************************************************************)
(* The clock arbiter keeps its types, never runs slower than a granted     *)
(* request, and never runs fast without its PLL, for any number of users   *)
(* and any set of call sites.  The proofs rest on one fact about the scan  *)
(* of the request table (MaxReqBounds): it returns an upper bound of the   *)
(* table.  That bound counts the requests that are stored and not settled  *)
(* yet, which is why storing outside of int_lock does no harm.             *)
(***************************************************************************)
EXTENDS SysFreq, WellFoundedInduction, TLAPS

\* The scan's frequency is one of the table and bounds all of it.
LEMMA MaxReqBounds ==
  ASSUME NEW table \in [User -> Freq]
  PROVE  /\ MaxReq(table) \in Freq
         /\ \E u \in User : table[u] = MaxReq(table)
         /\ \A u \in User : table[u] <= MaxReq(table)
<1> DEFINE IsMax(f) == /\ \E u \in User : table[u] = f
                       /\ \A u \in User : table[u] <= f
<1>1. 0 \in User
  BY QtyAssumption DEF User
<1>2. \E f \in Freq : IsMax(f)
  <2>1. \A u \in User : table[u] \in {0, 1, 2, 3, 4, 5, 6}
    BY SMT DEF Freq
  <2>2. \E u \in User : table[u] = 6 \/ \A v \in User : table[v] <= 5
    BY <1>1, <2>1
  <2> QED
    BY <1>1, <2>1, <2>2 DEF Freq
<1> QED
  BY <1>2 DEF MaxReq

\* The scan's user is one of the users that ask for that frequency.
LEMMA FirstMaxIsUser ==
  ASSUME NEW table \in [User -> Freq]
  PROVE  FirstMax(table) \in User /\ table[FirstMax(table)] = MaxReq(table)
<1> DEFINE Maximal == {u \in User : table[u] = MaxReq(table)}
<1>1. Maximal # {} /\ Maximal \subseteq Nat
  BY MaxReqBounds, QtyAssumption DEF User
<1>2. PICK x \in Maximal : \A y \in Maximal : ~ (<<y, x>> \in OpToRel(<, Nat))
  BY <1>1, NatLessThanWellFounded, WFMin, Zenon
<1>3. \A y \in Maximal : x <= y
  <2> SUFFICES ASSUME NEW y \in Maximal
               PROVE  x <= y
    OBVIOUS
  <2>1. x \in Nat /\ y \in Nat
    BY <1>1
  <2>2. ~ (y < x)
    BY <1>2, <2>1 DEF OpToRel
  <2> QED
    BY <2>1, <2>2
<1> QED
  BY <1>3 DEF FirstMax

\* The lower bound of 26 MHz does not lower a frequency.
LEMMA AtLeast26MBounds ==
  ASSUME NEW f \in Freq
  PROVE  AtLeast26M(f) \in Freq /\ f <= AtLeast26M(f)
BY DEF AtLeast26M, Freq, F26M

\* What the critical section grants: a frequency that covers the request it
\* is called for and every request of the table that was covered before.
LEMMA GrantedCovers ==
  ASSUME NEW table \in [User -> Freq], NEW u \in User, TypeOK
  PROVE  /\ GrantedFreq(u, table[u], table) \in Freq
         /\ table[u] <= GrantedFreq(u, table[u], table)
         /\ \A v \in User : table[v] <= cmu.freq =>
                table[v] <= GrantedFreq(u, table[u], table)
<1>1. cmu.freq \in Freq
  BY DEF TypeOK, CmuType
<1>2. CASE table[u] > cmu.freq
  BY <1>1, <1>2 DEF GrantedFreq, Freq
<1>3. CASE ~(table[u] > cmu.freq) /\ Releases(u, table[u], table)
  <2>1. GrantedFreq(u, table[u], table) = AtLeast26M(MaxReq(table))
    BY <1>3 DEF GrantedFreq
  <2>2. /\ AtLeast26M(MaxReq(table)) \in Freq
        /\ MaxReq(table) <= AtLeast26M(MaxReq(table))
    BY MaxReqBounds, AtLeast26MBounds
  <2> QED
    BY <2>1, <2>2, MaxReqBounds DEF Freq
<1>4. CASE ~(table[u] > cmu.freq) /\ ~Releases(u, table[u], table)
  BY <1>1, <1>4 DEF GrantedFreq, Freq
<1> QED
  BY <1>2, <1>3, <1>4

\* The user recorded as the driving one is a user.
LEMMA GrantedTopIsUser ==
  ASSUME NEW table \in [User -> Freq], NEW u \in User, NEW f \in Freq, TypeOK
  PROVE  GrantedTop(u, f, table) \in User
BY FirstMaxIsUser DEF GrantedTop, TypeOK
----------------------------------------------------------------------------
(* The clock unit. *)

\* Opening and closing a PLL, and switching, keep the type and the frequency.
LEMMA PllOpsType ==
  ASSUME NEW c \in CmuType, NEW p \in Pll, NEW u \in PllUser
  PROVE  /\ PllEnable(c, p, u) \in CmuType /\ PllEnable(c, p, u).freq = c.freq
         /\ PllDisable(c, p, u) \in CmuType /\ PllDisable(c, p, u).freq = c.freq
         /\ SelectPll(c, p) \in CmuType /\ SelectPll(c, p).freq = c.freq
BY DEF PllEnable, PllDisable, SelectPll, CmuType

LEMMA SwitchToType ==
  ASSUME NEW c \in CmuType, NEW p \in Pll
  PROVE  SwitchTo(c, p) \in CmuType /\ SwitchTo(c, p).freq = c.freq
<1>1. "AUD" \in Pll /\ "USB" \in Pll /\ "SWITCH" \in PllUser
  BY DEF Pll, PllUser
<1> DEFINE c1 == PllEnable(c, "AUD", "SWITCH")
           c2 == PllEnable(c1, "USB", "SWITCH")
           c3 == SelectPll(c2, p)
           c4 == PllDisable(c3, "AUD", "SWITCH")
<1>2. c1 \in CmuType /\ c1.freq = c.freq
  BY <1>1, PllOpsType
<1>3. c2 \in CmuType /\ c2.freq = c.freq
  BY <1>1, <1>2, PllOpsType
<1>4. c3 \in CmuType /\ c3.freq = c.freq
  BY <1>1, <1>3, PllOpsType
<1>5. c4 \in CmuType /\ c4.freq = c.freq
  BY <1>1, <1>4, PllOpsType
<1>6. PllDisable(c4, "USB", "SWITCH") \in CmuType
      /\ PllDisable(c4, "USB", "SWITCH").freq = c.freq
  BY <1>1, <1>5, PllOpsType
<1> QED
  BY <1>6 DEF SwitchTo

LEMMA LowFreqModeType ==
  ASSUME NEW c \in CmuType
  PROVE  /\ LowFreqModeEnable(c) \in CmuType /\ LowFreqModeEnable(c).freq = c.freq
         /\ LowFreqModeDisable(c) \in CmuType /\ LowFreqModeDisable(c).freq = c.freq
<1>1. "AUD" \in Pll /\ "USB" \in Pll /\ "SYS" \in PllUser
  BY DEF Pll, PllUser
<1>2. SwitchTo(c, "USB") \in CmuType /\ SwitchTo(c, "USB").freq = c.freq
  BY <1>1, SwitchToType
<1>3. /\ LowFreqModeEnable(c) \in CmuType
      /\ LowFreqModeEnable(c).freq = c.freq
  BY <1>1, <1>2, PllOpsType DEF LowFreqModeEnable
<1>4. PllEnable(c, "AUD", "SYS") \in CmuType /\ PllEnable(c, "AUD", "SYS").freq = c.freq
  BY <1>1, PllOpsType
<1>5. /\ LowFreqModeDisable(c) \in CmuType
      /\ LowFreqModeDisable(c).freq = c.freq
  BY <1>1, <1>4, SwitchToType DEF LowFreqModeDisable
<1> QED
  BY <1>3, <1>5

\* app_sysfreq_req leaves the frequency to hal_sysfreq_req.
LEMMA AppReqCmu ==
  ASSUME TypeOK, NEW u \in AppUser, NEW f \in Ask[u], AppReq(u, f)
  PROVE  /\ [perUser EXCEPT ![u] = f] \in [User -> Freq]
         /\ cmu' \in CmuType
         /\ cmu'.freq = GrantedFreq(u, f, [perUser EXCEPT ![u] = f])
<1> DEFINE table   == [perUser EXCEPT ![u] = f]
           freq    == GrantedFreq(u, f, table)
           ready   == IF cmu.freq <= F52M /\ f > F52M
                      THEN LowFreqModeDisable(cmu) ELSE cmu
           settled == [ready EXCEPT !.freq = freq]
<1>1. u \in User /\ f \in Freq
  BY UserAssumption, AskAssumption
<1>2. table \in [User -> Freq] /\ table[u] = f
  BY <1>1 DEF TypeOK
<1>3. freq \in Freq
  BY <1>1, <1>2, GrantedCovers
<1>4. ready \in CmuType
  BY LowFreqModeType DEF TypeOK
<1>5. settled \in CmuType /\ settled.freq = freq
  BY <1>3, <1>4 DEF CmuType
<1>6. cmu' = LowFreqModeEnable(settled) \/ cmu' = settled
  BY DEF AppReq
<1> QED
  BY <1>2, <1>5, <1>6, LowFreqModeType

----------------------------------------------------------------------------
(* A driver that is between its store and its critical section has its
   request in the table. *)
PendingStored ==
  \A u \in User : pending[u] # NoFreq =>
     /\ u \notin AppUser
     /\ pending[u] \in Ask[u]
     /\ perUser[u] = pending[u]

IInv == TypeOK /\ PendingStored /\ Covered

LEMMA InitIInv == Init => IInv
<1> SUFFICES ASSUME Init PROVE IInv
  OBVIOUS
<1>1. BootUser \in User
  BY UserAssumption
<1>2. TypeOK
  BY <1>1 DEF Init, TypeOK, CmuType, Freq, F52M, F32K, Pll, PllUser
<1>3. PendingStored /\ Covered
  BY NoFreqAssumption DEF Init, PendingStored, Covered, F52M, F32K
<1> QED
  BY <1>2, <1>3 DEF IInv

LEMMA StoreIInv ==
  ASSUME IInv, NEW u \in User \ AppUser, NEW f \in Ask[u], Store(u, f)
  PROVE  IInv'
<1>1. f \in Freq /\ f # NoFreq
  BY AskAssumption, NoFreqAssumption
<1>2. TypeOK'
  BY <1>1 DEF IInv, TypeOK, Store
<1>3. PendingStored'
  BY <1>1 DEF IInv, TypeOK, PendingStored, Store
<1>4. Covered'
  BY <1>1 DEF IInv, TypeOK, Covered, Store
<1> QED
  BY <1>2, <1>3, <1>4 DEF IInv

LEMMA SettleIInv ==
  ASSUME IInv, NEW u \in User \ AppUser, Settle(u)
  PROVE  IInv'
<1> DEFINE freq == GrantedFreq(u, pending[u], perUser)
<1>1. TypeOK /\ perUser \in [User -> Freq] /\ perUser[u] = pending[u]
  BY DEF IInv, TypeOK, PendingStored, Settle
<1>2. /\ freq \in Freq
      /\ perUser[u] <= freq
      /\ \A v \in User : perUser[v] <= cmu.freq => perUser[v] <= freq
  BY <1>1, GrantedCovers
<1>3. GrantedTop(u, pending[u], perUser) \in User
  BY <1>1, GrantedTopIsUser
<1>4. cmu'.freq = freq
  BY DEF Settle, TypeOK, IInv, CmuType
<1>5. TypeOK'
  BY <1>2, <1>3 DEF IInv, TypeOK, CmuType, Settle
<1>6. PendingStored'
  BY DEF IInv, TypeOK, PendingStored, Settle
<1>7. Covered'
  BY <1>2, <1>4 DEF IInv, TypeOK, Covered, Settle
<1> QED
  BY <1>5, <1>6, <1>7 DEF IInv

LEMMA AppReqIInv ==
  ASSUME IInv, NEW u \in AppUser, NEW f \in Ask[u], AppReq(u, f)
  PROVE  IInv'
<1> DEFINE table == [perUser EXCEPT ![u] = f]
<1>1. u \in User /\ f \in Freq /\ TypeOK
  BY UserAssumption, AskAssumption DEF IInv
<1>2. /\ table \in [User -> Freq] /\ table[u] = f
      /\ cmu' \in CmuType
      /\ cmu'.freq = GrantedFreq(u, f, table)
  BY <1>1, AppReqCmu DEF TypeOK
<1>3. /\ f <= cmu'.freq
      /\ \A v \in User : table[v] <= cmu.freq => table[v] <= cmu'.freq
  BY <1>1, <1>2, GrantedCovers
<1>4. GrantedTop(u, f, table) \in User
  BY <1>1, <1>2, GrantedTopIsUser
<1>5. perUser' = table /\ topUser' = GrantedTop(u, f, table) /\ pending' = pending
  BY DEF AppReq
<1>6. TypeOK'
  BY <1>1, <1>2, <1>4, <1>5 DEF TypeOK
<1>7. PendingStored'
  BY <1>1, <1>5 DEF IInv, TypeOK, PendingStored
<1>8. Covered'
  BY <1>1, <1>2, <1>3, <1>5 DEF IInv, TypeOK, Covered
<1> QED
  BY <1>6, <1>7, <1>8 DEF IInv

LEMMA DeviceIInv == IInv /\ Device => IInv'
<1> SUFFICES ASSUME IInv,
                    NEW d \in {<<"AUD", "AUDIO">>, <<"USB", "USBDEV">>},
                    PllOpen(d[1], d[2]) \/ PllClose(d[1], d[2])
             PROVE  IInv'
  BY DEF Device
<1>1. d[1] \in Pll /\ d[2] \in PllUser
  BY DEF Pll, PllUser
<1>2. cmu' \in CmuType /\ cmu'.freq = cmu.freq
  BY <1>1, PllOpsType DEF IInv, TypeOK, PllOpen, PllClose
<1>3. perUser' = perUser /\ topUser' = topUser /\ pending' = pending
  BY DEF PllOpen, PllClose
<1> QED
  BY <1>2, <1>3 DEF IInv, TypeOK, PendingStored, Covered

LEMMA NextIInv == IInv /\ [Next]_vars => IInv'
<1> SUFFICES ASSUME IInv, [Next]_vars PROVE IInv'
  OBVIOUS
<1>1. CASE Driver
  BY <1>1, StoreIInv, SettleIInv DEF Driver
<1>2. CASE App
  BY <1>2, AppReqIInv DEF App
<1>3. CASE Device
  BY <1>3, DeviceIInv
<1>4. CASE UNCHANGED vars
  BY <1>4 DEF vars, IInv, TypeOK, PendingStored, Covered
<1> QED
  BY <1>1, <1>2, <1>3, <1>4 DEF Next

(* Every state of the arbiter has its types: the table holds frequencies and
   top_user is a user. *)
THEOREM TypeCorrect == Spec => []TypeOK
<1>1. Spec => []IInv
  BY InitIInv, NextIInv, PTL DEF Spec
<1>2. IInv => TypeOK
  BY DEF IInv
<1> QED
  BY <1>1, <1>2, PTL

(* The clock is never slower than a granted request, for any number of users
   and any call sites. *)
THEOREM CoveredAlways == Spec => []Covered
<1>1. Spec => []IInv
  BY InitIInv, NextIInv, PTL DEF Spec
<1>2. IInv => Covered
  BY DEF IInv
<1> QED
  BY <1>1, <1>2, PTL

----------------------------------------------------------------------------
(* The PLLs.  Powered(c) and HoldsAud(c) say of a clock unit c what
   PllPoweredByUsers and FastClockHasPll need. *)
Powered(c)  == \A p \in Pll : c.on[p] <=> c.users[p] # {}
SysHolds(c) == "SYS" \in c.users["AUD"]
HoldsAud(c) == c.sel = "AUD" /\ SysHolds(c)

\* Who is selected and who holds the audio PLL after taking, giving back and
\* selecting a PLL: others than the system clock do not touch its hold.
LEMMA PllOpsHold ==
  ASSUME NEW c \in CmuType, NEW p \in Pll, NEW u \in PllUser
  PROVE  /\ PllEnable(c, p, u).sel = c.sel
         /\ PllDisable(c, p, u).sel = c.sel
         /\ SelectPll(c, p).sel = p
         /\ u \in PllEnable(c, p, u).users[p]
         /\ u # "SYS" => /\ SysHolds(PllEnable(c, p, u)) <=> SysHolds(c)
                         /\ SysHolds(PllDisable(c, p, u)) <=> SysHolds(c)
         /\ SysHolds(SelectPll(c, p)) <=> SysHolds(c)
<1>1. c.users \in [Pll -> SUBSET PllUser]
  BY DEF CmuType
<1>2. /\ PllEnable(c, p, u).users = [c.users EXCEPT ![p] = @ \cup {u}]
      /\ PllDisable(c, p, u).users = [c.users EXCEPT ![p] = @ \ {u}]
      /\ SelectPll(c, p).users = c.users
  BY DEF PllEnable, PllDisable, SelectPll, CmuType
<1>3. /\ PllEnable(c, p, u).sel = c.sel
      /\ PllDisable(c, p, u).sel = c.sel
      /\ SelectPll(c, p).sel = p
  BY DEF PllEnable, PllDisable, SelectPll, CmuType
<1>4. "AUD" \in Pll
  BY DEF Pll
<1>5. /\ u \in [c.users EXCEPT ![p] = @ \cup {u}][p]
      /\ u # "SYS" =>
           /\ "SYS" \in [c.users EXCEPT ![p] = @ \cup {u}]["AUD"]
                <=> "SYS" \in c.users["AUD"]
           /\ "SYS" \in [c.users EXCEPT ![p] = @ \ {u}]["AUD"]
                <=> "SYS" \in c.users["AUD"]
  BY <1>1, <1>4
<1> QED
  BY <1>2, <1>3, <1>5, Zenon DEF SysHolds

\* Taking and giving back a PLL keeps it powered exactly for its users.
LEMMA PllOpsPowered ==
  ASSUME NEW c \in CmuType, Powered(c), NEW p \in Pll, NEW u \in PllUser
  PROVE  /\ Powered(PllEnable(c, p, u))
         /\ Powered(PllDisable(c, p, u))
         /\ Powered(SelectPll(c, p))
<1>1. c.users \in [Pll -> SUBSET PllUser] /\ c.on \in [Pll -> BOOLEAN]
  BY DEF CmuType
<1>2. ASSUME NEW q \in Pll
      PROVE  /\ [c.on EXCEPT ![p] = @ \/ c.users[p] = {}][q]
                   <=> [c.users EXCEPT ![p] = @ \cup {u}][q] # {}
             /\ [c.on EXCEPT ![p] = @ /\ c.users[p] # {u}][q]
                   <=> [c.users EXCEPT ![p] = @ \ {u}][q] # {}
  <2>1. c.on[q] <=> c.users[q] # {}
    BY DEF Powered
  <2>2. CASE q = p
    <3>1. /\ [c.on EXCEPT ![q] = @ \/ c.users[q] = {}][q]
                = (c.on[q] \/ c.users[q] = {})
          /\ [c.on EXCEPT ![q] = @ /\ c.users[q] # {u}][q]
                = (c.on[q] /\ c.users[q] # {u})
      BY <1>1
    <3>2. /\ [c.users EXCEPT ![q] = @ \cup {u}][q] = c.users[q] \cup {u}
          /\ [c.users EXCEPT ![q] = @ \ {u}][q] = c.users[q] \ {u}
      BY <1>1
    <3>3. /\ c.users[q] \cup {u} # {}
          /\ c.users[q] # {} /\ c.users[q] # {u} <=> c.users[q] \ {u} # {}
      OBVIOUS
    <3> QED
      BY <2>1, <2>2, <3>1, <3>2, <3>3, Zenon
  <2>3. CASE q # p
    BY <1>1, <2>1, <2>3
  <2> QED
    BY <2>2, <2>3
<1>3. /\ PllEnable(c, p, u).users = [c.users EXCEPT ![p] = @ \cup {u}]
      /\ PllEnable(c, p, u).on = [c.on EXCEPT ![p] = @ \/ c.users[p] = {}]
      /\ PllDisable(c, p, u).users = [c.users EXCEPT ![p] = @ \ {u}]
      /\ PllDisable(c, p, u).on = [c.on EXCEPT ![p] = @ /\ c.users[p] # {u}]
      /\ SelectPll(c, p).users = c.users
      /\ SelectPll(c, p).on = c.on
  BY DEF PllEnable, PllDisable, SelectPll, CmuType
<1>4. Powered(PllEnable(c, p, u))
  BY <1>2, <1>3, Zenon DEF Powered
<1>5. Powered(PllDisable(c, p, u))
  BY <1>2, <1>3, Zenon DEF Powered
<1>6. Powered(SelectPll(c, p))
  BY <1>3, Zenon DEF Powered
<1> QED
  BY <1>4, <1>5, <1>6

\* What the switch does: p is selected, and nobody but the switch itself loses
\* or gains a PLL.
LEMMA SwitchToEffect ==
  ASSUME NEW c \in CmuType, Powered(c), NEW p \in Pll
  PROVE  /\ Powered(SwitchTo(c, p))
         /\ SwitchTo(c, p).sel = p
         /\ SysHolds(SwitchTo(c, p)) <=> SysHolds(c)
<1>1. "AUD" \in Pll /\ "USB" \in Pll /\ "SWITCH" \in PllUser
  BY DEF Pll, PllUser
<1> DEFINE c1 == PllEnable(c, "AUD", "SWITCH")
           c2 == PllEnable(c1, "USB", "SWITCH")
           c3 == SelectPll(c2, p)
           c4 == PllDisable(c3, "AUD", "SWITCH")
           c5 == PllDisable(c4, "USB", "SWITCH")
<1>2. c1 \in CmuType /\ Powered(c1) /\ (SysHolds(c1) <=> SysHolds(c))
  BY <1>1, PllOpsType, PllOpsPowered, PllOpsHold
<1>3. c2 \in CmuType /\ Powered(c2) /\ (SysHolds(c2) <=> SysHolds(c1))
  BY <1>1, <1>2, PllOpsType, PllOpsPowered, PllOpsHold
<1>4. c3 \in CmuType /\ Powered(c3) /\ (SysHolds(c3) <=> SysHolds(c2)) /\ c3.sel = p
  BY <1>1, <1>3, PllOpsType, PllOpsPowered, PllOpsHold
<1>5. c4 \in CmuType /\ Powered(c4) /\ (SysHolds(c4) <=> SysHolds(c3)) /\ c4.sel = p
  BY <1>1, <1>4, PllOpsType, PllOpsPowered, PllOpsHold
<1>6. Powered(c5) /\ (SysHolds(c5) <=> SysHolds(c4)) /\ c5.sel = p
  BY <1>1, <1>5, PllOpsPowered, PllOpsHold
<1>7. SwitchTo(c, p) = c5
  BY DEF SwitchTo
<1> QED
  BY <1>2, <1>3, <1>4, <1>5, <1>6, <1>7

\* The two modes: leaving the low frequency mode takes the audio PLL.
LEMMA LowFreqModeEffect ==
  ASSUME NEW c \in CmuType, Powered(c)
  PROVE  /\ Powered(LowFreqModeEnable(c))
         /\ Powered(LowFreqModeDisable(c))
         /\ HoldsAud(LowFreqModeDisable(c))
<1>1. "AUD" \in Pll /\ "USB" \in Pll /\ "SYS" \in PllUser
  BY DEF Pll, PllUser
<1>2. Powered(LowFreqModeEnable(c))
  BY <1>1, SwitchToType, SwitchToEffect, PllOpsPowered DEF LowFreqModeEnable
<1> DEFINE held == PllEnable(c, "AUD", "SYS")
<1>3. held \in CmuType /\ Powered(held)
  BY <1>1, PllOpsType, PllOpsPowered
<1>4. SysHolds(held)
  BY <1>1, PllOpsHold DEF SysHolds
<1>5. Powered(LowFreqModeDisable(c)) /\ HoldsAud(LowFreqModeDisable(c))
  BY <1>1, <1>3, <1>4, SwitchToEffect DEF LowFreqModeDisable, HoldsAud
<1> QED
  BY <1>2, <1>5

----------------------------------------------------------------------------
(* The drivers do not ask for more than 52 MHz, so that only the application,
   which takes the PLL first, brings the clock above; and the system clock's
   hold is what keeps the PLL powered. *)
DriversSlow == \A u \in User \ AppUser : perUser[u] <= F52M
FastHolds   == cmu.freq > F52M => HoldsAud(cmu)

PInv == IInv /\ DriversSlow /\ Powered(cmu) /\ FastHolds

LEMMA InitPInv == Init => PInv
<1> SUFFICES ASSUME Init PROVE PInv
  OBVIOUS
<1>1. DriversSlow /\ FastHolds
  BY UserAssumption DEF Init, DriversSlow, FastHolds, F52M, F32K
<1>2. Powered(cmu)
  BY DEF Init, Powered
<1> QED
  BY <1>1, <1>2, InitIInv DEF PInv

\* With a slow clock every request of the table is slow.
LEMMA AllSlow ==
  ASSUME IInv, DriversSlow, cmu.freq <= F52M, NEW v \in User
  PROVE  perUser[v] <= F52M
<1>1. cmu.freq \in Freq /\ perUser[v] \in Freq
  BY DEF IInv, TypeOK, CmuType
<1>2. CASE v \in AppUser
  <2>1. pending[v] = NoFreq
    BY <1>2 DEF IInv, PendingStored
  <2>2. perUser[v] <= cmu.freq
    BY <2>1 DEF IInv, Covered
  <2> QED
    BY <1>1, <2>2 DEF Freq, F52M
<1>3. CASE v \notin AppUser
  BY <1>3 DEF DriversSlow
<1> QED
  BY <1>2, <1>3

\* A table of slow requests keeps a slow clock slow.
LEMMA SlowGrant ==
  ASSUME TypeOK, cmu.freq <= F52M, NEW table \in [User -> Freq],
         \A v \in User : table[v] <= F52M, NEW u \in User
  PROVE  GrantedFreq(u, table[u], table) <= F52M
<1>1. MaxReq(table) <= F52M /\ MaxReq(table) \in Freq
  BY MaxReqBounds
<1>2. AtLeast26M(MaxReq(table)) <= F52M
  BY <1>1 DEF AtLeast26M, F26M, F52M
<1> QED
  BY <1>2 DEF GrantedFreq

LEMMA StorePInv ==
  ASSUME PInv, NEW u \in User \ AppUser, NEW f \in Ask[u], Store(u, f)
  PROVE  PInv'
<1>1. IInv'
  BY StoreIInv DEF PInv
<1>2. DriversSlow'
  BY DriverAssumption DEF PInv, IInv, TypeOK, DriversSlow, Store
<1>3. Powered(cmu)' /\ FastHolds'
  BY DEF PInv, Store, Powered, FastHolds, HoldsAud, SysHolds
<1> QED
  BY <1>1, <1>2, <1>3 DEF PInv

LEMMA SettlePInv ==
  ASSUME PInv, NEW u \in User \ AppUser, Settle(u)
  PROVE  PInv'
<1> DEFINE freq == GrantedFreq(u, pending[u], perUser)
<1>1. IInv /\ TypeOK /\ DriversSlow /\ perUser[u] = pending[u]
  BY DEF PInv, IInv, PendingStored, Settle
<1>2. IInv'
  BY SettleIInv DEF PInv
<1>3. DriversSlow'
  BY <1>1 DEF DriversSlow, Settle
<1>4. cmu' = [cmu EXCEPT !.freq = freq] /\ cmu \in CmuType
  BY DEF Settle, PInv, IInv, TypeOK
<1>5. /\ cmu'.freq = freq /\ cmu'.sel = cmu.sel
      /\ cmu'.users = cmu.users /\ cmu'.on = cmu.on
  BY <1>4 DEF CmuType
<1>6. Powered(cmu')
  BY <1>5 DEF PInv, Powered
<1>7. HoldsAud(cmu) => HoldsAud(cmu')
  BY <1>5 DEF HoldsAud, SysHolds
<1>8. cmu.freq <= F52M => freq <= F52M
  BY <1>1, AllSlow, SlowGrant DEF TypeOK
<1>9. freq > F52M => cmu.freq > F52M
  BY <1>8, <1>2, <1>1, <1>5 DEF IInv, TypeOK, CmuType, Freq, F52M
<1>10. FastHolds'
  BY <1>5, <1>7, <1>9 DEF PInv, FastHolds
<1> QED
  BY <1>2, <1>3, <1>6, <1>10 DEF PInv

LEMMA AppReqPInv ==
  ASSUME PInv, NEW u \in AppUser, NEW f \in Ask[u], AppReq(u, f)
  PROVE  PInv'
<1> DEFINE table   == [perUser EXCEPT ![u] = f]
           freq    == GrantedFreq(u, f, table)
           ready   == IF cmu.freq <= F52M /\ f > F52M
                      THEN LowFreqModeDisable(cmu) ELSE cmu
           settled == [ready EXCEPT !.freq = freq]
<1>1. IInv /\ TypeOK /\ DriversSlow /\ Powered(cmu) /\ FastHolds /\ cmu \in CmuType
  BY DEF PInv, IInv, TypeOK
<1>2. u \in User /\ f \in Freq /\ table \in [User -> Freq] /\ table[u] = f
  BY <1>1, UserAssumption, AskAssumption DEF TypeOK
<1>3. freq \in Freq /\ cmu.freq \in Freq
  BY <1>1, <1>2, GrantedCovers DEF CmuType
<1>4. IInv' /\ cmu'.freq = freq
  BY <1>1, AppReqIInv, AppReqCmu
<1>5. DriversSlow'
  BY <1>1, <1>2 DEF DriversSlow, AppReq, TypeOK
<1>6. ready \in CmuType /\ Powered(ready)
  BY <1>1, LowFreqModeType, LowFreqModeEffect
<1>7. /\ settled.sel = ready.sel /\ settled.users = ready.users
      /\ settled.on = ready.on /\ settled \in CmuType
  BY <1>3, <1>6 DEF CmuType
<1>8. Powered(settled) /\ (HoldsAud(ready) => HoldsAud(settled))
  BY <1>6, <1>7 DEF Powered, HoldsAud, SysHolds
<1>9. cmu' = IF cmu.freq > F52M /\ freq <= F52M
             THEN LowFreqModeEnable(settled) ELSE settled
  BY DEF AppReq
<1>10. Powered(cmu')
  BY <1>7, <1>8, <1>9, LowFreqModeEffect
<1>11. ASSUME cmu.freq <= F52M, f <= F52M
       PROVE  freq <= F52M
  <2>1. \A v \in User : table[v] <= F52M
    BY <1>1, <1>2, <1>11, AllSlow DEF TypeOK
  <2> QED
    BY <1>1, <1>2, <1>11, <2>1, SlowGrant
<1>12. ASSUME freq > F52M
       PROVE  HoldsAud(cmu')
  <2>1. cmu' = settled
    BY <1>3, <1>9, <1>12 DEF Freq, F52M
  <2>2. CASE cmu.freq > F52M
    <3>1. ready = cmu
      BY <1>3, <2>2 DEF Freq, F52M
    <3> QED
      BY <1>1, <1>8, <2>1, <2>2, <3>1 DEF FastHolds
  <2>3. CASE cmu.freq <= F52M
    <3>1. f > F52M
      BY <1>2, <1>3, <1>11, <1>12, <2>3 DEF Freq, F52M
    <3>2. ready = LowFreqModeDisable(cmu)
      BY <2>3, <3>1
    <3> QED
      BY <1>1, <1>8, <2>1, <3>2, LowFreqModeEffect
  <2> QED
    BY <1>3, <2>2, <2>3 DEF Freq, F52M
<1>13. FastHolds'
  BY <1>4, <1>12 DEF FastHolds
<1> QED
  BY <1>4, <1>5, <1>10, <1>13 DEF PInv

LEMMA DevicePInv == PInv /\ Device => PInv'
<1> SUFFICES ASSUME PInv,
                    NEW d \in {<<"AUD", "AUDIO">>, <<"USB", "USBDEV">>},
                    PllOpen(d[1], d[2]) \/ PllClose(d[1], d[2])
             PROVE  PInv'
  BY DEF Device
<1>1. d[1] \in Pll /\ d[2] \in PllUser /\ d[2] # "SYS" /\ cmu \in CmuType
  BY DEF Pll, PllUser, PInv, IInv, TypeOK
<1>2. cmu' = PllEnable(cmu, d[1], d[2]) \/ cmu' = PllDisable(cmu, d[1], d[2])
  BY DEF PllOpen, PllClose
<1>3. Device
  BY DEF Device
<1>4. IInv'
  BY <1>3, DeviceIInv DEF PInv
<1>5. DriversSlow'
  BY DEF PInv, DriversSlow, PllOpen, PllClose
<1>6. Powered(cmu')
  BY <1>1, <1>2, PllOpsPowered DEF PInv
<1>7. cmu'.freq = cmu.freq
  BY <1>1, <1>2, PllOpsType
<1>8. HoldsAud(cmu) => HoldsAud(cmu')
  BY <1>1, <1>2, PllOpsHold DEF HoldsAud
<1>9. FastHolds'
  BY <1>7, <1>8 DEF PInv, FastHolds
<1> QED
  BY <1>4, <1>5, <1>6, <1>9 DEF PInv

LEMMA NextPInv == PInv /\ [Next]_vars => PInv'
<1> SUFFICES ASSUME PInv, [Next]_vars PROVE PInv'
  OBVIOUS
<1>1. CASE Driver
  BY <1>1, StorePInv, SettlePInv DEF Driver
<1>2. CASE App
  BY <1>2, AppReqPInv DEF App
<1>3. CASE Device
  BY <1>3, DevicePInv
<1>4. CASE UNCHANGED vars
  <2>1. IInv'
    BY <1>4, NextIInv DEF PInv
  <2>2. DriversSlow' /\ Powered(cmu)' /\ FastHolds'
    BY <1>4 DEF PInv, vars, DriversSlow, Powered, FastHolds, HoldsAud, SysHolds
  <2> QED
    BY <2>1, <2>2 DEF PInv
<1> QED
  BY <1>1, <1>2, <1>3, <1>4 DEF Next

(* A PLL is powered exactly as long as somebody holds it, in whatever order
   the system clock, audio and USB take it and give it back. *)
THEOREM PllPoweredAlways == Spec => []PllPoweredByUsers
<1>1. Spec => []PInv
  BY InitPInv, NextPInv, PTL DEF Spec
<1>2. PInv => PllPoweredByUsers
  BY DEF PInv, Powered, PllPoweredByUsers
<1> QED
  BY <1>1, <1>2, PTL

(* A clock above 52 MHz always has its PLL: it is the one selected and it is
   powered, whatever audio and USB open and close meanwhile. *)
THEOREM FastClockAlwaysHasPll == Spec => []FastClockHasPll
<1>1. Spec => []PInv
  BY InitPInv, NextPInv, PTL DEF Spec
<1>2. PInv => FastClockHasPll
  <2>1. "AUD" \in Pll
    BY DEF Pll
  <2>2. ASSUME PInv, cmu.freq > F52M
        PROVE  cmu.sel = "AUD" /\ cmu.on["AUD"]
    <3>1. cmu.sel = "AUD" /\ "SYS" \in cmu.users["AUD"]
      BY <2>2 DEF PInv, FastHolds, HoldsAud, SysHolds
    <3>2. cmu.users["AUD"] # {}
      BY <3>1
    <3> QED
      BY <2>1, <2>2, <3>1, <3>2 DEF PInv, Powered
  <2> QED
    BY <2>2 DEF FastClockHasPll
<1> QED
  BY <1>1, <1>2, PTL

----------------------------------------------------------------------------
(* With one fast user s the system clock holds the audio PLL exactly while it
   runs fast, it runs fast for s alone, and s is the top user: nobody else's
   request, and no driver that settles late, lowers it or keeps it up. *)
Alone(s)      == \A u \in User \ {s} : \A f \in Ask[u] : f <= F52M
OthersSlow(s) == \A u \in User \ {s} : perUser[u] <= F52M
FastFor(s)    == cmu.freq > F52M => topUser = s /\ perUser[s] = cmu.freq
HoldsFast     == SysHolds(cmu) => cmu.freq > F52M

SInv(s) == PInv /\ OthersSlow(s) /\ FastFor(s) /\ HoldsFast

\* Entering the low frequency mode gives the audio PLL back.
LEMMA LowFreqModeReleases ==
  ASSUME NEW c \in CmuType
  PROVE  ~SysHolds(LowFreqModeEnable(c))
<1>1. "AUD" \in Pll /\ "USB" \in Pll /\ "SYS" \in PllUser
  BY DEF Pll, PllUser
<1> DEFINE d == SwitchTo(c, "USB")
<1>2. d \in CmuType
  BY <1>1, SwitchToType
<1> HIDE DEF d
<1>3. PllDisable(d, "AUD", "SYS").users = [d.users EXCEPT !["AUD"] = @ \ {"SYS"}]
  BY <1>2 DEF PllDisable, CmuType
<1>4. "SYS" \notin [d.users EXCEPT !["AUD"] = @ \ {"SYS"}]["AUD"]
  BY <1>1, <1>2 DEF CmuType
<1>5. LowFreqModeEnable(c) = PllDisable(d, "AUD", "SYS")
  BY DEF LowFreqModeEnable, d
<1> QED
  BY <1>3, <1>4, <1>5 DEF SysHolds

LEMMA InitSInv == ASSUME NEW s \in AppUser, Init PROVE SInv(s)
<1>1. PInv
  BY InitPInv
<1>2. OthersSlow(s) /\ FastFor(s)
  BY UserAssumption DEF Init, OthersSlow, FastFor, F52M, F32K
<1>3. HoldsFast
  <2>1. "AUD" \in Pll /\ cmu.users = [p \in Pll |-> {}]
    BY DEF Init, Pll
  <2> QED
    BY <2>1 DEF HoldsFast, SysHolds
<1> QED
  BY <1>1, <1>2, <1>3 DEF SInv

\* A table in which the others are slow is topped by s or slow.
LEMMA TopOfTable ==
  ASSUME NEW s \in AppUser, NEW table \in [User -> Freq],
         \A u \in User \ {s} : table[u] <= F52M
  PROVE  /\ MaxReq(table) \in Freq
         /\ MaxReq(table) > F52M => MaxReq(table) = table[s] /\ FirstMax(table) = s
         /\ table[s] > F52M => MaxReq(table) = table[s]
<1>1. s \in User
  BY UserAssumption
<1>2. /\ MaxReq(table) \in Freq /\ \A u \in User : table[u] <= MaxReq(table)
      /\ \E u \in User : table[u] = MaxReq(table)
  BY MaxReqBounds
<1>3. FirstMax(table) \in User /\ table[FirstMax(table)] = MaxReq(table)
  BY FirstMaxIsUser
<1>4. \A u \in User \ {s} : ~(table[u] > F52M)
  BY DEF F52M, Freq
<1> QED
  BY <1>1, <1>2, <1>3, <1>4 DEF Freq, F52M

\* What the critical section grants keeps the clock fast for s alone.
LEMMA GrantFor ==
  ASSUME TypeOK, NEW s \in AppUser, NEW table \in [User -> Freq], NEW u \in User,
         \A v \in User \ {s} : table[v] <= F52M,
         cmu.freq > F52M => topUser = s,
         cmu.freq > F52M /\ u # s => table[s] = cmu.freq
  PROVE  GrantedFreq(u, table[u], table) > F52M =>
           /\ GrantedTop(u, table[u], table) = s
           /\ table[s] = GrantedFreq(u, table[u], table)
<1> DEFINE f     == table[u]
           freq  == GrantedFreq(u, f, table)
           top   == GrantedTop(u, f, table)
           most  == MaxReq(table)
           floor == AtLeast26M(most)
<1>1. s \in User /\ f \in Freq /\ cmu.freq \in Freq /\ table[s] \in Freq
  BY UserAssumption DEF TypeOK, CmuType
<1>2. /\ most \in Freq
      /\ most > F52M => most = table[s] /\ FirstMax(table) = s
      /\ table[s] > F52M => most = table[s]
  BY TopOfTable
<1>3. floor \in Freq /\ (floor > F52M => floor = most)
  BY <1>2 DEF AtLeast26M, Freq, F26M, F52M
<1>4. u # s => f <= F52M
  OBVIOUS
<1>5. /\ f > cmu.freq => freq = f /\ top = u
      /\ f = cmu.freq => freq = cmu.freq /\ top = u
      /\ f < cmu.freq /\ topUser = u /\ most # cmu.freq => freq = floor /\ top = FirstMax(table)
      /\ f < cmu.freq /\ ~(topUser = u /\ most # cmu.freq) => freq = cmu.freq /\ top = topUser
  BY <1>1 DEF GrantedFreq, GrantedTop, Releases, Freq
<1> HIDE DEF freq, top, most, floor, f
<1>6. ASSUME freq > F52M PROVE top = s /\ table[s] = freq
  <2>1. CASE f > cmu.freq
    BY <1>1, <1>4, <1>5, <1>6, <2>1 DEF Freq, F52M, f
  <2>2. CASE f = cmu.freq
    BY <1>1, <1>4, <1>5, <1>6, <2>2 DEF Freq, F52M, f
  <2>3. CASE f < cmu.freq /\ topUser = u /\ most # cmu.freq
    BY <1>2, <1>3, <1>5, <1>6, <2>3 DEF Freq, F52M
  <2>4. CASE f < cmu.freq /\ ~(topUser = u /\ most # cmu.freq)
    <3>1. freq = cmu.freq /\ top = s
      BY <1>5, <1>6, <2>4
    <3>2. CASE u = s
      <4>1. most = cmu.freq /\ cmu.freq > F52M
        BY <1>6, <2>4, <3>1, <3>2
      <4> QED
        BY <1>2, <3>1, <4>1
    <3>3. CASE u # s
      BY <1>6, <3>1, <3>3
    <3> QED
      BY <3>2, <3>3
  <2> QED
    BY <1>1, <2>1, <2>2, <2>3, <2>4 DEF Freq
<1> QED
  BY <1>6 DEF freq, top, f

LEMMA StoreSInv ==
  ASSUME NEW s \in AppUser, SInv(s), NEW u \in User \ AppUser, NEW f \in Ask[u], Store(u, f)
  PROVE  SInv(s)'
<1>1. PInv'
  BY StorePInv DEF SInv
<1>2. f <= F52M /\ u # s
  BY DriverAssumption
<1>3. OthersSlow(s)' /\ FastFor(s)'
  BY <1>2 DEF SInv, PInv, IInv, TypeOK, OthersSlow, FastFor, Store
<1>4. HoldsFast'
  BY DEF SInv, HoldsFast, SysHolds, Store
<1> QED
  BY <1>1, <1>3, <1>4 DEF SInv

LEMMA SettleSInv ==
  ASSUME NEW s \in AppUser, SInv(s), NEW u \in User \ AppUser, Settle(u)
  PROVE  SInv(s)'
<1> DEFINE freq == GrantedFreq(u, perUser[u], perUser)
<1>1. /\ TypeOK /\ perUser \in [User -> Freq] /\ perUser[u] = pending[u] /\ u \in User /\ u # s
      /\ cmu \in CmuType /\ OthersSlow(s) /\ FastFor(s) /\ HoldsFast
  BY DEF SInv, PInv, IInv, TypeOK, PendingStored, Settle
<1>2. PInv'
  BY SettlePInv DEF SInv
<1>3. /\ cmu' = [cmu EXCEPT !.freq = freq] /\ perUser' = perUser
      /\ topUser' = GrantedTop(u, perUser[u], perUser)
  BY <1>1 DEF Settle
<1>4. freq > F52M => topUser' = s /\ perUser[s] = freq
  BY <1>1, <1>3, GrantFor DEF OthersSlow, FastFor
<1>5. freq \in Freq /\ cmu.freq \in Freq
  BY <1>1, GrantedCovers DEF CmuType
<1>6. cmu'.freq = freq /\ cmu'.users = cmu.users
  BY <1>1, <1>3 DEF CmuType
<1>7. cmu.freq > F52M => freq > F52M
  <2> SUFFICES ASSUME cmu.freq > F52M PROVE freq = cmu.freq
    OBVIOUS
  <2>1. topUser = s /\ perUser[u] <= F52M
    BY <1>1 DEF OthersSlow, FastFor
  <2> QED
    BY <1>1, <1>5, <2>1 DEF GrantedFreq, Releases, Freq, F52M
<1> HIDE DEF freq
<1>8. OthersSlow(s)' /\ FastFor(s)'
  BY <1>1, <1>3, <1>4, <1>6 DEF OthersSlow, FastFor
<1>9. HoldsFast'
  BY <1>1, <1>6, <1>7 DEF HoldsFast, SysHolds
<1> QED
  BY <1>2, <1>8, <1>9 DEF SInv

LEMMA AppReqSInv ==
  ASSUME NEW s \in AppUser, Alone(s), SInv(s), NEW u \in AppUser, NEW f \in Ask[u], AppReq(u, f)
  PROVE  SInv(s)'
<1> DEFINE table   == [perUser EXCEPT ![u] = f]
           freq    == GrantedFreq(u, f, table)
           ready   == IF cmu.freq <= F52M /\ f > F52M
                      THEN LowFreqModeDisable(cmu) ELSE cmu
           settled == [ready EXCEPT !.freq = freq]
<1>1. /\ TypeOK /\ perUser \in [User -> Freq] /\ cmu \in CmuType
      /\ PInv /\ OthersSlow(s) /\ FastFor(s) /\ HoldsFast
  BY DEF SInv, PInv, IInv, TypeOK
<1>2. /\ u \in User /\ s \in User /\ f \in Freq /\ table \in [User -> Freq] /\ table[u] = f
      /\ \A v \in User \ {u} : table[v] = perUser[v]
  BY <1>1, UserAssumption, AskAssumption
<1>3. PInv'
  BY <1>1, AppReqPInv
<1>4. perUser' = table /\ topUser' = GrantedTop(u, f, table)
  BY DEF AppReq
<1>5. cmu'.freq = freq /\ freq \in Freq /\ cmu.freq \in Freq
  BY <1>1, <1>2, AppReqCmu, GrantedCovers DEF CmuType
<1>6. cmu' = IF cmu.freq > F52M /\ freq <= F52M
             THEN LowFreqModeEnable(settled) ELSE settled
  BY DEF AppReq
<1>7. ready \in CmuType
  BY <1>1, LowFreqModeType
<1>8. settled \in CmuType /\ settled.users = ready.users
  BY <1>5, <1>7 DEF CmuType
<1>9. \A v \in User \ {s} : table[v] <= F52M
  BY <1>1, <1>2 DEF Alone, OthersSlow
<1>10. freq > F52M => topUser' = s /\ table[s] = freq
  <2>1. cmu.freq > F52M => topUser = s
    BY <1>1 DEF FastFor
  <2>2. cmu.freq > F52M /\ u # s => table[s] = cmu.freq
    BY <1>1, <1>2 DEF FastFor
  <2> HIDE DEF table
  <2> QED
    BY <1>1, <1>2, <1>4, <1>9, <2>1, <2>2, GrantFor
<1> HIDE DEF table, freq, ready, settled
<1>11. OthersSlow(s)' /\ FastFor(s)'
  BY <1>4, <1>5, <1>9, <1>10 DEF OthersSlow, FastFor
<1>12. HoldsFast'
  <2> SUFFICES ASSUME SysHolds(cmu'), ~(freq > F52M) PROVE FALSE
    BY <1>5 DEF HoldsFast
  <2>1. freq <= F52M
    BY <1>5 DEF Freq, F52M
  <2>2. ~(cmu.freq > F52M)
    BY <1>6, <1>8, <2>1, LowFreqModeReleases
  <2>3. f <= F52M
    BY <1>2, <1>5, <2>1, GrantedCovers, <1>1 DEF Freq, F52M, freq
  <2>4. ready = cmu /\ cmu' = settled
    BY <1>2, <1>6, <2>2, <2>3 DEF ready, Freq, F52M
  <2>5. SysHolds(cmu)
    BY <1>8, <2>4 DEF SysHolds
  <2> QED
    BY <1>1, <2>2, <2>5 DEF HoldsFast
<1> QED
  BY <1>3, <1>11, <1>12 DEF SInv

LEMMA DeviceSInv == ASSUME NEW s \in AppUser, SInv(s), Device PROVE SInv(s)'
<1>1. PInv'
  BY DevicePInv DEF SInv
<1>2. PICK d \in {<<"AUD", "AUDIO">>, <<"USB", "USBDEV">>} :
        PllOpen(d[1], d[2]) \/ PllClose(d[1], d[2])
  BY DEF Device
<1>3. d[1] \in Pll /\ d[2] \in PllUser /\ d[2] # "SYS" /\ cmu \in CmuType
  BY DEF Pll, PllUser, SInv, PInv, IInv, TypeOK
<1>4. cmu' = PllEnable(cmu, d[1], d[2]) \/ cmu' = PllDisable(cmu, d[1], d[2])
  BY <1>2 DEF PllOpen, PllClose
<1>5. perUser' = perUser /\ topUser' = topUser
  BY <1>2 DEF PllOpen, PllClose
<1>6. cmu'.freq = cmu.freq
  BY <1>3, <1>4, PllOpsType
<1>7. SysHolds(cmu') <=> SysHolds(cmu)
  BY <1>3, <1>4, PllOpsHold
<1> QED
  BY <1>1, <1>5, <1>6, <1>7 DEF SInv, OthersSlow, FastFor, HoldsFast

LEMMA NextSInv == ASSUME NEW s \in AppUser, Alone(s), SInv(s), [Next]_vars PROVE SInv(s)'
<1>1. CASE Driver
  BY <1>1, StoreSInv, SettleSInv DEF Driver
<1>2. CASE App
  BY <1>2, AppReqSInv DEF App
<1>3. CASE Device
  BY <1>3, DeviceSInv
<1>4. CASE UNCHANGED vars
  <2>1. PInv'
    BY <1>4, NextPInv DEF SInv
  <2> QED
    BY <1>4, <2>1 DEF SInv, vars, OthersSlow, FastFor, HoldsFast, SysHolds
<1> QED
  BY <1>1, <1>2, <1>3, <1>4 DEF Next

(* app_sysfreq_req disables the PLL if capable: when one application user alone
   asks for more than 52 MHz, as with today's call sites APP_0, the system clock
   holds no PLL as soon as no request needs one, also while a driver's call
   waits between its halves. *)
THEOREM PllDisabledAlways ==
  ASSUME NEW s \in AppUser, Alone(s)
  PROVE  Spec => []PllDisabledIfCapable
<1>1. Init => SInv(s)
  BY InitSInv
<1>2. SInv(s) /\ [Next]_vars => SInv(s)'
  BY NextSInv
<1>3. SInv(s) => PllDisabledIfCapable
  <2> SUFFICES ASSUME SInv(s), NobodyNeedsPll, SysHolds(cmu) PROVE FALSE
    BY DEF PllDisabledIfCapable, SysHolds
  <2>1. cmu.freq > F52M /\ perUser[s] = cmu.freq /\ cmu.freq \in Freq
    BY DEF SInv, HoldsFast, FastFor, PInv, IInv, TypeOK, CmuType
  <2>2. perUser[s] <= F52M
    BY UserAssumption DEF NobodyNeedsPll
  <2> QED
    BY <2>1, <2>2 DEF Freq, F52M
<1> QED
  BY <1>1, <1>2, <1>3, PTL DEF Spec
=============================================================================
