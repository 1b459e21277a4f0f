------------------------------ MODULE SysFreq ------------------------------
(***************************************************************************)
(* The system clock arbiter: hal_sysfreq_req (platform/hal/hal_sysfreq.c), *)
(* its application wrapper app_sysfreq_req (apps/common/app_utils.c), and  *)
(* the PLL book-keeping both rely on (platform/hal/hal_cmu.c).             *)
(*                                                                         *)
(* Users numbered 0 .. Qty-1 ask for a frequency; the clock must run at    *)
(* least as fast as every granted request.  A driver calls                 *)
(* hal_sysfreq_req directly: it writes the request table with interrupts   *)
(* enabled (Store) and settles the clock under int_lock (Settle), so other *)
(* contexts may run in between.  The application goes through              *)
(* app_sysfreq_req, which holds int_lock all along (AppReq).               *)
(***************************************************************************)
EXTENDS Naturals

CONSTANTS
  Qty,        \* HAL_SYSFREQ_USER_QTY
  AppUser,    \* users of app_sysfreq_req: RESVALID_0 .. RESVALID_3
  BootUser,   \* RESVALID_0, for whom hal_cmu_setup asks for 52 MHz
  Ask,        \* Ask[u]: the frequencies the call sites of u ask for
  NoFreq      \* u is not between its store and its critical section

User == 0 .. Qty - 1

\* enum HAL_CMU_FREQ_T: 32K < 13M < 26M < 52M < 78M < 104M < 208M.
Freq == 0 .. 6
F32K == 0
F26M == 2
F52M == 3

Pll     == {"AUD", "USB"}
PllUser == {"SYS", "AUDIO", "USBDEV", "SWITCH"}

ASSUME QtyAssumption == Qty \in Nat \ {0}
ASSUME UserAssumption == AppUser \subseteq User /\ BootUser \in AppUser
ASSUME AskAssumption == Ask \in [User -> SUBSET Freq]
\* The drivers (KEY, USB, CODEC, INTERSYS, OVERLAY) ask for at most 52 MHz.
ASSUME DriverAssumption == \A u \in User \ AppUser : \A f \in Ask[u] : f <= F52M
ASSUME NoFreqAssumption == NoFreq \notin Freq

VARIABLES
  perUser,    \* sysfreq_per_user
  topUser,    \* top_user; a user ever since hal_cmu_setup's request
  pending,    \* the request a driver has stored and not yet settled
  cmu         \* the clock unit: sys_freq, PLL selected for SYS, PLLs, their users

vars == <<perUser, topUser, pending, cmu>>

CmuType == [freq  : Freq,
            sel   : Pll,
            users : [Pll -> SUBSET PllUser],
            on    : [Pll -> BOOLEAN]]

TypeOK ==
  /\ perUser \in [User -> Freq]
  /\ topUser \in User
  /\ pending \in [User -> Freq \cup {NoFreq}]
  /\ cmu \in CmuType

----------------------------------------------------------------------------
(* The clock unit. *)

\* hal_cmu_pll_enable: powered by the first user only.
PllEnable(c, p, u) ==
  [c EXCEPT !.on[p] = @ \/ c.users[p] = {}, !.users[p] = @ \cup {u}]

\* (mutant) the user's bit is cleared although it does not power down
PllDisableNoPowerDown(c, p, u) == [c EXCEPT !.users[p] = @ \ {u}]

\* hal_cmu_pll_disable: powered down by the last user only.
PllDisable(c, p, u) ==
  [c EXCEPT !.on[p] = @ /\ c.users[p] # {u}, !.users[p] = @ \ {u}]

SelectPll(c, p) == [c EXCEPT !.sel = p]

\* Both PLLs run while the multiplexer is switched from one to the other.
SwitchTo(c, p) ==
  PllDisable(PllDisable(
    SelectPll(PllEnable(PllEnable(c, "AUD", "SWITCH"), "USB", "SWITCH"), p),
    "AUD", "SWITCH"), "USB", "SWITCH")

\* (mutant) the low frequency mode keeps the system clock's hold on the PLL
LowFreqModeEnableKeepsPll(c) == SwitchTo(c, "USB")

LowFreqModeEnable(c)  == PllDisable(SwitchTo(c, "USB"), "AUD", "SYS")

\* (mutant) the switch without a hold of its own on the PLL
LowFreqModeDisableNoHold(c) == SwitchTo(c, "AUD")

LowFreqModeDisable(c) == SwitchTo(PllEnable(c, "AUD", "SYS"), "AUD")

----------------------------------------------------------------------------
(* The critical section of hal_sysfreq_req. *)

MaxReq(table) ==
  CHOOSE f \in Freq : /\ \E u \in User : table[u] = f
                      /\ \A u \in User : table[u] <= f

\* (mutant) the loop's counter instead of the user it found
FirstMaxOffByOne(table) ==
  CHOOSE u \in 1 .. Qty : table[u - 1] = MaxReq(table)

\* The scan keeps the first user that reaches the maximum.
FirstMax(table) ==
  CHOOSE u \in User : /\ table[u] = MaxReq(table)
                      /\ \A v \in User : table[v] = MaxReq(table) => u <= v

AtLeast26M(f) == IF f > F26M THEN f ELSE F26M

\* The user whose request drives the clock gives it up.
Releases(u, f, table) ==
  /\ f < cmu.freq
  /\ topUser = u
  /\ MaxReq(table) # cmu.freq

\* (mutant) the top user's lower request is granted without the scan
GrantedFreqNoScan(u, f, table) ==
  IF f > cmu.freq \/ topUser = u THEN AtLeast26M(f) ELSE cmu.freq

GrantedFreq(u, f, table) ==
  IF f > cmu.freq THEN f
  ELSE IF Releases(u, f, table) THEN AtLeast26M(MaxReq(table)) ELSE cmu.freq

GrantedTop(u, f, table) ==
  IF f >= cmu.freq THEN u
  ELSE IF Releases(u, f, table) THEN FirstMax(table) ELSE topUser

----------------------------------------------------------------------------
\* hal_cmu_setup: 26 MHz, both PLLs off, then a request of 52 MHz for BootUser.
Init ==
  /\ perUser = [u \in User |-> IF u = BootUser THEN F52M ELSE F32K]
  /\ topUser = BootUser
  /\ pending = [u \in User |-> NoFreq]
  /\ cmu = [freq |-> F52M, sel |-> "USB",
            users |-> [p \in Pll |-> {}], on |-> [p \in Pll |-> FALSE]]

\* A driver's call up to int_lock.
Store(u, f) ==
  /\ pending[u] = NoFreq
  /\ perUser' = [perUser EXCEPT ![u] = f]
  /\ pending' = [pending EXCEPT ![u] = f]
  /\ UNCHANGED <<topUser, cmu>>

\* The rest of a driver's call.
Settle(u) ==
  /\ pending[u] # NoFreq
  /\ cmu' = [cmu EXCEPT !.freq = GrantedFreq(u, pending[u], perUser)]
  /\ topUser' = GrantedTop(u, pending[u], perUser)
  /\ pending' = [pending EXCEPT ![u] = NoFreq]
  /\ UNCHANGED perUser

\* app_sysfreq_req under ULTRA_LOW_POWER, with interrupts locked throughout.
AppReq(u, f) ==
  LET table   == [perUser EXCEPT ![u] = f]
      freq    == GrantedFreq(u, f, table)
      ready   == IF cmu.freq <= F52M /\ f > F52M
                 THEN LowFreqModeDisable(cmu) ELSE cmu
      settled == [ready EXCEPT !.freq = freq]
  IN /\ perUser' = table
     /\ topUser' = GrantedTop(u, f, table)
     /\ cmu' = IF cmu.freq > F52M /\ freq <= F52M
               THEN LowFreqModeEnable(settled) ELSE settled
     /\ UNCHANGED pending

\* The audio and the USB driver hold their PLL while they are open.
PllOpen(p, u) ==
  /\ cmu' = PllEnable(cmu, p, u)
  /\ UNCHANGED <<perUser, topUser, pending>>

PllClose(p, u) ==
  /\ cmu' = PllDisable(cmu, p, u)
  /\ UNCHANGED <<perUser, topUser, pending>>

Driver == \E u \in User \ AppUser : (\E f \in Ask[u] : Store(u, f)) \/ Settle(u)
App    == \E u \in AppUser : \E f \in Ask[u] : AppReq(u, f)
Device == \E d \in {<<"AUD", "AUDIO">>, <<"USB", "USBDEV">>} :
            PllOpen(d[1], d[2]) \/ PllClose(d[1], d[2])

Next == Driver \/ App \/ Device

Spec == Init /\ [][Next]_vars

----------------------------------------------------------------------------
(* The clock is never slower than a request that has been granted, however
   the two halves of the drivers' calls interleave with other requests:
   whoever relies on a frequency after hal_sysfreq_req returned keeps it
   until he gives it up himself. *)
Covered ==
  \A u \in User : pending[u] = NoFreq => perUser[u] <= cmu.freq

(* The frequencies above 52 MHz are divided from a PLL: the PLL the system
   clock is switched to is powered whenever they are in use, whatever the
   audio and the USB driver open and close meanwhile. *)
FastClockHasPll == cmu.freq > F52M => cmu.sel = "AUD" /\ cmu.on["AUD"]

(* A PLL is powered exactly as long as somebody holds it, whatever the order
   in which the system clock, audio and USB take it and give it back. *)
PllPoweredByUsers == \A p \in Pll : cmu.on[p] <=> cmu.users[p] # {}

(* "Disable PLL if capable" (apps/common/app_utils.c:31): once no request in
   the table needs a PLL, the system clock does not hold one.  It depends on
   what the users ask for: with today's call sites one user alone asks for
   more than 52 MHz. *)
NobodyNeedsPll == \A u \in User : perUser[u] <= F52M /\ pending[u] = NoFreq
PllDisabledIfCapable == NobodyNeedsPll => "SYS" \notin cmu.users["AUD"]
=============================================================================
