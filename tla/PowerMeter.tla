----------------------------- MODULE PowerMeter -----------------------------
(***************************************************************************)
(* The HLW8012 power meter: the interrupts of its two pulse inputs, the    *)
(* millisecond timer and the main loop.  Two programs share this logic:    *)
(*   "vendor"  C_HLW8012.c: TIM1 is an interrupt that counts the time,     *)
(*             looks at the channels and switches between voltage and      *)
(*             current; the main loop computes without end;                *)
(*   "demo"    HLW8012/: the timer callback only counts the time; the main *)
(*             loop calls what was TIM1's handler at every turn, and       *)
(*             computes what an interrupt has flagged.                     *)
(* Interrupts do not interrupt each other; they interrupt the main loop    *)
(* between any two of its steps.                                           *)
(***************************************************************************)
EXTENDS HlwChannel

CONSTANTS
  Setups,         \* the programs considered, the inputs that get pulses, and
                  \* whether the flash holds a calibration record
  VTime0, VTime, ITime,  \* D_TIME1_2S, D_TIME1_1S, D_TIME1_10S: turns of V and I
  S6,             \* D_TIME1_6S: current is computed in the rest of its turn
  CAL_TIME,       \* D_TIME1_CAL_TIME
  Ref,            \* pulses per 0.01 kWh kept in flash by an earlier calibration
  TimerWrap,      \* bound: where the 32 bit count of vi_times wraps
  Burst,          \* bound: pulses of an input between two ticks
  TurnsPerTick    \* turns of the demo's main loop between two ticks, at least

ASSUME MeterAssumption ==
  /\ Setups \subseteq {"demo", "vendor"} \X (SUBSET {"CF", "CF1"}) \X BOOLEAN
  /\ \A s \in Setups : s[1] = "vendor" => s[3]
  /\ {VTime0, VTime, ITime, S6, CAL_TIME, Ref, TimerWrap, Burst} \subseteq Nat \ {0}
  /\ S6 < ITime
  /\ Ref < CntWrap               \* the reference is as wide as the counter
  /\ TurnsPerTick \in Nat \ {0, 1}

VARIABLES
  board, lines, stored,  \* the setup
  ch,           \* the channels
  select,       \* B_VI_Test_Mode: "V" or "I"
  vi_times,     \* U16_VI_Test_Times
  work,         \* U8_CURR_WorkMode
  cal_times,    \* U32_Cal_Times; bound: it stays at CAL_TIME + 1
  energy,       \* U16_E_Pluse_CNT, U16_REF_001_E_Pluse_CNT and U32_AC_E
  flag,         \* Measure_x_Flag
  ac,           \* whether U16_AC_x shows a value other than 0
  main,         \* where the main loop is, and the locals of what it runs
  turns,        \* turns of the main loop since the last tick
  burst,        \* pulses since the last tick
  pulses        \* history: pulses counted as energy

chanVars == <<ch, select, vi_times>>
calcVars == <<flag, ac>>
envVars  == <<board, lines, stored, turns, burst>>
calVars  == <<work, cal_times, energy, pulses>>
meterVars == <<board, lines, stored, ch, select, vi_times, work, cal_times, energy, flag,
               ac, main, turns, burst, pulses>>

At(pc) == main.pc = pc
Goto(pc) == main' = [pc |-> pc]
GotoFor(pc, c) == main' = [pc |-> pc, chan |-> c]

\* Load_CalData_Flash: without a record in flash the demo calibrates first.  The
\* vendor's main loop reads its EEPROM and measures.
FirstWork == IF board = "vendor" THEN "normal"
             ELSE IF stored THEN "cal_end" ELSE "cal_start"

\* Init_Rom
MeterInit ==
  /\ \E s \in Setups : board = s[1] /\ lines = s[2] /\ stored = s[3]
  /\ ch = [c \in Channel |-> Fresh]
  /\ select = "V" /\ vi_times = VTime0
  /\ work = FirstWork
  /\ energy = [cnt |-> 0, ref |-> IF stored THEN Ref ELSE 0, ac |-> 0]
  /\ cal_times = 0
  /\ flag = [c \in Channel |-> FALSE]
  /\ ac = [c \in Channel |-> FALSE]
  /\ main = [pc |-> "top"]
  /\ turns = TurnsPerTick /\ burst = 0 /\ pulses = 0

-----------------------------------------------------------------------------
(* Interrupts. *)

Flagging(c) == board = "demo" /\ Due(ch[c], Window(c))

\* PC5_EXTI_Interrupt
PowerPulse ==
  /\ "CF" \in lines /\ burst < Burst
  /\ ch' = [ch EXCEPT !["P"] = Pulsed(@, Window("P"))]
  /\ flag' = [flag EXCEPT !["P"] = @ \/ Flagging("P")]
  /\ energy' = EnergyPulsed(energy, work)
  /\ pulses' = IF work = "normal" THEN (pulses + 1) % (EnergyWrap * Ref) ELSE pulses
  /\ burst' = burst + 1
  /\ UNCHANGED <<board, lines, stored, turns, select, vi_times, work, cal_times, ac, main>>

\* What a finished voltage or current measurement sets: a counted current sets
\* the flag of the voltage.
FlagOf(c) == IF c = "I" /\ ~ch["I"].one THEN "V" ELSE c

\* PD2_EXTI_Interrupt
VIPulse ==
  /\ "CF1" \in lines /\ burst < Burst
  /\ ch' = [ch EXCEPT ![select] = Pulsed(@, Window(select))]
  /\ flag' = [flag EXCEPT ![FlagOf(select)] = @ \/ Flagging(select)]
  /\ burst' = burst + 1
  /\ UNCHANGED <<board, lines, stored, turns, select, vi_times, calVars, ac, main>>

\* Bound: voltage and current take turns only where their input gets pulses.
Elapsed == IF "CF1" \in lines THEN (vi_times - 1) % TimerWrap ELSE vi_times

\* The time the interrupt counts, and the channels it counts it for.
Timed == [c \in Channel |-> IF c = "P" \/ c = select THEN Ticked(ch[c]) ELSE ch[c]]

\* Timing_cb.  The main loop makes TurnsPerTick turns in a millisecond.
DemoTick ==
  /\ board = "demo" /\ turns >= TurnsPerTick
  /\ ch' = Timed
  /\ cal_times' = IF cal_times < CAL_TIME + 1 THEN cal_times + 1 ELSE cal_times
  /\ vi_times' = Elapsed
  /\ turns' = 0 /\ burst' = 0
  /\ UNCHANGED <<board, lines, stored, select, work, energy, pulses, calcVars, main>>

\* TIM1_UPD_Interrupt of the vendor: time and look in one interrupt.
VendorTimer ==
  /\ board = "vendor"
  /\ LET seen == [c \in Channel |-> IF c = "P" \/ c = select
                                    THEN Looked(Ticked(ch[c]), Limit(c)) ELSE ch[c]]
         other == IF select = "V" THEN "I" ELSE "V"
     IN IF Elapsed = 0
        THEN /\ ch' = [seen EXCEPT ![other] = Selected(@), ![select] = Parked(@)]
             /\ select' = other
             /\ vi_times' = IF other = "I" THEN ITime ELSE VTime
        ELSE /\ ch' = seen
             /\ vi_times' = Elapsed
             /\ UNCHANGED select
  /\ burst' = 0
  /\ UNCHANGED <<board, lines, stored, turns, calVars, calcVars, main>>

-----------------------------------------------------------------------------
(* The demo's main loop: TIM1_UPD_Interrupt, called as a function. *)

\* Mutant: measuring is not resumed.
TopStays ==
  /\ board = "demo" /\ At("top")
  /\ Goto("cal")
  /\ UNCHANGED <<envVars, chanVars, calcVars, calVars>>

\* Start of a turn; a calibration that has ended gives way to measuring.
Top ==
  /\ board = "demo" /\ At("top")
  /\ work' = IF work = "cal_end" THEN "normal" ELSE work
  /\ Goto("cal")
  /\ UNCHANGED <<envVars, chanVars, calcVars, cal_times, energy, pulses>>

\* The calibration ends at exactly 36 s; no pulse counts between the two writes.
Calibrate ==
  /\ At("cal")
  /\ IF work = "cal_start" /\ cal_times = CAL_TIME
     THEN work' = "cal_end" /\ energy' = [energy EXCEPT !.ref = energy.cnt]
     ELSE UNCHANGED <<work, energy>>
  /\ GotoFor("over", "P")
  /\ UNCHANGED <<envVars, chanVars, calcVars, cal_times, pulses>>

\* The look at a channel, one access to shared variables at a time: an interrupt
\* may come between any two.
LookOver ==
  /\ At("over")
  /\ IF Overflowed(ch[main.chan], Limit(main.chan))
     THEN /\ ch' = [ch EXCEPT ![main.chan] = Marked(@)]
          /\ GotoFor("clear", main.chan)
     ELSE /\ GotoFor("near", main.chan)
          /\ UNCHANGED ch
  /\ UNCHANGED <<envVars, calVars, calcVars, select, vi_times>>

AfterLook == IF main.chan = "P" THEN GotoFor("over", select) ELSE Goto("switch")

LookClear ==
  /\ At("clear")
  /\ ch' = [ch EXCEPT ![main.chan] = Cleared(@)]
  /\ AfterLook
  /\ UNCHANGED <<envVars, calVars, calcVars, select, vi_times>>

LookNear ==
  /\ At("near")
  /\ IF Choosing(ch[main.chan]) THEN GotoFor("few", main.chan) ELSE AfterLook
  /\ UNCHANGED <<envVars, calVars, calcVars, chanVars>>

LookFew ==
  /\ At("few")
  /\ main' = [pc |-> "choose", chan |-> main.chan, few |-> Few(ch[main.chan])]
  /\ UNCHANGED <<envVars, calVars, calcVars, chanVars>>

LookChoose ==
  /\ At("choose")
  /\ ch' = [ch EXCEPT ![main.chan] = [@ EXCEPT !.one = main.few]]
  /\ AfterLook
  /\ UNCHANGED <<envVars, calVars, calcVars, select, vi_times>>

\* Every so often the chip's CF1 pin is switched between voltage and current.
Switch ==
  /\ At("switch")
  /\ IF vi_times = 0
     THEN LET other == IF select = "V" THEN "I" ELSE "V"
          IN /\ select' = other
             /\ vi_times' = IF other = "I" THEN ITime ELSE VTime
             /\ ch' = [ch EXCEPT ![other] = Selected(@), ![select] = Parked(@)]
     ELSE UNCHANGED chanVars
  /\ GotoFor("serve", "P")
  /\ UNCHANGED <<envVars, calVars, calcVars>>

-----------------------------------------------------------------------------
(* HLW8012_Measure_P, _V and _I, in both programs. *)

\* The order of the main loop: P, I, V in the demo, P, V, I in the vendor's.
NextChan(c) ==
  IF board = "demo" THEN CASE c = "P" -> "I" [] c = "I" -> "V" [] c = "V" -> "end"
  ELSE CASE c = "P" -> "V" [] c = "V" -> "I" [] c = "I" -> "end"

\* Voltage and current are computed anew at the end of their turn only.
InTime(c) == CASE c = "P" -> TRUE [] c = "V" -> vi_times < MS100 [] c = "I" -> vi_times < S6

\* The demo computes a channel when its flag is up, the vendor's program always.
Serve ==
  /\ At("serve")
  /\ IF main.chan = "end"
     THEN /\ Goto("top")
          /\ turns' = IF board = "demo" /\ turns < TurnsPerTick THEN turns + 1 ELSE turns
     ELSE /\ IF flag[main.chan] \/ board = "vendor" THEN GotoFor("mode", main.chan)
             ELSE GotoFor("serve", NextChan(main.chan))
          /\ UNCHANGED turns
  /\ UNCHANGED <<board, lines, stored, burst, calVars, calcVars, chanVars>>

VendorTop ==
  /\ board = "vendor" /\ At("top")
  /\ GotoFor("serve", "P")
  /\ UNCHANGED <<envVars, calVars, calcVars, chanVars>>

\* The stored measurement is read a variable at a time, mode, time and count, to
\* compute the width of a pulse, unless the one computed last is used again.
ReadMode ==
  /\ At("mode")
  /\ IF InTime(main.chan)
     THEN main' = [pc |-> "time", chan |-> main.chan, one |-> ch[main.chan].last.one]
     ELSE GotoFor("show", main.chan)
  /\ UNCHANGED <<envVars, calVars, calcVars, chanVars>>

ReadTime ==
  /\ At("time")
  /\ GotoFor(IF main.one THEN "show" ELSE "count", main.chan)
  /\ UNCHANGED <<envVars, calVars, calcVars, chanVars>>

ReadCount ==
  /\ At("count")
  /\ GotoFor("show", main.chan)
  /\ UNCHANGED <<envVars, calVars, calcVars, chanVars>>

\* The overflow that is looked at: for the current the one of the running
\* measurement.
Silent(c) == IF c = "I" THEN ch["I"].over ELSE ch[c].last.over

\* The value shown is 0 when the channel has overflowed; voltage and current are
\* 0 when the power is.
Show ==
  /\ At("show")
  /\ LET c == main.chan
     IN /\ ac' = [ac EXCEPT ![c] = ~Silent(c) /\ (c = "P" \/ ac["P"])]
        /\ IF board = "demo" THEN GotoFor("lower", c) ELSE GotoFor("serve", NextChan(c))
  /\ UNCHANGED <<envVars, calVars, chanVars, flag>>

\* Mutant: the flag stays up.
LowerNot ==
  /\ At("lower")
  /\ GotoFor("serve", NextChan(main.chan))
  /\ UNCHANGED <<envVars, calVars, chanVars, calcVars>>

Lower ==
  /\ At("lower")
  /\ flag' = [flag EXCEPT ![main.chan] = FALSE]
  /\ GotoFor("serve", NextChan(main.chan))
  /\ UNCHANGED <<envVars, calVars, chanVars, ac>>

-----------------------------------------------------------------------------

Main ==
  \/ Top \/ Calibrate \/ VendorTop
  \/ LookOver \/ LookClear \/ LookNear \/ LookFew \/ LookChoose \/ Switch
  \/ Serve \/ ReadMode \/ ReadTime \/ ReadCount \/ Show \/ Lower

MeterNext == PowerPulse \/ VIPulse \/ DemoTick \/ VendorTimer \/ Main

\* The main loop never waits, and the timer never stops.
MeterSpec ==
  /\ MeterInit /\ [][MeterNext]_meterVars
  /\ WF_meterVars(Main) /\ WF_meterVars(DemoTick \/ VendorTimer)

-----------------------------------------------------------------------------
(* Properties. *)

\* A single-cycle measurement that a pulse would end now has seen one cycle: "a
\* single cycle measurement must record one complete cycle"
\* (C_HLW8012_debug.c:229).  That is so when TIM1 is an interrupt of its own, also
\* for a channel that comes back in the mode it was left in.  (Polled, a pulse may
\* come between the read of the count and the choice of the mode.)
VendorSingleCycle ==
  board = "vendor" => \A c \in Channel : ch[c].one /\ Due(ch[c], Window(c)) => ch[c].cnt = 1

\* A counted measurement has seen two pulses in its first 100 ms, as the mode was
\* chosen in time: slow pulses are never counted, and the count less one never
\* divides by zero.  This rests on an equality the main loop must not miss.
CountedMeansFast ==
  \A c \in Channel : ~ch[c].last.one => ch[c].last.cnt >= 3

\* In the demo no pulse can end a measurement while the main loop reads the
\* variables of the one before, or while that one still waits: none is lost, and
\* none is computed from the variables of two.
PowerServed == board = "demo" => ~(flag["P"] /\ Due(ch["P"], Window("P")))
ReadsWhole ==
  board = "demo" /\ main.pc \in {"time", "count", "show"}
    => ~(main.chan \in {"P", select} /\ Due(ch[main.chan], Window(main.chan)))

\* With a reference from flash every pulse is in the energy or in the rest.
EnergyCounted ==
  stored => (energy.ac * Ref + energy.cnt) % (EnergyWrap * Ref) = pulses

\* In the vendor's program a load switched off is shown: once pulses have stayed
\* out for 12 s the power reads 0 until pulses come back.
LoadOffShown ==
  (board = "vendor" /\ ch["P"].over) ~> (~ac["P"] \/ ~ch["P"].over)

\* A calibration ends, although its end is looked for by an equality.
CalibrationEnds == work = "cal_start" ~> work = "normal"
=============================================================================
