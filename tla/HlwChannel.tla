----------------------------- MODULE HlwChannel -----------------------------
(***************************************************************************)
(* One measuring channel of the HLW8012 driver -- power (P), voltage (V)   *)
(* or current (I) -- and the energy counter: what a pulse of the chip, a   *)
(* millisecond of the timer and the look the driver takes at the channel   *)
(* each millisecond do to it.  The three copies the code has of this logic *)
(* differ in two limits only.  PowerMeter composes the channels.           *)
(*                                                                         *)
(* A channel measures how long pulses take: the time of one cycle when     *)
(* they are slow ("single cycle"), the time of the pulses of a window when *)
(* they are fast ("counting").                                             *)
(***************************************************************************)
EXTENDS Integers

CONSTANTS
  MS100,       \* D_TIME1_100MS: shortest single cycle, when the mode is chosen
  MS200, S1,   \* D_TIME1_200MS, D_TIME1_1S: counting windows
  V_OVERFLOW, I_OVERFLOW, P_OVERFLOW,  \* D_TIME1_x_OVERFLOW: no pulse for so long
  CntWrap,     \* bound: where the 32 bit pulse counter wraps
  EnergyWrap   \* bound: where the 32 bit energy register wraps

\* The order of the times, in ticks of the timer.
ASSUME TimeAssumption ==
  /\ {MS100, MS200, S1, V_OVERFLOW, I_OVERFLOW, P_OVERFLOW} \subseteq Nat \ {0}
  /\ 1 < MS100 /\ MS100 < MS200 /\ MS200 < V_OVERFLOW /\ V_OVERFLOW < S1
  /\ S1 < I_OVERFLOW /\ I_OVERFLOW < P_OVERFLOW
  /\ {CntWrap, EnergyWrap} \subseteq Nat \ {0}

Channel == {"P", "V", "I"}
Window(c) == IF c = "V" THEN MS200 ELSE S1
Limit(c) == CASE c = "P" -> P_OVERFLOW [] c = "V" -> V_OVERFLOW [] c = "I" -> I_OVERFLOW

\* Init_Rom: the fields are Uxx_x_TotalTimes, _OneCycleTime, _CNT,
\* B_x_TestOneCycle_Mode and B_x_OVERFLOW; last holds the _Last_ variables.
Fresh ==
  [total |-> 0, cycle |-> 0, cnt |-> 0, one |-> TRUE, over |-> TRUE,
   last |-> [cnt |-> 0, one |-> TRUE, over |-> TRUE]]

-----------------------------------------------------------------------------
(* A pulse. *)

\* Mutant: the time is not taken back to zero.
RestartedLate(ch) == [ch EXCEPT !.total = 0, !.cnt = 1, !.one = FALSE, !.over = FALSE]
Restarted(ch) == [ch EXCEPT !.total = 0, !.cycle = 0, !.cnt = 1, !.one = FALSE,
                            !.over = FALSE]

\* Bound: three pulses stand for more.
Count(n) == IF n < 3 THEN n + 1 ELSE n

\* The pulse that ends a measurement.
Due(ch, window) == ~ch.over /\ ch.cycle >= (IF ch.one THEN MS100 ELSE window)

\* The measurement it ends; how long it took is not kept.  A single cycle leaves
\* the last count alone.
Measured(ch) ==
  [cnt |-> IF ch.one THEN ch.last.cnt ELSE Count(ch.cnt), one |-> ch.one,
   over |-> FALSE]

Pulsed(ch, window) ==
  IF ch.over THEN Restarted(ch)
  ELSE IF Due(ch, window) THEN [Restarted(ch) EXCEPT !.last = Measured(ch)]
  ELSE [ch EXCEPT !.total = 0, !.cnt = Count(@)]

-----------------------------------------------------------------------------
(* A millisecond. *)

\* Time counts from the first pulse on.
Ticked(ch) == IF ch.cnt = 0 THEN ch
              ELSE [ch EXCEPT !.cycle = @ + 1, !.total = @ + 1]

\* The look at the channel: no pulse for too long; otherwise, at exactly 100 ms,
\* the mode.
Overflowed(ch, limit) == ch.total >= limit
Cleared(ch) == [ch EXCEPT !.total = 0, !.cycle = 0, !.cnt = 0, !.one = FALSE]
\* Mutant: what the main loop looks at is not marked.
MarkedLive(ch) == [ch EXCEPT !.over = TRUE]
Marked(ch) == [ch EXCEPT !.over = TRUE, !.last = [@ EXCEPT !.over = TRUE]]
Choosing(ch) == ch.cycle = MS100
\* Mutant: off by one.
FewOff(ch) == ch.cnt < 1
Few(ch) == ch.cnt < 2

\* Mutant: the mode is left as it is when pulses were many.
LookedLazy(ch, limit) ==
  IF Overflowed(ch, limit) THEN Cleared(Marked(ch))
  ELSE IF Choosing(ch) THEN [ch EXCEPT !.one = Few(ch) \/ @]
  ELSE ch
Looked(ch, limit) ==
  IF Overflowed(ch, limit) THEN Cleared(Marked(ch))
  ELSE IF Choosing(ch) THEN [ch EXCEPT !.one = Few(ch)]
  ELSE ch

\* A switch between voltage and current: the channel switched to starts anew, in
\* the mode it was left in.
Selected(ch) == [ch EXCEPT !.total = 0, !.cycle = 0, !.cnt = 0, !.over = FALSE]

\* The channel switched from: its counts are not read before they are cleared.
Parked(ch) == [ch EXCEPT !.total = 0, !.cycle = 0, !.cnt = 0]

-----------------------------------------------------------------------------
(* The energy counter: cnt pulses towards the ref that make 0.01 kWh. *)

\* Mutant: the count is not taken back to zero.
EnergyPulsedOn(e, work) ==
  IF work = "cal_start" THEN [e EXCEPT !.cnt = (@ + 1) % CntWrap]
  ELSE IF work # "normal" THEN e
  ELSE IF (e.cnt + 1) % CntWrap = e.ref THEN [e EXCEPT !.ac = (@ + 1) % EnergyWrap]
  ELSE [e EXCEPT !.cnt = (@ + 1) % CntWrap]
EnergyPulsed(e, work) ==
  IF work = "cal_start" THEN [e EXCEPT !.cnt = (@ + 1) % CntWrap]
  ELSE IF work # "normal" THEN e
  ELSE IF (e.cnt + 1) % CntWrap = e.ref THEN [e EXCEPT !.cnt = 0, !.ac = (@ + 1) % EnergyWrap]
  ELSE [e EXCEPT !.cnt = (@ + 1) % CntWrap]
=============================================================================
