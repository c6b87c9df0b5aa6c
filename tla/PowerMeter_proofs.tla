------------------------- MODULE PowerMeter_proofs -------------------------
(***************************************************************************)
(* Proofs about the power meter, in both programs: no pulse is lost from   *)
(* the energy; the way a channel measures fits the pulses it gets; and in  *)
(* the demo no measurement is overwritten before it is computed.  They     *)
(* hold for all times and widths in the order MeterAssumption gives them.  *)
(***************************************************************************)
EXTENDS PowerMeter, NatFacts

\* The times a channel is watched for, and the types of its fields; the model counts no
\* further than 3 pulses.
Times == {MS100, MS200, S1, V_OVERFLOW, I_OVERFLOW, P_OVERFLOW}

Counts == 0..3
Last == [cnt : Counts, one : BOOLEAN, over : BOOLEAN]
Chan == [total : Nat, cycle : Nat, cnt : Counts, one : BOOLEAN, over : BOOLEAN, last : Last]

-----------------------------------------------------------------------------
(* What the operations of a channel do to it. *)

\* What stands in last was measured as fast as it should be, and so is what is
\* measured now: settled says that a mode was chosen if now is the time to.
Fast(x, settled) ==
  /\ x \in Chan
  /\ x.cnt = 0 => x.cycle = 0
  /\ ~ x.last.one => x.last.cnt >= 3
  /\ ~ x.one /\ x.cycle >= MS100 /\ (x.cycle = MS100 => settled) => x.cnt >= 2

\* A measurement of one cycle has counted its beginning only.
Single(x) == x.one /\ x.cycle >= MS100 => x.cnt = 1

\* The fields of a channel have their types.
LEMMA ChanFields ==
  ASSUME NEW x \in Chan
  PROVE  /\ x.total \in Nat /\ x.cycle \in Nat /\ x.cnt \in 0..3 /\ x.cnt \in Counts
         /\ x.one \in BOOLEAN /\ x.last \in Last
         /\ x.last.cnt \in 0..3 /\ x.last.one \in BOOLEAN /\ x.last.cnt \in Counts
<1>1. /\ x.total \in Nat /\ x.cycle \in Nat /\ x.cnt \in Counts /\ x.last \in Last
      /\ x.one \in BOOLEAN
  BY DEF Chan
<1>2. x.last.cnt \in Counts /\ x.last.one \in BOOLEAN
  BY <1>1 DEF Last
<1> QED
  BY <1>1, <1>2 DEF Counts

\* Values the fields are set to.
LEMMA Values == /\ 0 \in Nat /\ 0 \in Counts /\ 1 \in Counts
                /\ TRUE \in BOOLEAN /\ FALSE \in BOOLEAN
BY DEF Counts

\* A channel that is switched on.
LEMMA FreshTyped == Fresh \in Chan /\ Fresh.cycle = 0 /\ Fast(Fresh, TRUE) /\ Single(Fresh)
<1>1. [cnt |-> 0, one |-> TRUE, over |-> TRUE] \in Last
  BY Values DEF Last
<1>2. Fresh \in Chan
  BY <1>1, Values DEF Fresh, Chan
<1>3. Fresh.cycle = 0 /\ Fresh.one /\ Fresh.last.one /\ ~ (Fresh.cycle >= MS100)
  BY TimeAssumption DEF Fresh
<1> QED
  BY <1>2, <1>3 DEF Fast, Single

\* A measurement starts, or the one that runs goes on.
LEMMA PulsedFields ==
  ASSUME NEW x \in Chan, NEW w
  PROVE  /\ Pulsed(x, w) \in Chan
         /\ \/ /\ Pulsed(x, w).cycle = 0 /\ Pulsed(x, w).cnt = 1 /\ ~ Pulsed(x, w).one
               /\ \/ Pulsed(x, w).last = x.last
                  \/ Due(x, w) /\ Pulsed(x, w).last = Measured(x)
            \/ /\ ~ Due(x, w) /\ ~ x.over
               /\ Pulsed(x, w).cycle = x.cycle /\ Pulsed(x, w).cnt = Count(x.cnt)
               /\ Pulsed(x, w).one = x.one /\ Pulsed(x, w).last = x.last
<1> DEFINE r == Restarted(x)
           m == [r EXCEPT !.last = Measured(x)]
           p == [x EXCEPT !.total = 0, !.cnt = Count(@)]
<1>1. /\ x.cnt \in 0..3 /\ x.last \in Last
      /\ x.one \in BOOLEAN /\ x.last.cnt \in 0..3
  BY ChanFields
<1>2. Count(x.cnt) \in Counts
  BY <1>1 DEF Count, Counts
<1>3. r \in Chan /\ r.cycle = 0 /\ r.cnt = 1 /\ ~ r.one /\ r.last = x.last
  <2>1. r = [x EXCEPT !.total = 0, !.cycle = 0, !.cnt = 1, !.one = FALSE, !.over = FALSE]
    BY DEF Restarted
  <2>2. r \in Chan
    BY <2>1, Values, Zenon DEF Chan
  <2>3. r.cycle = 0 /\ r.cnt = 1 /\ r.one = FALSE /\ r.last = x.last
    BY <2>1 DEF Chan
  <2> QED
    BY <2>2, <2>3
<1>4. Measured(x) \in Last
  <2> DEFINE n == IF x.one THEN x.last.cnt ELSE Count(x.cnt)
  <2>1. n \in Counts
    BY <1>2, ChanFields
  <2>2. Measured(x) = [cnt |-> n, one |-> x.one, over |-> FALSE]
    BY DEF Measured
  <2> HIDE DEF n
  <2> QED
    BY <1>1, <2>1, <2>2 DEF Last
<1>5. /\ m \in Chan /\ m.cycle = r.cycle /\ m.cnt = r.cnt /\ m.one = r.one
      /\ m.last = Measured(x)
  <2> HIDE DEF r
  <2> QED
    BY <1>3, <1>4 DEF Chan
<1>6. /\ p \in Chan /\ p.cycle = x.cycle /\ p.cnt = Count(x.cnt) /\ p.one = x.one
      /\ p.last = x.last
  BY <1>2 DEF Chan
<1>7. Pulsed(x, w) = IF x.over THEN r ELSE IF Due(x, w) THEN m ELSE p
  BY DEF Pulsed
<1> HIDE DEF r, m, p
<1>8. CASE x.over
  BY <1>3, <1>7, <1>8
<1>9. CASE ~ x.over /\ Due(x, w)
  <2>1. Pulsed(x, w) = m
    BY <1>7, <1>9
  <2> QED
    BY <1>3, <1>5, <1>9, <2>1
<1>10. CASE ~ x.over /\ ~ Due(x, w)
  BY <1>6, <1>7, <1>10
<1> QED
  BY <1>8, <1>9, <1>10

\* A pulse keeps a fast measurement fast, and a single cycle single.
LEMMA PulsedFast ==
  ASSUME NEW s \in BOOLEAN, NEW x, Fast(x, s), NEW w \in Nat, MS100 < w
  PROVE  /\ Fast(Pulsed(x, w), s)
         /\ Single(x) => Single(Pulsed(x, w))
<1> DEFINE y == Pulsed(x, w)
<1>1. x \in Chan /\ x.cycle \in Nat /\ x.cnt \in 0..3 /\ x.last.cnt \in 0..3
      /\ x.one \in BOOLEAN
  BY ChanFields DEF Fast
<1>2. MS100 \in Nat /\ MS100 > 1
  BY TimeAssumption
<1>3. /\ y \in Chan
      /\ \/ /\ y.cycle = 0 /\ y.cnt = 1 /\ ~ y.one
            /\ y.last = x.last \/ (Due(x, w) /\ y.last = Measured(x))
         \/ /\ ~ Due(x, w) /\ ~ x.over /\ y.cycle = x.cycle /\ y.cnt = Count(x.cnt)
            /\ y.one = x.one /\ y.last = x.last
  BY <1>1, PulsedFields
<1>4. Due(x, w) => /\ x.one => Measured(x).one
                   /\ ~ x.one => Measured(x).cnt >= 3
  <2> SUFFICES ASSUME Due(x, w)
               PROVE  /\ x.one => Measured(x).one
                      /\ ~ x.one => Measured(x).cnt >= 3
    OBVIOUS
  <2>1. x.one => Measured(x).one
    BY DEF Measured
  <2>2. ASSUME ~ x.one PROVE Measured(x).cnt >= 3
    <3>1. x.cycle >= w /\ x.cycle # MS100 /\ x.cycle >= MS100
      BY <1>1, <1>2, <2>2 DEF Due
    <3>2. x.cnt >= 2
      BY <2>2, <3>1 DEF Fast
    <3>3. Count(x.cnt) >= 3
      BY <1>1, <3>2 DEF Count
    <3> QED
      BY <2>2, <3>3 DEF Measured
  <2> QED
    BY <2>1, <2>2
<1>5. ~ y.last.one => y.last.cnt >= 3
  <2>1. CASE y.last = x.last
    BY <2>1 DEF Fast
  <2>2. CASE Due(x, w) /\ y.last = Measured(x)
    BY <1>1, <1>4, <2>2 DEF Measured
  <2> QED
    BY <1>3, <2>1, <2>2
<1> HIDE DEF y
<1>6. CASE y.cycle = 0
  <2>1. ~ (y.cycle >= MS100)
    BY <1>2, <1>6
  <2> QED
    BY <1>3, <1>5, <1>6, <2>1 DEF Fast, Single, y
<1>7. CASE ~ Due(x, w) /\ ~ x.over /\ y.cycle = x.cycle /\ y.cnt = Count(x.cnt)
           /\ y.one = x.one /\ y.last = x.last
  <2>1. y.cnt >= x.cnt /\ y.cnt \in 1..3
    BY <1>1, <1>7 DEF Count
  <2>2. ~ (x.one /\ x.cycle >= MS100)
    BY <1>7 DEF Due
  <2>3. ~ y.one /\ y.cycle >= MS100 /\ (y.cycle = MS100 => s) => y.cnt >= 2
    BY <1>1, <1>7, <2>1 DEF Fast
  <2> QED
    BY <1>3, <1>5, <1>7, <2>1, <2>2, <2>3 DEF Fast, Single, y
<1> QED
  BY <1>3, <1>6, <1>7

\* A millisecond does too, but then a look of the driver is due.
LEMMA TickedFast ==
  ASSUME NEW x, Fast(x, TRUE)
  PROVE  Fast(Ticked(x), FALSE) /\ Ticked(x).cycle \in {x.cycle, x.cycle + 1}
<1>1. x \in Chan /\ x.cycle \in Nat /\ x.total \in Nat /\ x.cnt \in 0..3
  BY ChanFields DEF Fast
<1>2. CASE x.cnt = 0
  BY <1>2 DEF Ticked, Fast
<1>3. CASE x.cnt # 0
  <2> DEFINE y == [x EXCEPT !.cycle = @ + 1, !.total = @ + 1]
  <2>1. Ticked(x) = y
    BY <1>3 DEF Ticked
  <2>2. /\ y \in Chan /\ y.cycle = x.cycle + 1 /\ y.cnt = x.cnt /\ y.one = x.one
        /\ y.last = x.last
    <3>0. x.cycle + 1 \in Nat /\ x.total + 1 \in Nat
      BY <1>1
    <3>1. y \in Chan
      BY <1>1, <3>0, Zenon DEF Chan
    <3>2. y.cycle = x.cycle + 1 /\ y.cnt = x.cnt /\ y.last = x.last
      BY <1>1 DEF Chan
    <3>3. y.one = x.one
      BY <1>1 DEF Chan
    <3> QED
      BY <3>1, <3>2, <3>3
  <2> HIDE DEF y
  <2>3. ~ y.one /\ y.cycle >= MS100 /\ y.cycle # MS100 => y.cnt >= 2
    <3>1. y.cycle >= MS100 /\ y.cycle # MS100 => x.cycle >= MS100
      BY <1>1, <2>2, TimeAssumption
    <3> QED
      BY <2>2, <3>1 DEF Fast
  <2> QED
    BY <1>3, <2>1, <2>2, <2>3 DEF Fast
<1> QED
  BY <1>1, <1>2, <1>3

\* Marking an overflow changes the flags of it only.
LEMMA MarkedFields ==
  ASSUME NEW x \in Chan
  PROVE  /\ Marked(x) \in Chan /\ Marked(x).cycle = x.cycle /\ Marked(x).cnt = x.cnt
         /\ Marked(x).one = x.one
         /\ Marked(x).last.cnt = x.last.cnt /\ Marked(x).last.one = x.last.one
<1> DEFINE l == [x.last EXCEPT !.over = TRUE]
<1>1. l \in Last /\ l.cnt = x.last.cnt /\ l.one = x.last.one
  <2>1. x.last \in Last
    BY ChanFields
  <2> QED
    BY <2>1 DEF Last
<1>2. Marked(x) = [x EXCEPT !.over = TRUE, !.last = l]
  BY DEF Marked
<1> HIDE DEF l
<1> QED
  BY <1>1, <1>2 DEF Chan

\* A channel that is cleared, begun or left has no cycle.
LEMMA ClearedFast ==
  ASSUME NEW s, NEW x, Fast(x, s), NEW y \in {Cleared(x), Selected(x), Parked(x)}
  PROVE  y.cycle = 0 /\ Fast(y, TRUE) /\ Single(y)
<1>1. x \in Chan
  BY DEF Fast
<1>2. y \in Chan /\ y.cycle = 0 /\ y.cnt = 0 /\ y.last = x.last
  <2> DEFINE z == [x EXCEPT !.total = 0, !.cycle = 0, !.cnt = 0]
  <2>1. z \in Chan
    BY <1>1, Values, Zenon DEF Chan
  <2>2. z.cycle = 0 /\ z.cnt = 0 /\ z.last = x.last
    BY <1>1 DEF Chan
  <2>3. y = z \/ (\E b \in {"one", "over"} : y = [z EXCEPT ![b] = FALSE])
    BY DEF Cleared, Selected, Parked
  <2> HIDE DEF z
  <2>4. ASSUME NEW b \in {"one", "over"}
        PROVE  /\ [z EXCEPT ![b] = FALSE] \in Chan /\ [z EXCEPT ![b] = FALSE].cycle = 0
               /\ [z EXCEPT ![b] = FALSE].cnt = 0 /\ [z EXCEPT ![b] = FALSE].last = x.last
    BY <2>1, <2>2 DEF Chan
  <2> QED
    BY <2>1, <2>2, <2>3, <2>4
<1>3. ~ (y.cycle >= MS100)
  BY <1>2, TimeAssumption
<1> QED
  BY <1>2, <1>3 DEF Fast, Single

\* Whether the overflow is marked does not matter here.
LEMMA MarkedFast ==
  ASSUME NEW s, NEW x, Fast(x, s) PROVE Fast(Marked(x), s)
BY MarkedFields DEF Fast

\* The mode is chosen by the count.
LEMMA ChosenFast ==
  ASSUME NEW s, NEW x, Fast(x, s), NEW few \in BOOLEAN,
         ~ few /\ x.cycle >= MS100 => x.cnt >= 2
  PROVE  /\ Fast([x EXCEPT !.one = few], TRUE)
         /\ [x EXCEPT !.one = few].cycle = x.cycle /\ [x EXCEPT !.one = few].cnt = x.cnt
<1> DEFINE y == [x EXCEPT !.one = few]
<1>1. x \in Chan
  BY DEF Fast
<1>2. /\ y \in Chan /\ y.cycle = x.cycle /\ y.cnt = x.cnt /\ y.last = x.last
      /\ y.one = few
  BY <1>1 DEF Chan
<1> HIDE DEF y
<1> QED
  BY <1>2 DEF Fast, y

\* The look of the vendor's timer at a channel whose time it just counted.
LEMMA LookedFast ==
  ASSUME NEW x, Fast(x, TRUE), Single(x), NEW l
  PROVE  Fast(Looked(Ticked(x), l), TRUE) /\ Single(Looked(Ticked(x), l))
<1> DEFINE y == Ticked(x)
           z == Looked(y, l)
<1>1. Fast(y, FALSE) /\ y \in Chan
  BY TickedFast DEF Fast
<1>2. x \in Chan /\ x.cycle \in Nat /\ x.total \in Nat /\ x.cnt \in 0..3
      /\ (x.cnt = 0 => x.cycle = 0)
  BY ChanFields DEF Fast
<1>3. MS100 \in Nat /\ MS100 > 1
  BY TimeAssumption
<1>4. /\ y.cnt = x.cnt /\ y.one = x.one
      /\ x.cnt = 0 => y.cycle = 0
      /\ x.cnt # 0 => y.cycle = x.cycle + 1
  BY <1>2 DEF Ticked, Chan
<1> HIDE DEF y
<1>5. CASE Overflowed(y, l)
  <2>1. z = Cleared(Marked(y))
    BY <1>5 DEF Looked
  <2>2. Fast(Marked(y), FALSE)
    BY <1>1, MarkedFast
  <2> QED
    BY <2>1, <2>2, ClearedFast DEF y
<1>6. CASE ~ Overflowed(y, l) /\ Choosing(y)
  <2>1. z = [y EXCEPT !.one = Few(y)]
    BY <1>6 DEF Looked
  <2>2. Few(y) \in BOOLEAN
    BY DEF Few
  <2>3. y.cnt \in 0..3 /\ (~ Few(y) => y.cnt >= 2)
    BY <1>1, ChanFields DEF Few
  <2>4. Fast(z, TRUE) /\ z.cnt = y.cnt /\ z.cycle = y.cycle
    <3> DEFINE few == Few(y)
    <3> HIDE DEF few, z
    <3>1. few \in BOOLEAN /\ z = [y EXCEPT !.one = few] /\ (~ few => y.cnt >= 2)
      BY <2>1, <2>2, <2>3 DEF few
    <3> QED
      BY <1>1, <3>1, ChosenFast
  <2>5. z.one = Few(y)
    BY <1>1, <2>1 DEF Chan
  <2>6. Single(z)
    <3>1. y.cycle = MS100 /\ y.cnt # 0
      BY <1>2, <1>3, <1>4, <1>6 DEF Choosing
    <3>2. Few(y) => y.cnt = 1
      BY <1>4, <2>3, <3>1 DEF Few
    <3> HIDE DEF z
    <3>3. z.one => z.cnt = 1
      BY <2>4, <2>5, <3>2
    <3> QED
      BY <3>3 DEF Single
  <2> QED
    BY <2>4, <2>6 DEF y
<1>7. CASE ~ Overflowed(y, l) /\ ~ Choosing(y)
  <2>1. z = y
    BY <1>7 DEF Looked
  <2>2. y.cycle # MS100
    BY <1>7 DEF Choosing
  <2>3. Fast(y, TRUE)
    BY <1>1, <2>2 DEF Fast
  <2>4. Single(y)
    <3>1. y.cycle >= MS100 => x.cycle >= MS100
      BY <1>2, <1>3, <1>4, <2>2
    <3>2. x.cnt = 0 \/ x.cnt # 0
      OBVIOUS
    <3> QED
      BY <1>4, <3>1 DEF Single
  <2> QED
    BY <2>1, <2>3, <2>4 DEF y
<1> QED
  BY <1>5, <1>6, <1>7

-----------------------------------------------------------------------------
(* Where the main loop is, and which channels measure. *)

\* Where the demo's timer function may stand, and the evaluation of a measurement.
LookPcs == {"over", "clear", "near", "few", "choose"}
CalcPcs == {"mode", "time", "count", "show", "lower"}

\* The channel that is not selected has no cycle; the vendor's main loop only computes.
Shape ==
  /\ board \in {"demo", "vendor"} /\ select \in {"V", "I"}
  /\ turns \in Nat /\ turns <= TurnsPerTick
  /\ ch \in [Channel -> Chan] /\ flag \in [Channel -> BOOLEAN]
  /\ \A c \in Channel \ {"P", select} : ch[c].cycle = 0
  /\ main.pc \in {"top", "cal", "switch", "serve"} \cup LookPcs \cup CalcPcs
  /\ main.pc \in LookPcs => main.chan \in {"P", select}
  /\ main.pc = "choose" => main.few \in BOOLEAN
  /\ main.pc = "serve" => main.chan \in Channel \cup {"end"}
  /\ main.pc \in CalcPcs => main.chan \in Channel
  /\ board = "vendor" => main.pc \in {"top", "serve"} \cup (CalcPcs \ {"lower"})

\* The operators on a channel give a channel.
LEMMA OpsTyped ==
  ASSUME NEW x \in Chan, NEW w, NEW l
  PROVE  /\ Pulsed(x, w) \in Chan /\ Ticked(x) \in Chan /\ Looked(x, l) \in Chan
         /\ Marked(x) \in Chan /\ Cleared(x) \in Chan /\ Selected(x) \in Chan
         /\ Parked(x) \in Chan /\ Selected(x).cycle = 0 /\ Parked(x).cycle = 0
         /\ \A b \in BOOLEAN : [x EXCEPT !.one = b] \in Chan
<1>1. ASSUME NEW y \in Chan, NEW b \in BOOLEAN PROVE [y EXCEPT !.one = b] \in Chan
  BY DEF Chan
<1>2. ASSUME NEW y \in Chan
      PROVE  /\ Cleared(y) \in Chan /\ Selected(y) \in Chan /\ Parked(y) \in Chan
             /\ Selected(y).cycle = 0 /\ Parked(y).cycle = 0
  <2> DEFINE z == [y EXCEPT !.total = 0, !.cycle = 0, !.cnt = 0]
  <2>1. z \in Chan
    BY Values, Zenon DEF Chan
  <2>2. z.cycle = 0
    BY DEF Chan
  <2>3. Cleared(y) = [z EXCEPT !.one = FALSE] /\ Selected(y) = [z EXCEPT !.over = FALSE]
        /\ Parked(y) = z
    BY DEF Cleared, Selected, Parked
  <2> HIDE DEF z
  <2> QED
    BY <2>1, <2>2, <2>3, <1>1 DEF Chan
<1>3. Ticked(x) \in Chan
  <2>1. x.cycle + 1 \in Nat /\ x.total + 1 \in Nat
    BY ChanFields
  <2> QED
    BY <2>1 DEF Ticked, Chan
<1>4. Few(x) \in BOOLEAN
  BY DEF Few
<1>5. Marked(x) \in Chan
  BY MarkedFields
<1>6. Looked(x, l) \in Chan
  BY <1>1, <1>2, <1>4, <1>5 DEF Looked
<1> QED
  BY <1>1, <1>2, <1>3, <1>5, <1>6, PulsedFields

\* Types hold at the start,
LEMMA ShapeInit == MeterInit => Shape
BY FreshTyped, MeterAssumption DEF MeterInit, Shape, LookPcs, CalcPcs, Channel

\* The interrupts.
LEMMA ShapeInterrupts == Shape /\ (PowerPulse \/ VIPulse \/ DemoTick \/ VendorTimer) => Shape'
<1> SUFFICES ASSUME Shape, PowerPulse \/ VIPulse \/ DemoTick \/ VendorTimer PROVE Shape'
  OBVIOUS
<1>0. /\ ch \in [Channel -> Chan] /\ select \in {"V", "I"} /\ "P" \in Channel
      /\ select \in Channel /\ flag \in [Channel -> BOOLEAN]
  BY DEF Shape, Channel
<1>1. CASE PowerPulse
  <2>1. ch' = [ch EXCEPT !["P"] = Pulsed(ch["P"], Window("P"))]
    BY <1>1 DEF PowerPulse
  <2>2. ch' \in [Channel -> Chan] /\ \A c \in Channel \ {"P"} : ch'[c] = ch[c]
    BY <1>0, <2>1, OpsTyped
  <2>3. flag' \in [Channel -> BOOLEAN]
    BY <1>0, <1>1 DEF PowerPulse
  <2> QED
    BY <1>1, <2>2, <2>3 DEF PowerPulse, Shape
<1>2. CASE VIPulse
  <2>1. ch' = [ch EXCEPT ![select] = Pulsed(ch[select], Window(select))]
    BY <1>2 DEF VIPulse
  <2>2. ch' \in [Channel -> Chan] /\ \A c \in Channel \ {select} : ch'[c] = ch[c]
    BY <1>0, <2>1, OpsTyped
  <2>3. flag' \in [Channel -> BOOLEAN]
    BY <1>0, <1>2 DEF VIPulse
  <2> QED
    BY <1>2, <2>2, <2>3 DEF VIPulse, Shape
<1>3. CASE DemoTick
  <2>1. ch' \in [Channel -> Chan] /\ \A c \in Channel \ {"P", select} : ch'[c] = ch[c]
    BY <1>0, <1>3, OpsTyped DEF DemoTick, Timed
  <2> QED
    BY <1>3, <2>1, MeterAssumption DEF DemoTick, Shape, calcVars
<1>4. CASE VendorTimer
  <2> DEFINE seen == [c \in Channel |-> IF c = "P" \/ c = select
                                        THEN Looked(Ticked(ch[c]), Limit(c)) ELSE ch[c]]
             other == IF select = "V" THEN "I" ELSE "V"
  <2>1. seen \in [Channel -> Chan]
    BY <1>0, OpsTyped
  <2>2. other \in Channel /\ other # select /\ other \in {"V", "I"}
    BY <1>0 DEF Channel
  <2>3. Channel = {"P", select, other}
    BY <1>0 DEF Channel
  <2>4. UNCHANGED <<board, turns, flag, main>>
    BY <1>4 DEF VendorTimer, calcVars
  <2>5. CASE Elapsed = 0
    <3>1. ch' = [seen EXCEPT ![other] = Selected(seen[other]), ![select] = Parked(seen[select])]
          /\ select' = other
      BY <1>4, <2>5 DEF VendorTimer
    <3> HIDE DEF seen, other
    <3>2. ch' \in [Channel -> Chan] /\ ch'[select].cycle = 0
      BY <1>0, <2>1, <2>2, <3>1, OpsTyped
    <3>3. main.pc \notin LookPcs
      BY <1>4 DEF VendorTimer, Shape, LookPcs, CalcPcs
    <3> QED
      BY <2>2, <2>3, <2>4, <3>1, <3>2, <3>3 DEF Shape
  <2>6. CASE Elapsed # 0
    <3>1. ch' = seen /\ select' = select
      BY <1>4, <2>6 DEF VendorTimer
    <3>2. \A c \in Channel \ {"P", select} : ch'[c] = ch[c]
      BY <3>1
    <3> HIDE DEF seen, other
    <3> QED
      BY <2>1, <2>4, <3>1, <3>2 DEF Shape
  <2> QED
    BY <2>5, <2>6
<1> QED
  BY <1>1, <1>2, <1>3, <1>4

\* at each step of the main loop,
LEMMA ShapeMain == Shape /\ Main => Shape'
<1> SUFFICES ASSUME Shape, Main PROVE Shape'
  OBVIOUS
<1> USE DEF Goto, GotoFor, At, LookPcs, CalcPcs, envVars, chanVars, calcVars, calVars
<1>0. /\ ch \in [Channel -> Chan] /\ select \in {"V", "I"} /\ "P" \in Channel
      /\ select \in Channel /\ flag \in [Channel -> BOOLEAN]
      /\ Channel = {"P", "V", "I"}
  BY DEF Shape, Channel
<1>1. CASE Top
  BY <1>1 DEF Top, Shape
<1>2. CASE Calibrate
  BY <1>2 DEF Calibrate, Shape
<1>3. CASE VendorTop
  BY <1>0, <1>3 DEF VendorTop, Shape
<1>4. CASE LookOver \/ LookClear \/ LookChoose
  <2>1. main.pc \in LookPcs /\ main.chan \in {"P", select} /\ main.chan \in Channel
    BY <1>0, <1>4 DEF LookOver, LookClear, LookChoose, Shape
  <2>2. UNCHANGED <<board, turns, select, flag>>
    BY <1>4 DEF LookOver, LookClear, LookChoose
  <2>3. ch' = ch \/ \E x \in Chan : ch' = [ch EXCEPT ![main.chan] = x]
    <3>1. LookChoose => main.few \in BOOLEAN
      BY DEF LookChoose, Shape
    <3> QED
      BY <1>0, <1>4, <2>1, <3>1, OpsTyped DEF LookOver, LookClear, LookChoose
  <2>4. ch' \in [Channel -> Chan] /\ \A c \in Channel \ {"P", select} : ch'[c] = ch[c]
    BY <1>0, <2>1, <2>3
  <2>5. /\ main'.pc \in {"switch"} \cup (LookPcs \ {"choose"})
        /\ main'.pc \in LookPcs => main'.chan \in {"P", select}
    BY <1>4, <2>1 DEF LookOver, LookClear, LookChoose, AfterLook
  <2>6. board # "vendor"
    BY <2>1 DEF Shape
  <2> QED
    BY <2>2, <2>4, <2>5, <2>6 DEF Shape
<1>5. CASE LookNear \/ LookFew
  <2>1. Few(ch[main.chan]) \in BOOLEAN
    BY DEF Few
  <2> QED
    BY <1>5, <2>1 DEF LookNear, LookFew, AfterLook, Shape
<1>6. CASE Switch
  <2> DEFINE other == IF select = "V" THEN "I" ELSE "V"
  <2>1. other \in Channel /\ other # select /\ other \in {"V", "I"}
        /\ Channel = {"P", select, other}
    BY <1>0
  <2>2. /\ UNCHANGED <<board, turns, flag>> /\ main' = [pc |-> "serve", chan |-> "P"]
        /\ board # "vendor"
    BY <1>6 DEF Switch, Shape
  <2>3. CASE vi_times = 0
    <3>1. ch' = [ch EXCEPT ![other] = Selected(ch[other]), ![select] = Parked(ch[select])]
          /\ select' = other
      BY <1>6, <2>3 DEF Switch
    <3> HIDE DEF other
    <3>2. ch' \in [Channel -> Chan] /\ ch'[select].cycle = 0
      BY <1>0, <2>1, <3>1, OpsTyped
    <3> QED
      BY <2>1, <2>2, <3>1, <3>2 DEF Shape
  <2>4. CASE vi_times # 0
    BY <1>0, <1>6, <2>2, <2>4 DEF Switch, Shape
  <2> QED
    BY <2>3, <2>4
<1>7. CASE Serve
  <2>1. main.chan # "end" => NextChan(main.chan) \in Channel \cup {"end"}
    BY <1>0, <1>7 DEF Serve, Shape, NextChan
  <2> QED
    BY <1>0, <1>7, <2>1, MeterAssumption DEF Serve, Shape
<1>8. CASE ReadMode \/ ReadTime \/ ReadCount
  BY <1>0, <1>8 DEF ReadMode, ReadTime, ReadCount, Shape
<1>9. CASE Show \/ Lower
  <2>1. NextChan(main.chan) \in Channel \cup {"end"}
    BY <1>0, <1>9 DEF Show, Lower, Shape, NextChan
  <2>2. flag' \in [Channel -> BOOLEAN]
    BY <1>0, <1>9 DEF Show, Lower
  <2>3. UNCHANGED <<board, turns, ch, select>>
    BY <1>9 DEF Show, Lower
  <2>4. Lower => board # "vendor"
    BY DEF Lower, Shape
  <2>5. \/ main' = [pc |-> "lower", chan |-> main.chan] /\ board = "demo" /\ main.chan \in Channel
        \/ main' = [pc |-> "serve", chan |-> NextChan(main.chan)]
    BY <1>0, <1>9 DEF Show, Lower, Shape
  <2> QED
    BY <2>1, <2>2, <2>3, <2>4, <2>5 DEF Shape
<1> QED
  BY <1>1, <1>2, <1>3, <1>4, <1>5, <1>6, <1>7, <1>8, <1>9 DEF Main

\* and always.
LEMMA ShapeInvariance == MeterSpec => []Shape
<1>1. Shape /\ UNCHANGED meterVars => Shape'
  BY DEF Shape, meterVars
<1>2. Shape /\ [MeterNext]_meterVars => Shape'
  BY <1>1, ShapeInterrupts, ShapeMain DEF MeterNext
<1> QED
  BY <1>2, ShapeInit, PTL DEF MeterSpec

-----------------------------------------------------------------------------
(* The energy. *)

\* What the energy register and the rest hold together is the number of pulses.
EnergyInv ==
  stored => /\ work \in {"cal_end", "normal"}
            /\ energy \in [cnt : Nat, ref : {Ref}, ac : Nat]
            /\ energy.cnt < Ref /\ energy.ac < EnergyWrap
            /\ pulses = energy.ac * Ref + energy.cnt

\* A number less than the bound is its own rest, and the bound itself leaves none.
LEMMA Rest ==
  ASSUME NEW d \in Nat \ {0}
  PROVE  /\ \A n \in Nat : n < d => n % d = n
         /\ d % d = 0
<1>1. ASSUME NEW n \in Nat, n < d PROVE n % d = n
  <2>1. n = d * (n \div d) + (n % d) /\ n \div d \in Nat /\ n % d \in 0..(d - 1)
    BY DivMod
  <2>2. n = d * 0 + n /\ n \in 0..(d - 1)
    BY <1>1
  <2> DEFINE q == n \div d
             r == n % d
  <2> HIDE DEF q, r
  <2>3. d * q + r = d * 0 + n /\ q \in Nat /\ r \in 0..(d - 1)
    BY <2>1, <2>2 DEF q, r
  <2>4. r = n
    BY <2>2, <2>3, DivModUnique
  <2> QED
    BY <2>4 DEF r
<1>2. d % d = 0
  <2>1. d * (d \div d) + (d % d) = d * 1 + 0 /\ d \div d \in Nat /\ d % d \in 0..(d - 1)
    BY DivMod
  <2> DEFINE q == d \div d
             r == d % d
  <2> HIDE DEF q, r
  <2>2. d * q + r = d * 1 + 0 /\ q \in Nat /\ r \in 0..(d - 1) /\ 0 \in 0..(d - 1)
    BY <2>1 DEF q, r
  <2>3. r = 0
    BY <2>2, DivModUnique
  <2> QED
    BY <2>3 DEF r
<1> QED
  BY <1>1, <1>2

\* One pulse more is counted as one pulse more.
LEMMA EnergyStep ==
  ASSUME NEW a \in Nat, NEW n \in Nat, n < Ref, a < EnergyWrap
  PROVE  /\ n + 1 < Ref => (a * Ref + n + 1) % (EnergyWrap * Ref) = a * Ref + (n + 1)
         /\ n + 1 = Ref => (a * Ref + n + 1) % (EnergyWrap * Ref)
                             = ((a + 1) % EnergyWrap) * Ref + 0
<1>1. Ref \in Nat \ {0} /\ EnergyWrap \in Nat \ {0}
  BY MeterAssumption, TimeAssumption
<1> DEFINE d == EnergyWrap * Ref
<1>2. d \in Nat \ {0} /\ a * Ref \in Nat
  BY <1>1
<1>3. (a + 1) * Ref = a * Ref + Ref
  BY <1>1
<1>4. a + 1 <= EnergyWrap /\ (a + 1) * Ref <= d
  BY <1>1
<1>5. ASSUME n + 1 < Ref PROVE (a * Ref + n + 1) % d = a * Ref + (n + 1)
  <2>1. a * Ref + n + 1 \in Nat /\ a * Ref + n + 1 < d
    BY <1>1, <1>2, <1>3, <1>4, <1>5
  <2> HIDE DEF d
  <2> QED
    BY <1>2, <2>1, Rest
<1>6. ASSUME n + 1 = Ref PROVE (a * Ref + n + 1) % d = ((a + 1) % EnergyWrap) * Ref + 0
  <2>1. a * Ref + n + 1 = (a + 1) * Ref
    BY <1>1, <1>2, <1>3, <1>6
  <2>2. CASE a + 1 = EnergyWrap
    <3>1. (a + 1) * Ref = d
      BY <2>2
    <3>2. d % d = 0 /\ (a + 1) % EnergyWrap = 0
      <4> HIDE DEF d
      <4>1. EnergyWrap % EnergyWrap = 0
        BY <1>1, Rest
      <4> QED
        BY <1>2, <2>2, <4>1, Rest
    <3>3. 0 * Ref + 0 = 0
      BY <1>1
    <3> HIDE DEF d
    <3> QED
      BY <2>1, <3>1, <3>2, <3>3
  <2>3. CASE a + 1 < EnergyWrap
    <3>1. a + 2 <= EnergyWrap /\ (a + 2) * Ref <= d /\ (a + 2) * Ref = (a + 1) * Ref + Ref
      BY <1>1, <2>3
    <3>2. (a + 1) * Ref \in Nat /\ (a + 1) * Ref < d
      BY <1>1, <1>2, <3>1
    <3>3. (a + 1) % EnergyWrap = a + 1
      BY <1>1, <2>3, Rest
    <3> HIDE DEF d
    <3>4. ((a + 1) * Ref) % d = (a + 1) * Ref
      BY <1>2, <3>2, Rest
    <3> QED
      BY <2>1, <3>2, <3>3, <3>4
  <2> QED
    BY <1>1, <2>2, <2>3
<1> QED
  BY <1>5, <1>6

\* A pulse counts one, also when the rest turns over.
LEMMA EnergyPulse == EnergyInv /\ PowerPulse => EnergyInv'
<1> SUFFICES ASSUME EnergyInv, PowerPulse, stored
             PROVE  /\ work' \in {"cal_end", "normal"}
                    /\ energy' \in [cnt : Nat, ref : {Ref}, ac : Nat]
                    /\ energy'.cnt < Ref /\ energy'.ac < EnergyWrap
                    /\ pulses' = energy'.ac * Ref + energy'.cnt
  BY DEF EnergyInv, PowerPulse
<1>1. /\ energy' = EnergyPulsed(energy, work) /\ work' = work
      /\ pulses' = IF work = "normal" THEN (pulses + 1) % (EnergyWrap * Ref) ELSE pulses
  BY DEF PowerPulse
<1>2. /\ work \in {"cal_end", "normal"} /\ energy \in [cnt : Nat, ref : {Ref}, ac : Nat]
      /\ energy.cnt \in Nat /\ energy.ac \in Nat /\ energy.ref = Ref
      /\ energy.cnt < Ref /\ energy.ac < EnergyWrap
      /\ pulses = energy.ac * Ref + energy.cnt
  BY DEF EnergyInv
<1>3. Ref \in Nat \ {0} /\ EnergyWrap \in Nat \ {0} /\ CntWrap \in Nat \ {0} /\ Ref < CntWrap
  BY MeterAssumption, TimeAssumption
<1>4. CASE work = "cal_end"
  BY <1>1, <1>2, <1>4 DEF EnergyPulsed
<1>5. CASE work = "normal"
  <2> DEFINE n == energy.cnt
             a == energy.ac
  <2>1. (n + 1) % CntWrap = n + 1
    <3>1. n + 1 \in Nat /\ n + 1 < CntWrap
      BY <1>2, <1>3
    <3> HIDE DEF n
    <3> QED
      BY <1>3, <3>1, Rest
  <2>2. (a + 1) % EnergyWrap \in Nat /\ (a + 1) % EnergyWrap < EnergyWrap
    <3>1. a + 1 \in Nat
      BY <1>2
    <3>2. (a + 1) % EnergyWrap \in 0..(EnergyWrap - 1)
      BY <1>3, <3>1, DivMod
    <3> QED
      BY <1>3, <3>2
  <2>3. pulses' = (a * Ref + n + 1) % (EnergyWrap * Ref)
    BY <1>1, <1>2, <1>5
  <2>4. CASE n + 1 = Ref
    <3>1. energy' = [energy EXCEPT !.cnt = 0, !.ac = (energy.ac + 1) % EnergyWrap]
      BY <1>1, <1>2, <1>5, <2>1, <2>4 DEF EnergyPulsed
    <3>2. /\ energy' \in [cnt : Nat, ref : {Ref}, ac : Nat]
          /\ energy'.cnt = 0 /\ energy'.ac = (a + 1) % EnergyWrap
      BY <1>2, <2>2, <3>1
    <3>3. pulses' = ((a + 1) % EnergyWrap) * Ref + 0
      BY <1>2, <2>3, <2>4, EnergyStep
    <3> QED
      BY <1>1, <1>2, <1>3, <2>2, <3>2, <3>3
  <2>5. CASE n + 1 # Ref
    <3>1. energy' = [energy EXCEPT !.cnt = n + 1]
      BY <1>1, <1>2, <1>5, <2>1, <2>5 DEF EnergyPulsed
    <3>2. /\ energy' \in [cnt : Nat, ref : {Ref}, ac : Nat]
          /\ energy'.cnt = n + 1 /\ energy'.ac = a
      BY <1>2, <3>1
    <3>3. n + 1 < Ref
      BY <1>2, <1>3, <2>5
    <3>4. pulses' = a * Ref + (n + 1)
      BY <1>2, <2>3, <3>3, EnergyStep
    <3> QED
      BY <1>1, <1>2, <1>3, <3>2, <3>3, <3>4
  <2> QED
    BY <2>4, <2>5
<1> QED
  BY <1>2, <1>4, <1>5

\* No other step touches these counters.
LEMMA EnergyStays == EnergyInv /\ [MeterNext]_meterVars => EnergyInv'
<1> SUFFICES ASSUME EnergyInv, [MeterNext]_meterVars PROVE EnergyInv'
  OBVIOUS
<1>1. CASE PowerPulse
  BY <1>1, EnergyPulse
<1>2. CASE UNCHANGED <<stored, work, energy, pulses>>
  BY <1>2 DEF EnergyInv
<1>3. CASE Top
  BY <1>3 DEF Top, EnergyInv, envVars
<1>4. CASE Calibrate
  BY <1>4 DEF Calibrate, EnergyInv, envVars
<1>5. VIPulse \/ DemoTick \/ VendorTimer => UNCHANGED <<stored, work, energy, pulses>>
  BY DEF VIPulse, DemoTick, VendorTimer, calVars
<1>6. Main => Top \/ Calibrate \/ UNCHANGED <<stored, work, energy, pulses>>
  BY DEF Main, VendorTop, LookOver, LookClear, LookNear, LookFew, LookChoose, Switch,
     Serve, ReadMode, ReadTime, ReadCount, Show, Lower, envVars, calVars
<1> QED
  BY <1>1, <1>2, <1>3, <1>4, <1>5, <1>6 DEF MeterNext, meterVars

\* With a reference from flash no pulse is lost or counted twice: each is in the energy
\* register or in the rest, modulo what the register holds.
THEOREM NoPulseLost == MeterSpec => []EnergyCounted
<1>1. MeterInit => EnergyInv
  <2> SUFFICES ASSUME MeterInit, stored PROVE EnergyInv
    BY DEF EnergyInv
  <2>1. work \in {"cal_end", "normal"}
    BY DEF MeterInit, FirstWork
  <2>2. energy = [cnt |-> 0, ref |-> Ref, ac |-> 0] /\ pulses = 0
    BY DEF MeterInit
  <2>3. Ref \in Nat /\ 0 < Ref /\ 0 < EnergyWrap /\ 0 = 0 * Ref + 0
    BY MeterAssumption, TimeAssumption
  <2> QED
    BY <2>1, <2>2, <2>3 DEF EnergyInv
<1>2. EnergyInv => EnergyCounted
  <2> SUFFICES ASSUME EnergyInv, stored
               PROVE  (energy.ac * Ref + energy.cnt) % (EnergyWrap * Ref) = pulses
    BY DEF EnergyCounted
  <2> DEFINE n == energy.cnt
             a == energy.ac
             d == EnergyWrap * Ref
  <2>1. n \in Nat /\ a \in Nat /\ n < Ref /\ a < EnergyWrap /\ pulses = a * Ref + n
    BY DEF EnergyInv
  <2>2. Ref \in Nat \ {0} /\ EnergyWrap \in Nat \ {0}
    BY MeterAssumption, TimeAssumption
  <2> HIDE DEF n, a
  <2>3. d \in Nat \ {0} /\ a * Ref \in Nat
    BY <2>1, <2>2
  <2>4. (a + 1) * Ref = a * Ref + Ref /\ a + 1 <= EnergyWrap /\ (a + 1) * Ref <= d
    BY <2>1, <2>2
  <2>5. a * Ref + n \in Nat /\ a * Ref + n < d
    BY <2>1, <2>2, <2>3, <2>4
  <2> HIDE DEF d
  <2>6. (a * Ref + n) % d = a * Ref + n
    BY <2>3, <2>5, Rest
  <2> QED
    BY <2>1, <2>6 DEF n, a, d
<1> QED
  BY <1>1, <1>2, EnergyStays, PTL DEF MeterSpec

-----------------------------------------------------------------------------
(* The way a channel measures. *)

\* The main loop has looked at the channel since the last tick, in a turn it began since.
PastLook(c) == \/ main.pc \in {"switch", "serve"} \cup CalcPcs
               \/ c = "P" /\ main.pc \in LookPcs /\ main.chan # "P"
\* The driver has looked at the channel since the last tick.
Seen(c) == turns >= 2 \/ (turns = 1 /\ PastLook(c))

\* A mode of the demo that is about to be stored was read from the count of pulses that
\* still run, or those have given way to a measurement just begun.
ChoiceHolds ==
  main.pc = "choose" /\ ~ main.few =>
    LET x == ch[main.chan] IN x.cnt >= 2 \/ x.cycle = 0 \/ (x.cycle = 1 /\ turns = 0)

FastAt(c) == Fast(ch[c], Seen(c))

FastInv ==
  /\ board = "vendor" => \A c \in Channel : Fast(ch[c], TRUE) /\ Single(ch[c])
  /\ board = "demo" => ChoiceHolds /\ \A c \in Channel : Fast(ch[c], Seen(c))


\* A look that is not due can be left out.
LEMMA FastWeaker ==
  ASSUME NEW x, NEW s, Fast(x, s), NEW t, (t => s) \/ x.cycle # MS100 PROVE Fast(x, t)
BY Zenon DEF Fast

\* Before the first millisecond nothing is required.
LEMMA NoCycle ==
  ASSUME NEW x, NEW s, Fast(x, s), x.cycle = 0 PROVE \A t : Fast(x, t)
BY TimeAssumption DEF Fast

\* A channel is watched for longer than 100 ms.
LEMMA WindowLong == \A c \in Channel : Window(c) \in Nat /\ MS100 < Window(c)
BY TimeAssumption DEF Window, Channel

\* The demo and the vendor's program start with no measurement under way.
LEMMA FastInit == MeterInit => FastInv
<1> SUFFICES ASSUME MeterInit PROVE FastInv
  OBVIOUS
<1>1. \A c \in Channel : ch[c] = Fresh
  BY DEF MeterInit
<1>2. \A t : Fast(Fresh, t)
  BY FreshTyped, NoCycle
<1>3. ~ (main.pc = "choose")
  BY DEF MeterInit
<1> QED
  BY <1>1, <1>2, <1>3, FreshTyped DEF FastInv, ChoiceHolds

\* A step that leaves the channels alone, and after which no more is asked of them.
LEMMA FastSame ==
  ASSUME FastInv, ch' = ch, board' = board, \A c \in Channel : Seen(c)' => Seen(c),
         board = "demo" => ChoiceHolds'
  PROVE  FastInv'
<1>1. ASSUME board = "demo", NEW c \in Channel PROVE Fast(ch'[c], Seen(c)')
  <2>1. Fast(ch'[c], Seen(c)) /\ (Seen(c)' => Seen(c))
    BY <1>1 DEF FastInv
  <2> QED
    BY <2>1, Zenon DEF Fast
<1>2. board = "vendor" => \A c \in Channel : Fast(ch'[c], TRUE) /\ Single(ch'[c])
  BY DEF FastInv
<1> QED
  BY <1>1, <1>2, Zenon DEF FastInv

\* Pulses,
LEMMA FastPulse ==
  ASSUME Shape, FastInv, NEW c \in Channel,
         ch' = [ch EXCEPT ![c] = Pulsed(ch[c], Window(c))],
         UNCHANGED <<board, turns, main>>
  PROVE  FastInv'
<1> DEFINE y == Pulsed(ch[c], Window(c))
<1>0. ch \in [Channel -> Chan] /\ ch[c] \in Chan /\ board \in {"demo", "vendor"}
  BY DEF Shape
<1>1. ch'[c] = y /\ \A b \in Channel \ {c} : ch'[b] = ch[b]
  BY <1>0
<1>2. \A b \in Channel : Seen(b)' = Seen(b)
  BY DEF Seen, PastLook
<1>3. CASE board = "vendor"
  <2>1. Fast(y, TRUE) /\ Single(y)
    BY <1>3, WindowLong, PulsedFast DEF FastInv
  <2> HIDE DEF y
  <2> QED
    BY <1>1, <1>3, <2>1 DEF FastInv
<1>4. CASE board = "demo"
  <2>0. Seen(c) \in BOOLEAN
    BY DEF Seen
  <2>1. Fast(y, Seen(c))
    BY <1>4, <2>0, WindowLong, PulsedFast DEF FastInv
  <2>2. y.cycle = 0 \/ (y.cycle = ch[c].cycle /\ (ch[c].cnt >= 2 => y.cnt >= 2))
    <3>1. \/ y.cycle = 0
          \/ y.cycle = ch[c].cycle /\ y.cnt = Count(ch[c].cnt)
      BY <1>0, PulsedFields
    <3>2. ch[c].cnt \in 0..3
      BY <1>0, ChanFields
    <3>3. ch[c].cnt >= 2 => Count(ch[c].cnt) >= 2
      BY <3>2 DEF Count
    <3> QED
      BY <3>1, <3>3
  <2> HIDE DEF y
  <2>3. ChoiceHolds'
    <3> SUFFICES ASSUME main.pc = "choose", ~ main.few
                 PROVE  \/ ch'[main.chan].cnt >= 2 \/ ch'[main.chan].cycle = 0
                        \/ ch'[main.chan].cycle = 1 /\ turns = 0
      BY DEF ChoiceHolds
    <3>1. \/ ch[main.chan].cnt >= 2 \/ ch[main.chan].cycle = 0
          \/ ch[main.chan].cycle = 1 /\ turns = 0
      BY <1>4 DEF FastInv, ChoiceHolds
    <3>2. main.chan \in Channel
      BY DEF Shape, LookPcs, Channel
    <3>3. CASE main.chan = c
      BY <1>1, <2>2, <3>1, <3>3
    <3>4. CASE main.chan # c
      BY <1>1, <3>1, <3>2, <3>4
    <3> QED
      BY <3>3, <3>4
  <2>4. \A b \in Channel : Fast(ch'[b], Seen(b)')
    BY <1>1, <1>2, <1>4, <2>1 DEF FastInv
  <2> QED
    BY <1>4, <2>3, <2>4 DEF FastInv
<1> QED
  BY <1>0, <1>3, <1>4

\* the demo's tick,
LEMMA FastTick == ASSUME Shape, FastInv, DemoTick PROVE FastInv'
<1>1. /\ board = "demo" /\ board' = "demo" /\ turns >= 2 /\ turns' = 0 /\ main' = main
      /\ ch \in [Channel -> Chan] /\ ch' = Timed
  BY MeterAssumption DEF DemoTick, Shape
<1>2. \A c \in Channel : Fast(ch[c], TRUE) /\ ~ Seen(c)'
  <2> SUFFICES ASSUME NEW c \in Channel PROVE Fast(ch[c], TRUE) /\ ~ Seen(c)'
    OBVIOUS
  <2>1. Seen(c) /\ ~ Seen(c)'
    BY <1>1 DEF Seen
  <2>2. Fast(ch[c], Seen(c))
    BY <1>1 DEF FastInv
  <2> QED
    BY <2>1, <2>2, Zenon DEF Fast
<1>3. ASSUME NEW c \in Channel
      PROVE  /\ Fast(ch'[c], FALSE)
             /\ \/ ch'[c] = ch[c]
                \/ ch'[c] = Ticked(ch[c])
  <2>1. ch'[c] = IF c = "P" \/ c = select THEN Ticked(ch[c]) ELSE ch[c]
    BY <1>1 DEF Timed
  <2>2. CASE c \in {"P", select}
    BY <1>2, <2>1, <2>2, TickedFast
  <2>3. CASE c \notin {"P", select}
    BY <1>2, <2>1, <2>3, FastWeaker
  <2> QED
    BY <2>2, <2>3
<1>4. ChoiceHolds'
  <2> SUFFICES ASSUME main.pc = "choose", ~ main.few
               PROVE  \/ ch'[main.chan].cnt >= 2 \/ ch'[main.chan].cycle = 0
                      \/ ch'[main.chan].cycle = 1
    BY <1>1 DEF ChoiceHolds
  <2>1. ch[main.chan].cnt >= 2 \/ ch[main.chan].cycle = 0
    BY <1>1 DEF FastInv, ChoiceHolds
  <2>2. main.chan \in Channel
    BY DEF Shape, LookPcs, Channel
  <2> DEFINE x == ch[main.chan]
  <2>3. x \in Chan /\ ch'[main.chan] \in {x, Ticked(x)}
    BY <1>1, <1>3, <2>2
  <2>4. Ticked(x).cnt = x.cnt /\ (Ticked(x).cycle = x.cycle \/ Ticked(x).cycle = x.cycle + 1)
    BY <2>3 DEF Ticked, Chan
  <2> QED
    BY <2>1, <2>3, <2>4
<1>5. ASSUME NEW c \in Channel PROVE Fast(ch'[c], Seen(c)')
  BY <1>2, <1>3, Zenon DEF Fast
<1>6. board' # "vendor"
  BY <1>1
<1> QED
  BY <1>4, <1>5, <1>6, Zenon DEF FastInv

\* the vendor's tick with its look,
LEMMA FastTimer == ASSUME Shape, FastInv, VendorTimer PROVE FastInv'
<1> DEFINE seen == [c \in Channel |-> IF c = "P" \/ c = select
                                      THEN Looked(Ticked(ch[c]), Limit(c)) ELSE ch[c]]
           other == IF select = "V" THEN "I" ELSE "V"
<1>1. board = "vendor" /\ board' = "vendor"
      /\ \A c \in Channel : Fast(ch[c], TRUE) /\ Single(ch[c])
  BY DEF VendorTimer, FastInv
<1>2. \A c \in Channel : Fast(seen[c], TRUE) /\ Single(seen[c])
  <2> SUFFICES ASSUME NEW c \in Channel PROVE Fast(seen[c], TRUE) /\ Single(seen[c])
    OBVIOUS
  <2>1. CASE c = "P" \/ c = select
    BY <1>1, <2>1, LookedFast
  <2>2. CASE ~ (c = "P" \/ c = select)
    BY <1>1, <2>2
  <2> QED
    BY <2>1, <2>2
<1>3. DOMAIN seen = Channel
  OBVIOUS
<1>4. CASE Elapsed = 0
  <2>1. ch' = [seen EXCEPT ![other] = Selected(seen[other]), ![select] = Parked(seen[select])]
    BY <1>4 DEF VendorTimer
  <2>2. other \in Channel /\ select \in Channel
    BY DEF Shape, Channel
  <2> HIDE DEF seen, other
  <2>3. \A c \in Channel : ch'[c] \in {seen[c], Selected(seen[c]), Parked(seen[c])}
    BY <1>3, <2>1, <2>2
  <2>4. \A c \in Channel : Fast(ch'[c], TRUE) /\ Single(ch'[c])
    BY <1>2, <2>3, ClearedFast
  <2> QED
    BY <1>1, <2>4 DEF FastInv
<1>5. CASE Elapsed # 0
  <2>1. ch' = seen
    BY <1>5 DEF VendorTimer
  <2> HIDE DEF seen
  <2> QED
    BY <1>1, <1>2, <2>1 DEF FastInv
<1> QED
  BY <1>4, <1>5

\* A step of the look at a channel, that leaves the others alone.
LEMMA FastLook ==
  ASSUME Shape, FastInv, board = "demo", board' = board, turns' = turns,
         NEW c \in Channel, ch' \in [Channel -> Chan],
         \A b \in Channel \ {c} : ch'[b] = ch[b] /\ (Seen(b)' => Seen(b) \/ ch[b].cycle = 0),
         FastAt(c)', ChoiceHolds'
  PROVE  FastInv'
<1>1. ASSUME NEW b \in Channel PROVE Fast(ch'[b], Seen(b)')
  <2>1. CASE b = c
    BY <2>1 DEF FastAt
  <2>2. CASE b # c
    <3>1. Fast(ch[b], Seen(b)) /\ ch'[b] = ch[b]
      BY <2>2 DEF FastInv
    <3>2. CASE ch[b].cycle = 0
      BY <3>1, <3>2, NoCycle
    <3>3. CASE Seen(b)' => Seen(b)
      BY <3>1, <3>3, Zenon DEF Fast
    <3> QED
      BY <2>2, <3>2, <3>3
  <2> QED
    BY <2>1, <2>2
<1>2. board' # "vendor"
  OBVIOUS
<1> QED
  BY <1>1, <1>2, Zenon DEF FastInv

\* and the main loop's look keep fast measurements fast.
LEMMA FastMain == ASSUME Shape, FastInv, Main PROVE FastInv'
<1> USE DEF Goto, GotoFor, At, LookPcs, CalcPcs, envVars, chanVars, calcVars, calVars
<1>0. /\ ch \in [Channel -> Chan] /\ select \in {"V", "I"} /\ board \in {"demo", "vendor"}
      /\ select \in Channel /\ Channel = {"P", "V", "I"} /\ turns \in Nat
  BY DEF Shape, Channel
<1>1. CASE Top \/ Calibrate \/ VendorTop
  <2>1. /\ ch' = ch /\ board' = board /\ turns' = turns
        /\ main'.pc \in {"cal", "over", "serve"}
        /\ main'.pc = "over" => main'.chan = "P"
        /\ main'.pc = "serve" => board = "vendor"
    BY <1>1 DEF Top, Calibrate, VendorTop
  <2>2. CASE board = "vendor"
    BY <2>1, <2>2 DEF FastInv
  <2>3. CASE board = "demo"
    <3>1. \A c \in Channel : Seen(c)' => Seen(c)
      BY <1>0, <2>1, <2>3 DEF Seen, PastLook
    <3>2. ChoiceHolds'
      BY <2>1 DEF ChoiceHolds
    <3> QED
      BY <2>1, <2>3, <3>1, <3>2, FastSame
  <2> QED
    BY <1>0, <2>2, <2>3
<1>2. CASE Serve \/ ReadMode \/ ReadTime \/ ReadCount \/ Show \/ Lower
  <2>1. /\ ch' = ch /\ board' = board
        /\ main.pc \in {"serve"} \cup CalcPcs
        /\ \/ turns' = turns /\ main'.pc \in {"serve"} \cup CalcPcs
           \/ main'.pc = "top" /\ turns' \in {turns, turns + 1}
    BY <1>2 DEF Serve, ReadMode, ReadTime, ReadCount, Show, Lower
  <2>2. \A c \in Channel : Seen(c)' => Seen(c)
    BY <1>0, <2>1 DEF Seen, PastLook
  <2>3. main'.pc # "choose"
    BY <2>1
  <2> QED
    BY <2>1, <2>2, <2>3, FastSame DEF ChoiceHolds
<1>3. CASE Switch
  <2> DEFINE other == IF select = "V" THEN "I" ELSE "V"
  <2>0. board = "demo" /\ \A c \in Channel : Fast(ch[c], Seen(c))
    BY <1>0, <1>3 DEF Switch, Shape, FastInv
  <2>1. /\ board' = board /\ turns' = turns /\ main'.pc = "serve" /\ main.pc = "switch"
    BY <1>3 DEF Switch
  <2>2. \A c \in Channel : Seen(c)' = Seen(c)
    BY <2>1 DEF Seen, PastLook
  <2>3. \A c \in Channel : ch'[c] \in {ch[c], Selected(ch[c]), Parked(ch[c])}
    <3>1. other \in Channel
      BY <1>0
    <3>2. \/ ch' = [ch EXCEPT ![other] = Selected(ch[other]), ![select] = Parked(ch[select])]
          \/ ch' = ch
      BY <1>3 DEF Switch
    <3> HIDE DEF other
    <3> QED
      BY <1>0, <3>1, <3>2
  <2>4. ASSUME NEW c \in Channel PROVE Fast(ch'[c], Seen(c)')
    <3>1. CASE ch'[c] = ch[c]
      BY <2>0, <2>2, <3>1
    <3>2. CASE ch'[c] \in {Cleared(ch[c]), Selected(ch[c]), Parked(ch[c])}
      <4>1. Fast(ch[c], Seen(c))
        BY <2>0
      <4>2. Fast(ch'[c], TRUE)
        BY <3>2, <4>1, ClearedFast
      <4> QED
        BY <4>2, Zenon DEF Fast
    <3> QED
      BY <2>3, <3>1, <3>2
  <2>5. board' # "vendor" /\ ChoiceHolds'
    BY <2>0, <2>1 DEF ChoiceHolds
  <2> QED
    BY <2>4, <2>5, Zenon DEF FastInv
<1>4. ASSUME LookOver \/ LookClear \/ LookNear \/ LookFew \/ LookChoose PROVE FastInv'
  <2>0. main.chan \in Channel
    BY <1>0, <1>4 DEF LookOver, LookClear, LookNear, LookFew, LookChoose, Shape
  <2>c. PICK c \in Channel : c = main.chan
    BY <2>0
  <2>1. /\ main.pc \in LookPcs /\ c = main.chan /\ c \in {"P", select} /\ c \in Channel /\ board = "demo"
        /\ board' = board /\ turns' = turns /\ select' = select
    BY <1>0, <1>4, <2>c DEF LookOver, LookClear, LookNear, LookFew, LookChoose, Shape
  <2>2. ch' \in [Channel -> Chan]
    BY <1>4, ShapeMain DEF Main, Shape
  <2>3. Fast(ch[c], Seen(c)) /\ ch[c] \in Chan /\ ch[c].cycle \in Nat
    BY <1>0, <2>1, ChanFields DEF FastInv
  <2>4. \A b \in Channel \ {"P", select} : ch[b].cycle = 0
    BY DEF Shape
  <2>5. ASSUME AfterLook PROVE \A b \in Channel \ {c} : Seen(b)' => Seen(b) \/ ch[b].cycle = 0
    <3>1. CASE c = "P"
      <4>1. main'.pc = "over" /\ main'.chan = select
        BY <2>1, <2>5, <3>1 DEF AfterLook
      <4> QED
        BY <1>0, <2>1, <2>4, <3>1, <4>1 DEF Seen, PastLook
    <3>2. CASE c # "P"
      BY <1>0, <2>1, <2>4, <2>5, <3>2 DEF AfterLook, Seen, PastLook
    <3> QED
      BY <3>1, <3>2
  <2>6. ASSUME main'.pc \in LookPcs, main'.chan = c
        PROVE  \A b \in Channel : (Seen(b)' => Seen(b)) /\ (Seen(b) => Seen(b)')
    BY <2>1, <2>6 DEF Seen, PastLook
  <2>7. AfterLook => main'.pc # "choose"
    BY DEF AfterLook
  <2>8. TimeAssumption /\ MS100 \in Nat /\ MS100 > 1
    BY TimeAssumption
  <2>9. CASE LookOver
    <3>1. main'.pc \in LookPcs /\ main'.chan = c /\ main'.pc # "choose"
      BY <2>1, <2>9 DEF LookOver
    <3>2. ch'[c] \in {ch[c], Marked(ch[c])} /\ \A b \in Channel \ {c} : ch'[b] = ch[b]
      BY <1>0, <2>1, <2>9 DEF LookOver
    <3>3. Fast(ch'[c], Seen(c))
      BY <2>3, <3>2, MarkedFast
    <3>4. FastAt(c)'
      BY <2>1, <2>6, <3>1, <3>3, Zenon DEF Fast, FastAt
    <3>5. \A b \in Channel \ {c} : ch'[b] = ch[b] /\ (Seen(b)' => Seen(b) \/ ch[b].cycle = 0)
      BY <2>6, <3>1, <3>2
    <3>6. ChoiceHolds'
      BY <3>1 DEF ChoiceHolds
    <3> QED
      BY <2>1, <2>2, <3>4, <3>5, <3>6, FastLook
  <2>10. CASE LookClear
    <3>1. AfterLook /\ ch'[c] = Cleared(ch[c]) /\ \A b \in Channel \ {c} : ch'[b] = ch[b]
      BY <1>0, <2>1, <2>10 DEF LookClear
    <3>2. Fast(ch'[c], TRUE)
      BY <2>3, <3>1, ClearedFast
    <3>3. FastAt(c)'
      BY <3>2, Zenon DEF Fast, FastAt
    <3>4. \A b \in Channel \ {c} : ch'[b] = ch[b] /\ (Seen(b)' => Seen(b) \/ ch[b].cycle = 0)
      BY <2>5, <3>1
    <3>5. ChoiceHolds'
      BY <2>7, <3>1 DEF ChoiceHolds
    <3> QED
      BY <2>1, <2>2, <3>3, <3>4, <3>5, FastLook
  <2>11. CASE LookNear
    <3>0. ch' = ch
      BY <2>11 DEF LookNear
    <3>1. CASE Choosing(ch[c])
      <4>1. main'.pc \in LookPcs /\ main'.chan = c /\ main'.pc # "choose"
        BY <2>1, <2>11, <3>1 DEF LookNear
      <4> QED
        BY <2>1, <2>6, <3>0, <4>1, FastSame DEF ChoiceHolds
    <3>2. CASE ~ Choosing(ch[c])
      <4>1. AfterLook /\ ch[c].cycle # MS100
        BY <2>1, <2>11, <3>2 DEF LookNear, Choosing
      <4>2. FastAt(c)'
        BY <2>3, <3>0, <4>1, Zenon DEF Fast, FastAt
      <4>3. \A b \in Channel \ {c} : ch'[b] = ch[b] /\ (Seen(b)' => Seen(b) \/ ch[b].cycle = 0)
        BY <2>5, <3>0, <4>1
      <4>4. ChoiceHolds'
        BY <2>7, <4>1 DEF ChoiceHolds
      <4> QED
        BY <2>1, <2>2, <4>2, <4>3, <4>4, FastLook
    <3> QED
      BY <3>1, <3>2
  <2>12. CASE LookFew
    <3>1. /\ main'.pc = "choose" /\ main'.chan = c /\ main'.few = Few(ch[c]) /\ ch' = ch
      BY <2>1, <2>12 DEF LookFew
    <3>2. ch[c].cnt \in 0..3
      BY <2>3, ChanFields
    <3>3. ChoiceHolds'
      <4> SUFFICES ASSUME ~ main'.few PROVE ch'[main'.chan].cnt >= 2
        BY DEF ChoiceHolds
      <4>1. ~ Few(ch[c])
        BY <3>1
      <4> QED
        BY <3>1, <3>2, <4>1 DEF Few
    <3> QED
      BY <2>1, <2>6, <3>1, <3>3, FastSame
  <2>13. CASE LookChoose
    <3>1. /\ AfterLook /\ main.pc = "choose"
          /\ ch' = [ch EXCEPT ![c] = [ch[c] EXCEPT !.one = main.few]]
      BY <2>1, <2>13 DEF LookChoose
    <3>2. PICK few \in BOOLEAN : few = main.few
      BY <3>1 DEF Shape
    <3>3. ch'[c] = [ch[c] EXCEPT !.one = few] /\ \A b \in Channel \ {c} : ch'[b] = ch[b]
      BY <1>0, <2>1, <3>1, <3>2
    <3>4. ~ few /\ ch[c].cycle >= MS100 => ch[c].cnt >= 2
      BY <2>1, <2>8, <3>1, <3>2 DEF FastInv, ChoiceHolds
    <3>5. Fast([ch[c] EXCEPT !.one = few], TRUE)
      BY <2>3, <3>4, ChosenFast, Zenon
    <3>6. FastAt(c)'
      BY <3>3, <3>5, Zenon DEF Fast, FastAt
    <3>7. \A b \in Channel \ {c} : ch'[b] = ch[b] /\ (Seen(b)' => Seen(b) \/ ch[b].cycle = 0)
      BY <2>5, <3>1, <3>3
    <3>8. ChoiceHolds'
      BY <2>7, <3>1 DEF ChoiceHolds
    <3> QED
      BY <2>1, <2>2, <3>6, <3>7, <3>8, FastLook
  <2> QED
    BY <1>4, <2>9, <2>10, <2>11, <2>12, <2>13
<1> QED
  BY <1>1, <1>2, <1>3, <1>4 DEF Main

\* So counted measurements are fast always.
LEMMA FastInvariance == MeterSpec => []FastInv
<1>1. Shape /\ FastInv /\ [MeterNext]_meterVars => FastInv'
  <2> SUFFICES ASSUME Shape, FastInv, [MeterNext]_meterVars PROVE FastInv'
    OBVIOUS
  <2>1. CASE PowerPulse
    <3>1. "P" \in Channel
      BY DEF Channel
    <3> QED
      BY <2>1, <3>1, FastPulse DEF PowerPulse
  <2>2. CASE VIPulse
    <3>1. select \in Channel
      BY DEF Shape, Channel
    <3> QED
      BY <2>2, <3>1, FastPulse DEF VIPulse
  <2>3. CASE UNCHANGED meterVars
    <3>1. ch' = ch /\ board' = board /\ \A c \in Channel : Seen(c)' => Seen(c)
      BY <2>3 DEF meterVars, Seen, PastLook
    <3>2. board = "demo" => ChoiceHolds'
      BY <2>3 DEF meterVars, FastInv, ChoiceHolds
    <3> QED
      BY <3>1, <3>2, FastSame
  <2> QED
    BY <2>1, <2>2, <2>3, FastTick, FastTimer, FastMain DEF MeterNext
<1> QED
  BY <1>1, FastInit, ShapeInvariance, PTL DEF MeterSpec

\* However a pulse, the timer and the main loop follow each other, also across switches
\* between voltage and current: a counted measurement saw at least two pulses in its first
\* 100 ms and one more, in both programs.
THEOREM OnlyFastCounted == MeterSpec => []CountedMeansFast
<1>1. Shape /\ FastInv => CountedMeansFast
  BY Zenon DEF FastInv, Shape, Fast, CountedMeansFast
<1> QED
  BY <1>1, FastInvariance, ShapeInvariance, PTL

\* With the timer as an interrupt, what a pulse ends as a single cycle is one cycle.
THEOREM SingleIsOne == MeterSpec => []VendorSingleCycle
<1>1. Shape /\ FastInv => VendorSingleCycle
  <2> SUFFICES ASSUME FastInv, board = "vendor", NEW c \in Channel,
                      ch[c].one, Due(ch[c], Window(c))
               PROVE  ch[c].cnt = 1
    BY DEF VendorSingleCycle
  <2>1. ch[c].cycle >= MS100
    BY DEF Due
  <2> QED
    BY <2>1 DEF FastInv, Single
<1> QED
  BY <1>1, FastInvariance, ShapeInvariance, PTL

-----------------------------------------------------------------------------
(* Flags of the demo. *)

\* The channels main loop serves after c in a turn.
After(c) == CASE c = "P" -> {"I", "V", "end"} [] c = "I" -> {"V", "end"} [] c = "V" -> {"end"}

\* The channel may not have been served since the last tick.
Waiting(c) ==
  \/ turns = 0
  \/ turns = 1 /\ ~ (main.pc \in {"serve"} \cup CalcPcs /\ main.chan \in After(c))

\* A channel that waits to be computed began to measure anew less than two ticks ago, and
\* it waits as long as it is being computed.
FlagInv ==
  board = "demo" =>
    /\ main.pc \in CalcPcs => flag[main.chan]
    /\ \A c \in Channel : flag[c] /\ ch[c].cycle # 0 => ch[c].cycle = 1 /\ Waiting(c)

\* A pulse that ends a measurement raises the flag and begins the next one at cycle 0.
LEMMA FlagPulse ==
  ASSUME Shape, FlagInv, NEW c \in Channel,
         ch' = [ch EXCEPT ![c] = Pulsed(ch[c], Window(c))],
         NEW d \in Channel, d = c \/ (d = "V" /\ c = select), c \in {"P", select},
         flag' = [flag EXCEPT ![d] = @ \/ Flagging(c)],
         UNCHANGED <<board, turns, main>>
  PROVE  FlagInv'
<1> DEFINE y == Pulsed(ch[c], Window(c))
<1>0. /\ ch \in [Channel -> Chan] /\ ch[c] \in Chan /\ flag \in [Channel -> BOOLEAN]
      /\ main.pc \in CalcPcs => main.chan \in Channel
      /\ select \in {"V", "I"}
  BY DEF Shape
<1>1. ch'[c] = y /\ \A b \in Channel \ {c} : ch'[b] = ch[b]
  BY <1>0
<1>2. y.cycle = 0 \/ (y.cycle = ch[c].cycle /\ ~ Due(ch[c], Window(c)))
  BY <1>0, PulsedFields
<1> HIDE DEF y
<1>3. \A b \in Channel : flag[b] => flag'[b]
  BY <1>0
<1>4. \A b \in Channel : Waiting(b)' = Waiting(b)
  BY DEF Waiting
<1> SUFFICES ASSUME board = "demo"
             PROVE  /\ main.pc \in CalcPcs => flag'[main.chan]
                    /\ \A b \in Channel : flag'[b] /\ ch'[b].cycle # 0
                                            => ch'[b].cycle = 1 /\ Waiting(b)'
  BY DEF FlagInv
<1>5. main.pc \in CalcPcs => flag'[main.chan]
  BY <1>0, <1>3 DEF FlagInv
<1>6. ASSUME NEW b \in Channel, flag'[b], ch'[b].cycle # 0
      PROVE  ch'[b].cycle = 1 /\ Waiting(b)'
  <2>1. ch'[b].cycle = ch[b].cycle
    BY <1>1, <1>2, <1>6
  <2>2. flag[b]
    <3>1. CASE Flagging(c) = FALSE
      BY <1>0, <1>6, <3>1
    <3>2. CASE Flagging(c) = TRUE
      <4>1. ch'[c].cycle = 0
        BY <1>1, <1>2, <3>2 DEF Flagging
      <4>2. b # c
        BY <1>6, <4>1
      <4>3. CASE b = d
        <5>1. d = "V" /\ select = "I" /\ c = "I"
          BY <1>0, <4>2, <4>3
        <5>2. ch[d].cycle = 0
          BY <5>1 DEF Shape, Channel
        <5> QED
          BY <1>6, <2>1, <4>3, <5>2
      <4>4. CASE b # d
        BY <1>0, <1>6, <4>4
      <4> QED
        BY <4>3, <4>4
    <3>3. Flagging(c) \in BOOLEAN
      BY DEF Flagging
    <3> QED
      BY <3>1, <3>2, <3>3
  <2> QED
    BY <1>4, <1>6, <2>1, <2>2 DEF FlagInv
<1> QED
  BY <1>5, <1>6

\* A tick finds served what waited for a whole turn of the loop.
LEMMA FlagTick == ASSUME Shape, FlagInv, DemoTick PROVE FlagInv'
<1>1. /\ board = "demo" /\ turns >= 2 /\ turns \in Nat /\ turns' = 0
      /\ main' = main /\ flag' = flag
      /\ ch \in [Channel -> Chan] /\ ch' = Timed
  BY MeterAssumption DEF DemoTick, Shape, calcVars
<1>2. ASSUME NEW c \in Channel, flag[c] PROVE ch[c].cycle = 0
  <2>1. ~ Waiting(c)
    BY <1>1 DEF Waiting
  <2> QED
    BY <1>1, <1>2, <2>1 DEF FlagInv
<1>3. ASSUME NEW c \in Channel PROVE ch'[c].cycle \in {ch[c].cycle, ch[c].cycle + 1}
  <2>1. ch'[c] \in {ch[c], Ticked(ch[c])} /\ ch[c] \in Chan
    BY <1>1 DEF Timed
  <2> QED
    BY <2>1 DEF Ticked, Chan
<1>4. \A c \in Channel : Waiting(c)'
  BY <1>1 DEF Waiting
<1> QED
  BY <1>1, <1>2, <1>3, <1>4 DEF FlagInv

\* A step of the main loop that neither begins a measurement nor lowers a flag.
LEMMA FlagSame ==
  ASSUME FlagInv, board' = board, flag' = flag,
         \A c \in Channel : ch'[c].cycle \in {0, ch[c].cycle},
         main'.pc \in CalcPcs => flag[main'.chan],
         \A c \in Channel : flag[c] /\ ch[c].cycle # 0 /\ Waiting(c) => Waiting(c)'
  PROVE  FlagInv'
BY DEF FlagInv

\* The loop lowers the flag before two ticks are over.
LEMMA FlagMain == ASSUME Shape, FlagInv, Main PROVE FlagInv'
<1> USE DEF Goto, GotoFor, At, CalcPcs, envVars, chanVars, calcVars, calVars
<1>0. /\ ch \in [Channel -> Chan] /\ select \in {"V", "I"} /\ board \in {"demo", "vendor"}
      /\ select \in Channel /\ Channel = {"P", "V", "I"} /\ turns \in Nat
      /\ flag \in [Channel -> BOOLEAN]
  BY DEF Shape, Channel
<1>1. CASE board = "vendor"
  <2>1. board' = board
    BY DEF Main, Top, Calibrate, VendorTop, LookOver, LookClear, LookNear, LookFew,
       LookChoose, Switch, Serve, ReadMode, ReadTime, ReadCount, Show, Lower
  <2> QED
    BY <1>1, <2>1 DEF FlagInv
<1>2. ASSUME board = "demo",
             Top \/ Calibrate \/ LookOver \/ LookClear \/ LookNear \/ LookFew \/ LookChoose
               \/ Switch
      PROVE  FlagInv'
  <2>1. /\ board' = board /\ flag' = flag /\ turns' = turns
        /\ main'.pc \in {"cal", "over", "clear", "near", "few", "choose", "switch", "serve"}
        /\ main'.pc = "serve" => main'.chan = "P"
    <3>1. main.pc \in LookPcs => main.chan \in {"P", select}
      BY DEF Shape
    <3> QED
      BY <1>2, <3>1 DEF Top, Calibrate, LookOver, LookClear, LookNear, LookFew, LookChoose,
         Switch, AfterLook
  <2>2. ASSUME NEW c \in Channel PROVE ch'[c].cycle \in {0, ch[c].cycle}
    <3>1. ch[c] \in Chan
      BY <1>0
    <3>2. Marked(ch[c]).cycle = ch[c].cycle
      BY <3>1, MarkedFields
    <3>3. \A y \in {Cleared(ch[c]), Selected(ch[c]), Parked(ch[c])} : y.cycle = 0
      BY <3>1 DEF Cleared, Selected, Parked, Chan
    <3>4. \A b \in BOOLEAN : [ch[c] EXCEPT !.one = b].cycle = ch[c].cycle
      BY <3>1 DEF Chan
    <3>5. CASE Switch
      <4> DEFINE other == IF select = "V" THEN "I" ELSE "V"
      <4>1. other \in Channel
        BY <1>0
      <4>2. \/ ch' = [ch EXCEPT ![other] = Selected(ch[other]), ![select] = Parked(ch[select])]
            \/ ch' = ch
        BY <3>5 DEF Switch
      <4> HIDE DEF other
      <4>3. ch'[c] \in {ch[c], Selected(ch[c]), Parked(ch[c])}
        BY <1>0, <4>1, <4>2
      <4> QED
        BY <3>3, <4>3
    <3>6. CASE LookChoose
      <4>1. PICK few \in BOOLEAN : few = main.few
        BY <3>6 DEF LookChoose, Shape
      <4>2. ch'[c] = ch[c] \/ ch'[c] = [ch[c] EXCEPT !.one = few]
        BY <1>0, <3>6, <4>1 DEF LookChoose
      <4> QED
        BY <3>4, <4>2
    <3>7. CASE Top \/ Calibrate \/ LookOver \/ LookClear \/ LookNear \/ LookFew
      <4>1. ch'[c] \in {ch[c], Marked(ch[c]), Cleared(ch[c])}
        BY <1>0, <3>7 DEF Top, Calibrate, LookOver, LookClear, LookNear, LookFew
      <4> QED
        BY <3>2, <3>3, <4>1
    <3> QED
      BY <1>2, <3>5, <3>6, <3>7
  <2>3. \A c \in Channel : Waiting(c) => Waiting(c)'
    BY <1>0, <2>1 DEF Waiting, After
  <2> QED
    BY <2>1, <2>2, <2>3, FlagSame
<1>3. ASSUME board = "demo", ReadMode \/ ReadTime \/ ReadCount \/ Show PROVE FlagInv'
  <2>1. /\ board' = board /\ flag' = flag /\ turns' = turns /\ ch' = ch
        /\ main.pc \in CalcPcs /\ main'.pc \in CalcPcs /\ main'.chan = main.chan
    BY <1>3 DEF ReadMode, ReadTime, ReadCount, Show
  <2>2. \A c \in Channel : Waiting(c) => Waiting(c)'
    BY <2>1 DEF Waiting
  <2>3. flag[main.chan]
    BY <1>3, <2>1 DEF FlagInv
  <2> QED
    BY <2>1, <2>2, <2>3, FlagSame
<1>4. ASSUME board = "demo", Lower PROVE FlagInv'
  <2>1. PICK c \in Channel : c = main.chan
    BY <1>4 DEF Lower, Shape
  <2>2. /\ board' = board /\ turns' = turns /\ ch' = ch
        /\ flag' = [flag EXCEPT ![c] = FALSE]
        /\ main.pc \in CalcPcs /\ main' = [pc |-> "serve", chan |-> NextChan(c)]
    BY <1>4, <2>1 DEF Lower
  <2>3. ~ flag'[c] /\ \A b \in Channel \ {c} : flag'[b] = flag[b]
    BY <1>0, <2>2
  <2>4. ASSUME NEW b \in Channel \ {c}, Waiting(b) PROVE Waiting(b)'
    BY <1>0, <1>4, <2>1, <2>2, <2>4 DEF Waiting, After, NextChan
  <2>5. ASSUME NEW b \in Channel, flag'[b], ch'[b].cycle # 0
        PROVE  ch'[b].cycle = 1 /\ Waiting(b)'
    BY <1>4, <2>2, <2>3, <2>4, <2>5 DEF FlagInv
  <2> QED
    BY <2>2, <2>5 DEF FlagInv
<1>5. ASSUME board = "demo", Serve PROVE FlagInv'
  <2>0. board' = board /\ flag' = flag /\ ch' = ch /\ main.pc = "serve"
        /\ main.chan \in Channel \cup {"end"}
    BY <1>5 DEF Serve, Shape
  <2>1. CASE main.chan = "end"
    <3>1. main'.pc = "top" /\ turns' \in {turns, turns + 1} /\ (turns' = turns => turns # 0)
      BY <1>0, <1>5, <2>1, MeterAssumption DEF Serve
    <3>2. ASSUME NEW c \in Channel, Waiting(c) PROVE Waiting(c)'
      <4>1. "end" \in After(c)
        BY <1>0 DEF After
      <4>2. turns = 0
        BY <2>0, <2>1, <3>2, <4>1 DEF Waiting
      <4> QED
        BY <3>1, <4>2 DEF Waiting
    <3> QED
      BY <2>0, <3>1, <3>2, FlagSame
  <2>2. CASE main.chan # "end" /\ flag[main.chan]
    <3>1. main'.pc = "mode" /\ main'.chan = main.chan /\ turns' = turns
      BY <1>5, <2>2 DEF Serve
    <3>2. \A c \in Channel : Waiting(c) => Waiting(c)'
      BY <2>0, <3>1 DEF Waiting
    <3> QED
      BY <2>0, <2>2, <3>1, <3>2, FlagSame
  <2>3. CASE main.chan # "end" /\ ~ flag[main.chan]
    <3>0. PICK c \in Channel : c = main.chan
      BY <2>0, <2>3
    <3>1. main'.pc = "serve" /\ main'.chan = NextChan(c) /\ turns' = turns
      BY <1>5, <2>3, <3>0 DEF Serve
    <3>2. ASSUME NEW b \in Channel, flag[b], Waiting(b) PROVE Waiting(b)'
      <4>1. b # c
        BY <2>3, <3>0, <3>2
      <4> QED
        BY <1>0, <1>5, <2>0, <3>0, <3>1, <3>2, <4>1 DEF Waiting, After, NextChan
    <3> QED
      BY <2>0, <3>1, <3>2, FlagSame
  <2> QED
    BY <2>1, <2>2, <2>3
<1>6. VendorTop => board = "vendor"
  BY DEF VendorTop
<1> QED
  BY <1>0, <1>1, <1>2, <1>3, <1>4, <1>5, <1>6 DEF Main

\* So flags are served always.
LEMMA FlagInvariance == MeterSpec => []FlagInv
<1>1. MeterInit => FlagInv
  BY DEF MeterInit, FlagInv, CalcPcs
<1>2. Shape /\ FlagInv /\ [MeterNext]_meterVars => FlagInv'
  <2> SUFFICES ASSUME Shape, FlagInv, [MeterNext]_meterVars PROVE FlagInv'
    OBVIOUS
  <2>1. CASE PowerPulse
    <3>1. "P" \in Channel
      BY DEF Channel
    <3> QED
      BY <2>1, <3>1, FlagPulse DEF PowerPulse
  <2>2. CASE VIPulse
    <3>1. select \in Channel /\ FlagOf(select) \in Channel
          /\ (FlagOf(select) = select \/ FlagOf(select) = "V")
      BY DEF Shape, Channel, FlagOf
    <3>2. PICK c \in Channel, d \in Channel : c = select /\ d = FlagOf(select)
      BY <3>1
    <3> QED
      BY <2>2, <3>1, <3>2, FlagPulse DEF VIPulse
  <2>3. CASE VendorTimer
    BY <2>3 DEF VendorTimer, FlagInv
  <2>4. CASE UNCHANGED meterVars
    BY <2>4 DEF meterVars, FlagInv, Waiting
  <2> QED
    BY <2>1, <2>2, <2>3, <2>4, FlagTick, FlagMain DEF MeterNext
<1> QED
  BY <1>1, <1>2, ShapeInvariance, PTL DEF MeterSpec

\* A channel whose flag is up cannot end another measurement.
LEMMA NotDue ==
  ASSUME Shape, FlagInv, board = "demo", NEW c \in Channel, flag[c]
  PROVE  ~ Due(ch[c], Window(c))
<1>1. ch[c].cycle = 0 \/ ch[c].cycle = 1
  BY DEF FlagInv
<1>2. MS100 \in Nat /\ MS100 > 1 /\ Window(c) \in Nat /\ Window(c) > 1
  BY WindowLong, TimeAssumption
<1> QED
  BY <1>1, <1>2 DEF Due

\* The demo computes a power measurement before another one can end, however pulses fall
\* between the steps of the main loop.
THEOREM NoneOverwritten == MeterSpec => []PowerServed
<1>1. Shape /\ FlagInv => PowerServed
  BY NotDue DEF PowerServed, Channel
<1> QED
  BY <1>1, FlagInvariance, ShapeInvariance, PTL

\* What the demo's main loop reads of a measurement, a variable at a time, is of one.
THEOREM ReadOfOne == MeterSpec => []ReadsWhole
<1>1. Shape /\ FlagInv => ReadsWhole
  <2> SUFFICES ASSUME Shape, FlagInv, board = "demo", main.pc \in {"time", "count", "show"}
               PROVE  ~ Due(ch[main.chan], Window(main.chan))
    BY DEF ReadsWhole
  <2>1. main.chan \in Channel /\ flag[main.chan]
    BY DEF Shape, FlagInv, CalcPcs
  <2> QED
    BY <2>1, NotDue
<1> QED
  BY <1>1, FlagInvariance, ShapeInvariance, PTL
=============================================================================
