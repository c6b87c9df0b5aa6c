---------------------------- MODULE MCPowerMeter ----------------------------
(* PowerMeter for TLC: the setups. *)
EXTENDS PowerMeter

\* P and V/I share no variable a pulse writes, so their inputs get pulses one at
\* a time; a calibration is watched without a load.
MCSetups ==
  {<<"vendor", {"CF"}, TRUE>>, <<"vendor", {"CF1"}, TRUE>>,
   <<"demo", {"CF"}, TRUE>>, <<"demo", {"CF1"}, TRUE>>, <<"demo", {}, FALSE>>}
=============================================================================
