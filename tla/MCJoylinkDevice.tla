--------------------------- MODULE MCJoylinkDevice ---------------------------
(* Instances of JoylinkDevice for TLC. *)
EXTENDS JoylinkDevice

Device(gw, bound, lan) == [gw |-> gw, bound |-> bound, lan |-> lan]

MCSetups ==
  {Device(gw, b, {"key", "ctrl"}) : gw, b \in BOOLEAN}
    \cup {Device(FALSE, FALSE, {"part"}), Device(TRUE, FALSE, {"sub"})}
MCPartSetups == {Device(FALSE, FALSE, {"part"})}
==============================================================================
