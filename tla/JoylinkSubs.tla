----------------------------- MODULE JoylinkSubs -----------------------------
(***************************************************************************)
(* The table of sub-devices of a gateway, as the example application keeps *)
(* it, and the requests on it.  A device is known by its uuid and mac,     *)
(* here one name; its feedid, accesskey and localkey come together, here   *)
(* as the number of the binding that made them, 0 before there is one.     *)
(***************************************************************************)
EXTENDS Integers, FiniteSets

CONSTANT Rows    \* JL_MAX_SUB

ASSUME SubsAssumption == Rows \in Nat \ {0}

NoDevice == "none"
Builtin == "builtin"    \* the device the table is compiled with
BuiltinKeys == 1

EmptyRow == [dev |-> NoDevice, keys |-> 0, state |-> "NO_CONF"]

\* _g_sub_dev and tail_index at the start.
FirstTable ==
  [rows |-> [i \in 0..(Rows - 1) |->
               IF i = 0 THEN [dev |-> Builtin, keys |-> BuiltinKeys, state |-> "CONFD"]
               ELSE EmptyRow],
   tail |-> 0]

\* joylink_dev_sub_add: the first of the devices is appended without a look at
\* the others; when there is no room nothing is added, and the answer is the same.
SubAdd(t, dev) ==
  IF t.tail + 1 < Rows
  THEN [rows |-> [t.rows EXCEPT ![t.tail + 1] = [EmptyRow EXCEPT !.dev = dev]],
        tail |-> t.tail + 1]
  ELSE t

\* Mutant: the search ends at the last row of the device.
UpdateKeysLast(t, dev, keys) ==
  [t EXCEPT !.rows = [i \in DOMAIN @ |->
     IF @[i].dev = dev /\ \A j \in DOMAIN @ : j > i => @[j].dev # dev
     THEN [dev |-> dev, keys |-> keys, state |-> "CONFD"] ELSE @[i]]]

\* joylink_dev_sub_update_keys_by_uuid_mac: every row of the device.
UpdateKeys(t, dev, keys) ==
  [t EXCEPT !.rows = [i \in DOMAIN @ |->
     IF @[i].dev = dev THEN [dev |-> dev, keys |-> keys, state |-> "CONFD"] ELSE @[i]]]

\* joylink_dev_sub_get_by_feedid: the last row with that feedid.
RowsWith(t, keys) == {i \in DOMAIN t.rows : t.rows[i].keys = keys}
RowOfFeedid(t, keys) == CHOOSE i \in RowsWith(t, keys) : \A j \in RowsWith(t, keys) : j <= i
==============================================================================
