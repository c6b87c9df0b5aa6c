----------------------------- MODULE JoylinkJoin -----------------------------
(***************************************************************************)
(* Joining of LAN messages that arrive in several packets: a table of      *)
(* slots, one per sender and message, each with a list of the parts seen.  *)
(* The functions are written over a value jps of the table; the device     *)
(* keeps it in a variable.                                                 *)
(***************************************************************************)
EXTENDS Integers, Sequences, FiniteSets

CONSTANT Slots    \* JL_MAX_JOIN_PKG_ARRARY

ASSUME JoinAssumption == Slots \in Nat \ {0}

\* _g_jps at the start: nothing runs.
Idle == [is_run |-> FALSE, name |-> 0, id |-> 0, total |-> 0, current_count |-> 0,
         list |-> <<>>]
NoParts == [i \in 1..Slots |-> Idle]

-----------------------------------------------------------------------------
(* joylink_list.c: a list of nodes [id, data], new ones at its end. *)

NodeAdd(list, id, data) == Append(list, [id |-> id, data |-> data])
NodesOf(list, id) == {k \in DOMAIN list : list[k].id = id}
First(S) == CHOOSE x \in S : \A y \in S : x <= y
NodeById(list, id) == list[First(NodesOf(list, id))]

-----------------------------------------------------------------------------
(* joylink_join_packet.c *)

\* Mutant: only the sender is compared.
SlotsOfSender(jps, name, id) == {i \in 1..Slots : jps[i].is_run /\ jps[i].name = name}

\* joylink_join_pkg_get_index_by_name_id: the slot is the first of these.
SlotsOf(jps, name, id) ==
  {i \in 1..Slots : jps[i].is_run /\ jps[i].name = name /\ jps[i].id = id}

\* joylink_join_pkg_get_idle_index
IdleSlots(jps) == {i \in 1..Slots : ~jps[i].is_run}

\* joylink_join_pkg_cache_new_node: the count of parts is left alone.
NewNode(slot, name, id, head, data) ==
  [is_run |-> TRUE, name |-> name, id |-> id, total |-> head.total,
   current_count |-> slot.current_count, list |-> NodeAdd(<<>>, head.index, data)]

\* joylink_join_pkg_add_data: a part goes to the slot of its message, else to an
\* idle one, else it is refused.  A part seen before is added once more.
AddData(jps, name, id, head, data) ==
  LET known == SlotsOf(jps, name, id)
      free == IdleSlots(jps)
      i == IF known # {} THEN First(known) ELSE First(free)
      slot == IF known # {} THEN [jps[i] EXCEPT !.list = NodeAdd(@, head.index, data)]
              ELSE NewNode(jps[i], name, id, head, data)
  IN IF known = {} /\ free = {}
     THEN [jps |-> jps, ret |-> "E_RET_ERROR_PKG_BREAK_ARRAY"]
     ELSE [jps |-> [jps EXCEPT ![i] = slot],
           ret |-> IF slot.current_count = slot.total THEN "E_RET_ALL_DATA_HIT"
                   ELSE "E_RET_OK"]

HasAll(slot) == \A k \in 1..slot.total : NodesOf(slot.list, k) # {}

\* joylink_join_pkg_join_data: the data of the parts in order, or nothing when
\* one is missing.  Behind it the buffer has room for the parts seen twice.
JoinData(jps, name, id) ==
  LET slot == jps[First(SlotsOf(jps, name, id))]
  IN IF HasAll(slot) THEN [k \in 1..slot.total |-> NodeById(slot.list, k).data] ELSE <<>>
==============================================================================
