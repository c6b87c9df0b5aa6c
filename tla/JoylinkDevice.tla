---------------------------- MODULE JoylinkDevice ----------------------------
(***************************************************************************)
(* The Joylink device: one thread whose main loop, when its timer has run  *)
(* out, drives the connection to the cloud (INIT, AUTH, WORK), and serves  *)
(* packets of the local network and of the cloud, the former first.        *)
(*                                                                         *)
(* The cloud and its TCP connection are modelled from the packets the code *)
(* sends and expects: the cloud answers what it can decrypt, in order; the *)
(* answers wait in inbox as long as it takes; the connection may be closed *)
(* by the peer or die in silence.  The keys of a device (feedid, accesskey,*)
(* localkey, address of the server) are the number of the binding they     *)
(* were made in, 0 when empty.                                             *)
(***************************************************************************)
EXTENDS JoylinkJoin, JoylinkSubs

CONSTANTS
  Setups,     \* whether the device is a gateway, whether it is bound at the start,
              \* and the kinds of local packets it gets
  MaxLost,    \* JL_MAX_SERVER_HB_LOST
  MaxInbox,   \* bound: answers waiting when the timer runs out
  Bindings,   \* bound: number of bindings of the device
  SubBindings,  \* bound: number of bindings of the sub-devices
  Senders, MessageIds, Parts,  \* local messages in several packets, and their length
  MaxParts,   \* bound: parts in a slot
  SubDevices  \* sub-devices that are added and bound

ASSUME DeviceAssumption ==
  /\ MaxLost \in Nat /\ MaxInbox \in Nat \ {0} /\ {Bindings, SubBindings} \subseteq Nat \ {0}
  /\ Parts \in Nat \ {0, 1} /\ MaxParts \in Nat
  /\ NoDevice \notin SubDevices    \* a sub-device has a uuid, an empty row has none
  /\ \A s \in Setups : /\ s.gw \in BOOLEAN /\ s.bound \in BOOLEAN
                       /\ s.lan \subseteq {"key", "ctrl", "part", "sub"}

VARIABLES
  setup,
  jlp,      \* feedid, accesskey, localkey, server: in RAM
  flash,    \* the same, as the attribute callbacks keep them
  saving,   \* fields joylink_dev_set_attr_jlp has still to store, then the reply
  server_st, server_socket, hb_lost_count,
  session,  \* sessionKey: "none", of an "old" connection or of "this" one
  open,     \* sockets to the cloud open in the system
  cloud,    \* the peer of the connection
  inbox,    \* packets of the cloud not yet read
  synced,   \* whether the cloud was told the state of the device
  jps,      \* slots of messages being joined
  joined,   \* what the last local packet completed
  subs,     \* the table of sub-devices
  used,     \* number of bindings made so far
  acked,    \* history: the binding a reply was sent for, whether its save failed
  told,     \* history: the binding each sub-device was given last
  calm      \* from here on nothing fails any more

netVars   == <<server_st, server_socket, hb_lost_count, session, open, cloud, inbox>>
keyVars   == <<jlp, flash, saving, acked>>
lanVars   == <<jps, joined, subs, told>>
deviceVars == <<setup, jlp, flash, saving, server_st, server_socket, hb_lost_count,
                session, open, cloud, inbox, synced, jps, joined, subs, used, acked,
                told, calm>>

Saves == <<"feedid", "accesskey", "localkey", "server", "reply">>
Keys(n) == [f \in {"feedid", "accesskey", "localkey", "server"} |-> n]
NoCloud == [link |-> "none", at |-> 0, authed |-> FALSE]
NoSocket == -1
Fd == 3    \* the number socket() returns; after close() it is stale

DeviceInit ==
  /\ setup \in Setups
  /\ \E n \in {IF setup.bound THEN 1 ELSE 0} :
       jlp = Keys(n) /\ flash = Keys(n) /\ used = 1
  /\ saving = <<>> /\ acked = [keys |-> 0, refused |-> FALSE]
  /\ server_st = "INIT" /\ server_socket = NoSocket /\ hb_lost_count = 0
  /\ session = "none" /\ open = 0 /\ cloud = NoCloud /\ inbox = <<>>
  /\ synced = TRUE /\ jps = NoParts /\ joined = <<>>
  /\ subs = FirstTable /\ told = [d \in SubDevices |-> 0] /\ calm = FALSE

-----------------------------------------------------------------------------
(* The connection, by the timer *)

\* joylink_server_st_time_out_check: a session whose heartbeats are lost goes to
\* AUTH and by the next condition to INIT.
TimedOut == hb_lost_count > MaxLost /\ server_st \in {"AUTH", "WORK"}

\* The loop calls joylink_proc_server_st; without a feedid it does nothing.  Once
\* calm, answers arrive before the timer runs out.
Turn == saving = <<>> /\ jlp.feedid # 0 /\ Len(inbox) < MaxInbox /\ (calm => inbox = <<>>)

\* Mutant: the time-out leaves the socket open.
StillOpenLeft == open

StillOpen == IF TimedOut THEN open - 1 ELSE open

\* joylink_server_st_init, after a time-out or in INIT: no socket, no connection (the
\* number of the closed socket is kept), or a new connection.
NewSocket(st, socket, hb, opened, peer) ==
  /\ server_st' = st /\ server_socket' = socket /\ hb_lost_count' = hb
  /\ open' = opened /\ cloud' = peer

ConnectTurn ==
  /\ Turn
  /\ TimedOut \/ server_st = "INIT"
  /\ \/ ~calm /\ NewSocket("INIT", NoSocket, IF TimedOut THEN 0 ELSE hb_lost_count,
                           StillOpen, NoCloud)
     \/ (~calm \/ jlp.server = 0) /\ NewSocket("INIT", Fd, 0, StillOpen, NoCloud)
     \/ jlp.server # 0 /\ NewSocket("AUTH", Fd, 0, StillOpen + 1,
                            [link |-> "up", at |-> jlp.server, authed |-> FALSE])
  /\ session' = IF session = "this" THEN "old" ELSE session
  /\ inbox' = <<>>
  /\ UNCHANGED <<setup, keyVars, lanVars, synced, used, calm>>

\* joylink_server_st_auth: the cloud knows the binding whose server it is, and
\* answers with a session key, under the accesskey.
AuthTurn ==
  /\ Turn /\ ~TimedOut /\ server_st = "AUTH"
  /\ hb_lost_count' = hb_lost_count + 1
  /\ IF cloud.link = "up" /\ jlp.feedid = cloud.at /\ jlp.accesskey = cloud.at
     THEN /\ cloud' = [cloud EXCEPT !.authed = TRUE]
          /\ inbox' = Append(inbox, [type |-> "auth", accesskey |-> jlp.accesskey])
     ELSE UNCHANGED <<cloud, inbox>>
  /\ UNCHANGED <<setup, keyVars, lanVars, server_st, server_socket, session, open, synced,
                 used, calm>>

\* Whether what is sent now under the session key reaches the cloud.
Reaches == cloud.link = "up" /\ cloud.authed /\ session = "this"

\* joylink_server_st_work: a heartbeat, which a gateway sends for its sub-devices.
WorkTurn ==
  /\ Turn /\ ~TimedOut /\ server_st = "WORK"
  /\ hb_lost_count' = hb_lost_count + 1
  /\ inbox' = IF Reaches THEN Append(inbox, [type |-> "hb", accesskey |-> 0]) ELSE inbox
  /\ UNCHANGED <<setup, keyVars, lanVars, server_st, server_socket, session, open, cloud,
                 synced, used, calm>>

-----------------------------------------------------------------------------
(* Packets of the cloud *)

\* The loop selects on the socket only from AUTH on; joylink_proc_lan goes first.
Readable == saving = <<>> /\ server_socket # NoSocket /\ server_st # "INIT" /\ inbox # <<>>

\* joylink_server_upload_req, with the state of the device.
Uploaded == synced \/ Reaches

\* joylink_dencypt_server_req: an authentication was answered under the accesskey sent
\* with it, everything else is under the session key of the connection.
Decrypts(packet) == IF packet.type = "auth" THEN jlp.accesskey = packet.accesskey
                    ELSE session = "this"

\* Mutant: any answer puts the device to work.
AuthReadAny ==
  /\ Readable /\ Head(inbox).type = "auth"
  /\ inbox' = Tail(inbox)
  /\ server_st' = "WORK"
  /\ session' = IF Decrypts(Head(inbox)) THEN "this" ELSE session
  /\ UNCHANGED <<setup, keyVars, lanVars, server_socket, hb_lost_count, open, cloud,
                 synced, used, calm>>

\* joylink_proc_server_auth: an answer that accesskey does not decrypt is dropped; the
\* upload of a device that is no gateway uses the new key.
AuthRead ==
  /\ Readable /\ Head(inbox).type = "auth"
  /\ inbox' = Tail(inbox)
  /\ IF Decrypts(Head(inbox))
     THEN /\ session' = "this"
          /\ server_st' = "WORK"
          /\ synced' = (synced \/ (~setup.gw /\ cloud.link = "up"))
     ELSE UNCHANGED <<session, server_st, synced>>
  /\ UNCHANGED <<setup, keyVars, lanVars, server_socket, hb_lost_count, open, cloud, used,
                 calm>>

\* Mutant: the answer to a heartbeat does not reset the count.
HbReadUncounted ==
  /\ Readable /\ Head(inbox).type = "hb" /\ Decrypts(Head(inbox))
  /\ inbox' = Tail(inbox)
  /\ server_st' = "WORK"
  /\ synced' = IF setup.gw THEN synced ELSE Uploaded
  /\ UNCHANGED <<setup, keyVars, lanVars, server_socket, hb_lost_count, session, open, cloud,
                 used, calm>>

\* joylink_proc_server_hb and _sub_hb: a gateway then uploads its sub-devices only.
HbRead ==
  /\ Readable /\ Head(inbox).type = "hb" /\ Decrypts(Head(inbox))
  /\ inbox' = Tail(inbox)
  /\ server_st' = "WORK" /\ hb_lost_count' = 0
  /\ synced' = IF setup.gw THEN synced ELSE Uploaded
  /\ UNCHANGED <<setup, keyVars, lanVars, server_socket, session, open, cloud, used, calm>>

\* joylink_proc_server_ctrl: the state is changed or asked for; the answer tells it.
CtrlRead ==
  /\ Readable /\ Head(inbox).type = "ctrl" /\ Decrypts(Head(inbox))
  /\ inbox' = Tail(inbox)
  /\ \E changed \in BOOLEAN : synced' = IF changed THEN Reaches ELSE Uploaded
  /\ UNCHANGED <<setup, keyVars, lanVars, server_st, server_socket, hb_lost_count, session,
                 open, cloud, used, calm>>

\* joylink_server_recv may return part of a packet, which does not decrypt; nor does
\* one under a session key the device has not got.
BrokenRead ==
  /\ Readable
  /\ ~calm \/ (Head(inbox).type # "auth" /\ ~ Decrypts(Head(inbox)))
  /\ inbox' = Tail(inbox)
  /\ UNCHANGED <<setup, keyVars, lanVars, server_st, server_socket, hb_lost_count, session,
                 open, cloud, synced, used, calm>>

\* joylink_proc_server, when there is nothing more to receive; hb_lost_count stays.
CloseRead ==
  /\ saving = <<>> /\ server_st # "INIT" /\ inbox = <<>> /\ cloud.link = "closed"
  /\ open' = open - 1
  /\ server_socket' = NoSocket /\ server_st' = "INIT"
  /\ cloud' = NoCloud
  /\ session' = IF session = "this" THEN "old" ELSE session
  /\ UNCHANGED <<setup, keyVars, lanVars, hb_lost_count, inbox, synced, used, calm>>

\* The cloud sends a control, closes the connection, or is not heard of any more.
CloudCtrl ==
  /\ ~calm /\ cloud.link = "up" /\ cloud.authed /\ Len(inbox) < MaxInbox
  /\ inbox' = Append(inbox, [type |-> "ctrl", accesskey |-> 0])
  /\ UNCHANGED <<setup, keyVars, lanVars, server_st, server_socket, hb_lost_count, session,
                 open, cloud, synced, used, calm>>

LinkLost ==
  /\ ~calm
  /\ \E link \in {"dead", "closed"} :
       /\ cloud.link = "up" \/ (cloud.link = "dead" /\ link = "closed")
       /\ cloud' = [cloud EXCEPT !.link = link]
  /\ UNCHANGED <<setup, keyVars, lanVars, server_st, server_socket, hb_lost_count, session,
                 open, inbox, synced, used, calm>>

-----------------------------------------------------------------------------
(* Packets of the local network *)

Lan(kind) == ~calm /\ saving = <<>> /\ kind \in setup.lan

\* joylink_proc_lan_write_key takes the parsed keys into RAM at once; a packet that
\* does not parse empties all of them but the server.  An empty field is not stored.
\* The connection is left alone.
WriteKey ==
  /\ Lan("key")
  /\ \/ /\ used < Bindings
        /\ used' = used + 1
        /\ jlp' = Keys(used + 1)
        /\ saving' = Saves
     \/ /\ jlp' = [Keys(0) EXCEPT !.server = jlp.server]
        /\ saving' = IF jlp.server = 0 THEN <<"reply">> ELSE <<"server", "reply">>
        /\ UNCHANGED used
  /\ UNCHANGED <<setup, netVars, lanVars, synced, flash, acked, calm>>

\* Mutant: the reply is sent before the last field is stored.
SaveStepEarly ==
  /\ saving # <<>> /\ Head(saving) # "reply"
  /\ flash' = [flash EXCEPT ![Head(saving)] = jlp[Head(saving)]]
  /\ saving' = Tail(saving)
  /\ acked' = IF Head(saving) = "localkey" THEN [keys |-> jlp.feedid, refused |-> FALSE]
              ELSE acked
  /\ UNCHANGED <<setup, netVars, lanVars, jlp, synced, used, calm>>

\* joylink_dev_set_attr_jlp: one field after the other.
SaveStep ==
  /\ saving # <<>> /\ Head(saving) # "reply"
  /\ flash' = [flash EXCEPT ![Head(saving)] = jlp[Head(saving)]]
  /\ saving' = Tail(saving)
  /\ UNCHANGED <<setup, netVars, lanVars, jlp, acked, synced, used, calm>>

\* A callback that fails ends the save; its result is not looked at.
SaveRefused ==
  /\ ~calm /\ saving # <<>> /\ Head(saving) # "reply"
  /\ saving' = <<>>
  /\ acked' = [keys |-> jlp.feedid, refused |-> TRUE]
  /\ UNCHANGED <<setup, netVars, lanVars, jlp, flash, synced, used, calm>>

WriteKeyReply ==
  /\ saving = <<"reply">>
  /\ saving' = <<>>
  /\ acked' = [keys |-> jlp.feedid, refused |-> FALSE]
  /\ UNCHANGED <<setup, netVars, lanVars, jlp, flash, synced, used, calm>>

\* joylink_proc_lan_script_ctrl changes the state, _json_ctrl does not in this
\* application; both upload it.
LanCtrl ==
  /\ Lan("ctrl")
  /\ \E changed \in BOOLEAN : synced' = IF changed THEN Reaches ELSE Uploaded
  /\ UNCHANGED <<setup, netVars, keyVars, lanVars, used, calm>>

\* joylink_proc_lan with total > 1.  What is joined would be served like one packet.
LanPart ==
  /\ Lan("part")
  /\ \E from \in Senders, id \in MessageIds, index \in 1..Parts :
       \E r \in {AddData(jps, from, id, [total |-> Parts, index |-> index],
                         <<from, id, index>>)} :
         /\ \A i \in 1..Slots : Len(r.jps[i].list) <= MaxParts
         /\ jps' = r.jps
         /\ joined' = IF r.ret = "E_RET_ALL_DATA_HIT" THEN JoinData(r.jps, from, id)
                      ELSE <<>>
  /\ UNCHANGED <<setup, netVars, keyVars, synced, subs, told, used, calm>>

\* joylink_proc_lan_sub_add
LanSubAdd ==
  /\ Lan("sub")
  /\ \E d \in SubDevices : subs' = SubAdd(subs, d)
  /\ UNCHANGED <<setup, netVars, keyVars, synced, jps, joined, told, used, calm>>

\* joylink_proc_lan_sub_auth: the sender is told success, also of a device that has no
\* row; told notes the devices that have one.
LanSubAuth ==
  /\ Lan("sub") /\ used < SubBindings
  /\ used' = used + 1
  /\ \E d \in SubDevices :
       /\ subs' = UpdateKeys(subs, d, used + 1)
       /\ told' = IF \E i \in DOMAIN subs.rows : subs.rows[i].dev = d
                  THEN [told EXCEPT ![d] = used + 1] ELSE told
  /\ UNCHANGED <<setup, netVars, keyVars, synced, jps, joined, calm>>

-----------------------------------------------------------------------------
\* The device starts again: joylink_dev_get_jlp_info loads the keys; the rest of its
\* memory is as compiled.
Restart ==
  /\ ~calm
  /\ jlp' = flash /\ saving' = <<>>
  /\ server_st' = "INIT" /\ server_socket' = NoSocket /\ hb_lost_count' = 0
  /\ session' = "none" /\ open' = 0 /\ cloud' = NoCloud /\ inbox' = <<>>
  /\ jps' = NoParts /\ joined' = <<>>
  /\ subs' = FirstTable /\ told' = [d \in SubDevices |-> 0]
  /\ UNCHANGED <<setup, flash, acked, synced, used, calm>>

BecomeCalm ==
  /\ ~calm /\ calm' = TRUE
  /\ UNCHANGED <<setup, netVars, keyVars, lanVars, synced, used>>

DeviceNext ==
  \/ ConnectTurn \/ AuthTurn \/ WorkTurn
  \/ AuthRead \/ HbRead \/ CtrlRead \/ BrokenRead \/ CloseRead
  \/ CloudCtrl \/ LinkLost
  \/ WriteKey \/ SaveStep \/ SaveRefused \/ WriteKeyReply
  \/ LanCtrl \/ LanPart \/ LanSubAdd \/ LanSubAuth
  \/ Restart \/ BecomeCalm

\* The main loop never stops: it comes to its timer again and again, and reads what
\* there is; a save goes on; faults and local traffic end.
DeviceFairness ==
  /\ WF_deviceVars(ConnectTurn \/ AuthTurn \/ WorkTurn)
  /\ WF_deviceVars(AuthRead \/ HbRead \/ CtrlRead \/ BrokenRead \/ CloseRead)
  /\ WF_deviceVars(SaveStep \/ WriteKeyReply)
  /\ WF_deviceVars(BecomeCalm)

DeviceSpec == DeviceInit /\ [][DeviceNext]_deviceVars /\ DeviceFairness

-----------------------------------------------------------------------------
(* Properties *)

\* There is a connection exactly in AUTH and WORK, it is the only one, and the loop
\* knows its number: no socket is lost when time-outs, closed connections and failed
\* connects follow each other.
OneConnection ==
  /\ open = IF server_st = "INIT" THEN 0 ELSE 1
  /\ server_st # "INIT" => server_socket = Fd
  /\ hb_lost_count <= MaxLost + 1

\* The device works only on a connection on which the cloud gave it the session key
\* it holds, however late answers are read and whatever keys were written between.
WorkMeansSession ==
  server_st = "WORK" => session = "this" /\ cloud.authed

\* Keys a reply was sent for, and whose save was not refused, are in flash and survive
\* every restart, until newer ones are written; a save cut off leaves the feedid at
\* least as new as the accesskey and this as the localkey.  (The server may be newer:
\* a packet that does not parse stores it again without the rest.)
KeysDurable ==
  /\ acked.keys # 0 /\ ~acked.refused /\ acked.keys = used =>
       flash = Keys(acked.keys)
  /\ flash.feedid >= flash.accesskey /\ flash.accesskey >= flash.localkey

\* When nothing fails any more, a device with the keys of one binding comes to work
\* for good, and what happened to its state, while it was away too, is told to the
\* cloud (by a gateway only the state of its sub-devices is).
Keyed == jlp.feedid # 0 /\ jlp.accesskey = jlp.feedid /\ jlp.server = jlp.feedid
Settles == <>[](Keyed => server_st = "WORK" /\ (setup.gw \/ synced))

\* A slot holds parts of one message of one sender, and no message has two slots,
\* in whatever order and however often parts arrive.
PartsApart ==
  \A i \in 1..Slots : jps[i].is_run =>
    /\ \A k \in DOMAIN jps[i].list :
         jps[i].list[k].data = <<jps[i].name, jps[i].id, jps[i].list[k].id>>
    /\ SlotsOf(jps, jps[i].name, jps[i].id) = {i}

\* The feedid a sub-device was given last leads to a row of that device, also after it
\* was added again or given other keys before: its controls are decrypted with them.
SubKeysKept ==
  \A d \in SubDevices : told[d] # 0 =>
    /\ RowsWith(subs, told[d]) # {}
    /\ subs.rows[RowOfFeedid(subs, told[d])].dev = d
    /\ \A i \in DOMAIN subs.rows : subs.rows[i].dev = d => subs.rows[i].keys \in {0, told[d]}

\* Not met: once all parts of a message are in its slot, it is handed on (the count of
\* parts is never increased).
HitWhenComplete ==
  \A i \in 1..Slots : jps[i].is_run /\ HasAll(jps[i]) => joined # <<>>
==============================================================================
